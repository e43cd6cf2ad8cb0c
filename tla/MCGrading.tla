----------------------------- MODULE MCGrading -----------------------------
(* Grading on the curated problems of the repository. *)
EXTENDS Grading

A == INSTANCE FixturesArrays
S == INSTANCE FixturesSearch
L == INSTANCE FixturesLists
T == INSTANCE FixturesTrees
C == INSTANCE FixturesChoices
G == INSTANCE FixturesGraphs
P == INSTANCE FixturesPrograms
I == INSTANCE FixturesIntervals
N == INSTANCE FixturesNumbers

Curated == UNION {A!ArraysProblems, S!SearchProblems, L!ListsProblems, T!TreesProblems,
                  C!ChoicesProblems, G!GraphsProblems, P!ProgramsProblems,
                  I!IntervalsProblems, N!NumbersProblems}

\* Curated problems with a case whose expected output is wrong.
KnownWrong == {"combination-sum", "n-queens", "swim-in-rising-water", "target-sum", "burst-balloons"}

\* Grading depends on the form and the cases of a problem only.
Shape(f) == [form |-> f.form, cases |-> f.cases]
MCProblems == {Shape(f) : f \in {g \in Curated : g.slug \notin KnownWrong}}
Examples == {A!TwoSum, T!InvertBinaryTree}

Custom(jsonOnly) == [visible |-> TRUE, jsonOnly |-> jsonOnly, right |-> TRUE, several |-> FALSE]
MCCustoms == {<<>>, <<Custom(FALSE)>>, <<Custom(TRUE)>>}
=============================================================================
