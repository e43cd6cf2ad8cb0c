------------------------------ MODULE Grading ------------------------------
(***************************************************************************)
(* From CODE_RUN or CODE_SUBMIT to the result the room sees: the cases an  *)
(* execution loads, the Python harness that runs each case in a process of *)
(* its own (services/pythonHarness.ts), what Judge0 answers, and the       *)
(* grading of its answer (services/ExecutionService.ts and                 *)
(* handlers/executionHandler.ts).  The limits that an execution passes     *)
(* first are in RoomSession.  Values are abstracted to their comparison    *)
(* with the expected one: an answer is "same" or "other".                  *)
(***************************************************************************)
EXTENDS Integers, Sequences, FiniteSets, SequencesExt

CONSTANTS
    Problems,      \* records with the form and the cases of module Fixtures
    Customs,       \* the sequences of custom cases a room may have
    MaxSurprises   \* bound: the answers of an execution that are not Usual ones

VARIABLES
    problem, mode, custom,   \* what is executed: the problem, "run" or "submit"
    correct,    \* the code of the room solves the problem as its text describes it
    stage,      \* "idle", "harness", "preflight", "cases", "answered", "replied"
    answers,    \* what the child processes delivered, case by case
    judge0,     \* the answer of Judge0
    reply       \* what the room was sent
gradingVars == <<problem, mode, custom, correct, stage, answers, judge0, reply>>

\* jsonOnly: the input has a literal of JSON that is no name of Python: null, true, false.
Case == [visible : BOOLEAN, jsonOnly : BOOLEAN, right : BOOLEAN, several : BOOLEAN]

\* The rows of a problem say which cases are visible; a custom case is (loadTestCases),
\* and a room may have none.
ASSUME CasesAssumption ==
    /\ \A p \in Problems : p.cases \in Seq(Case)
    /\ <<>> \in Customs
    /\ \A s \in Customs : s \in Seq({c \in Case : c.visible})

Nothing == [type |-> "none"]
Error(type) == [type |-> "error", errorType |-> type]

\* findVisible: the visible cases of a problem, in their order.
findVisible(cases) ==
    LET Found[n \in 0..Len(cases)] ==
          IF n = 0 THEN <<>>
          ELSE IF cases[n].visible THEN Append(Found[n - 1], cases[n]) ELSE Found[n - 1]
    IN Found[Len(cases)]

(***************************************************************************)
(* loadTestCases: a submission runs every case of the problem, a run the   *)
(* visible ones and the custom ones of the room.                           *)
(***************************************************************************)
Loaded == IF mode = "submit" THEN problem.cases
          ELSE findVisible(problem.cases) \o custom

(***************************************************************************)
(* The answers of a child process.  The harness passes the JSON values of  *)
(* the fixture to the method and serialises what it returns, so that of    *)
(* correct code only the forms "value" and (for the cases whose answer is  *)
(* unique) the right fixtures are graded as they should.                   *)
(***************************************************************************)
Statuses == {"same", "other", "unserializable", "error"}

CorrectAnswers(c) ==
    CASE problem.form = "value" -> {"other"} \cup IF c.right THEN {"same"} ELSE {}
      [] problem.form = "node" -> Statuses
      [] problem.form = "class" -> {"error"}
      [] OTHER -> {"other"}

\* The code may return anything, but correct code an answer that is right.
Answers(c) ==
    IF ~correct THEN Statuses
    ELSE IF problem.form = "value" /\ c.right /\ ~c.several THEN {"same"}
    ELSE CorrectAnswers(c)

Usual(c) == IF problem.form \in {"node", "class"} THEN "error"
            ELSE IF problem.form = "value" /\ c.right THEN "same" ELSE "other"
Surprises == Cardinality({i \in DOMAIN answers : answers[i] # Usual(Loaded[i])})

-----------------------------------------------------------------------------
GradingInit ==
    /\ problem \in Problems /\ mode = "run" /\ custom = <<>> /\ correct = FALSE
    /\ stage = "idle" /\ answers = <<>> /\ judge0 = Nothing /\ reply = Nothing

\* handleExecution has the room's lock; loadExecutionResources reads the code and the cases.
Start ==
    /\ stage = "idle"
    /\ \/ mode' = "run" /\ custom' \in Customs
       \/ mode' = "submit" /\ custom' = custom
    /\ correct' \in BOOLEAN
    /\ stage' = "harness"
    /\ UNCHANGED <<problem, answers, judge0, reply>>

Answered(answer) == /\ judge0' = answer /\ stage' = "answered"
                    /\ UNCHANGED <<problem, mode, custom, correct, answers, reply>>

(***************************************************************************)
(* The source that Judge0 runs is the harness with the inputs of the cases *)
(* as JSON text in a Python list: null, true and false are undefined names *)
(* there, and the parent stops before any child runs.                      *)
(***************************************************************************)
HarnessStarts ==
    /\ stage = "harness"
    /\ IF \E i \in DOMAIN Loaded : Loaded[i].jsonOnly
       THEN Answered([type |-> "status", id |-> 11])
       ELSE /\ stage' = "preflight"
            /\ UNCHANGED <<problem, mode, custom, correct, answers, judge0, reply>>

\* _child_preflight executes the module.  If that fails, or the process does, the parent
\* prints the failure and no result.
Preflight ==
    /\ stage = "preflight"
    /\ \/ /\ stage' = "cases"
          /\ UNCHANGED <<problem, mode, custom, correct, answers, judge0, reply>>
       \/ ~correct /\ Answered([type |-> "module", error |-> "COMPILATION_ERROR"])
       \/ Answered([type |-> "module", error |-> "RUNTIME_ERROR"])

(***************************************************************************)
(* _run_child for the next case: the child delivers a result, or it ends   *)
(* without one (it times out, dies, prints too much: "child").             *)
(***************************************************************************)
RunChild ==
    /\ stage = "cases" /\ Len(answers) < Len(Loaded)
    /\ LET c == Loaded[Len(answers) + 1]
       IN \E a \in Answers(c) \cup {"child"} :
            /\ a # Usual(c) => Surprises < MaxSurprises
            /\ answers' = Append(answers, a)
    /\ UNCHANGED <<problem, mode, custom, correct, stage, judge0, reply>>

\* _child_case and _child_failure_result: the entry of the payload for a case.
CaseResult(i) == [index |-> i - 1, status |-> IF answers[i] = "child" THEN "error" ELSE answers[i]]

\* _emit_result: the payload with one entry for every case; it may be too long.
EmitResult ==
    /\ stage = "cases" /\ Len(answers) = Len(Loaded)
    /\ \/ Answered([type |-> "payload", results |-> [i \in DOMAIN answers |-> CaseResult(i)]])
       \/ \E e \in {"payload_too_large", "malformed_json", "missing_markers"} :
            Answered([type |-> "unreadable", reason |-> e])

\* Judge0 stops the parent at the problem's time limit (5), or reports another status.
Judge0Stops ==
    /\ stage \in {"preflight", "cases"}
    /\ \E id \in {5, 6, 7} : Answered([type |-> "status", id |-> id])

\* The request fails: Judge0Client throws and the error's message goes to the room.
RequestFails ==
    /\ stage \in {"harness", "preflight", "cases"}
    /\ Answered([type |-> "failed"])

-----------------------------------------------------------------------------
(***************************************************************************)
(* gradeHarnessResults: null unless the payload has each index once; then  *)
(* in the order of the cases, a case is passed when the values are equal.  *)
(***************************************************************************)
HasExactCaseIndexes(results) ==
    /\ Len(results) = Len(Loaded)
    /\ {r.index : r \in ToSet(results)} = 0..(Len(Loaded) - 1)

ResultOf(results, i) == CHOOSE r \in ToSet(results) : r.index = i - 1
\* Mutant: the results are matched with the cases by an index that starts at one.
PassedFromOne(results) == {i \in DOMAIN Loaded : ResultOf(results, (i % Len(Loaded)) + 1).status = "same"}
Passed(results) == {i \in DOMAIN Loaded : ResultOf(results, i).status = "same"}

\* buildRunResult: a case that is not passed shows its input and its expected value or error.
RunResult(results) ==
    [type |-> "run", passed |-> Cardinality(Passed(results)), total |-> Len(Loaded),
     cases |-> [i \in DOMAIN Loaded |-> i \in Passed(results)],
     shown |-> DOMAIN Loaded \ Passed(results)]

\* The first case that failed, 0 if there is none.
FirstFailed(results) ==
    LET failed == DOMAIN Loaded \ Passed(results)
    IN IF failed = {} THEN 0 ELSE CHOOSE i \in failed : \A j \in failed : i <= j

\* Mutant: a failure shows its case, also a hidden one.
ShownByFailureOfAny(results) == {FirstFailed(results)} \ {0}
\* firstFailure shows the input and the values of its case unless it is a hidden one.
ShownByFailure(results) ==
    LET first == FirstFailed(results)
    IN IF first # 0 /\ Loaded[first].visible THEN {first} ELSE {}

SubmitResult(results) ==
    [type |-> "submit", passed |-> Cardinality(Passed(results)), total |-> Len(Loaded),
     firstFailure |-> FirstFailed(results),
     shown |-> ShownByFailure(results)]

\* emitJudge0StatusError, handleAcceptedExecutionResult and the catch of handleExecution.
Verdict ==
    CASE judge0.type = "failed" -> Error("API_ERROR")
      [] judge0.type = "status" ->
            Error(IF judge0.id = 5 THEN "TIMEOUT" ELSE IF judge0.id = 6 THEN "COMPILATION_ERROR"
                  ELSE "RUNTIME_ERROR")
      [] judge0.type = "module" -> Error(judge0.error)
      [] judge0.type = "unreadable" ->
            Error(IF judge0.reason = "payload_too_large" THEN "OUTPUT_LIMIT" ELSE "PARSE_ERROR")
      [] OTHER -> IF ~HasExactCaseIndexes(judge0.results) THEN Error("PARSE_ERROR")
                  ELSE IF mode = "run" THEN RunResult(judge0.results)
                  ELSE SubmitResult(judge0.results)

\* The room receives EXECUTION_RESULT or EXECUTION_ERROR.
Reply ==
    /\ stage = "answered"
    /\ reply' = Verdict
    /\ stage' = "replied"
    /\ UNCHANGED <<problem, mode, custom, correct, answers, judge0>>

\* The finally of handleExecution: the lock is released, the room may execute again.
Finish ==
    /\ stage = "replied"
    /\ stage' = "idle" /\ mode' = "run" /\ custom' = <<>> /\ correct' = FALSE
    /\ answers' = <<>> /\ judge0' = Nothing /\ reply' = Nothing
    /\ UNCHANGED problem

GradingNext == \/ Start \/ HarnessStarts \/ Preflight \/ RunChild \/ EmitResult
               \/ Judge0Stops \/ RequestFails \/ Reply \/ Finish

GradingSpec == GradingInit /\ [][GradingNext]_gradingVars

-----------------------------------------------------------------------------
\* The variables have the values the code gives them: there is at most one answer for a
\* case that was loaded, and a reply only to an answer of Judge0.
GradingTypeOK ==
    /\ problem \in Problems /\ custom \in Customs
    /\ mode \in {"run", "submit"} /\ correct \in BOOLEAN
    /\ stage \in {"idle", "harness", "preflight", "cases", "answered", "replied"}
    /\ answers \in Seq(Statuses \cup {"child"}) /\ Len(answers) <= Len(Loaded)
    /\ judge0.type \in {"none", "status", "module", "payload", "unreadable", "failed"}
    /\ reply.type \in {"none", "error", "run", "submit"}
    /\ (reply.type # "none") = (stage = "replied")

HasResult == reply.type \in {"run", "submit"}

(***************************************************************************)
(* A result is about the answers of this execution, case by case: a        *)
(* submission counts every case of the problem, also the hidden ones, and  *)
(* names the least case that failed; a run marks exactly the visible and   *)
(* the custom cases that were answered with the expected value.            *)
(***************************************************************************)
Right(i) == answers[i] = "same"
ResultMatchesAnswers ==
    HasResult =>
        /\ reply.total = Len(answers)
        /\ reply.passed = Cardinality({i \in DOMAIN answers : Right(i)})
        /\ mode = "submit" =>
             /\ reply.total = Len(problem.cases)
             /\ \A i \in DOMAIN answers : ~Right(i) =>
                    reply.firstFailure # 0 /\ reply.firstFailure <= i
             /\ reply.firstFailure # 0 => ~Right(reply.firstFailure)
        /\ mode = "run" =>
             /\ reply.total = Cardinality({i \in DOMAIN problem.cases : problem.cases[i].visible})
                              + Len(custom)
             /\ \A i \in DOMAIN answers : reply.cases[i] = Right(i)

(***************************************************************************)
(* No result shows the input or the expected value of a hidden case        *)
(* (buildSubmitResult replaces them by a text; a run never loads one).     *)
(***************************************************************************)
HiddenStayHidden ==
    HasResult => \A i \in reply.shown : Loaded[i].visible

(***************************************************************************)
(* What a submission counts as passed is an answer that the text of the    *)
(* problem accepts: the expected output of the fixture is a right one, and *)
(* the grader compares each answer with the expected output of its case.   *)
(***************************************************************************)
PassedIsAccepted ==
    HasResult /\ mode = "submit" =>
        \A i \in DOMAIN answers : Right(i) => problem.cases[i].right

(***************************************************************************)
(* Code that solves the problem passes, when no child process failed.      *)
(* What the descriptions promise (arrays-hashing.ts, two-sum: "You can     *)
(* return the answer in any order.").                                      *)
(***************************************************************************)
CorrectSolutionsPass ==
    HasResult /\ mode = "submit" /\ correct /\ "child" \notin ToSet(answers) =>
        reply.passed = reply.total

\* The expected output of every case is one that the description accepts, if the problem
\* can be submitted at all (a null, true or false in an input stops the harness).
RightFixtures ==
    \A p \in Problems :
        (\A i \in DOMAIN p.cases : ~p.cases[i].jsonOnly) => \A i \in DOMAIN p.cases : p.cases[i].right

(***************************************************************************)
(* It holds of the problems whose method maps JSON values to one JSON      *)
(* value, and no limit of the harness is in the way: every such case that  *)
(* correct code was given is passed.                                       *)
(***************************************************************************)
Plain == /\ problem.form = "value"
         /\ \A i \in DOMAIN problem.cases : ~problem.cases[i].jsonOnly /\ ~problem.cases[i].several
PlainSolutionsPass == Plain => CorrectSolutionsPass
=============================================================================
