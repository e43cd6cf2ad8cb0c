-------------------------- MODULE ProblemCatalogue --------------------------
(***************************************************************************)
(* The problem catalogue: how a problem gets into the database, stays      *)
(* there, and gets its hidden test cases.                                  *)
(*                                                                         *)
(* A problem is a row with child rows: test cases, a boilerplate, hints.   *)
(* The rows are written one at a time, outside any transaction, by an      *)
(* import or by the seed script; a writer that fails deletes the problem   *)
(* it created, and its children with it.  Others see the problem meanwhile *)
(* and take it for an existing one.  Whoever loads an imported problem     *)
(* into a room has hidden test cases generated for it in the background.   *)
(*                                                                         *)
(* Abstractions.  Problems with different slugs share nothing, so there is *)
(* one slug.  Its source URL names it as well, and the two look-ups of an  *)
(* import are one.  A query is one step; it may fail without effect, or    *)
(* have its effect and lose the answer.  LeetCode and the language model   *)
(* answer with something usable or fail.                                   *)
(***************************************************************************)
EXTENDS Naturals, FiniteSets, Sequences

CONSTANTS
  Importers,     \* imports of the problem that may be under way in the server
  Seeder,        \* the seed script
  Visible,       \* number of visible test cases
  MaxCases,      \* most test cases that a generation adds
  MaxIds         \* bound: rows ever inserted into problems

ASSUME CatalogueAssumption ==
  /\ Seeder \notin Importers
  /\ Visible \in Nat \ {0} /\ MaxCases \in Nat \ {0} /\ MaxIds \in Nat

Writers == Importers \cup {Seeder}

VARIABLES
  row,         \* the problem with its child rows, or NoRow
  lastId,      \* the last id given to a row of problems
  writer,      \* progress of each import and of the seed
  generator,   \* the background generation that each import started
  severed      \* a row was left behind: a process died, or an answer was lost

vars == <<row, lastId, writer, generator, severed>>

\* tests maps the order_index of a test case to whether it is visible, and "by"
\* is the writer that inserted the row.
NewRow(id, w) == [id |-> id, by |-> w, deleted |-> FALSE, tests |-> [k \in {} |-> FALSE],
                  boilerplate |-> FALSE, hints |-> FALSE]

\* No problem has the slug; ids begin with 1.
NoRow == NewRow(0, Seeder)
Exists(id) == row # NoRow /\ row.id = id

IdleWriter == [pc |-> "idle", id |-> 0, step |-> 1]
IdleGenerator == [pc |-> "idle", id |-> 0, attempt |-> 0, start |-> 0]

\* A partial function with one more point.
With(f, x, y) == [z \in DOMAIN f \cup {x} |-> IF z = x THEN y ELSE f[z]]
Hidden(f) == {k \in DOMAIN f : ~f[k]}
NextIndex(f) == IF DOMAIN f = {} THEN 0 ELSE 1 + CHOOSE k \in DOMAIN f : \A j \in DOMAIN f : j <= k

-----------------------------------------------------------------------------
Init ==
  /\ row = NoRow /\ lastId = 0
  /\ writer = [w \in Writers |-> IdleWriter]
  /\ generator = [p \in Importers |-> IdleGenerator]
  /\ severed = FALSE

Becomes(w, pc) == writer' = [writer EXCEPT ![w].pc = pc]
Ends(w) == writer' = [writer EXCEPT ![w] = IdleWriter]

\* The script softDeleteProblem, or the cleanup of imported problems.
SoftDelete ==
  /\ row # NoRow /\ ~row.deleted
  /\ row' = [row EXCEPT !.deleted = TRUE]
  /\ UNCHANGED <<lastId, writer, generator, severed>>

-----------------------------------------------------------------------------
(* Writers.                                                                *)

\* Mutant: the boilerplate is written first.
ImportWritesBoilerplateFirst ==
  <<[child |-> "boilerplate", index |-> 0]>> \o
  [k \in 1..Visible |-> [child |-> "visible", index |-> k - 1]]

\* The child rows of an import, in the order in which they are written.
ImportWrites ==
  [k \in 1..Visible |-> [child |-> "visible", index |-> k - 1]] \o
  <<[child |-> "boilerplate", index |-> 0]>>

\* The child rows of a fixture, which has hidden test cases and hints of its own.
SeedWrites ==
  [k \in 1..Visible + 1 |-> [child |-> IF k <= Visible THEN "visible" ELSE "hidden", index |-> k - 1]] \o
  <<[child |-> "boilerplate", index |-> 0], [child |-> "hints", index |-> 0]>>

Writes(w) == IF w = Seeder THEN SeedWrites ELSE ImportWrites

\* The row with one child row more.
WithChild(r, c) ==
  CASE c.child = "boilerplate" -> [r EXCEPT !.boilerplate = TRUE]
    [] c.child = "hints" -> [r EXCEPT !.hints = TRUE]
    [] OTHER -> [r EXCEPT !.tests = With(@, c.index, c.child = "visible")]

\* An import or a seed looks for the problem, deleted or not: an import loads
\* what it finds, a seed skips it, and either restores it first if it is deleted.
Find(w) ==
  /\ writer[w].pc = "idle"
  /\ IF row = NoRow
     THEN Becomes(w, IF w = Seeder THEN "creating" ELSE "fetching")
     ELSE writer' = [writer EXCEPT ![w] = [IdleWriter EXCEPT
            !.pc = IF row.deleted THEN "restoring" ELSE IF w = Seeder THEN "idle" ELSE "loading",
            !.id = IF row.deleted \/ w # Seeder THEN row.id ELSE 0]]
  /\ UNCHANGED <<row, lastId, generator, severed>>

\* restoreById, which does nothing if the row has gone.
Restore(w) ==
  /\ writer[w].pc = "restoring"
  /\ row' = IF Exists(writer[w].id) THEN [row EXCEPT !.deleted = FALSE] ELSE row
  /\ IF w = Seeder THEN Ends(w) ELSE Becomes(w, "loading")
  /\ UNCHANGED <<lastId, generator, severed>>

\* LeetCode's answer was fetched and parsed.
Fetch(w) ==
  /\ writer[w].pc = "fetching"
  /\ Becomes(w, "creating")
  /\ UNCHANGED <<row, lastId, generator, severed>>

\* Mutant: an insert that finds the slug taken returns the row there is.
CreateOrUpdate(w, answered) ==
  /\ writer[w].pc = "creating" /\ lastId < MaxIds
  /\ row' = IF row = NoRow THEN NewRow(lastId + 1, w) ELSE row
  /\ lastId' = IF row = NoRow THEN lastId + 1 ELSE lastId
  /\ writer' = [writer EXCEPT ![w] = [IdleWriter EXCEPT !.pc = "writing", !.id = row'.id]]
  /\ UNCHANGED <<generator, severed>>

\* problemRepository.create, which fails if the slug is taken.  If its answer is lost the writer does not know the id.
Create(w, answered) ==
  /\ writer[w].pc = "creating" /\ row = NoRow /\ lastId < MaxIds
  /\ lastId' = lastId + 1
  /\ row' = NewRow(lastId + 1, w)
  /\ IF answered
     THEN /\ writer' = [writer EXCEPT ![w] = [IdleWriter EXCEPT !.pc = "writing", !.id = lastId + 1]]
          /\ UNCHANGED severed
     ELSE Ends(w) /\ severed' = TRUE
  /\ UNCHANGED generator

\* A search, a restoration, a fetch or a load fails, or a slug is taken: nothing to roll back.
FailsEarly(w) ==
  /\ writer[w].pc \in {"restoring", "fetching", "creating", "loading"}
  /\ Ends(w)
  /\ UNCHANGED <<row, lastId, generator, severed>>

\* The next child row, whose problem and whose place must be there.
Insertable(w) ==
  /\ Exists(writer[w].id)
  /\ LET c == Writes(w)[writer[w].step]
     IN c.child \in {"visible", "hidden"} => c.index \notin DOMAIN row.tests

WriteChild(w, answered) ==
  /\ writer[w].pc = "writing" /\ Insertable(w)
  /\ row' = WithChild(row, Writes(w)[writer[w].step])
  /\ IF ~answered THEN Becomes(w, "deleting")
     ELSE IF writer[w].step < Len(Writes(w)) THEN writer' = [writer EXCEPT ![w].step = @ + 1]
     ELSE IF w = Seeder THEN Ends(w)
     ELSE Becomes(w, "loading")
  /\ UNCHANGED <<lastId, generator, severed>>

\* Mutant: the catch block rethrows only.
WriteFailsSilently(w) ==
  /\ writer[w].pc = "writing"
  /\ Ends(w)
  /\ UNCHANGED <<row, lastId, generator, severed>>

\* An insert fails: the catch block is entered.
WriteFails(w) ==
  /\ writer[w].pc = "writing"
  /\ Becomes(w, "deleting")
  /\ UNCHANGED <<row, lastId, generator, severed>>

\* deleteById(createdProblem.id).
Rollback(w) ==
  /\ writer[w].pc = "deleting"
  /\ row' = IF Exists(writer[w].id) THEN NoRow ELSE row
  /\ Ends(w)
  /\ UNCHANGED <<lastId, generator, severed>>

RollbackFails(w) ==
  /\ writer[w].pc = "deleting"
  /\ Ends(w) /\ severed' = TRUE
  /\ UNCHANGED <<row, lastId, generator>>

\* The problem is loaded into the room of an import, and a generation starts
\* if it has a boilerplate (bound: and if that of the last import has ended).  It cannot be loaded if it has gone.
Load(p) ==
  /\ writer[p].pc = "loading" /\ Exists(writer[p].id) /\ ~row.deleted
  /\ Ends(p)
  /\ IF row.boilerplate /\ generator[p].pc = "idle"
     THEN generator' = [generator EXCEPT ![p] = [IdleGenerator EXCEPT !.pc = "counting", !.id = row.id]]
     ELSE UNCHANGED generator
  /\ UNCHANGED <<row, lastId, severed>>

-----------------------------------------------------------------------------
(* Generators.                                                             *)

GeneratorEnds(p) == generator' = [generator EXCEPT ![p] = IdleGenerator]

\* countHidden: a problem that has hidden test cases gets no more.
CountHidden(p) ==
  /\ generator[p].pc = "counting"
  /\ IF Exists(generator[p].id) /\ Hidden(row.tests) # {}
     THEN GeneratorEnds(p)
     ELSE generator' = [generator EXCEPT ![p].pc = "calling"]
  /\ UNCHANGED <<row, lastId, writer, severed>>

\* The model's cases, checked and verified, are some: their place is looked up.
Place(p) ==
  /\ generator[p].pc = "calling"
  /\ generator' = [generator EXCEPT ![p].pc = "inserting",
       ![p].start = IF Exists(generator[p].id) THEN NextIndex(row.tests) ELSE 0]
  /\ UNCHANGED <<row, lastId, writer, severed>>

\* n hidden cases in the places from "start" on, in one statement: ON CONFLICT DO NOTHING.
PutMany(tests, start, n) ==
  [k \in DOMAIN tests \cup start..start + n - 1 |-> k \in DOMAIN tests /\ tests[k]]

\* A second attempt begins with the count; then the generation is given up.
AttemptFails(p) ==
  IF generator[p].attempt = 0
  THEN generator' = [generator EXCEPT
         ![p] = [pc |-> "counting", id |-> generator[p].id, attempt |-> 1, start |-> 0]]
  ELSE GeneratorEnds(p)

CreateMany(p, n, answered) ==
  /\ generator[p].pc = "inserting" /\ Exists(generator[p].id)
  /\ row' = [row EXCEPT !.tests = PutMany(@, generator[p].start, n)]
  /\ IF answered THEN GeneratorEnds(p) ELSE AttemptFails(p)
  /\ UNCHANGED <<lastId, writer, severed>>

\* A query or the model fails, or no case is left: that ends the generation at once.
GenerationFails(p) ==
  /\ generator[p].pc # "idle"
  /\ AttemptFails(p)
  /\ UNCHANGED <<row, lastId, writer, severed>>

NothingGenerated(p) ==
  /\ generator[p].pc = "calling"
  /\ GeneratorEnds(p)
  /\ UNCHANGED <<row, lastId, writer, severed>>

-----------------------------------------------------------------------------
\* A writer has created a row that is not finished.
AtWork(w) == writer[w].pc \in {"writing", "deleting"}

ServerCrashes ==
  /\ \E p \in Importers : writer[p].pc # "idle" \/ generator[p].pc # "idle"
  /\ writer' = [w \in Writers |-> IF w = Seeder THEN writer[w] ELSE IdleWriter]
  /\ generator' = [p \in Importers |-> IdleGenerator]
  /\ severed' = (severed \/ \E p \in Importers : AtWork(p))
  /\ UNCHANGED <<row, lastId>>

SeedDies ==
  /\ writer[Seeder].pc # "idle"
  /\ Ends(Seeder)
  /\ severed' = (severed \/ AtWork(Seeder))
  /\ UNCHANGED <<row, lastId, generator>>

WriterStep(w) ==
  \/ Find(w) \/ Restore(w) \/ Fetch(w) \/ FailsEarly(w) \/ WriteFails(w)
  \/ \E answered \in BOOLEAN : Create(w, answered) \/ WriteChild(w, answered)
  \/ Rollback(w) \/ RollbackFails(w)

GeneratorStep(p) ==
  \/ Load(p) \/ CountHidden(p) \/ Place(p) \/ GenerationFails(p) \/ NothingGenerated(p)
  \/ \E n \in 1..MaxCases, answered \in BOOLEAN : CreateMany(p, n, answered)

Next ==
  \/ \E w \in Writers : WriterStep(w)
  \/ \E p \in Importers : GeneratorStep(p)
  \/ SoftDelete \/ ServerCrashes \/ SeedDies

Spec == Init /\ [][Next]_vars

-----------------------------------------------------------------------------
(* Properties.                                                             *)

\* Two generations that overlap add at most this many cases each.
TestsBound == Visible + 1 + MaxCases * (2 * Cardinality(Importers))

\* The variables have the values the code gives them.
TypeOK ==
  /\ row # NoRow =>
       /\ row.id \in 1..lastId /\ row.by \in Writers /\ DOMAIN row.tests \subseteq 0..TestsBound
       /\ row.deleted \in BOOLEAN /\ row.boilerplate \in BOOLEAN /\ row.hints \in BOOLEAN
  /\ lastId \in 0..MaxIds /\ severed \in BOOLEAN
  /\ writer \in [Writers -> [id : 0..lastId, step : 1..Visible + 4,
       pc : {"idle", "restoring", "fetching", "creating", "writing", "deleting", "loading"}]]
  /\ generator \in [Importers -> [id : 0..lastId, attempt : 0..1, start : 0..TestsBound + 1,
       pc : {"idle", "counting", "calling", "inserting"}]]

\* A problem with all that its visible test cases and its boilerplate tell a room.
Playable == row.boilerplate /\ \A k \in 0..Visible - 1 : k \in DOMAIN row.tests /\ row.tests[k]

\* An import or a seed leaves a whole problem or none, whatever fails, unless
\* its process dies, its rollback fails, or the answer to the first insert is lost.
PartialRowsOwned ==
  row # NoRow /\ ~Playable => severed \/ \E w \in Writers : AtWork(w) /\ writer[w].id = row.id

\* Writers that race for one slug do not roll back each other's problem: a
\* problem goes only by a step of the writer that created it.
RollbackOwnRow ==
  [][row # NoRow /\ row' = NoRow =>
       writer[row.by].pc = "deleting" /\ writer[row.by].id = row.id]_vars

\* Generated test cases follow the visible ones without a gap and replace none
\* of them, although the place of a generation is looked up before it is taken
\* and the problem may be half written when it is found.
TestsInOrder ==
  row # NoRow =>
    /\ DOMAIN row.tests = 0..Cardinality(DOMAIN row.tests) - 1
    /\ \A k \in Hidden(row.tests) : k >= Visible
====
