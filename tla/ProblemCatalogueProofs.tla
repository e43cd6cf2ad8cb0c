----------------------- MODULE ProblemCatalogueProofs -----------------------
(***************************************************************************)
(* Proofs about ProblemCatalogue, for any number of imports and of visible *)
(* and generated test cases.                                               *)
(*                                                                         *)
(* The argument.  The id of a row is never given again, so the writer that *)
(* works on the row there is has created it, and is alone.  Nobody else    *)
(* adds test cases before the boilerplate is there, which comes after the  *)
(* visible test cases; so these take their places in order, and generated  *)
(* ones follow, at a place that is still within reach when it is taken.    *)
(***************************************************************************)
EXTENDS ProblemCatalogue, FiniteSetTheorems, SequenceTheorems, TLAPS

-----------------------------------------------------------------------------
(* The inductive invariant.                                                *)

\* Maps of test cases, and rows, see NewRow.
TestMaps == UNION {[places -> BOOLEAN] : places \in SUBSET Nat}
Rows == [id : Nat \ {0}, by : Writers, deleted : BOOLEAN, tests : TestMaps,
         boilerplate : BOOLEAN, hints : BOOLEAN]

WriterStates ==
  {"idle", "restoring", "fetching", "creating", "writing", "deleting", "loading"}
WriterRecord == [pc : WriterStates, id : Nat, step : Nat]
GeneratorRecord == [pc : {"idle", "counting", "calling", "inserting"}, id : Nat,
                    attempt : Nat, start : Nat]

Types ==
  /\ row = NoRow \/ row \in Rows
  /\ lastId \in Nat
  /\ writer \in [Writers -> WriterRecord]
  /\ generator \in [Importers -> GeneratorRecord]
  /\ severed \in BOOLEAN

\* The numbers of test cases, and of all child rows, that a writer writes.
TestSteps(w) == IF w = Seeder THEN Visible + 1 ELSE Visible
Steps(w) == IF w = Seeder THEN Visible + 3 ELSE Visible + 1

\* The test cases are in the places below n.
Filled(n) == DOMAIN row.tests = 0..n - 1

\* The row is as far as writer w has come.
Progress(w, step) ==
  /\ step <= TestSteps(w) => ~row.boilerplate /\ Filled(step - 1)
  /\ step > TestSteps(w) => 0..Visible - 1 \subseteq DOMAIN row.tests
  /\ step > TestSteps(w) + 1 => row.boilerplate

\* A writer that is at work on the row has created it.
WriterSane(w, r) ==
  /\ r.id <= lastId
  /\ r.pc \in {"writing", "deleting"} /\ Exists(r.id) => row.by = w
  /\ r.pc = "writing" =>
       /\ r.step \in 1..Steps(w)
       /\ Exists(r.id) => Progress(w, r.step)

\* A generation is about a row with its boilerplate, and the place it has looked up
\* is behind the visible test cases and leaves no gap.
GeneratorSane(g) ==
  /\ g.id <= lastId
  /\ g.pc # "idle" /\ Exists(g.id) => row.boilerplate
  /\ g.pc = "inserting" /\ Exists(g.id) =>
       g.start >= Visible /\ 0..g.start - 1 \subseteq DOMAIN row.tests

RowSane ==
  row # NoRow =>
    /\ row.id <= lastId
    /\ \E n \in Nat : Filled(n)
    /\ \A k \in DOMAIN row.tests : ~row.tests[k] => k >= Visible
    /\ row.boilerplate => 0..Visible - 1 \subseteq DOMAIN row.tests

CatalogueInv ==
  /\ Types
  /\ RowSane
  /\ \A w \in Writers : WriterSane(w, writer[w])
  /\ \A p \in Importers : GeneratorSane(generator[p])
  /\ PartialRowsOwned

-----------------------------------------------------------------------------
(* Rows and child rows.                                                    *)

LEMMA Options ==
  Visible \in Nat /\ Visible >= 1 /\ Seeder \notin Importers /\ Seeder \in Writers
BY CatalogueAssumption DEF CatalogueAssumption, Writers

LEMMA RowsAreRows == NoRow \notin Rows
BY DEF NoRow, NewRow, Rows

LEMMA TestMapFacts ==
  ASSUME NEW f
  PROVE  f \in TestMaps <=> DOMAIN f \in SUBSET Nat /\ f \in [DOMAIN f -> BOOLEAN]
BY DEF TestMaps

LEMMA NewRowFacts ==
  ASSUME NEW id \in Nat \ {0}, NEW w \in Writers
  PROVE  /\ NewRow(id, w) \in Rows /\ NewRow(id, w).id = id /\ NewRow(id, w).by = w
         /\ DOMAIN NewRow(id, w).tests = {} /\ ~NewRow(id, w).boilerplate
<1>1. [k \in {} |-> FALSE] \in TestMaps
    BY TestMapFacts
<1> QED
    BY <1>1 DEF NewRow, Rows

LEMMA WithFacts ==
  ASSUME NEW f \in TestMaps, NEW x \in Nat, NEW y \in BOOLEAN
  PROVE  /\ With(f, x, y) \in TestMaps
         /\ DOMAIN With(f, x, y) = DOMAIN f \cup {x}
         /\ With(f, x, y)[x] = y
         /\ \A k \in DOMAIN f : k # x => With(f, x, y)[k] = f[k]
BY TestMapFacts DEF With

LEMMA PutManyFacts ==
  ASSUME NEW f \in TestMaps, NEW start \in Nat, NEW n \in Nat
  PROVE  /\ PutMany(f, start, n) \in TestMaps
         /\ DOMAIN PutMany(f, start, n) = DOMAIN f \cup start..start + n - 1
         /\ \A k \in DOMAIN f : PutMany(f, start, n)[k] = f[k]
<1>1. DOMAIN f \in SUBSET Nat /\ f \in [DOMAIN f -> BOOLEAN]
    BY TestMapFacts
<1>2. start..start + n - 1 \in SUBSET Nat
    OBVIOUS
<1>3. \A k \in DOMAIN f : (k \in DOMAIN f /\ f[k]) = f[k]
    BY <1>1
<1>4. /\ DOMAIN PutMany(f, start, n) = DOMAIN f \cup start..start + n - 1
      /\ \A k \in DOMAIN f : PutMany(f, start, n)[k] = f[k]
    BY <1>3 DEF PutMany
<1>5. PutMany(f, start, n) \in [DOMAIN f \cup start..start + n - 1 -> BOOLEAN]
    BY <1>1 DEF PutMany
<1> QED
    BY <1>1, <1>2, <1>4, <1>5, TestMapFacts

\* The place after test cases that leave no gap.
LEMMA NextIndexFacts ==
  ASSUME NEW f, NEW n \in Nat, DOMAIN f = 0..n - 1
  PROVE  NextIndex(f) = n
<1>1. CASE n = 0
    BY <1>1 DEF NextIndex
<1>2. CASE n # 0
  <2>1. n - 1 \in DOMAIN f /\ (\A j \in DOMAIN f : j <= n - 1) /\ DOMAIN f # {}
      BY <1>2
  <2>2. ASSUME NEW k \in DOMAIN f, \A j \in DOMAIN f : j <= k PROVE k = n - 1
    <3>1. n - 1 <= k
        BY <2>1, <2>2
    <3>2. k \in Nat /\ k <= n - 1
        OBVIOUS
    <3> QED
        BY <3>1, <3>2
  <2>3. (CHOOSE k \in DOMAIN f : \A j \in DOMAIN f : j <= k) = n - 1
      BY <2>1, <2>2
  <2> QED
      BY <2>1, <2>3 DEF NextIndex
<1> QED
    BY <1>1, <1>2

Children == [child : {"visible", "hidden", "boilerplate", "hints"}, index : Nat]

LEMMA WithChildFacts ==
  ASSUME NEW r \in Rows, NEW c \in Children
  PROVE  /\ WithChild(r, c) \in Rows
         /\ WithChild(r, c).id = r.id /\ WithChild(r, c).by = r.by
         /\ WithChild(r, c).boilerplate = (r.boilerplate \/ c.child = "boilerplate")
         /\ WithChild(r, c).tests = IF c.child \in {"visible", "hidden"}
                                    THEN With(r.tests, c.index, c.child = "visible")
                                    ELSE r.tests
<1>1. /\ r.id \in Nat \ {0} /\ r.by \in Writers /\ r.deleted \in BOOLEAN
      /\ r.tests \in TestMaps /\ r.boilerplate \in BOOLEAN /\ r.hints \in BOOLEAN
      /\ c.child \in {"visible", "hidden", "boilerplate", "hints"} /\ c.index \in Nat
    BY DEF Rows, Children
<1>2. PICK t \in TestMaps : t = With(r.tests, c.index, c.child = "visible")
    BY <1>1, WithFacts
<1>3. CASE c.child = "boilerplate"
  <2>1. WithChild(r, c) = [r EXCEPT !.boilerplate = TRUE]
      BY <1>3 DEF WithChild
  <2> QED
      BY <1>1, <1>3, <2>1 DEF Rows
<1>4. CASE c.child = "hints"
  <2>1. WithChild(r, c) = [r EXCEPT !.hints = TRUE]
      BY <1>4 DEF WithChild
  <2> QED
      BY <1>1, <1>4, <2>1 DEF Rows
<1>5. CASE c.child \in {"visible", "hidden"}
  <2>1. WithChild(r, c) = [r EXCEPT !.tests = t]
      BY <1>2, <1>5 DEF WithChild
  <2> QED
      BY <1>1, <1>2, <1>5, <2>1 DEF Rows
<1> QED
    BY <1>1, <1>3, <1>4, <1>5

LEMMA ImportWritesFacts ==
  /\ ImportWrites \in Seq(Children) /\ Len(ImportWrites) = Visible + 1
  /\ \A s \in 1..Visible : ImportWrites[s] = [child |-> "visible", index |-> s - 1]
  /\ ImportWrites[Visible + 1] = [child |-> "boilerplate", index |-> 0]
<1> DEFINE tests == [k \in 1..Visible |-> [child |-> "visible", index |-> k - 1]]
           rest == <<[child |-> "boilerplate", index |-> 0]>>
<1>1. tests \in Seq(Children) /\ Len(tests) = Visible
      /\ \A s \in 1..Visible : tests[s] = [child |-> "visible", index |-> s - 1]
  <2>1. tests \in [1..Visible -> Children]
      BY Options DEF Children
  <2> QED
      BY <2>1, Options
<1>2. rest \in Seq(Children) /\ Len(rest) = 1
      /\ rest[1] = [child |-> "boilerplate", index |-> 0]
    BY DEF Children
<1>3. ImportWrites = tests \o rest
    BY DEF ImportWrites
<1> HIDE DEF tests, rest
<1>4. /\ tests \o rest \in Seq(Children) /\ Len(tests \o rest) = Len(tests) + Len(rest)
      /\ \A i \in 1..Len(tests) + Len(rest) :
           (tests \o rest)[i] = IF i <= Len(tests) THEN tests[i] ELSE rest[i - Len(tests)]
    BY <1>1, <1>2, ConcatProperties
<1>5. /\ \A s \in 1..Visible : s <= Visible /\ s \in 1..Visible + 1
      /\ Visible + 1 \in 1..Visible + 1 /\ ~(Visible + 1 <= Visible)
      /\ Visible + 1 - Visible = 1
    BY Options
<1> QED
    BY <1>1, <1>2, <1>3, <1>4, <1>5

LEMMA SeedWritesFacts ==
  /\ SeedWrites \in Seq(Children) /\ Len(SeedWrites) = Visible + 3
  /\ \A s \in 1..Visible + 1 :
       SeedWrites[s] = [child |-> IF s <= Visible THEN "visible" ELSE "hidden", index |-> s - 1]
  /\ SeedWrites[Visible + 2] = [child |-> "boilerplate", index |-> 0]
  /\ SeedWrites[Visible + 3] = [child |-> "hints", index |-> 0]
<1> DEFINE tests == [k \in 1..Visible + 1 |->
                       [child |-> IF k <= Visible THEN "visible" ELSE "hidden", index |-> k - 1]]
           rest == <<[child |-> "boilerplate", index |-> 0], [child |-> "hints", index |-> 0]>>
<1>1. tests \in Seq(Children) /\ Len(tests) = Visible + 1
      /\ \A s \in 1..Visible + 1 :
           tests[s] = [child |-> IF s <= Visible THEN "visible" ELSE "hidden", index |-> s - 1]
  <2>1. tests \in [1..Visible + 1 -> Children]
      BY Options DEF Children
  <2> QED
      BY <2>1, Options
<1>2. /\ rest \in Seq(Children) /\ Len(rest) = 2
      /\ rest[1] = [child |-> "boilerplate", index |-> 0]
      /\ rest[2] = [child |-> "hints", index |-> 0]
    BY DEF Children
<1>3. SeedWrites = tests \o rest
    BY DEF SeedWrites
<1> HIDE DEF tests, rest
<1>4. /\ tests \o rest \in Seq(Children) /\ Len(tests \o rest) = Len(tests) + Len(rest)
      /\ \A i \in 1..Len(tests) + Len(rest) :
           (tests \o rest)[i] = IF i <= Len(tests) THEN tests[i] ELSE rest[i - Len(tests)]
    BY <1>1, <1>2, ConcatProperties
<1>5. /\ \A s \in 1..Visible + 1 : s <= Visible + 1 /\ s \in 1..Visible + 1 + 2
      /\ Visible + 2 \in 1..Visible + 1 + 2 /\ ~(Visible + 2 <= Visible + 1)
      /\ Visible + 3 \in 1..Visible + 1 + 2 /\ ~(Visible + 3 <= Visible + 1)
      /\ Visible + 2 - (Visible + 1) = 1 /\ Visible + 3 - (Visible + 1) = 2
      /\ Visible + 1 + 2 = Visible + 3
    BY Options
<1>6. \A s \in 1..Visible + 1 : (tests \o rest)[s] = tests[s]
    BY <1>1, <1>2, <1>4, <1>5
<1>7. \A i \in 1..Visible + 1 + 2 : i > Visible + 1 => (tests \o rest)[i] = rest[i - (Visible + 1)]
  <2>1. \A i \in 1..Visible + 1 + 2 :
          (tests \o rest)[i] = IF i <= Visible + 1 THEN tests[i] ELSE rest[i - (Visible + 1)]
      BY <1>1, <1>2, <1>4
  <2>2. \A i \in 1..Visible + 1 + 2 : i > Visible + 1 => ~(i <= Visible + 1)
      BY Options
  <2> QED
      BY <2>1, <2>2
<1>8. (tests \o rest)[Visible + 2] = rest[1]
  <2>1. PICK i \in 1..Visible + 1 + 2 : i = Visible + 2
      BY Options
  <2>2. i > Visible + 1 /\ i - (Visible + 1) = 1
      BY <2>1, Options
  <2> QED
      BY <1>7, <2>1, <2>2
<1>9. (tests \o rest)[Visible + 3] = rest[2]
  <2>1. PICK i \in 1..Visible + 1 + 2 : i = Visible + 3
      BY Options
  <2>2. i > Visible + 1 /\ i - (Visible + 1) = 2
      BY <2>1, Options
  <2> QED
      BY <1>7, <2>1, <2>2
<1> QED
    BY <1>1, <1>2, <1>3, <1>4, <1>5, <1>6, <1>8, <1>9

\* The child rows of a writer: the test cases in their places, then the rest.
LEMMA WritesFacts ==
  ASSUME NEW w \in Writers
  PROVE  /\ Len(Writes(w)) = Steps(w) /\ Steps(w) \in Nat /\ TestSteps(w) \in Nat
         /\ TestSteps(w) >= Visible /\ Steps(w) > TestSteps(w)
         /\ \A s \in 1..Steps(w) : Writes(w)[s] \in Children
         /\ \A s \in 1..TestSteps(w) :
              /\ Writes(w)[s].child = (IF s <= Visible THEN "visible" ELSE "hidden")
              /\ Writes(w)[s].index = s - 1
         /\ \A s \in 1..Steps(w) : s > TestSteps(w) =>
              Writes(w)[s].child = IF s = TestSteps(w) + 1 THEN "boilerplate" ELSE "hints"
<1>1. CASE w = Seeder
  <2>1. Writes(w) = SeedWrites /\ Steps(w) = Visible + 3 /\ TestSteps(w) = Visible + 1
      BY <1>1 DEF Writes, Steps, TestSteps
  <2>2. \A s \in 1..Steps(w) : Writes(w)[s] \in Children
      BY <2>1, SeedWritesFacts, ElementOfSeq
  <2>3. \A s \in 1..TestSteps(w) :
          /\ Writes(w)[s].child = (IF s <= Visible THEN "visible" ELSE "hidden")
          /\ Writes(w)[s].index = s - 1
    <3> SUFFICES ASSUME NEW s \in 1..Visible + 1
                 PROVE  /\ SeedWrites[s].child = (IF s <= Visible THEN "visible" ELSE "hidden")
                        /\ SeedWrites[s].index = s - 1
        BY <2>1
    <3>1. SeedWrites[s] = [child |-> IF s <= Visible THEN "visible" ELSE "hidden",
                           index |-> s - 1]
        BY SeedWritesFacts
    <3> QED
        BY <3>1
  <2>4. ASSUME NEW s \in 1..Steps(w), s > TestSteps(w)
        PROVE  Writes(w)[s].child = IF s = TestSteps(w) + 1 THEN "boilerplate" ELSE "hints"
    <3>1. s = Visible + 2 \/ s = Visible + 3
        BY <2>1, <2>4, Options
    <3>2. Visible + 2 = TestSteps(w) + 1 /\ Visible + 3 # TestSteps(w) + 1
        BY <2>1, Options
    <3>3. /\ SeedWrites[Visible + 2].child = "boilerplate"
          /\ SeedWrites[Visible + 3].child = "hints"
        BY SeedWritesFacts
    <3> QED
        BY <2>1, <3>1, <3>2, <3>3
  <2>5. /\ Len(Writes(w)) = Steps(w) /\ Steps(w) \in Nat /\ TestSteps(w) \in Nat
        /\ TestSteps(w) >= Visible /\ Steps(w) > TestSteps(w)
      BY <2>1, SeedWritesFacts, Options
  <2> QED
      BY <2>2, <2>3, <2>4, <2>5
<1>2. CASE w # Seeder
  <2>1. Writes(w) = ImportWrites /\ Steps(w) = Visible + 1 /\ TestSteps(w) = Visible
      BY <1>2 DEF Writes, Steps, TestSteps
  <2>2. \A s \in 1..Steps(w) : Writes(w)[s] \in Children
      BY <2>1, ImportWritesFacts, ElementOfSeq
  <2>3. \A s \in 1..TestSteps(w) :
          /\ Writes(w)[s].child = (IF s <= Visible THEN "visible" ELSE "hidden")
          /\ Writes(w)[s].index = s - 1
    <3> SUFFICES ASSUME NEW s \in 1..Visible
                 PROVE  /\ ImportWrites[s].child = (IF s <= Visible THEN "visible" ELSE "hidden")
                        /\ ImportWrites[s].index = s - 1
        BY <2>1
    <3>1. ImportWrites[s] = [child |-> "visible", index |-> s - 1]
        BY ImportWritesFacts
    <3>2. s <= Visible
        BY Options
    <3> QED
        BY <3>1, <3>2
  <2>4. ASSUME NEW s \in 1..Steps(w), s > TestSteps(w)
        PROVE  Writes(w)[s].child = IF s = TestSteps(w) + 1 THEN "boilerplate" ELSE "hints"
    <3>1. s = Visible + 1
        BY <2>1, <2>4, Options
    <3>2. ImportWrites[Visible + 1].child = "boilerplate"
        BY ImportWritesFacts
    <3> QED
        BY <2>1, <3>1, <3>2
  <2>5. /\ Len(Writes(w)) = Steps(w) /\ Steps(w) \in Nat /\ TestSteps(w) \in Nat
        /\ TestSteps(w) >= Visible /\ Steps(w) > TestSteps(w)
      BY <2>1, ImportWritesFacts, Options
  <2> QED
      BY <2>2, <2>3, <2>4, <2>5
<1> QED
    BY <1>1, <1>2

-----------------------------------------------------------------------------
(* Steps that leave the contents of the row alone.                         *)

SameRow ==
  \/ row' = row
  \/ /\ row # NoRow /\ row' \in Rows
     /\ row'.id = row.id /\ row'.by = row.by
     /\ row'.tests = row.tests /\ row'.boilerplate = row.boilerplate

Working(r) == r.pc \in {"writing", "deleting"}

\* A writer that was at work on the row still is, or has left it behind.
KeepsOwner(r, s) == Working(r) /\ Exists(r.id) => severed' \/ (Working(s) /\ s.id = r.id)

LEMMA QuietStep ==
  ASSUME CatalogueInv, SameRow, lastId' = lastId,
         writer' \in [Writers -> WriterRecord],
         generator' \in [Importers -> GeneratorRecord],
         severed' \in BOOLEAN, severed => severed',
         \A w \in Writers : WriterSane(w, writer'[w]) /\ KeepsOwner(writer[w], writer'[w]),
         \A p \in Importers : GeneratorSane(generator'[p])
  PROVE  CatalogueInv'
<1>1. Types /\ RowSane /\ PartialRowsOwned
    BY DEF CatalogueInv
<1>2. /\ row' = NoRow <=> row = NoRow
      /\ row' = NoRow \/ row' \in Rows
      /\ row # NoRow => /\ row'.id = row.id /\ row'.by = row.by
                        /\ row'.tests = row.tests /\ row'.boilerplate = row.boilerplate
    BY <1>1, RowsAreRows DEF SameRow, Types
<1>3. Types'
    BY <1>1, <1>2 DEF Types
<1>4. RowSane'
    BY <1>1, <1>2 DEF RowSane, Filled
<1>5. \A w, r : WriterSane(w, r) => WriterSane(w, r)'
    BY <1>2 DEF WriterSane, Exists, Progress, Filled
<1>6. ASSUME NEW w \in Writers PROVE WriterSane(w, writer[w])'
  <2>1. PICK r : r = writer'[w]
      OBVIOUS
  <2>2. WriterSane(w, r)'
      BY <1>5, <2>1
  <2> QED
      BY <2>1, <2>2 DEF WriterSane
<1>7. \A g : GeneratorSane(g) => GeneratorSane(g)'
    BY <1>2 DEF GeneratorSane, Exists
<1>8. ASSUME NEW p \in Importers PROVE GeneratorSane(generator[p])'
  <2>1. PICK g : g = generator'[p]
      OBVIOUS
  <2>2. GeneratorSane(g)'
      BY <1>7, <2>1
  <2> QED
      BY <2>1, <2>2 DEF GeneratorSane
<1>9. PartialRowsOwned'
  <2> SUFFICES ASSUME row' # NoRow, ~Playable', ~severed'
               PROVE  \E w \in Writers : AtWork(w)' /\ writer'[w].id = row'.id
      BY DEF PartialRowsOwned
  <2>1. row # NoRow /\ ~Playable /\ ~severed
      BY <1>2 DEF Playable
  <2>2. PICK w \in Writers : AtWork(w) /\ writer[w].id = row.id
      BY <1>1, <2>1 DEF PartialRowsOwned
  <2>3. Working(writer'[w]) /\ writer'[w].id = writer[w].id
      BY <2>1, <2>2 DEF KeepsOwner, Working, AtWork, Exists
  <2> QED
      BY <1>2, <2>1, <2>2, <2>3 DEF Working, AtWork
<1> QED
    BY <1>3, <1>4, <1>6, <1>8, <1>9 DEF CatalogueInv

LEMMA QuietWriter ==
  ASSUME CatalogueInv, SameRow, lastId' = lastId, generator' = generator,
         severed' \in BOOLEAN, severed => severed',
         NEW w \in Writers, NEW r \in WriterRecord,
         writer' = [writer EXCEPT ![w] = r],
         WriterSane(w, r), KeepsOwner(writer[w], r)
  PROVE  CatalogueInv'
<1>1. writer \in [Writers -> WriterRecord] /\ generator \in [Importers -> GeneratorRecord]
    BY DEF CatalogueInv, Types
<1>2. /\ writer' \in [Writers -> WriterRecord]
      /\ writer'[w] = r /\ \A v \in Writers \ {w} : writer'[v] = writer[v]
    BY <1>1
<1>3. \A x : KeepsOwner(x, x)
    BY DEF KeepsOwner
<1>4. \A v \in Writers : WriterSane(v, writer'[v]) /\ KeepsOwner(writer[v], writer'[v])
    BY <1>2, <1>3 DEF CatalogueInv
<1>5. \A p \in Importers : GeneratorSane(generator'[p])
    BY DEF CatalogueInv
<1> QED
    BY <1>1, <1>2, <1>4, <1>5, QuietStep

LEMMA IdleWriterFacts ==
  /\ IdleWriter \in WriterRecord /\ IdleWriter.pc = "idle"
  /\ IdleWriter.id = 0 /\ IdleWriter.step = 1
BY DEF IdleWriter, WriterRecord, WriterStates

LEMMA IdleWithFacts ==
  ASSUME NEW pc \in WriterStates, NEW id \in Nat
  PROVE  \E r \in WriterRecord :
           /\ r = [IdleWriter EXCEPT !.pc = pc, !.id = id]
           /\ r.pc = pc /\ r.id = id /\ r.step = 1
<1>1. PICK s : s = [pc |-> pc, id |-> 0, step |-> 1]
    OBVIOUS
<1>2. PICK r : r = [pc |-> pc, id |-> id, step |-> 1]
    OBVIOUS
<1>3. [IdleWriter EXCEPT !.pc = pc] = s
    BY <1>1 DEF IdleWriter
<1>4. [s EXCEPT !.id = id] = r
    BY <1>1, <1>2
<1>5. [IdleWriter EXCEPT !.pc = pc, !.id = id] = [[IdleWriter EXCEPT !.pc = pc] EXCEPT !.id = id]
    OBVIOUS
<1>6. r \in WriterRecord /\ r.pc = pc /\ r.id = id /\ r.step = 1
    BY <1>2 DEF WriterRecord
<1> QED
    BY <1>3, <1>4, <1>5, <1>6

LEMMA BecomesFacts ==
  ASSUME Types, NEW w \in Writers, NEW pc \in WriterStates, Becomes(w, pc)
  PROVE  \E r \in WriterRecord :
           /\ r.pc = pc /\ r.id = writer[w].id /\ r.step = writer[w].step
           /\ writer' = [writer EXCEPT ![w] = r]
<1>1. writer[w] \in WriterRecord /\ writer \in [Writers -> WriterRecord]
    BY DEF Types
<1>2. PICK r : r = [pc |-> pc, id |-> writer[w].id, step |-> writer[w].step]
    OBVIOUS
<1>3. /\ r \in WriterRecord /\ r.pc = pc
      /\ r.id = writer[w].id /\ r.step = writer[w].step
    BY <1>1, <1>2 DEF WriterRecord
<1>4. [writer[w] EXCEPT !.pc = pc] = r
    BY <1>1, <1>2 DEF WriterRecord
<1>5. writer' = [writer EXCEPT ![w] = r]
    BY <1>1, <1>4 DEF Becomes
<1> QED
    BY <1>3, <1>5

\* A writer that is at work on nothing goes on with something else.
LEMMA IdleStep ==
  ASSUME CatalogueInv, SameRow, UNCHANGED <<lastId, generator, severed>>,
         NEW w \in Writers, NEW r \in WriterRecord,
         ~Working(writer[w]), ~Working(r), r.id <= lastId,
         writer' = [writer EXCEPT ![w] = r]
  PROVE  CatalogueInv'
<1>1. WriterSane(w, r) /\ KeepsOwner(writer[w], r)
    BY DEF WriterSane, KeepsOwner, Working
<1>2. severed' \in BOOLEAN
    BY DEF CatalogueInv, Types
<1> QED
    BY <1>1, <1>2, QuietWriter

LEMMA BecomesStep ==
  ASSUME CatalogueInv, SameRow, UNCHANGED <<lastId, generator, severed>>,
         NEW w \in Writers, NEW pc \in WriterStates \ {"writing", "deleting"},
         ~Working(writer[w]), Becomes(w, pc)
  PROVE  CatalogueInv'
<1>1. PICK r \in WriterRecord : /\ r.pc = pc /\ r.id = writer[w].id
                                /\ writer' = [writer EXCEPT ![w] = r]
    BY BecomesFacts DEF CatalogueInv
<1>2. r.id <= lastId
    BY <1>1 DEF CatalogueInv, WriterSane
<1> QED
    BY <1>1, <1>2, IdleStep DEF Working

LEMMA EndsStep ==
  ASSUME CatalogueInv, SameRow, UNCHANGED <<lastId, generator, severed>>,
         NEW w \in Writers, ~Working(writer[w]), Ends(w)
  PROVE  CatalogueInv'
<1>1. IdleWriter.id <= lastId
    BY IdleWriterFacts DEF CatalogueInv, Types
<1> QED
    BY <1>1, IdleWriterFacts, IdleStep DEF Ends, Working

LEMMA FindKeeps ==
  ASSUME CatalogueInv, NEW w \in Writers, Find(w)
  PROVE  CatalogueInv'
<1>a. /\ writer[w].pc = "idle" /\ SameRow /\ UNCHANGED <<lastId, generator, severed>>
      /\ ~Working(writer[w])
    BY DEF Find, SameRow, Working
<1>1. CASE row = NoRow
  <2>1. PICK pc \in WriterStates \ {"writing", "deleting"} : Becomes(w, pc)
      BY <1>1 DEF Find, WriterStates
  <2> QED
      BY <1>a, <2>1, BecomesStep
<1>2. CASE row # NoRow
  <2>1. row.id \in Nat /\ row.id <= lastId /\ lastId \in Nat
      BY <1>2 DEF CatalogueInv, Types, Rows, RowSane
  <2>2. PICK pc \in {"restoring", "idle", "loading"} :
          pc = IF row.deleted THEN "restoring" ELSE IF w = Seeder THEN "idle" ELSE "loading"
      OBVIOUS
  <2>3. PICK id \in Nat : id = (IF row.deleted \/ w # Seeder THEN row.id ELSE 0) /\ id <= lastId
      BY <2>1
  <2>4. pc \in WriterStates
      BY <2>2 DEF WriterStates
  <2>5. PICK r \in WriterRecord : /\ r = [IdleWriter EXCEPT !.pc = pc, !.id = id]
                                  /\ r.pc = pc /\ r.id = id /\ r.step = 1
      BY <2>4, IdleWithFacts, Zenon
  <2>7. writer' = [writer EXCEPT ![w] = [IdleWriter EXCEPT !.pc = pc, !.id = id]]
      BY <1>2, <2>2, <2>3 DEF Find
  <2>8. writer' = [writer EXCEPT ![w] = r]
      BY <2>5, <2>7
  <2> QED
      BY <1>a, <2>3, <2>5, <2>8, IdleStep DEF Working
<1> QED
    BY <1>1, <1>2

\* The row without its mark of deletion, or with it.
LEMMA MarkFacts ==
  ASSUME row \in Rows, NEW b \in BOOLEAN, row' = [row EXCEPT !.deleted = b]
  PROVE  SameRow
<1>1. PICK r \in Rows : r = row
    OBVIOUS
<1>2. PICK s : s = [r EXCEPT !.deleted = b]
    OBVIOUS
<1>3. /\ s \in Rows /\ s.id = r.id /\ s.by = r.by /\ s.tests = r.tests
      /\ s.boilerplate = r.boilerplate
    BY <1>2 DEF Rows
<1>4. row' = s /\ row # NoRow
    BY <1>1, <1>2, RowsAreRows
<1> QED
    BY <1>1, <1>3, <1>4 DEF SameRow

LEMMA RestoreKeeps ==
  ASSUME CatalogueInv, NEW w \in Writers, Restore(w)
  PROVE  CatalogueInv'
<1>a. /\ writer[w].pc = "restoring" /\ UNCHANGED <<lastId, generator, severed>>
      /\ ~Working(writer[w])
    BY DEF Restore, Working
<1>1. SameRow
  <2>1. CASE Exists(writer[w].id)
    <3>1. row \in Rows
        BY <2>1 DEF Exists, CatalogueInv, Types
    <3>2. row' = [row EXCEPT !.deleted = FALSE]
        BY <2>1 DEF Restore
    <3> QED
        BY <3>1, <3>2, MarkFacts
  <2>2. CASE ~Exists(writer[w].id)
      BY <2>2 DEF Restore, SameRow
  <2> QED
      BY <2>1, <2>2
<1>2. CASE w = Seeder
    BY <1>a, <1>1, <1>2, EndsStep DEF Restore
<1>3. CASE w # Seeder
  <2>1. "loading" \in WriterStates \ {"writing", "deleting"}
      BY DEF WriterStates
  <2> QED
      BY <1>a, <1>1, <1>3, <2>1, BecomesStep DEF Restore
<1> QED
    BY <1>2, <1>3

LEMMA FetchKeeps ==
  ASSUME CatalogueInv, NEW w \in Writers, Fetch(w)
  PROVE  CatalogueInv'
<1>1. "creating" \in WriterStates \ {"writing", "deleting"}
    BY DEF WriterStates
<1> QED
    BY <1>1, BecomesStep DEF Fetch, SameRow, Working

LEMMA FailsEarlyKeeps ==
  ASSUME CatalogueInv, NEW w \in Writers, FailsEarly(w)
  PROVE  CatalogueInv'
BY EndsStep DEF FailsEarly, SameRow, Working

LEMMA WriteFailsKeeps ==
  ASSUME CatalogueInv, NEW w \in Writers, WriteFails(w)
  PROVE  CatalogueInv'
<1>1. /\ writer[w].pc = "writing" /\ Becomes(w, "deleting") /\ SameRow
      /\ UNCHANGED <<lastId, generator, severed>>
    BY DEF WriteFails, SameRow
<1>2. PICK r \in WriterRecord : /\ r.pc = "deleting" /\ r.id = writer[w].id
                                /\ writer' = [writer EXCEPT ![w] = r]
    BY <1>1, BecomesFacts DEF CatalogueInv, WriterStates
<1>3. WriterSane(w, r) /\ KeepsOwner(writer[w], r) /\ severed' \in BOOLEAN
    BY <1>1, <1>2 DEF CatalogueInv, WriterSane, KeepsOwner, Working, Types
<1> QED
    BY <1>1, <1>2, <1>3, QuietWriter

LEMMA RollbackFailsKeeps ==
  ASSUME CatalogueInv, NEW w \in Writers, RollbackFails(w)
  PROVE  CatalogueInv'
<1>1. WriterSane(w, IdleWriter) /\ KeepsOwner(writer[w], IdleWriter)
    BY IdleWriterFacts DEF RollbackFails, WriterSane, KeepsOwner, CatalogueInv, Types
<1> QED
    BY <1>1, IdleWriterFacts, QuietWriter DEF RollbackFails, Ends, SameRow

LEMMA SoftDeleteKeeps == CatalogueInv /\ SoftDelete => CatalogueInv'
<1> SUFFICES ASSUME CatalogueInv, SoftDelete PROVE CatalogueInv'
    OBVIOUS
<1>1. row \in Rows /\ row' = [row EXCEPT !.deleted = TRUE]
      /\ UNCHANGED <<lastId, writer, generator, severed>>
    BY DEF SoftDelete, CatalogueInv, Types
<1>2. SameRow
    BY <1>1, MarkFacts
<1>3. \A w \in Writers : WriterSane(w, writer'[w]) /\ KeepsOwner(writer[w], writer'[w])
    BY <1>1 DEF CatalogueInv, KeepsOwner
<1>4. \A p \in Importers : GeneratorSane(generator'[p])
    BY <1>1 DEF CatalogueInv
<1>5. /\ writer' \in [Writers -> WriterRecord] /\ generator' \in [Importers -> GeneratorRecord]
      /\ severed' \in BOOLEAN
    BY <1>1 DEF CatalogueInv, Types
<1> QED
    BY <1>1, <1>2, <1>3, <1>4, <1>5, QuietStep
-----------------------------------------------------------------------------
(* Steps that change the row.                                              *)

\* The four parts of the invariant after a step, with the records that the
\* step leaves as constants.
LEMMA InvariantAfter ==
  ASSUME Types', RowSane', PartialRowsOwned',
         \A v \in Writers : \A r : r = writer'[v] => WriterSane(v, r)',
         \A p \in Importers : \A g : g = generator'[p] => GeneratorSane(g)'
  PROVE  CatalogueInv'
<1>1. ASSUME NEW v \in Writers PROVE WriterSane(v, writer[v])'
  <2>1. PICK r : r = writer'[v]
      OBVIOUS
  <2>2. WriterSane(v, r)'
      BY <2>1
  <2> QED
      BY <2>1, <2>2 DEF WriterSane
<1>2. ASSUME NEW p \in Importers PROVE GeneratorSane(generator[p])'
  <2>1. PICK g : g = generator'[p]
      OBVIOUS
  <2>2. GeneratorSane(g)'
      BY <2>1
  <2> QED
      BY <2>1, <2>2 DEF GeneratorSane
<1> QED
    BY <1>1, <1>2 DEF CatalogueInv

\* Who works on a row that is not there has nothing to keep.
LEMMA ElsewhereSane ==
  ASSUME lastId \in Nat, lastId' \in Nat, lastId <= lastId'
  PROVE  /\ \A v, r : r \in WriterRecord /\ WriterSane(v, r) /\ ~Exists(r.id)' => WriterSane(v, r)'
         /\ \A g : g \in GeneratorRecord /\ GeneratorSane(g) /\ ~Exists(g.id)' => GeneratorSane(g)'
<1>1. \A i \in Nat : i <= lastId => i <= lastId'
    OBVIOUS
<1>2. \A r \in WriterRecord : r.id \in Nat
    BY DEF WriterRecord
<1>3. \A g \in GeneratorRecord : g.id \in Nat
    BY DEF GeneratorRecord
<1> QED
    BY <1>1, <1>2, <1>3 DEF WriterSane, GeneratorSane

LEMMA CreateKeeps ==
  ASSUME CatalogueInv, NEW w \in Writers, NEW answered \in BOOLEAN, Create(w, answered)
  PROVE  CatalogueInv'
<1>1. /\ Types /\ \A v \in Writers : WriterSane(v, writer[v])
      /\ \A p \in Importers : GeneratorSane(generator[p])
    BY DEF CatalogueInv
<1>2. PICK id \in Nat : id = lastId + 1
    BY <1>1 DEF Types
<1>3. /\ row = NoRow /\ lastId' = id /\ row' = NewRow(id, w) /\ UNCHANGED generator
      /\ lastId \in Nat /\ lastId <= id /\ id # 0 /\ ~(id <= lastId)
    BY <1>1, <1>2 DEF Create, Types
<1>4. /\ row' \in Rows /\ row' # NoRow /\ row'.id = id /\ row'.by = w
      /\ DOMAIN row'.tests = {} /\ ~row'.boilerplate
    BY <1>3, NewRowFacts, RowsAreRows
<1>5. PICK r \in WriterRecord :
        /\ writer' = [writer EXCEPT ![w] = r]
        /\ IF answered THEN r.pc = "writing" /\ r.id = id /\ r.step = 1 /\ severed' = severed
           ELSE r = IdleWriter /\ severed' = TRUE
  <2>1. CASE answered
    <3>1. PICK r \in WriterRecord : /\ r = [IdleWriter EXCEPT !.pc = "writing", !.id = id]
                                    /\ r.pc = "writing" /\ r.id = id /\ r.step = 1
        BY ZenonT(30), IdleWithFacts DEF WriterStates
    <3>2. writer' = [writer EXCEPT ![w] = [IdleWriter EXCEPT !.pc = "writing", !.id = id]]
        BY <1>2, <2>1 DEF Create
    <3> QED
        BY <2>1, <3>1, <3>2 DEF Create
  <2>2. CASE ~answered
      BY <2>2, IdleWriterFacts DEF Create, Ends
  <2> QED
      BY <2>1, <2>2
<1>6. /\ writer' \in [Writers -> WriterRecord] /\ writer \in [Writers -> WriterRecord]
      /\ writer'[w] = r /\ \A v \in Writers \ {w} : writer'[v] = writer[v]
    BY <1>1, <1>5 DEF Types
<1>7. Types'
    BY <1>1, <1>3, <1>4, <1>5, <1>6 DEF Types
<1>8. (0..0 - 1) = {}
    OBVIOUS
<1>9. Filled(0)' /\ \A i : Exists(i)' <=> i = id
    BY <1>4, <1>8 DEF Filled, Exists
<1>10. RowSane'
    BY <1>3, <1>4, <1>9 DEF RowSane
<1>11. PartialRowsOwned'
    BY <1>4, <1>5, <1>6 DEF PartialRowsOwned, AtWork
<1>12. \A v \in Writers : \A s : s = writer'[v] => WriterSane(v, s)'
  <2> SUFFICES ASSUME NEW v \in Writers, NEW s, s = writer'[v]
               PROVE  WriterSane(v, s)'
      OBVIOUS
  <2>1. CASE v # w \/ ~answered
    <3>1. s \in WriterRecord /\ WriterSane(v, s) /\ s.id # id
        BY <1>1, <1>3, <1>5, <1>6, <2>1, IdleWriterFacts DEF WriterSane
    <3> QED
        BY <1>3, <1>9, <3>1, ElsewhereSane
  <2>2. CASE v = w /\ answered
    <3>1. s.id = id /\ s.pc = "writing" /\ s.step = 1
        BY <1>5, <1>6, <2>2
    <3>2. 1 \in 1..Steps(w) /\ TestSteps(w) >= 1
        BY WritesFacts, Options
    <3>3. Progress(w, 1)'
        BY <1>4, <1>9, <3>2, WritesFacts DEF Progress
    <3> QED
        BY <1>3, <1>4, <2>2, <3>1, <3>2, <3>3 DEF WriterSane
  <2> QED
      BY <2>1, <2>2
<1>13. \A p \in Importers : \A g : g = generator'[p] => GeneratorSane(g)'
  <2> SUFFICES ASSUME NEW p \in Importers, NEW g, g = generator[p]
               PROVE  GeneratorSane(g)'
      BY <1>3
  <2>1. g \in GeneratorRecord /\ GeneratorSane(g) /\ g.id # id
      BY <1>1, <1>3 DEF Types, GeneratorSane
  <2> QED
      BY <1>3, <1>9, <2>1, ElsewhereSane
<1> QED
    BY <1>7, <1>10, <1>11, <1>12, <1>13, InvariantAfter

LEMMA RollbackKeeps ==
  ASSUME CatalogueInv, NEW w \in Writers, Rollback(w)
  PROVE  CatalogueInv'
<1>1. /\ Types /\ \A v \in Writers : WriterSane(v, writer[v])
      /\ \A p \in Importers : GeneratorSane(generator[p])
    BY DEF CatalogueInv
<1>2. Ends(w) /\ UNCHANGED <<lastId, generator, severed>> /\ writer[w].pc = "deleting"
    BY DEF Rollback
<1>3. WriterSane(w, IdleWriter)
    BY <1>1, IdleWriterFacts DEF WriterSane, Types
<1>4. CASE ~Exists(writer[w].id)
  <2>1. SameRow
      BY <1>4 DEF Rollback, SameRow
  <2>2. KeepsOwner(writer[w], IdleWriter) /\ severed' \in BOOLEAN
      BY <1>1, <1>2, <1>4 DEF KeepsOwner, Types
  <2> QED
      BY <1>2, <1>3, <2>1, <2>2, IdleWriterFacts, QuietWriter DEF Ends
<1>5. CASE Exists(writer[w].id)
  <2>1. row' = NoRow
      BY <1>5 DEF Rollback
  <2>2. \A i : ~Exists(i)'
      BY <2>1 DEF Exists
  <2>3. RowSane' /\ PartialRowsOwned'
      BY <2>1 DEF RowSane, PartialRowsOwned
  <2>4. /\ writer' \in [Writers -> WriterRecord] /\ lastId' \in Nat /\ lastId <= lastId'
        /\ writer'[w] = IdleWriter /\ \A v \in Writers \ {w} : writer'[v] = writer[v]
      BY <1>1, <1>2, IdleWriterFacts DEF Ends, Types
  <2>5. Types'
      BY <1>1, <1>2, <2>1, <2>4 DEF Types
  <2>6. \A v \in Writers : writer'[v] \in WriterRecord /\ WriterSane(v, writer'[v])
      BY <1>1, <1>3, <2>4
  <2>7. \A v \in Writers : \A r : r = writer'[v] => WriterSane(v, r)'
      BY <1>1, <2>2, <2>4, <2>6, ElsewhereSane DEF Types
  <2>8. \A p \in Importers : generator'[p] \in GeneratorRecord /\ GeneratorSane(generator'[p])
      BY <1>1, <1>2 DEF Types
  <2>9. \A p \in Importers : \A g : g = generator'[p] => GeneratorSane(g)'
      BY <1>1, <2>2, <2>4, <2>8, ElsewhereSane DEF Types
  <2> QED
      BY <2>3, <2>5, <2>7, <2>9, InvariantAfter
<1> QED
    BY <1>4, <1>5
\* The row with more child rows.
RowGrows ==
  /\ row \in Rows /\ row' \in Rows
  /\ row'.id = row.id /\ row'.by = row.by
  /\ row.boilerplate => row'.boilerplate
  /\ DOMAIN row.tests \subseteq DOMAIN row'.tests

LEMMA GrowthKeeps ==
  ASSUME RowGrows, lastId' = lastId
  PROVE  /\ \A i : Exists(i)' <=> Exists(i)
         /\ \A g : GeneratorSane(g) => GeneratorSane(g)'
         /\ \A v, r : WriterSane(v, r) /\ ~(Working(r) /\ Exists(r.id)) => WriterSane(v, r)'
<1>1. \A i : Exists(i)' <=> Exists(i)
    BY RowsAreRows DEF RowGrows, Exists
<1>2. \A g : GeneratorSane(g) => GeneratorSane(g)'
    BY <1>1 DEF RowGrows, GeneratorSane, Exists
<1>3. \A v, r : WriterSane(v, r) /\ ~(Working(r) /\ Exists(r.id)) => WriterSane(v, r)'
    BY <1>1 DEF WriterSane, Working
<1> QED
    BY <1>1, <1>2, <1>3

\* A row with its boilerplate is as good as whole.
LEMMA BoilerplatePlayable ==
  ASSUME RowSane', row' # NoRow, row'.boilerplate
  PROVE  Playable'
<1>1. /\ 0..Visible - 1 \subseteq DOMAIN row'.tests
      /\ \A k \in DOMAIN row'.tests : ~row'.tests[k] => k >= Visible
    BY DEF RowSane
<1>2. \A k \in 0..Visible - 1 : ~(k >= Visible)
    BY Options
<1> QED
    BY <1>1, <1>2 DEF Playable

\* Where a writer is after a child row.
LEMMA WriteChildWriter ==
  ASSUME Types, NEW w \in Writers, NEW answered \in BOOLEAN, WriteChild(w, answered),
         WriterSane(w, writer[w])
  PROVE  \E x \in WriterRecord :
           /\ writer' = [writer EXCEPT ![w] = x]
           /\ \/ x.pc = "deleting" /\ x.id = writer[w].id
              \/ /\ x.pc = "writing" /\ x.id = writer[w].id
                 /\ x.step = writer[w].step + 1 /\ writer[w].step < Steps(w)
              \/ ~Working(x) /\ x.id <= lastId /\ writer[w].step = Steps(w)
<1>1. PICK a \in WriterRecord : a = writer[w]
    BY DEF Types
<1>2. /\ a.pc = "writing" /\ a.id <= lastId /\ a.step \in 1..Steps(w) /\ a.step \in Nat
      /\ a.id \in Nat /\ Len(Writes(w)) = Steps(w) /\ Steps(w) \in Nat
    BY <1>1, WritesFacts DEF WriteChild, WriterSane, WriterRecord
<1>3. CASE ~answered
    BY <1>1, <1>3, BecomesFacts DEF WriteChild, WriterStates
<1>4. CASE answered /\ a.step < Steps(w)
  <2>1. writer' = [writer EXCEPT ![w].step = @ + 1]
      BY <1>1, <1>2, <1>4 DEF WriteChild
  <2>2. PICK n \in Nat : n = a.step + 1
      BY <1>2
  <2>3. PICK x : x = [pc |-> "writing", id |-> a.id, step |-> n]
      OBVIOUS
  <2>4. x \in WriterRecord /\ x.pc = "writing" /\ x.id = a.id /\ x.step = n
      BY <1>2, <2>3 DEF WriterRecord, WriterStates
  <2>5. [a EXCEPT !.step = n] = x
      BY <1>2, <2>3 DEF WriterRecord
  <2>6. writer' = [writer EXCEPT ![w] = x]
      BY <1>1, <2>1, <2>2, <2>5
  <2> QED
      BY <1>1, <1>4, <2>2, <2>4, <2>6
<1>5. CASE answered /\ ~(a.step < Steps(w))
  <2>1. a.step = Steps(w)
      BY <1>2, <1>5
  <2>2. CASE w = Seeder
    <3>1. Ends(w)
        BY <1>1, <1>2, <1>5, <2>2 DEF WriteChild
    <3>2. ~Working(IdleWriter) /\ IdleWriter.id <= lastId
        BY IdleWriterFacts DEF Working, Types
    <3>3. writer' = [writer EXCEPT ![w] = IdleWriter]
        BY <3>1 DEF Ends
    <3> QED
        BY <1>1, <2>1, <3>2, <3>3, IdleWriterFacts
  <2>3. CASE w # Seeder
    <3>1. Becomes(w, "loading")
        BY <1>1, <1>2, <1>5, <2>3 DEF WriteChild
    <3>2. PICK x \in WriterRecord : /\ x.pc = "loading" /\ x.id = a.id
                                    /\ writer' = [writer EXCEPT ![w] = x]
        BY <1>1, <3>1, BecomesFacts DEF WriterStates
    <3> QED
        BY <1>1, <1>2, <2>1, <3>2 DEF Working
  <2> QED
      BY <2>2, <2>3
<1> QED
    BY <1>3, <1>4, <1>5

\* What a child row does to the row: the next test case, or the rest.
LEMMA WriteChildRow ==
  ASSUME Types, RowSane, NEW w \in Writers, NEW answered \in BOOLEAN, WriteChild(w, answered),
         WriterSane(w, writer[w]), NEW s, s = writer[w].step
  PROVE  /\ RowGrows
         /\ s <= TestSteps(w) =>
              /\ ~row'.boilerplate /\ Filled(s)'
              /\ \A k \in DOMAIN row'.tests : ~row'.tests[k] => k >= Visible
         /\ s > TestSteps(w) => row'.boilerplate /\ row'.tests = row.tests
<1>1. PICK r \in Rows : r = row /\ r.id = writer[w].id
    BY DEF WriteChild, Insertable, Exists, Types
<1>2. s \in 1..Steps(w) /\ Progress(w, s)
    BY <1>1 DEF WriteChild, WriterSane, Insertable
<1>3. PICK c \in Children : c = Writes(w)[s]
    BY <1>2, WritesFacts
<1>4. PICK q : q = WithChild(r, c)
    OBVIOUS
<1>5. row' = q
    BY <1>1, <1>3, <1>4 DEF WriteChild
<1>6. /\ q \in Rows /\ q.id = r.id /\ q.by = r.by
      /\ q.boilerplate = (r.boilerplate \/ c.child = "boilerplate")
      /\ q.tests = IF c.child \in {"visible", "hidden"}
                   THEN With(r.tests, c.index, c.child = "visible")
                   ELSE r.tests
    BY <1>4, WithChildFacts
<1>7. r.boilerplate \in BOOLEAN /\ r.tests \in TestMaps /\ s \in Nat
    BY <1>2, WritesFacts DEF Rows
<1>8. CASE s <= TestSteps(w)
  <2>1. s \in 1..TestSteps(w)
      BY <1>2, <1>8, WritesFacts
  <2>2. c.child = (IF s <= Visible THEN "visible" ELSE "hidden") /\ c.index = s - 1
      BY <1>3, <2>1, WritesFacts
  <2>3. ~r.boilerplate /\ DOMAIN r.tests = 0..s - 2
      BY <1>1, <1>2, <1>7, <1>8 DEF Progress, Filled
  <2>4. PICK x \in Nat : x = s - 1
      BY <2>1
  <2>5. PICK y \in BOOLEAN : y <=> s <= Visible
      OBVIOUS
  <2>6. (c.child = "visible") = y /\ c.child \in {"visible", "hidden"}
      BY <2>2, <2>5
  <2>7. q.tests = With(r.tests, x, y) /\ ~q.boilerplate
      BY <1>6, <2>2, <2>3, <2>4, <2>6
  <2>8. /\ DOMAIN q.tests = DOMAIN r.tests \cup {x} /\ q.tests[x] = y
        /\ \A k \in DOMAIN r.tests : k # x => q.tests[k] = r.tests[k]
    <3>1. PICK f \in TestMaps : f = r.tests
        BY <1>7
    <3>2. /\ DOMAIN With(f, x, y) = DOMAIN f \cup {x} /\ With(f, x, y)[x] = y
          /\ \A k \in DOMAIN f : k # x => With(f, x, y)[k] = f[k]
        BY TestMapFacts DEF With
    <3> QED
        BY <2>7, <3>1, <3>2
  <2>9. 0..s - 1 = (0..s - 2) \cup {x} /\ x \notin 0..s - 2
      BY <2>1, <2>4
  <2>10. DOMAIN q.tests = 0..s - 1
      BY <2>3, <2>8, <2>9
  <2>11. ASSUME NEW k \in DOMAIN q.tests, ~q.tests[k] PROVE k >= Visible
    <3>1. CASE k = x
      <4>1. ~y
          BY <2>8, <2>11, <3>1
      <4>2. ~(s <= Visible)
          BY <2>5, <4>1
      <4> QED
          BY <1>7, <2>4, <3>1, <4>2, Options
    <3>2. CASE k # x
      <4>1. k \in DOMAIN r.tests /\ ~r.tests[k]
          BY <2>8, <2>11, <3>2
      <4> QED
          BY <1>1, <4>1, RowsAreRows DEF RowSane
    <3> QED
        BY <3>1, <3>2
  <2>12. DOMAIN r.tests \subseteq DOMAIN q.tests
      BY <2>8
  <2>13. RowGrows
      BY <1>1, <1>5, <1>6, <2>3, <2>12 DEF RowGrows
  <2>14. ~row'.boilerplate /\ Filled(s)' /\ \A k \in DOMAIN row'.tests : ~row'.tests[k] => k >= Visible
      BY <1>5, <2>7, <2>10, <2>11 DEF Filled
  <2>15. ~(s > TestSteps(w))
      BY <1>7, <1>8, WritesFacts
  <2> QED
      BY <2>13, <2>14, <2>15
<1>9. CASE ~(s <= TestSteps(w))
  <2>1. s > TestSteps(w)
      BY <1>7, <1>9, WritesFacts
  <2>2. c.child = IF s = TestSteps(w) + 1 THEN "boilerplate" ELSE "hints"
      BY <1>2, <1>3, <2>1, WritesFacts
  <2>3. s # TestSteps(w) + 1 => s > TestSteps(w) + 1
      BY <1>7, <2>1, WritesFacts
  <2>4. q.boilerplate /\ q.tests = r.tests
      BY <1>1, <1>2, <1>6, <2>2, <2>3 DEF Progress
  <2> QED
      BY <1>1, <1>5, <1>6, <1>9, <2>1, <2>4 DEF RowGrows
<1> QED
    BY <1>8, <1>9
LEMMA WriteChildKeeps ==
  ASSUME CatalogueInv, NEW w \in Writers, NEW answered \in BOOLEAN, WriteChild(w, answered)
  PROVE  CatalogueInv'
<1>1. /\ Types /\ RowSane /\ PartialRowsOwned
      /\ \A v \in Writers : WriterSane(v, writer[v])
      /\ \A p \in Importers : GeneratorSane(generator[p])
    BY DEF CatalogueInv
<1>2. PICK a \in WriterRecord : a = writer[w]
    BY <1>1 DEF Types
<1>3. /\ a.pc = "writing" /\ Exists(a.id) /\ row.by = w /\ a.step \in 1..Steps(w)
      /\ Progress(w, a.step) /\ UNCHANGED <<lastId, generator, severed>>
    BY <1>1, <1>2 DEF WriteChild, Insertable, WriterSane
<1>4. PICK s \in Nat : s = a.step /\ s \in 1..Steps(w)
    BY <1>3, WritesFacts
<1>5. /\ RowGrows
      /\ s <= TestSteps(w) =>
           /\ ~row'.boilerplate /\ Filled(s)'
           /\ \A k \in DOMAIN row'.tests : ~row'.tests[k] => k >= Visible
      /\ s > TestSteps(w) => row'.boilerplate /\ row'.tests = row.tests
    BY <1>1, <1>2, <1>4, WriteChildRow
<1>6. PICK x \in WriterRecord :
        /\ writer' = [writer EXCEPT ![w] = x]
        /\ \/ x.pc = "deleting" /\ x.id = a.id
           \/ x.pc = "writing" /\ x.id = a.id /\ x.step = s + 1 /\ s < Steps(w)
           \/ ~Working(x) /\ x.id <= lastId /\ s = Steps(w)
    BY <1>1, <1>2, <1>4, WriteChildWriter
<1>7. /\ writer' \in [Writers -> WriterRecord]
      /\ writer'[w] = x /\ \A v \in Writers \ {w} : writer'[v] = writer[v]
    BY <1>1, <1>6 DEF Types
<1>8. row' # NoRow /\ row # NoRow /\ row'.id = row.id /\ row'.by = w /\ row.id = a.id
    BY <1>3, <1>5, RowsAreRows DEF RowGrows, Exists
<1>9. s > TestSteps(w) => 0..Visible - 1 \subseteq DOMAIN row'.tests
    BY <1>3, <1>4, <1>5 DEF Progress
<1>10. /\ Steps(w) \in Nat /\ TestSteps(w) \in Nat /\ Steps(w) > TestSteps(w)
       /\ TestSteps(w) >= Visible /\ (s <= TestSteps(w) \/ s > TestSteps(w))
    BY WritesFacts
<1>11. Types'
    BY <1>1, <1>3, <1>5, <1>7 DEF Types, RowGrows
<1>12. RowSane'
  <2>1. \E n \in Nat : Filled(n)'
      BY <1>1, <1>4, <1>5, <1>8, <1>10 DEF RowSane, Filled
  <2>2. \A k \in DOMAIN row'.tests : ~row'.tests[k] => k >= Visible
      BY <1>1, <1>5, <1>8, <1>10 DEF RowSane
  <2>3. row'.boilerplate => 0..Visible - 1 \subseteq DOMAIN row'.tests
      BY <1>5, <1>9, <1>10
  <2>4. row'.id <= lastId'
      BY <1>1, <1>3, <1>8 DEF RowSane
  <2> QED
      BY <2>1, <2>2, <2>3, <2>4 DEF RowSane
<1>13. PartialRowsOwned'
  <2> SUFFICES ASSUME ~Playable' PROVE AtWork(w)' /\ writer'[w].id = row'.id
      BY DEF PartialRowsOwned
  <2>1. s # Steps(w)
      BY <1>5, <1>8, <1>10, <1>12, BoilerplatePlayable
  <2> QED
      BY <1>6, <1>7, <1>8, <2>1 DEF AtWork
<1>14. \A v \in Writers : \A r : r = writer'[v] => WriterSane(v, r)'
  <2> SUFFICES ASSUME NEW v \in Writers, NEW r, r = writer'[v]
               PROVE  WriterSane(v, r)'
      OBVIOUS
  <2>1. CASE v # w
    <3>1. r = writer[v] /\ WriterSane(v, r) /\ ~(Working(r) /\ Exists(r.id))
        BY <1>1, <1>3, <1>7, <2>1 DEF WriterSane, Working
    <3> QED
        BY <1>3, <1>5, <3>1, GrowthKeeps
  <2>2. CASE v = w
    <3>1. r = x /\ row'.by = w
        BY <1>7, <1>8, <2>2
    <3>2. x.id <= lastId'
        BY <1>1, <1>2, <1>3, <1>6 DEF WriterSane
    <3>3. x.pc = "writing" => x.step = s + 1 /\ s < Steps(w)
        BY <1>6 DEF Working
    <3>4. s < Steps(w) => Progress(w, s + 1)'
      <4> SUFFICES ASSUME s < Steps(w) PROVE Progress(w, s + 1)'
          OBVIOUS
      <4>1. s + 1 <= TestSteps(w) => ~row'.boilerplate /\ Filled(s + 1 - 1)'
        <5>1. s + 1 - 1 = s /\ (s + 1 <= TestSteps(w) => s <= TestSteps(w))
            BY <1>10
        <5> QED
            BY <1>5, <5>1
      <4>2. s + 1 > TestSteps(w) => 0..Visible - 1 \subseteq DOMAIN row'.tests
        <5>1. CASE s <= TestSteps(w)
          <6>1. DOMAIN row'.tests = 0..s - 1
              BY <1>5, <5>1 DEF Filled
          <6>2. PICK n \in Nat : n = TestSteps(w) /\ n >= Visible
              BY <1>10
          <6>3. s + 1 > n => Visible - 1 <= s - 1
              BY <6>2, Options
          <6> QED
              BY <6>1, <6>2, <6>3, Options
        <5>2. CASE s > TestSteps(w)
            BY <1>9, <5>2
        <5> QED
            BY <1>10, <5>1, <5>2
      <4>3. s + 1 > TestSteps(w) + 1 => row'.boilerplate
          BY <1>5, <1>10
      <4> QED
          BY <4>1, <4>2, <4>3 DEF Progress
    <3>5. s < Steps(w) => s + 1 \in 1..Steps(w)
        BY <1>10
    <3> QED
        BY <2>2, <3>1, <3>2, <3>3, <3>4, <3>5 DEF WriterSane
  <2> QED
      BY <2>1, <2>2
<1>15. \A p \in Importers : \A g : g = generator'[p] => GeneratorSane(g)'
    BY <1>1, <1>3, <1>5, GrowthKeeps
<1> QED
    BY <1>11, <1>12, <1>13, <1>14, <1>15, InvariantAfter

-----------------------------------------------------------------------------
(* Generators.                                                             *)

LEMMA IdleGeneratorFacts ==
  IdleGenerator \in GeneratorRecord /\ IdleGenerator.pc = "idle" /\ IdleGenerator.id = 0
BY DEF IdleGenerator, GeneratorRecord

\* A step of a generation that leaves the row alone.
LEMMA QuietGenerator ==
  ASSUME CatalogueInv, NEW p \in Importers, NEW g \in GeneratorRecord,
         UNCHANGED <<row, lastId, writer, severed>>,
         generator' = [generator EXCEPT ![p] = g], GeneratorSane(g)
  PROVE  CatalogueInv'
<1>1. Types /\ SameRow
    BY DEF CatalogueInv, SameRow
<1>2. \A w \in Writers : WriterSane(w, writer'[w]) /\ KeepsOwner(writer[w], writer'[w])
    BY DEF CatalogueInv, KeepsOwner
<1>3. generator' \in [Importers -> GeneratorRecord]
    BY <1>1 DEF Types
<1>4. \A q \in Importers : GeneratorSane(generator'[q])
    BY <1>1 DEF CatalogueInv, Types
<1>5. writer' \in [Writers -> WriterRecord] /\ severed' \in BOOLEAN
    BY <1>1 DEF Types
<1> QED
    BY <1>1, <1>2, <1>3, <1>4, <1>5, QuietStep

LEMMA GeneratorEndsFacts ==
  ASSUME CatalogueInv, NEW p \in Importers, GeneratorEnds(p)
  PROVE  \E g \in GeneratorRecord : generator' = [generator EXCEPT ![p] = g] /\ g.pc = "idle" /\ g.id = 0
BY IdleGeneratorFacts DEF GeneratorEnds

\* A failed attempt is followed by the count, or by nothing.
LEMMA AttemptFailsFacts ==
  ASSUME CatalogueInv, NEW p \in Importers, AttemptFails(p)
  PROVE  \E g \in GeneratorRecord :
           /\ generator' = [generator EXCEPT ![p] = g]
           /\ \/ g.pc = "idle" /\ g.id = 0
              \/ g.pc = "counting" /\ g.id = generator[p].id
<1>1. PICK h \in GeneratorRecord : h = generator[p]
    BY DEF CatalogueInv, Types
<1>2. CASE h.attempt = 0
  <2>1. PICK g : g = [pc |-> "counting", id |-> h.id, attempt |-> 1, start |-> 0]
      OBVIOUS
  <2>2. generator' = [generator EXCEPT ![p] = g]
      BY <1>1, <1>2, <2>1 DEF AttemptFails
  <2>3. g \in GeneratorRecord /\ g.pc = "counting" /\ g.id = h.id
      BY <1>1, <2>1 DEF GeneratorRecord
  <2> QED
      BY <1>1, <2>2, <2>3
<1>3. CASE h.attempt # 0
  <2>1. GeneratorEnds(p)
      BY <1>1, <1>3 DEF AttemptFails
  <2>2. PICK g \in GeneratorRecord :
          generator' = [generator EXCEPT ![p] = g] /\ g.pc = "idle" /\ g.id = 0
      BY <2>1, GeneratorEndsFacts
  <2> QED
      BY <2>2
<1> QED
    BY <1>2, <1>3
LEMMA IdleOrSameSane ==
  ASSUME CatalogueInv, NEW p \in Importers, NEW g \in GeneratorRecord,
         \/ g.pc = "idle" /\ g.id = 0
         \/ /\ g.pc \in {"counting", "calling"} /\ g.id = generator[p].id
            /\ generator[p].pc # "idle"
  PROVE  GeneratorSane(g)
BY DEF CatalogueInv, Types, GeneratorSane

LEMMA AttemptFailsStep ==
  ASSUME CatalogueInv, NEW p \in Importers, UNCHANGED <<row, lastId, writer, severed>>,
         generator[p].pc # "idle", AttemptFails(p)
  PROVE  CatalogueInv'
<1>1. PICK g \in GeneratorRecord :
        /\ generator' = [generator EXCEPT ![p] = g]
        /\ \/ g.pc = "idle" /\ g.id = 0
           \/ g.pc = "counting" /\ g.id = generator[p].id
    BY AttemptFailsFacts
<1>2. GeneratorSane(g)
    BY <1>1, IdleOrSameSane
<1> QED
    BY <1>1, <1>2, QuietGenerator

LEMMA GeneratorEndsStep ==
  ASSUME CatalogueInv, NEW p \in Importers, UNCHANGED <<row, lastId, writer, severed>>,
         GeneratorEnds(p)
  PROVE  CatalogueInv'
<1>1. GeneratorSane(IdleGenerator)
    BY IdleGeneratorFacts, IdleOrSameSane
<1> QED
    BY <1>1, IdleGeneratorFacts, QuietGenerator DEF GeneratorEnds

\* The record of a generation that has looked up its place.
LEMMA PlacedFacts ==
  ASSUME CatalogueInv, NEW p \in Importers,
         NEW start \in Nat,
         generator' = [generator EXCEPT ![p].pc = "inserting", ![p].start = start]
  PROVE  \E g \in GeneratorRecord :
           /\ g.pc = "inserting" /\ g.id = generator[p].id /\ g.start = start
           /\ generator' = [generator EXCEPT ![p] = g]
<1>1. PICK h \in GeneratorRecord : h = generator[p]
    BY DEF CatalogueInv, Types
<1>2. PICK g : g = [pc |-> "inserting", id |-> h.id, attempt |-> h.attempt, start |-> start]
    OBVIOUS
<1>3. g \in GeneratorRecord /\ g.pc = "inserting" /\ g.id = h.id /\ g.start = start
    BY <1>1, <1>2 DEF GeneratorRecord
<1>4. PICK f : f = [generator EXCEPT ![p].pc = "inserting"]
    OBVIOUS
<1>5. PICK k : k = [h EXCEPT !.pc = "inserting"]
    OBVIOUS
<1>6. k = [pc |-> "inserting", id |-> h.id, attempt |-> h.attempt, start |-> h.start]
    BY <1>5 DEF GeneratorRecord
<1>7. f = [generator EXCEPT ![p] = k]
    BY <1>1, <1>4, <1>5
<1>8. [k EXCEPT !.start = start] = g
    BY <1>2, <1>6
<1>9. [f EXCEPT ![p].start = start] = [generator EXCEPT ![p] = g]
  <2>1. generator \in [Importers -> GeneratorRecord]
      BY DEF CatalogueInv, Types
  <2>2. f[p] = k /\ DOMAIN f = Importers
      BY <1>7, <2>1
  <2>3. [f EXCEPT ![p].start = start] = [f EXCEPT ![p] = g]
      BY <1>8, <2>2
  <2> QED
      BY <1>7, <2>1, <2>3
<1>10. [generator EXCEPT ![p].pc = "inserting", ![p].start = start] = [f EXCEPT ![p].start = start]
    BY <1>4
<1> QED
    BY <1>1, <1>3, <1>9, <1>10

LEMMA CountHiddenKeeps ==
  ASSUME CatalogueInv, NEW p \in Importers, CountHidden(p)
  PROVE  CatalogueInv'
<1>1. generator[p].pc = "counting" /\ UNCHANGED <<row, lastId, writer, severed>>
    BY DEF CountHidden
<1>2. CASE Exists(generator[p].id) /\ Hidden(row.tests) # {}
    BY <1>1, <1>2, GeneratorEndsStep DEF CountHidden
<1>3. CASE ~(Exists(generator[p].id) /\ Hidden(row.tests) # {})
  <2>1. PICK h \in GeneratorRecord : h = generator[p]
      BY DEF CatalogueInv, Types
  <2>2. PICK g : g = [pc |-> "calling", id |-> h.id, attempt |-> h.attempt, start |-> h.start]
      OBVIOUS
  <2>3. g \in GeneratorRecord /\ g.pc = "calling" /\ g.id = h.id
      BY <2>1, <2>2 DEF GeneratorRecord
  <2>4. [h EXCEPT !.pc = "calling"] = g
      BY <2>1, <2>2 DEF GeneratorRecord
  <2>5. generator' = [generator EXCEPT ![p] = g]
      BY <1>3, <2>1, <2>4 DEF CountHidden
  <2>6. GeneratorSane(g)
      BY <1>1, <2>1, <2>3, IdleOrSameSane
  <2> QED
      BY <1>1, <2>3, <2>5, <2>6, QuietGenerator
<1> QED
    BY <1>2, <1>3
LEMMA PlaceKeeps ==
  ASSUME CatalogueInv, NEW p \in Importers, Place(p)
  PROVE  CatalogueInv'
<1>1. /\ generator[p].pc = "calling" /\ UNCHANGED <<row, lastId, writer, severed>>
      /\ GeneratorSane(generator[p]) /\ Types /\ RowSane
    BY DEF Place, CatalogueInv
<1>2. Exists(generator[p].id) =>
        \E n \in Nat : NextIndex(row.tests) = n /\ n >= Visible /\ 0..n - 1 \subseteq DOMAIN row.tests
  <2> SUFFICES ASSUME Exists(generator[p].id)
               PROVE  \E n \in Nat : /\ NextIndex(row.tests) = n /\ n >= Visible
                                     /\ 0..n - 1 \subseteq DOMAIN row.tests
      OBVIOUS
  <2>1. row # NoRow /\ row.boilerplate
      BY <1>1 DEF GeneratorSane, Exists
  <2>2. PICK n \in Nat : DOMAIN row.tests = 0..n - 1
      BY <1>1, <2>1 DEF RowSane, Filled
  <2>3. 0..Visible - 1 \subseteq 0..n - 1
      BY <1>1, <2>1, <2>2 DEF RowSane
  <2>4. Visible - 1 \in 0..Visible - 1
      BY Options
  <2>5. n >= Visible
      BY <2>3, <2>4, Options
  <2> QED
      BY <2>2, <2>5, NextIndexFacts
<1>3. PICK start \in Nat :
        /\ start = IF Exists(generator[p].id) THEN NextIndex(row.tests) ELSE 0
        /\ Exists(generator[p].id) => start >= Visible /\ 0..start - 1 \subseteq DOMAIN row.tests
    BY <1>2
<1>4. generator' = [generator EXCEPT ![p].pc = "inserting", ![p].start = start]
    BY <1>3 DEF Place
<1>5. PICK g \in GeneratorRecord :
        /\ g.pc = "inserting" /\ g.id = generator[p].id /\ g.start = start
        /\ generator' = [generator EXCEPT ![p] = g]
    BY <1>4, PlacedFacts
<1>6. GeneratorSane(g)
    BY <1>1, <1>3, <1>5 DEF GeneratorSane
<1> QED
    BY <1>1, <1>5, <1>6, QuietGenerator

LEMMA LoadKeeps ==
  ASSUME CatalogueInv, NEW p \in Importers, Load(p)
  PROVE  CatalogueInv'
<1>1. /\ writer[p].pc = "loading" /\ row # NoRow /\ Ends(p) /\ UNCHANGED <<row, lastId, severed>>
      /\ Types /\ RowSane /\ p \in Writers /\ p # Seeder
    BY Options DEF Load, Exists, CatalogueInv, Writers
<1>2. /\ writer' \in [Writers -> WriterRecord]
      /\ \A w \in Writers : WriterSane(w, writer'[w]) /\ KeepsOwner(writer[w], writer'[w])
  <2>1. /\ writer' \in [Writers -> WriterRecord]
        /\ writer'[p] = IdleWriter /\ \A w \in Writers \ {p} : writer'[w] = writer[w]
      BY <1>1, IdleWriterFacts DEF Ends, Types
  <2>2. WriterSane(p, IdleWriter) /\ KeepsOwner(writer[p], IdleWriter)
      BY <1>1, IdleWriterFacts DEF WriterSane, KeepsOwner, Working, Types
  <2>3. \A w \in Writers : WriterSane(w, writer[w]) /\ KeepsOwner(writer[w], writer[w])
      BY DEF CatalogueInv, KeepsOwner
  <2> QED
      BY <2>1, <2>2, <2>3
<1>3. /\ generator' \in [Importers -> GeneratorRecord]
      /\ \A q \in Importers : GeneratorSane(generator'[q])
  <2>1. CASE row.boilerplate /\ generator[p].pc = "idle"
    <3>1. PICK id \in Nat : id = row.id /\ id <= lastId
        BY <1>1 DEF Types, Rows, RowSane
    <3>2. PICK g : g = [pc |-> "counting", id |-> id, attempt |-> 0, start |-> 0]
        OBVIOUS
    <3>3. PICK h : h = [pc |-> "counting", id |-> 0, attempt |-> 0, start |-> 0]
        OBVIOUS
    <3>4. g \in GeneratorRecord /\ g.pc = "counting" /\ g.id = id
        BY <3>2 DEF GeneratorRecord
    <3>5. [IdleGenerator EXCEPT !.pc = "counting"] = h
        BY <3>3 DEF IdleGenerator
    <3>6. [h EXCEPT !.id = id] = g
        BY <3>2, <3>3
    <3>7. [IdleGenerator EXCEPT !.pc = "counting", !.id = id]
            = [[IdleGenerator EXCEPT !.pc = "counting"] EXCEPT !.id = id]
        OBVIOUS
    <3>8. generator' = [generator EXCEPT ![p] = [IdleGenerator EXCEPT !.pc = "counting", !.id = id]]
        BY <2>1, <3>1 DEF Load
    <3>9. generator' = [generator EXCEPT ![p] = g]
        BY <3>5, <3>6, <3>7, <3>8
    <3>10. GeneratorSane(g)
        BY <2>1, <3>1, <3>4 DEF GeneratorSane
    <3> QED
        BY <1>1, <3>4, <3>9, <3>10 DEF Types, CatalogueInv
  <2>2. CASE ~(row.boilerplate /\ generator[p].pc = "idle")
      BY <1>1, <2>2 DEF Load, Types, CatalogueInv
  <2> QED
      BY <2>1, <2>2
<1> QED
    BY <1>1, <1>2, <1>3, QuietStep DEF SameRow, Types

LEMMA CreateManyKeeps ==
  ASSUME CatalogueInv, NEW p \in Importers, NEW n \in 1..MaxCases, NEW answered \in BOOLEAN,
         CreateMany(p, n, answered)
  PROVE  CatalogueInv'
<1>1. /\ Types /\ RowSane /\ PartialRowsOwned
      /\ \A w \in Writers : WriterSane(w, writer[w])
      /\ \A q \in Importers : GeneratorSane(generator[q])
      /\ UNCHANGED <<lastId, writer, severed>> /\ n \in Nat
    BY DEF CatalogueInv, CreateMany
<1>2. PICK h \in GeneratorRecord : h = generator[p]
    BY <1>1 DEF Types
<1>3. /\ h.pc = "inserting" /\ Exists(h.id) /\ row.boilerplate /\ h.start \in Nat
      /\ h.start >= Visible /\ 0..h.start - 1 \subseteq DOMAIN row.tests
    BY <1>1, <1>2 DEF CreateMany, GeneratorSane, GeneratorRecord
<1>4. PICK r \in Rows : r = row
    BY <1>1, <1>3 DEF Types, Exists
<1>5. PICK t \in TestMaps :
        /\ t = PutMany(r.tests, h.start, n)
        /\ DOMAIN t = DOMAIN r.tests \cup h.start..h.start + n - 1
        /\ \A k \in DOMAIN r.tests : t[k] = r.tests[k]
  <2>1. PICK f \in TestMaps, start \in Nat, m \in Nat : f = r.tests /\ start = h.start /\ m = n
      BY <1>1, <1>3 DEF Rows
  <2>2. /\ PutMany(f, start, m) \in TestMaps
        /\ DOMAIN PutMany(f, start, m) = DOMAIN f \cup start..start + m - 1
        /\ \A k \in DOMAIN f : PutMany(f, start, m)[k] = f[k]
      BY PutManyFacts
  <2> QED
      BY <2>1, <2>2
<1>6. PICK q : q = [r EXCEPT !.tests = t]
    OBVIOUS
<1>7. /\ q \in Rows /\ q.id = r.id /\ q.by = r.by /\ q.boilerplate = r.boilerplate
      /\ q.tests = t
    BY <1>6 DEF Rows
<1>8. row' = q
    BY <1>2, <1>4, <1>5, <1>6 DEF CreateMany
<1>9. RowGrows
    BY <1>4, <1>5, <1>7, <1>8 DEF RowGrows
<1>10. row' # NoRow /\ row # NoRow
    BY <1>4, <1>7, <1>8, RowsAreRows
<1>11. RowSane'
  <2>1. PICK m \in Nat : DOMAIN r.tests = 0..m - 1
      BY <1>1, <1>4, <1>10 DEF RowSane, Filled
  <2>2. h.start <= m
    <3>1. CASE h.start = 0
        BY <3>1
    <3>2. CASE h.start # 0
      <4>1. h.start - 1 \in 0..h.start - 1
          BY <1>3, <3>2
      <4>2. h.start - 1 \in 0..m - 1
          BY <1>3, <1>4, <2>1, <4>1
      <4> QED
          BY <1>3, <4>2
    <3> QED
        BY <3>1, <3>2
  <2>3. PICK b \in Nat : b = h.start + n
      BY <1>1, <1>3
  <2>4. PICK a \in Nat : a = h.start /\ a <= m
      BY <1>3, <2>2
  <2>5. \E l \in Nat : DOMAIN t = 0..l - 1
    <3>1. DOMAIN t = (0..m - 1) \cup (a..b - 1)
        BY <1>5, <2>1, <2>3, <2>4
    <3>2. CASE m >= b
        BY <2>4, <3>1, <3>2
    <3>3. CASE m < b
        BY <2>4, <3>1, <3>3
    <3> QED
        BY <3>2, <3>3
  <2>6. ASSUME NEW k \in DOMAIN t, ~t[k] PROVE k >= Visible
    <3>1. CASE k \in DOMAIN r.tests
        BY <1>1, <1>4, <1>5, <1>10, <2>6, <3>1 DEF RowSane
    <3>2. CASE k \in h.start..h.start + n - 1
        BY <1>1, <1>3, <3>2, Options
    <3> QED
        BY <1>5, <3>1, <3>2
  <2>7. 0..Visible - 1 \subseteq DOMAIN t /\ r.id <= lastId'
      BY <1>1, <1>3, <1>4, <1>5, <1>10 DEF RowSane
  <2> QED
      BY <1>7, <1>8, <2>5, <2>6, <2>7 DEF RowSane, Filled
<1>12. PartialRowsOwned'
    BY <1>3, <1>4, <1>7, <1>8, <1>10, <1>11, BoilerplatePlayable DEF PartialRowsOwned
<1>13. \E g \in GeneratorRecord :
         /\ generator' = [generator EXCEPT ![p] = g]
         /\ \/ g.pc = "idle" /\ g.id = 0
            \/ g.pc = "counting" /\ g.id = generator[p].id
  <2>1. CASE answered
      BY <2>1, GeneratorEndsFacts DEF CreateMany
  <2>2. CASE ~answered
      BY <2>2, AttemptFailsFacts DEF CreateMany
  <2> QED
      BY <2>1, <2>2
<1>14. PICK g \in GeneratorRecord :
         /\ generator' = [generator EXCEPT ![p] = g]
         /\ \/ g.pc = "idle" /\ g.id = 0
            \/ g.pc = "counting" /\ g.id = generator[p].id
    BY <1>13
<1>15. GeneratorSane(g)
    BY <1>2, <1>3, <1>14, IdleOrSameSane
<1>16. /\ generator' \in [Importers -> GeneratorRecord]
       /\ \A x \in Importers : GeneratorSane(generator'[x])
    BY <1>1, <1>14, <1>15 DEF Types
<1>17. Types'
    BY <1>1, <1>7, <1>8, <1>16 DEF Types
<1>18. \A x \in Importers : \A e : e = generator'[x] => GeneratorSane(e)'
    BY <1>1, <1>9, <1>16, GrowthKeeps
<1>19. \A v \in Writers : \A e : e = writer'[v] => WriterSane(v, e)'
  <2> SUFFICES ASSUME NEW v \in Writers, NEW e, e = writer[v]
               PROVE  WriterSane(v, e)'
      BY <1>1
  <2>1. WriterSane(v, e) /\ e \in WriterRecord
      BY <1>1 DEF Types
  <2>2. CASE ~(Working(e) /\ Exists(e.id))
      BY <1>1, <1>9, <2>1, <2>2, GrowthKeeps
  <2>3. CASE Working(e) /\ Exists(e.id)
    <3>1. row.by = v /\ (e.pc = "writing" => e.step \in 1..Steps(v) /\ Progress(v, e.step))
        BY <2>1, <2>3 DEF WriterSane, Working
    <3>2. e.pc = "writing" => ~(e.step <= TestSteps(v))
        BY <1>3, <3>1 DEF Progress
    <3>3. 0..Visible - 1 \subseteq DOMAIN row'.tests /\ row'.boilerplate
        BY <1>3, <1>4, <1>7, <1>8, <1>11, <1>10 DEF RowSane
    <3>4. e.pc = "writing" => Progress(v, e.step)'
        BY <3>2, <3>3 DEF Progress
    <3> QED
        BY <1>1, <1>9, <2>1, <3>1, <3>4 DEF WriterSane, RowGrows
  <2> QED
      BY <2>2, <2>3
<1> QED
    BY <1>11, <1>12, <1>17, <1>18, <1>19, InvariantAfter
-----------------------------------------------------------------------------
(* Processes that die.                                                     *)

LEMMA ServerCrashesKeeps == CatalogueInv /\ ServerCrashes => CatalogueInv'
<1> SUFFICES ASSUME CatalogueInv, ServerCrashes PROVE CatalogueInv'
    OBVIOUS
<1>1. /\ Types /\ UNCHANGED <<row, lastId>>
      /\ writer' = [w \in Writers |-> IF w = Seeder THEN writer[w] ELSE IdleWriter]
      /\ generator' = [p \in Importers |-> IdleGenerator]
      /\ severed' = (severed \/ \E p \in Importers : AtWork(p))
    BY DEF ServerCrashes, CatalogueInv
<1>2. \A w \in Writers : writer'[w] = IF w = Seeder THEN writer[w] ELSE IdleWriter
    BY <1>1
<1>3. writer' \in [Writers -> WriterRecord] /\ generator' \in [Importers -> GeneratorRecord]
    BY <1>1, IdleWriterFacts, IdleGeneratorFacts DEF Types
<1>4. severed' \in BOOLEAN /\ (severed => severed') /\ lastId' = lastId /\ SameRow
    BY <1>1 DEF Types, SameRow
<1>5. ASSUME NEW w \in Writers
      PROVE  WriterSane(w, writer'[w]) /\ KeepsOwner(writer[w], writer'[w])
  <2>1. CASE w = Seeder
      BY <1>2, <2>1 DEF CatalogueInv, KeepsOwner
  <2>2. CASE w # Seeder
    <3>1. writer'[w] = IdleWriter /\ w \in Importers
        BY <1>2, <2>2 DEF Writers
    <3>2. WriterSane(w, IdleWriter)
        BY <1>1, IdleWriterFacts DEF WriterSane, Types
    <3>3. Working(writer[w]) => severed'
        BY <1>1, <3>1 DEF Working, AtWork
    <3> QED
        BY <3>1, <3>2, <3>3 DEF KeepsOwner
  <2> QED
      BY <2>1, <2>2
<1>6. \A p \in Importers : GeneratorSane(generator'[p])
    BY <1>1, IdleGeneratorFacts DEF GeneratorSane, Types
<1> QED
    BY <1>3, <1>4, <1>5, <1>6, QuietStep

LEMMA SeedDiesKeeps == CatalogueInv /\ SeedDies => CatalogueInv'
<1> SUFFICES ASSUME CatalogueInv, SeedDies PROVE CatalogueInv'
    OBVIOUS
<1>1. WriterSane(Seeder, IdleWriter)
    BY IdleWriterFacts DEF WriterSane, CatalogueInv, Types
<1>2. KeepsOwner(writer[Seeder], IdleWriter)
    BY DEF SeedDies, KeepsOwner, Working, AtWork
<1>3. severed' \in BOOLEAN /\ (severed => severed')
    BY DEF SeedDies, CatalogueInv, Types
<1> QED
    BY <1>1, <1>2, <1>3, IdleWriterFacts, Options, QuietWriter DEF SeedDies, Ends, SameRow

-----------------------------------------------------------------------------
(* The invariant.                                                          *)

LEMMA CatalogueInit == Init => CatalogueInv
<1> SUFFICES ASSUME Init PROVE CatalogueInv
    OBVIOUS
<1>1. Types
    BY IdleWriterFacts, IdleGeneratorFacts DEF Init, Types
<1>2. RowSane /\ PartialRowsOwned
    BY DEF Init, RowSane, PartialRowsOwned
<1>3. \A w \in Writers : WriterSane(w, writer[w])
    BY IdleWriterFacts DEF Init, WriterSane
<1>4. \A p \in Importers : GeneratorSane(generator[p])
    BY IdleGeneratorFacts DEF Init, GeneratorSane
<1> QED
    BY <1>1, <1>2, <1>3, <1>4 DEF CatalogueInv

LEMMA CatalogueStutters == CatalogueInv /\ UNCHANGED vars => CatalogueInv'
<1> SUFFICES ASSUME CatalogueInv, UNCHANGED vars PROVE CatalogueInv'
    OBVIOUS
<1>1. UNCHANGED <<row, lastId, writer, generator, severed>> /\ Types
    BY DEF vars, CatalogueInv
<1>2. \A w \in Writers : WriterSane(w, writer'[w]) /\ KeepsOwner(writer[w], writer'[w])
    BY <1>1 DEF CatalogueInv, KeepsOwner
<1>3. \A p \in Importers : GeneratorSane(generator'[p])
    BY <1>1 DEF CatalogueInv
<1> QED
    BY <1>1, <1>2, <1>3, QuietStep DEF Types, SameRow

LEMMA CatalogueNext == CatalogueInv /\ [Next]_vars => CatalogueInv'
<1> SUFFICES ASSUME CatalogueInv, [Next]_vars PROVE CatalogueInv'
    OBVIOUS
<1>1. ASSUME NEW w \in Writers, WriterStep(w) PROVE CatalogueInv'
  <2>1. CASE \E answered \in BOOLEAN : Create(w, answered)
      BY <2>1, CreateKeeps
  <2>2. CASE \E answered \in BOOLEAN : WriteChild(w, answered)
      BY <2>2, WriteChildKeeps
  <2>3. CASE Find(w) \/ Restore(w) \/ Fetch(w)
      BY <2>3, FindKeeps, RestoreKeeps, FetchKeeps
  <2>4. CASE FailsEarly(w) \/ WriteFails(w) \/ Rollback(w) \/ RollbackFails(w)
      BY <2>4, FailsEarlyKeeps, WriteFailsKeeps, RollbackKeeps, RollbackFailsKeeps
  <2> QED
      BY <1>1, <2>1, <2>2, <2>3, <2>4 DEF WriterStep
<1>2. ASSUME NEW p \in Importers, GeneratorStep(p) PROVE CatalogueInv'
  <2>1. CASE Load(p) \/ CountHidden(p) \/ Place(p)
      BY <2>1, LoadKeeps, CountHiddenKeeps, PlaceKeeps
  <2>2. CASE GenerationFails(p)
      BY <2>2, AttemptFailsStep DEF GenerationFails
  <2>3. CASE NothingGenerated(p)
      BY <2>3, GeneratorEndsStep DEF NothingGenerated
  <2>4. CASE \E n \in 1..MaxCases, answered \in BOOLEAN : CreateMany(p, n, answered)
      BY <2>4, CreateManyKeeps
  <2> QED
      BY <1>2, <2>1, <2>2, <2>3, <2>4 DEF GeneratorStep
<1> QED
    BY <1>1, <1>2, SoftDeleteKeeps, ServerCrashesKeeps, SeedDiesKeeps, CatalogueStutters DEF Next

\* Every reachable state of the catalogue satisfies the invariant.
THEOREM CatalogueInvariant == Spec => []CatalogueInv
<1>1. Init => CatalogueInv
    BY CatalogueInit
<1>2. CatalogueInv /\ [Next]_vars => CatalogueInv'
    BY CatalogueNext
<1> QED
    BY <1>1, <1>2, PTL DEF Spec

\* Whatever fails in importOrGetProblem or in the seed script, and however many
\* of them run, a problem that lacks a visible test case or its boilerplate has
\* a writer that is still at work on it or about to delete it, unless a process
\* died, a rollback failed or the answer to the first insert was lost.
THEOREM PartialRowsOwnedAlways == Spec => []PartialRowsOwned
<1>1. CatalogueInv => PartialRowsOwned
    BY DEF CatalogueInv
<1> QED
    BY <1>1, CatalogueInvariant, PTL

\* The order_index of the test cases of a problem are 0, 1, 2, ... without a
\* gap, and the hidden ones come after all the visible ones: getNextOrderIndex
\* and createMany may be separated by other generations and by the writer.
THEOREM TestsInOrderAlways == Spec => []TestsInOrder
<1>1. CatalogueInv => TestsInOrder
  <2> SUFFICES ASSUME CatalogueInv, row # NoRow PROVE TestsInOrder
      BY DEF TestsInOrder
  <2>1. PICK n \in Nat : DOMAIN row.tests = 0..n - 1
      BY DEF CatalogueInv, RowSane, Filled
  <2>2. Cardinality(0..n - 1) = n
    <3>1. Cardinality(0..n - 1) = IF 0 > n - 1 THEN 0 ELSE n - 1 - 0 + 1
        BY FS_Interval
    <3> QED
        BY <3>1
  <2>3. \A k \in Hidden(row.tests) : k >= Visible
      BY DEF CatalogueInv, RowSane, Hidden
  <2> QED
      BY <2>1, <2>2, <2>3 DEF TestsInOrder
<1> QED
    BY <1>1, CatalogueInvariant, PTL

\* deleteById is only ever called on a problem by the import or the seed whose
\* create inserted it, also when another writer took the slug in between.
THEOREM RollbackOwnRowAlways == Spec => RollbackOwnRow
<1> DEFINE Own == row # NoRow /\ row' = NoRow =>
                    writer[row.by].pc = "deleting" /\ writer[row.by].id = row.id
<1>1. CatalogueInv /\ [Next]_vars => [Own]_vars
  <2> SUFFICES ASSUME CatalogueInv, Next, row # NoRow, row' = NoRow
               PROVE  writer[row.by].pc = "deleting" /\ writer[row.by].id = row.id
      BY DEF vars
  <2>1. row \in Rows /\ ~(row' \in Rows) /\ ~SameRow
      BY RowsAreRows DEF CatalogueInv, Types, SameRow
  <2>2. PICK w \in Writers : Rollback(w)
    <3>1. ASSUME NEW w \in Writers, WriterStep(w) PROVE Rollback(w)
      <4>1. CASE Restore(w)
        <5>1. row' = row \/ row' = [row EXCEPT !.deleted = FALSE]
            BY <4>1 DEF Restore
        <5> QED
            BY <2>1, <5>1, MarkFacts
      <4>2. ASSUME NEW answered \in BOOLEAN, Create(w, answered) PROVE FALSE
          BY <4>2 DEF Create
      <4>3. ASSUME NEW answered \in BOOLEAN, WriteChild(w, answered) PROVE FALSE
        <5>1. WriterSane(w, writer[w]) /\ Types /\ RowSane
            BY DEF CatalogueInv
        <5> QED
            BY <2>1, <4>3, <5>1, WriteChildRow DEF RowGrows
      <4>4. CASE Find(w) \/ Fetch(w) \/ FailsEarly(w) \/ WriteFails(w) \/ RollbackFails(w)
          BY <4>4 DEF Find, Fetch, FailsEarly, WriteFails, RollbackFails
      <4> QED
          BY <3>1, <4>1, <4>2, <4>3, <4>4 DEF WriterStep
    <3>2. ASSUME NEW p \in Importers, GeneratorStep(p) PROVE FALSE
      <4>1. ASSUME NEW n \in 1..MaxCases, NEW answered \in BOOLEAN, CreateMany(p, n, answered)
            PROVE  FALSE
        <5>1. PICK r \in Rows : r = row
            BY <2>1
        <5>2. row' = [r EXCEPT !.tests = PutMany(@, generator[p].start, n)]
            BY <4>1, <5>1 DEF CreateMany
        <5>3. row'.id = r.id /\ r.id # 0
            BY <5>1, <5>2 DEF Rows
        <5> QED
            BY <5>3 DEF NoRow, NewRow
      <4>2. CASE Load(p) \/ CountHidden(p) \/ Place(p) \/ GenerationFails(p) \/ NothingGenerated(p)
          BY <4>2 DEF Load, CountHidden, Place, GenerationFails, NothingGenerated
      <4> QED
          BY <3>2, <4>1, <4>2 DEF GeneratorStep
    <3>3. CASE SoftDelete
        BY <2>1, <3>3, MarkFacts DEF SoftDelete
    <3>4. CASE ServerCrashes \/ SeedDies
        BY <3>4 DEF ServerCrashes, SeedDies
    <3> QED
        BY <3>1, <3>2, <3>3, <3>4 DEF Next
  <2>3. writer[w].pc = "deleting" /\ Exists(writer[w].id)
      BY <2>2 DEF Rollback
  <2> QED
      BY <2>3 DEF CatalogueInv, WriterSane, Exists
<1> QED
    BY <1>1, CatalogueInvariant, PTL DEF Spec, RollbackOwnRow
=============================================================================
