------------------------------ MODULE Fixtures ------------------------------
(***************************************************************************)
(* The shape of a curated problem: seeds/data/types.ts, and the operators  *)
(* with which the topic modules Fixtures* say what each problem's          *)
(* description promises.  A problem's definition lists its test cases (the *)
(* input values in the order of the signature, then the expected output)   *)
(* and a condition on them that restates the description; of a case only   *)
(* the comparison with that condition is kept.  A character is a string of *)
(* length one, a row of characters is written as one string, and `null' in *)
(* a list is the number Null.  Titles, hints and texts are left out.       *)
(***************************************************************************)
EXTENDS Integers, Sequences, FiniteSets, SequencesExt, FiniteSetsExt, Functions, TLC

Null == -1000000
Infinity == 2147483647

(***************************************************************************)
(* How answers to a problem reach the grader.  "value": the signature maps *)
(* JSON values to a JSON value.  "node": it takes or returns list or tree  *)
(* nodes.  "in place": it returns None.  "class": the template declares no *)
(* class Solution with the method.  "text": the method returns a text, the *)
(* fixture expects what the text encodes.  shown: the number of visible    *)
(* cases; nulls: the cases whose input contains a JSON null (true or false *)
(* is in none).  The description accepts more than one answer to the cases *)
(* several, and where it fixes no order: anyOrder, of the elements of the  *)
(* answer; within, of what each of them lists.                             *)
(***************************************************************************)
Value == [form |-> "value", anyOrder |-> FALSE, within |-> FALSE, shown |-> 3,
          nulls |-> {}, several |-> {}]
AnyOrder == [Value EXCEPT !.anyOrder = TRUE]
AnyOrders == [AnyOrder EXCEPT !.within = TRUE]
AnyOf(cases) == [Value EXCEPT !.several = cases]
Text == [Value EXCEPT !.form = "text"]
InPlace == [Value EXCEPT !.form = "in place"]
Class == [Value EXCEPT !.form = "class"]
Nodes == [Value EXCEPT !.form = "node"]
NodesWithNulls(cases) == [Nodes EXCEPT !.nulls = cases]

Varied(s) == Cardinality(ToSet(s)) > 1

Fixture(slug, kind, rows, Accepts(_)) ==
    [slug |-> slug, form |-> kind.form,
     cases |-> [i \in DOMAIN rows |->
         [visible  |-> i <= kind.shown,
          jsonOnly |-> i \in kind.nulls,
          right    |-> Accepts(rows[i]),
          several  |-> \/ i \in kind.several
                       \/ kind.anyOrder /\ Varied(Last(rows[i]))
                       \/ kind.within /\ \E list \in ToSet(Last(rows[i])) : Varied(list)]]]

OneInput(slug, kind, rows, Accepts(_, _)) ==
    Fixture(slug, kind, rows, LAMBDA r : Accepts(r[1], r[2]))
TwoInputs(slug, kind, rows, Accepts(_, _, _)) ==
    Fixture(slug, kind, rows, LAMBDA r : Accepts(r[1], r[2], r[3]))
ThreeInputs(slug, kind, rows, Accepts(_, _, _, _)) ==
    Fixture(slug, kind, rows, LAMBDA r : Accepts(r[1], r[2], r[3], r[4]))
FiveInputs(slug, kind, rows, Accepts(_, _, _, _, _, _)) ==
    Fixture(slug, kind, rows, LAMBDA r : Accepts(r[1], r[2], r[3], r[4], r[5], r[6]))

-----------------------------------------------------------------------------
(* Sequences *)
Total(s) == FoldLeft(LAMBDA a, b : a + b, 0, s)
Product(s) == FoldLeft(LAMBDA a, b : a * b, 1, s)
Occurs(s, x) == Cardinality({i \in DOMAIN s : s[i] = x})
Distinct(s) == Cardinality(ToSet(s)) = Len(s)
Rearranged(s, t) == Len(s) = Len(t) /\ \A x \in ToSet(s) : Occurs(s, x) = Occurs(t, x)
Ascending(s) == SortSeq(s, LAMBDA a, b : a < b)
Descending(s) == SortSeq(s, LAMBDA a, b : a > b)
Spans(s) == {<<i, j>> \in (DOMAIN s) \X (DOMAIN s) : i <= j}
Pick(s, I) == LET at == SelectSeq([i \in DOMAIN s |-> i], LAMBDA i : i \in I)
              IN [k \in DOMAIN at |-> s[at[k]]]
Selections(s) == {Pick(s, I) : I \in SUBSET DOMAIN s}
Lists(out, S) == Distinct(out) /\ ToSet(out) = S
ListsSorted(out, S) ==
    Len(out) = Cardinality(S) /\ {Ascending(out[i]) : i \in DOMAIN out} = S
Abs(x) == IF x < 0 THEN -x ELSE x

(* Strings *)
At(s, i) == SubSeq(s, i, i)
Chars(s) == [i \in 1..Len(s) |-> At(s, i)]
JoinedText(cs) == FoldLeft(LAMBDA a, b : a \o b, "", cs)
Upper == "ABCDEFGHIJKLMNOPQRSTUVWXYZ"
Lower == "abcdefghijklmnopqrstuvwxyz"
Digits == "0123456789"
Place(c, alphabet) == CHOOSE i \in 1..Len(alphabet) : At(alphabet, i) = c
Among(c, alphabet) == c \in ToSet(Chars(alphabet))
DigitsOf(s) == [i \in 1..Len(s) |-> Place(At(s, i), Digits) - 1]
FromDigits(ds) == FoldLeft(LAMBDA a, d : 10 * a + d, 0, ds)
Number(s) == IF At(s, 1) = "-" THEN -FromDigits(DigitsOf(SubSeq(s, 2, Len(s))))
                               ELSE FromDigits(DigitsOf(s))
Palindrome(s) == \A i \in 1..Len(s) : At(s, i) = At(s, Len(s) + 1 - i)

(* Grids of characters (a sequence of strings) or of numbers, and graphs *)
Cells(g) == (1..Len(g)) \X (1..Len(g[1]))
Beside(c, S) == {d \in S : Abs(c[1] - d[1]) + Abs(c[2] - d[2]) = 1}
Num(g, c) == g[c[1]][c[2]]
Char(g, c) == At(g[c[1]], c[2])
Edge(g, S) == {c \in S : c[1] \in {1, Len(g)} \/ c[2] \in {1, Len(g[1])}}

RECURSIVE Reach(_, _)
Reach(S, next) == LET T == S \cup UNION {next[x] : x \in S}
                  IN IF T = S THEN S ELSE Reach(T, next)
Components(next) == {Reach({x}, next) : x \in DOMAIN next}
Joined(S) == [c \in S |-> Beside(c, S)]
Linked(n, edges) == [v \in n |-> {w \in n : \E e \in ToSet(edges) : e \in {<<v, w>>, <<w, v>>}}]

\* The number of steps from the set S to a member of the set goal; Infinity if there is none.
RECURSIVE StepsTo(_, _, _)
StepsTo(S, goal, next) ==
    LET T == S \cup UNION {next[x] : x \in S}
    IN IF S \cap goal # {} THEN 0
       ELSE IF T = S THEN Infinity
       ELSE LET d == StepsTo(T, goal, next) IN IF d = Infinity THEN d ELSE d + 1

\* A path of different adjacent cells of the board spells the word.
Spelled(board, word) ==
    LET RECURSIVE Goes(_)
        Goes(path) == \/ Len(path) = Len(word)
                      \/ \E c \in IF path = <<>> THEN Cells(board) ELSE Beside(Last(path), Cells(board)) :
                           /\ c \notin ToSet(path) /\ Char(board, c) = At(word, Len(path) + 1)
                           /\ Goes(Append(path, c))
    IN Goes(<<>>)

\* a comes before b in a dictionary.
EarlierWord(a, b) ==
    \E i \in 1..Min({Len(a) + 1, Len(b)}) :
                         /\ SubSeq(a, 1, i - 1) = SubSeq(b, 1, i - 1)
                         /\ \/ i > Len(a)
                            \/ Place(At(a, i), Upper) < Place(At(b, i), Upper)

\* Separate intervals with the points of the given ones (points at the halves tell
\* touching intervals from neighbouring ones).
Covers(out, intervals) ==
    LET Points(s) == UNION {(2 * s[i][1])..(2 * s[i][2]) : i \in DOMAIN s}
    IN /\ Points(out) = Points(intervals)
       /\ \A i, j \in DOMAIN out : i # j => out[i][2] < out[j][1] \/ out[j][2] < out[i][1]

RECURSIVE Ones(_)
Ones(n) == IF n = 0 THEN 0 ELSE (n % 2) + Ones(n \div 2)

(***************************************************************************)
(* Trees, as the lists of the fixtures: the root, then the two children of *)
(* every node in turn, Null where a child is missing.  A node is its       *)
(* position in the list.                                                   *)
(***************************************************************************)
IsNode(t, p) == p \in DOMAIN t /\ t[p] # Null
TreeNodes(t) == {p \in DOMAIN t : t[p] # Null}
Rank(t, p) == Cardinality({q \in TreeNodes(t) : q <= p})
Left(t, p) == 2 * Rank(t, p)
Right(t, p) == 2 * Rank(t, p) + 1
Under(t, p) == Reach({p} \cap TreeNodes(t),
                     [q \in TreeNodes(t) |-> {Left(t, q), Right(t, q)} \cap TreeNodes(t)])
ValuesUnder(t, p) == {t[q] : q \in Under(t, p)}
Level(t, p) == Cardinality({a \in TreeNodes(t) : p \in Under(t, a)})

RECURSIVE Depth(_, _)
Depth(t, p) == IF IsNode(t, p) THEN 1 + Max({Depth(t, Left(t, p)), Depth(t, Right(t, p))}) ELSE 0

RECURSIVE SameTree(_, _, _, _)
SameTree(t, p, u, q) ==
    \/ ~IsNode(t, p) /\ ~IsNode(u, q)
    \/ /\ IsNode(t, p) /\ IsNode(u, q) /\ t[p] = u[q]
       /\ SameTree(t, Left(t, p), u, Left(u, q)) /\ SameTree(t, Right(t, p), u, Right(u, q))

LevelValues(t) ==
    [d \in 1..Depth(t, 1) |-> Pick(t, {p \in TreeNodes(t) : Level(t, p) = d})]
=============================================================================
