-------------------------- MODULE FixturesChoices --------------------------
(* seeds/data: tries.ts, heap.ts and backtracking.ts. *)
EXTENDS Fixtures

\* The words that a path of adjacent cells spells.
WordSearchII ==
    TwoInputs("word-search-ii", AnyOrder,
        <<<<<<"oaan", "etae", "ihkr", "iflv">>, <<"oath", "pea", "eat", "rain">>, <<"eat",
            "oath">>>>, <<<<"ab", "cd">>, <<"abcb">>, <<>>>>, <<<<"a">>, <<"a">>, <<"a">>>>,
          <<<<"ab", "cd">>, <<"ab", "cb", "ad", "bd", "ac", "ca", "da", "bc", "db", "adcb",
            "dabc", "abb", "acb">>, <<"ab", "ac", "bd", "ca", "db">>>>,
          <<<<"aa">>, <<"aaa">>, <<>>>>,
          <<<<"abc", "aed", "afg">>, <<"abcdefg", "gfedcba", "eaabcdgf", "bef", "deabc">>,
            <<"abcdefg", "bef", "eaabcdgf", "gfedcba">>>>,
          <<<<"ab", "aa">>, <<"aba", "baa", "bab", "aaab", "aaa", "aaaa", "aaba">>, <<"aaa",
            "aaab", "aaba", "aba", "baa">>>>,
          <<<<"oabn", "otae", "ahkr", "aflv">>, <<"oa", "oaa">>, <<"oa", "oaa">>>>>>,
      LAMBDA board, words, out : Lists(out, {w \in ToSet(words) : Spelled(board, w)}))

\* The k-th largest after val is added.
KthLargestInStream ==
    ThreeInputs("kth-largest-element-in-a-stream", Class,
        <<<<3, <<4, 5, 8, 2>>, 3, 4>>, <<3, <<4, 5, 8, 2>>, 5, 5>>, <<3, <<4, 5, 8, 2>>, 10, 5>>,
          <<1, <<>>, 1, 1>>, <<1, <<2>>, 3, 3>>, <<2, <<0>>, -1, -1>>,
          <<3, <<4, 5, 8, 2>>, 9, 5>>, <<2, <<1, 1, 1>>, 1, 1>>>>,
      LAMBDA k, nums, val, out : out = Descending(Append(nums, val))[k])

\* What remains when the two heaviest stones smash each other.
LastStoneWeight ==
    OneInput("last-stone-weight", Value,
        <<<<<<2, 7, 4, 1, 8, 1>>, 1>>, <<<<1>>, 1>>, <<<<2, 2>>, 0>>, <<<<10, 4, 2, 10>>, 2>>,
          <<<<3, 7, 2>>, 2>>, <<<<1, 1, 1, 1>>, 0>>, <<<<1, 2, 3, 4, 5>>, 1>>,
          <<<<1000>>, 1000>>>>,
      LAMBDA stones, out :
        LET RECURSIVE Smash(_)
            Smash(w) == IF Len(w) = 0 THEN 0 ELSE IF Len(w) = 1 THEN w[1]
                        ELSE LET rest == SubSeq(w, 3, Len(w)) IN
                             Smash(IF w[1] = w[2] THEN rest ELSE Descending(Append(rest, w[1] - w[2])))
        IN out = Smash(Descending(stones)))

\* k of the points, none farther than a point left out.
KClosestPoints ==
    TwoInputs("k-closest-points-to-origin", [AnyOrder EXCEPT !.several = {6}],
        <<<<<<<<1, 3>>, <<-2, 2>>>>, 1, <<<<-2, 2>>>>>>,
          <<<<<<3, 3>>, <<5, -1>>, <<-2, 4>>>>, 2, <<<<3, 3>>, <<-2, 4>>>>>>,
          <<<<<<0, 0>>, <<1, 1>>>>, 1, <<<<0, 0>>>>>>,
          <<<<<<1, 0>>, <<0, 1>>>>, 2, <<<<1, 0>>, <<0, 1>>>>>>,
          <<<<<<2, 2>>, <<2, 2>>, <<3, 3>>>>, 2, <<<<2, 2>>, <<2, 2>>>>>>,
          <<<<<<-1, -1>>, <<1, 1>>, <<2, 2>>>>, 1, <<<<-1, -1>>>>>>,
          <<<<<<0, 1>>, <<1, 0>>, <<0, -1>>, <<-1, 0>>>>, 4, <<<<0, 1>>, <<1, 0>>, <<0, -1>>,
            <<-1, 0>>>>>>, <<<<<<10, 10>>>>, 1, <<<<10, 10>>>>>>>>,
      LAMBDA points, k, out :
        LET Far(p) == p[1] * p[1] + p[2] * p[2]
        IN Len(out) = k /\ \A p \in ToSet(out) :
             /\ Occurs(out, p) <= Occurs(points, p)
             /\ \A q \in ToSet(points) : Occurs(out, q) < Occurs(points, q) => Far(p) <= Far(q))

\* The k-th in descending order.
KthLargestInArray ==
    TwoInputs("kth-largest-element-in-an-array", Value,
        <<<<<<3, 2, 1, 5, 6, 4>>, 2, 5>>, <<<<3, 2, 3, 1, 2, 4, 5, 5, 6>>, 4, 4>>,
          <<<<1>>, 1, 1>>, <<<<7, 6, 5, 4, 3, 2, 1>>, 5, 3>>, <<<<1, 2, 3, 4, 5>>, 1, 5>>,
          <<<<1, 2, 3, 4, 5>>, 5, 1>>, <<<<2, 2, 2, 2>>, 2, 2>>, <<<<-1, -2, -3, -4>>, 1, -1>>>>,
      LAMBDA nums, k, out : out = Descending(nums)[k])

\* Every task once, and the most frequent ones n apart.
TaskScheduler ==
    TwoInputs("task-scheduler", Value,
        <<<<<<"A", "A", "A", "B", "B", "B">>, 2, 8>>, <<<<"A", "C", "A", "B", "D", "B">>, 1, 6>>,
          <<<<"A", "A", "A", "B", "B", "B">>, 0, 6>>, <<<<"A">>, 0, 1>>,
          <<<<"A", "A", "A", "A", "A", "A", "B", "C", "D", "E", "F", "G">>, 1, 12>>,
          <<<<"A", "B", "C", "D", "E", "F">>, 2, 6>>,
          <<<<"A", "A", "A", "B", "B", "B", "C", "C", "C">>, 2, 9>>, <<<<"A", "A">>, 5, 7>>>>,
      LAMBDA tasks, n, out :
        LET most == Max({Occurs(tasks, x) : x \in ToSet(tasks)})
            tied == Cardinality({x \in ToSet(tasks) : Occurs(tasks, x) = most})
        IN out = Max({Len(tasks), (most - 1) * (n + 1) + tied}))

\* Every subset.
Subsets ==
    OneInput("subsets", AnyOrders,
        <<<<<<1, 2, 3>>, <<<<>>, <<1>>, <<2>>, <<1, 2>>, <<3>>, <<1, 3>>, <<2, 3>>, <<1, 2,
            3>>>>>>, <<<<0>>, <<<<>>, <<0>>>>>>, <<<<1, 2>>, <<<<>>, <<1>>, <<2>>, <<1, 2>>>>>>,
          <<<<1>>, <<<<>>, <<1>>>>>>,
          <<<<-1, 0, 1>>, <<<<>>, <<-1>>, <<0>>, <<-1, 0>>, <<1>>, <<-1, 1>>, <<0, 1>>, <<-1, 0,
            1>>>>>>,
          <<<<1, 2, 3, 4>>, <<<<>>, <<1>>, <<2>>, <<1, 2>>, <<3>>, <<1, 3>>, <<2, 3>>, <<1, 2,
            3>>, <<4>>, <<1, 4>>, <<2, 4>>, <<1, 2, 4>>, <<3, 4>>, <<1, 3, 4>>, <<2, 3, 4>>, <<1,
            2, 3, 4>>>>>>, <<<<5, 10>>, <<<<>>, <<5>>, <<10>>, <<5, 10>>>>>>,
          <<<<-10, 10>>, <<<<>>, <<-10>>, <<10>>, <<-10, 10>>>>>>>>,
      LAMBDA nums, out : ListsSorted(out, {Ascending(x) : x \in Selections(nums)}))

\* Every combination of candidates, repeated at will, with sum target.
CombinationSum ==
    TwoInputs("combination-sum", AnyOrders,
        <<<<<<2, 3, 6, 7>>, 7, <<<<2, 2, 3>>, <<7>>>>>>,
          <<<<2, 3, 5>>, 8, <<<<2, 2, 2, 2>>, <<2, 3, 3>>, <<3, 5>>>>>>, <<<<2>>, 1, <<>>>>,
          <<<<3>>, 9, <<<<3, 3, 3>>>>>>, <<<<2, 3>>, 6, <<<<2, 2, 2>>, <<3, 3>>>>>>,
          <<<<7, 3, 2>>, 18, <<<<2, 2, 2, 2, 2, 2, 2, 2, 2>>, <<2, 2, 2, 2, 2, 2, 3, 3>>, <<2, 2,
            2, 2, 3, 7>>, <<2, 2, 2, 3, 3, 3, 3>>, <<2, 2, 7, 7>>, <<2, 3, 3, 3, 7>>, <<3, 3, 3,
            3, 3, 3>>, <<7, 7, 2, 2>>>>>>,
          <<<<5, 10, 15>>, 15, <<<<5, 5, 5>>, <<5, 10>>, <<15>>>>>>,
          <<<<8, 4>>, 8, <<<<4, 4>>, <<8>>>>>>>>,
      LAMBDA candidates, target, out :
        LET RECURSIVE Sums(_, _)
            Sums(least, rest) == IF rest = 0 THEN {<<>>}
                ELSE UNION {{<<c>> \o x : x \in Sums(c, rest - c)} :
                              c \in {d \in ToSet(candidates) : least <= d /\ d <= rest}}
        IN ListsSorted(out, Sums(0, target)))

\* Every order of the numbers.
EveryPermutation ==
    OneInput("permutations", AnyOrder,
        <<<<<<1, 2, 3>>, <<<<1, 2, 3>>, <<1, 3, 2>>, <<2, 1, 3>>, <<2, 3, 1>>, <<3, 1, 2>>, <<3,
            2, 1>>>>>>, <<<<0, 1>>, <<<<0, 1>>, <<1, 0>>>>>>, <<<<1>>, <<<<1>>>>>>,
          <<<<-1, 0, 1>>, <<<<-1, 0, 1>>, <<-1, 1, 0>>, <<0, -1, 1>>, <<0, 1, -1>>, <<1, -1, 0>>,
            <<1, 0, -1>>>>>>, <<<<1, 2>>, <<<<1, 2>>, <<2, 1>>>>>>, <<<<5>>, <<<<5>>>>>>,
          <<<<1, 2, 3, 4>>, <<<<1, 2, 3, 4>>, <<1, 2, 4, 3>>, <<1, 3, 2, 4>>, <<1, 3, 4, 2>>,
            <<1, 4, 2, 3>>, <<1, 4, 3, 2>>, <<2, 1, 3, 4>>, <<2, 1, 4, 3>>, <<2, 3, 1, 4>>, <<2,
            3, 4, 1>>, <<2, 4, 1, 3>>, <<2, 4, 3, 1>>, <<3, 1, 2, 4>>, <<3, 1, 4, 2>>, <<3, 2, 1,
            4>>, <<3, 2, 4, 1>>, <<3, 4, 1, 2>>, <<3, 4, 2, 1>>, <<4, 1, 2, 3>>, <<4, 1, 3, 2>>,
            <<4, 2, 1, 3>>, <<4, 2, 3, 1>>, <<4, 3, 1, 2>>, <<4, 3, 2, 1>>>>>>,
          <<<<0>>, <<<<0>>>>>>>>,
      LAMBDA nums, out : Lists(out, SetToSeqs(ToSet(nums))))

\* Every different selection.
SubsetsII ==
    OneInput("subsets-ii", AnyOrders,
        <<<<<<1, 2, 2>>, <<<<>>, <<1>>, <<1, 2>>, <<1, 2, 2>>, <<2>>, <<2, 2>>>>>>,
          <<<<0>>, <<<<>>, <<0>>>>>>, <<<<1, 1>>, <<<<>>, <<1>>, <<1, 1>>>>>>,
          <<<<1, 2, 3>>, <<<<>>, <<1>>, <<1, 2>>, <<1, 2, 3>>, <<1, 3>>, <<2>>, <<2, 3>>,
            <<3>>>>>>, <<<<4, 4, 4>>, <<<<>>, <<4>>, <<4, 4>>, <<4, 4, 4>>>>>>,
          <<<<1, 1, 2, 2>>, <<<<>>, <<1>>, <<1, 1>>, <<1, 1, 2>>, <<1, 1, 2, 2>>, <<1, 2>>, <<1,
            2, 2>>, <<2>>, <<2, 2>>>>>>,
          <<<<3, 1, 2>>, <<<<>>, <<1>>, <<1, 2>>, <<1, 2, 3>>, <<1, 3>>, <<2>>, <<2, 3>>,
            <<3>>>>>>,
          <<<<0, 0, 0, 0>>, <<<<>>, <<0>>, <<0, 0>>, <<0, 0, 0>>, <<0, 0, 0, 0>>>>>>>>,
      LAMBDA nums, out : ListsSorted(out, {Ascending(x) : x \in Selections(nums)}))

\* Every different selection with sum target.
CombinationSumII ==
    TwoInputs("combination-sum-ii", AnyOrders,
        <<<<<<10, 1, 2, 7, 6, 1, 5>>, 8, <<<<1, 1, 6>>, <<1, 2, 5>>, <<1, 7>>, <<2, 6>>>>>>,
          <<<<2, 5, 2, 1, 2>>, 5, <<<<1, 2, 2>>, <<5>>>>>>, <<<<1>>, 1, <<<<1>>>>>>,
          <<<<1>>, 2, <<>>>>, <<<<1, 1, 1, 1>>, 2, <<<<1, 1>>>>>>,
          <<<<3, 1, 3, 5, 1, 1>>, 5, <<<<1, 1, 3>>, <<5>>>>>>, <<<<2, 2, 2>>, 4, <<<<2, 2>>>>>>,
          <<<<4, 3, 2, 1>>, 10, <<<<1, 2, 3, 4>>>>>>>>,
      LAMBDA candidates, target, out :
        ListsSorted(out, {x \in {Ascending(y) : y \in Selections(candidates)} : Total(x) = target}))

\* A path of adjacent cells spells the word.
WordSearch ==
    TwoInputs("word-search", Value,
        <<<<<<"ABCE", "SFCS", "ADEE">>, "ABCCED", TRUE>>,
          <<<<"ABCE", "SFCS", "ADEE">>, "SEE", TRUE>>,
          <<<<"ABCE", "SFCS", "ADEE">>, "ABCB", FALSE>>, <<<<"A">>, "A", TRUE>>,
          <<<<"A">>, "B", FALSE>>, <<<<"AB", "CD">>, "ABDC", TRUE>>,
          <<<<"AAA", "AAA", "AAA">>, "AAAAAAAAA", TRUE>>, <<<<"AB", "CD">>, "ACDB", TRUE>>>>,
      LAMBDA board, word, out : out = Spelled(board, word))

\* Every way to cut s into palindromes.
PalindromePartitioning ==
    OneInput("palindrome-partitioning", AnyOrder,
        <<<<"aab", <<<<"a", "a", "b">>, <<"aa", "b">>>>>>, <<"a", <<<<"a">>>>>>,
          <<"ab", <<<<"a", "b">>>>>>, <<"aa", <<<<"a", "a">>, <<"aa">>>>>>,
          <<"aaa", <<<<"a", "a", "a">>, <<"a", "aa">>, <<"aa", "a">>, <<"aaa">>>>>>,
          <<"aba", <<<<"a", "b", "a">>, <<"aba">>>>>>,
          <<"abba", <<<<"a", "b", "b", "a">>, <<"a", "bb", "a">>, <<"abba">>>>>>,
          <<"abc", <<<<"a", "b", "c">>>>>>>>,
      LAMBDA s, out :
        LET RECURSIVE Cuts(_)
            Cuts(r) == IF r = "" THEN {<<>>}
                ELSE UNION {{<<SubSeq(r, 1, i)>> \o x : x \in Cuts(SubSeq(r, i + 1, Len(r)))} :
                              i \in {j \in 1..Len(r) : Palindrome(SubSeq(r, 1, j))}}
        IN Lists(out, Cuts(s)))

\* One letter of the key for each digit.
LetterCombinations ==
    OneInput("letter-combinations-of-a-phone-number", AnyOrder,
        <<<<"23", <<"ad", "ae", "af", "bd", "be", "bf", "cd", "ce", "cf">>>>, <<"", <<>>>>,
          <<"2", <<"a", "b", "c">>>>, <<"9", <<"w", "x", "y", "z">>>>,
          <<"7", <<"p", "q", "r", "s">>>>,
          <<"79", <<"pw", "px", "py", "pz", "qw", "qx", "qy", "qz", "rw", "rx", "ry", "rz", "sw",
            "sx", "sy", "sz">>>>,
          <<"22", <<"aa", "ab", "ac", "ba", "bb", "bc", "ca", "cb", "cc">>>>,
          <<"234", <<"adg", "adh", "adi", "aeg", "aeh", "aei", "afg", "afh", "afi", "bdg", "bdh",
            "bdi", "beg", "beh", "bei", "bfg", "bfh", "bfi", "cdg", "cdh", "cdi", "ceg", "ceh",
            "cei", "cfg", "cfh", "cfi">>>>>>,
      LAMBDA digits, out :
        LET keys == <<"", "abc", "def", "ghi", "jkl", "mno", "pqrs", "tuv", "wxyz">>
            RECURSIVE Words(_)
            Words(d) == IF d = "" THEN {""}
                ELSE {c \o w : c \in ToSet(Chars(keys[Number(At(d, 1))])), w \in Words(SubSeq(d, 2, Len(d)))}
        IN Lists(out, IF digits = "" THEN {} ELSE Words(digits)))

\* Every board; the number 92 of the last case is written as a board "92".
NQueens ==
    OneInput("n-queens", AnyOrder,
        <<<<4, <<<<".Q..", "...Q", "Q...", "..Q.">>, <<"..Q.", "Q...", "...Q", ".Q..">>>>>>,
          <<1, <<<<"Q">>>>>>, <<2, <<>>>>, <<3, <<>>>>,
          <<5, <<<<"Q....", "..Q..", "....Q", ".Q...", "...Q.">>, <<"Q....", "...Q.", ".Q...",
            "....Q", "..Q..">>, <<".Q...", "...Q.", "Q....", "..Q..", "....Q">>, <<".Q...",
            "....Q", "..Q..", "Q....", "...Q.">>, <<"..Q..", "Q....", "...Q.", ".Q...",
            "....Q">>, <<"..Q..", "....Q", ".Q...", "...Q.", "Q....">>, <<"...Q.", "Q....",
            "..Q..", "....Q", ".Q...">>, <<"...Q.", ".Q...", "....Q", "..Q..", "Q....">>,
            <<"....Q", ".Q...", "...Q.", "Q....", "..Q..">>, <<"....Q", "..Q..", "Q....",
            "...Q.", ".Q...">>>>>>,
          <<6, <<<<".Q....", "...Q..", ".....Q", "Q.....", "..Q...", "....Q.">>, <<"..Q...",
            ".....Q", ".Q....", "....Q.", "Q.....", "...Q..">>, <<"...Q..", "Q.....", "....Q.",
            ".Q....", ".....Q", "..Q...">>, <<"....Q.", "..Q...", "Q.....", ".....Q", "...Q..",
            ".Q....">>>>>>,
          <<7, <<<<"Q......", "..Q....", "....Q..", "......Q", ".Q.....", "...Q...", ".....Q.">>,
            <<"Q......", "...Q...", "......Q", "..Q....", ".....Q.", ".Q.....", "....Q..">>,
            <<".Q.....", "...Q...", "Q......", "......Q", "....Q..", "..Q....", ".....Q.">>,
            <<".Q.....", "...Q...", ".....Q.", "Q......", "..Q....", "....Q..", "......Q">>,
            <<".Q.....", "....Q..", "Q......", "...Q...", "......Q", "..Q....", ".....Q.">>,
            <<".Q.....", "....Q..", "......Q", "...Q...", "Q......", "..Q....", ".....Q.">>,
            <<".Q.....", ".....Q.", "..Q....", "......Q", "...Q...", "Q......", "....Q..">>,
            <<".Q.....", "......Q", "....Q..", "..Q....", "Q......", ".....Q.", "...Q...">>,
            <<"..Q....", "Q......", ".....Q.", ".Q.....", "....Q..", "......Q", "...Q...">>,
            <<"..Q....", "Q......", ".....Q.", "...Q...", ".Q.....", "......Q", "....Q..">>,
            <<"..Q....", "....Q..", "......Q", ".Q.....", "...Q...", ".....Q.", "Q......">>,
            <<"..Q....", ".....Q.", ".Q.....", "....Q..", "Q......", "...Q...", "......Q">>,
            <<"..Q....", "......Q", ".Q.....", "...Q...", ".....Q.", "Q......", "....Q..">>,
            <<"..Q....", "......Q", "...Q...", "Q......", "....Q..", ".Q.....", ".....Q.">>,
            <<"...Q...", "Q......", "....Q..", ".Q.....", ".....Q.", "..Q....", "......Q">>,
            <<"...Q...", "Q......", "..Q....", ".....Q.", ".Q.....", "......Q", "....Q..">>,
            <<"...Q...", ".Q.....", "......Q", "....Q..", "..Q....", "Q......", ".....Q.">>,
            <<"...Q...", ".....Q.", "Q......", "..Q....", "....Q..", "......Q", ".Q.....">>,
            <<"...Q...", "......Q", "..Q....", ".....Q.", ".Q.....", "....Q..", "Q......">>,
            <<"...Q...", "......Q", "....Q..", ".Q.....", ".....Q.", "Q......", "..Q....">>,
            <<"....Q..", "Q......", "...Q...", "......Q", "..Q....", ".....Q.", ".Q.....">>,
            <<"....Q..", "Q......", ".....Q.", "...Q...", ".Q.....", "......Q", "..Q....">>,
            <<"....Q..", ".Q.....", ".....Q.", "..Q....", "......Q", "...Q...", "Q......">>,
            <<"....Q..", "..Q....", "Q......", ".....Q.", "...Q...", ".Q.....", "......Q">>,
            <<"....Q..", "......Q", ".Q.....", "...Q...", ".....Q.", "Q......", "..Q....">>,
            <<"....Q..", "......Q", ".Q.....", ".....Q.", "..Q....", "Q......", "...Q...">>,
            <<".....Q.", "Q......", "..Q....", "....Q..", "......Q", ".Q.....", "...Q...">>,
            <<".....Q.", ".Q.....", "....Q..", "Q......", "...Q...", "......Q", "..Q....">>,
            <<".....Q.", "..Q....", "Q......", "...Q...", "......Q", "....Q..", ".Q.....">>,
            <<".....Q.", "..Q....", "....Q..", "......Q", "Q......", "...Q...", ".Q.....">>,
            <<".....Q.", "..Q....", "......Q", "...Q...", "Q......", "....Q..", ".Q.....">>,
            <<".....Q.", "...Q...", ".Q.....", "......Q", "....Q..", "..Q....", "Q......">>,
            <<".....Q.", "...Q...", "......Q", "Q......", "..Q....", "....Q..", ".Q.....">>,
            <<"......Q", ".Q.....", "...Q...", ".....Q.", "Q......", "..Q....", "....Q..">>,
            <<"......Q", "..Q....", ".....Q.", ".Q.....", "....Q..", "Q......", "...Q...">>,
            <<"......Q", "...Q...", "Q......", "....Q..", ".Q.....", ".....Q.", "..Q....">>,
            <<"......Q", "....Q..", "..Q....", "Q......", ".....Q.", "...Q...", ".Q.....">>>>>>,
          <<8, <<<<"92">>>>>>>>,
      LAMBDA n, out :
        LET RECURSIVE Safe(_)
            Safe(r) == IF r = 0 THEN {<<>>}
                ELSE UNION {{Append(q, c) : c \in {x \in 1..n : \A i \in 1..(r - 1) :
                               q[i] # x /\ Abs(q[i] - x) # r - i}} : q \in Safe(r - 1)}
            Board(q) == [r \in 1..n |-> JoinedText([c \in 1..n |-> IF q[r] = c THEN "Q" ELSE "."])]
        IN Lists(out, {Board(q) : q \in Safe(n)}))

ChoicesProblems == {
    WordSearchII, KthLargestInStream, LastStoneWeight, KClosestPoints,
    KthLargestInArray, TaskScheduler, Subsets, CombinationSum, EveryPermutation,
    SubsetsII, CombinationSumII, WordSearch, PalindromePartitioning, LetterCombinations,
    NQueens}
=============================================================================
