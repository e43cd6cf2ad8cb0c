------------------------- MODULE FixturesPrograms -------------------------
(* seeds/data: dp-1d.ts and dp-2d.ts. *)
EXTENDS Fixtures

\* The ways to climb n steps by one or two.
ClimbingStairs ==
    OneInput("climbing-stairs", Value,
        <<<<2, 2>>, <<3, 3>>, <<1, 1>>, <<4, 5>>, <<5, 8>>, <<10, 89>>, <<20, 10946>>,
          <<45, 1836311903>>>>,
      LAMBDA n, out :
        out = FoldLeft(LAMBDA w, i : <<w[2], w[1] + w[2]>>, <<0, 1>>, [i \in 1..n |-> i])[2])

\* The cheapest set of steps without two misses in a row.
MinCostClimbingStairs ==
    OneInput("min-cost-climbing-stairs", Value,
        <<<<<<10, 15, 20>>, 15>>, <<<<1, 100, 1, 1, 1, 100, 1, 1, 100, 1>>, 6>>, <<<<0, 0>>, 0>>,
          <<<<1, 2>>, 1>>, <<<<5, 5, 5, 5>>, 10>>, <<<<0, 1, 0, 1>>, 0>>, <<<<999, 999>>, 999>>,
          <<<<1, 2, 3>>, 2>>>>,
      LAMBDA cost, out :
        out = Min({Total(Pick(cost, I)) : I \in {J \in SUBSET DOMAIN cost :
                    \A i \in 1..(Len(cost) - 1) : i \in J \/ i + 1 \in J}}))

\* The best set of houses without neighbours.
HouseRobber ==
    OneInput("house-robber", Value,
        <<<<<<1, 2, 3, 1>>, 4>>, <<<<2, 7, 9, 3, 1>>, 12>>, <<<<2, 1, 1, 2>>, 4>>, <<<<0>>, 0>>,
          <<<<100>>, 100>>, <<<<1, 2>>, 2>>, <<<<1, 3, 1, 3, 100>>, 103>>,
          <<<<400, 1, 400, 1, 400>>, 1200>>>>,
      LAMBDA nums, out :
        out = Max({Total(Pick(nums, I)) : I \in {J \in SUBSET DOMAIN nums : \A i \in J : i + 1 \notin J}}))

\* The same on a circle.
HouseRobberII ==
    OneInput("house-robber-ii", Value,
        <<<<<<2, 3, 2>>, 3>>, <<<<1, 2, 3, 1>>, 4>>, <<<<1, 2, 3>>, 3>>, <<<<1>>, 1>>,
          <<<<0, 0>>, 0>>, <<<<200, 3, 140, 20, 10>>, 340>>, <<<<1, 3, 1, 3, 100>>, 103>>,
          <<<<1, 1, 1, 1, 1>>, 2>>>>,
      LAMBDA nums, out :
        out = Max({Total(Pick(nums, I)) : I \in {J \in SUBSET DOMAIN nums :
            \A i, j \in J : i # j => j # i + 1 /\ ~(i = 1 /\ j = Len(nums))}}))

\* A longest palindrome in s.
LongestPalindromicSubstring ==
    OneInput("longest-palindromic-substring", AnyOf({1, 4, 8}),
        <<<<"babad", "bab">>, <<"cbbd", "bb">>, <<"a", "a">>, <<"ac", "a">>,
          <<"racecar", "racecar">>, <<"aacabdkacaa", "aca">>, <<"aaaa", "aaaa">>,
          <<"abcde", "a">>>>,
      LAMBDA s, out :
        LET palindromes == {w \in {SubSeq(s, x[1], x[2]) : x \in Spans(Chars(s))} : Palindrome(w)}
        IN out \in palindromes /\ \A w \in palindromes : Len(w) <= Len(out))

\* The spans that are palindromes.
PalindromicSubstrings ==
    OneInput("palindromic-substrings", Value,
        <<<<"abc", 3>>, <<"aaa", 6>>, <<"a", 1>>, <<"ab", 2>>, <<"aa", 3>>, <<"aba", 4>>,
          <<"abba", 6>>, <<"racecar", 10>>>>,
      LAMBDA s, out :
        out = Cardinality({x \in Spans(Chars(s)) : Palindrome(SubSeq(s, x[1], x[2]))}))

\* The ways to read s as numbers from 1 to 26.
DecodeWays ==
    OneInput("decode-ways", Value,
        <<<<"12", 2>>, <<"226", 3>>, <<"06", 0>>, <<"1", 1>>, <<"10", 1>>, <<"27", 1>>,
          <<"11106", 2>>, <<"111", 3>>>>,
      LAMBDA s, out :
        LET RECURSIVE Ways(_)
            Ways(i) == IF i > Len(s) THEN 1 ELSE IF At(s, i) = "0" THEN 0
                ELSE Ways(i + 1)
                     + IF i < Len(s) /\ Number(SubSeq(s, i, i + 1)) <= 26 THEN Ways(i + 2) ELSE 0
        IN out = Ways(1))

\* The least number of coins with sum amount, -1 if there is none.
CoinChange ==
    TwoInputs("coin-change", Value,
        <<<<<<1, 5, 10>>, 12, 3>>, <<<<2>>, 3, -1>>, <<<<1>>, 0, 0>>, <<<<1>>, 1, 1>>,
          <<<<1>>, 2, 2>>, <<<<1, 3, 4>>, 6, 2>>, <<<<2, 5, 10, 1>>, 27, 4>>,
          <<<<186, 419, 83, 408>>, 6249, 20>>>>,
      LAMBDA coins, amount, out :
        LET RECURSIVE Fewest(_, _)
            Fewest(sums, k) == IF amount \in sums THEN k ELSE IF sums = {} THEN -1
                ELSE Fewest({a \in {b + c : b \in sums, c \in ToSet(coins)} : a <= amount}, k + 1)
        IN out = Fewest({0}, 0))

\* The greatest product of a span.
MaximumProductSubarray ==
    OneInput("maximum-product-subarray", Value,
        <<<<<<2, 3, -2, 4>>, 6>>, <<<<-2, 0, -1>>, 0>>, <<<<-2, 3, -4>>, 24>>, <<<<0>>, 0>>,
          <<<<-2>>, -2>>, <<<<2, -5, -2, -4, 3>>, 24>>, <<<<-1, -2, -3, 0>>, 6>>,
          <<<<1, 2, 3, 4>>, 24>>>>,
      LAMBDA nums, out : out = Max({Product(SubSeq(nums, x[1], x[2])) : x \in Spans(nums)}))

\* s is a sequence of dictionary words.
WordBreak ==
    TwoInputs("word-break", Value,
        <<<<"leetcode", <<"leet", "code">>, TRUE>>,
          <<"applepenapple", <<"apple", "pen">>, TRUE>>,
          <<"catsandog", <<"cats", "dog", "sand", "and", "cat">>, FALSE>>,
          <<"a", <<"a">>, TRUE>>, <<"ab", <<"a">>, FALSE>>,
          <<"cars", <<"car", "ca", "rs">>, TRUE>>, <<"aaaaaaa", <<"aaa", "aaaa">>, TRUE>>,
          <<"goalspecial", <<"go", "goal", "goals", "special">>, TRUE>>>>,
      LAMBDA s, wordDict, out :
        LET RECURSIVE Breaks(_)
            Breaks(r) == \/ r = ""
                         \/ \E w \in ToSet(wordDict) :
                               /\ Len(w) <= Len(r) /\ SubSeq(r, 1, Len(w)) = w
                               /\ Breaks(SubSeq(r, Len(w) + 1, Len(r)))
        IN out = Breaks(s))

\* The longest strictly increasing selection.
LongestIncreasingSubsequence ==
    OneInput("longest-increasing-subsequence", Value,
        <<<<<<10, 9, 2, 5, 3, 7, 101, 18>>, 4>>, <<<<0, 1, 0, 3, 2, 3>>, 4>>,
          <<<<7, 7, 7, 7, 7, 7, 7>>, 1>>, <<<<1>>, 1>>, <<<<1, 2, 3, 4, 5>>, 5>>,
          <<<<5, 4, 3, 2, 1>>, 1>>, <<<<3, 1, 4, 1, 5, 9, 2, 6>>, 4>>,
          <<<<-1, 0, 1, -1, 2>>, 4>>>>,
      LAMBDA nums, out :
        out = Max({Len(x) : x \in {y \in Selections(nums) : \A i \in 1..(Len(y) - 1) : y[i] < y[i + 1]}}))

\* Some elements have half of the total.
PartitionEqualSubsetSum ==
    OneInput("partition-equal-subset-sum", Value,
        <<<<<<1, 5, 11, 5>>, TRUE>>, <<<<1, 2, 3, 5>>, FALSE>>, <<<<1, 1>>, TRUE>>,
          <<<<1>>, FALSE>>, <<<<1, 2, 3>>, TRUE>>, <<<<2, 2, 2, 2, 2>>, FALSE>>,
          <<<<1, 1, 1, 1, 1, 1, 1, 1, 1, 1, 1, 1, 1, 1, 1, 1, 1, 1, 1, 1>>, TRUE>>,
          <<<<100, 100, 100, 100, 100, 100, 100, 100>>, TRUE>>>>,
      LAMBDA nums, out :
        LET sums == FoldLeft(LAMBDA S, x : S \cup {a + x : a \in S}, {0}, nums)
        IN out = (\E a \in sums : 2 * a = Total(nums)))

\* The ways right and down through an m by n grid.
UniquePaths ==
    TwoInputs("unique-paths", Value,
        <<<<3, 7, 28>>, <<3, 2, 3>>, <<3, 3, 6>>, <<1, 1, 1>>, <<1, 5, 1>>, <<5, 1, 1>>,
          <<7, 3, 28>>, <<10, 10, 48620>>>>,
      LAMBDA m, n, out :
        LET RECURSIVE Paths(_, _)
            Paths(i, j) == IF i = 1 \/ j = 1 THEN 1 ELSE Paths(i - 1, j) + Paths(i, j - 1)
        IN out = Paths(m, n))

\* The longest selection of both texts.
LongestCommonSubsequence ==
    TwoInputs("longest-common-subsequence", Value,
        <<<<"abcde", "ace", 3>>, <<"abc", "abc", 3>>, <<"abc", "def", 0>>, <<"a", "a", 1>>,
          <<"a", "b", 0>>, <<"oxcpqrsvwf", "shmtulqrypy", 2>>, <<"bsbininm", "jmjkbkjkv", 1>>,
          <<"abcba", "abcbcba", 5>>>>,
      LAMBDA text1, text2, out :
        out = Max({Len(x) : x \in {y \in Selections(Chars(text1)) :
            FoldLeft(LAMBDA k, c : IF k < Len(y) /\ c = y[k + 1] THEN k + 1 ELSE k, 0, Chars(text2)) = Len(y)}}))

\* The best profit when no purchase follows a sale on the next day.
StockWithCooldown ==
    OneInput("best-time-to-buy-and-sell-stock-with-cooldown", Value,
        <<<<<<1, 2, 3, 0, 2>>, 3>>, <<<<1>>, 0>>, <<<<1, 2, 4>>, 3>>, <<<<2, 1>>, 0>>,
          <<<<1, 2>>, 1>>, <<<<6, 1, 3, 2, 4, 7>>, 6>>, <<<<1, 4, 2>>, 3>>,
          <<<<1, 2, 3, 4, 5>>, 4>>>>,
      LAMBDA prices, out :
        LET RECURSIVE Best(_, _)
            Best(i, held) == IF i > Len(prices) THEN 0
                ELSE Max({Best(i + 1, held), IF held THEN prices[i] + Best(i + 2, FALSE)
                                                     ELSE Best(i + 1, TRUE) - prices[i]})
        IN out = Best(1, FALSE))

\* The number of combinations of coins with sum amount.
CoinChangeII ==
    TwoInputs("coin-change-ii", Value,
        <<<<5, <<1, 2, 5>>, 4>>, <<3, <<2>>, 0>>, <<10, <<10>>, 1>>, <<0, <<1, 2, 5>>, 1>>,
          <<1, <<1>>, 1>>, <<5, <<1>>, 1>>, <<5, <<1, 2>>, 3>>, <<100, <<1, 5, 10, 25>>, 242>>>>,
      LAMBDA amount, coins, out :
        LET RECURSIVE Ways(_, _)
            Ways(a, S) == IF a = 0 THEN 1 ELSE IF a < 0 \/ S = {} THEN 0
                ELSE Ways(a - Max(S), S) + Ways(a, S \ {Max(S)})
        IN out = Ways(amount, ToSet(coins)))

\* The choices of signs with sum target.
TargetSum ==
    TwoInputs("target-sum", Value,
        <<<<<<1, 1, 1, 1, 1>>, 3, 5>>, <<<<1>>, 1, 1>>, <<<<1, 0>>, 1, 2>>,
          <<<<1, 2, 1>>, 0, 2>>, <<<<0, 0, 0, 0, 0>>, 0, 32>>, <<<<1, 1, 1>>, 1, 3>>,
          <<<<2, 3, 5>>, 0, 0>>, <<<<1, 2, 3>>, 6, 1>>>>,
      LAMBDA nums, target, out :
        out = Cardinality({x \in [DOMAIN nums -> {1, -1}] :
                             Total([i \in DOMAIN nums |-> x[i] * nums[i]]) = target}))

\* s3 merges s1 and s2.
InterleavingString ==
    ThreeInputs("interleaving-string", Value,
        <<<<"aabcc", "dbbca", "aadbbcbcac", TRUE>>, <<"aabcc", "dbbca", "aadbbbaccc", FALSE>>,
          <<"", "", "", TRUE>>, <<"a", "", "a", TRUE>>, <<"", "b", "b", TRUE>>,
          <<"a", "b", "ab", TRUE>>, <<"a", "b", "c", FALSE>>, <<"ab", "bc", "abbc", TRUE>>>>,
      LAMBDA s1, s2, s3, out :
        LET RECURSIVE Weaves(_, _)
            Weaves(i, j) == \/ i + j = Len(s3)
                            \/ i < Len(s1) /\ At(s1, i + 1) = At(s3, i + j + 1) /\ Weaves(i + 1, j)
                            \/ j < Len(s2) /\ At(s2, j + 1) = At(s3, i + j + 1) /\ Weaves(i, j + 1)
        IN out = (Len(s3) = Len(s1) + Len(s2) /\ Weaves(0, 0)))

\* The longest path to greater neighbours.
LongestIncreasingPath ==
    OneInput("longest-increasing-path-in-a-matrix", Value,
        <<<<<<<<9, 9, 4>>, <<6, 6, 8>>, <<2, 1, 1>>>>, 4>>,
          <<<<<<3, 4, 5>>, <<3, 2, 6>>, <<2, 2, 1>>>>, 4>>, <<<<<<1>>>>, 1>>,
          <<<<<<1, 2>>>>, 2>>, <<<<<<1>>, <<2>>>>, 2>>,
          <<<<<<7, 8, 9>>, <<9, 7, 6>>, <<7, 2, 3>>>>, 6>>,
          <<<<<<1, 2, 3>>, <<6, 5, 4>>, <<7, 8, 9>>>>, 9>>,
          <<<<<<5, 5, 5>>, <<5, 5, 5>>, <<5, 5, 5>>>>, 1>>>>,
      LAMBDA matrix, out :
        LET RECURSIVE Path(_)
            Path(c) == 1 + Max({0} \cup {Path(d) : d \in
                         {x \in Beside(c, Cells(matrix)) : Num(matrix, x) > Num(matrix, c)}})
        IN out = Max({Path(c) : c \in Cells(matrix)}))

\* The selections of s that read t.
DistinctSubsequences ==
    TwoInputs("distinct-subsequences", Value,
        <<<<"rabbbit", "rabbit", 3>>, <<"babgbag", "bag", 5>>, <<"a", "a", 1>>, <<"a", "b", 0>>,
          <<"aaa", "a", 3>>, <<"aaa", "aa", 3>>, <<"abc", "abc", 1>>, <<"aabb", "ab", 4>>>>,
      LAMBDA s, t, out :
        out = Cardinality({I \in SUBSET (1..Len(s)) : Pick(Chars(s), I) = Chars(t)}))

\* The fewest insertions, deletions and replacements.
EditDistance ==
    TwoInputs("edit-distance", Value,
        <<<<"horse", "ros", 3>>, <<"intention", "execution", 5>>, <<"", "", 0>>, <<"a", "a", 0>>,
          <<"", "abc", 3>>, <<"abc", "", 3>>, <<"abc", "abc", 0>>, <<"kitten", "sitting", 3>>>>,
      LAMBDA word1, word2, out :
        LET Row(above, i) == FoldLeft(LAMBDA row, j : Append(row, Min({above[j + 1] + 1, row[j] + 1,
                                         above[j] + IF At(word1, i) = At(word2, j) THEN 0 ELSE 1})),
                                       <<i>>, [j \in 1..Len(word2) |-> j])
        IN out = Last(FoldLeft(Row, [j \in 1..(Len(word2) + 1) |-> j - 1], [i \in 1..Len(word1) |-> i])))

\* The best order to burst, each for the product with its neighbours.
BurstBalloons ==
    OneInput("burst-balloons", Value,
        <<<<<<3, 1, 5, 8>>, 167>>, <<<<1, 5>>, 10>>, <<<<1>>, 1>>, <<<<5>>, 5>>,
          <<<<1, 1, 1>>, 3>>, <<<<9, 76, 64, 21>>, 116718>>, <<<<2, 3>>, 12>>,
          <<<<1, 2, 3>>, 12>>>>,
      LAMBDA nums, out :
        LET RECURSIVE Best(_)
            Best(b) == Max({0} \cup {b[i - 1] * b[i] * b[i + 1] + Best(RemoveAt(b, i)) : i \in 2..(Len(b) - 1)})
        IN out = Best(<<1>> \o nums \o <<1>>))

\* p, with . and *, matches all of s.
RegularExpressionMatching ==
    TwoInputs("regular-expression-matching", Value,
        <<<<"aa", "a", FALSE>>, <<"aa", "a*", TRUE>>, <<"ab", ".*", TRUE>>,
          <<"aab", "c*a*b", TRUE>>, <<"mississippi", "mis*is*ip*.", TRUE>>,
          <<"ab", ".*c", FALSE>>, <<"a", "ab*", TRUE>>, <<"aaa", "a*a", TRUE>>>>,
      LAMBDA s, p, out :
        LET RECURSIVE Match(_, _)
            Match(i, j) ==
                LET first == i <= Len(s) /\ j <= Len(p) /\ At(p, j) \in {".", At(s, i)}
                IN IF j > Len(p) THEN i > Len(s)
                   ELSE IF j < Len(p) /\ At(p, j + 1) = "*"
                   THEN Match(i, j + 2) \/ (first /\ Match(i + 1, j))
                   ELSE first /\ Match(i + 1, j + 1)
        IN out = Match(1, 1))

ProgramsProblems == {
    ClimbingStairs, MinCostClimbingStairs, HouseRobber, HouseRobberII,
    LongestPalindromicSubstring, PalindromicSubstrings, DecodeWays, CoinChange,
    MaximumProductSubarray, WordBreak, LongestIncreasingSubsequence,
    PartitionEqualSubsetSum, UniquePaths, LongestCommonSubsequence, StockWithCooldown,
    CoinChangeII, TargetSum, InterleavingString, LongestIncreasingPath,
    DistinctSubsequences, EditDistance, BurstBalloons, RegularExpressionMatching}
=============================================================================
