-------------------------- MODULE FixturesArrays --------------------------
(* seeds/data: arrays-hashing.ts, two-pointers.ts and sliding-window.ts. *)
EXTENDS Fixtures

\* Mutant: the expected outputs are of the opposite question.
DistinctExpected ==
    OneInput("contains-duplicate", Value, <<<<<<1, 2, 3, 1>>, FALSE>>, <<<<1, 2, 3, 4>>, TRUE>>>>,
      LAMBDA nums, out : out = \E i, j \in DOMAIN nums : i # j /\ nums[i] = nums[j])

\* Some value appears twice.
ContainsDuplicate ==
    OneInput("contains-duplicate", Value,
        <<<<<<1, 2, 3, 1>>, TRUE>>, <<<<1, 2, 3, 4>>, FALSE>>,
          <<<<1, 1, 1, 3, 3, 4, 3, 2, 4, 2>>, TRUE>>, <<<<1>>, FALSE>>, <<<<0, 0>>, TRUE>>,
          <<<<-1, -2, -3, -1>>, TRUE>>, <<<<1, 2, 3, 4, 5, 6, 7, 8, 9, 10>>, FALSE>>,
          <<<<1000000000, -1000000000>>, FALSE>>>>,
      LAMBDA nums, out : out = \E i, j \in DOMAIN nums : i # j /\ nums[i] = nums[j])

\* t rearranges the letters of s.
ValidAnagram ==
    TwoInputs("valid-anagram", Value,
        <<<<"anagram", "nagaram", TRUE>>, <<"rat", "car", FALSE>>, <<"a", "a", TRUE>>,
          <<"ab", "ba", TRUE>>, <<"aacc", "ccac", FALSE>>, <<"", "", TRUE>>,
          <<"abc", "abcd", FALSE>>, <<"listen", "silent", TRUE>>>>,
      LAMBDA s, t, out : out = Rearranged(Chars(s), Chars(t)))

\* The indices of two different elements that add up to target.
TwoSum ==
    TwoInputs("two-sum", AnyOrder,
        <<<<<<2, 7, 11, 15>>, 9, <<0, 1>>>>, <<<<3, 2, 4>>, 6, <<1, 2>>>>,
          <<<<3, 3>>, 6, <<0, 1>>>>, <<<<1, 5, 3, 7>>, 8, <<1, 2>>>>,
          <<<<-1, -2, -3, -4, -5>>, -8, <<2, 4>>>>, <<<<0, 4, 3, 0>>, 0, <<0, 3>>>>,
          <<<<1, 2>>, 3, <<0, 1>>>>, <<<<5, 75, 25>>, 100, <<1, 2>>>>>>,
      LAMBDA nums, target, out :
        /\ Len(out) = 2 /\ out[1] # out[2] /\ nums[out[1] + 1] + nums[out[2] + 1] = target)

\* The words, grouped by the letters they consist of.
GroupAnagrams ==
    OneInput("group-anagrams", AnyOrders,
        <<<<<<"eat", "tea", "tan", "ate", "nat", "bat">>, <<<<"bat">>, <<"nat", "tan">>, <<"ate",
            "eat", "tea">>>>>>, <<<<"">>, <<<<"">>>>>>, <<<<"a">>, <<<<"a">>>>>>,
          <<<<"abc", "bca", "cab", "xyz", "zyx">>, <<<<"abc", "bca", "cab">>, <<"xyz",
            "zyx">>>>>>, <<<<"", "">>, <<<<"", "">>>>>>,
          <<<<"ab", "ba", "abc", "cba">>, <<<<"ab", "ba">>, <<"abc", "cba">>>>>>,
          <<<<"a", "b", "c">>, <<<<"a">>, <<"b">>, <<"c">>>>>>,
          <<<<"listen", "silent", "hello">>, <<<<"listen", "silent">>, <<"hello">>>>>>>>,
      LAMBDA strs, out :
        /\ Rearranged(FlattenSeq(out), strs)
        /\ \A i, j \in DOMAIN out : \A a \in ToSet(out[i]), b \in ToSet(out[j]) :
              Rearranged(Chars(a), Chars(b)) <=> i = j)

\* k distinct values, none less frequent than a value left out.
TopKFrequentElements ==
    TwoInputs("top-k-frequent-elements", AnyOrder,
        <<<<<<1, 1, 1, 2, 2, 3>>, 2, <<1, 2>>>>, <<<<1>>, 1, <<1>>>>,
          <<<<4, 1, -1, 2, -1, 2, 3>>, 2, <<-1, 2>>>>, <<<<1, 2>>, 2, <<1, 2>>>>,
          <<<<3, 0, 1, 0>>, 1, <<0>>>>, <<<<5, 5, 5, 5>>, 1, <<5>>>>,
          <<<<1, 1, 2, 2, 3, 3>>, 3, <<1, 2, 3>>>>, <<<<-1, -1, -2, -2, -3>>, 2, <<-1, -2>>>>>>,
      LAMBDA nums, k, out :
        /\ Len(out) = k /\ Distinct(out) /\ ToSet(out) \subseteq ToSet(nums)
        /\ \A x \in ToSet(out), y \in ToSet(nums) \ ToSet(out) : Occurs(nums, x) >= Occurs(nums, y))

\* At each place the product of the other elements.
ProductOfArrayExceptSelf ==
    OneInput("product-of-array-except-self", Value,
        <<<<<<1, 2, 3, 4>>, <<24, 12, 8, 6>>>>, <<<<-1, 1, 0, -3, 3>>, <<0, 0, 9, 0, 0>>>>,
          <<<<2, 3>>, <<3, 2>>>>, <<<<1, 1, 1, 1>>, <<1, 1, 1, 1>>>>, <<<<0, 0>>, <<0, 0>>>>,
          <<<<1, 0, 3, 4>>, <<0, 12, 0, 0>>>>, <<<<-1, -1, -1>>, <<1, 1, 1>>>>,
          <<<<5, 1, 2, 3>>, <<6, 30, 15, 10>>>>>>,
      LAMBDA nums, out : out = [i \in DOMAIN nums |-> Product(RemoveAt(nums, i))])

\* No digit twice in a row, a column or a box.
ValidSudoku ==
    OneInput("valid-sudoku", [Value EXCEPT !.shown = 2],
        <<<<<<"53..7....", "6..195...", ".98....6.", "8...6...3", "4..8.3..1", "7...2...6",
            ".6....28.", "...419..5", "....8..79">>, TRUE>>,
          <<<<"83..7....", "6..195...", ".98....6.", "8...6...3", "4..8.3..1", "7...2...6",
            ".6....28.", "...419..5", "....8..79">>, FALSE>>,
          <<<<".........", ".........", ".........", ".........", ".........", ".........",
            ".........", ".........", ".........">>, TRUE>>,
          <<<<"123456789", ".........", ".........", ".........", ".........", ".........",
            ".........", ".........", ".........">>, TRUE>>,
          <<<<"1.......1", ".........", ".........", ".........", ".........", ".........",
            ".........", ".........", ".........">>, FALSE>>,
          <<<<"1........", ".........", ".........", ".........", ".........", ".........",
            ".........", ".........", "1........">>, FALSE>>,
          <<<<"1........", ".1.......", "..1......", ".........", ".........", ".........",
            ".........", ".........", ".........">>, FALSE>>,
          <<<<"..4...63.", ".........", "5......9.", "...56....", "4.3.....1", "...7.....",
            "...5.....", ".........", ".........">>, FALSE>>>>,
      LAMBDA board, out :
        out = \A c, d \in Cells(board) :
            c # d /\ Char(board, c) = Char(board, d) /\ Char(board, c) # "." =>
              /\ c[1] # d[1] /\ c[2] # d[2]
              /\ <<(c[1] - 1) \div 3, (c[2] - 1) \div 3>> # <<(d[1] - 1) \div 3, (d[2] - 1) \div 3>>)

\* The length of the longest run of consecutive numbers.
LongestConsecutiveSequence ==
    OneInput("longest-consecutive-sequence", Value,
        <<<<<<100, 4, 200, 1, 3, 2>>, 4>>, <<<<0, 3, 7, 2, 5, 8, 4, 6, 0, 1>>, 9>>, <<<<>>, 0>>,
          <<<<1>>, 1>>, <<<<1, 2, 3, 4, 5>>, 5>>, <<<<5, 4, 3, 2, 1>>, 5>>,
          <<<<1, 3, 5, 7>>, 1>>, <<<<0, 0, 0>>, 1>>>>,
      LAMBDA nums, out :
        out = Max({0} \cup {n \in DOMAIN nums :
                          \E x \in ToSet(nums) : x..(x + n - 1) \subseteq ToSet(nums)}))

\* Decoding the encoded list gives the list; the method itself returns the encoding.
EncodeAndDecodeStrings ==
    OneInput("encode-and-decode-strings", Text,
        <<<<<<"hello", "world">>, <<"hello", "world">>>>, <<<<"">>, <<"">>>>, <<<<>>, <<>>>>,
          <<<<"a", "b", "c">>, <<"a", "b", "c">>>>,
          <<<<"we", "say", ":", "yes">>, <<"we", "say", ":", "yes">>>>,
          <<<<"#", "##", "###">>, <<"#", "##", "###">>>>, <<<<"", "", "">>, <<"", "", "">>>>,
          <<<<"abc123", "!@#$%^">>, <<"abc123", "!@#$%^">>>>>>,
      LAMBDA strs, out : out = strs)

\* The letters and digits, in lower case, read the same backwards.
ValidPalindrome ==
    OneInput("valid-palindrome", Value,
        <<<<"A man, a plan, a canal: Panama", TRUE>>, <<"race a car", FALSE>>, <<" ", TRUE>>,
          <<"a", TRUE>>, <<"ab", FALSE>>, <<"0P", FALSE>>, <<".,!", TRUE>>, <<"abcba", TRUE>>>>,
      LAMBDA s, out :
        LET letters == SelectSeq(Chars(s), LAMBDA c : Among(c, Upper \o Lower \o Digits))
            folded == [i \in DOMAIN letters |->
                         IF Among(letters[i], Upper) THEN At(Lower, Place(letters[i], Upper)) ELSE letters[i]]
        IN out = (folded = Reverse(folded)))

\* The indices, from 1, of two different elements that add up to target.
TwoSumSorted ==
    TwoInputs("two-sum-ii-input-array-is-sorted", AnyOrder,
        <<<<<<2, 7, 11, 15>>, 9, <<1, 2>>>>, <<<<2, 3, 4>>, 6, <<1, 3>>>>,
          <<<<-1, 0>>, -1, <<1, 2>>>>, <<<<1, 2, 3, 4, 5>>, 9, <<4, 5>>>>,
          <<<<1, 3, 5, 7, 9>>, 10, <<1, 5>>>>, <<<<-5, -3, 0, 2, 8>>, -3, <<1, 4>>>>,
          <<<<1, 1>>, 2, <<1, 2>>>>, <<<<5, 25, 75>>, 100, <<2, 3>>>>>>,
      LAMBDA numbers, target, out :
        Len(out) = 2 /\ out[1] # out[2] /\ numbers[out[1]] + numbers[out[2]] = target)

\* Every triple of elements with sum 0, without repetition.
ThreeSum ==
    OneInput("3sum", AnyOrders,
        <<<<<<-1, 0, 1, 2, -1, -4>>, <<<<-1, -1, 2>>, <<-1, 0, 1>>>>>>, <<<<0, 1, 1>>, <<>>>>,
          <<<<0, 0, 0>>, <<<<0, 0, 0>>>>>>,
          <<<<-2, 0, 1, 1, 2>>, <<<<-2, 0, 2>>, <<-2, 1, 1>>>>>>, <<<<1, 2, -2, -1>>, <<>>>>,
          <<<<-1, 0, 1, 0>>, <<<<-1, 0, 1>>>>>>,
          <<<<-4, -2, -2, -2, 0, 1, 2, 2, 2, 3, 3, 4, 4, 6, 6>>, <<<<-4, -2, 6>>, <<-4, 0, 4>>,
            <<-4, 1, 3>>, <<-4, 2, 2>>, <<-2, -2, 4>>, <<-2, 0, 2>>>>>>,
          <<<<3, -2, 1, 0>>, <<>>>>>>,
      LAMBDA nums, out :
        ListsSorted(out, {Ascending(t) : t \in {<<nums[i], nums[j], nums[k]>> : <<i, j, k>> \in
            {x \in (DOMAIN nums) \X (DOMAIN nums) \X (DOMAIN nums) :
               x[1] < x[2] /\ x[2] < x[3] /\ nums[x[1]] + nums[x[2]] + nums[x[3]] = 0}}}))

\* The largest area between two of the lines.
ContainerWithMostWater ==
    OneInput("container-with-most-water", Value,
        <<<<<<1, 8, 6, 2, 5, 4, 8, 3, 7>>, 49>>, <<<<1, 1>>, 1>>, <<<<4, 3, 2, 1, 4>>, 16>>,
          <<<<1, 2, 1>>, 2>>, <<<<2, 3, 4, 5, 18, 17, 6>>, 17>>, <<<<1, 2, 3, 4, 5>>, 6>>,
          <<<<5, 4, 3, 2, 1>>, 6>>, <<<<10000, 10000>>, 10000>>>>,
      LAMBDA height, out :
        out = Max({(x[2] - x[1]) * Min({height[x[1]], height[x[2]]}) : x \in Spans(height)}))

\* Above each bar, water up to the lower of the highest bars on its two sides.
TrappingRainWater ==
    OneInput("trapping-rain-water", Value,
        <<<<<<0, 1, 0, 2, 1, 0, 1, 3, 2, 1, 2, 1>>, 6>>, <<<<4, 2, 0, 3, 2, 5>>, 9>>,
          <<<<1, 0, 1>>, 1>>, <<<<3, 0, 0, 2, 0, 4>>, 10>>, <<<<0>>, 0>>,
          <<<<1, 2, 3, 4, 5>>, 0>>, <<<<5, 4, 3, 2, 1>>, 0>>, <<<<5, 2, 1, 2, 1, 5>>, 14>>>>,
      LAMBDA height, out :
        out = Total([i \in DOMAIN height |->
            Min({Max({height[j] : j \in 1..i}), Max({height[j] : j \in i..Len(height)})}) - height[i]]))

\* The best profit of one purchase and a later sale.
BestTimeToBuyAndSellStock ==
    OneInput("best-time-to-buy-and-sell-stock", Value,
        <<<<<<7, 1, 5, 3, 6, 4>>, 5>>, <<<<7, 6, 4, 3, 1>>, 0>>, <<<<1, 2>>, 1>>,
          <<<<2, 1>>, 0>>, <<<<1>>, 0>>, <<<<3, 3, 3>>, 0>>, <<<<1, 4, 2, 7>>, 6>>,
          <<<<2, 4, 1, 7>>, 6>>>>,
      LAMBDA prices, out : out = Max({prices[x[2]] - prices[x[1]] : x \in Spans(prices)}))

\* The longest substring whose characters differ.
LongestSubstringWithoutRepeats ==
    OneInput("longest-substring-without-repeating-characters", Value,
        <<<<"abcabcbb", 3>>, <<"bbbbb", 1>>, <<"pwwkew", 3>>, <<"", 0>>, <<" ", 1>>,
          <<"dvdf", 3>>, <<"abcdef", 6>>, <<"aab", 2>>>>,
      LAMBDA s, out :
        out = Max({0} \cup {x[2] - x[1] + 1 : x \in
            {y \in Spans(Chars(s)) : Distinct(Chars(SubSeq(s, y[1], y[2])))}}))

\* The longest substring that k replacements make uniform.
LongestRepeatingCharacterReplacement ==
    TwoInputs("longest-repeating-character-replacement", Value,
        <<<<"ABAB", 2, 4>>, <<"AABABBA", 1, 4>>, <<"A", 0, 1>>, <<"AAAA", 0, 4>>,
          <<"ABCD", 2, 3>>, <<"AAAB", 0, 3>>, <<"ABBB", 2, 4>>, <<"ABCDE", 4, 5>>>>,
      LAMBDA s, k, out :
        out = Max({x[2] - x[1] + 1 : x \in {y \in Spans(Chars(s)) :
            LET w == Chars(SubSeq(s, y[1], y[2])) IN \E c \in ToSet(w) : Len(w) - Occurs(w, c) <= k}}))

\* Some substring of s2 rearranges s1.
PermutationInString ==
    TwoInputs("permutation-in-string", Value,
        <<<<"ab", "eidbaooo", TRUE>>, <<"ab", "eidboaoo", FALSE>>, <<"a", "a", TRUE>>,
          <<"abc", "bbbca", TRUE>>, <<"abc", "ab", FALSE>>, <<"adc", "dcda", TRUE>>,
          <<"ab", "a", FALSE>>, <<"hello", "ooolleoooleh", FALSE>>>>,
      LAMBDA s1, s2, out :
        out = \E x \in Spans(Chars(s2)) : Rearranged(Chars(s1), Chars(SubSeq(s2, x[1], x[2]))))

\* A shortest substring of s with all letters of t as often as in t.
MinimumWindowSubstring ==
    TwoInputs("minimum-window-substring", Value,
        <<<<"ADOBECODEBANC", "ABC", "BANC">>, <<"a", "a", "a">>, <<"a", "aa", "">>,
          <<"aa", "aa", "aa">>, <<"abc", "b", "b">>, <<"bba", "ab", "ba">>,
          <<"cabwefgewcwaefgcf", "cae", "cwae">>, <<"aaflslflsldkalskaaa", "aaa", "aaa">>>>,
      LAMBDA s, t, out :
        LET windows == {SubSeq(s, y[1], y[2]) : y \in {x \in Spans(Chars(s)) :
                          \A c \in ToSet(Chars(t)) :
                             Occurs(Chars(SubSeq(s, x[1], x[2])), c) >= Occurs(Chars(t), c)}}
        IN IF windows = {} THEN out = "" ELSE out \in windows /\ \A w \in windows : Len(out) <= Len(w))

\* The maximum of each window of length k.
SlidingWindowMaximum ==
    TwoInputs("sliding-window-maximum", Value,
        <<<<<<1, 3, -1, -3, 5, 3, 6, 7>>, 3, <<3, 3, 5, 5, 6, 7>>>>, <<<<1>>, 1, <<1>>>>,
          <<<<1, -1>>, 1, <<1, -1>>>>, <<<<7, 2, 4>>, 2, <<7, 4>>>>,
          <<<<1, 2, 3, 4, 5>>, 3, <<3, 4, 5>>>>, <<<<5, 4, 3, 2, 1>>, 3, <<5, 4, 3>>>>,
          <<<<1, 1, 1, 1>>, 2, <<1, 1, 1>>>>, <<<<9, 11>>, 2, <<11>>>>>>,
      LAMBDA nums, k, out :
        out = [i \in 1..(Len(nums) - k + 1) |-> Max({nums[j] : j \in i..(i + k - 1)})])

ArraysProblems == {
    ContainsDuplicate, ValidAnagram, TwoSum, GroupAnagrams, TopKFrequentElements,
    ProductOfArrayExceptSelf, ValidSudoku, LongestConsecutiveSequence,
    EncodeAndDecodeStrings, ValidPalindrome, TwoSumSorted, ThreeSum,
    ContainerWithMostWater, TrappingRainWater, BestTimeToBuyAndSellStock,
    LongestSubstringWithoutRepeats, LongestRepeatingCharacterReplacement,
    PermutationInString, MinimumWindowSubstring, SlidingWindowMaximum}
=============================================================================
