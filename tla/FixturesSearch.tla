-------------------------- MODULE FixturesSearch --------------------------
(* seeds/data: stack.ts and binary-search.ts. *)
EXTENDS Fixtures

\* Removing matching neighbours leaves nothing.
ValidParentheses ==
    OneInput("valid-parentheses", Value,
        <<<<"()", TRUE>>, <<"()[]{}", TRUE>>, <<"(]", FALSE>>, <<"([)]", FALSE>>,
          <<"{[]}", TRUE>>, <<"(", FALSE>>, <<")(", FALSE>>, <<"((((()))))", TRUE>>>>,
      LAMBDA s, out :
        LET opens == ")" :> "(" @@ "]" :> "[" @@ "}" :> "{"
            Push(st, c) == IF st # <<>> /\ c \in DOMAIN opens /\ Last(st) = opens[c]
                           THEN Front(st) ELSE Append(st, c)
        IN out = (FoldLeft(Push, <<>>, Chars(s)) = <<>>))

\* The value of the expression; division rounds towards zero.
EvaluateReversePolishNotation ==
    OneInput("evaluate-reverse-polish-notation", Value,
        <<<<<<"2", "1", "+", "3", "*">>, 9>>, <<<<"4", "13", "5", "/", "+">>, 6>>,
          <<<<"10", "6", "9", "3", "+", "-11", "*", "/", "*", "17", "+", "5", "+">>, 22>>,
          <<<<"3">>, 3>>, <<<<"1", "2", "+">>, 3>>, <<<<"5", "3", "-">>, 2>>,
          <<<<"6", "2", "/">>, 3>>, <<<<"7", "-3", "/">>, -2>>>>,
      LAMBDA tokens, out :
        LET Divide(a, b) == IF (a < 0) = (b < 0) THEN Abs(a) \div Abs(b) ELSE -(Abs(a) \div Abs(b))
            Apply(op, a, b) == CASE op = "+" -> a + b [] op = "-" -> a - b
                                 [] op = "*" -> a * b [] op = "/" -> Divide(a, b)
            Step(st, tok) == IF tok \in {"+", "-", "*", "/"}
                             THEN Append(SubSeq(st, 1, Len(st) - 2), Apply(tok, st[Len(st) - 1], Last(st)))
                             ELSE Append(st, Number(tok))
        IN <<out>> = FoldLeft(Step, <<>>, tokens))

\* Every balanced string of n pairs.
GenerateParentheses ==
    OneInput("generate-parentheses", AnyOrder,
        <<<<3, <<"((()))", "(()())", "(())()", "()(())", "()()()">>>>, <<1, <<"()">>>>,
          <<2, <<"(())", "()()">>>>,
          <<4, <<"(((())))", "((()()))", "((())())", "((()))()", "(()(()))", "(()()())",
            "(()())()", "(())(())", "(())()()", "()((()))", "()(()())", "()(())()", "()()(())",
            "()()()()">>>>,
          <<5, <<"((((()))))", "(((()())))", "(((())()))", "(((()))())", "(((())))()",
            "((()(())))", "((()()()))", "((()())())", "((()()))()", "((())(()))", "((())()())",
            "((())())()", "((()))(())", "((()))()()", "(()((())))", "(()(()()))", "(()(())())",
            "(()(()))()", "(()()(()))", "(()()()())", "(()()())()", "(()())(())", "(()())()()",
            "(())((()))", "(())(()())", "(())(())()", "(())()(())", "(())()()()", "()(((())))",
            "()((()()))", "()((())())", "()((()))()", "()(()(()))", "()(()()())", "()(()())()",
            "()(())(())", "()(())()()", "()()((()))", "()()(()())", "()()(())()", "()()()(())",
            "()()()()()">>>>,
          <<4, <<"(((())))", "((()()))", "((())())", "((()))()", "(()(()))", "(()()())",
            "(()())()", "(())(())", "(())()()", "()((()))", "()(()())", "()(())()", "()()(())",
            "()()()()">>>>, <<2, <<"(())", "()()">>>>,
          <<3, <<"((()))", "(()())", "(())()", "()(())", "()()()">>>>>>,
      LAMBDA n, out :
        LET Balance(b, i) == Total([j \in 1..i |-> IF b[j] = "(" THEN 1 ELSE -1])
            balanced == {b \in [1..(2 * n) -> {"(", ")"}] :
                           Balance(b, 2 * n) = 0 /\ \A i \in 1..(2 * n) : Balance(b, i) >= 0}
        IN Lists(out, {JoinedText(b) : b \in balanced}))

\* The days until a warmer temperature, 0 if there is none.
DailyTemperatures ==
    OneInput("daily-temperatures", Value,
        <<<<<<73, 74, 75, 71, 69, 72, 76, 73>>, <<1, 1, 4, 2, 1, 1, 0, 0>>>>,
          <<<<30, 40, 50, 60>>, <<1, 1, 1, 0>>>>, <<<<30, 60, 90>>, <<1, 1, 0>>>>,
          <<<<90, 80, 70, 60>>, <<0, 0, 0, 0>>>>, <<<<50>>, <<0>>>>,
          <<<<70, 70, 70, 70>>, <<0, 0, 0, 0>>>>,
          <<<<55, 38, 53, 81, 61, 93, 97, 32, 43, 78>>, <<3, 1, 1, 2, 1, 1, 0, 1, 1, 0>>>>,
          <<<<34, 80, 80, 34, 34, 80, 80, 80, 80, 34>>, <<1, 0, 0, 2, 1, 0, 0, 0, 0, 0>>>>>>,
      LAMBDA temperatures, out :
        out = [i \in DOMAIN temperatures |->
            LET warmer == {j \in DOMAIN temperatures : j > i /\ temperatures[j] > temperatures[i]}
            IN IF warmer = {} THEN 0 ELSE Min(warmer) - i])

\* A fleet for each car that arrives later than every car ahead of it.
CarFleet ==
    ThreeInputs("car-fleet", Value,
        <<<<12, <<10, 8, 0, 5, 3>>, <<2, 4, 1, 1, 3>>, 3>>, <<10, <<3>>, <<3>>, 1>>,
          <<100, <<0, 2, 4>>, <<4, 2, 1>>, 1>>, <<10, <<6, 8>>, <<3, 2>>, 2>>,
          <<10, <<0, 4, 2>>, <<2, 1, 3>>, 1>>, <<20, <<5, 10, 15>>, <<5, 5, 5>>, 3>>,
          <<10, <<0, 5>>, <<10, 5>>, 1>>,
          <<10, <<8, 3, 7, 4, 6, 5>>, <<4, 4, 4, 4, 4, 4>>, 6>>>>,
      LAMBDA target, position, speed, out :
        out = Cardinality({i \in DOMAIN position : \A j \in DOMAIN position :
            position[j] > position[i] =>
              (target - position[j]) * speed[i] < (target - position[i]) * speed[j]}))

\* The largest area under the lowest bar of a span.
LargestRectangleInHistogram ==
    OneInput("largest-rectangle-in-histogram", Value,
        <<<<<<2, 1, 5, 6, 2, 3>>, 10>>, <<<<2, 4>>, 4>>, <<<<1>>, 1>>, <<<<2, 1, 2>>, 3>>,
          <<<<5, 4, 3, 2, 1>>, 9>>, <<<<1, 2, 3, 4, 5>>, 9>>, <<<<3, 3, 3, 3>>, 12>>,
          <<<<0, 9>>, 9>>>>,
      LAMBDA heights, out :
        out = Max({(x[2] - x[1] + 1) * Min({heights[i] : i \in x[1]..x[2]}) : x \in Spans(heights)}))

\* Mutant: the expected index counts from one.
BinarySearchFromOne ==
    TwoInputs("binary-search", Value, <<<<<<-1, 0, 3, 5, 9, 12>>, 9, 5>>, <<<<5>>, 5, 1>>>>,
      LAMBDA nums, target, out : out + 1 \in DOMAIN nums /\ nums[out + 1] = target)

\* The index of target, or -1.
BinarySearch ==
    TwoInputs("binary-search", Value,
        <<<<<<-1, 0, 3, 5, 9, 12>>, 9, 4>>, <<<<-1, 0, 3, 5, 9, 12>>, 2, -1>>, <<<<5>>, 5, 0>>,
          <<<<1>>, 2, -1>>, <<<<1, 2, 3, 4, 5>>, 1, 0>>, <<<<1, 2, 3, 4, 5>>, 5, 4>>,
          <<<<-5, -3, 0, 1, 4>>, -3, 1>>, <<<<2, 5>>, 5, 1>>>>,
      LAMBDA nums, target, out :
        \/ out = -1 /\ target \notin ToSet(nums)
        \/ out + 1 \in DOMAIN nums /\ nums[out + 1] = target)

\* target is in the matrix.
SearchMatrix ==
    TwoInputs("search-a-2d-matrix", Value,
        <<<<<<<<1, 3, 5, 7>>, <<10, 11, 16, 20>>, <<23, 30, 34, 60>>>>, 3, TRUE>>,
          <<<<<<1, 3, 5, 7>>, <<10, 11, 16, 20>>, <<23, 30, 34, 60>>>>, 13, FALSE>>,
          <<<<<<1>>>>, 1, TRUE>>, <<<<<<1>>>>, 0, FALSE>>, <<<<<<1, 3>>>>, 3, TRUE>>,
          <<<<<<1>>, <<3>>, <<5>>>>, 3, TRUE>>,
          <<<<<<1, 3, 5, 7>>, <<10, 11, 16, 20>>, <<23, 30, 34, 60>>>>, 60, TRUE>>,
          <<<<<<1, 3, 5, 7>>, <<10, 11, 16, 20>>, <<23, 30, 34, 60>>>>, 1, TRUE>>>>,
      LAMBDA matrix, target, out : out = \E c \in Cells(matrix) : Num(matrix, c) = target)

\* The least speed at which the piles are eaten within h hours.
KokoEatingBananas ==
    TwoInputs("koko-eating-bananas", Value,
        <<<<<<3, 6, 7, 11>>, 8, 4>>, <<<<30, 11, 23, 4, 20>>, 5, 30>>,
          <<<<30, 11, 23, 4, 20>>, 6, 23>>, <<<<1>>, 1, 1>>, <<<<1000000000>>, 2, 500000000>>,
          <<<<2, 2>>, 2, 2>>, <<<<312884470>>, 968709470, 1>>, <<<<1, 1, 1, 1>>, 4, 1>>>>,
      LAMBDA piles, h, out :
        LET Hours(k) == Total([i \in DOMAIN piles |-> (piles[i] + k - 1) \div k])
        IN Hours(out) <= h /\ (out > 1 => Hours(out - 1) > h))

\* The minimum.
FindMinimumInRotatedArray ==
    OneInput("find-minimum-in-rotated-sorted-array", Value,
        <<<<<<3, 4, 5, 1, 2>>, 1>>, <<<<4, 5, 6, 7, 0, 1, 2>>, 0>>, <<<<11, 13, 15, 17>>, 11>>,
          <<<<2, 1>>, 1>>, <<<<1>>, 1>>, <<<<2, 3, 4, 5, 1>>, 1>>, <<<<5, 1, 2, 3, 4>>, 1>>,
          <<<<3, 1, 2>>, 1>>>>,
      LAMBDA nums, out : out = Min(ToSet(nums)))

\* The index of target, or -1.
SearchInRotatedArray ==
    TwoInputs("search-in-rotated-sorted-array", Value,
        <<<<<<4, 5, 6, 7, 0, 1, 2>>, 0, 4>>, <<<<4, 5, 6, 7, 0, 1, 2>>, 3, -1>>,
          <<<<1>>, 0, -1>>, <<<<1>>, 1, 0>>, <<<<3, 1>>, 1, 1>>, <<<<5, 1, 3>>, 3, 2>>,
          <<<<4, 5, 6, 7, 8, 1, 2, 3>>, 8, 4>>, <<<<1, 2, 3, 4, 5>>, 4, 3>>>>,
      LAMBDA nums, target, out :
        \/ out = -1 /\ target \notin ToSet(nums)
        \/ out + 1 \in DOMAIN nums /\ nums[out + 1] = target)

\* The median of all elements; out is twice the expected number.
MedianOfTwoSortedArrays ==
    TwoInputs("median-of-two-sorted-arrays", Value,
        <<<<<<1, 3>>, <<2>>, 4>>, <<<<1, 2>>, <<3, 4>>, 5>>, <<<<0, 0>>, <<0, 0>>, 0>>,
          <<<<>>, <<1>>, 2>>, <<<<2>>, <<>>, 4>>, <<<<1, 2, 3>>, <<4, 5, 6>>, 7>>,
          <<<<1>>, <<2, 3, 4, 5, 6>>, 7>>, <<<<3, 4>>, <<1, 2, 5>>, 6>>>>,
      LAMBDA nums1, nums2, out :
        LET all == Ascending(nums1 \o nums2)
        IN out = all[(Len(all) + 1) \div 2] + all[Len(all) \div 2 + 1])

SearchProblems == {
    ValidParentheses, EvaluateReversePolishNotation, GenerateParentheses,
    DailyTemperatures, CarFleet, LargestRectangleInHistogram, BinarySearch,
    SearchMatrix, KokoEatingBananas, FindMinimumInRotatedArray, SearchInRotatedArray,
    MedianOfTwoSortedArrays}
=============================================================================
