-------------------------- MODULE FixturesNumbers --------------------------
(* seeds/data: math-geometry.ts and bit-manipulation.ts. *)
EXTENDS Fixtures

\* Summing the squares of the digits leads to 1.
HappyNumber ==
    OneInput("happy-number", Value,
        <<<<19, TRUE>>, <<2, FALSE>>, <<1, TRUE>>, <<7, TRUE>>, <<4, FALSE>>, <<100, TRUE>>,
          <<3, FALSE>>, <<23, TRUE>>>>,
      LAMBDA n, out :
        LET RECURSIVE Squares(_), Happy(_, _)
            Squares(m) == IF m = 0 THEN 0 ELSE (m % 10) * (m % 10) + Squares(m \div 10)
            Happy(m, seen) == m = 1 \/ (m \notin seen /\ Happy(Squares(m), seen \cup {m}))
        IN out = Happy(n, {}))

\* The digits of the successor.
PlusOne ==
    OneInput("plus-one", Value,
        <<<<<<1, 2, 3>>, <<1, 2, 4>>>>, <<<<4, 3, 2, 1>>, <<4, 3, 2, 2>>>>, <<<<9>>, <<1, 0>>>>,
          <<<<0>>, <<1>>>>, <<<<9, 9, 9>>, <<1, 0, 0, 0>>>>, <<<<1, 0, 0>>, <<1, 0, 1>>>>,
          <<<<8, 9, 9>>, <<9, 0, 0>>>>, <<<<1>>, <<2>>>>>>,
      LAMBDA digits, out :
        FromDigits(out) = FromDigits(digits) + 1 /\ ToSet(out) \subseteq 0..9 /\ out[1] # 0)

\* The image turned clockwise.
RotateImage ==
    OneInput("rotate-image", Value,
        <<<<<<<<1, 2, 3>>, <<4, 5, 6>>, <<7, 8, 9>>>>, <<<<7, 4, 1>>, <<8, 5, 2>>, <<9, 6,
            3>>>>>>,
          <<<<<<5, 1, 9, 11>>, <<2, 4, 8, 10>>, <<13, 3, 6, 7>>, <<15, 14, 12, 16>>>>, <<<<15,
            13, 2, 5>>, <<14, 3, 4, 1>>, <<12, 6, 8, 9>>, <<16, 7, 10, 11>>>>>>,
          <<<<<<1>>>>, <<<<1>>>>>>, <<<<<<1, 2>>, <<3, 4>>>>, <<<<3, 1>>, <<4, 2>>>>>>,
          <<<<<<0, 0>>, <<0, 0>>>>, <<<<0, 0>>, <<0, 0>>>>>>,
          <<<<<<-1, -2>>, <<-3, -4>>>>, <<<<-3, -1>>, <<-4, -2>>>>>>,
          <<<<<<1, 2, 3>>, <<4, 5, 6>>, <<7, 8, 9>>>>, <<<<7, 4, 1>>, <<8, 5, 2>>, <<9, 6,
            3>>>>>>, <<<<<<1, 0>>, <<0, 1>>>>, <<<<0, 1>>, <<1, 0>>>>>>>>,
      LAMBDA matrix, out :
        out = [i \in DOMAIN matrix |-> [j \in DOMAIN matrix |-> matrix[Len(matrix) + 1 - j][i]]])

\* The first row, then the rest turned anticlockwise.
SpiralMatrix ==
    OneInput("spiral-matrix", Value,
        <<<<<<<<1, 2, 3>>, <<4, 5, 6>>, <<7, 8, 9>>>>, <<1, 2, 3, 6, 9, 8, 7, 4, 5>>>>,
          <<<<<<1, 2, 3, 4>>, <<5, 6, 7, 8>>, <<9, 10, 11, 12>>>>, <<1, 2, 3, 4, 8, 12, 11, 10,
            9, 5, 6, 7>>>>, <<<<<<1>>>>, <<1>>>>, <<<<<<1, 2>>, <<3, 4>>>>, <<1, 2, 4, 3>>>>,
          <<<<<<1, 2, 3>>>>, <<1, 2, 3>>>>, <<<<<<1>>, <<2>>, <<3>>>>, <<1, 2, 3>>>>,
          <<<<<<1, 2>>, <<3, 4>>, <<5, 6>>>>, <<1, 2, 4, 6, 5, 3>>>>,
          <<<<<<6, 9, 7>>>>, <<6, 9, 7>>>>>>,
      LAMBDA matrix, out :
        LET RECURSIVE Spiral(_)
            Spiral(g) == IF g = <<>> THEN <<>> ELSE
                LET w == Len(g[1])
                    rest == Tail(g)
                IN g[1] \o Spiral(IF rest = <<>> THEN <<>> ELSE
                                  [i \in 1..w |-> [j \in DOMAIN rest |-> rest[j][w + 1 - i]]])
        IN out = Spiral(matrix))

\* A row or column with a zero becomes zero.
SetMatrixZeroes ==
    OneInput("set-matrix-zeroes", Value,
        <<<<<<<<1, 1, 1>>, <<1, 0, 1>>, <<1, 1, 1>>>>, <<<<1, 0, 1>>, <<0, 0, 0>>, <<1, 0,
            1>>>>>>,
          <<<<<<0, 1, 2, 0>>, <<3, 4, 5, 2>>, <<1, 3, 1, 5>>>>, <<<<0, 0, 0, 0>>, <<0, 4, 5, 0>>,
            <<0, 3, 1, 0>>>>>>, <<<<<<1>>>>, <<<<1>>>>>>, <<<<<<0>>>>, <<<<0>>>>>>,
          <<<<<<1, 0>>>>, <<<<0, 0>>>>>>,
          <<<<<<1, 2, 3>>, <<4, 5, 6>>>>, <<<<1, 2, 3>>, <<4, 5, 6>>>>>>,
          <<<<<<0, 0, 0>>, <<0, 0, 0>>>>, <<<<0, 0, 0>>, <<0, 0, 0>>>>>>,
          <<<<<<1, 2>>, <<3, 0>>>>, <<<<1, 0>>, <<0, 0>>>>>>>>,
      LAMBDA matrix, out :
        LET zeroes == {c \in Cells(matrix) : Num(matrix, c) = 0}
        IN \A c \in Cells(matrix) : Num(out, c) = IF \E z \in zeroes : z[1] = c[1] \/ z[2] = c[2]
                                                  THEN 0 ELSE Num(matrix, c))

\* The product, in decimal without leading zeros.
MultiplyStrings ==
    TwoInputs("multiply-strings", Value,
        <<<<"2", "3", "6">>, <<"123", "456", "56088">>, <<"0", "0", "0">>,
          <<"999", "999", "998001">>, <<"1", "1", "1">>, <<"100", "100", "10000">>,
          <<"12", "0", "0">>, <<"9133", "0", "0">>>>,
      LAMBDA num1, num2, out :
        Number(out) = Number(num1) * Number(num2) /\ (At(out, 1) = "0" => Len(out) = 1))

\* The value that is there once.
SingleNumber ==
    OneInput("single-number", Value,
        <<<<<<2, 2, 1>>, 1>>, <<<<4, 1, 2, 1, 2>>, 4>>, <<<<1>>, 1>>, <<<<-1, -1, 2>>, 2>>,
          <<<<0, 1, 0>>, 1>>, <<<<5, 3, 5>>, 3>>, <<<<100, 200, 100>>, 200>>,
          <<<<-30000, 30000, -30000>>, 30000>>>>,
      LAMBDA nums, out : Occurs(nums, out) = 1)

\* The one bits of n.
NumberOf1Bits ==
    OneInput("number-of-1-bits", Value,
        <<<<11, 3>>, <<128, 1>>, <<2147483645, 30>>, <<1, 1>>, <<7, 3>>, <<15, 4>>, <<255, 8>>,
          <<1023, 10>>>>,
      LAMBDA n, out : out = Ones(n))

\* The one bits of the numbers up to n.
CountingBits ==
    OneInput("counting-bits", Value,
        <<<<2, <<0, 1, 1>>>>, <<5, <<0, 1, 1, 2, 1, 2>>>>, <<0, <<0>>>>, <<1, <<0, 1>>>>,
          <<3, <<0, 1, 1, 2>>>>, <<7, <<0, 1, 1, 2, 1, 2, 2, 3>>>>,
          <<8, <<0, 1, 1, 2, 1, 2, 2, 3, 1>>>>, <<10, <<0, 1, 1, 2, 1, 2, 2, 3, 1, 2, 2>>>>>>,
      LAMBDA n, out : out = [i \in 1..(n + 1) |-> Ones(i - 1)])

\* The number up to the length that is missing.
MissingNumber ==
    OneInput("missing-number", Value,
        <<<<<<3, 0, 1>>, 2>>, <<<<0, 1>>, 2>>, <<<<9, 6, 4, 2, 3, 5, 7, 0, 1>>, 8>>,
          <<<<0>>, 1>>, <<<<1>>, 0>>, <<<<1, 2, 3>>, 0>>, <<<<0, 1, 2, 3, 4, 5, 6, 7, 8>>, 9>>,
          <<<<0, 2>>, 1>>>>,
      LAMBDA nums, out : {out} = 0..Len(nums) \ ToSet(nums))

\* The sum.
SumOfTwoIntegers ==
    TwoInputs("sum-of-two-integers", Value,
        <<<<1, 2, 3>>, <<2, 3, 5>>, <<0, 0, 0>>, <<-1, 1, 0>>, <<-1, -1, -2>>, <<100, 200, 300>>,
          <<-500, 500, 0>>, <<1000, -1000, 0>>>>,
      LAMBDA a, b, out : out = a + b)

NumbersProblems == {
    HappyNumber, PlusOne, RotateImage, SpiralMatrix, SetMatrixZeroes, MultiplyStrings,
    SingleNumber, NumberOf1Bits, CountingBits, MissingNumber, SumOfTwoIntegers}
=============================================================================
