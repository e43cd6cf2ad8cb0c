------------------------- MODULE FixturesIntervals -------------------------
(* seeds/data: greedy.ts and intervals.ts. *)
EXTENDS Fixtures

\* The greatest sum of a span.
MaximumSubarray ==
    OneInput("maximum-subarray", Value,
        <<<<<<-2, 1, -3, 4, -1, 2, 1, -5, 4>>, 6>>, <<<<1>>, 1>>, <<<<5, 4, -1, 7, 8>>, 23>>,
          <<<<-1>>, -1>>, <<<<-2, -1>>, -1>>, <<<<1, 2, 3, 4>>, 10>>, <<<<-1, -2, -3, -4>>, -1>>,
          <<<<3, -2, 5, -1>>, 6>>>>,
      LAMBDA nums, out : out = Max({Total(SubSeq(nums, x[1], x[2])) : x \in Spans(nums)}))

\* Jumps of at most nums[i] reach the end.
JumpGame ==
    OneInput("jump-game", Value,
        <<<<<<2, 3, 1, 1, 4>>, TRUE>>, <<<<3, 2, 1, 0, 4>>, FALSE>>, <<<<0>>, TRUE>>,
          <<<<1>>, TRUE>>, <<<<1, 0>>, TRUE>>, <<<<0, 1>>, FALSE>>, <<<<2, 0, 0>>, TRUE>>,
          <<<<1, 1, 1, 1, 1>>, TRUE>>>>,
      LAMBDA nums, out :
        out = (Len(nums) \in Reach({1}, [i \in DOMAIN nums |-> (i + 1)..Min({i + nums[i], Len(nums)})])))

\* The fewest such jumps.
JumpGameII ==
    OneInput("jump-game-ii", Value,
        <<<<<<2, 3, 1, 1, 4>>, 2>>, <<<<2, 3, 0, 1, 4>>, 2>>, <<<<1>>, 0>>, <<<<1, 2>>, 1>>,
          <<<<1, 1, 1, 1>>, 3>>, <<<<3, 2, 1>>, 1>>,
          <<<<10, 9, 8, 7, 6, 5, 4, 3, 2, 1, 1, 0>>, 2>>, <<<<1, 2, 3>>, 2>>>>,
      LAMBDA nums, out :
        out = StepsTo({1}, {Len(nums)}, [i \in DOMAIN nums |-> (i + 1)..Min({i + nums[i], Len(nums)})]))

\* A start from which the tank never runs dry on the circle, or -1.
GasStation ==
    TwoInputs("gas-station", AnyOf({7, 8}),
        <<<<<<1, 2, 3, 4, 5>>, <<3, 4, 5, 1, 2>>, 3>>, <<<<2, 3, 4>>, <<3, 4, 3>>, -1>>,
          <<<<5, 1, 2, 3, 4>>, <<4, 4, 1, 5, 1>>, 4>>, <<<<1>>, <<1>>, 0>>, <<<<5>>, <<4>>, 0>>,
          <<<<3, 1, 1>>, <<1, 2, 2>>, 0>>, <<<<1, 2, 3, 4, 5>>, <<1, 2, 3, 4, 5>>, 0>>,
          <<<<0, 0, 0>>, <<0, 0, 0>>, 0>>>>,
      LAMBDA gas, cost, out :
        LET n == Len(gas)
            Gain(at) == gas[at] - cost[at]
            Around(i) == \A k \in 1..n : Total([j \in 1..k |-> Gain(((i + j - 1) % n) + 1)]) >= 0
        IN IF \E i \in 0..(n - 1) : Around(i) THEN out \in 0..(n - 1) /\ Around(out) ELSE out = -1)

\* The cards split into runs of groupSize.
HandOfStraights ==
    TwoInputs("hand-of-straights", Value,
        <<<<<<1, 2, 3, 6, 2, 3, 4, 7, 8>>, 3, TRUE>>, <<<<1, 2, 3, 4, 5>>, 4, FALSE>>,
          <<<<1, 2, 3>>, 3, TRUE>>, <<<<1>>, 1, TRUE>>, <<<<1, 2, 3, 4>>, 2, TRUE>>,
          <<<<1, 1, 2, 2, 3, 3>>, 3, TRUE>>, <<<<1, 1, 2, 3>>, 2, FALSE>>,
          <<<<8, 10, 12>>, 3, FALSE>>>>,
      LAMBDA hand, groupSize, out :
        LET RECURSIVE Runs(_)
            Runs(h) == \/ h = <<>>
                       \/ LET run == [i \in 1..groupSize |-> Min(ToSet(h)) + i - 1]
                          IN ToSet(run) \subseteq ToSet(h) /\ Runs(FoldLeft(RemoveFirst, h, run))
        IN out = Runs(hand))

\* The maxima of some triplets are the target.
MergeTriplets ==
    TwoInputs("merge-triplets-to-form-target-triplet", Value,
        <<<<<<<<2, 5, 3>>, <<1, 8, 4>>, <<1, 7, 5>>>>, <<2, 7, 5>>, TRUE>>,
          <<<<<<3, 4, 5>>, <<4, 5, 6>>>>, <<3, 2, 5>>, FALSE>>,
          <<<<<<2, 5, 3>>, <<2, 3, 4>>, <<1, 2, 5>>, <<5, 2, 3>>>>, <<5, 5, 5>>, TRUE>>,
          <<<<<<1, 1, 1>>>>, <<1, 1, 1>>, TRUE>>, <<<<<<1, 2, 3>>>>, <<1, 2, 4>>, FALSE>>,
          <<<<<<1, 1, 1>>, <<2, 2, 2>>, <<3, 3, 3>>>>, <<3, 3, 3>>, TRUE>>,
          <<<<<<3, 1, 1>>, <<1, 3, 1>>, <<1, 1, 3>>>>, <<3, 3, 3>>, TRUE>>,
          <<<<<<4, 1, 1>>, <<1, 4, 1>>, <<1, 1, 4>>>>, <<3, 3, 3>>, FALSE>>>>,
      LAMBDA triplets, target, out :
        out = \E I \in (SUBSET DOMAIN triplets) \ {{}} :
                \A k \in 1..3 : target[k] = Max({triplets[i][k] : i \in I}))

\* Cut wherever no letter is on both sides.
PartitionLabels ==
    OneInput("partition-labels", Value,
        <<<<"ababcbacadefegdehijhklij", <<9, 7, 8>>>>, <<"eccbbbbdec", <<10>>>>, <<"a", <<1>>>>,
          <<"abc", <<1, 1, 1>>>>, <<"aaa", <<3>>>>, <<"abab", <<4>>>>, <<"abcabc", <<6>>>>,
          <<"abcdefg", <<1, 1, 1, 1, 1, 1, 1>>>>>>,
      LAMBDA s, out :
        LET Letters(i, j) == ToSet(Chars(SubSeq(s, i, j)))
        IN {Total(SubSeq(out, 1, k)) : k \in DOMAIN out}
             = {i \in 1..Len(s) : Letters(1, i) \cap Letters(i + 1, Len(s)) = {}})

\* Some reading of the stars is balanced.
ValidParenthesisString ==
    OneInput("valid-parenthesis-string", Value,
        <<<<"()", TRUE>>, <<"(*)", TRUE>>, <<"(*))", TRUE>>, <<"*", TRUE>>, <<"(", FALSE>>,
          <<")", FALSE>>, <<"((*))", TRUE>>, <<"((((*)", FALSE>>>>,
      LAMBDA s, out :
        LET Step(B, c) == {b \in {x + d : x \in B, d \in CASE c = "(" -> {1} [] c = ")" -> {-1}
                                                               [] c = "*" -> {1, 0, -1}} : b >= 0}
        IN out = (0 \in FoldLeft(Step, {0}, Chars(s))))

\* No two meetings overlap.
MeetingRooms ==
    OneInput("meeting-rooms", Value,
        <<<<<<<<0, 30>>, <<5, 10>>, <<15, 20>>>>, FALSE>>, <<<<<<7, 10>>, <<2, 4>>>>, TRUE>>,
          <<<<>>, TRUE>>, <<<<<<1, 5>>>>, TRUE>>, <<<<<<1, 2>>, <<2, 3>>>>, TRUE>>,
          <<<<<<1, 3>>, <<2, 4>>>>, FALSE>>, <<<<<<1, 5>>, <<5, 10>>, <<10, 15>>>>, TRUE>>,
          <<<<<<1, 10>>, <<2, 3>>, <<4, 5>>>>, FALSE>>>>,
      LAMBDA intervals, out :
        out = \A i, j \in DOMAIN intervals : i # j =>
                intervals[i][2] <= intervals[j][1] \/ intervals[j][2] <= intervals[i][1])

\* The same points, as separate intervals in order.
InsertInterval ==
    TwoInputs("insert-interval", Value,
        <<<<<<<<1, 3>>, <<6, 9>>>>, <<2, 5>>, <<<<1, 5>>, <<6, 9>>>>>>,
          <<<<<<1, 2>>, <<3, 5>>, <<6, 7>>, <<8, 10>>, <<12, 16>>>>, <<4, 8>>, <<<<1, 2>>, <<3,
            10>>, <<12, 16>>>>>>, <<<<>>, <<5, 7>>, <<<<5, 7>>>>>>,
          <<<<<<1, 5>>>>, <<2, 3>>, <<<<1, 5>>>>>>,
          <<<<<<1, 5>>>>, <<6, 8>>, <<<<1, 5>>, <<6, 8>>>>>>,
          <<<<<<3, 5>>>>, <<1, 2>>, <<<<1, 2>>, <<3, 5>>>>>>,
          <<<<<<1, 5>>>>, <<0, 6>>, <<<<0, 6>>>>>>,
          <<<<<<1, 2>>, <<5, 6>>>>, <<3, 4>>, <<<<1, 2>>, <<3, 4>>, <<5, 6>>>>>>>>,
      LAMBDA intervals, newInterval, out :
        /\ Covers(out, Append(intervals, newInterval))
        /\ \A i \in 1..(Len(out) - 1) : out[i][1] < out[i + 1][1])

\* The same points, as separate intervals.
MergeIntervals ==
    OneInput("merge-intervals", AnyOrder,
        <<<<<<<<1, 3>>, <<2, 6>>, <<8, 10>>, <<15, 18>>>>, <<<<1, 6>>, <<8, 10>>, <<15, 18>>>>>>,
          <<<<<<1, 4>>, <<4, 5>>>>, <<<<1, 5>>>>>>, <<<<<<1, 4>>, <<0, 4>>>>, <<<<0, 4>>>>>>,
          <<<<<<1, 3>>>>, <<<<1, 3>>>>>>, <<<<<<1, 4>>, <<2, 3>>>>, <<<<1, 4>>>>>>,
          <<<<<<1, 2>>, <<3, 4>>, <<5, 6>>>>, <<<<1, 2>>, <<3, 4>>, <<5, 6>>>>>>,
          <<<<<<1, 10>>, <<2, 3>>, <<4, 5>>, <<6, 7>>>>, <<<<1, 10>>>>>>,
          <<<<<<2, 3>>, <<4, 5>>, <<6, 7>>, <<8, 9>>, <<1, 10>>>>, <<<<1, 10>>>>>>>>,
      LAMBDA intervals, out : Covers(out, intervals))

\* The fewest to remove so that no two overlap.
NonOverlappingIntervals ==
    OneInput("non-overlapping-intervals", Value,
        <<<<<<<<1, 2>>, <<2, 3>>, <<3, 4>>, <<1, 3>>>>, 1>>,
          <<<<<<1, 2>>, <<1, 2>>, <<1, 2>>>>, 2>>, <<<<<<1, 2>>, <<2, 3>>>>, 0>>,
          <<<<<<1, 100>>, <<11, 22>>, <<1, 11>>, <<2, 12>>>>, 2>>,
          <<<<<<0, 2>>, <<1, 3>>, <<2, 4>>, <<3, 5>>, <<4, 6>>>>, 2>>, <<<<<<1, 2>>>>, 0>>,
          <<<<<<-1, 0>>, <<0, 1>>, <<1, 2>>>>, 0>>,
          <<<<<<1, 5>>, <<2, 3>>, <<3, 4>>, <<4, 5>>>>, 1>>>>,
      LAMBDA intervals, out :
        out = Len(intervals) - Max({Cardinality(I) : I \in {J \in SUBSET DOMAIN intervals :
            \A i, j \in J : i # j => \/ intervals[i][2] <= intervals[j][1]
                                    \/ intervals[j][2] <= intervals[i][1]}}))

\* The most meetings in progress when one starts.
MeetingRoomsII ==
    OneInput("meeting-rooms-ii", Value,
        <<<<<<<<0, 30>>, <<5, 10>>, <<15, 20>>>>, 2>>, <<<<<<7, 10>>, <<2, 4>>>>, 1>>,
          <<<<<<0, 5>>, <<5, 10>>>>, 1>>, <<<<<<1, 5>>>>, 1>>,
          <<<<<<1, 5>>, <<2, 6>>, <<3, 7>>>>, 3>>, <<<<<<1, 2>>, <<1, 2>>, <<1, 2>>>>, 3>>,
          <<<<<<1, 3>>, <<3, 5>>, <<5, 7>>, <<7, 9>>>>, 1>>,
          <<<<<<1, 10>>, <<2, 5>>, <<6, 8>>>>, 2>>>>,
      LAMBDA intervals, out :
        out = Max({Cardinality({j \in DOMAIN intervals :
            intervals[j][1] <= intervals[i][1] /\ intervals[i][1] < intervals[j][2]}) : i \in DOMAIN intervals}))

\* The size of the smallest interval around each query, or -1.
MinimumIntervalForQueries ==
    TwoInputs("minimum-interval-to-include-each-query", Value,
        <<<<<<<<1, 4>>, <<2, 4>>, <<3, 6>>, <<4, 4>>>>, <<2, 3, 4, 5>>, <<3, 3, 1, 4>>>>,
          <<<<<<2, 3>>, <<2, 5>>, <<1, 8>>, <<20, 25>>>>, <<2, 19, 5, 22>>, <<2, -1, 4, 6>>>>,
          <<<<<<1, 1>>>>, <<1>>, <<1>>>>, <<<<<<1, 1>>>>, <<2>>, <<-1>>>>,
          <<<<<<1, 5>>>>, <<1, 3, 5, 6>>, <<5, 5, 5, -1>>>>,
          <<<<<<1, 3>>, <<2, 4>>>>, <<2>>, <<3>>>>,
          <<<<<<1, 10>>, <<2, 3>>, <<5, 6>>>>, <<2, 5, 8>>, <<2, 2, 10>>>>,
          <<<<<<1, 2>>, <<3, 4>>, <<5, 6>>>>, <<7>>, <<-1>>>>>>,
      LAMBDA intervals, queries, out :
        out = [q \in DOMAIN queries |->
            LET sizes == {x[2] - x[1] + 1 : x \in {y \in ToSet(intervals) : queries[q] \in y[1]..y[2]}}
            IN IF sizes = {} THEN -1 ELSE Min(sizes)])

IntervalsProblems == {
    MaximumSubarray, JumpGame, JumpGameII, GasStation, HandOfStraights, MergeTriplets,
    PartitionLabels, ValidParenthesisString, MeetingRooms, InsertInterval,
    MergeIntervals, NonOverlappingIntervals, MeetingRoomsII, MinimumIntervalForQueries}
=============================================================================
