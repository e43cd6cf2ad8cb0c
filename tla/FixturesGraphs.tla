-------------------------- MODULE FixturesGraphs --------------------------
(* seeds/data: graphs.ts and advanced-graphs.ts. *)
EXTENDS Fixtures

\* The connected parts of the land.
NumberOfIslands ==
    OneInput("number-of-islands", Value,
        <<<<<<"11110", "11010", "11000", "00000">>, 1>>,
          <<<<"11000", "11000", "00100", "00011">>, 3>>, <<<<"1">>, 1>>, <<<<"0">>, 0>>,
          <<<<"101", "010", "101">>, 5>>, <<<<"111", "111", "111">>, 1>>,
          <<<<"000", "000", "000">>, 0>>, <<<<"1010", "0000", "1010">>, 4>>>>,
      LAMBDA grid, out :
        out = Cardinality(Components(Joined({c \in Cells(grid) : Char(grid, c) = "1"}))))

\* The copy has the same neighbours; the method takes a node.
CloneGraph ==
    OneInput("clone-graph", Nodes,
        <<<<<<<<2, 4>>, <<1, 3>>, <<2, 4>>, <<1, 3>>>>, <<<<2, 4>>, <<1, 3>>, <<2, 4>>, <<1,
            3>>>>>>, <<<<<<>>>>, <<<<>>>>>>, <<<<>>, <<>>>>,
          <<<<<<2>>, <<1>>>>, <<<<2>>, <<1>>>>>>,
          <<<<<<2, 3>>, <<1, 3>>, <<1, 2>>>>, <<<<2, 3>>, <<1, 3>>, <<1, 2>>>>>>,
          <<<<<<2>>, <<1, 3>>, <<2>>>>, <<<<2>>, <<1, 3>>, <<2>>>>>>,
          <<<<<<2, 3, 4>>, <<1>>, <<1>>, <<1>>>>, <<<<2, 3, 4>>, <<1>>, <<1>>, <<1>>>>>>,
          <<<<<<2, 3>>, <<1>>, <<1>>>>, <<<<2, 3>>, <<1>>, <<1>>>>>>>>,
      LAMBDA adjList, out : out = adjList)

\* The largest connected part, 0 without land.
MaxAreaOfIsland ==
    OneInput("max-area-of-island", Value,
        <<<<<<<<0, 0, 1, 0, 0, 0, 0, 1, 0, 0, 0, 0, 0>>, <<0, 0, 0, 0, 0, 0, 0, 1, 1, 1, 0, 0,
            0>>, <<0, 1, 1, 0, 1, 0, 0, 0, 0, 0, 0, 0, 0>>, <<0, 1, 0, 0, 1, 1, 0, 0, 1, 0, 1, 0,
            0>>, <<0, 1, 0, 0, 1, 1, 0, 0, 1, 1, 1, 0, 0>>, <<0, 0, 0, 0, 0, 0, 0, 0, 0, 0, 1, 0,
            0>>, <<0, 0, 0, 0, 0, 0, 0, 1, 1, 1, 0, 0, 0>>, <<0, 0, 0, 0, 0, 0, 0, 1, 1, 0, 0, 0,
            0>>>>, 6>>, <<<<<<0, 0, 0, 0, 0, 0, 0, 0>>>>, 0>>, <<<<<<1>>>>, 1>>,
          <<<<<<0>>>>, 0>>, <<<<<<1, 1>>, <<1, 1>>>>, 4>>, <<<<<<1, 0>>, <<0, 1>>>>, 1>>,
          <<<<<<1, 1, 0, 0>>, <<1, 1, 0, 0>>, <<0, 0, 1, 1>>, <<0, 0, 1, 1>>>>, 4>>,
          <<<<<<1, 1, 1>>, <<1, 0, 1>>, <<1, 1, 1>>>>, 8>>>>,
      LAMBDA grid, out :
        out = Max({0} \cup {Cardinality(x) :
                     x \in Components(Joined({c \in Cells(grid) : Num(grid, c) = 1}))}))

\* The cells from which water flows to both oceans.
PacificAtlantic ==
    OneInput("pacific-atlantic-water-flow", AnyOrder,
        <<<<<<<<1, 2, 2, 3, 5>>, <<3, 2, 3, 4, 4>>, <<2, 4, 5, 3, 1>>, <<6, 7, 1, 4, 5>>, <<5, 1,
            1, 2, 4>>>>, <<<<0, 4>>, <<1, 3>>, <<1, 4>>, <<2, 2>>, <<3, 0>>, <<3, 1>>, <<4,
            0>>>>>>, <<<<<<1>>>>, <<<<0, 0>>>>>>,
          <<<<<<1, 1>>, <<1, 1>>>>, <<<<0, 0>>, <<0, 1>>, <<1, 0>>, <<1, 1>>>>>>,
          <<<<<<1, 2>>, <<3, 4>>>>, <<<<0, 1>>, <<1, 0>>, <<1, 1>>>>>>,
          <<<<<<5, 1>>, <<1, 5>>>>, <<<<0, 0>>, <<0, 1>>, <<1, 0>>, <<1, 1>>>>>>,
          <<<<<<10, 10, 10>>, <<10, 1, 10>>, <<10, 10, 10>>>>, <<<<0, 0>>, <<0, 1>>, <<0, 2>>,
            <<1, 0>>, <<1, 2>>, <<2, 0>>, <<2, 1>>, <<2, 2>>>>>>,
          <<<<<<1, 2, 3>>, <<4, 5, 6>>, <<7, 8, 9>>>>, <<<<0, 2>>, <<1, 2>>, <<2, 0>>, <<2, 1>>,
            <<2, 2>>>>>>,
          <<<<<<3, 3, 3>>, <<3, 3, 3>>, <<3, 3, 3>>>>, <<<<0, 0>>, <<0, 1>>, <<0, 2>>, <<1, 0>>,
            <<1, 1>>, <<1, 2>>, <<2, 0>>, <<2, 1>>, <<2, 2>>>>>>>>,
      LAMBDA heights, out :
        LET cells == Cells(heights)
            higher == [c \in cells |-> {d \in Beside(c, cells) : Num(heights, d) >= Num(heights, c)}]
            Coast(i, j) == {c \in cells : c[1] = i \/ c[2] = j}
            both == Reach(Coast(1, 1), higher)
                      \cap Reach(Coast(Len(heights), Len(heights[1])), higher)
        IN Lists(out, {<<c[1] - 1, c[2] - 1>> : c \in both}))

\* Only the regions that touch the border stay.
SurroundedRegions ==
    OneInput("surrounded-regions", InPlace,
        <<<<<<"XXXX", "XOOX", "XXOX", "XOXX">>, <<"XXXX", "XXXX", "XXXX", "XOXX">>>>,
          <<<<"X">>, <<"X">>>>, <<<<"O">>, <<"O">>>>, <<<<"OO", "OO">>, <<"OO", "OO">>>>,
          <<<<"XXX", "XOX", "XXX">>, <<"XXX", "XXX", "XXX">>>>,
          <<<<"XOX", "OXO", "XOX">>, <<"XOX", "OXO", "XOX">>>>,
          <<<<"XXXX", "XOOX", "XOOX", "XXXX">>, <<"XXXX", "XXXX", "XXXX", "XXXX">>>>,
          <<<<"OXO", "XOX", "OXO">>, <<"OXO", "XXX", "OXO">>>>>>,
      LAMBDA board, out :
        LET open == {c \in Cells(board) : Char(board, c) = "O"}
            kept == Reach(Edge(board, open), Joined(open))
        IN \A c \in Cells(board) : Char(out, c) = IF c \in kept THEN "O" ELSE "X")

\* The minutes until no orange is fresh, -1 if never.
RottingOranges ==
    OneInput("rotting-oranges", Value,
        <<<<<<<<2, 1, 1>>, <<1, 1, 0>>, <<0, 1, 1>>>>, 4>>,
          <<<<<<2, 1, 1>>, <<0, 1, 1>>, <<1, 0, 1>>>>, -1>>, <<<<<<0, 2>>>>, 0>>,
          <<<<<<0>>>>, 0>>, <<<<<<1>>>>, -1>>, <<<<<<2>>>>, 0>>, <<<<<<2, 1>>, <<1, 2>>>>, 1>>,
          <<<<<<2, 1, 1, 1, 1>>>>, 4>>>>,
      LAMBDA grid, out :
        LET oranges == {c \in Cells(grid) : Num(grid, c) > 0}
            rotten == {c \in oranges : Num(grid, c) = 2}
            late == Max({0} \cup {StepsTo(rotten, {c}, Joined(oranges)) : c \in oranges})
        IN out = IF late = Infinity THEN -1 ELSE late)

\* In each room the distance to the nearest gate.
WallsAndGates ==
    OneInput("walls-and-gates", InPlace,
        <<<<<<<<2147483647, -1, 0, 2147483647>>, <<2147483647, 2147483647, 2147483647, -1>>,
            <<2147483647, -1, 2147483647, -1>>, <<0, -1, 2147483647, 2147483647>>>>, <<<<3, -1,
            0, 1>>, <<2, 2, 1, -1>>, <<1, -1, 2, -1>>, <<0, -1, 3, 4>>>>>>,
          <<<<<<-1>>>>, <<<<-1>>>>>>, <<<<<<0>>>>, <<<<0>>>>>>,
          <<<<<<2147483647>>>>, <<<<2147483647>>>>>>,
          <<<<<<0, 2147483647>>, <<2147483647, 2147483647>>>>, <<<<0, 1>>, <<1, 2>>>>>>,
          <<<<<<0, -1>>, <<-1, 2147483647>>>>, <<<<0, -1>>, <<-1, 2147483647>>>>>>,
          <<<<<<0, 2147483647, 0>>, <<2147483647, 2147483647, 2147483647>>, <<0, 2147483647,
            0>>>>, <<<<0, 1, 0>>, <<1, 2, 1>>, <<0, 1, 0>>>>>>,
          <<<<<<0, 2147483647, 2147483647, 2147483647, 0>>>>, <<<<0, 1, 2, 1, 0>>>>>>>>,
      LAMBDA rooms, out :
        LET free == {c \in Cells(rooms) : Num(rooms, c) # -1}
            gates == {c \in free : Num(rooms, c) = 0}
        IN \A c \in Cells(rooms) : Num(out, c) = IF c \in free THEN StepsTo({c}, gates, Joined(free)) ELSE -1)

\* No course needs itself.
CourseSchedule ==
    TwoInputs("course-schedule", Value,
        <<<<2, <<<<1, 0>>>>, TRUE>>, <<2, <<<<1, 0>>, <<0, 1>>>>, FALSE>>, <<1, <<>>, TRUE>>,
          <<3, <<<<0, 1>>, <<1, 2>>>>, TRUE>>, <<3, <<<<0, 1>>, <<1, 2>>, <<2, 0>>>>, FALSE>>,
          <<4, <<<<1, 0>>, <<2, 1>>, <<3, 2>>>>, TRUE>>, <<5, <<>>, TRUE>>,
          <<4, <<<<0, 1>>, <<2, 3>>, <<1, 2>>, <<3, 0>>>>, FALSE>>>>,
      LAMBDA numCourses, prerequisites, out :
        LET courses == 0..(numCourses - 1)
            needs == [c \in courses |-> {p \in courses : <<c, p>> \in ToSet(prerequisites)}]
            possible == \A c \in courses : c \notin Reach(needs[c], needs)
        IN out = possible)

\* All courses, each after those it needs; nothing if that is impossible.
CourseScheduleII ==
    TwoInputs("course-schedule-ii", AnyOf({2, 5}),
        <<<<2, <<<<1, 0>>>>, <<0, 1>>>>,
          <<4, <<<<1, 0>>, <<2, 0>>, <<3, 1>>, <<3, 2>>>>, <<0, 1, 2, 3>>>>, <<1, <<>>, <<0>>>>,
          <<2, <<<<1, 0>>, <<0, 1>>>>, <<>>>>, <<3, <<>>, <<0, 1, 2>>>>,
          <<3, <<<<2, 1>>, <<1, 0>>>>, <<0, 1, 2>>>>,
          <<3, <<<<0, 1>>, <<1, 2>>, <<2, 0>>>>, <<>>>>,
          <<4, <<<<1, 0>>, <<2, 1>>, <<3, 2>>>>, <<0, 1, 2, 3>>>>>>,
      LAMBDA numCourses, prerequisites, out :
        LET courses == 0..(numCourses - 1)
            needs == [c \in courses |-> {p \in courses : <<c, p>> \in ToSet(prerequisites)}]
            possible == \A c \in courses : c \notin Reach(needs[c], needs)
        IN IF ~possible THEN out = <<>>
           ELSE Lists(out, courses) /\ \A i, j \in DOMAIN out : out[j] \in needs[out[i]] => j < i)

\* The last edge without which the graph is still connected.
RedundantConnection ==
    OneInput("redundant-connection", Value,
        <<<<<<<<1, 2>>, <<1, 3>>, <<2, 3>>>>, <<2, 3>>>>,
          <<<<<<1, 2>>, <<2, 3>>, <<3, 4>>, <<1, 4>>, <<1, 5>>>>, <<1, 4>>>>,
          <<<<<<1, 2>>, <<1, 3>>, <<3, 4>>, <<2, 4>>>>, <<2, 4>>>>,
          <<<<<<1, 2>>, <<2, 3>>, <<1, 3>>>>, <<1, 3>>>>,
          <<<<<<1, 3>>, <<3, 4>>, <<1, 2>>, <<2, 4>>>>, <<2, 4>>>>,
          <<<<<<1, 2>>, <<2, 3>>, <<3, 4>>, <<4, 5>>, <<1, 5>>>>, <<1, 5>>>>,
          <<<<<<3, 4>>, <<1, 2>>, <<2, 4>>, <<3, 5>>, <<2, 3>>>>, <<2, 3>>>>,
          <<<<<<1, 2>>, <<2, 3>>, <<3, 1>>>>, <<3, 1>>>>>>,
      LAMBDA edges, out :
        LET n == UNION {ToSet(e) : e \in ToSet(edges)}
            spare == {i \in DOMAIN edges : Cardinality(Components(Linked(n, RemoveAt(edges, i)))) = 1}
        IN out = edges[Max(spare)])

\* The connected parts.
NumberOfConnectedComponents ==
    TwoInputs("number-of-connected-components-in-an-undirected-graph", Value,
        <<<<5, <<<<0, 1>>, <<1, 2>>, <<3, 4>>>>, 2>>,
          <<5, <<<<0, 1>>, <<1, 2>>, <<2, 3>>, <<3, 4>>>>, 1>>, <<1, <<>>, 1>>,
          <<4, <<<<0, 1>>, <<2, 3>>>>, 2>>, <<3, <<>>, 3>>,
          <<4, <<<<0, 1>>, <<1, 2>>, <<2, 3>>>>, 1>>, <<6, <<<<0, 1>>, <<2, 3>>, <<4, 5>>>>, 3>>,
          <<3, <<<<0, 1>>, <<0, 2>>>>, 1>>>>,
      LAMBDA n, edges, out : out = Cardinality(Components(Linked(0..(n - 1), edges))))

\* Connected, with one edge less than nodes.
GraphValidTree ==
    TwoInputs("graph-valid-tree", Value,
        <<<<5, <<<<0, 1>>, <<0, 2>>, <<0, 3>>, <<1, 4>>>>, TRUE>>,
          <<5, <<<<0, 1>>, <<1, 2>>, <<2, 3>>, <<1, 3>>, <<1, 4>>>>, FALSE>>, <<1, <<>>, TRUE>>,
          <<2, <<<<0, 1>>>>, TRUE>>, <<2, <<>>, FALSE>>, <<4, <<<<0, 1>>, <<2, 3>>>>, FALSE>>,
          <<3, <<<<0, 1>>, <<1, 2>>>>, TRUE>>,
          <<4, <<<<0, 1>>, <<1, 2>>, <<2, 3>>, <<3, 0>>>>, FALSE>>>>,
      LAMBDA n, edges, out :
        out = (Cardinality(Components(Linked(0..(n - 1), edges))) = 1 /\ Len(edges) = n - 1))

\* The words on a shortest way of one-letter changes, 0 if there is none.
WordLadder ==
    ThreeInputs("word-ladder", Value,
        <<<<"hit", "cog", <<"hot", "dot", "dog", "lot", "log", "cog">>, 5>>,
          <<"hit", "cog", <<"hot", "dot", "dog", "lot", "log">>, 0>>,
          <<"a", "c", <<"a", "b", "c">>, 2>>, <<"hot", "dog", <<"hot", "dog">>, 0>>,
          <<"hot", "dog", <<"hot", "dot", "dog">>, 3>>, <<"ab", "cd", <<"ab", "ad", "cd">>, 3>>,
          <<"cat", "fin", <<"ion", "rev", "che", "ind", "lie", "wis", "oct", "ham", "jag", "pup",
            "ban", "fin">>, 0>>, <<"abc", "abc", <<"abc">>, 0>>>>,
      LAMBDA beginWord, endWord, wordList, out :
        LET all == ToSet(wordList) \cup {beginWord}
            Near(u, v) == Cardinality({i \in 1..Len(u) : At(u, i) # At(v, i)}) = 1
            next == [u \in all |-> {v \in ToSet(wordList) : Near(u, v)}]
            steps == StepsTo(next[beginWord], {endWord}, next)
        IN out = IF steps = Infinity THEN 0 ELSE steps + 2)

\* Of the ways from JFK that use every ticket once, the first in the alphabet.
ReconstructItinerary ==
    OneInput("reconstruct-itinerary", Value,
        <<<<<<<<"MUC", "LHR">>, <<"JFK", "MUC">>, <<"SFO", "SJC">>, <<"LHR", "SFO">>>>, <<"JFK",
            "MUC", "LHR", "SFO", "SJC">>>>,
          <<<<<<"JFK", "SFO">>, <<"JFK", "ATL">>, <<"SFO", "ATL">>, <<"ATL", "JFK">>, <<"ATL",
            "SFO">>>>, <<"JFK", "ATL", "JFK", "SFO", "ATL", "SFO">>>>,
          <<<<<<"JFK", "A">>, <<"A", "JFK">>>>, <<"JFK", "A", "JFK">>>>,
          <<<<<<"JFK", "KUL">>, <<"JFK", "NRT">>, <<"NRT", "JFK">>>>, <<"JFK", "NRT", "JFK",
            "KUL">>>>, <<<<<<"JFK", "AAA">>>>, <<"JFK", "AAA">>>>,
          <<<<<<"JFK", "BBB">>, <<"JFK", "AAA">>, <<"AAA", "JFK">>>>, <<"JFK", "AAA", "JFK",
            "BBB">>>>,
          <<<<<<"JFK", "A">>, <<"A", "B">>, <<"B", "JFK">>, <<"JFK", "C">>>>, <<"JFK", "A", "B",
            "JFK", "C">>>>,
          <<<<<<"JFK", "A">>, <<"A", "B">>, <<"B", "C">>, <<"C", "A">>, <<"A", "JFK">>, <<"JFK",
            "D">>>>, <<"JFK", "A", "B", "C", "A", "JFK", "D">>>>>>,
      LAMBDA tickets, out :
        LET RECURSIVE Routes(_, _)
            Routes(at, left) == IF left = {} THEN {<<at>>}
                ELSE UNION {{<<at>> \o x : x \in Routes(tickets[i][2], left \ {i})} :
                              i \in {j \in left : tickets[j][1] = at}}
            Before(x, y) == \E i \in DOMAIN x : SubSeq(x, 1, i - 1) = SubSeq(y, 1, i - 1)
                                                 /\ EarlierWord(x[i], y[i])
            all == Routes("JFK", DOMAIN tickets)
        IN out \in all /\ \A x \in all : x = out \/ Before(out, x))

\* The cost of a minimum spanning tree.
MinCostToConnectAllPoints ==
    OneInput("min-cost-to-connect-all-points", Value,
        <<<<<<<<0, 0>>, <<2, 2>>, <<3, 10>>, <<5, 2>>, <<7, 0>>>>, 20>>,
          <<<<<<3, 12>>, <<-2, 5>>, <<-4, 1>>>>, 18>>, <<<<<<0, 0>>>>, 0>>,
          <<<<<<0, 0>>, <<1, 1>>>>, 2>>,
          <<<<<<-1000000, -1000000>>, <<1000000, 1000000>>>>, 4000000>>,
          <<<<<<0, 0>>, <<1, 0>>, <<0, 1>>, <<1, 1>>>>, 3>>,
          <<<<<<0, 0>>, <<5, 0>>, <<0, 5>>, <<5, 5>>>>, 15>>,
          <<<<<<0, 0>>, <<2, 0>>, <<4, 0>>, <<6, 0>>>>, 6>>>>,
      LAMBDA points, out :
        LET Cost(i, j) == Abs(points[i][1] - points[j][1]) + Abs(points[i][2] - points[j][2])
            RECURSIVE Grow(_)
            Grow(T) == LET rest == (DOMAIN points) \ T IN IF rest = {} THEN 0 ELSE
                LET j == CHOOSE x \in rest : \A y \in rest, i \in T : \E k \in T : Cost(k, x) <= Cost(i, y)
                IN Min({Cost(i, j) : i \in T}) + Grow(T \cup {j})
        IN out = Grow({1}))

\* When the signal from k has reached every node, -1 if it never does.
NetworkDelayTime ==
    ThreeInputs("network-delay-time", Value,
        <<<<<<<<2, 1, 1>>, <<2, 3, 1>>, <<3, 4, 1>>>>, 4, 2, 2>>, <<<<<<1, 2, 1>>>>, 2, 1, 1>>,
          <<<<<<1, 2, 1>>>>, 2, 2, -1>>, <<<<<<1, 2, 1>>, <<2, 3, 2>>, <<1, 3, 4>>>>, 3, 1, 3>>,
          <<<<<<1, 2, 1>>, <<2, 1, 1>>>>, 2, 1, 1>>,
          <<<<<<1, 2, 1>>, <<2, 3, 1>>, <<3, 1, 1>>>>, 3, 1, 2>>,
          <<<<<<1, 2, 5>>, <<1, 3, 2>>, <<3, 2, 1>>>>, 3, 1, 3>>,
          <<<<<<1, 2, 1>>>>, 3, 1, -1>>>>,
      LAMBDA times, n, k, out :
        LET RECURSIVE Arrive(_, _)
            Arrive(v, seen) == Min({Infinity} \cup IF v = k THEN {0} ELSE
                {x[3] + Arrive(x[1], seen \cup {v}) : x \in
                   {y \in ToSet(times) : y[2] = v /\ y[1] \notin seen /\ Arrive(y[1], seen \cup {v}) < Infinity}})
            last == Max({Arrive(v, {}) : v \in 1..n})
        IN out = IF last = Infinity THEN -1 ELSE last)

\* The least level at which the corners are connected.
SwimInRisingWater ==
    OneInput("swim-in-rising-water", Value,
        <<<<<<<<0, 2>>, <<1, 3>>>>, 3>>,
          <<<<<<0, 1, 2, 3, 4>>, <<24, 23, 22, 21, 5>>, <<12, 13, 14, 15, 16>>, <<11, 17, 18, 19,
            20>>, <<10, 9, 8, 7, 6>>>>, 16>>, <<<<<<0>>>>, 0>>,
          <<<<<<0, 3, 5>>, <<1, 2, 8>>, <<4, 6, 7>>>>, 7>>, <<<<<<0, 1>>, <<2, 3>>>>, 3>>,
          <<<<<<3, 2>>, <<0, 1>>>>, 3>>, <<<<<<0, 7, 3>>, <<6, 8, 2>>, <<5, 4, 1>>>>, 4>>,
          <<<<<<0, 1, 2, 3>>, <<15, 14, 13, 4>>, <<8, 9, 10, 5>>, <<7, 11, 12, 6>>>>, 6>>>>,
      LAMBDA grid, out :
        LET Dry(t) == Joined({c \in Cells(grid) : Num(grid, c) <= t})
            end == <<Len(grid), Len(grid)>>
        IN out = Min({t \in Num(grid, <<1, 1>>)..Max({Num(grid, c) : c \in Cells(grid)}) :
                        end \in Reach({<<1, 1>>}, Dry(t))}))

\* The letters in an order in which the words are sorted; nothing if there is none.
AlienDictionary ==
    OneInput("alien-dictionary", AnyOf({7}),
        <<<<<<"wrt", "wrf", "er", "ett", "rftt">>, "wertf">>, <<<<"z", "x">>, "zx">>,
          <<<<"z", "x", "z">>, "">>, <<<<"abc", "ab">>, "">>, <<<<"a">>, "a">>,
          <<<<"z", "z">>, "z">>, <<<<"ab", "ac">>, "abc">>, <<<<"a", "b", "c">>, "abc">>>>,
      LAMBDA words, out :
        LET letters == UNION {ToSet(Chars(w)) : w \in ToSet(words)}
            Sorted(order) == \A i \in 1..(Len(words) - 1) : \E d \in 1..(Min({Len(words[i]), Len(words[i + 1])}) + 1) :
                /\ SubSeq(words[i], 1, d - 1) = SubSeq(words[i + 1], 1, d - 1)
                /\ \/ d > Len(words[i])
                   \/ /\ d <= Len(words[i + 1])
                      /\ Place(At(words[i], d), order) < Place(At(words[i + 1], d), order)
            good == {o \in {JoinedText(x) : x \in SetToSeqs(letters)} : Sorted(o)}
        IN IF good = {} THEN out = "" ELSE out \in good)

\* The cheapest way with at most k stops, -1 if there is none.
CheapestFlights ==
    FiveInputs("cheapest-flights-within-k-stops", Value,
        <<<<4, <<<<0, 1, 100>>, <<1, 2, 100>>, <<2, 0, 100>>, <<1, 3, 600>>, <<2, 3, 200>>>>, 0,
            3, 1, 700>>, <<3, <<<<0, 1, 100>>, <<1, 2, 100>>, <<0, 2, 500>>>>, 0, 2, 1, 200>>,
          <<3, <<<<0, 1, 100>>, <<1, 2, 100>>, <<0, 2, 500>>>>, 0, 2, 0, 500>>,
          <<2, <<<<0, 1, 100>>>>, 0, 1, 0, 100>>, <<3, <<<<0, 1, 100>>>>, 0, 2, 1, -1>>,
          <<4, <<<<0, 1, 1>>, <<1, 2, 1>>, <<2, 3, 1>>, <<0, 3, 100>>>>, 0, 3, 1, 100>>,
          <<4, <<<<0, 1, 1>>, <<1, 2, 1>>, <<2, 3, 1>>, <<0, 3, 100>>>>, 0, 3, 2, 3>>,
          <<5, <<<<0, 1, 5>>, <<1, 2, 5>>, <<0, 3, 2>>, <<3, 1, 2>>, <<1, 4, 1>>, <<4, 2, 1>>>>,
            0, 2, 2, 7>>>>,
      LAMBDA n, flights, src, dst, k, out :
        LET RECURSIVE Fare(_, _)
            Fare(v, legs) == IF v = dst THEN 0 ELSE IF legs = 0 THEN Infinity ELSE
                Min({Infinity} \cup {x[3] + Fare(x[2], legs - 1) : x \in
                       {y \in ToSet(flights) : y[1] = v /\ Fare(y[2], legs - 1) < Infinity}})
            best == Fare(src, k + 1)
        IN out = IF best = Infinity THEN -1 ELSE best)

GraphsProblems == {
    NumberOfIslands, CloneGraph, MaxAreaOfIsland, PacificAtlantic, SurroundedRegions,
    RottingOranges, WallsAndGates, CourseSchedule, CourseScheduleII,
    RedundantConnection, NumberOfConnectedComponents, GraphValidTree, WordLadder,
    ReconstructItinerary, MinCostToConnectAllPoints, NetworkDelayTime,
    SwimInRisingWater, AlienDictionary, CheapestFlights}
=============================================================================
