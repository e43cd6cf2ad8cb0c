--------------------------- MODULE FixturesLists ---------------------------
(* seeds/data: linked-list.ts. *)
EXTENDS Fixtures

\* The list backwards.
ReverseLinkedList ==
    OneInput("reverse-linked-list", Nodes,
        <<<<<<1, 2, 3, 4, 5>>, <<5, 4, 3, 2, 1>>>>, <<<<1, 2>>, <<2, 1>>>>, <<<<>>, <<>>>>,
          <<<<1>>, <<1>>>>, <<<<1, 2, 3>>, <<3, 2, 1>>>>, <<<<0, 0, 0>>, <<0, 0, 0>>>>,
          <<<<-1, 0, 1>>, <<1, 0, -1>>>>, <<<<5000, -5000>>, <<-5000, 5000>>>>>>,
      LAMBDA head, out : out = Reverse(head))

\* All elements, sorted.
MergeTwoSortedLists ==
    TwoInputs("merge-two-sorted-lists", Nodes,
        <<<<<<1, 2, 4>>, <<1, 3, 4>>, <<1, 1, 2, 3, 4, 4>>>>, <<<<>>, <<>>, <<>>>>,
          <<<<>>, <<0>>, <<0>>>>, <<<<1>>, <<2>>, <<1, 2>>>>,
          <<<<5>>, <<1, 2, 3>>, <<1, 2, 3, 5>>>>,
          <<<<1, 3, 5>>, <<2, 4, 6>>, <<1, 2, 3, 4, 5, 6>>>>,
          <<<<-1, 0, 1>>, <<-2, 0, 2>>, <<-2, -1, 0, 0, 1, 2>>>>,
          <<<<1, 1, 1>>, <<1, 1, 1>>, <<1, 1, 1, 1, 1, 1>>>>>>,
      LAMBDA list1, list2, out : out = Ascending(list1 \o list2))

\* The last node points back to the node at pos; the method has no parameter pos.
LinkedListCycle ==
    TwoInputs("linked-list-cycle", Nodes,
        <<<<<<3, 2, 0, -4>>, 1, TRUE>>, <<<<1, 2>>, 0, TRUE>>, <<<<1>>, -1, FALSE>>,
          <<<<>>, -1, FALSE>>, <<<<1, 2, 3, 4, 5>>, -1, FALSE>>, <<<<1, 2, 3, 4, 5>>, 4, TRUE>>,
          <<<<1, 2, 3, 4, 5>>, 0, TRUE>>, <<<<1>>, 0, TRUE>>>>,
      LAMBDA head, pos, out : out = (pos # -1))

\* First, last, second, last but one, and so on.
ReorderList ==
    OneInput("reorder-list", Nodes,
        <<<<<<1, 2, 3, 4>>, <<1, 4, 2, 3>>>>, <<<<1, 2, 3, 4, 5>>, <<1, 5, 2, 4, 3>>>>,
          <<<<1>>, <<1>>>>, <<<<1, 2>>, <<1, 2>>>>, <<<<1, 2, 3>>, <<1, 3, 2>>>>,
          <<<<1, 2, 3, 4, 5, 6>>, <<1, 6, 2, 5, 3, 4>>>>,
          <<<<1, 2, 3, 4, 5, 6, 7>>, <<1, 7, 2, 6, 3, 5, 4>>>>,
          <<<<1, 1, 1, 1>>, <<1, 1, 1, 1>>>>>>,
      LAMBDA head, out :
        out = [i \in DOMAIN head |-> IF i % 2 = 1 THEN head[(i + 1) \div 2] ELSE head[Len(head) + 1 - i \div 2]])

\* The list without its n-th element from the end.
RemoveNthNodeFromEnd ==
    TwoInputs("remove-nth-node-from-end-of-list", Nodes,
        <<<<<<1, 2, 3, 4, 5>>, 2, <<1, 2, 3, 5>>>>, <<<<1>>, 1, <<>>>>, <<<<1, 2>>, 1, <<1>>>>,
          <<<<1, 2>>, 2, <<2>>>>, <<<<1, 2, 3>>, 3, <<2, 3>>>>, <<<<1, 2, 3>>, 1, <<1, 2>>>>,
          <<<<1, 2, 3, 4, 5>>, 5, <<2, 3, 4, 5>>>>, <<<<10, 20, 30, 40>>, 2, <<10, 20, 40>>>>>>,
      LAMBDA head, n, out : out = RemoveAt(head, Len(head) - n + 1))

\* The digits of the sum, lowest first.
AddTwoNumbers ==
    TwoInputs("add-two-numbers", Nodes,
        <<<<<<2, 4, 3>>, <<5, 6, 4>>, <<7, 0, 8>>>>, <<<<0>>, <<0>>, <<0>>>>,
          <<<<9, 9, 9, 9, 9, 9, 9>>, <<9, 9, 9, 9>>, <<8, 9, 9, 9, 0, 0, 0, 1>>>>,
          <<<<1>>, <<9, 9>>, <<0, 0, 1>>>>, <<<<5>>, <<5>>, <<0, 1>>>>,
          <<<<1, 2, 3>>, <<1, 2, 3>>, <<2, 4, 6>>>>, <<<<0, 0, 1>>, <<0, 0, 1>>, <<0, 0, 2>>>>,
          <<<<9>>, <<1>>, <<0, 1>>>>>>,
      LAMBDA l1, l2, out :
        LET N(ds) == FromDigits(Reverse(ds))
        IN N(out) = N(l1) + N(l2) /\ ToSet(out) \subseteq 0..9 /\ (Last(out) = 0 => Len(out) = 1))

\* The value that is there more than once.
FindTheDuplicateNumber ==
    OneInput("find-the-duplicate-number", Value,
        <<<<<<1, 3, 4, 2, 2>>, 2>>, <<<<3, 1, 3, 4, 2>>, 3>>, <<<<3, 3, 3, 3, 3>>, 3>>,
          <<<<1, 1>>, 1>>, <<<<2, 2, 2, 2, 2>>, 2>>, <<<<1, 4, 4, 2, 4>>, 4>>,
          <<<<1, 2, 3, 4, 5, 5>>, 5>>, <<<<2, 5, 9, 6, 9, 3, 8, 9, 7, 1>>, 9>>>>,
      LAMBDA nums, out : Occurs(nums, out) > 1)

\* All elements, sorted.
MergeKSortedLists ==
    OneInput("merge-k-sorted-lists", Nodes,
        <<<<<<<<1, 4, 5>>, <<1, 3, 4>>, <<2, 6>>>>, <<1, 1, 2, 3, 4, 4, 5, 6>>>>, <<<<>>, <<>>>>,
          <<<<<<>>>>, <<>>>>, <<<<<<1>>>>, <<1>>>>,
          <<<<<<1, 2>>, <<3, 4>>, <<5, 6>>>>, <<1, 2, 3, 4, 5, 6>>>>,
          <<<<<<-1, 0, 1>>, <<-2, 0, 2>>>>, <<-2, -1, 0, 0, 1, 2>>>>,
          <<<<<<1>>, <<1>>, <<1>>>>, <<1, 1, 1>>>>, <<<<<<>>, <<1>>, <<>>>>, <<1>>>>>>,
      LAMBDA lists, out : out = Ascending(FlattenSeq(lists)))

\* Each full group of k reversed, the rest as it is.
ReverseNodesInKGroup ==
    TwoInputs("reverse-nodes-in-k-group", Nodes,
        <<<<<<1, 2, 3, 4, 5>>, 2, <<2, 1, 4, 3, 5>>>>,
          <<<<1, 2, 3, 4, 5>>, 3, <<3, 2, 1, 4, 5>>>>,
          <<<<1, 2, 3, 4, 5>>, 1, <<1, 2, 3, 4, 5>>>>,
          <<<<1, 2, 3, 4, 5>>, 5, <<5, 4, 3, 2, 1>>>>, <<<<1>>, 1, <<1>>>>,
          <<<<1, 2>>, 2, <<2, 1>>>>, <<<<1, 2, 3, 4>>, 2, <<2, 1, 4, 3>>>>,
          <<<<1, 2, 3, 4, 5, 6>>, 4, <<4, 3, 2, 1, 5, 6>>>>>>,
      LAMBDA head, k, out :
        out = [i \in DOMAIN head |-> LET g == (i - 1) \div k
                                    IN IF (g + 1) * k <= Len(head) THEN head[(2 * g + 1) * k + 1 - i] ELSE head[i]])

ListsProblems == {
    ReverseLinkedList, MergeTwoSortedLists, LinkedListCycle, ReorderList,
    RemoveNthNodeFromEnd, AddTwoNumbers, FindTheDuplicateNumber, MergeKSortedLists,
    ReverseNodesInKGroup}
=============================================================================
