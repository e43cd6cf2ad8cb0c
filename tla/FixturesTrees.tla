--------------------------- MODULE FixturesTrees ---------------------------
(* seeds/data: trees.ts. *)
EXTENDS Fixtures

\* The mirror image.
InvertBinaryTree ==
    OneInput("invert-binary-tree", NodesWithNulls({5, 6}),
        <<<<<<4, 2, 7, 1, 3, 6, 9>>, <<4, 7, 2, 9, 6, 3, 1>>>>, <<<<2, 1, 3>>, <<2, 3, 1>>>>,
          <<<<>>, <<>>>>, <<<<1>>, <<1>>>>, <<<<1, 2, Null>>, <<1, Null, 2>>>>,
          <<<<1, Null, 2>>, <<1, 2, Null>>>>,
          <<<<1, 2, 3, 4, 5, 6, 7>>, <<1, 3, 2, 7, 6, 5, 4>>>>,
          <<<<5, 3, 8, 1, 4, 7, 9>>, <<5, 8, 3, 9, 7, 4, 1>>>>>>,
      LAMBDA root, out :
        LET RECURSIVE Mirrors(_, _)
            Mirrors(a, b) ==
                \/ ~IsNode(root, a) /\ ~IsNode(out, b)
                \/ /\ IsNode(root, a) /\ IsNode(out, b) /\ root[a] = out[b]
                   /\ Mirrors(Left(root, a), Right(out, b)) /\ Mirrors(Right(root, a), Left(out, b))
        IN Mirrors(1, 1))

\* The number of nodes on the longest path from the root.
MaximumDepthOfBinaryTree ==
    OneInput("maximum-depth-of-binary-tree", NodesWithNulls({1, 2, 5, 6}),
        <<<<<<3, 9, 20, Null, Null, 15, 7>>, 3>>, <<<<1, Null, 2>>, 2>>, <<<<>>, 0>>,
          <<<<1>>, 1>>, <<<<1, 2, 3, 4, Null, Null, 5>>, 3>>,
          <<<<1, 2, Null, 3, Null, 4, Null>>, 4>>, <<<<1, 2, 3>>, 2>>,
          <<<<0, 0, 0, 0, 0, 0, 0>>, 3>>>>,
      LAMBDA root, out : out = Max({0} \cup {Level(root, a) : a \in TreeNodes(root)}))

\* The number of edges of the longest path between two nodes.
DiameterOfBinaryTree ==
    OneInput("diameter-of-binary-tree", NodesWithNulls({4, 5, 7}),
        <<<<<<1, 2, 3, 4, 5>>, 3>>, <<<<1, 2>>, 1>>, <<<<1>>, 0>>,
          <<<<1, 2, 3, 4, 5, Null, Null, 6>>, 4>>, <<<<1, 2, Null, 3, Null, 4, Null>>, 3>>,
          <<<<1, 2, 3>>, 2>>, <<<<1, Null, 2, Null, 3>>, 2>>, <<<<4, 2, 6, 1, 3, 5, 7>>, 4>>>>,
      LAMBDA root, out :
        out = Max({Depth(root, Left(root, a)) + Depth(root, Right(root, a)) : a \in TreeNodes(root)}))

\* At every node the depths of the subtrees differ by one at most.
BalancedBinaryTree ==
    OneInput("balanced-binary-tree", NodesWithNulls({1, 2, 6, 7, 8}),
        <<<<<<3, 9, 20, Null, Null, 15, 7>>, TRUE>>,
          <<<<1, 2, 2, 3, 3, Null, Null, 4, 4>>, FALSE>>, <<<<>>, TRUE>>, <<<<1>>, TRUE>>,
          <<<<1, 2, 3, 4, 5, 6, 7>>, TRUE>>, <<<<1, 2, Null, 3, Null, 4, Null>>, FALSE>>,
          <<<<1, 2, 3, 4, Null, Null, 5>>, TRUE>>, <<<<1, Null, 2, Null, 3>>, FALSE>>>>,
      LAMBDA root, out :
        out = \A a \in TreeNodes(root) : Abs(Depth(root, Left(root, a)) - Depth(root, Right(root, a))) <= 1)

\* The same shape and values.
SameTreeProblem ==
    TwoInputs("same-tree", NodesWithNulls({2}),
        <<<<<<1, 2, 3>>, <<1, 2, 3>>, TRUE>>, <<<<1, 2>>, <<1, Null, 2>>, FALSE>>,
          <<<<1, 2, 1>>, <<1, 1, 2>>, FALSE>>, <<<<>>, <<>>, TRUE>>, <<<<1>>, <<1>>, TRUE>>,
          <<<<1>>, <<>>, FALSE>>, <<<<1, 2, 3, 4, 5>>, <<1, 2, 3, 4, 5>>, TRUE>>,
          <<<<1, 2, 3, 4, 5>>, <<1, 2, 3, 4, 6>>, FALSE>>>>,
      LAMBDA p, q, out : out = SameTree(p, 1, q, 1))

\* Some node with all below it is the other tree.
SubtreeOfAnotherTree ==
    TwoInputs("subtree-of-another-tree", NodesWithNulls({2, 7, 8}),
        <<<<<<3, 4, 5, 1, 2>>, <<4, 1, 2>>, TRUE>>,
          <<<<3, 4, 5, 1, 2, Null, Null, Null, Null, 0>>, <<4, 1, 2>>, FALSE>>,
          <<<<1, 1>>, <<1>>, TRUE>>, <<<<1>>, <<1>>, TRUE>>, <<<<1, 2, 3>>, <<2>>, TRUE>>,
          <<<<1, 2, 3>>, <<1, 2, 3>>, TRUE>>, <<<<1, Null, 2>>, <<1, 2>>, FALSE>>,
          <<<<3, 4, 5, 1, Null, 2>>, <<3, 1, 2>>, FALSE>>>>,
      LAMBDA root, subRoot, out : out = \E a \in TreeNodes(root) : SameTree(root, a, subRoot, 1))

\* The deepest node with both values under it.
LowestCommonAncestor ==
    ThreeInputs("lowest-common-ancestor-of-a-binary-search-tree", NodesWithNulls({1, 2, 4, 5, 6, 7}),
        <<<<<<6, 2, 8, 0, 4, 7, 9, Null, Null, 3, 5>>, 2, 8, 6>>,
          <<<<6, 2, 8, 0, 4, 7, 9, Null, Null, 3, 5>>, 2, 4, 2>>, <<<<2, 1>>, 2, 1, 2>>,
          <<<<6, 2, 8, 0, 4, 7, 9, Null, Null, 3, 5>>, 0, 5, 2>>,
          <<<<6, 2, 8, 0, 4, 7, 9, Null, Null, 3, 5>>, 7, 9, 8>>,
          <<<<6, 2, 8, 0, 4, 7, 9, Null, Null, 3, 5>>, 3, 5, 4>>,
          <<<<6, 2, 8, 0, 4, 7, 9, Null, Null, 3, 5>>, 0, 9, 6>>,
          <<<<3, 1, 5, 0, 2, 4, 6>>, 0, 2, 1>>>>,
      LAMBDA root, p, q, out :
        LET common == {a \in TreeNodes(root) : {p, q} \subseteq ValuesUnder(root, a)}
        IN \E a \in common : out = root[a] /\ \A b \in common : Level(root, b) <= Level(root, a))

\* The values level by level.
LevelOrderTraversal ==
    OneInput("binary-tree-level-order-traversal", NodesWithNulls({1, 5, 6}),
        <<<<<<3, 9, 20, Null, Null, 15, 7>>, <<<<3>>, <<9, 20>>, <<15, 7>>>>>>,
          <<<<1>>, <<<<1>>>>>>, <<<<>>, <<>>>>,
          <<<<1, 2, 3, 4, 5, 6, 7>>, <<<<1>>, <<2, 3>>, <<4, 5, 6, 7>>>>>>,
          <<<<1, 2, Null, 3, Null, 4>>, <<<<1>>, <<2>>, <<3>>, <<4>>>>>>,
          <<<<1, Null, 2, Null, 3>>, <<<<1>>, <<2>>, <<3>>>>>>,
          <<<<1, 2, 3>>, <<<<1>>, <<2, 3>>>>>>, <<<<0, -1, 1>>, <<<<0>>, <<-1, 1>>>>>>>>,
      LAMBDA root, out : out = LevelValues(root))

\* The last value of each level.
RightSideView ==
    OneInput("binary-tree-right-side-view", NodesWithNulls({1, 2, 8}),
        <<<<<<1, 2, 3, Null, 5, Null, 4>>, <<1, 3, 4>>>>, <<<<1, Null, 3>>, <<1, 3>>>>,
          <<<<>>, <<>>>>, <<<<1>>, <<1>>>>, <<<<1, 2, 3, 4>>, <<1, 3, 4>>>>,
          <<<<1, 2>>, <<1, 2>>>>, <<<<1, 2, 3, 4, 5, 6, 7>>, <<1, 3, 7>>>>,
          <<<<1, 2, Null, 3, Null, 4>>, <<1, 2, 3, 4>>>>>>,
      LAMBDA root, out : out = [d \in 1..Depth(root, 1) |-> Last(LevelValues(root)[d])])

\* The nodes with no greater value on the path from the root.
CountGoodNodes ==
    OneInput("count-good-nodes-in-binary-tree", NodesWithNulls({1, 2, 4, 5}),
        <<<<<<3, 1, 4, 3, Null, 1, 5>>, 4>>, <<<<3, 3, Null, 4, 2>>, 3>>, <<<<1>>, 1>>,
          <<<<2, Null, 4, 10, 8, Null, Null, 4>>, 4>>, <<<<9, Null, 3, 6>>, 1>>,
          <<<<1, 2, 3, 4, 5, 6, 7>>, 7>>, <<<<5, 3, 8, 1, 4, 7, 9>>, 3>>,
          <<<<-1, -2, -3>>, 1>>>>,
      LAMBDA root, out :
        out = Cardinality({a \in TreeNodes(root) :
            \A b \in TreeNodes(root) : a \in Under(root, b) => root[b] <= root[a]}))

\* Less on the left of every node, greater on the right.
ValidateBinarySearchTree ==
    OneInput("validate-binary-search-tree", NodesWithNulls({2, 4, 6}),
        <<<<<<2, 1, 3>>, TRUE>>, <<<<5, 1, 4, Null, Null, 3, 6>>, FALSE>>, <<<<1>>, TRUE>>,
          <<<<5, 4, 6, Null, Null, 3, 7>>, FALSE>>, <<<<2, 2, 2>>, FALSE>>,
          <<<<10, 5, 15, Null, Null, 6, 20>>, FALSE>>, <<<<3, 1, 5, 0, 2, 4, 6>>, TRUE>>,
          <<<<0, -1>>, TRUE>>>>,
      LAMBDA root, out :
        out = \A a \in TreeNodes(root) : /\ \A x \in ValuesUnder(root, Left(root, a)) : x < root[a]
                                          /\ \A y \in ValuesUnder(root, Right(root, a)) : y > root[a])

\* The k-th value in ascending order.
KthSmallestInBst ==
    TwoInputs("kth-smallest-element-in-a-bst", NodesWithNulls({1, 2, 4, 5, 6, 7}),
        <<<<<<3, 1, 4, Null, 2>>, 1, 1>>, <<<<5, 3, 6, 2, 4, Null, Null, 1>>, 3, 3>>,
          <<<<1>>, 1, 1>>, <<<<3, 1, 4, Null, 2>>, 2, 2>>, <<<<3, 1, 4, Null, 2>>, 3, 3>>,
          <<<<3, 1, 4, Null, 2>>, 4, 4>>, <<<<5, 3, 6, 2, 4, Null, Null, 1>>, 6, 6>>,
          <<<<2, 1, 3>>, 2, 2>>>>,
      LAMBDA root, k, out : out = Ascending(Pick(root, TreeNodes(root)))[k])

\* The tree with these two traversals.
ConstructBinaryTree ==
    TwoInputs("construct-binary-tree-from-preorder-and-inorder-traversal", Nodes,
        <<<<<<3, 9, 20, 15, 7>>, <<9, 3, 15, 20, 7>>, <<3, 9, 20, Null, Null, 15, 7>>>>,
          <<<<-1>>, <<-1>>, <<-1>>>>, <<<<1, 2>>, <<2, 1>>, <<1, 2>>>>,
          <<<<1, 2>>, <<1, 2>>, <<1, Null, 2>>>>, <<<<1, 2, 3>>, <<2, 1, 3>>, <<1, 2, 3>>>>,
          <<<<1, 2, 4, 5, 3, 6, 7>>, <<4, 2, 5, 1, 6, 3, 7>>, <<1, 2, 3, 4, 5, 6, 7>>>>,
          <<<<3, 1, 2, 4>>, <<1, 2, 3, 4>>, <<3, 1, 4, Null, 2>>>>,
          <<<<5, 3, 2, 4, 7, 6, 8>>, <<2, 3, 4, 5, 6, 7, 8>>, <<5, 3, 7, 2, 4, 6, 8>>>>>>,
      LAMBDA preorder, inorder, out :
        LET RECURSIVE Pre(_), In(_)
            Pre(a) == IF IsNode(out, a) THEN <<out[a]>> \o Pre(Left(out, a)) \o Pre(Right(out, a)) ELSE <<>>
            In(a) == IF IsNode(out, a) THEN In(Left(out, a)) \o <<out[a]>> \o In(Right(out, a)) ELSE <<>>
        IN Pre(1) = preorder /\ In(1) = inorder)

\* The greatest sum along a path between two nodes.
MaximumPathSum ==
    OneInput("binary-tree-maximum-path-sum", NodesWithNulls({2, 7}),
        <<<<<<1, 2, 3>>, 6>>, <<<<-10, 9, 20, Null, Null, 15, 7>>, 42>>, <<<<1>>, 1>>,
          <<<<-3>>, -3>>, <<<<2, -1>>, 2>>, <<<<-2, -1>>, -1>>,
          <<<<5, 4, 8, 11, Null, 13, 4, 7, 2, Null, Null, Null, 1>>, 48>>, <<<<1, -2, 3>>, 4>>>>,
      LAMBDA root, out :
        LET RECURSIVE Gain(_)
            Gain(a) == IF IsNode(root, a)
                       THEN Max({0, root[a] + Max({Gain(Left(root, a)), Gain(Right(root, a))})}) ELSE 0
        IN out = Max({root[a] + Gain(Left(root, a)) + Gain(Right(root, a)) : a \in TreeNodes(root)}))

TreesProblems == {
    InvertBinaryTree, MaximumDepthOfBinaryTree, DiameterOfBinaryTree,
    BalancedBinaryTree, SameTreeProblem, SubtreeOfAnotherTree, LowestCommonAncestor,
    LevelOrderTraversal, RightSideView, CountGoodNodes, ValidateBinarySearchTree,
    KthSmallestInBst, ConstructBinaryTree, MaximumPathSum}
=============================================================================
