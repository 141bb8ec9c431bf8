------------------------------- MODULE BinTree ------------------------------
(* data_struct::BinTree (binary_tree.h), in which conditions are kept. The    *)
(* condition of a DELETE or a SELECT is copied and moved with the request,    *)
(* and every tree is taken down by its destructor; the copy constructor and   *)
(* clear work without recursion, with stacks of places that are visited       *)
(* later. A node is named by its path from the root, a sequence of sides, and *)
(* a tree is the set of the paths of its nodes.                               *)
EXTENDS Naturals, Sequences, FiniteSets

CONSTANT MaxDepth        \* of the trees that are copied and cleared

VARIABLES
  source,     \* the nodes of the tree that is copied
  tree,       \* the nodes of this tree
  made,       \* how often a node was allocated for each path of the copy
  rhsIt,      \* the branch the copy looks at in source (it points to the same one here)
  stack,      \* the places pushed and not yet popped
  step        \* what the tree's member function does next

treeVars == <<source, tree, made, rhsIt, stack, step>>

Sides == {"left", "right"}
Paths == UNION {[1..n -> Sides] : n \in 0..MaxDepth}
Root == <<>>

Left(p) == Append(p, "left")
Right(p) == Append(p, "right")
IsLeaf(t, p) == p \in t /\ Left(p) \notin t /\ Right(p) \notin t

\* No node without its parent; emplace (to_left / to_right) with what was there
\* as a child, and add_subtree, build nothing else.
Trees == {t \in SUBSET Paths : \A p \in t : p = Root \/ SubSeq(p, 1, Len(p) - 1) \in t}

Top == stack[Len(stack)]
Popped == SubSeq(stack, 1, Len(stack) - 1)

TreeInit ==
  /\ source \in Trees
  /\ tree = {} /\ made = [p \in source |-> 0]
  /\ rhsIt = Root /\ stack = <<>>
  /\ step = IF source = {} THEN "idle" ELSE "next_branch"

\* The outer loop of the copy constructor.
NextBranch ==
  /\ step = "next_branch"
  /\ IF rhsIt \notin source /\ stack = <<>>
     THEN /\ step' = "idle"
          /\ UNCHANGED <<rhsIt, stack>>
     ELSE /\ step' = "down_left"
          /\ rhsIt' = IF stack # <<>> THEN Top ELSE rhsIt
          /\ stack' = IF stack # <<>> THEN Popped ELSE stack
  /\ UNCHANGED <<source, tree, made>>

\* Mutation: the branch to the right is kept only when there is none to the left.
MutDownLeft ==
  /\ step = "down_left" /\ rhsIt \in source
  /\ tree' = tree \cup {rhsIt}
  /\ made' = [made EXCEPT ![rhsIt] = @ + 1]
  /\ stack' = IF {Left(rhsIt), Right(rhsIt)} \cap source = {Right(rhsIt)}
              THEN Append(stack, Right(rhsIt)) ELSE stack
  /\ rhsIt' = Left(rhsIt)
  /\ UNCHANGED <<source, step>>

\* The inner loop: a node, the branch to its right for later, and on to the left.
DownLeft ==
  /\ step = "down_left" /\ rhsIt \in source
  /\ tree' = tree \cup {rhsIt}
  /\ made' = [made EXCEPT ![rhsIt] = @ + 1]
  /\ stack' = IF Right(rhsIt) \in source THEN Append(stack, Right(rhsIt)) ELSE stack
  /\ rhsIt' = Left(rhsIt)
  /\ UNCHANGED <<source, step>>

BranchDone ==
  /\ step = "down_left" /\ rhsIt \notin source
  /\ step' = "next_branch"
  /\ UNCHANGED <<source, tree, made, rhsIt, stack>>

Clear ==
  /\ step = "idle" /\ tree # {}
  /\ stack' = <<Root>> /\ step' = "clear"
  /\ UNCHANGED <<source, tree, made, rhsIt>>

\* Mutation: the pointer to the deleted leaf is not set to nullptr.
MutEraseLeaf ==
  /\ step = "clear" /\ stack # <<>> /\ IsLeaf(tree, Top)
  /\ stack' = Popped
  /\ UNCHANGED <<source, tree, made, rhsIt, step>>

EraseLeaf ==
  /\ step = "clear" /\ stack # <<>> /\ IsLeaf(tree, Top)
  /\ tree' = tree \ {Top}
  /\ stack' = Popped
  /\ UNCHANGED <<source, made, rhsIt, step>>

Descend ==
  /\ step = "clear" /\ stack # <<>> /\ ~IsLeaf(tree, Top)
  /\ stack' = Append(stack, IF Left(Top) \in tree THEN Left(Top) ELSE Right(Top))
  /\ UNCHANGED <<source, tree, made, rhsIt, step>>

ClearDone ==
  /\ step = "clear" /\ stack = <<>>
  /\ step' = "gone"
  /\ UNCHANGED <<source, tree, made, rhsIt, stack>>

TreeNext ==
  NextBranch \/ DownLeft \/ BranchDone \/ Clear \/ EraseLeaf \/ Descend \/ ClearDone
-----------------------------------------------------------------------------
(* A finished copy has exactly the branches of its source, each node was      *)
(* allocated once, so that none is lost under a pointer that was overwritten, *)
(* and at no time does a node hang where its parent is missing.               *)
CopyIsSource ==
  /\ tree \in Trees /\ tree \subseteq source
  /\ \A p \in source : made[p] <= 1 /\ (made[p] = 0 => p \notin tree)
  /\ step = "idle" => tree = source

(* A tree that is cleared is gone in the end: whichever leaf clear finds     *)
(* first, every node is deleted after its children and before the function    *)
(* returns, and the stack of places never asks for one that is gone.          *)
ClearEnds ==
  [](step = "clear" =>
       /\ \A i \in DOMAIN stack : stack[i] \in tree
       /\ <>(step = "gone" /\ tree = {}))
=============================================================================
