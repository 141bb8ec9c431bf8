---------------------------- MODULE MCContainers ----------------------------
(* The four containers side by side: a behaviour is one of one container.     *)
EXTENDS List, FiniteSets

CONSTANTS
  Arrays, Values, Default, MaxLen,                                \* DynamicArray
  MaxDepth,                                                       \* BinTree
  Keys, MinBuckets, MaxInBucket, Threads, MaxGeneration           \* HashTable

\* An array of objects that can be made without an argument has T{} among its values.
ASSUME ArraysAssumption == Default \in Values /\ MaxLen \in Nat

VARIABLES mem, len, items, job
VARIABLES source, tree, made, rhsIt, stack, step
VARIABLES hnext, generation, hsize, thread, present, raced
VARIABLE kind       \* the container the behaviour is about

\* Keys collide in the first two buckets and part in the next three and four.
MCHash == [k \in Keys |-> k]

Array == INSTANCE DynamicArray
Tree == INSTANCE BinTree
Table == INSTANCE HashTable WITH next <- hnext, size <- hsize, Hash <- MCHash

\* There are as many arrays of buckets as the keys can need: a table that has
\* all keys but one is not rehashed in the last of them.
ASSUME TableAssumption ==
  /\ Keys \subseteq Nat /\ IsFiniteSet(Keys)
  /\ MinBuckets \in Nat \ {0} /\ MaxInBucket \in Nat /\ MaxGeneration \in Nat \ {0}
  /\ Cardinality(Keys) <= Table!BucketsCnt[MaxGeneration] * MaxInBucket + 1

arrayVars == <<mem, len, items, job>>
treeVars == <<source, tree, made, rhsIt, stack, step>>
tableVars == <<hnext, generation, hsize, thread, present, raced>>
vars == <<listVars, arrayVars, treeVars, tableVars, kind>>

\* A tree that is not looked at is an empty one.
Init ==
  /\ kind \in {"list", "array", "tree", "table"}
  /\ ListInit /\ Array!ArrayInit /\ Tree!TreeInit /\ Table!TableInit
  /\ kind # "tree" => source = {}

Next ==
  \/ /\ kind = "list" /\ ListNext
     /\ UNCHANGED <<arrayVars, treeVars, tableVars, kind>>
  \/ /\ kind = "array" /\ Array!ArrayNext
     /\ UNCHANGED <<listVars, treeVars, tableVars, kind>>
  \/ /\ kind = "tree" /\ Tree!TreeNext
     /\ UNCHANGED <<listVars, arrayVars, tableVars, kind>>
  \/ /\ kind = "table" /\ Table!HashNext
     /\ UNCHANGED <<listVars, arrayVars, treeVars, kind>>

\* A member function of a tree runs to its end once it was called.
Spec == Init /\ [][Next]_vars /\ WF_vars(kind = "tree" /\ Next)

\* The arrays' elements, see DynamicArray.
ElementsAreItems == Array!ElementsAreItems
\* Copies of conditions, see BinTree.
CopyIsSource == Tree!CopyIsSource
\* Conditions that are taken down, see BinTree.
ClearEnds == Tree!ClearEnds
\* The catalogue, see HashTable.
LookupsRight == Table!LookupsRight
\* The catalogue between two additions, see HashTable.
TableIsWhole == Table!TableIsWhole
=============================================================================
