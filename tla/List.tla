-------------------------------- MODULE List --------------------------------
(* data_struct::List (list.h), the list that holds the loaded rows of a       *)
(* table: a ring of nodes closed by the endHead that is a part of the list    *)
(* object itself, so that a list which is swapped or moved takes its nodes    *)
(* along but not its endHead. The pointers are next and prev; content is what *)
(* a user of the list believes to be in it.                                   *)
EXTENDS Naturals, Sequences

CONSTANTS
  Lists,     \* the places where a list object can live; each is its own endHead
  Nodes      \* the nodes that can be allocated

ASSUME ListAssumption == Lists \cap Nodes = {}

VARIABLES
  next, prev,   \* the pointers of every endHead and every node
  size,         \* size_
  content,      \* the nodes that were put into each list, in order
  built,        \* the lists that are constructed and not yet destroyed
  loop          \* what erase (beg, end) still has to do, and whether ~List called it

listVars == <<next, prev, size, content, built, loop>>

Cells == Lists \cup Nodes

NoLoop == [list |-> "none"]
Idle == loop = NoLoop

Size(l) == Len(content[l])

\* The cell behind the first i - 1 nodes of l: begin() is At(l, 1), end() is
\* At(l, Size(l) + 1), and both --begin() and end() are the endHead.
At(l, i) == IF i \in 1..Size(l) THEN content[l][i] ELSE l

Taken(n) == \E l \in built : \E i \in 1..Size(l) : content[l][i] = n

Inserted(s, i, n) ==
  [j \in 1..(Len(s) + 1) |-> IF j < i THEN s[j] ELSE IF j = i THEN n ELSE s[j - 1]]

Removed(s, i) == [j \in 1..(Len(s) - 1) |-> IF j < i THEN s[j] ELSE s[j + 1]]

ListInit ==
  /\ next = [c \in Cells |-> c] /\ prev = next
  /\ size = [l \in Lists |-> 0] /\ content = [l \in Lists |-> <<>>]
  /\ built = {} /\ loop = NoLoop
-----------------------------------------------------------------------------
Construct(l) ==
  /\ Idle /\ l \notin built
  /\ next' = [next EXCEPT ![l] = l] /\ prev' = [prev EXCEPT ![l] = l]
  /\ size' = [size EXCEPT ![l] = 0] /\ content' = [content EXCEPT ![l] = <<>>]
  /\ built' = built \cup {l}
  /\ UNCHANGED loop

\* Mutation: the last node is not bound to the new endHead.
MutTakenOver(fwd, bwd, l, r) ==
  [c \in Cells |-> IF c = r THEN r
                   ELSE IF c = l THEN IF size[r] = 0 THEN l ELSE fwd[r] ELSE fwd[c]]

\* The pointers of one direction when l takes over what r has and r is reset:
\* fwd is that direction, bwd the other one, in which bind() finds the end.
TakenOver(fwd, bwd, l, r) ==
  [c \in Cells |->
     IF c = r THEN r
     ELSE IF c = l THEN IF size[r] = 0 THEN l ELSE fwd[r]
     ELSE IF size[r] # 0 /\ c = bwd[r] THEN l ELSE fwd[c]]

MoveConstruct(l, r) ==
  /\ Idle /\ l \notin built /\ r \in built
  /\ next' = TakenOver(next, prev, l, r)
  /\ prev' = TakenOver(prev, next, l, r)
  /\ size' = [size EXCEPT ![l] = size[r], ![r] = 0]
  /\ content' = [content EXCEPT ![l] = content[r], ![r] = <<>>]
  /\ built' = built \cup {l}
  /\ UNCHANGED loop

\* Both endHeads change places, and the first and the last node of each list
\* are bound to the new one, or it is reset when there are none.
Exchanged(fwd, bwd, l, r) ==
  [c \in Cells |->
     IF c = l THEN IF size[r] = 0 THEN l ELSE fwd[r]
     ELSE IF c = r THEN IF size[l] = 0 THEN r ELSE fwd[l]
     ELSE IF size[r] # 0 /\ c = bwd[r] THEN l
     ELSE IF size[l] # 0 /\ c = bwd[l] THEN r ELSE fwd[c]]

Swap(l, r) ==
  /\ Idle /\ l # r /\ {l, r} \subseteq built
  /\ next' = Exchanged(next, prev, l, r)
  /\ prev' = Exchanged(prev, next, l, r)
  /\ size' = [size EXCEPT ![l] = size[r], ![r] = size[l]]
  /\ content' = [content EXCEPT ![l] = content[r], ![r] = content[l]]
  /\ UNCHANGED <<built, loop>>

\* A new node in front of the cell that the iterator points to.
Emplace(l, i, n) ==
  /\ Idle /\ l \in built /\ ~Taken(n)
  /\ LET c == At(l, i) IN
     /\ next' = [next EXCEPT ![n] = c, ![prev[c]] = n]
     /\ prev' = [prev EXCEPT ![n] = prev[c], ![c] = n]
  /\ size' = [size EXCEPT ![l] = @ + 1]
  /\ content' = [content EXCEPT ![l] = Inserted(@, i, n)]
  /\ UNCHANGED <<built, loop>>

\* The i-th node is taken out of the ring and deleted.
Unlink(l, i) ==
  LET c == content[l][i] IN
  /\ size' = [size EXCEPT ![l] = @ - 1]
  /\ next' = [next EXCEPT ![prev[c]] = next[c]]
  /\ prev' = [prev EXCEPT ![next[c]] = prev[c]]
  /\ content' = [content EXCEPT ![l] = Removed(@, i)]

Erase(l, i) ==
  /\ Idle /\ l \in built /\ i \in 1..Size(l)
  /\ Unlink(l, i)
  /\ UNCHANGED <<built, loop>>

\* erase (beg, end) of the nodes i .. j - 1, one after another.
EraseRange(l, i, j) ==
  /\ Idle /\ l \in built /\ i < j
  /\ loop' = [list |-> l, at |-> At(l, i), stop |-> At(l, j), last |-> FALSE]
  /\ UNCHANGED <<next, prev, size, content, built>>

Destroy(l) ==
  /\ Idle /\ l \in built
  /\ loop' = [list |-> l, at |-> next[l], stop |-> l, last |-> TRUE]
  /\ UNCHANGED <<next, prev, size, content, built>>

EraseNext(i) ==
  /\ ~Idle /\ loop.at # loop.stop
  /\ i \in 1..Size(loop.list) /\ content[loop.list][i] = loop.at
  /\ loop' = [loop EXCEPT !.at = next[loop.at]]
  /\ Unlink(loop.list, i)
  /\ UNCHANGED built

EraseDone ==
  /\ ~Idle /\ loop.at = loop.stop
  /\ built' = IF loop.last THEN built \ {loop.list} ELSE built
  /\ loop' = NoLoop
  /\ UNCHANGED <<next, prev, size, content>>

ListNext ==
  \/ \E l \in Lists : Construct(l) \/ Destroy(l)
  \/ \E l, r \in Lists : MoveConstruct(l, r) \/ Swap(l, r)
  \/ \E l \in Lists : \E i \in 1..(Size(l) + 1) :
       \/ \E n \in Nodes : Emplace(l, i, n)
       \/ Erase(l, i)
       \/ \E j \in 1..(Size(l) + 1) : EraseRange(l, i, j)
  \/ ~Idle /\ \E i \in 1..Size(loop.list) : EraseNext(i)
  \/ EraseDone

ListSpec == ListInit /\ [][ListNext]_listVars
-----------------------------------------------------------------------------
(* Every list is one ring through exactly the nodes that were put into it, in *)
(* their order, forwards and backwards, whatever was erased, moved or swapped *)
(* before, and in the middle of an erase (beg, end): --end(), begin() and the *)
(* walks between them never meet a node of another list or a deleted one.     *)
RingIsContent ==
  \A l \in built :
    /\ size[l] = Size(l)
    /\ \A i \in 0..Size(l) :
         next[At(l, i)] = At(l, i + 1) /\ prev[At(l, i + 1)] = At(l, i)

(* No node is reachable from two lists, and a destroyed list leaves none.     *)
NodesOwnedOnce ==
  /\ \A l, r \in built : \A i \in 1..Size(l), j \in 1..Size(r) :
       content[l][i] = content[r][j] => l = r /\ i = j
  /\ \A l \in Lists \ built : Size(l) = 0

ListTypeOK ==
  /\ next \in [Cells -> Cells] /\ prev \in [Cells -> Cells]
  /\ size \in [Lists -> Nat] /\ content \in [Lists -> Seq(Nodes)]
  /\ built \subseteq Lists
  /\ loop = NoLoop
     \/ loop \in [list : Lists, at : Cells, stop : Cells, last : BOOLEAN]

\* A destructor has erased from the front on, and goes on to the end.
LoopInv ==
  ~Idle => /\ loop.list \in built
           /\ loop.last => loop.stop = loop.list /\ loop.at = At(loop.list, 1)

\* What every operation preserves, and what makes RingIsContent inductive.
ListInv == ListTypeOK /\ RingIsContent /\ NodesOwnedOnce /\ LoopInv
=============================================================================
