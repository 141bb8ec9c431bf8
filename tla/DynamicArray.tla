---------------------------- MODULE DynamicArray ----------------------------
(* data_struct::DynamicArray (dynamic_array.h), on which the stacks, the hash *)
(* containers and the parser's tokens are built: memory of capacity_ cells of *)
(* which the first end_ - begin_ hold objects. The cells of one array belong  *)
(* to nobody else, so the address of begin_ is left out; begin_ is nullptr    *)
(* when mem is empty. Moving an element leaves an empty one behind, as it     *)
(* does for the strings and lists the program stores. The loops that move     *)
(* elements between two arrays (MoveInitTag) and within one (shift_left) are  *)
(* taken step by step: they are push_backs and assignments of their own.      *)
EXTENDS Naturals, Sequences

CONSTANTS
  Arrays,       \* the places where an array can live
  Values,       \* what an element can be
  Default,      \* T{}
  MaxLen        \* how long the instances checked let an array become

VARIABLES
  mem,          \* the cells of each array; their number is capacity_
  len,          \* size(), that is end_ - begin_
  items,        \* what the user of each array believes it to hold
  job           \* the operation that is running

arrayVars == <<mem, len, items, job>>

Raw == "raw"           \* memory without an object
Moved == "moved"       \* an object whose value was moved away
NoJob == [op |-> "none"]

Capacity(a) == Len(mem[a])
RawMemory(n) == [i \in 1..n |-> Raw]
FirstCells(a) == SubSeq(mem[a], 1, len[a])

Unused(a) == mem[a] = <<>> /\ len[a] = 0

ArrayInit ==
  /\ mem = [a \in Arrays |-> <<>>] /\ len = [a \in Arrays |-> 0]
  /\ items = [a \in Arrays |-> <<>>]
  /\ job = NoJob
-----------------------------------------------------------------------------
\* reserve_before_insert: one cell, then twice the size.
Grown(a) == IF len[a] = 0 THEN 1 ELSE 2 * len[a]

\* new (end_) T (...); ++end_.
Appended(a, v) ==
  /\ mem' = [mem EXCEPT ![a][len[a] + 1] = v]
  /\ len' = [len EXCEPT ![a] = @ + 1]

\* The DynamicArray (beg, end, newCapacity, MoveInitTag) of realloc_if_capacity_less
\* fills tmp from a; afterwards a takes tmp's memory and goes on with "then".
Reallocate(a, capacity, then) ==
  job' = [op |-> "move", array |-> a, tmp |-> RawMemory(capacity), moved |-> 0, then |-> then]

MoveNext ==
  /\ job.op = "move" /\ job.moved < len[job.array]
  /\ LET i == job.moved + 1 IN
     /\ job' = [job EXCEPT !.tmp[i] = mem[job.array][i], !.moved = i]
     /\ mem' = [mem EXCEPT ![job.array][i] = Moved]
  /\ UNCHANGED <<len, items>>

MoveDone ==
  /\ job.op = "move" /\ job.moved = len[job.array]
  /\ mem' = [mem EXCEPT ![job.array] = job.tmp]
  /\ len' = [len EXCEPT ![job.array] = job.moved]
  /\ job' = job.then
  /\ UNCHANGED items

PushBack(a, v) ==
  /\ job = NoJob /\ Len(items[a]) < MaxLen
  /\ items' = [items EXCEPT ![a] = Append(@, v)]
  /\ job' = [op |-> "push", array |-> a, values |-> <<v>>]
  /\ UNCHANGED <<mem, len>>

\* emplace_back, for one value or for all those that are copied into the array.
PushGrow ==
  /\ job.op = "push" /\ job.values # <<>>
  /\ Capacity(job.array) < len[job.array] + 1
  /\ Reallocate(job.array, Grown(job.array), job)
  /\ UNCHANGED <<mem, len, items>>

PushPlace ==
  /\ job.op = "push" /\ job.values # <<>>
  /\ Capacity(job.array) >= len[job.array] + 1
  /\ Appended(job.array, Head(job.values))
  /\ job' = IF Len(job.values) = 1 THEN NoJob ELSE [job EXCEPT !.values = Tail(@)]
  /\ UNCHANGED items

PopBack(a) ==
  /\ job = NoJob /\ len[a] > 0
  /\ mem' = [mem EXCEPT ![a][len[a]] = Raw]
  /\ len' = [len EXCEPT ![a] = @ - 1]
  /\ items' = [items EXCEPT ![a] = SubSeq(@, 1, len[a] - 1)]
  /\ UNCHANGED job

\* erase: shift_left moves each element behind the place one to the left.
Erase(a, i) ==
  /\ job = NoJob /\ i \in 1..len[a]
  /\ items' = [items EXCEPT ![a] = [j \in 1..(len[a] - 1) |-> IF j < i THEN @[j] ELSE @[j + 1]]]
  /\ job' = [op |-> "shift", array |-> a, to |-> i]
  /\ UNCHANGED <<mem, len>>

ShiftNext ==
  /\ job.op = "shift" /\ job.to < len[job.array]
  /\ mem' = [mem EXCEPT ![job.array][job.to] = mem[job.array][job.to + 1],
                        ![job.array][job.to + 1] = Moved]
  /\ job' = [job EXCEPT !.to = @ + 1]
  /\ UNCHANGED <<len, items>>

\* Mutation: the last object is not destroyed after the others have moved up.
MutShiftDone ==
  /\ job.op = "shift" /\ job.to = len[job.array]
  /\ len' = [len EXCEPT ![job.array] = @ - 1]
  /\ job' = NoJob
  /\ UNCHANGED <<mem, items>>

ShiftDone ==
  /\ job.op = "shift" /\ job.to = len[job.array]
  /\ mem' = [mem EXCEPT ![job.array][len[job.array]] = Raw]
  /\ len' = [len EXCEPT ![job.array] = @ - 1]
  /\ job' = NoJob
  /\ UNCHANGED items

\* reserve and resize; the parser's copies of words end in a destructor, which
\* is resize (0) and gives the memory back.
Reserve(a, n) ==
  /\ job = NoJob /\ Capacity(a) < n
  /\ Reallocate(a, n, NoJob)
  /\ UNCHANGED <<mem, len, items>>

Resized(s, n) == [i \in 1..n |-> IF i <= Len(s) THEN s[i] ELSE Default]

Resize(a, n) ==
  /\ job = NoJob /\ n # len[a]
  /\ items' = [items EXCEPT ![a] = Resized(@, n)]
  /\ LET resize == [op |-> "resize", array |-> a, size |-> n, frees |-> FALSE] IN
     IF Capacity(a) < n THEN Reallocate(a, n, resize) ELSE job' = resize
  /\ UNCHANGED <<mem, len>>

ResizeNext ==
  /\ job.op = "resize" /\ len[job.array] # job.size
  /\ IF len[job.array] < job.size
     THEN Appended(job.array, Default)
     ELSE /\ mem' = [mem EXCEPT ![job.array][len[job.array]] = Raw]
          /\ len' = [len EXCEPT ![job.array] = @ - 1]
  /\ UNCHANGED <<items, job>>

ResizeDone ==
  /\ job.op = "resize" /\ len[job.array] = job.size
  /\ mem' = IF job.frees THEN [mem EXCEPT ![job.array] = <<>>] ELSE mem
  /\ job' = NoJob
  /\ UNCHANGED <<len, items>>

Destroy(a) ==
  /\ job = NoJob /\ ~Unused(a)
  /\ items' = [items EXCEPT ![a] = <<>>]
  /\ job' = [op |-> "resize", array |-> a, size |-> 0, frees |-> TRUE]
  /\ UNCHANGED <<mem, len>>

\* DynamicArray (rhs), InitTag and back_inserter; an assignment is this, a swap
\* and the destruction of what a held before.
Copy(a, b) ==
  /\ job = NoJob /\ Unused(a) /\ len[b] > 0
  /\ mem' = [mem EXCEPT ![a] = RawMemory(len[b])]
  /\ items' = [items EXCEPT ![a] = items[b]]
  /\ job' = [op |-> "push", array |-> a, values |-> FirstCells(b)]
  /\ UNCHANGED len

\* swap; with an unused array it is also the move constructor.
Swap(a, b) ==
  /\ job = NoJob /\ a # b
  /\ mem' = [mem EXCEPT ![a] = mem[b], ![b] = mem[a]]
  /\ len' = [len EXCEPT ![a] = len[b], ![b] = len[a]]
  /\ items' = [items EXCEPT ![a] = items[b], ![b] = items[a]]
  /\ UNCHANGED job

ArrayNext ==
  \/ MoveNext \/ MoveDone \/ PushGrow \/ PushPlace
  \/ ShiftNext \/ ShiftDone \/ ResizeNext \/ ResizeDone
  \/ \E a \in Arrays :
       \/ \E v \in Values : PushBack(a, v)
       \/ \E i \in 1..MaxLen : Erase(a, i)
       \/ \E n \in 0..MaxLen : Reserve(a, n) \/ Resize(a, n)
       \/ PopBack(a) \/ Destroy(a)
       \/ \E b \in Arrays : Copy(a, b) \/ Swap(a, b)

ArraySpec == ArrayInit /\ [][ArrayNext]_arrayVars
-----------------------------------------------------------------------------
\* An operation on array a is under way.
Working(a) == job # NoJob /\ job.array = a

ArrayTypeOK ==
  /\ \A a \in Arrays :
       /\ mem[a] \in Seq(Values \cup {Raw, Moved})
       /\ len[a] \in 0..Capacity(a) /\ items[a] \in Seq(Values)

(* Whatever was appended, taken away, erased, copied, moved, swapped and       *)
(* reallocated before: an array holds the elements its user put into it, in   *)
(* their order, each of them still with its value, and no object is left in   *)
(* the cells behind them, where a destructor would never reach it.            *)
ElementsAreItems ==
  /\ ArrayTypeOK
  /\ \A a \in Arrays : ~Working(a) =>
    /\ FirstCells(a) = items[a]
    /\ \A i \in (len[a] + 1)..Capacity(a) : mem[a][i] = Raw
=============================================================================
