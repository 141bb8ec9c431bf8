------------------------------ MODULE HashTable -----------------------------
(* The hash containers (hash_container_base.h, hash_table.h, hash_set.h over  *)
(* flist.h) in the use that is hardest on them: Database::tables, the         *)
(* catalogue in which the threads of the connections look tables up, while    *)
(* ADD TABLE, without a lock, adds to it. A cell is a pointer "next": the     *)
(* head of a bucket, <<generation, bucket>>, or a node, <<key>>. A generation *)
(* is one array of buckets; rehash makes the next one.                        *)
(*                                                                            *)
(* Two additions at a time, and a look-up during a rehash, are data races.    *)
(* After the first the model goes no further (raced); a look-up that meets    *)
(* the second may find anything (torn).                                       *)
EXTENDS Naturals, FiniteSets, FiniteSetsExt

CONSTANTS
  Keys, Hash,       \* the names of tables, and their hash values
  MinBuckets,       \* minBucketsCnt: 5
  MaxInBucket,      \* maxCntElemsInBucket: 5
  Threads,
  MaxGeneration     \* how many arrays of buckets the keys can need

VARIABLES
  next,             \* the pointer in every cell
  generation,       \* which array of buckets is in use; 0: none yet
  size,             \* size_
  thread,           \* what each thread does
  present,          \* the keys that were added and not erased
  raced             \* two additions have overlapped

tableVars == <<next, generation, size, thread, present, raced>>

Null == <<>>
IdleThread == [op |-> "idle"]

\* buckets.resize (buckets.size() * 1.5)
BucketsCnt[g \in 1..MaxGeneration] ==
  IF g = 1 THEN MinBuckets ELSE (3 * BucketsCnt[g - 1]) \div 2

Buckets(g) == 0..(BucketsCnt[g] - 1)
Heads == UNION {{<<g, b>> : b \in Buckets(g)} : g \in 1..MaxGeneration}
TableNodes == {<<k>> : k \in Keys}
KeyOf(node) == node[1]

\* find_bucket (key) -> prev_begin()
Head(g, k) == <<g, Hash[k] % BucketsCnt[g]>>

Looking(t) == thread[t].op \in {"look", "compare"}
Adding(t) == thread[t].op \notin {"idle", "look", "compare", "answered"}
Rehashing == \E t \in Threads : thread[t].op = "rehash"

TableInit ==
  /\ next = [c \in Heads \cup TableNodes |-> Null]
  /\ generation = 0 /\ size = 0 /\ present = {}
  /\ thread = [t \in Threads |-> IdleThread]
  /\ raced = FALSE
-----------------------------------------------------------------------------
Goes(t, to) == thread' = [thread EXCEPT ![t] = to]

\* A look-up under way no longer knows what it reads.
TornBut(t) ==
  [u \in Threads |-> IF u # t /\ Looking(u) THEN [thread[u] EXCEPT !.torn = TRUE]
                     ELSE thread[u]]

\* has_table: find, which without buckets finds nothing, and a comparison. "met"
\* says that a node was added where the search had ended, before the comparison.
Look(t, k) ==
  /\ thread[t].op = "idle"
  /\ Goes(t, [op |-> "look", key |-> k, torn |-> Rehashing, had |-> k \in present, met |-> FALSE,
              at |-> IF generation = 0 THEN Null ELSE Head(generation, k)])
  /\ UNCHANGED <<next, generation, size, present, raced>>

Answered(t, found) ==
  Goes(t, [op |-> "answered", key |-> thread[t].key, torn |-> thread[t].torn,
           had |-> thread[t].had, met |-> thread[t].met, found |-> found])

\* find_prev_if: on to the cell in front of the node that has the key.
Behind(c) == IF c = Null THEN Null ELSE next[c]
AtResult(t) == Behind(thread[t].at) \in {Null, <<thread[t].key>>}
Found(t) == Behind(thread[t].at) # Null

LookNext(t) ==
  /\ thread[t].op = "look"
  /\ IF thread[t].torn THEN \E found \in BOOLEAN : Answered(t, found)
     ELSE IF AtResult(t) THEN Goes(t, [thread[t] EXCEPT !.op = "compare"])
     ELSE Goes(t, [thread[t] EXCEPT !.at = next[@]])
  /\ UNCHANGED <<next, generation, size, present, raced>>

\* != end () reads the cell once more, and no key.
LookCompare(t) ==
  /\ thread[t].op = "compare"
  /\ IF thread[t].torn THEN \E found \in BOOLEAN : Answered(t, found) ELSE Answered(t, Found(t))
  /\ UNCHANGED <<next, generation, size, present, raced>>

Return(t) ==
  /\ thread[t].op = "answered"
  /\ Goes(t, IdleThread)
  /\ UNCHANGED <<next, generation, size, present, raced>>

\* emplace_add
Add(t, k) ==
  /\ thread[t].op = "idle"
  /\ raced' = \E u \in Threads : Adding(u)
  /\ Goes(t, [op |-> "add", key |-> k,
              at |-> IF generation = 0 THEN Null ELSE Head(generation, k)])
  /\ UNCHANGED <<next, generation, size, present>>

AddWalk(t) ==
  /\ thread[t].op \in {"add", "refind"} /\ ~AtResult(t)
  /\ Goes(t, [thread[t] EXCEPT !.at = next[@]])
  /\ UNCHANGED <<next, generation, size, present, raced>>

AddFound(t) ==
  /\ thread[t].op = "add" /\ AtResult(t) /\ Found(t)
  /\ Goes(t, IdleThread)
  /\ UNCHANGED <<next, generation, size, present, raced>>

Full == size > BucketsCnt[generation] * MaxInBucket

\* rehash_before_add, the first buckets.
FirstBuckets(t) ==
  /\ thread[t].op = "add" /\ generation = 0
  /\ generation' = 1
  /\ thread' = [TornBut(t) EXCEPT ![t] = [op |-> "refind", key |-> @.key, at |-> Head(1, @.key)]]
  /\ UNCHANGED <<next, size, present, raced>>

\* beg.validate(): on to the next bucket with nodes.
Validated(ptr, b, c) ==
  LET behind == {d \in Buckets(generation) : d > b /\ ptr[<<generation, d>>] # Null}
  IN IF ptr[c] # Null THEN [bucket |-> b, at |-> c]
     ELSE IF behind = {} THEN [bucket |-> BucketsCnt[generation], at |-> c]
     ELSE [bucket |-> Min(behind), at |-> <<generation, Min(behind)>>]

RehashStart(t) ==
  /\ thread[t].op = "add" /\ AtResult(t) /\ ~Found(t) /\ generation # 0 /\ Full
  /\ thread' = [TornBut(t) EXCEPT
                  ![t] = [op |-> "rehash", key |-> @.key, beg |-> Validated(next, 0, <<generation, 0>>)]]
  /\ UNCHANGED <<next, generation, size, present, raced>>

\* Mutation: push_front_node forgets the nodes that are in the new bucket already.
MutRehashMove(t) ==
  /\ thread[t].op = "rehash" /\ thread[t].beg.bucket # BucketsCnt[generation]
  /\ LET prev == thread[t].beg.at
         node == next[prev]
         head == Head(generation + 1, KeyOf(node))
     IN next' = [next EXCEPT ![prev] = next[node], ![node] = Null, ![head] = node]
  /\ Goes(t, [thread[t] EXCEPT !.beg = Validated(next', @.bucket, @.at)])
  /\ UNCHANGED <<generation, size, present, raced>>

RehashMove(t) ==
  /\ thread[t].op = "rehash" /\ thread[t].beg.bucket # BucketsCnt[generation]
  /\ LET prev == thread[t].beg.at
         node == next[prev]
         head == Head(generation + 1, KeyOf(node))
     IN next' = [next EXCEPT ![prev] = next[node], ![node] = next[head], ![head] = node]
  /\ Goes(t, [thread[t] EXCEPT !.beg = Validated(next', @.bucket, @.at)])
  /\ UNCHANGED <<generation, size, present, raced>>

\* Mutation: the place found before the rehash is used after it.
MutRehashSwap(t) ==
  /\ thread[t].op = "rehash" /\ thread[t].beg.bucket = BucketsCnt[generation]
  /\ generation' = generation + 1
  /\ Goes(t, [op |-> "refind", key |-> thread[t].key, at |-> Head(generation, thread[t].key)])
  /\ UNCHANGED <<next, size, present, raced>>

RehashSwap(t) ==
  /\ thread[t].op = "rehash" /\ thread[t].beg.bucket = BucketsCnt[generation]
  /\ generation' = generation + 1
  /\ Goes(t, [op |-> "refind", key |-> thread[t].key,
              at |-> Head(generation + 1, thread[t].key)])
  /\ UNCHANGED <<next, size, present, raced>>

\* The others that look up, once t has put a node behind prev.
MetBut(t, prev) ==
  [u \in Threads |-> IF u # t /\ thread[u].op = "compare" /\ thread[u].at = prev
                     THEN [thread[u] EXCEPT !.met = TRUE] ELSE thread[u]]

\* emplace_after, insert_after_node: the new node becomes visible with one store.
Emplace(t) ==
  /\ thread[t].op \in {"add", "refind"} /\ AtResult(t) /\ ~Found(t) /\ generation # 0
  /\ thread[t].op = "add" => ~Full
  /\ LET prev == thread[t].at  node == <<thread[t].key>>
     IN /\ next' = [next EXCEPT ![node] = next[prev], ![prev] = node]
        /\ thread' = [MetBut(t, prev) EXCEPT ![t] = [op |-> "count"]]
  /\ present' = present \cup {thread[t].key}
  /\ UNCHANGED <<generation, size, raced>>

Count(t) ==
  /\ thread[t].op = "count"
  /\ size' = size + 1
  /\ Goes(t, IdleThread)
  /\ UNCHANGED <<next, generation, present, raced>>

\* erase, which only the sets of names inside one request call: find,
\* erase_after, --size_.
Erase(k) ==
  /\ \A t \in Threads : thread[t] = IdleThread
  /\ k \in present
  /\ LET prev == CHOOSE c \in Heads \cup TableNodes : next[c] = <<k>>
     IN next' = [next EXCEPT ![prev] = next[<<k>>], ![<<k>>] = Null]
  /\ size' = size - 1
  /\ present' = present \ {k}
  /\ UNCHANGED <<generation, thread, raced>>

HashThread(t) ==
  \/ \E k \in Keys : Look(t, k) \/ Add(t, k)
  \/ LookNext(t) \/ LookCompare(t) \/ Return(t) \/ AddWalk(t) \/ AddFound(t)
  \/ FirstBuckets(t) \/ RehashStart(t) \/ RehashMove(t) \/ RehashSwap(t)
  \/ Emplace(t) \/ Count(t)

HashNext ==
  /\ ~raced
  /\ (\E t \in Threads : HashThread(t)) \/ (\E k \in Keys : Erase(k))
-----------------------------------------------------------------------------
(* Of the look-ups that meet no rehash, has_table refuses none whose table was *)
(* there when it began, although tables are added while it walks; and it      *)
(* takes one that is not there for a table in one case only: another table    *)
(* was added to the same place between the end of its search and its          *)
(* comparison with end().                                                     *)
LookupsRight ==
  \A t \in Threads :
    (thread[t].op = "answered" /\ ~thread[t].torn) =>
      /\ thread[t].had => thread[t].found
      /\ thread[t].found => thread[t].key \in present \/ thread[t].met

\* The cells behind a head, as far as there are nodes.
Chain(head) ==
  LET at[i \in 0..(Cardinality(Keys) + 1)] == IF i = 0 THEN head ELSE Behind(at[i - 1])
  IN [i \in 1..(Cardinality(Keys) + 1) |-> at[i]]

HashTypeOK ==
  /\ generation \in 0..MaxGeneration /\ size \in 0..Cardinality(Keys)
  /\ present \subseteq Keys
  /\ \A c \in Heads \cup TableNodes : next[c] \in TableNodes \cup {Null}

(* When nobody adds, every key that was added is in the bucket in which it    *)
(* will be looked for, once, whether it came there by emplace or by a rehash; *)
(* size_ counts them, and no bucket holds anything else.                      *)
TableIsWhole ==
  /\ HashTypeOK
  /\ (~raced /\ \A t \in Threads : ~Adding(t)) =>
       /\ size = Cardinality(present)
       /\ generation = 0 => present = {}
       /\ \A b \in (IF generation = 0 THEN {} ELSE Buckets(generation)) :
            LET chain == Chain(<<generation, b>>)
                nodes == {i \in DOMAIN chain : chain[i] # Null}
                here == {k \in present : Head(generation, k) = <<generation, b>>}
            IN /\ Cardinality(nodes) = Cardinality(here)
               /\ {chain[i] : i \in nodes} = {<<k>> : k \in here}
=============================================================================
