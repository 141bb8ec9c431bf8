---------------------------- MODULE ContainersProofs ----------------------------
(* Proofs about the containers, for every set of places, nodes and values: the *)
(* rings of the lists, the memory of the arrays, the copies of trees, the      *)
(* catalogue in a hash table. Each has an inductive invariant of its own, and  *)
(* no step of one container touches another.                                   *)
EXTENDS MCContainers, FiniteSetTheorems, SequenceTheorems, WellFoundedInduction, TLAPS


-----------------------------------------------------------------------------
(* The ghost sequences                                                        *)

\* A node put into a sequence moves what is behind it by one.
LEMMA InsertedIsSeq ==
  ASSUME NEW s \in Seq(Nodes), NEW i \in 1..(Len(s) + 1), NEW n \in Nodes
  PROVE  /\ Inserted(s, i, n) \in Seq(Nodes)
         /\ Len(Inserted(s, i, n)) = Len(s) + 1
         /\ \A j \in 1..(Len(s) + 1) :
              /\ j < i => Inserted(s, i, n)[j] = s[j]
              /\ j = i => Inserted(s, i, n)[j] = n
              /\ j > i => Inserted(s, i, n)[j] = s[j - 1]
<1> DEFINE f == Inserted(s, i, n)
<1>1. Len(s) \in Nat OBVIOUS
<1>2. \A j \in 1..(Len(s) + 1) : (IF j < i THEN s[j] ELSE IF j = i THEN n ELSE s[j - 1]) \in Nodes
  BY <1>1
<1>3. f \in [1..(Len(s) + 1) -> Nodes] BY <1>2 DEF Inserted
<1>4. f \in Seq(Nodes) /\ Len(f) = Len(s) + 1 BY <1>1, <1>3
<1> QED BY <1>4 DEF Inserted

\* A node taken out of a sequence moves what is behind it back.
LEMMA RemovedIsSeq ==
  ASSUME NEW s \in Seq(Nodes), NEW i \in 1..Len(s)
  PROVE  /\ Removed(s, i) \in Seq(Nodes)
         /\ Len(Removed(s, i)) = Len(s) - 1
         /\ \A j \in 1..(Len(s) - 1) : Removed(s, i)[j] = IF j < i THEN s[j] ELSE s[j + 1]
<1> DEFINE f == Removed(s, i)
<1>1. Len(s) \in Nat /\ Len(s) - 1 \in Nat OBVIOUS
<1>2. \A j \in 1..(Len(s) - 1) : (IF j < i THEN s[j] ELSE s[j + 1]) \in Nodes
  BY <1>1
<1>3. f \in [1..(Len(s) - 1) -> Nodes] BY <1>2 DEF Removed
<1>4. f \in Seq(Nodes) /\ Len(f) = Len(s) - 1 BY <1>1, <1>3
<1> QED BY <1>4 DEF Removed

-----------------------------------------------------------------------------
(* The cells of the rings                                                     *)

\* The sizes of the contents are numbers, and their nodes are nodes.
LEMMA CellTypes ==
  ASSUME ListTypeOK, NEW l \in Lists
  PROVE  /\ Size(l) \in Nat /\ content[l] \in Seq(Nodes)
         /\ \A i \in 1..Size(l) : content[l][i] \in Nodes /\ content[l][i] \notin Lists
         /\ \A i : At(l, i) \in Cells
BY ListAssumption DEF ListTypeOK, Size, At, Cells

\* No cell is met twice, neither in one ring nor in two: from the endHead on
\* forwards, and from it on backwards.
LEMMA CellsApart ==
  ASSUME ListInv, NEW l \in built, NEW r \in built
  PROVE  /\ \A i \in 0..Size(l), j \in 0..Size(r) : At(l, i) = At(r, j) => l = r /\ i = j
         /\ \A i \in 1..(Size(l) + 1), j \in 1..(Size(r) + 1) :
              At(l, i) = At(r, j) => l = r /\ i = j
<1>1. l \in Lists /\ r \in Lists /\ ListTypeOK BY DEF ListInv, ListTypeOK
<1>2. /\ Size(l) \in Nat /\ Size(r) \in Nat
      /\ \A i \in 1..Size(l) : content[l][i] \notin Lists
      /\ \A i \in 1..Size(r) : content[r][i] \notin Lists
  BY <1>1, CellTypes
<1>3. \A i \in 1..Size(l), j \in 1..Size(r) : content[l][i] = content[r][j] => l = r /\ i = j
  BY DEF ListInv, NodesOwnedOnce
<1> QED BY <1>1, <1>2, <1>3 DEF At

-----------------------------------------------------------------------------
(* The operations                                                             *)

\* A new node comes between the cell before the iterator and the iterator's.
LEMMA EmplaceKeeps ==
  ASSUME ListInv, NEW l \in Lists, NEW i \in 1..(Size(l) + 1), NEW n \in Nodes,
         Emplace(l, i, n)
  PROVE  ListInv'
<1> USE DEF ListInv
<1> DEFINE c == At(l, i)
           p == prev[c]
<1>1. l \in built /\ ~Taken(n) /\ Idle BY DEF Emplace
<1>2. Size(l) \in Nat /\ content[l] \in Seq(Nodes) /\ i - 1 \in 0..Size(l)
  BY CellTypes
<1>3. p = At(l, i - 1) /\ p \in Cells /\ c \in Cells /\ n \in Cells
  BY <1>1, <1>2, CellTypes DEF RingIsContent, Cells
<1>4. /\ next' = [next EXCEPT ![n] = c, ![p] = n]
      /\ prev' = [prev EXCEPT ![n] = p, ![c] = n]
      /\ size' = [size EXCEPT ![l] = @ + 1]
      /\ content' = [content EXCEPT ![l] = Inserted(content[l], i, n)]
      /\ built' = built /\ loop' = loop
  BY DEF Emplace
<1>5. /\ content'[l] \in Seq(Nodes) /\ Size(l)' = Size(l) + 1
      /\ \A j \in 1..(Size(l) + 1) :
           /\ j < i => content'[l][j] = content[l][j]
           /\ j = i => content'[l][j] = n
           /\ j > i => content'[l][j] = content[l][j - 1]
      /\ \A r \in Lists \ {l} : content'[r] = content[r] /\ Size(r)' = Size(r)
  <2>1. content'[l] = Inserted(content[l], i, n) /\ \A r \in Lists \ {l} : content'[r] = content[r]
    BY <1>4 DEF ListTypeOK
  <2>2. i \in 1..(Len(content[l]) + 1) BY DEF Size
  <2>3. /\ Inserted(content[l], i, n) \in Seq(Nodes)
        /\ Len(Inserted(content[l], i, n)) = Len(content[l]) + 1
        /\ \A j \in 1..(Len(content[l]) + 1) :
             /\ j < i => Inserted(content[l], i, n)[j] = content[l][j]
             /\ j = i => Inserted(content[l], i, n)[j] = n
             /\ j > i => Inserted(content[l], i, n)[j] = content[l][j - 1]
    <3> DEFINE s == content[l]
    <3>1. s \in Seq(Nodes) /\ i \in 1..(Len(s) + 1) BY <1>2, <2>2
    <3> HIDE DEF s
    <3>2. Inserted(s, i, n) \in Seq(Nodes) BY <3>1, InsertedIsSeq
    <3>3. Len(Inserted(s, i, n)) = Len(s) + 1 BY <3>1, InsertedIsSeq
    <3>4. \A j \in 1..(Len(s) + 1) :
            /\ j < i => Inserted(s, i, n)[j] = s[j]
            /\ j = i => Inserted(s, i, n)[j] = n
            /\ j > i => Inserted(s, i, n)[j] = s[j - 1]
      BY <3>1, InsertedIsSeq
    <3> QED BY <3>2, <3>3, <3>4 DEF s
  <2> QED BY <2>1, <2>3 DEF Size
<1>6. ListTypeOK'
  <2>1. next' \in [Cells -> Cells] /\ prev' \in [Cells -> Cells]
    BY <1>3, <1>4 DEF ListTypeOK
  <2>2. size' \in [Lists -> Nat] BY <1>4 DEF ListTypeOK
  <2>3. content' = [content EXCEPT ![l] = content'[l]] BY <1>4 DEF ListTypeOK
  <2>4. content' \in [Lists -> Seq(Nodes)] BY <2>3, <1>5 DEF ListTypeOK
  <2> QED BY <2>1, <2>2, <2>4, <1>1, <1>4 DEF ListTypeOK, Idle, NoLoop
<1>7. \A r \in built : \A j \in 0..(Size(r) + 1) : At(r, j) # n
  BY <1>1, ListAssumption, CellTypes DEF Taken, At, ListTypeOK
<1>8. \A j \in 0..(Size(l) + 2) :
        At(l, j)' = IF j < i THEN At(l, j) ELSE IF j = i THEN n ELSE At(l, j - 1)
  BY <1>2, <1>5 DEF At
<1>9. RingIsContent'
  <2> SUFFICES ASSUME NEW r \in built
               PROVE  /\ size'[r] = Size(r)'
                      /\ \A j \in 0..Size(r)' :
                           next'[At(r, j)'] = At(r, j + 1)' /\ prev'[At(r, j + 1)'] = At(r, j)'
    BY <1>4 DEF RingIsContent
  <2>0. r \in Lists /\ Size(r) \in Nat BY CellTypes DEF ListTypeOK
  <2>1. size'[r] = Size(r)' BY <1>4, <1>5, <2>0 DEF RingIsContent, ListTypeOK
  <2>2. CASE r # l
    <3>1. \A j : At(r, j)' = At(r, j) BY <2>0, <2>2, <1>5 DEF At
    <3>2. \A j \in 0..Size(r) : At(r, j) # p /\ At(r, j) # n
      BY <1>1, <1>2, <1>3, <1>7, <2>0, <2>2, CellsApart
    <3>3. \A j \in 0..Size(r) : At(r, j + 1) # c /\ At(r, j + 1) # n
      BY <1>1, <1>2, <1>7, <2>0, <2>2, CellsApart
    <3>4. \A j \in 0..Size(r) : next'[At(r, j)] = next[At(r, j)]
      BY <3>2, <1>3, <1>4, <2>0, CellTypes DEF ListTypeOK
    <3>5. \A j \in 0..Size(r) : prev'[At(r, j + 1)] = prev[At(r, j + 1)]
      BY <3>3, <1>3, <1>4, <2>0, CellTypes DEF ListTypeOK
    <3> QED BY <2>0, <2>1, <2>2, <3>1, <3>4, <3>5, <1>5 DEF RingIsContent
  <2>3. CASE r = l
    <3> SUFFICES ASSUME NEW j \in 0..(Size(l) + 1)
                 PROVE  next'[At(l, j)'] = At(l, j + 1)' /\ prev'[At(l, j + 1)'] = At(l, j)'
      BY <2>1, <2>3, <1>5
    <3>0. /\ next'[n] = c /\ next'[p] = n /\ prev'[n] = p /\ prev'[c] = n
          /\ \A d \in Cells \ {n, p} : next'[d] = next[d]
          /\ \A d \in Cells \ {n, c} : prev'[d] = prev[d]
      <4>1. p # n /\ c # n BY <1>1, <1>2, <1>3, <1>7
      <4> QED BY <1>3, <1>4, <4>1 DEF ListTypeOK
    <3>1. CASE j < i - 1
      <4>1. At(l, j)' = At(l, j) /\ At(l, j + 1)' = At(l, j + 1) BY <3>1, <1>2, <1>8
      <4>2. At(l, j) \notin {n, p} /\ At(l, j + 1) \notin {n, c}
        BY <3>1, <1>1, <1>2, <1>3, <1>7, CellsApart
      <4> QED BY <4>1, <4>2, <3>0, <3>1, <1>1, <1>2, CellTypes DEF RingIsContent
    <3>2. CASE j = i - 1
      BY <3>2, <3>0, <1>2, <1>3, <1>8
    <3>3. CASE j = i
      BY <3>3, <3>0, <1>2, <1>8
    <3>4. CASE j > i
      <4>1. At(l, j)' = At(l, j - 1) /\ At(l, j + 1)' = At(l, j) BY <3>4, <1>2, <1>8
      <4>2. At(l, j - 1) \notin {n, p} /\ At(l, j) \notin {n, c}
        BY <3>4, <1>1, <1>2, <1>3, <1>7, CellsApart
      <4>3. next[At(l, j - 1)] = At(l, j) /\ prev[At(l, j)] = At(l, j - 1)
        BY <3>4, <1>1, <1>2 DEF RingIsContent
      <4> QED BY <4>1, <4>2, <4>3, <3>0, CellTypes
    <3> QED BY <3>1, <3>2, <3>3, <3>4, <1>2
  <2> QED BY <2>2, <2>3
<1>10. NodesOwnedOnce'
  <2>1. \A r \in built : \A k \in 1..Size(r) : content[r][k] # n
    BY <1>1 DEF Taken
  <2>2. \A r \in built : r \in Lists /\ Size(r) \in Nat BY CellTypes DEF ListTypeOK
  <2>3. \A r, q \in built : \A j \in 1..Size(r)', k \in 1..Size(q)' :
          content'[r][j] = content'[q][k] => r = q /\ j = k
    <3> SUFFICES ASSUME NEW r \in built, NEW q \in built,
                        NEW j \in 1..Size(r)', NEW k \in 1..Size(q)',
                        content'[r][j] = content'[q][k]
                 PROVE  r = q /\ j = k
      OBVIOUS
    <3> DEFINE Was(u, m) == IF u = l /\ m > i THEN m - 1 ELSE m
    <3>0. j \in Nat /\ k \in Nat BY <1>2, <1>5, <2>2
    <3>w. ASSUME NEW u \in built, NEW m \in 1..Size(u)'
          PROVE  \/ u = l /\ m = i
                 \/ Was(u, m) \in 1..Size(u) /\ content'[u][m] = content[u][Was(u, m)]
      <4>1. u \in Lists /\ Size(u) \in Nat /\ i \in Nat /\ m \in Nat BY <1>2, <1>5, <2>2
      <4>2. CASE u # l
        BY <4>1, <4>2, <1>5
      <4>3. CASE u = l /\ m < i
        <5>1. Was(u, m) = m /\ m \in 1..Size(l) BY <4>1, <4>3, <1>2
        <5> QED BY <5>1, <4>3, <1>5
      <4>4. CASE u = l /\ m > i
        <5>1. Was(u, m) = m - 1 /\ m - 1 \in 1..Size(l) /\ m \in 1..(Size(l) + 1)
          BY <4>1, <4>4, <1>2, <1>5
        <5> QED BY <5>1, <4>4, <1>5
      <4> QED BY <4>1, <4>2, <4>3, <4>4
    <3>1. (r = l /\ j = i) \/ (Was(r, j) \in 1..Size(r) /\ content'[r][j] = content[r][Was(r, j)])
      BY <3>w
    <3>2. (q = l /\ k = i) \/ (Was(q, k) \in 1..Size(q) /\ content'[q][k] = content[q][Was(q, k)])
      BY <3>w
    <3>3. content'[l][i] = n BY <1>2, <1>5
    <3> HIDE DEF Was
    <3>4. CASE (r = l /\ j = i) \/ (q = l /\ k = i)
      BY <3>1, <3>2, <3>3, <3>4, <2>1
    <3>5. CASE ~(r = l /\ j = i) /\ ~(q = l /\ k = i)
      <4>1. r = q /\ Was(r, j) = Was(q, k) BY <3>1, <3>2, <3>5 DEF NodesOwnedOnce
      <4> QED BY <4>1, <3>0, <3>5, <1>2 DEF Was
    <3> QED BY <3>4, <3>5
  <2> QED BY <2>3, <1>1, <1>4, <1>5 DEF NodesOwnedOnce
<1>11. LoopInv' BY <1>1, <1>4 DEF LoopInv, Idle
<1> QED BY <1>6, <1>9, <1>10, <1>11

\* A node that is unlinked leaves its neighbours pointing to each other. The
\* part of LoopInv is left to the two operations that unlink.
LEMMA UnlinkKeeps ==
  ASSUME ListInv, NEW l \in built, NEW i \in 1..Size(l), Unlink(l, i), built' = built
  PROVE  /\ RingIsContent' /\ NodesOwnedOnce'
         /\ next' \in [Cells -> Cells] /\ prev' \in [Cells -> Cells]
         /\ size' \in [Lists -> Nat] /\ content' \in [Lists -> Seq(Nodes)]
         /\ next[content[l][i]] = At(l, i + 1)
         /\ \A j \in 0..Size(l) : At(l, j)' = IF j < i THEN At(l, j) ELSE At(l, j + 1)
<1> USE DEF ListInv
<1> DEFINE c == content[l][i]
           p == At(l, i - 1)
           q == At(l, i + 1)
<1>1. l \in Lists /\ Size(l) \in Nat /\ content[l] \in Seq(Nodes) /\ size[l] = Size(l)
  BY CellTypes DEF ListTypeOK, RingIsContent
<1>2. c = At(l, i) /\ c \in Nodes /\ c \in Cells /\ p \in Cells /\ q \in Cells
  BY <1>1, CellTypes DEF At, Cells
<1>3. prev[c] = p /\ next[c] = q
  <2>1. i - 1 \in 0..Size(l) /\ i \in 0..Size(l) /\ (i - 1) + 1 = i BY <1>1
  <2> QED BY <2>1, <1>2 DEF RingIsContent
<1>4. /\ next' = [next EXCEPT ![p] = q]
      /\ prev' = [prev EXCEPT ![q] = p]
      /\ size' = [size EXCEPT ![l] = @ - 1]
      /\ content' = [content EXCEPT ![l] = Removed(content[l], i)]
  BY <1>3 DEF Unlink
<1>5. /\ content'[l] \in Seq(Nodes) /\ Size(l)' = Size(l) - 1
      /\ \A j \in 1..(Size(l) - 1) :
           content'[l][j] = IF j < i THEN content[l][j] ELSE content[l][j + 1]
      /\ \A r \in Lists \ {l} : content'[r] = content[r] /\ Size(r)' = Size(r)
  <2>1. content'[l] = Removed(content[l], i) /\ \A r \in Lists \ {l} : content'[r] = content[r]
    BY <1>1, <1>4 DEF ListTypeOK
  <2>2. i \in 1..Len(content[l]) BY DEF Size
  <2> QED BY <2>1, <2>2, <1>1, RemovedIsSeq DEF Size
<1>6. /\ next' \in [Cells -> Cells] /\ prev' \in [Cells -> Cells]
      /\ size' \in [Lists -> Nat] /\ content' \in [Lists -> Seq(Nodes)]
  <2>1. next' \in [Cells -> Cells] /\ prev' \in [Cells -> Cells]
    BY <1>2, <1>4 DEF ListTypeOK
  <2>2. size[l] - 1 \in Nat BY <1>1
  <2>3. size' \in [Lists -> Nat] BY <2>2, <1>4 DEF ListTypeOK
  <2>4. content' = [content EXCEPT ![l] = content'[l]] BY <1>1, <1>4 DEF ListTypeOK
  <2>5. content' \in [Lists -> Seq(Nodes)] BY <2>4, <1>5 DEF ListTypeOK
  <2> QED BY <2>1, <2>3, <2>5
<1>7. \A j \in 0..Size(l) : At(l, j)' = IF j < i THEN At(l, j) ELSE At(l, j + 1)
  BY <1>1, <1>5 DEF At
<1>8. RingIsContent'
  <2> SUFFICES ASSUME NEW r \in built
               PROVE  /\ size'[r] = Size(r)'
                      /\ \A j \in 0..Size(r)' :
                           next'[At(r, j)'] = At(r, j + 1)' /\ prev'[At(r, j + 1)'] = At(r, j)'
    BY DEF RingIsContent
  <2>0. r \in Lists /\ Size(r) \in Nat BY CellTypes DEF ListTypeOK
  <2>1. size'[r] = Size(r)' BY <1>1, <1>4, <1>5, <2>0 DEF RingIsContent, ListTypeOK
  <2>2. CASE r # l
    <3>1. \A j : At(r, j)' = At(r, j) BY <2>0, <2>2, <1>5 DEF At
    <3>2. \A j \in 0..Size(r) : At(r, j) # p
      BY <1>1, <2>0, <2>2, CellsApart
    <3>3. \A j \in 0..Size(r) : At(r, j + 1) # q
      BY <1>1, <2>0, <2>2, CellsApart
    <3>4. \A j \in 0..Size(r) : next'[At(r, j)] = next[At(r, j)]
      BY <3>2, <1>2, <1>4, <2>0, CellTypes DEF ListTypeOK
    <3>5. \A j \in 0..Size(r) : prev'[At(r, j + 1)] = prev[At(r, j + 1)]
      BY <3>3, <1>2, <1>4, <2>0, CellTypes DEF ListTypeOK
    <3> QED BY <2>0, <2>1, <2>2, <3>1, <3>4, <3>5, <1>5 DEF RingIsContent
  <2>3. CASE r = l
    <3> SUFFICES ASSUME NEW j \in 0..(Size(l) - 1)
                 PROVE  next'[At(l, j)'] = At(l, j + 1)' /\ prev'[At(l, j + 1)'] = At(l, j)'
      BY <2>1, <2>3, <1>5
    <3>0. /\ next'[p] = q /\ prev'[q] = p
          /\ \A d \in Cells \ {p} : next'[d] = next[d]
          /\ \A d \in Cells \ {q} : prev'[d] = prev[d]
      BY <1>2, <1>4 DEF ListTypeOK
    <3>1. CASE j < i - 1
      <4>1. At(l, j)' = At(l, j) /\ At(l, j + 1)' = At(l, j + 1) BY <3>1, <1>1, <1>7
      <4>2. At(l, j) # p /\ At(l, j + 1) # q
        BY <3>1, <1>1, CellsApart
      <4> QED BY <4>1, <4>2, <3>0, <3>1, <1>1, CellTypes DEF RingIsContent
    <3>2. CASE j = i - 1
      BY <3>2, <3>0, <1>1, <1>7
    <3>3. CASE j > i - 1
      <4>1. At(l, j)' = At(l, j + 1) /\ At(l, j + 1)' = At(l, (j + 1) + 1) BY <3>3, <1>1, <1>7
      <4>2. At(l, j + 1) # p /\ At(l, (j + 1) + 1) # q
        BY <3>3, <1>1, CellsApart
      <4>3. next[At(l, j + 1)] = At(l, (j + 1) + 1) /\ prev[At(l, (j + 1) + 1)] = At(l, j + 1)
        BY <1>1 DEF RingIsContent
      <4> QED BY <4>1, <4>2, <4>3, <3>0, <1>1, CellTypes
    <3> QED BY <3>1, <3>2, <3>3, <1>1
  <2> QED BY <2>2, <2>3
<1>9. NodesOwnedOnce'
  <2>1. \A r \in built : r \in Lists /\ Size(r) \in Nat BY CellTypes DEF ListTypeOK
  <2>2. \A r, t \in built : \A j \in 1..Size(r)', k \in 1..Size(t)' :
          content'[r][j] = content'[t][k] => r = t /\ j = k
    <3> SUFFICES ASSUME NEW r \in built, NEW t \in built,
                        NEW j \in 1..Size(r)', NEW k \in 1..Size(t)',
                        content'[r][j] = content'[t][k]
                 PROVE  r = t /\ j = k
      OBVIOUS
    <3> DEFINE Was(u, m) == IF u = l /\ m >= i THEN m + 1 ELSE m
    <3>1. Was(r, j) \in 1..Size(r) /\ content'[r][j] = content[r][Was(r, j)]
      BY <1>1, <1>5, <2>1
    <3>2. Was(t, k) \in 1..Size(t) /\ content'[t][k] = content[t][Was(t, k)]
      BY <1>1, <1>5, <2>1
    <3>4. j \in Nat /\ k \in Nat BY <1>1, <1>5, <2>1
    <3> HIDE DEF Was
    <3>5. content[r][Was(r, j)] = content[t][Was(t, k)] BY <3>1, <3>2
    <3>3. r = t /\ Was(r, j) = Was(t, k) BY <3>1, <3>2, <3>5 DEF NodesOwnedOnce
    <3> QED BY <3>3, <3>4, <1>1 DEF Was
  <2> QED BY <2>2, <1>1, <1>5 DEF NodesOwnedOnce
<1> QED BY <1>2, <1>3, <1>6, <1>7, <1>8, <1>9

\* A list that takes another one's nodes over binds them to its own endHead.
LEMMA MoveConstructKeeps ==
  ASSUME ListInv, NEW l \in Lists, NEW r \in Lists, MoveConstruct(l, r)
  PROVE  ListInv'
<1> USE DEF ListInv
<1>1. l \notin built /\ r \in built /\ l # r /\ Idle /\ built' = built \cup {l} /\ loop' = loop
  BY DEF MoveConstruct
<1>2. Size(r) \in Nat /\ Size(l) = 0 /\ content[r] \in Seq(Nodes) /\ size[r] = Size(r)
  BY <1>1, CellTypes DEF NodesOwnedOnce, RingIsContent
<1>3. /\ content' \in [Lists -> Seq(Nodes)] /\ size' \in [Lists -> Nat]
      /\ content'[l] = content[r] /\ content'[r] = <<>>
      /\ Size(l)' = Size(r) /\ Size(r)' = 0
      /\ size'[l] = Size(r) /\ size'[r] = 0
      /\ \A t \in Lists \ {l, r} :
           content'[t] = content[t] /\ Size(t)' = Size(t) /\ size'[t] = size[t]
  <2>1. /\ content' = [content EXCEPT ![l] = content[r], ![r] = <<>>]
        /\ size' = [size EXCEPT ![l] = size[r], ![r] = 0]
    BY DEF MoveConstruct
  <2>2. <<>> \in Seq(Nodes) /\ Len(<<>>) = 0 OBVIOUS
  <2>3. /\ content' \in [Lists -> Seq(Nodes)]
        /\ content'[l] = content[r] /\ content'[r] = <<>>
        /\ \A t \in Lists \ {l, r} : content'[t] = content[t]
    BY <1>1, <1>2, <2>1, <2>2 DEF ListTypeOK
  <2>4. /\ size' \in [Lists -> Nat] /\ size'[l] = Size(r) /\ size'[r] = 0
        /\ \A t \in Lists \ {l, r} : size'[t] = size[t]
    BY <1>1, <1>2, <2>1 DEF ListTypeOK
  <2> QED BY <2>2, <2>3, <2>4 DEF Size
<1>4. /\ next' = TakenOver(next, prev, l, r) /\ prev' = TakenOver(prev, next, l, r)
      /\ l \in Cells /\ r \in Cells
  BY DEF MoveConstruct, Cells
<1>5. next' \in [Cells -> Cells] /\ prev' \in [Cells -> Cells]
  BY <1>4 DEF TakenOver, ListTypeOK
<1>6. next[r] = At(r, 1) /\ prev[r] = At(r, Size(r))
  <2>1. At(r, 0) = r /\ At(r, Size(r) + 1) = r BY <1>2 DEF At
  <2> QED BY <2>1, <1>1, <1>2 DEF RingIsContent
<1>7. RingIsContent'
  <2> SUFFICES ASSUME NEW t \in built \cup {l}
               PROVE  /\ size'[t] = Size(t)'
                      /\ \A j \in 0..Size(t)' :
                           next'[At(t, j)'] = At(t, j + 1)' /\ prev'[At(t, j + 1)'] = At(t, j)'
    BY <1>1 DEF RingIsContent
  <2>0. t \in Lists BY DEF ListTypeOK
  <2>1. size'[t] = Size(t)' BY <1>3, <2>0 DEF RingIsContent
  <2>2. CASE t = r
    <3>1. \A j : At(r, j)' = r BY <1>3 DEF At
    <3>2. next'[r] = r /\ prev'[r] = r BY <1>4 DEF TakenOver
    <3> QED BY <2>1, <2>2, <3>1, <3>2, <1>3
  <2>3. CASE t = l
    <3>1. \A j : At(l, j)' = IF j \in 1..Size(r) THEN At(r, j) ELSE l BY <1>3 DEF At
    <3>2. CASE Size(r) = 0
      BY <2>1, <2>3, <3>1, <3>2, <1>1, <1>2, <1>3, <1>4 DEF TakenOver
    <3>3. CASE Size(r) # 0
      <4> SUFFICES ASSUME NEW j \in 0..Size(r)
                   PROVE  next'[At(l, j)'] = At(l, j + 1)' /\ prev'[At(l, j + 1)'] = At(l, j)'
        BY <2>1, <2>3, <1>3
      <4>1. \A k \in 1..Size(r) : At(r, k) \in Cells /\ At(r, k) # r /\ At(r, k) # l
        BY <1>1, <1>2, CellTypes DEF At
      <4>2. /\ next'[l] = At(r, 1) /\ prev'[l] = At(r, Size(r))
            /\ next'[At(r, Size(r))] = l /\ prev'[At(r, 1)] = l
        BY <3>3, <1>1, <1>2, <1>4, <1>6, <4>1 DEF TakenOver
      <4>3. CASE j = 0 BY <4>2, <4>3, <3>1, <3>3, <1>2
      <4>4. CASE j = Size(r) BY <4>2, <4>4, <3>1, <3>3, <1>2
      <4>5. CASE j \in 1..(Size(r) - 1)
        <5>1. At(l, j)' = At(r, j) /\ At(l, j + 1)' = At(r, j + 1) BY <4>5, <3>1, <1>2
        <5>2. At(r, j) # prev[r] /\ At(r, j + 1) # next[r]
          BY <4>5, <1>1, <1>2, <1>6, CellsApart
        <5>3. next'[At(r, j)] = next[At(r, j)] /\ prev'[At(r, j + 1)] = prev[At(r, j + 1)]
          BY <5>2, <4>1, <4>5, <1>2, <1>4 DEF TakenOver
        <5> QED BY <5>1, <5>3, <4>5, <1>1, <1>2 DEF RingIsContent
      <4> QED BY <4>3, <4>4, <4>5, <1>2
    <3> QED BY <3>2, <3>3
  <2>4. CASE t \notin {l, r}
    <3>0. t \in built /\ Size(t) \in Nat BY <2>0, <2>4, CellTypes
    <3>1. \A j : At(t, j)' = At(t, j) BY <2>0, <2>4, <1>3 DEF At
    <3>2. \A j \in 0..(Size(t) + 1) : At(t, j) \in Cells /\ At(t, j) \notin {l, r}
      BY <2>0, <2>4, <1>1, CellTypes DEF At
    <3>3. \A j \in 0..Size(t) : \/ Size(r) = 0
                                \/ At(t, j) # prev[r] /\ At(t, j + 1) # next[r]
      BY <2>4, <3>0, <1>1, <1>2, <1>6, CellsApart
    <3>4. \A j \in 0..Size(t) : /\ next'[At(t, j)] = next[At(t, j)]
                                /\ prev'[At(t, j + 1)] = prev[At(t, j + 1)]
      BY <3>0, <3>2, <3>3, <1>2, <1>4 DEF TakenOver
    <3>5. Size(t)' = Size(t) BY <1>3, <2>0, <2>4
    <3>6. \A j \in 0..Size(t) : next[At(t, j)] = At(t, j + 1) /\ prev[At(t, j + 1)] = At(t, j)
      BY <3>0 DEF RingIsContent
    <3>7. \A j \in 0..Size(t) : next'[At(t, j)] = At(t, j + 1) /\ prev'[At(t, j + 1)] = At(t, j)
      BY <3>4, <3>6
    <3> QED BY <2>1, <3>1, <3>5, <3>7
  <2> QED BY <2>2, <2>3, <2>4
<1>8. NodesOwnedOnce'
  <2>1. \A s, t \in built \cup {l} : \A j \in 1..Size(s)', k \in 1..Size(t)' :
          content'[s][j] = content'[t][k] => s = t /\ j = k
    <3> SUFFICES ASSUME NEW s \in built \cup {l}, NEW t \in built \cup {l},
                        NEW j \in 1..Size(s)', NEW k \in 1..Size(t)',
                        content'[s][j] = content'[t][k]
                 PROVE  s = t /\ j = k
      OBVIOUS
    <3> DEFINE Was(u) == IF u = l THEN r ELSE u
    <3>1. s \in Lists /\ t \in Lists BY DEF ListTypeOK
    <3>2. s # r /\ t # r BY <1>3
    <3>3. \A u \in {s, t} : content'[u] = content[Was(u)] /\ Size(u)' = Size(Was(u))
      BY <1>3, <3>1, <3>2
    <3>4. Was(s) \in built /\ Was(t) \in built BY <1>1, <3>1
    <3>5. j \in 1..Size(Was(s)) /\ k \in 1..Size(Was(t))
          /\ content[Was(s)][j] = content[Was(t)][k]
      BY <3>3
    <3>6. Was(s) = Was(t) /\ j = k BY <3>4, <3>5 DEF NodesOwnedOnce
    <3> QED BY <3>2, <3>6
  <2> QED BY <2>1, <1>1, <1>3 DEF NodesOwnedOnce
<1>9. LoopInv' /\ ListTypeOK'
  BY <1>1, <1>3, <1>5 DEF LoopInv, ListTypeOK, Idle, NoLoop
<1> QED BY <1>7, <1>8, <1>9

\* Two lists that exchange their nodes each bind what they got.
LEMMA SwapKeeps ==
  ASSUME ListInv, NEW l \in Lists, NEW r \in Lists, Swap(l, r)
  PROVE  ListInv'
<1> USE DEF ListInv
<1>1. l \in built /\ r \in built /\ l # r /\ Idle /\ built' = built /\ loop' = loop
  BY DEF Swap
<1> DEFINE Other(t) == IF t = l THEN r ELSE IF t = r THEN l ELSE t
<1>2. \A t \in built : /\ t \in Lists /\ Size(t) \in Nat /\ size[t] = Size(t)
                       /\ content[t] \in Seq(Nodes)
  BY CellTypes DEF RingIsContent, ListTypeOK
<1>3. /\ content' \in [Lists -> Seq(Nodes)] /\ size' \in [Lists -> Nat]
      /\ \A t \in Lists : /\ content'[t] = content[Other(t)] /\ Size(t)' = Size(Other(t))
                          /\ size'[t] = size[Other(t)]
  <2>1. /\ content' = [content EXCEPT ![l] = content[r], ![r] = content[l]]
        /\ size' = [size EXCEPT ![l] = size[r], ![r] = size[l]]
    BY DEF Swap
  <2>2. content' \in [Lists -> Seq(Nodes)] /\ \A t \in Lists : content'[t] = content[Other(t)]
    BY <1>1, <2>1 DEF ListTypeOK
  <2>3. size' \in [Lists -> Nat] /\ \A t \in Lists : size'[t] = size[Other(t)]
    BY <1>1, <2>1 DEF ListTypeOK
  <2> QED BY <2>2, <2>3 DEF Size
<1>4. /\ next' = Exchanged(next, prev, l, r) /\ prev' = Exchanged(prev, next, l, r)
      /\ l \in Cells /\ r \in Cells
  BY DEF Swap, Cells
<1>5. next' \in [Cells -> Cells] /\ prev' \in [Cells -> Cells]
  BY <1>4 DEF Exchanged, ListTypeOK
<1>6. \A t \in built : next[t] = At(t, 1) /\ prev[t] = At(t, Size(t))
  <2> SUFFICES ASSUME NEW t \in built PROVE next[t] = At(t, 1) /\ prev[t] = At(t, Size(t))
    OBVIOUS
  <2>1. At(t, 0) = t /\ At(t, Size(t) + 1) = t BY <1>2 DEF At
  <2> QED BY <2>1, <1>2 DEF RingIsContent
<1>7. \A t \in built : \A j \in 1..Size(t) : At(t, j) \in Cells /\ At(t, j) \notin Lists
  BY <1>2, CellTypes DEF At
<1>8. RingIsContent'
  <2> SUFFICES ASSUME NEW t \in built
               PROVE  /\ size'[t] = Size(t)'
                      /\ \A j \in 0..Size(t)' :
                           next'[At(t, j)'] = At(t, j + 1)' /\ prev'[At(t, j + 1)'] = At(t, j)'
    BY <1>1 DEF RingIsContent
  <2> DEFINE o == Other(t)
  <2>0. t \in Lists /\ o \in built /\ o \in Lists /\ Size(o) \in Nat BY <1>1, <1>2
  <2>1. size'[t] = Size(t)' /\ Size(t)' = Size(o) BY <1>2, <1>3, <2>0
  <2>2. \A j : At(t, j)' = IF j \in 1..Size(o) THEN At(o, j) ELSE t
    BY <1>3, <2>0, <2>1 DEF At
  <2>3. CASE t \in {l, r}
    <3>1. CASE Size(o) = 0
      <4>1. next'[t] = t /\ prev'[t] = t
        BY <2>3, <3>1, <1>1, <1>2, <1>4 DEF Exchanged
      <4> QED BY <2>1, <2>2, <3>1, <4>1
    <3>2. CASE Size(o) # 0
      <4> SUFFICES ASSUME NEW j \in 0..Size(o)
                   PROVE  next'[At(t, j)'] = At(t, j + 1)' /\ prev'[At(t, j + 1)'] = At(t, j)'
        BY <2>1
      <4>0. size[o] # 0 /\ t \in Cells BY <3>2, <2>0, <1>2 DEF Cells
      <4>1. \A p \in built \ {o} : size[p] # 0 =>
              /\ \A k \in 1..Size(o) : At(o, k) # prev[p] /\ At(o, k) # next[p]
        <5> SUFFICES ASSUME NEW p \in built \ {o}, size[p] # 0, NEW k \in 1..Size(o)
                     PROVE  At(o, k) # prev[p] /\ At(o, k) # next[p]
          OBVIOUS
        <5>1. Size(p) \in 1..Size(p) /\ 1 \in 1..Size(p) /\ Size(p) \in Nat BY <1>2
        <5>2. At(o, k) # At(p, Size(p)) BY <5>1, <2>0, CellsApart
        <5>3. At(o, k) # At(p, 1) BY <5>1, <2>0, CellsApart
        <5> QED BY <5>2, <5>3, <1>6
      <4>2. /\ next'[t] = At(o, 1) /\ prev'[t] = At(o, Size(o))
        BY <2>3, <3>2, <4>0, <1>1, <1>4, <1>6, <2>0 DEF Exchanged
      <4>3. /\ next'[At(o, Size(o))] = t /\ prev'[At(o, 1)] = t
        <5>1. Size(o) \in 1..Size(o) /\ 1 \in 1..Size(o) BY <3>2, <2>0
        <5>2. /\ At(o, Size(o)) \in Cells /\ At(o, Size(o)) \notin Lists
              /\ At(o, 1) \in Cells /\ At(o, 1) \notin Lists
          BY <5>1, <2>0, <1>7
        <5>3. At(o, Size(o)) = prev[o] /\ At(o, 1) = next[o] BY <2>0, <1>6
        <5>4. \A p \in built \ {o} : size[p] # 0 => At(o, Size(o)) # prev[p] /\ At(o, 1) # next[p]
          BY <4>1, <5>1
        <5>5. CASE t = l
          <6>1. o = r BY <5>5
          <6> QED BY <5>2, <5>3, <5>5, <6>1, <4>0, <1>4 DEF Exchanged
        <5>6. CASE t = r
          <6>1. o = l BY <5>6, <1>1
          <6> QED BY <5>2, <5>3, <5>4, <5>6, <6>1, <4>0, <1>1, <1>4 DEF Exchanged
        <5> QED BY <5>5, <5>6, <2>3
      <4>4. CASE j = 0 BY <4>2, <4>3, <4>4, <2>2, <3>2, <2>0
      <4>5. CASE j = Size(o) BY <4>2, <4>3, <4>5, <2>2, <3>2, <2>0
      <4>6. CASE j \in 1..(Size(o) - 1)
        <5>1. At(t, j)' = At(o, j) /\ At(t, j + 1)' = At(o, j + 1) BY <4>6, <2>2, <2>0
        <5>2. At(o, j) # prev[o] /\ At(o, j + 1) # next[o]
          BY <4>6, <1>6, <2>0, CellsApart
        <5>3. j \in 1..Size(o) /\ j + 1 \in 1..Size(o) BY <4>6, <2>0
        <5>4. \A p \in built : size[p] # 0 => At(o, j) # prev[p] /\ At(o, j + 1) # next[p]
          BY <5>2, <5>3, <4>1
        <5>5. /\ At(o, j) \in Cells /\ At(o, j) \notin Lists
              /\ At(o, j + 1) \in Cells /\ At(o, j + 1) \notin Lists
          BY <5>3, <2>0, <1>7
        <5>6. next'[At(o, j)] = next[At(o, j)] /\ prev'[At(o, j + 1)] = prev[At(o, j + 1)]
          BY <5>4, <5>5, <1>1, <1>4 DEF Exchanged
        <5> QED BY <5>1, <5>6, <5>3, <2>0 DEF RingIsContent
      <4> QED BY <4>4, <4>5, <4>6, <2>0
    <3> QED BY <3>1, <3>2
  <2>4. CASE t \notin {l, r}
    <3>0. o = t BY <2>4
    <3>1. \A j : At(t, j)' = At(t, j) BY <2>2, <3>0 DEF At
    <3>2. \A j \in 0..(Size(t) + 1) : At(t, j) \in Cells /\ At(t, j) \notin {l, r}
      BY <2>0, <2>4, <3>0, CellTypes DEF At
    <3>3. \A p \in {l, r} : size[p] # 0 =>
            \A j \in 0..Size(t) : At(t, j) # prev[p] /\ At(t, j + 1) # next[p]
      <4> SUFFICES ASSUME NEW p \in {l, r}, size[p] # 0, NEW j \in 0..Size(t)
                   PROVE  At(t, j) # prev[p] /\ At(t, j + 1) # next[p]
        OBVIOUS
      <4>1. p \in built /\ p # t /\ Size(p) \in Nat /\ Size(p) # 0 BY <1>1, <1>2, <2>4
      <4>2. Size(p) \in 0..Size(p) /\ 1 \in 1..(Size(p) + 1) /\ j + 1 \in 1..(Size(t) + 1)
        BY <4>1, <2>0, <3>0
      <4>3. At(t, j) # At(p, Size(p)) BY <4>1, <4>2, CellsApart
      <4>4. At(t, j + 1) # At(p, 1) BY <4>1, <4>2, CellsApart
      <4> QED BY <4>1, <4>3, <4>4, <1>6
    <3>4. \A j \in 0..Size(t) : /\ next'[At(t, j)] = next[At(t, j)]
                                /\ prev'[At(t, j + 1)] = prev[At(t, j + 1)]
      <4> SUFFICES ASSUME NEW j \in 0..Size(t)
                   PROVE  /\ next'[At(t, j)] = next[At(t, j)]
                          /\ prev'[At(t, j + 1)] = prev[At(t, j + 1)]
        OBVIOUS
      <4>1. j \in 0..(Size(t) + 1) /\ j + 1 \in 0..(Size(t) + 1) BY <2>0, <3>0
      <4>2. /\ At(t, j) \in Cells /\ At(t, j) \notin {l, r}
            /\ At(t, j + 1) \in Cells /\ At(t, j + 1) \notin {l, r}
        BY <3>2, <4>1
      <4>3. \A p \in {l, r} : size[p] # 0 => At(t, j) # prev[p] /\ At(t, j + 1) # next[p]
        BY <3>3
      <4> QED BY <4>2, <4>3, <1>4 DEF Exchanged
    <3> QED BY <2>1, <3>0, <3>1, <3>4 DEF RingIsContent
  <2> QED BY <2>3, <2>4
<1>9. NodesOwnedOnce'
  <2>1. \A s, t \in built : \A j \in 1..Size(s)', k \in 1..Size(t)' :
          content'[s][j] = content'[t][k] => s = t /\ j = k
    <3> SUFFICES ASSUME NEW s \in built, NEW t \in built,
                        NEW j \in 1..Size(s)', NEW k \in 1..Size(t)',
                        content'[s][j] = content'[t][k]
                 PROVE  s = t /\ j = k
      OBVIOUS
    <3>1. Other(s) \in built /\ Other(t) \in built /\ s \in Lists /\ t \in Lists
      BY <1>1, <1>2
    <3>2. j \in 1..Size(Other(s)) /\ k \in 1..Size(Other(t))
          /\ content[Other(s)][j] = content[Other(t)][k]
      BY <1>3, <3>1
    <3>3. Other(s) = Other(t) /\ j = k BY <3>1, <3>2 DEF NodesOwnedOnce
    <3> QED BY <3>3
  <2>2. \A t \in Lists \ built : Size(t)' = 0 BY <1>1, <1>3 DEF NodesOwnedOnce
  <2> QED BY <2>1, <2>2, <1>1 DEF NodesOwnedOnce
<1>10. LoopInv' /\ ListTypeOK'
  BY <1>1, <1>3, <1>5 DEF LoopInv, ListTypeOK, Idle, NoLoop
<1> QED BY <1>8, <1>9, <1>10

\* A new list is a ring of its endHead alone.
LEMMA ConstructKeeps ==
  ASSUME ListInv, NEW l \in Lists, Construct(l)
  PROVE  ListInv'
<1> USE DEF ListInv
<1>1. l \notin built /\ Idle /\ built' = built \cup {l} /\ loop' = loop /\ l \in Cells
  BY DEF Construct, Cells
<1>2. <<>> \in Seq(Nodes) /\ Len(<<>>) = 0 OBVIOUS
<1>3. /\ next' = [next EXCEPT ![l] = l] /\ prev' = [prev EXCEPT ![l] = l]
      /\ size' = [size EXCEPT ![l] = 0] /\ content' = [content EXCEPT ![l] = <<>>]
  BY DEF Construct
<1>4. /\ next' \in [Cells -> Cells] /\ prev' \in [Cells -> Cells]
      /\ size' \in [Lists -> Nat] /\ content' \in [Lists -> Seq(Nodes)]
  BY <1>1, <1>2, <1>3 DEF ListTypeOK
<1>5. /\ content'[l] = <<>> /\ Size(l)' = 0 /\ size'[l] = 0
      /\ \A t \in Lists \ {l} :
           content'[t] = content[t] /\ Size(t)' = Size(t) /\ size'[t] = size[t]
  BY <1>2, <1>3 DEF ListTypeOK, Size
<1>6. RingIsContent'
  <2> SUFFICES ASSUME NEW t \in built \cup {l}
               PROVE  /\ size'[t] = Size(t)'
                      /\ \A j \in 0..Size(t)' :
                           next'[At(t, j)'] = At(t, j + 1)' /\ prev'[At(t, j + 1)'] = At(t, j)'
    BY <1>1 DEF RingIsContent
  <2>0. t \in Lists BY DEF ListTypeOK
  <2>1. size'[t] = Size(t)' BY <1>5, <2>0 DEF RingIsContent
  <2>2. CASE t = l
    <3>1. \A j : At(l, j)' = l BY <1>5 DEF At
    <3>2. next'[l] = l /\ prev'[l] = l BY <1>1, <1>3 DEF ListTypeOK
    <3> QED BY <2>1, <2>2, <3>1, <3>2
  <2>3. CASE t # l
    <3>1. \A j : At(t, j)' = At(t, j) BY <2>0, <2>3, <1>5 DEF At
    <3>2. \A j \in 0..(Size(t) + 1) : At(t, j) \in Cells \ {l}
      BY <2>0, <2>3, CellTypes DEF At
    <3>3. Size(t) \in Nat BY <2>0, CellTypes
    <3>4. \A j \in 0..Size(t) : /\ next'[At(t, j)] = next[At(t, j)]
                                /\ prev'[At(t, j + 1)] = prev[At(t, j + 1)]
      BY <3>2, <3>3, <1>3 DEF ListTypeOK
    <3> QED BY <2>0, <2>1, <2>3, <3>1, <3>4, <1>5 DEF RingIsContent
  <2> QED BY <2>2, <2>3
<1>7. NodesOwnedOnce'
  <2>1. \A s, t \in built \cup {l} : \A j \in 1..Size(s)', k \in 1..Size(t)' :
          content'[s][j] = content'[t][k] => s = t /\ j = k
    BY <1>5 DEF NodesOwnedOnce, ListTypeOK
  <2> QED BY <2>1, <1>1, <1>5 DEF NodesOwnedOnce
<1>8. LoopInv' /\ ListTypeOK'
  BY <1>1, <1>4 DEF LoopInv, ListTypeOK, Idle, NoLoop
<1> QED BY <1>6, <1>7, <1>8

\* Beginning to erase a range changes no list.
LEMMA LoopStartKeeps ==
  ASSUME ListInv, NEW l \in Lists,
         Destroy(l) \/ \E i, j \in 1..(Size(l) + 1) : EraseRange(l, i, j)
  PROVE  ListInv'
<1> USE DEF ListInv
<1>1. l \in built /\ UNCHANGED <<next, prev, size, content, built>>
  BY DEF Destroy, EraseRange
<1>2. RingIsContent' /\ NodesOwnedOnce' BY <1>1 DEF RingIsContent, NodesOwnedOnce, At, Size
<1>3. next[l] = At(l, 1)
  <2>1. Size(l) \in Nat /\ At(l, 0) = l BY CellTypes DEF At
  <2> QED BY <1>1, <2>1 DEF RingIsContent
<1>4. At(l, 1)' = At(l, 1) BY <1>1 DEF At, Size
<1>5. CASE Destroy(l)
  <2>1. loop' = [list |-> l, at |-> At(l, 1), stop |-> l, last |-> TRUE]
    BY <1>3, <1>5 DEF Destroy
  <2>2. l \in Cells /\ At(l, 1) \in Cells BY CellTypes DEF Cells
  <2>3. LoopInv' BY <1>1, <1>4, <2>1 DEF LoopInv
  <2>4. ListTypeOK' BY <1>1, <2>1, <2>2 DEF ListTypeOK
  <2> QED BY <1>2, <2>3, <2>4
<1>6. CASE \E i, j \in 1..(Size(l) + 1) : EraseRange(l, i, j)
  <2>1. PICK i, j \in 1..(Size(l) + 1) : EraseRange(l, i, j) BY <1>6
  <2>2. loop' = [list |-> l, at |-> At(l, i), stop |-> At(l, j), last |-> FALSE]
    BY <2>1 DEF EraseRange
  <2>3. At(l, i) \in Cells /\ At(l, j) \in Cells BY CellTypes
  <2>4. LoopInv' BY <1>1, <2>2 DEF LoopInv
  <2>5. ListTypeOK' BY <1>1, <2>2, <2>3 DEF ListTypeOK
  <2> QED BY <1>2, <2>4, <2>5
<1> QED BY <1>5, <1>6

\* A node erased inside the range: the destructor's next one is the first again.
LEMMA EraseNextKeeps ==
  ASSUME ListInv, NEW i \in 1..Size(loop.list), ~Idle, EraseNext(i)
  PROVE  ListInv'
<1> USE DEF ListInv
<1> DEFINE l == loop.list
<1>1. l \in built /\ l \in Lists /\ Size(l) \in Nat BY CellTypes DEF LoopInv, ListTypeOK
<1>2. /\ Unlink(l, i) /\ built' = built /\ content[l][i] = loop.at
      /\ loop' = [loop EXCEPT !.at = next[loop.at]] /\ loop.at # loop.stop
  BY DEF EraseNext
<1>3. /\ RingIsContent' /\ NodesOwnedOnce'
      /\ next' \in [Cells -> Cells] /\ prev' \in [Cells -> Cells]
      /\ size' \in [Lists -> Nat] /\ content' \in [Lists -> Seq(Nodes)]
      /\ next[content[l][i]] = At(l, i + 1)
      /\ \A j \in 0..Size(l) : At(l, j)' = IF j < i THEN At(l, j) ELSE At(l, j + 1)
  BY <1>1, <1>2, UnlinkKeeps
<1>4. loop \in [list : Lists, at : Cells, stop : Cells, last : BOOLEAN]
  BY DEF ListTypeOK, Idle
<1>5. At(l, i + 1) \in Cells BY <1>1, CellTypes
<1>6. loop' = [list |-> l, at |-> At(l, i + 1), stop |-> loop.stop, last |-> loop.last]
  BY <1>2, <1>3, <1>4
<1>7. ListTypeOK' BY <1>2, <1>3, <1>4, <1>5, <1>6 DEF ListTypeOK
<1>8. LoopInv'
  <2> SUFFICES ASSUME loop.last PROVE loop.stop = l /\ At(l, i + 1) = At(l, 1)'
    BY <1>1, <1>2, <1>6 DEF LoopInv
  <2>1. loop.stop = l /\ content[l][i] = At(l, 1) BY <1>2 DEF LoopInv
  <2>2. 1 \in 1..(Size(l) + 1) /\ i \in 1..(Size(l) + 1) /\ At(l, i) = content[l][i] BY <1>1 DEF At
  <2>3. i = 1 BY <2>1, <2>2, <1>1, CellsApart
  <2>4. At(l, 1)' = At(l, 2) BY <2>3, <1>1, <1>3
  <2> QED BY <2>1, <2>3, <2>4
<1> QED BY <1>3, <1>7, <1>8

\* When the range is erased nothing else changes, and a list that is destroyed
\* has nothing left.
LEMMA EraseDoneKeeps ==
  ASSUME ListInv, EraseDone
  PROVE  ListInv'
<1> USE DEF ListInv
<1> DEFINE l == loop.list
<1>1. /\ ~Idle /\ loop.at = loop.stop /\ loop' = NoLoop
      /\ UNCHANGED <<next, prev, size, content>>
      /\ built' \subseteq built /\ built \ built' \subseteq {l}
      /\ ~loop.last => built' = built
  BY DEF EraseDone
<1>2. l \in built /\ l \in Lists /\ Size(l) \in Nat
  BY <1>1, CellTypes DEF LoopInv, ListTypeOK
<1>3. loop.last => Size(l) = 0
  <2> SUFFICES ASSUME loop.last, Size(l) # 0 PROVE FALSE OBVIOUS
  <2>1. At(l, 1) = l BY <1>1 DEF LoopInv
  <2>2. content[l][1] \notin Lists /\ At(l, 1) = content[l][1] BY <1>2, CellTypes DEF At
  <2> QED BY <2>1, <2>2, <1>2
<1>4. RingIsContent' BY <1>1 DEF RingIsContent, At, Size
<1>5. NodesOwnedOnce'
  <2>1. \A t \in Lists \ built' : Size(t) = 0 BY <1>1, <1>3 DEF NodesOwnedOnce
  <2> QED BY <2>1, <1>1 DEF NodesOwnedOnce, Size
<1>6. LoopInv' /\ ListTypeOK' BY <1>1 DEF LoopInv, ListTypeOK, Idle
<1> QED BY <1>4, <1>5, <1>6

-----------------------------------------------------------------------------
(* The theorems                                                               *)

\* Every list starts as nothing at all.
LEMMA ListInvInit == ListInit => ListInv
<1> SUFFICES ASSUME ListInit PROVE ListInv OBVIOUS
<1>1. <<>> \in Seq(Nodes) /\ Len(<<>>) = 0 OBVIOUS
<1>2. ListTypeOK BY <1>1 DEF ListInit, ListTypeOK, Cells
<1>3. RingIsContent BY DEF ListInit, RingIsContent
<1>4. NodesOwnedOnce BY <1>1 DEF ListInit, NodesOwnedOnce, Size
<1>5. LoopInv BY DEF ListInit, LoopInv, Idle
<1> QED BY <1>2, <1>3, <1>4, <1>5 DEF ListInv

\* One step of any operation.
LEMMA ListInvNext == ListInv /\ [ListNext]_listVars => ListInv'
<1> SUFFICES ASSUME ListInv, [ListNext]_listVars PROVE ListInv' OBVIOUS
<1>1. ASSUME NEW l \in Lists, Construct(l) PROVE ListInv' BY <1>1, ConstructKeeps
<1>2. ASSUME NEW l \in Lists, Destroy(l) PROVE ListInv' BY <1>2, LoopStartKeeps
<1>3. ASSUME NEW l \in Lists, NEW r \in Lists, MoveConstruct(l, r) PROVE ListInv'
  BY <1>3, MoveConstructKeeps
<1>4. ASSUME NEW l \in Lists, NEW r \in Lists, Swap(l, r) PROVE ListInv'
  BY <1>4, SwapKeeps
<1>5. ASSUME NEW l \in Lists, NEW i \in 1..(Size(l) + 1), NEW n \in Nodes, Emplace(l, i, n)
      PROVE  ListInv'
  BY <1>5, EmplaceKeeps
<1>6. ASSUME NEW l \in Lists, NEW i, Erase(l, i) PROVE ListInv'
  <2>1. /\ l \in built /\ i \in 1..Size(l) /\ Unlink(l, i) /\ built' = built
        /\ Idle /\ loop' = loop
    BY <1>6 DEF Erase
  <2>2. /\ RingIsContent' /\ NodesOwnedOnce'
        /\ next' \in [Cells -> Cells] /\ prev' \in [Cells -> Cells]
        /\ size' \in [Lists -> Nat] /\ content' \in [Lists -> Seq(Nodes)]
    BY <2>1, UnlinkKeeps
  <2>3. ListTypeOK' /\ LoopInv'
    BY <2>1, <2>2 DEF ListInv, ListTypeOK, LoopInv, Idle, NoLoop
  <2> QED BY <2>2, <2>3 DEF ListInv
<1>7. ASSUME NEW l \in Lists, NEW i \in 1..(Size(l) + 1), NEW j \in 1..(Size(l) + 1),
             EraseRange(l, i, j)
      PROVE  ListInv'
  BY <1>7, LoopStartKeeps
<1>8. ASSUME ~Idle, NEW i \in 1..Size(loop.list), EraseNext(i) PROVE ListInv'
  BY <1>8, EraseNextKeeps
<1>9. CASE EraseDone BY <1>9, EraseDoneKeeps
<1>10. CASE UNCHANGED listVars
  BY <1>10 DEF listVars, ListInv, ListTypeOK, RingIsContent, NodesOwnedOnce, LoopInv, Idle,
     At, Size
<1> QED
  BY <1>1, <1>2, <1>3, <1>4, <1>5, <1>6, <1>7, <1>8, <1>9, <1>10 DEF ListNext

\* The invariant of the lists, for all sets of lists and nodes: list.h keeps its
\* rings, whatever sequence of its operations a program calls.
THEOREM ListInvariant == ListSpec => []ListInv
<1> QED BY ListInvInit, ListInvNext, PTL DEF ListSpec

\* Walking a list forwards or backwards meets exactly what was put into it, in
\* order: the rows that DELETE writes back behind its cursor are the loaded ones.
THEOREM ListsAreRings == ListSpec => []RingIsContent
<1>1. ListInv => RingIsContent BY DEF ListInv
<1> QED BY <1>1, ListInvariant, PTL

\* The variables of the lists keep their types.
THEOREM ListTypeCorrect == ListSpec => []ListTypeOK
<1>1. ListInv => ListTypeOK BY DEF ListInv
<1> QED BY <1>1, ListInvariant, PTL

-----------------------------------------------------------------------------
(* Arrays: what the memory of one holds while an operation runs.             *)

Cell  == Values \cup {Array!Raw, Array!Moved}
NoJob == Array!NoJob

\* The first cells hold the elements of s, the others no object.
Filled(m, s) ==
  Len(s) <= Len(m) /\ \A i \in 1..Len(m) : m[i] = IF i <= Len(s) THEN s[i] ELSE Array!Raw

Pushes(a)  == [op : {"push"}, array : {a}, values : Seq(Values) \ {<<>>}]
Resizes(a) == [op : {"resize"}, array : {a}, size : Nat, frees : BOOLEAN]
Shifts(a)  == [op : {"shift"}, array : {a}, to : Nat]
Moves(a)   == [op : {"move"}, array : {a}, tmp : Seq(Cell), moved : Nat,
               then : {NoJob} \cup Pushes(a) \cup Resizes(a)]
Jobs(a)    == {NoJob} \cup Pushes(a) \cup Resizes(a) \cup Shifts(a) \cup Moves(a)

\* Memory m with n objects of an array that is to hold its in the end: what is
\* there now, and what job j has still to bring or to take away.
Pushing(j, m, n, its) ==
  \E s \in Seq(Values) : Filled(m, s) /\ n = Len(s) /\ its = s \o j.values
Resizing(j, m, n, its) ==
  /\ Len(its) = j.size /\ j.size <= Len(m) /\ (j.frees => j.size = 0)
  /\ \A i \in 1..Len(m) : /\ i > n => m[i] = Array!Raw
                          /\ i <= n /\ i <= j.size => m[i] = its[i]
  /\ \A i \in 1..j.size : i > n => its[i] = Default
Shifting(j, m, n, its) ==
  /\ j.to \in 1..n /\ Len(its) = n - 1
  /\ \A i \in 1..Len(m) : /\ i < j.to => m[i] = its[i]
                          /\ i > j.to /\ i <= n => m[i] = its[i - 1]
                          /\ i > n => m[i] = Array!Raw
Going(j, m, n, its) ==
  \/ j = NoJob /\ Filled(m, its) /\ n = Len(its)
  \/ j.op = "push" /\ Pushing(j, m, n, its)
  \/ j.op = "resize" /\ Resizing(j, m, n, its)

\* The elements that were moved are in the new memory, the others in the old.
Halves(j, m, n) ==
  [i \in 1..Len(j.tmp) |->
     IF i <= j.moved THEN j.tmp[i] ELSE IF i <= n THEN m[i] ELSE Array!Raw]
Moving(j, m, n, its) ==
  /\ j.moved <= n /\ n <= Len(j.tmp)
  /\ \A i \in 1..Len(j.tmp) : i > j.moved => j.tmp[i] = Array!Raw
  /\ Going(j.then, Halves(j, m, n), n, its)

Holds(j, m, n, its) ==
  \/ Going(j, m, n, its)
  \/ j.op = "shift" /\ Shifting(j, m, n, its)
  \/ j.op = "move" /\ Moving(j, m, n, its)

ArrayInv ==
  /\ mem \in [Arrays -> Seq(Cell)] /\ len \in [Arrays -> Nat] /\ items \in [Arrays -> Seq(Values)]
  /\ \A a \in Arrays : len[a] <= Len(mem[a])
  /\ job = NoJob \/ \E a \in Arrays : job \in Jobs(a)
  /\ \A a \in Arrays : IF Array!Working(a) THEN Holds(job, mem[a], len[a], items[a])
                       ELSE Filled(mem[a], items[a]) /\ len[a] = Len(items[a])

\* The fields of the jobs.
LEMMA JobFields ==
  ASSUME NEW a, NEW j \in Jobs(a)
  PROVE  /\ j = NoJob <=> j.op = "none"
         /\ j.op \in {"none", "push", "resize", "shift", "move"}
         /\ j # NoJob => j.array = a
         /\ j.op = "push" => j \in Pushes(a) /\ j.values \in Seq(Values) /\ j.values # <<>>
         /\ j.op = "resize" => j \in Resizes(a) /\ j.size \in Nat /\ j.frees \in BOOLEAN
         /\ j.op = "shift" => j.to \in Nat
         /\ j.op = "move" => /\ j.tmp \in Seq(Cell) /\ j.moved \in Nat
                             /\ j.then \in {NoJob} \cup Pushes(a) \cup Resizes(a)
BY DEF Jobs, Pushes, Resizes, Shifts, Moves, NoJob, Array!NoJob

\* A step of one array's job, or the begin of one.
LEMMA ArrayStep ==
  ASSUME ArrayInv, NEW a \in Arrays, job = NoJob \/ job.array = a,
         NEW m \in Seq(Cell), NEW n \in Nat, n <= Len(m), NEW its \in Seq(Values),
         NEW j \in Jobs(a), Holds(j, m, n, its),
         mem' = [mem EXCEPT ![a] = m], len' = [len EXCEPT ![a] = n],
         items' = [items EXCEPT ![a] = its], job' = j
  PROVE  ArrayInv'
<1>1. /\ mem' \in [Arrays -> Seq(Cell)] /\ len' \in [Arrays -> Nat]
      /\ items' \in [Arrays -> Seq(Values)]
      /\ mem'[a] = m /\ len'[a] = n /\ items'[a] = its
      /\ \A b \in Arrays : b # a => mem'[b] = mem[b] /\ len'[b] = len[b] /\ items'[b] = items[b]
  BY DEF ArrayInv
<1>2. \A b \in Arrays : len'[b] <= Len(mem'[b])
  BY <1>1 DEF ArrayInv
<1>3. job' = NoJob \/ job'.array = a
  BY JobFields
<1>4. ASSUME NEW b \in Arrays, b # a
      PROVE  ~Array!Working(b) /\ ~Array!Working(b)'
  BY <1>3, <1>4 DEF Array!Working, NoJob
<1>5. ASSUME NEW b \in Arrays, b # a
      PROVE  Filled(mem'[b], items'[b]) /\ len'[b] = Len(items'[b])
  BY <1>1, <1>4, <1>5 DEF ArrayInv
<1>6. job' = NoJob => Filled(m, its) /\ n = Len(its)
  <2>1. NoJob.op = "none"
    BY DEF NoJob, Array!NoJob
  <2> QED
    BY <2>1 DEF Holds, Going
<1>7. IF Array!Working(a)' THEN Holds(job', mem'[a], len'[a], items'[a])
      ELSE Filled(mem'[a], items'[a]) /\ len'[a] = Len(items'[a])
  BY <1>1, <1>3, <1>6 DEF Array!Working, NoJob
<1>8. \A b \in Arrays : IF Array!Working(b)' THEN Holds(job', mem'[b], len'[b], items'[b])
                        ELSE Filled(mem'[b], items'[b]) /\ len'[b] = Len(items'[b])
  BY <1>4, <1>5, <1>7
<1> QED
  BY <1>1, <1>2, <1>8 DEF ArrayInv

\* The array that works, and what it holds.
LEMMA AtWork ==
  ASSUME ArrayInv, job # NoJob
  PROVE  \E a \in Arrays : /\ job.array = a /\ job \in Jobs(a) /\ mem[a] \in Seq(Cell)
                           /\ len[a] \in Nat /\ len[a] <= Len(mem[a]) /\ items[a] \in Seq(Values)
                           /\ Holds(job, mem[a], len[a], items[a])
<1>1. PICK a \in Arrays : job \in Jobs(a)
  BY DEF ArrayInv
<1>2. job.array = a
  BY <1>1, JobFields
<1>3. Array!Working(a)
  BY <1>2 DEF Array!Working, NoJob
<1> QED
  BY <1>1, <1>2, <1>3 DEF ArrayInv

\* An array at rest.
LEMMA AtRestArray ==
  ASSUME ArrayInv, job = NoJob, NEW a \in Arrays
  PROVE  /\ mem[a] \in Seq(Cell) /\ len[a] \in Nat /\ len[a] <= Len(mem[a])
         /\ items[a] \in Seq(Values) /\ Filled(mem[a], items[a]) /\ len[a] = Len(items[a])
BY DEF ArrayInv, Array!Working, NoJob

\* An element is put behind the others.
LEMMA FilledAppend ==
  ASSUME NEW m \in Seq(Cell), NEW s \in Seq(Values), Filled(m, s), NEW k, k = Len(s) + 1,
         k <= Len(m), NEW v \in Values
  PROVE  /\ [m EXCEPT ![k] = v] \in Seq(Cell) /\ Len([m EXCEPT ![k] = v]) = Len(m)
         /\ Append(s, v) \in Seq(Values) /\ Len(Append(s, v)) = k
         /\ Filled([m EXCEPT ![k] = v], Append(s, v))
<1> DEFINE w == [m EXCEPT ![k] = v]
           t == Append(s, v)
<1>1. v \in Cell /\ k \in Nat /\ Len(s) \in Nat /\ Len(m) \in Nat
  BY DEF Cell
<1>2. w \in Seq(Cell) /\ Len(w) = Len(m) /\ \A i \in 1..Len(m) : w[i] = IF i = k THEN v ELSE m[i]
  BY <1>1
<1>3. t \in Seq(Values) /\ Len(t) = k /\ \A i \in 1..k : t[i] = IF i = k THEN v ELSE s[i]
  OBVIOUS
<1> HIDE DEF w, t
<1>4. Filled(w, t)
  BY <1>1, <1>2, <1>3 DEF Filled
<1> QED
  BY <1>2, <1>3, <1>4 DEF w, t

\* The new memory of a reallocation, when all elements have been moved.
Larger(m, n, c) == [i \in 1..c |-> IF i <= n THEN m[i] ELSE Array!Raw]

\* It holds the objects, and no others.
LEMMA LargerMemory ==
  ASSUME NEW m \in Seq(Cell), NEW n \in Nat, n <= Len(m), NEW c \in Nat, n <= c
  PROVE  /\ Larger(m, n, c) \in Seq(Cell) /\ Len(Larger(m, n, c)) = c
         /\ \A i \in 1..c : Larger(m, n, c)[i] = IF i <= n THEN m[i] ELSE Array!Raw
<1>1. \A i \in 1..c : (IF i <= n THEN m[i] ELSE Array!Raw) \in Cell
  BY DEF Cell
<1>2. Larger(m, n, c) \in [1..c -> Cell]
  BY <1>1 DEF Larger
<1> QED
  BY <1>2 DEF Larger

\* A larger memory holds the same elements.
LEMMA FilledLarger ==
  ASSUME NEW m \in Seq(Cell), NEW s \in Seq(Values), Filled(m, s), NEW n, n = Len(s),
         NEW c \in Nat, n <= c
  PROVE  Filled(Larger(m, n, c), s)
<1>1. n \in Nat
  OBVIOUS
<1>2. n <= Len(m)
  BY DEF Filled
<1>3. Len(Larger(m, n, c)) = c
  BY <1>1, <1>2, LargerMemory
<1>4. \A i \in 1..c : Larger(m, n, c)[i] = IF i <= n THEN m[i] ELSE Array!Raw
  BY DEF Larger
<1> QED
  BY <1>1, <1>2, <1>3, <1>4 DEF Filled

\* A reallocation begins.
LEMMA Reallocates ==
  ASSUME ArrayInv, NEW a \in Arrays, job = NoJob \/ job.array = a,
         NEW n, n = len[a], NEW its \in Seq(Values), NEW c \in Nat, n <= c,
         NEW then \in {NoJob} \cup Pushes(a) \cup Resizes(a),
         Going(then, Larger(mem[a], n, c), n, its), Array!Reallocate(a, c, then),
         UNCHANGED <<mem, len>>, items' = [items EXCEPT ![a] = its]
  PROVE  ArrayInv'
<1> DEFINE m == mem[a]
           raw == Array!RawMemory(c)
           j == [op |-> "move", array |-> a, tmp |-> raw, moved |-> 0, then |-> then]
<1>1. m \in Seq(Cell) /\ n \in Nat /\ n <= Len(m) /\ job' = j
  BY DEF ArrayInv, Array!Reallocate
<1>2. raw \in Seq(Cell) /\ Len(raw) = c /\ \A i \in 1..c : raw[i] = Array!Raw
  <2>1. Array!Raw \in Cell
    BY DEF Cell
  <2>2. raw \in [1..c -> Cell]
    BY <2>1 DEF Array!RawMemory
  <2> QED
    BY <2>2 DEF Array!RawMemory
<1> HIDE DEF raw
<1>3. j \in Jobs(a)
  BY <1>2 DEF Jobs, Moves
<1>4. j.tmp = raw /\ j.moved = 0 /\ j.then = then /\ j.op = "move"
  OBVIOUS
<1> HIDE DEF j
<1>5. Halves(j, m, n) = Larger(m, n, c)
  <2>1. \A i \in 1..c : ~(i <= 0)
    OBVIOUS
  <2> QED
    BY <1>2, <1>4, <2>1 DEF Halves, Larger
<1>6. Moving(j, m, n, its)
  BY <1>1, <1>2, <1>4, <1>5 DEF Moving
<1>7. Holds(j, m, n, its)
  BY <1>4, <1>6 DEF Holds
<1>8. mem' = [mem EXCEPT ![a] = m] /\ len' = [len EXCEPT ![a] = n]
  BY DEF ArrayInv
<1> HIDE DEF m
<1> QED
  BY <1>1, <1>3, <1>7, <1>8, ArrayStep

\* The constructor that moves takes one element.
LEMMA MoveNextKeeps ==
  ASSUME ArrayInv, Array!MoveNext
  PROVE  ArrayInv'
<1>1. job.op = "move" /\ job # NoJob
  BY DEF Array!MoveNext, NoJob, Array!NoJob
<1>2. PICK a \in Arrays : /\ job.array = a /\ job \in Jobs(a) /\ mem[a] \in Seq(Cell)
                          /\ len[a] \in Nat /\ len[a] <= Len(mem[a]) /\ items[a] \in Seq(Values)
                          /\ Holds(job, mem[a], len[a], items[a])
  BY <1>1, AtWork
<1> DEFINE m == mem[a]
           n == len[a]
           its == items[a]
           i == job.moved + 1
           tmp == [job.tmp EXCEPT ![i] = m[i]]
           w == [m EXCEPT ![i] = Array!Moved]
           j == [job EXCEPT !.tmp = tmp, !.moved = i]
<1>3. /\ job.tmp \in Seq(Cell) /\ job.moved \in Nat
      /\ job.then \in {NoJob} \cup Pushes(a) \cup Resizes(a)
  BY <1>1, <1>2, JobFields
<1>4. Moving(job, m, n, its)
  BY <1>1, <1>2 DEF Holds, Going, NoJob, Array!NoJob
<1>5. /\ job.moved < n /\ job' = j /\ mem' = [mem EXCEPT ![a] = w]
      /\ UNCHANGED <<len, items>>
  <2>1. /\ job.moved < n /\ UNCHANGED <<len, items>>
        /\ mem' = [mem EXCEPT ![a] = w]
    BY <1>2 DEF Array!MoveNext, ArrayInv
  <2>2. job' = [job EXCEPT !.tmp[i] = m[i], !.moved = i]
    BY <1>2 DEF Array!MoveNext
  <2>3. job \in Moves(a)
    BY <1>1, <1>2, JobFields DEF Jobs, Pushes, Resizes, Shifts, NoJob, Array!NoJob
  <2> QED
    BY <2>1, <2>2, <2>3 DEF Moves
<1>6. /\ tmp \in Seq(Cell) /\ Len(tmp) = Len(job.tmp) /\ i \in 1..n /\ n <= Len(job.tmp)
      /\ \A k \in 1..Len(tmp) : tmp[k] = IF k = i THEN m[i] ELSE job.tmp[k]
  BY <1>2, <1>3, <1>4, <1>5 DEF Moving
<1>7. /\ w \in Seq(Cell) /\ Len(w) = Len(m)
      /\ \A k \in 1..Len(w) : k # i => w[k] = m[k]
  <2>1. Array!Moved \in Cell
    BY DEF Cell
  <2> QED
    BY <1>2, <1>6, <2>1
<1>8. j \in Jobs(a) /\ j.tmp = tmp /\ j.moved = i /\ j.then = job.then /\ j.op = "move"
  <2>1. job \in Moves(a)
    BY <1>1, <1>2, JobFields DEF Jobs, Pushes, Resizes, Shifts, NoJob, Array!NoJob
  <2> HIDE DEF tmp
  <2>2. i \in Nat
    BY <1>3
  <2> QED
    BY <1>6, <2>1, <2>2 DEF Jobs, Moves
<1> HIDE DEF j, tmp, w
<1>9. Halves(j, w, n) = Halves(job, m, n)
  <2>1. ASSUME NEW k \in 1..Len(tmp)
        PROVE  (IF k <= i THEN tmp[k] ELSE IF k <= n THEN w[k] ELSE Array!Raw)
                 = (IF k <= job.moved THEN job.tmp[k] ELSE IF k <= n THEN m[k] ELSE Array!Raw)
    BY <1>2, <1>3, <1>6, <1>7, <2>1
  <2> QED
    BY <1>6, <1>8, <2>1 DEF Halves
<1>10. Moving(j, w, n, its)
  <2>1. \A k \in 1..Len(tmp) : k > i => tmp[k] = Array!Raw
    BY <1>3, <1>4, <1>6 DEF Moving
  <2>2. Going(j.then, Halves(j, w, n), n, its)
    BY <1>4, <1>8, <1>9 DEF Moving
  <2> QED
    BY <1>6, <1>8, <2>1, <2>2 DEF Moving
<1>11. Holds(j, w, n, its)
  BY <1>8, <1>10 DEF Holds
<1>12. len' = [len EXCEPT ![a] = n] /\ items' = [items EXCEPT ![a] = its]
  BY <1>5 DEF ArrayInv
<1> HIDE DEF m, n, its
<1> QED
  BY <1>2, <1>5, <1>7, <1>8, <1>11, <1>12, ArrayStep DEF m, n, its

\* All elements have been moved: the old memory is given back.
LEMMA MoveDoneKeeps ==
  ASSUME ArrayInv, Array!MoveDone
  PROVE  ArrayInv'
<1>1. job.op = "move" /\ job # NoJob
  BY DEF Array!MoveDone, NoJob, Array!NoJob
<1>2. PICK a \in Arrays : /\ job.array = a /\ job \in Jobs(a) /\ mem[a] \in Seq(Cell)
                          /\ len[a] \in Nat /\ len[a] <= Len(mem[a]) /\ items[a] \in Seq(Values)
                          /\ Holds(job, mem[a], len[a], items[a])
  BY <1>1, AtWork
<1> DEFINE m == mem[a]
           n == len[a]
           its == items[a]
           j == job.then
<1>3. job.tmp \in Seq(Cell) /\ job.moved \in Nat /\ j \in {NoJob} \cup Pushes(a) \cup Resizes(a)
  BY <1>1, <1>2, JobFields
<1>4. Moving(job, m, n, its)
  BY <1>1, <1>2 DEF Holds, Going, NoJob, Array!NoJob
<1>5. /\ job.moved = n /\ job' = j /\ mem' = [mem EXCEPT ![a] = job.tmp]
      /\ len' = [len EXCEPT ![a] = n] /\ UNCHANGED items
  BY <1>2 DEF Array!MoveDone
<1>6. Halves(job, m, n) = job.tmp
  <2>1. \A i \in 1..Len(job.tmp) : i > job.moved => job.tmp[i] = Array!Raw
    BY <1>4 DEF Moving
  <2>2. \A i \in 1..Len(job.tmp) :
           job.tmp[i] = IF i <= job.moved THEN job.tmp[i] ELSE IF i <= n THEN m[i] ELSE Array!Raw
    BY <1>3, <1>5, <2>1
  <2>3. job.tmp = [i \in 1..Len(job.tmp) |-> job.tmp[i]]
    BY <1>3
  <2> QED
    BY <2>2, <2>3 DEF Halves
<1>7. Holds(j, job.tmp, n, its) /\ n <= Len(job.tmp)
  BY <1>4, <1>6 DEF Moving, Holds
<1>8. j \in Jobs(a)
  BY <1>3 DEF Jobs
<1>9. items' = [items EXCEPT ![a] = its]
  BY <1>5 DEF ArrayInv
<1> HIDE DEF j, n, its
<1> QED
  BY <1>2, <1>3, <1>5, <1>7, <1>8, <1>9, ArrayStep DEF n, its

\* The array whose values are pushed.
LEMMA PushesAre ==
  ASSUME ArrayInv, job.op = "push"
  PROVE  \E a \in Arrays, s \in Seq(Values) :
           /\ job.array = a /\ job \in Pushes(a) /\ mem[a] \in Seq(Cell) /\ items[a] \in Seq(Values)
           /\ len[a] = Len(s) /\ len[a] <= Len(mem[a]) /\ Filled(mem[a], s)
           /\ job.values \in Seq(Values) /\ job.values # <<>> /\ items[a] = s \o job.values
<1>1. job # NoJob
  BY DEF NoJob, Array!NoJob
<1>2. PICK a \in Arrays : /\ job.array = a /\ job \in Jobs(a) /\ mem[a] \in Seq(Cell)
                          /\ len[a] \in Nat /\ len[a] <= Len(mem[a]) /\ items[a] \in Seq(Values)
                          /\ Holds(job, mem[a], len[a], items[a])
  BY <1>1, AtWork
<1>3. job \in Pushes(a) /\ job.values \in Seq(Values) /\ job.values # <<>>
  BY <1>2, JobFields
<1>4. Pushing(job, mem[a], len[a], items[a])
  BY <1>1, <1>2 DEF Holds, Going
<1> QED
  BY <1>2, <1>3, <1>4 DEF Pushing

\* push_back begins.
LEMMA PushBackKeeps ==
  ASSUME ArrayInv, NEW a \in Arrays, NEW v \in Values, Array!PushBack(a, v)
  PROVE  ArrayInv'
<1> DEFINE s == items[a]
           j == [op |-> "push", array |-> a, values |-> <<v>>]
           its == Append(s, v)
<1>1. job = NoJob /\ job' = j /\ items' = [items EXCEPT ![a] = its] /\ UNCHANGED <<mem, len>>
  BY DEF Array!PushBack, NoJob
<1>2. /\ mem[a] \in Seq(Cell) /\ len[a] \in Nat /\ len[a] <= Len(mem[a])
      /\ s \in Seq(Values) /\ Filled(mem[a], s) /\ len[a] = Len(s)
  BY <1>1, AtRestArray
<1>3. its \in Seq(Values) /\ its = s \o <<v>> /\ <<v>> \in Seq(Values) /\ <<v>> # <<>>
  BY <1>2
<1>4. j \in Jobs(a)
  BY <1>3 DEF Jobs, Pushes
<1>5. j.op = "push" /\ j.values = <<v>>
  OBVIOUS
<1> HIDE DEF j, its, s
<1>6. Holds(j, mem[a], len[a], its)
  BY <1>2, <1>3, <1>5 DEF Holds, Going, Pushing
<1>7. mem' = [mem EXCEPT ![a] = mem[a]] /\ len' = [len EXCEPT ![a] = len[a]]
  BY <1>1 DEF ArrayInv
<1> QED
  BY <1>1, <1>2, <1>3, <1>4, <1>6, <1>7, ArrayStep

\* emplace_back finds its memory full.
LEMMA PushGrowKeeps ==
  ASSUME ArrayInv, Array!PushGrow
  PROVE  ArrayInv'
<1>1. job.op = "push"
  BY DEF Array!PushGrow
<1>2. PICK a \in Arrays, s \in Seq(Values) :
           /\ job.array = a /\ job \in Pushes(a) /\ mem[a] \in Seq(Cell) /\ items[a] \in Seq(Values)
           /\ len[a] = Len(s) /\ len[a] <= Len(mem[a]) /\ Filled(mem[a], s)
           /\ job.values \in Seq(Values) /\ job.values # <<>> /\ items[a] = s \o job.values
  BY <1>1, PushesAre
<1> DEFINE n == len[a]
           c == Array!Grown(a)
           its == items[a]
<1>3. /\ Array!Reallocate(a, c, job) /\ UNCHANGED <<mem, len>>
      /\ items' = [items EXCEPT ![a] = its]
  BY <1>2 DEF Array!PushGrow, ArrayInv
<1>4. n \in Nat /\ c \in Nat /\ n <= c
  BY <1>2 DEF Array!Grown
<1> HIDE DEF c
<1>5. Filled(Larger(mem[a], n, c), s)
  BY <1>2, <1>4, FilledLarger
<1>6. Going(job, Larger(mem[a], n, c), n, its)
  BY <1>1, <1>2, <1>5 DEF Going, Pushing
<1> HIDE DEF n, its
<1>7. its \in Seq(Values) /\ job \in {NoJob} \cup Pushes(a) \cup Resizes(a)
  BY <1>2 DEF its
<1>8. n = len[a]
  BY DEF n
<1> QED
  BY <1>2, <1>3, <1>4, <1>6, <1>7, <1>8, Reallocates

\* The first of the values still to be pushed joins those that are there.
LEMMA FirstJoins ==
  ASSUME NEW s \in Seq(Values), NEW w \in Seq(Values), w # <<>>
  PROVE  /\ Head(w) \in Values /\ Tail(w) \in Seq(Values)
         /\ s \o w = Append(s, Head(w)) \o Tail(w)
         /\ Len(w) = 1 => Tail(w) = <<>> /\ s \o w = Append(s, Head(w))
         /\ Len(w) # 1 => Tail(w) # <<>>
<1> DEFINE v == Head(w)
           r == Tail(w)
           t == Append(s, v)
<1>1. /\ v \in Values /\ v = w[1] /\ r \in Seq(Values) /\ Len(r) = Len(w) - 1
      /\ Len(w) \in Nat /\ Len(w) >= 1 /\ \A i \in 1..Len(r) : r[i] = w[i + 1]
  OBVIOUS
<1> HIDE DEF v, r
<1>2. t \in Seq(Values) /\ Len(t) = Len(s) + 1 /\ t[Len(s) + 1] = v
      /\ \A i \in 1..Len(s) : t[i] = s[i]
  BY <1>1
<1> HIDE DEF t
<1>3. w = <<v>> \o r
  BY <1>1 DEF v, r
<1>4. t = s \o <<v>>
  BY <1>1 DEF t
<1>5. s \o w = t \o r
  BY <1>1, <1>3, <1>4
<1>6. Len(w) = 1 => r = <<>>
  BY <1>1
<1>7. t \o <<>> = t
  BY <1>2
<1>8. Len(w) # 1 => r # <<>>
  BY <1>1
<1> QED
  BY <1>1, <1>5, <1>6, <1>7, <1>8 DEF v, r, t

\* emplace_back constructs the element behind the others.
LEMMA PushPlaceKeeps ==
  ASSUME ArrayInv, Array!PushPlace
  PROVE  ArrayInv'
<1>1. job.op = "push"
  BY DEF Array!PushPlace
<1>2. PICK a \in Arrays, s \in Seq(Values) :
           /\ job.array = a /\ job \in Pushes(a) /\ mem[a] \in Seq(Cell) /\ items[a] \in Seq(Values)
           /\ len[a] = Len(s) /\ len[a] <= Len(mem[a]) /\ Filled(mem[a], s)
           /\ job.values \in Seq(Values) /\ job.values # <<>> /\ items[a] = s \o job.values
  BY <1>1, PushesAre
<1> DEFINE v == Head(job.values)
           rest == Tail(job.values)
           k == len[a] + 1
           m == [mem[a] EXCEPT ![k] = v]
           its == items[a]
           t == Append(s, v)
           j == job'
<1>3. /\ v \in Values /\ rest \in Seq(Values) /\ k = Len(s) + 1 /\ k \in Nat
      /\ its = t \o rest
      /\ Len(job.values) = 1 => rest = <<>> /\ its = t
      /\ Len(job.values) # 1 => rest # <<>>
  <2> DEFINE w == job.values
  <2>1. w \in Seq(Values) /\ w # <<>>
    BY <1>2
  <2> HIDE DEF w
  <2>2. /\ Head(w) \in Values /\ Tail(w) \in Seq(Values)
        /\ s \o w = Append(s, Head(w)) \o Tail(w)
        /\ Len(w) = 1 => Tail(w) = <<>> /\ s \o w = Append(s, Head(w))
        /\ Len(w) # 1 => Tail(w) # <<>>
    BY <2>1, FirstJoins
  <2>3. its = s \o w /\ k = Len(s) + 1 /\ k \in Nat
    BY <1>2 DEF w
  <2>4. v = Head(w) /\ rest = Tail(w) /\ w = job.values
    BY DEF w
  <2> HIDE DEF its, v, rest, k, t
  <2> QED
    BY <2>2, <2>3, <2>4 DEF t
<1>4. /\ k <= Len(mem[a]) /\ mem' = [mem EXCEPT ![a] = m] /\ len' = [len EXCEPT ![a] = k]
      /\ job' = (IF Len(job.values) = 1 THEN NoJob ELSE [job EXCEPT !.values = rest])
      /\ items' = [items EXCEPT ![a] = its]
  BY <1>2 DEF Array!PushPlace, Array!Appended, Array!Capacity, ArrayInv, NoJob
<1>5. /\ m \in Seq(Cell) /\ Len(m) = Len(mem[a]) /\ t \in Seq(Values) /\ Len(t) = k
      /\ Filled(m, t)
  <2> HIDE DEF v, k
  <2>1. mem[a] \in Seq(Cell) /\ Filled(mem[a], s) /\ k = Len(s) + 1 /\ v \in Values
    BY <1>2, <1>3
  <2>2. k <= Len(mem[a])
    BY <1>4
  <2> QED
    BY <2>1, <2>2, FilledAppend
<1> HIDE DEF m
<1>6. its = t \o rest
  BY <1>3
<1>7. j \in Jobs(a) /\ Holds(j, m, k, its)
  <2>1. CASE Len(job.values) = 1
    <3>1. rest = <<>> /\ its = t
      BY <1>3, <2>1
    <3>2. j = NoJob
      BY <1>4, <2>1
    <3> HIDE DEF its, t, j
    <3> QED
      BY <1>5, <3>1, <3>2 DEF Holds, Going, Jobs
  <2>2. CASE Len(job.values) # 1
    <3>1. j = [job EXCEPT !.values = rest]
      BY <1>4, <2>2
    <3>2. rest # <<>>
      BY <1>3, <2>2
    <3> HIDE DEF rest
    <3>3. j \in Pushes(a) /\ j.values = rest /\ j.op = "push"
      BY <1>2, <1>3, <3>1, <3>2 DEF Pushes
    <3> HIDE DEF its, t, j
    <3> QED
      BY <1>5, <1>6, <3>3 DEF Holds, Going, Pushing, Jobs
  <2> QED
    BY <2>1, <2>2
<1>8. k <= Len(m) /\ its \in Seq(Values) /\ job.array = a /\ job' = j
  BY <1>2, <1>4, <1>5
<1> HIDE DEF j, k, its
<1> QED
  BY <1>3, <1>4, <1>5, <1>7, <1>8, ArrayStep

\* pop_back.
LEMMA PopBackKeeps ==
  ASSUME ArrayInv, NEW a \in Arrays, Array!PopBack(a)
  PROVE  ArrayInv'
<1> DEFINE n == len[a]
           s == items[a]
           k == n - 1
           m == [mem[a] EXCEPT ![n] = Array!Raw]
           its == SubSeq(s, 1, k)
<1>1. /\ job = NoJob /\ job' = NoJob /\ n > 0 /\ mem' = [mem EXCEPT ![a] = m]
      /\ len' = [len EXCEPT ![a] = k] /\ items' = [items EXCEPT ![a] = its]
  BY DEF Array!PopBack, NoJob
<1>2. /\ mem[a] \in Seq(Cell) /\ n \in Nat /\ n <= Len(mem[a])
      /\ s \in Seq(Values) /\ Filled(mem[a], s) /\ n = Len(s)
  BY <1>1, AtRestArray
<1>3. k \in Nat /\ n = k + 1 /\ n \in 1..Len(mem[a])
  BY <1>1, <1>2
<1>4. its \in Seq(Values) /\ Len(its) = k /\ \A i \in 1..k : its[i] = s[i]
  BY <1>2, <1>3
<1>5. m \in Seq(Cell) /\ Len(m) = Len(mem[a]) /\ m[n] = Array!Raw
      /\ \A i \in 1..Len(m) : i # n => m[i] = mem[a][i]
  <2>1. Array!Raw \in Cell
    BY DEF Cell
  <2> QED
    BY <1>2, <1>3, <2>1
<1> HIDE DEF m, its
<1>6. Filled(m, its)
  BY <1>2, <1>3, <1>4, <1>5 DEF Filled
<1>7. Holds(NoJob, m, k, its) /\ NoJob \in Jobs(a) /\ k <= Len(m)
  BY <1>2, <1>3, <1>4, <1>5, <1>6 DEF Holds, Going, Jobs
<1> HIDE DEF k
<1> QED
  BY <1>1, <1>3, <1>4, <1>5, <1>7, ArrayStep

\* erase begins: the element is gone for the user.
LEMMA EraseKeepsArray ==
  ASSUME ArrayInv, NEW a \in Arrays, NEW i \in Nat, Array!Erase(a, i)
  PROVE  ArrayInv'
<1> DEFINE n == len[a]
           s == items[a]
           m == mem[a]
           its == [k \in 1..(n - 1) |-> IF k < i THEN s[k] ELSE s[k + 1]]
           j == [op |-> "shift", array |-> a, to |-> i]
<1>1. /\ job = NoJob /\ job' = j /\ i \in 1..n /\ UNCHANGED <<mem, len>>
      /\ items' = [items EXCEPT ![a] = its]
  BY DEF Array!Erase, NoJob
<1>2. /\ m \in Seq(Cell) /\ n \in Nat /\ n <= Len(m) /\ s \in Seq(Values) /\ Filled(m, s)
      /\ n = Len(s)
  BY <1>1, AtRestArray
<1>3. /\ its \in Seq(Values) /\ Len(its) = n - 1
      /\ \A k \in 1..(n - 1) : its[k] = IF k < i THEN s[k] ELSE s[k + 1]
  <2>1. \A k \in 1..(n - 1) : (IF k < i THEN s[k] ELSE s[k + 1]) \in Values
    BY <1>1, <1>2
  <2>2. its \in [1..(n - 1) -> Values]
    BY <2>1
  <2>3. n - 1 \in Nat
    <3> HIDE DEF n
    <3> QED
      BY <1>1, <1>2
  <2>4. its \in Seq(Values) /\ Len(its) = n - 1
    <3> HIDE DEF its
    <3> QED
      BY <2>2, <2>3
  <2> QED
    BY <2>4
<1>4. j \in Jobs(a) /\ j.op = "shift" /\ j.to = i
  BY DEF Jobs, Shifts
<1> HIDE DEF its, j
<1>5. \A k \in 1..Len(m) : /\ k < i => m[k] = its[k]
                           /\ k > i /\ k <= n => m[k] = its[k - 1]
                           /\ k > n => m[k] = Array!Raw
  <2>1. ASSUME NEW k \in 1..Len(m), k < i PROVE m[k] = its[k]
    BY <1>1, <1>2, <1>3, <2>1 DEF Filled
  <2>2. ASSUME NEW k \in 1..Len(m), k > i, k <= n PROVE m[k] = its[k - 1]
    <3>1. k - 1 \in 1..(n - 1) /\ ~(k - 1 < i) /\ (k - 1) + 1 = k
      BY <1>1, <1>2, <2>2
    <3>2. its[k - 1] = s[k]
      BY <1>3, <3>1
    <3> QED
      BY <1>2, <2>2, <3>2 DEF Filled
  <2>3. ASSUME NEW k \in 1..Len(m), k > n PROVE m[k] = Array!Raw
    BY <1>2, <2>3 DEF Filled
  <2> QED
    BY <2>1, <2>2, <2>3
<1>6. Holds(j, m, n, its)
  BY <1>1, <1>3, <1>4, <1>5 DEF Holds, Shifting
<1>7. mem' = [mem EXCEPT ![a] = m] /\ len' = [len EXCEPT ![a] = n]
  BY <1>1 DEF ArrayInv
<1> HIDE DEF m, n
<1> QED
  BY <1>1, <1>2, <1>3, <1>4, <1>6, <1>7, ArrayStep

\* shift_left moves one element up.
LEMMA ShiftNextKeeps ==
  ASSUME ArrayInv, Array!ShiftNext
  PROVE  ArrayInv'
<1>1. job.op = "shift" /\ job # NoJob
  BY DEF Array!ShiftNext, NoJob, Array!NoJob
<1>2. PICK a \in Arrays : /\ job.array = a /\ job \in Jobs(a) /\ mem[a] \in Seq(Cell)
                          /\ len[a] \in Nat /\ len[a] <= Len(mem[a]) /\ items[a] \in Seq(Values)
                          /\ Holds(job, mem[a], len[a], items[a])
  BY <1>1, AtWork
<1> DEFINE m == mem[a]
           n == len[a]
           its == items[a]
           to == job.to
           w == [m EXCEPT ![to] = m[to + 1], ![to + 1] = Array!Moved]
           j == [job EXCEPT !.to = to + 1]
<1>3. job \in Shifts(a) /\ Shifting(job, m, n, its)
  <2>1. Shifting(job, m, n, its)
    BY <1>1, <1>2 DEF Holds, Going
  <2>2. job \in Shifts(a)
    BY <1>1, <1>2 DEF Jobs, Pushes, Resizes, Moves, NoJob, Array!NoJob
  <2> QED
    BY <2>1, <2>2
<1>4. /\ to < n /\ job' = j /\ UNCHANGED <<len, items>>
      /\ mem' = [mem EXCEPT ![a] = w]
  <2>1. to < n /\ job' = j /\ UNCHANGED <<len, items>>
    BY <1>2 DEF Array!ShiftNext
  <2>2. mem' = [mem EXCEPT ![a][to] = m[to + 1], ![a][to + 1] = Array!Moved]
    BY <1>2 DEF Array!ShiftNext
  <2>3. mem' = [mem EXCEPT ![a] = w]
    BY <1>2, <2>2 DEF ArrayInv
  <2> QED
    BY <2>1, <2>3
<1>5. to \in 1..n /\ Len(its) = n - 1 /\ to + 1 \in 1..Len(m)
  BY <1>2, <1>3, <1>4 DEF Shifting
<1>6. /\ w \in Seq(Cell) /\ Len(w) = Len(m)
      /\ \A k \in 1..Len(m) :
           w[k] = IF k = to + 1 THEN Array!Moved ELSE IF k = to THEN m[to + 1] ELSE m[k]
  <2>1. Array!Moved \in Cell
    BY DEF Cell
  <2>2. m \in Seq(Cell)
    BY <1>2
  <2> HIDE DEF m, to, n
  <2> QED
    BY <1>5, <2>1, <2>2
<1>7. j \in Jobs(a) /\ j.op = "shift" /\ j.to = to + 1
  BY <1>3 DEF Jobs, Shifts
<1> HIDE DEF w, j
<1>8. Shifting(j, w, n, its)
  <2>1. \A k \in 1..Len(m) : /\ k < to => m[k] = its[k]
                             /\ k > to /\ k <= n => m[k] = its[k - 1]
                             /\ k > n => m[k] = Array!Raw
    BY <1>3 DEF Shifting
  <2>2. Len(m) \in Nat /\ n \in Nat /\ n <= Len(m)
    BY <1>2
  <2> HIDE DEF m, n, its, to
  <2>3. m[to + 1] = its[(to + 1) - 1] /\ (to + 1) - 1 = to
    BY <1>4, <1>5, <2>1, <2>2
  <2>4. ASSUME NEW k \in 1..Len(w)
        PROVE  /\ k < to + 1 => w[k] = its[k]
               /\ k > to + 1 /\ k <= n => w[k] = its[k - 1]
               /\ k > n => w[k] = Array!Raw
    <3>1. k \in 1..Len(m) /\ k \in Nat
      BY <1>6
    <3>2. CASE k < to
      BY <1>4, <1>5, <1>6, <2>1, <2>2, <3>1, <3>2
    <3>3. CASE k = to
      BY <1>4, <1>5, <1>6, <2>2, <2>3, <3>1, <3>3
    <3>4. CASE k > to
      BY <1>4, <1>5, <1>6, <2>1, <2>2, <3>1, <3>4
    <3> QED
      BY <1>5, <2>2, <3>1, <3>2, <3>3, <3>4
  <2> QED
    BY <1>4, <1>5, <1>7, <2>2, <2>4 DEF Shifting
<1>9. Holds(j, w, n, its)
  BY <1>7, <1>8 DEF Holds
<1>10. len' = [len EXCEPT ![a] = n] /\ items' = [items EXCEPT ![a] = its]
  BY <1>4 DEF ArrayInv
<1>11. n \in Nat /\ n <= Len(w) /\ its \in Seq(Values)
  BY <1>2, <1>6
<1> HIDE DEF m, n, its
<1> QED
  BY <1>2, <1>4, <1>6, <1>7, <1>9, <1>10, <1>11, ArrayStep

\* shift_left is done: the last object goes.
LEMMA ShiftDoneKeeps ==
  ASSUME ArrayInv, Array!ShiftDone
  PROVE  ArrayInv'
<1>1. job.op = "shift" /\ job # NoJob
  BY DEF Array!ShiftDone, NoJob, Array!NoJob
<1>2. PICK a \in Arrays : /\ job.array = a /\ job \in Jobs(a) /\ mem[a] \in Seq(Cell)
                          /\ len[a] \in Nat /\ len[a] <= Len(mem[a]) /\ items[a] \in Seq(Values)
                          /\ Holds(job, mem[a], len[a], items[a])
  BY <1>1, AtWork
<1> DEFINE m == mem[a]
           n == len[a]
           k == n - 1
           its == items[a]
           w == [m EXCEPT ![n] = Array!Raw]
<1>3. Shifting(job, m, n, its)
  BY <1>1, <1>2 DEF Holds, Going
<1>4. /\ job.to = n /\ job' = NoJob /\ UNCHANGED items
      /\ mem' = [mem EXCEPT ![a] = w] /\ len' = [len EXCEPT ![a] = k]
  BY <1>2 DEF Array!ShiftDone, NoJob
<1>5. n \in 1..Len(m) /\ k \in Nat /\ n = k + 1 /\ Len(its) = k /\ Len(m) \in Nat
  BY <1>2, <1>3, <1>4 DEF Shifting
<1>6. /\ w \in Seq(Cell) /\ Len(w) = Len(m) /\ w[n] = Array!Raw
      /\ \A i \in 1..Len(m) : i # n => w[i] = m[i]
  <2>1. Array!Raw \in Cell
    BY DEF Cell
  <2> QED
    BY <1>2, <1>5, <2>1
<1> HIDE DEF w
<1>7. Filled(w, its)
  <2>1. \A i \in 1..Len(m) : (i < n => m[i] = its[i]) /\ (i > n => m[i] = Array!Raw)
    BY <1>3, <1>4 DEF Shifting
  <2> HIDE DEF m, n, k, its
  <2> QED
    BY <1>5, <1>6, <2>1 DEF Filled
<1>8. Holds(NoJob, w, k, its) /\ NoJob \in Jobs(a) /\ k <= Len(w)
  BY <1>5, <1>6, <1>7 DEF Holds, Going, Jobs
<1>9. items' = [items EXCEPT ![a] = its] /\ its \in Seq(Values)
  BY <1>2, <1>4 DEF ArrayInv
<1> HIDE DEF k, its
<1> QED
  BY <1>2, <1>4, <1>5, <1>6, <1>8, <1>9, ArrayStep

\* reserve.
LEMMA ReserveKeeps ==
  ASSUME ArrayInv, NEW a \in Arrays, NEW c \in Nat, Array!Reserve(a, c)
  PROVE  ArrayInv'
<1> DEFINE n == len[a]
           its == items[a]
<1>1. /\ job = NoJob /\ Len(mem[a]) < c /\ Array!Reallocate(a, c, NoJob)
      /\ UNCHANGED <<mem, len>> /\ items' = [items EXCEPT ![a] = its]
  BY DEF Array!Reserve, Array!Capacity, NoJob, ArrayInv
<1>2. /\ mem[a] \in Seq(Cell) /\ n \in Nat /\ n <= Len(mem[a])
      /\ its \in Seq(Values) /\ Filled(mem[a], its) /\ n = Len(its)
  BY <1>1, AtRestArray
<1>3. n <= c
  BY <1>1, <1>2
<1> HIDE DEF its
<1>4. Filled(Larger(mem[a], n, c), its)
  BY <1>2, <1>3, FilledLarger
<1>5. Going(NoJob, Larger(mem[a], n, c), n, its)
  BY <1>2, <1>4 DEF Going
<1> QED
  BY <1>1, <1>2, <1>3, <1>5, Reallocates

\* What a resized array is to hold.
LEMMA ResizedIs ==
  ASSUME NEW s \in Seq(Values), NEW k \in Nat, Default \in Values
  PROVE  /\ Array!Resized(s, k) \in Seq(Values) /\ Len(Array!Resized(s, k)) = k
         /\ \A i \in 1..k : Array!Resized(s, k)[i] = IF i <= Len(s) THEN s[i] ELSE Default
<1>1. \A i \in 1..k : (IF i <= Len(s) THEN s[i] ELSE Default) \in Values
  OBVIOUS
<1>2. Array!Resized(s, k) \in [1..k -> Values]
  BY <1>1 DEF Array!Resized
<1>3. Array!Resized(s, k) \in Seq(Values) /\ Len(Array!Resized(s, k)) = k
  BY <1>2
<1>4. \A i \in 1..k : Array!Resized(s, k)[i] = IF i <= Len(s) THEN s[i] ELSE Default
  BY DEF Array!Resized
<1> QED
  BY <1>3, <1>4

\* resize begins.
LEMMA ResizeKeeps ==
  ASSUME ArrayInv, NEW a \in Arrays, NEW k \in Nat, Default \in Values, Array!Resize(a, k)
  PROVE  ArrayInv'
<1> DEFINE n == len[a]
           s == items[a]
           m == mem[a]
           its == Array!Resized(s, k)
           j == [op |-> "resize", array |-> a, size |-> k, frees |-> FALSE]
<1>1. /\ job = NoJob /\ UNCHANGED <<mem, len>> /\ items' = [items EXCEPT ![a] = its]
      /\ IF Len(m) < k THEN Array!Reallocate(a, k, j) ELSE job' = j
  BY DEF Array!Resize, Array!Capacity, NoJob
<1>2. /\ m \in Seq(Cell) /\ n \in Nat /\ n <= Len(m)
      /\ s \in Seq(Values) /\ Filled(m, s) /\ n = Len(s)
  BY <1>1, AtRestArray
<1>3. /\ its \in Seq(Values) /\ Len(its) = k
      /\ \A i \in 1..k : its[i] = IF i <= Len(s) THEN s[i] ELSE Default
  BY <1>2, ResizedIs
<1>4. /\ j \in Resizes(a) /\ j.op = "resize" /\ j.size = k /\ j.frees = FALSE
  BY DEF Resizes
<1> HIDE DEF its, j
<1>5. ASSUME NEW w \in Seq(Cell), k <= Len(w), Filled(w, s)
      PROVE  Resizing(j, w, n, its)
  <2>1. n \in Nat /\ n = Len(s) /\ s \in Seq(Values) /\ Len(w) \in Nat
    BY <1>2, <1>5
  <2> HIDE DEF n, s, m
  <2>2. \A i \in 1..Len(w) : w[i] = IF i <= n THEN s[i] ELSE Array!Raw
    BY <1>5, <2>1 DEF Filled
  <2>3. \A i \in 1..Len(w) : i <= n /\ i <= k => w[i] = its[i]
    BY <1>3, <2>1, <2>2
  <2>4. \A i \in 1..Len(w) : i > n => w[i] = Array!Raw
    BY <2>1, <2>2
  <2>5. \A i \in 1..k : i > n => its[i] = Default
    BY <1>3, <2>1
  <2> QED
    BY <1>3, <1>4, <1>5, <2>3, <2>4, <2>5 DEF Resizing
<1>6. CASE Len(m) < k
  <2>1. n <= k
    BY <1>2, <1>6
  <2> HIDE DEF n, m, s
  <2>2. Larger(m, n, k) \in Seq(Cell) /\ Len(Larger(m, n, k)) = k
    BY <1>2, <2>1, LargerMemory
  <2>3. Filled(Larger(m, n, k), s)
    BY <1>2, <2>1, FilledLarger
  <2>4. Resizing(j, Larger(m, n, k), n, its)
    BY <1>5, <2>2, <2>3
  <2>5. Going(j, Larger(m, n, k), n, its) /\ j \in {NoJob} \cup Pushes(a) \cup Resizes(a)
    BY <1>4, <2>4 DEF Going
  <2>6. Array!Reallocate(a, k, j)
    BY <1>1, <1>6
  <2>7. n = len[a] /\ m = mem[a]
    BY DEF n, m
  <2> QED
    BY <1>1, <1>3, <2>1, <2>5, <2>6, <2>7, Reallocates
<1>7. CASE ~(Len(m) < k)
  <2>1. k <= Len(m) /\ job' = j
    BY <1>1, <1>2, <1>7
  <2>2. Holds(j, m, n, its) /\ j \in Jobs(a)
    <3>1. Resizing(j, m, n, its)
      <4> HIDE DEF m, n, s
      <4> QED
        BY <1>2, <1>5, <2>1
    <3> QED
      BY <1>4, <3>1 DEF Holds, Going, Jobs
  <2>3. mem' = [mem EXCEPT ![a] = m] /\ len' = [len EXCEPT ![a] = n]
    BY <1>1 DEF ArrayInv
  <2> HIDE DEF m, n, s
  <2> QED
    BY <1>1, <1>2, <1>3, <2>1, <2>2, <2>3, ArrayStep
<1> QED
  BY <1>6, <1>7

\* The array that is resized.
LEMMA ResizesAre ==
  ASSUME ArrayInv, job.op = "resize"
  PROVE  \E a \in Arrays :
           /\ job.array = a /\ job \in Resizes(a)
           /\ mem[a] \in Seq(Cell) /\ items[a] \in Seq(Values) /\ len[a] \in Nat
           /\ len[a] <= Len(mem[a]) /\ job.size \in Nat /\ job.frees \in BOOLEAN
           /\ Resizing(job, mem[a], len[a], items[a])
<1>1. job # NoJob
  BY DEF NoJob, Array!NoJob
<1>2. PICK a \in Arrays : /\ job.array = a /\ job \in Jobs(a) /\ mem[a] \in Seq(Cell)
                          /\ len[a] \in Nat /\ len[a] <= Len(mem[a]) /\ items[a] \in Seq(Values)
                          /\ Holds(job, mem[a], len[a], items[a])
  BY <1>1, AtWork
<1>3. job \in Resizes(a) /\ job.size \in Nat /\ job.frees \in BOOLEAN
  BY <1>2, JobFields
<1>4. Resizing(job, mem[a], len[a], items[a])
  BY <1>1, <1>2 DEF Holds, Going
<1> QED
  BY <1>2, <1>3, <1>4

\* resize adds an empty object or destroys the last one.
LEMMA ResizeNextKeeps ==
  ASSUME ArrayInv, Default \in Values, Array!ResizeNext
  PROVE  ArrayInv'
<1>1. job.op = "resize"
  BY DEF Array!ResizeNext
<1>2. PICK a \in Arrays :
           /\ job.array = a /\ job \in Resizes(a)
           /\ mem[a] \in Seq(Cell) /\ items[a] \in Seq(Values) /\ len[a] \in Nat
           /\ len[a] <= Len(mem[a]) /\ job.size \in Nat /\ job.frees \in BOOLEAN
           /\ Resizing(job, mem[a], len[a], items[a])
  BY <1>1, ResizesAre
<1> DEFINE m == mem[a]
           n == len[a]
           its == items[a]
           grown == [m EXCEPT ![n + 1] = Default]
           cut == [m EXCEPT ![n] = Array!Raw]
<1>3. /\ m \in Seq(Cell) /\ n \in Nat /\ n <= Len(m) /\ Len(m) \in Nat /\ job.size \in Nat
      /\ Len(its) = job.size /\ job.size <= Len(m) /\ (job.frees => job.size = 0)
      /\ \A i \in 1..Len(m) : i > n => m[i] = Array!Raw
      /\ \A i \in 1..Len(m) : i <= n /\ i <= job.size => m[i] = its[i]
      /\ \A i \in 1..job.size : i > n => its[i] = Default
      /\ its \in Seq(Values)
  BY <1>2 DEF Resizing
<1>4. /\ n # job.size /\ job' = job /\ items' = items
      /\ n < job.size => /\ mem' = [mem EXCEPT ![a] = grown]
                         /\ len' = [len EXCEPT ![a] = n + 1]
      /\ ~(n < job.size) => /\ mem' = [mem EXCEPT ![a] = cut]
                            /\ len' = [len EXCEPT ![a] = n - 1]
  BY <1>2 DEF Array!ResizeNext, Array!Appended, ArrayInv
<1>5. job \in Jobs(a) /\ items' = [items EXCEPT ![a] = its]
  BY <1>2, <1>4 DEF Jobs, ArrayInv
<1>6. CASE n < job.size
  <2> DEFINE k == n + 1
  <2>1. Default \in Cell /\ k \in 1..Len(m) /\ k \in Nat /\ k <= job.size /\ k \in 1..job.size
    BY <1>3, <1>6 DEF Cell
  <2>2. /\ grown \in Seq(Cell) /\ Len(grown) = Len(m) /\ grown[k] = Default
        /\ \A i \in 1..Len(m) : i # k => grown[i] = m[i]
    <3> HIDE DEF m, n
    <3> QED
      BY <1>3, <2>1
  <2> HIDE DEF grown, m, its
  <2>3. \A i \in 1..Len(m) : i > k => grown[i] = Array!Raw
    <3> HIDE DEF n
    <3> QED
      BY <1>3, <2>1, <2>2
  <2>4. its[k] = Default
    <3> HIDE DEF n
    <3> QED
      BY <1>3, <2>1
  <2>5. \A i \in 1..Len(m) : i <= k /\ i <= job.size => grown[i] = its[i]
    <3> HIDE DEF n
    <3> QED
      BY <1>3, <2>1, <2>2, <2>4
  <2>6. \A i \in 1..job.size : i > k => its[i] = Default
    <3> HIDE DEF n
    <3> QED
      BY <1>3, <2>1
  <2>7. Resizing(job, grown, k, its)
    BY <1>3, <2>2, <2>3, <2>5, <2>6 DEF Resizing
  <2>8. Holds(job, grown, k, its) /\ k <= Len(grown)
    BY <1>1, <2>1, <2>2, <2>7 DEF Holds, Going
  <2>9. mem' = [mem EXCEPT ![a] = grown] /\ len' = [len EXCEPT ![a] = k]
    BY <1>4, <1>6
  <2> HIDE DEF k
  <2> QED
    BY <1>2, <1>3, <1>4, <1>5, <2>1, <2>2, <2>8, <2>9, ArrayStep
<1>7. CASE ~(n < job.size)
  <2> DEFINE k == n - 1
  <2>1. Array!Raw \in Cell /\ n \in 1..Len(m) /\ k \in Nat /\ n = k + 1 /\ job.size <= k
    <3>1. Array!Raw \in Cell
      BY DEF Cell
    <3>2. n \in Nat /\ job.size \in Nat /\ n # job.size /\ ~(n < job.size) /\ n <= Len(m)
          /\ Len(m) \in Nat
      BY <1>3, <1>4, <1>7
    <3> HIDE DEF n, m
    <3>3. n \in 1..Len(m) /\ n - 1 \in Nat /\ n = (n - 1) + 1 /\ job.size <= n - 1
      BY <3>2
    <3> QED
      BY <3>1, <3>3
  <2>2. /\ cut \in Seq(Cell) /\ Len(cut) = Len(m) /\ cut[n] = Array!Raw
        /\ \A i \in 1..Len(m) : i # n => cut[i] = m[i]
    <3> HIDE DEF m, n
    <3> QED
      BY <1>3, <2>1
  <2> HIDE DEF cut, m, its, k
  <2>3. \A i \in 1..Len(m) : i > k => cut[i] = Array!Raw
    <3> HIDE DEF n
    <3> QED
      BY <1>3, <2>1, <2>2
  <2>4. \A i \in 1..Len(m) : i <= k /\ i <= job.size => cut[i] = its[i]
    <3> HIDE DEF n
    <3> QED
      BY <1>3, <2>1, <2>2
  <2>5. \A i \in 1..job.size : i > k => its[i] = Default
    <3> HIDE DEF n
    <3> QED
      BY <1>3, <2>1
  <2>6. Resizing(job, cut, k, its)
    BY <1>3, <2>2, <2>3, <2>4, <2>5 DEF Resizing
  <2>7. Holds(job, cut, k, its) /\ k <= Len(cut)
    <3> HIDE DEF n
    <3> QED
      BY <1>1, <1>3, <2>1, <2>2, <2>6 DEF Holds, Going
  <2>8. mem' = [mem EXCEPT ![a] = cut] /\ len' = [len EXCEPT ![a] = k]
    BY <1>4, <1>7 DEF k
  <2> QED
    BY <1>2, <1>3, <1>4, <1>5, <2>1, <2>2, <2>7, <2>8, ArrayStep
<1> QED
  BY <1>6, <1>7

\* resize is done; the destructor gives the memory back.
LEMMA ResizeDoneKeeps ==
  ASSUME ArrayInv, Array!ResizeDone
  PROVE  ArrayInv'
<1>1. job.op = "resize"
  BY DEF Array!ResizeDone
<1>2. PICK a \in Arrays :
           /\ job.array = a /\ job \in Resizes(a)
           /\ mem[a] \in Seq(Cell) /\ items[a] \in Seq(Values) /\ len[a] \in Nat
           /\ len[a] <= Len(mem[a]) /\ job.size \in Nat /\ job.frees \in BOOLEAN
           /\ Resizing(job, mem[a], len[a], items[a])
  BY <1>1, ResizesAre
<1> DEFINE m == mem[a]
           n == len[a]
           its == items[a]
           w == IF job.frees THEN <<>> ELSE m
<1>3. /\ n = job.size /\ job' = NoJob /\ len' = [len EXCEPT ![a] = n]
      /\ mem' = [mem EXCEPT ![a] = w] /\ items' = [items EXCEPT ![a] = its]
  BY <1>2 DEF Array!ResizeDone, NoJob, ArrayInv
<1>4. /\ m \in Seq(Cell) /\ n \in Nat /\ n <= Len(m) /\ its \in Seq(Values) /\ Len(its) = n
      /\ (job.frees => n = 0)
      /\ \A i \in 1..Len(m) : (i > n => m[i] = Array!Raw) /\ (i <= n => m[i] = its[i])
  BY <1>2, <1>3 DEF Resizing
<1>5. w \in Seq(Cell) /\ Filled(w, its) /\ n <= Len(w)
  <2> HIDE DEF m, n, its
  <2>1. CASE job.frees
    BY <1>4, <2>1 DEF Filled
  <2>2. CASE ~job.frees
    <3>1. w = m
      BY <2>2
    <3> HIDE DEF w
    <3>2. Filled(m, its)
      BY <1>4 DEF Filled
    <3> QED
      BY <1>4, <3>1, <3>2
  <2> QED
    BY <2>1, <2>2
<1> HIDE DEF w, its, n
<1>6. Holds(NoJob, w, n, its) /\ NoJob \in Jobs(a)
  BY <1>4, <1>5 DEF Holds, Going, Jobs
<1> QED
  BY <1>2, <1>3, <1>4, <1>5, <1>6, ArrayStep

\* The destructor begins.
LEMMA DestroyKeeps ==
  ASSUME ArrayInv, NEW a \in Arrays, Array!Destroy(a)
  PROVE  ArrayInv'
<1> DEFINE j == [op |-> "resize", array |-> a, size |-> 0, frees |-> TRUE]
           m == mem[a]
           n == len[a]
           its == <<>>
<1>1. /\ job = NoJob /\ job' = j /\ UNCHANGED <<mem, len>>
      /\ items' = [items EXCEPT ![a] = its]
  BY DEF Array!Destroy, NoJob
<1>2. /\ m \in Seq(Cell) /\ n \in Nat /\ n <= Len(m) /\ items[a] \in Seq(Values)
      /\ Filled(m, items[a]) /\ n = Len(items[a])
  BY <1>1, AtRestArray
<1>3. j \in Resizes(a) /\ j.op = "resize" /\ j.size = 0
  BY DEF Resizes
<1> HIDE DEF j
<1>4. Resizing(j, m, n, its)
  BY <1>2, <1>3 DEF Resizing, Filled
<1>5. Holds(j, m, n, its) /\ j \in Jobs(a) /\ its \in Seq(Values)
  BY <1>3, <1>4 DEF Holds, Going, Jobs
<1>6. mem' = [mem EXCEPT ![a] = m] /\ len' = [len EXCEPT ![a] = n]
  BY <1>1 DEF ArrayInv
<1> HIDE DEF m, n, its
<1> QED
  BY <1>1, <1>2, <1>5, <1>6, ArrayStep

\* The objects in the memory of an array at rest are its items.
LEMMA FirstCellsAreItems ==
  ASSUME NEW m \in Seq(Cell), NEW s \in Seq(Values), Filled(m, s)
  PROVE  SubSeq(m, 1, Len(s)) = s
<1> DEFINE n == Len(s)
           f == SubSeq(m, 1, n)
<1>1. n \in Nat /\ n <= Len(m) /\ \A i \in 1..n : i \in 1..Len(m) /\ m[i] = s[i]
  BY DEF Filled
<1>2. f \in Seq(Cell) /\ Len(f) = n /\ \A i \in 1..n : f[i] = m[i]
  BY <1>1
<1> HIDE DEF f
<1>3. \A i \in 1..n : f[i] = s[i]
  BY <1>1, <1>2
<1>4. f = s
  BY <1>2, <1>3
<1> QED
  BY <1>4 DEF f

\* The copy constructor takes memory for as many objects.
LEMMA CopyKeeps ==
  ASSUME ArrayInv, NEW a \in Arrays, NEW b \in Arrays, Array!Copy(a, b)
  PROVE  ArrayInv'
<1> DEFINE n == len[b]
           w == Array!RawMemory(n)
           s == items[b]
           j == [op |-> "push", array |-> a, values |-> s]
<1>1. job = NoJob /\ mem[a] = <<>> /\ len[a] = 0 /\ n > 0 /\ UNCHANGED len
  BY DEF Array!Copy, Array!Unused, NoJob
<1>2. /\ mem[b] \in Seq(Cell) /\ n \in Nat /\ n <= Len(mem[b]) /\ s \in Seq(Values)
      /\ Filled(mem[b], s) /\ n = Len(s)
  BY <1>1, AtRestArray
<1>3. Array!FirstCells(b) = s
  BY <1>2, FirstCellsAreItems DEF Array!FirstCells
<1>4. /\ job' = j /\ mem' = [mem EXCEPT ![a] = w] /\ items' = [items EXCEPT ![a] = s]
  BY <1>3 DEF Array!Copy
<1>5. w \in Seq(Cell) /\ Len(w) = n /\ \A i \in 1..n : w[i] = Array!Raw
  <2>1. Array!Raw \in Cell
    BY DEF Cell
  <2>2. w \in [1..n -> Cell]
    BY <2>1 DEF Array!RawMemory
  <2> HIDE DEF n
  <2>3. w \in Seq(Cell) /\ Len(w) = n
    <3> HIDE DEF w
    <3> QED
      BY <1>2, <2>2
  <2> QED
    BY <2>3 DEF Array!RawMemory
<1>6. j \in Pushes(a) /\ j.op = "push" /\ j.values = s
  <2>1. s # <<>>
    BY <1>1, <1>2
  <2> HIDE DEF s
  <2> QED
    BY <1>2, <2>1 DEF Pushes
<1> HIDE DEF w, j, s
<1>7. Pushing(j, w, 0, s)
  <2>1. <<>> \in Seq(Values) /\ Len(<<>>) = 0 /\ s = <<>> \o s
    BY <1>2
  <2>2. Filled(w, <<>>)
    BY <1>5 DEF Filled
  <2> QED
    BY <1>6, <2>1, <2>2 DEF Pushing
<1>8. Holds(j, w, 0, s) /\ j \in Jobs(a) /\ 0 <= Len(w)
  BY <1>2, <1>5, <1>6, <1>7 DEF Holds, Going, Jobs
<1>9. len' = [len EXCEPT ![a] = 0]
  BY <1>1 DEF ArrayInv
<1>10. job = NoJob \/ job.array = a
  BY <1>1
<1> QED
  BY <1>2, <1>4, <1>5, <1>8, <1>9, <1>10, ArrayStep

\* swap.
LEMMA SwapKeepsArrays ==
  ASSUME ArrayInv, NEW a \in Arrays, NEW b \in Arrays, Array!Swap(a, b)
  PROVE  ArrayInv'
<1>1. /\ job = NoJob /\ job' = NoJob /\ a # b
      /\ mem' = [mem EXCEPT ![a] = mem[b], ![b] = mem[a]]
      /\ len' = [len EXCEPT ![a] = len[b], ![b] = len[a]]
      /\ items' = [items EXCEPT ![a] = items[b], ![b] = items[a]]
  BY DEF Array!Swap, NoJob
<1>2. /\ mem' \in [Arrays -> Seq(Cell)] /\ len' \in [Arrays -> Nat]
      /\ items' \in [Arrays -> Seq(Values)]
  BY <1>1 DEF ArrayInv
<1>3. \A c \in Arrays : \E d \in Arrays :
          mem'[c] = mem[d] /\ len'[c] = len[d] /\ items'[c] = items[d]
  BY <1>1 DEF ArrayInv
<1>4. \A d \in Arrays : len[d] <= Len(mem[d]) /\ Filled(mem[d], items[d]) /\ len[d] = Len(items[d])
  BY <1>1, AtRestArray
<1>5. \A c \in Arrays : len'[c] <= Len(mem'[c]) /\ Filled(mem'[c], items'[c])
                        /\ len'[c] = Len(items'[c])
  BY <1>3, <1>4
<1>6. \A c \in Arrays : ~Array!Working(c)'
  BY <1>1 DEF Array!Working, NoJob
<1> QED
  BY <1>1, <1>2, <1>5, <1>6 DEF ArrayInv

\* There is nothing in the arrays yet.
LEMMA ArrayInvInit == Array!ArrayInit => ArrayInv
<1> SUFFICES ASSUME Array!ArrayInit PROVE ArrayInv
  OBVIOUS
<1>1. /\ mem = [a \in Arrays |-> <<>>] /\ len = [a \in Arrays |-> 0]
      /\ items = [a \in Arrays |-> <<>>] /\ job = NoJob
  BY DEF Array!ArrayInit, NoJob
<1>2. /\ mem \in [Arrays -> Seq(Cell)] /\ len \in [Arrays -> Nat]
      /\ items \in [Arrays -> Seq(Values)]
  BY <1>1
<1>3. \A a \in Arrays : ~Array!Working(a)
  BY <1>1 DEF Array!Working, NoJob
<1>4. \A a \in Arrays : len[a] <= Len(mem[a]) /\ Filled(mem[a], items[a]) /\ len[a] = Len(items[a])
  BY <1>1 DEF Filled
<1> QED
  BY <1>1, <1>2, <1>3, <1>4 DEF ArrayInv

\* Every operation on an array leaves all arrays in order.
LEMMA ArrayInvNext ==
  ASSUME ArrayInv, Array!ArrayNext
  PROVE  ArrayInv'
<1>1. Default \in Values /\ MaxLen \in Nat
  BY ArraysAssumption
<1>2. CASE Array!MoveNext
  BY <1>2, MoveNextKeeps
<1>3. CASE Array!MoveDone
  BY <1>3, MoveDoneKeeps
<1>4. CASE Array!PushGrow
  BY <1>4, PushGrowKeeps
<1>5. CASE Array!PushPlace
  BY <1>5, PushPlaceKeeps
<1>6. CASE Array!ShiftNext
  BY <1>6, ShiftNextKeeps
<1>7. CASE Array!ShiftDone
  BY <1>7, ShiftDoneKeeps
<1>8. CASE Array!ResizeNext
  BY <1>1, <1>8, ResizeNextKeeps
<1>9. CASE Array!ResizeDone
  BY <1>9, ResizeDoneKeeps
<1>10. ASSUME NEW a \in Arrays, NEW v \in Values, Array!PushBack(a, v) PROVE ArrayInv'
  BY <1>10, PushBackKeeps
<1>11. ASSUME NEW a \in Arrays, NEW i \in 1..MaxLen, Array!Erase(a, i) PROVE ArrayInv'
  BY <1>1, <1>11, EraseKeepsArray
<1>12. ASSUME NEW a \in Arrays, NEW n \in 0..MaxLen, Array!Reserve(a, n) PROVE ArrayInv'
  BY <1>1, <1>12, ReserveKeeps
<1>13. ASSUME NEW a \in Arrays, NEW n \in 0..MaxLen, Array!Resize(a, n) PROVE ArrayInv'
  BY <1>1, <1>13, ResizeKeeps
<1>14. ASSUME NEW a \in Arrays, Array!PopBack(a) PROVE ArrayInv'
  BY <1>14, PopBackKeeps
<1>15. ASSUME NEW a \in Arrays, Array!Destroy(a) PROVE ArrayInv'
  BY <1>15, DestroyKeeps
<1>16. ASSUME NEW a \in Arrays, NEW b \in Arrays, Array!Copy(a, b) PROVE ArrayInv'
  BY <1>16, CopyKeeps
<1>17. ASSUME NEW a \in Arrays, NEW b \in Arrays, Array!Swap(a, b) PROVE ArrayInv'
  BY <1>17, SwapKeepsArrays
<1> QED
  BY <1>2, <1>3, <1>4, <1>5, <1>6, <1>7, <1>8, <1>9, <1>10, <1>11, <1>12, <1>13, <1>14,
     <1>15, <1>16, <1>17 DEF Array!ArrayNext

\* What the invariant says of the arrays at rest.
LEMMA ArrayInvGives == ArrayInv => ElementsAreItems
<1> SUFFICES ASSUME ArrayInv PROVE Array!ElementsAreItems
  BY DEF ElementsAreItems
<1>1. ASSUME NEW a \in Arrays
      PROVE  /\ mem[a] \in Seq(Values \cup {Array!Raw, Array!Moved})
             /\ len[a] \in 0..Array!Capacity(a) /\ items[a] \in Seq(Values)
  BY DEF ArrayInv, Cell, Array!Capacity
<1>2. ASSUME NEW a \in Arrays, ~Array!Working(a)
      PROVE  /\ Array!FirstCells(a) = items[a]
             /\ \A i \in (len[a] + 1)..Array!Capacity(a) : mem[a][i] = Array!Raw
  <2>1. mem[a] \in Seq(Cell) /\ items[a] \in Seq(Values) /\ Filled(mem[a], items[a])
        /\ len[a] = Len(items[a])
    BY <1>2 DEF ArrayInv
  <2>2. Array!FirstCells(a) = items[a]
    BY <2>1, FirstCellsAreItems DEF Array!FirstCells
  <2>3. \A i \in (len[a] + 1)..Array!Capacity(a) : mem[a][i] = Array!Raw
    BY <2>1 DEF Filled, Array!Capacity
  <2> QED
    BY <2>2, <2>3
<1> QED
  BY <1>1, <1>2 DEF Array!ElementsAreItems, Array!ArrayTypeOK

\* A step of another container.
LEMMA ArrayInvStays == ArrayInv /\ UNCHANGED arrayVars => ArrayInv'
BY DEF ArrayInv, arrayVars, Array!Working

\* The array holds what its user put into it, after whatever operations.
THEOREM ArraysHoldItems == Spec => []ElementsAreItems
<1>1. Init => ArrayInv
  BY ArrayInvInit DEF Init
<1>2. ArrayInv /\ [Next]_vars => ArrayInv'
  <2> SUFFICES ASSUME ArrayInv, [Next]_vars PROVE ArrayInv'
    OBVIOUS
  <2>1. Array!ArrayNext \/ UNCHANGED arrayVars
    BY DEF Next, vars
  <2> QED
    BY <2>1, ArrayInvNext, ArrayInvStays
<1> QED
  BY <1>1, <1>2, ArrayInvGives, PTL DEF Spec

-----------------------------------------------------------------------------
(* Trees: what the copy constructor has still to visit.                      *)

Sides == Tree!Sides
Root  == Tree!Root
Parent(p) == SubSeq(p, 1, Len(p) - 1)

\* Nodes are sequences of sides, and have their parents with them.
Grows(t) == t \subseteq Seq(Sides) /\ \A p \in t : p = Root \/ Parent(p) \in t

Allocated(p) == p \in source /\ made[p] <= 1 /\ (made[p] = 0 => p \notin tree)

\* The branches kept for later hang below nodes that are copied, each once.
StackGood ==
  /\ stack \in Seq(source)
  /\ \A i \in 1..Len(stack) :
       /\ stack[i] \notin tree /\ stack[i] # Root /\ Parent(stack[i]) \in tree
       /\ \A j \in 1..Len(stack) : stack[i] = stack[j] => i = j

Kept(p) == \E i \in 1..Len(stack) : stack[i] = p

\* The copy is at rhsIt: what it has not copied is there, on the stack or below
\* something it has not copied.
Copying ==
  /\ StackGood
  /\ made = [p \in source |-> IF p \in tree THEN 1 ELSE 0]
  /\ rhsIt \in Seq(Sides)
  /\ rhsIt \in source => /\ rhsIt \notin tree /\ ~Kept(rhsIt)
                         /\ rhsIt = Root \/ Parent(rhsIt) \in tree
  /\ \A p \in source \ tree :
       p = rhsIt \/ Kept(p) \/ (p # Root /\ Parent(p) \notin tree)
  /\ step = "next_branch" => rhsIt \notin source \/ stack = <<>>

TreeInv ==
  /\ source \in Tree!Trees /\ Grows(source) /\ Grows(tree) /\ tree \subseteq source
  /\ step \in {"idle", "next_branch", "down_left", "clear", "gone"}
  /\ step \in {"next_branch", "down_left"} => Copying
  /\ \A p \in source : made[p] <= 1 /\ (made[p] = 0 => p \notin tree)
  /\ step = "idle" => tree = source

\* A node that is not the root is to the left or to the right of its parent.
LEMMA ParentOf ==
  ASSUME NEW p \in Seq(Sides), p # Root
  PROVE  /\ Parent(p) \in Seq(Sides) /\ Len(p) \in Nat /\ Len(p) # 0
         /\ Len(Parent(p)) = Len(p) - 1
         /\ p = Tree!Left(Parent(p)) \/ p = Tree!Right(Parent(p))
<1> DEFINE n == Len(p)
           q == Parent(p)
<1>1. n \in Nat /\ n # 0 /\ n - 1 \in Nat /\ n = (n - 1) + 1
  BY DEF Root, Tree!Root
<1>2. q \in Seq(Sides) /\ Len(q) = n - 1 /\ \A i \in 1..(n - 1) : q[i] = p[i]
  BY <1>1 DEF Parent
<1>3. p[n] \in {"left", "right"}
  BY <1>1 DEF Sides, Tree!Sides
<1>4. p[n] \in Sides
  BY <1>1
<1> HIDE DEF q
<1> DEFINE e == p[n]
<1>5. /\ Append(q, e) \in Seq(Sides) /\ Len(Append(q, e)) = n
      /\ \A i \in 1..n : Append(q, e)[i] = p[i]
  <2>1. e \in Sides /\ p[n] = e
    BY <1>4
  <2> HIDE DEF e, n
  <2>2. /\ Append(q, e) \in Seq(Sides) /\ Len(Append(q, e)) = Len(q) + 1
        /\ Append(q, e)[Len(q) + 1] = e /\ \A i \in 1..Len(q) : Append(q, e)[i] = q[i]
    BY <1>2, <2>1
  <2>3. Len(q) + 1 = n
    BY <1>1, <1>2
  <2> QED
    BY <1>1, <1>2, <2>1, <2>2, <2>3
<1> HIDE DEF e
<1>6. p = Append(q, e)
  <2> DEFINE w == Append(q, e)
  <2>1. w \in Seq(Sides) /\ Len(w) = Len(p) /\ \A i \in 1..Len(p) : w[i] = p[i]
    BY <1>5 DEF n
  <2> HIDE DEF w
  <2>2. w = p
    BY <2>1
  <2> QED
    BY <2>2 DEF w
<1> QED
  BY <1>1, <1>2, <1>3, <1>6 DEF Tree!Left, Tree!Right, q, e

\* The children of a node.
LEMMA ChildrenOf ==
  ASSUME NEW q \in Seq(Sides)
  PROVE  /\ Tree!Left(q) \in Seq(Sides) /\ Tree!Right(q) \in Seq(Sides)
         /\ Tree!Left(q) # Root /\ Tree!Right(q) # Root
         /\ Parent(Tree!Left(q)) = q /\ Parent(Tree!Right(q)) = q
         /\ Tree!Left(q) # q /\ Tree!Right(q) # q /\ Tree!Left(q) # Tree!Right(q)
<1>1. ASSUME NEW e \in Sides
      PROVE  /\ Append(q, e) \in Seq(Sides) /\ Append(q, e) # <<>> /\ Append(q, e) # q
             /\ Parent(Append(q, e)) = q /\ Append(q, e)[Len(q) + 1] = e
  <2> DEFINE f == Append(q, e)
             g == Parent(f)
  <2>1. /\ f \in Seq(Sides) /\ Len(f) = Len(q) + 1 /\ Len(q) \in Nat /\ f[Len(q) + 1] = e
        /\ \A i \in 1..Len(q) : f[i] = q[i]
    OBVIOUS
  <2> HIDE DEF f
  <2>2. Len(f) - 1 = Len(q)
    BY <2>1
  <2>3. g \in Seq(Sides) /\ Len(g) = Len(q) /\ \A i \in 1..Len(q) : g[i] = f[i]
    BY <2>1, <2>2 DEF Parent
  <2> HIDE DEF g
  <2>4. g = q
    BY <2>1, <2>3
  <2>5. f # <<>> /\ f # q
    BY <2>1
  <2> QED
    BY <2>1, <2>4, <2>5 DEF f, g
<1>2. "left" \in Sides /\ "right" \in Sides
  BY DEF Sides, Tree!Sides
<1> QED
  BY <1>1, <1>2 DEF Tree!Left, Tree!Right, Root, Tree!Root

\* The trees of the module.
LEMMA TreesGrow ==
  ASSUME NEW t
  PROVE  /\ t \in Tree!Trees => Grows(t)
         /\ \A s \in Tree!Trees : Grows(t) /\ t \subseteq s => t \in Tree!Trees
<1>1. Tree!Paths \subseteq Seq(Sides)
  <2>1. ASSUME NEW n \in 0..MaxDepth PROVE [1..n -> Sides] \subseteq Seq(Sides)
    <3>1. n \in Nat
      OBVIOUS
    <3> QED
      BY <3>1
  <2> QED
    BY <2>1 DEF Tree!Paths, Sides
<1>2. t \in Tree!Trees => Grows(t)
  BY <1>1 DEF Tree!Trees, Grows, Parent, Root
<1>3. \A s \in Tree!Trees : Grows(t) /\ t \subseteq s => t \in Tree!Trees
  BY DEF Tree!Trees, Grows, Parent, Root
<1> QED
  BY <1>2, <1>3

\* A set that holds 0 and the successors of its numbers holds every number.
LEMMA SetInduction ==
    ASSUME NEW S, 0 \in S, \A n \in Nat : n \in S => n + 1 \in S
    PROVE  Nat \subseteq S
<1> DEFINE less == OpToRel(<, Nat)
           rest == Nat \ S
<1>1. SUFFICES ASSUME rest # {} PROVE FALSE
  OBVIOUS
<1>2. rest \subseteq Nat
  OBVIOUS
<1>3. IsWellFoundedOn(less, Nat)
  BY NatLessThanWellFounded
<1>4. \A x, y \in Nat : x < y => <<x, y>> \in less
  BY DEF OpToRel
<1> HIDE DEF less
<1>5. PICK x \in rest : \A y \in rest : <<y, x>> \notin less
  <2> HIDE DEF rest
  <2> QED
    BY <1>1, <1>2, <1>3, WFMin
<1>6. x # 0 /\ x \in Nat /\ x - 1 \in Nat
  BY <1>5
<1>7. x - 1 < x /\ x - 1 \in S
  <2>1. x - 1 < x
    BY <1>6
  <2>2. <<x - 1, x>> \in less
    BY <1>4, <1>6, <2>1
  <2> HIDE DEF less
  <2> QED
    BY <1>5, <1>6, <2>1, <2>2
<1>8. (x - 1) + 1 \in S
  BY <1>6, <1>7
<1> QED
  BY <1>5, <1>6, <1>8

\* A tree that has the root of another, and the children of what it has, has
\* all of it.
LEMMA GrowsAll ==
  ASSUME NEW t, NEW s, Grows(t), \A p \in t \ s : p # Root /\ Parent(p) \notin s
  PROVE  t \subseteq s
<1> DEFINE good == {n \in Nat : \A p \in t : Len(p) = n => p \in s}
<1>1. 0 \in good
  <2>1. ASSUME NEW p \in t, Len(p) = 0 PROVE p \in s
    <3>1. p = Root
      BY <2>1 DEF Grows, Root, Tree!Root
    <3> QED
      BY <3>1
  <2> QED
    BY <2>1
<1>2. ASSUME NEW n \in Nat, n \in good PROVE n + 1 \in good
  <2>1. ASSUME NEW p \in t, Len(p) = n + 1, p \notin s PROVE FALSE
    <3>1. p # Root /\ Parent(p) \notin s /\ Parent(p) \in t /\ p \in Seq(Sides)
      BY <2>1 DEF Grows
    <3>2. Len(Parent(p)) = Len(p) - 1
      BY <3>1, ParentOf
    <3>3. Len(Parent(p)) = n
      BY <2>1, <3>2
    <3> QED
      BY <1>2, <3>1, <3>3
  <2> QED
    BY <2>1
<1>3. Nat \subseteq good
  <2> HIDE DEF good
  <2> QED
    BY <1>1, <1>2, SetInduction
<1>4. \A p \in t : Len(p) \in Nat
  BY DEF Grows
<1> QED
  BY <1>3, <1>4

\* The copy begins.
LEMMA TreeInvInit == Tree!TreeInit => TreeInv
<1> SUFFICES ASSUME Tree!TreeInit PROVE TreeInv
  OBVIOUS
<1>1. /\ source \in Tree!Trees /\ tree = {} /\ made = [p \in source |-> 0]
      /\ rhsIt = Root /\ stack = <<>>
      /\ step = IF source = {} THEN "idle" ELSE "next_branch"
  BY DEF Tree!TreeInit, Root
<1>2. Grows(source) /\ Grows(tree) /\ tree \subseteq source
  BY <1>1, TreesGrow DEF Grows
<1>3. rhsIt \in Seq(Sides)
  BY <1>1 DEF Root, Tree!Root
<1>4. StackGood /\ \A p : ~Kept(p)
  BY <1>1 DEF StackGood, Kept
<1>5. Copying
  <2>1. made = [p \in source |-> IF p \in tree THEN 1 ELSE 0]
    BY <1>1
  <2>2. \A p \in source \ tree : p = Root \/ Parent(p) \notin tree
    BY <1>1
  <2> QED
    BY <1>1, <1>3, <1>4, <2>1, <2>2 DEF Copying
<1>6. \A p \in source : made[p] <= 1 /\ (made[p] = 0 => p \notin tree)
  BY <1>1
<1> QED
  BY <1>1, <1>2, <1>5, <1>6 DEF TreeInv

\* The branch that is popped is on the stack no more.
LEMMA StackPops ==
  ASSUME StackGood, stack # <<>>
  PROVE  /\ Tree!Top \in source /\ Tree!Top \notin tree /\ Parent(Tree!Top) \in tree
         /\ Tree!Top # Root /\ Kept(Tree!Top)
         /\ Tree!Popped \in Seq(source)
         /\ \A i \in 1..Len(Tree!Popped) : i \in 1..Len(stack) /\ Tree!Popped[i] = stack[i]
         /\ \A i \in 1..Len(Tree!Popped) : Tree!Popped[i] # Tree!Top
         /\ \A p : Kept(p) <=> p = Tree!Top \/ \E i \in 1..Len(Tree!Popped) : Tree!Popped[i] = p
<1> DEFINE n == Len(stack)
           rest == Tree!Popped
<1>1. stack \in Seq(source) /\ n \in Nat /\ n # 0 /\ n - 1 \in Nat /\ n \in 1..n
  BY DEF StackGood
<1>2. Tree!Top = stack[n]
  BY DEF Tree!Top
<1>3. rest \in Seq(source) /\ Len(rest) = n - 1 /\ \A i \in 1..(n - 1) : rest[i] = stack[i]
  <2> DEFINE k == n - 1
  <2>1. stack \in Seq(source) /\ k \in Nat /\ k <= Len(stack) /\ Len(stack) \in Nat
    BY <1>1
  <2>2. rest = SubSeq(stack, 1, k)
    BY DEF Tree!Popped
  <2> HIDE DEF k, rest
  <2>3. rest \in Seq(source) /\ Len(rest) = k /\ \A i \in 1..k : rest[i] = stack[i]
    BY <2>1, <2>2
  <2> QED
    BY <2>3 DEF k
<1> HIDE DEF rest
<1>4. /\ \A i \in 1..(n - 1) : i \in 1..n /\ i # n
      /\ \A i \in 1..n : i = n \/ i \in 1..(n - 1)
  BY <1>1
<1>5. /\ Tree!Top \in source /\ Tree!Top \notin tree /\ Parent(Tree!Top) \in tree
      /\ Tree!Top # Root /\ Kept(Tree!Top)
  BY <1>1, <1>2 DEF StackGood, Kept
<1>6. \A i \in 1..Len(rest) : i \in 1..n /\ rest[i] = stack[i] /\ rest[i] # Tree!Top
  BY <1>1, <1>2, <1>3, <1>4 DEF StackGood
<1>7. \A p : Kept(p) <=> p = Tree!Top \/ \E i \in 1..Len(rest) : rest[i] = p
  <2>1. ASSUME NEW p, Kept(p) PROVE p = Tree!Top \/ \E i \in 1..Len(rest) : rest[i] = p
    <3>1. PICK i \in 1..n : stack[i] = p
      BY <2>1 DEF Kept
    <3>2. CASE i = n
      BY <1>2, <3>1, <3>2
    <3>3. CASE i # n
      <4>1. i \in 1..Len(rest)
        BY <1>3, <1>4, <3>3
      <4> QED
        BY <1>6, <3>1, <4>1
    <3> QED
      BY <3>2, <3>3
  <2>2. \A i \in 1..Len(rest) : Kept(rest[i])
    BY <1>6 DEF Kept
  <2> QED
    BY <1>5, <2>1, <2>2
<1> QED
  BY <1>1, <1>3, <1>5, <1>6, <1>7 DEF rest

\* The outer loop of the copy constructor: the copy is complete, or it goes on
\* with the branch that was kept last.
LEMMA NextBranchKeeps ==
  ASSUME TreeInv, Tree!NextBranch
  PROVE  TreeInv'
<1>1. Copying /\ step = "next_branch" /\ UNCHANGED <<source, tree, made>>
  BY DEF TreeInv, Tree!NextBranch
<1>2. CASE rhsIt \notin source /\ stack = <<>>
  <2>1. step' = "idle"
    BY <1>2 DEF Tree!NextBranch
  <2>2. ~ \E p : Kept(p)
    BY <1>2 DEF Kept
  <2>3. \A p \in source \ tree : p # Root /\ Parent(p) \notin tree
    BY <1>1, <1>2, <2>2 DEF Copying
  <2>4. source \subseteq tree
    BY <2>3, GrowsAll DEF TreeInv
  <2> QED
    BY <1>1, <2>1, <2>4 DEF TreeInv
<1>3. CASE ~(rhsIt \notin source /\ stack = <<>>) /\ stack = <<>>
  <2>1. step' = "down_left" /\ rhsIt' = rhsIt /\ stack' = stack
    BY <1>3 DEF Tree!NextBranch
  <2>2. Copying'
    BY <1>1, <2>1 DEF Copying, StackGood, Kept
  <2> QED
    BY <1>1, <2>1, <2>2 DEF TreeInv
<1>4. CASE stack # <<>>
  <2>1. step' = "down_left" /\ rhsIt' = Tree!Top /\ stack' = Tree!Popped /\ rhsIt \notin source
    BY <1>1, <1>4 DEF Tree!NextBranch, Copying
  <2>2. /\ Tree!Top \in source /\ Tree!Top \notin tree /\ Parent(Tree!Top) \in tree
        /\ stack' \in Seq(source)
        /\ \A i \in 1..Len(stack') : i \in 1..Len(stack) /\ stack'[i] = stack[i]
        /\ \A i \in 1..Len(stack') : stack'[i] # Tree!Top
        /\ \A p : Kept(p) <=> p = Tree!Top \/ Kept(p)'
    BY <1>1, <1>4, <2>1, StackPops DEF Copying, Kept
  <2>3. rhsIt' \in Seq(Sides)
    BY <2>1, <2>2 DEF TreeInv, Grows
  <2>4. StackGood'
    BY <1>1, <2>2 DEF Copying, StackGood
  <2>5. ~Kept(rhsIt)'
    BY <2>1, <2>2 DEF Kept
  <2>6. \A p \in source \ tree :
          p = rhsIt' \/ Kept(p)' \/ (p # Root /\ Parent(p) \notin tree)
    BY <1>1, <2>1, <2>2 DEF Copying
  <2>7. Copying'
    BY <1>1, <2>1, <2>2, <2>3, <2>4, <2>5, <2>6 DEF Copying
  <2> QED
    BY <1>1, <2>1, <2>7 DEF TreeInv
<1> QED
  BY <1>2, <1>3, <1>4

\* The inner loop copies a node and keeps the branch to its right.
LEMMA DownLeftKeeps ==
  ASSUME TreeInv, Tree!DownLeft
  PROVE  TreeInv'
<1> DEFINE q == rhsIt
           left == Tree!Left(q)
           right == Tree!Right(q)
<1>1. /\ Copying /\ step = "down_left" /\ q \in source /\ UNCHANGED <<source, step>>
      /\ tree' = tree \cup {q} /\ made' = [made EXCEPT ![q] = @ + 1] /\ rhsIt' = left
      /\ stack' = IF right \in source THEN Append(stack, right) ELSE stack
  BY DEF TreeInv, Tree!DownLeft
<1>2. /\ q \in Seq(Sides) /\ q \notin tree /\ ~Kept(q) /\ (q = Root \/ Parent(q) \in tree)
  BY <1>1 DEF Copying
<1>3. /\ left \in Seq(Sides) /\ right \in Seq(Sides) /\ left # Root /\ right # Root
      /\ Parent(left) = q /\ Parent(right) = q /\ left # q /\ right # q /\ left # right
  BY <1>2, ChildrenOf
<1> HIDE DEF q, left, right
<1>4. left \notin tree /\ right \notin tree
  BY <1>2, <1>3 DEF TreeInv, Grows
<1>5. ~Kept(left) /\ ~Kept(right)
  BY <1>1, <1>2, <1>3 DEF Copying, StackGood, Kept
<1>6. Grows(tree') /\ tree' \subseteq source
  BY <1>1, <1>2 DEF TreeInv, Grows
<1>7. made' = [p \in source |-> IF p \in tree' THEN 1 ELSE 0]
  BY <1>1, <1>2 DEF Copying
<1>8. StackGood' /\ \A p : Kept(p)' <=> Kept(p) \/ (p = right /\ right \in source)
  <2> DEFINE n == Len(stack)
  <2>1. n \in Nat /\ stack \in Seq(source)
    BY <1>1 DEF Copying, StackGood
  <2>2. \A i \in 1..n : /\ stack[i] \notin tree' /\ stack[i] # Root /\ Parent(stack[i]) \in tree'
                        /\ stack[i] # right
                        /\ \A j \in 1..n : stack[i] = stack[j] => i = j
    BY <1>1, <1>2, <1>5 DEF Copying, StackGood, Kept
  <2>3. CASE right \in source
    <3>1. /\ stack' \in Seq(source) /\ Len(stack') = n + 1 /\ stack'[n + 1] = right
          /\ \A i \in 1..n : stack'[i] = stack[i]
      BY <1>1, <2>1, <2>3
    <3> HIDE DEF n
    <3>2. \A i \in 1..(n + 1) : i = n + 1 \/ i \in 1..n
      BY <2>1
    <3>3. right \notin tree' /\ Parent(right) \in tree'
      BY <1>1, <1>3, <1>4
    <3>4. ASSUME NEW i \in 1..Len(stack')
          PROVE  /\ stack'[i] \notin tree' /\ stack'[i] # Root /\ Parent(stack'[i]) \in tree'
                 /\ \A j \in 1..Len(stack') : stack'[i] = stack'[j] => i = j
      BY <1>3, <2>2, <3>1, <3>2, <3>3
    <3>5. StackGood'
      BY <1>1, <3>1, <3>4 DEF StackGood
    <3>6. \A p : Kept(p)' <=> Kept(p) \/ p = right
      <4>1. \A i \in 1..n : i \in 1..(n + 1)
        BY <2>1
      <4>2. n + 1 \in 1..(n + 1)
        BY <2>1
      <4> QED
        BY <3>1, <3>2, <4>1, <4>2 DEF Kept, n
    <3> QED
      BY <2>3, <3>5, <3>6
  <2>4. CASE right \notin source
    <3>1. stack' = stack
      BY <1>1, <2>4
    <3>2. StackGood'
      BY <1>1, <2>1, <2>2, <3>1 DEF StackGood
    <3> QED
      BY <2>4, <3>1, <3>2 DEF Kept
  <2> QED
    BY <2>3, <2>4
<1>9. ASSUME NEW p \in source \ tree'
      PROVE  p = left \/ Kept(p)' \/ (p # Root /\ Parent(p) \notin tree')
  <2>1. p \in source \ tree /\ p # q
    BY <1>1, <1>9
  <2>2. Kept(p) \/ (p # Root /\ Parent(p) \notin tree)
    BY <1>1, <2>1 DEF Copying, q
  <2>3. CASE Kept(p)
    BY <1>8, <2>3
  <2>4. CASE p # Root /\ Parent(p) \notin tree
    <3>1. CASE Parent(p) = q
      <4>1. p = left \/ p = right
        BY <2>1, <2>4, <3>1, ParentOf DEF TreeInv, Grows, left, right
      <4> QED
        BY <1>8, <2>1, <4>1
    <3>2. CASE Parent(p) # q
      BY <1>1, <2>4, <3>2
    <3> QED
      BY <3>1, <3>2
  <2> QED
    BY <2>2, <2>3, <2>4
<1>10. rhsIt' \in source => rhsIt' \notin tree' /\ ~Kept(rhsIt)' /\ Parent(rhsIt') \in tree'
  BY <1>1, <1>3, <1>4, <1>5, <1>8 DEF Kept
<1>11. Copying'
  BY <1>1, <1>3, <1>7, <1>8, <1>9, <1>10 DEF Copying
<1>12. \A p \in source : made'[p] <= 1 /\ (made'[p] = 0 => p \notin tree')
  BY <1>7
<1> QED
  BY <1>1, <1>6, <1>11, <1>12 DEF TreeInv

\* A leaf that is cleared takes no other node from the tree.
LEMMA EraseLeafKeeps ==
  ASSUME TreeInv, Tree!EraseLeaf
  PROVE  TreeInv'
<1> DEFINE q == Tree!Top
<1>1. /\ step = "clear" /\ step' = "clear" /\ UNCHANGED <<source, made>>
      /\ q \in tree /\ Tree!Left(q) \notin tree /\ Tree!Right(q) \notin tree
      /\ tree' = tree \ {q}
  BY DEF Tree!EraseLeaf, Tree!IsLeaf
<1> HIDE DEF q
<1>2. Grows(tree')
  <2>1. ASSUME NEW p \in tree', p # Root PROVE Parent(p) \in tree'
    <3>1. p \in Seq(Sides) /\ Parent(p) \in tree
      BY <1>1, <2>1 DEF TreeInv, Grows
    <3>2. p = Tree!Left(Parent(p)) \/ p = Tree!Right(Parent(p))
      BY <2>1, <3>1, ParentOf
    <3>3. Parent(p) # q
      BY <1>1, <2>1, <3>2
    <3> QED
      BY <1>1, <3>1, <3>3
  <2> QED
    BY <1>1, <2>1 DEF TreeInv, Grows
<1> QED
  BY <1>1, <1>2 DEF TreeInv

\* Every step of a member function of the tree.
LEMMA TreeInvNext ==
  ASSUME TreeInv, Tree!TreeNext
  PROVE  TreeInv'
<1>1. CASE Tree!NextBranch
  BY <1>1, NextBranchKeeps
<1>2. CASE Tree!DownLeft
  BY <1>2, DownLeftKeeps
<1>3. CASE Tree!BranchDone
  <2>1. /\ step = "down_left" /\ step' = "next_branch" /\ rhsIt \notin source
        /\ UNCHANGED <<source, tree, made, rhsIt, stack>>
    BY <1>3 DEF Tree!BranchDone
  <2>2. Copying'
    BY <2>1 DEF TreeInv, Copying, StackGood, Kept
  <2> QED
    BY <2>1, <2>2 DEF TreeInv
<1>4. CASE Tree!Clear
  BY <1>4 DEF TreeInv, Tree!Clear
<1>5. CASE Tree!EraseLeaf
  BY <1>5, EraseLeafKeeps
<1>6. CASE Tree!Descend
  BY <1>6 DEF TreeInv, Tree!Descend
<1>7. CASE Tree!ClearDone
  BY <1>7 DEF TreeInv, Tree!ClearDone
<1> QED
  BY <1>1, <1>2, <1>3, <1>4, <1>5, <1>6, <1>7 DEF Tree!TreeNext

\* A step of another container.
LEMMA TreeInvStays == TreeInv /\ UNCHANGED treeVars => TreeInv'
BY DEF TreeInv, treeVars, Copying, StackGood, Kept

\* What the invariant says of a tree.
LEMMA TreeInvGives == TreeInv => CopyIsSource
<1> SUFFICES ASSUME TreeInv PROVE Tree!CopyIsSource
  BY DEF CopyIsSource
<1>1. tree \in Tree!Trees
  BY TreesGrow DEF TreeInv
<1> QED
  BY <1>1 DEF TreeInv, Tree!CopyIsSource

\* A finished copy has exactly the branches of its source, each allocated once,
\* and no node of it ever hangs where its parent is missing.
THEOREM CopiesAreSources == Spec => []CopyIsSource
<1>1. Init => TreeInv
  BY TreeInvInit DEF Init
<1>2. TreeInv /\ [Next]_vars => TreeInv'
  <2> SUFFICES ASSUME TreeInv, [Next]_vars PROVE TreeInv'
    OBVIOUS
  <2>1. Tree!TreeNext \/ UNCHANGED treeVars
    BY DEF Next, vars
  <2> QED
    BY <2>1, TreeInvNext, TreeInvStays
<1> QED
  BY <1>1, <1>2, TreeInvGives, PTL DEF Spec

-----------------------------------------------------------------------------
(* The catalogue: which keys are behind each head, and where the threads are. *)

Null == Table!Null

\* The pointers there are.
Pointers == Table!Heads \cup Table!TableNodes

\* The cell behind i nodes of a bucket.
Spot(h, s, i) == IF i = 0 THEN h ELSE <<s[i]>>

\* Behind each head are the nodes of its keys, none of which is anywhere else.
Linked(f, B) ==
  /\ \A h \in Table!Heads : \A i \in 0..Len(B[h]) :
       f[Spot(h, B[h], i)] = IF i < Len(B[h]) THEN <<B[h][i + 1]>> ELSE Null
  /\ \A h \in Table!Heads, g \in Table!Heads : \A i \in 1..Len(B[h]), j \in 1..Len(B[g]) :
       B[h][i] = B[g][j] => h = g /\ i = j

Contains(s, k) == \E i \in 1..Len(s) : s[i] = k

\* The keys behind the heads are those that were added, each in the bucket in
\* which it will be looked for, or already in the one after the rehash.
Complete(B) ==
  /\ \A k \in Keys : k \in present <=> \E h \in Table!Heads : Contains(B[h], k)
  /\ \A h \in Table!Heads : \A k \in Keys : Contains(B[h], k) =>
       \/ h = Table!Head(generation, k)
       \/ Table!Rehashing /\ h = Table!Head(generation + 1, k)

\* A thread on its way through the bucket of k has not passed k.
Walking(c, k, B) ==
  LET h == Table!Head(generation, k) IN
  \E i \in 0..Len(B[h]) : c = Spot(h, B[h], i) /\ \A j \in 1..i : B[h][j] # k

\* The buckets in front of the rehash are empty, and the one it is at is not.
Emptied(beg, B) ==
  /\ beg.bucket \in 0..Table!BucketsCnt[generation]
  /\ \A b \in Table!Buckets(generation) : b < beg.bucket => B[<<generation, b>>] = <<>>
  /\ beg.bucket # Table!BucketsCnt[generation] =>
       beg.at = <<generation, beg.bucket>> /\ B[beg.at] # <<>>

\* What a thread has found out so far is still so.
OnTheWay(r, B) ==
  /\ r.op \in {"look", "compare"} /\ ~r.torn =>
       /\ ~Table!Rehashing /\ (r.had => r.key \in present)
       /\ IF generation = 0 THEN r.at = Null ELSE Walking(r.at, r.key, B)
  /\ r.op = "compare" /\ ~r.torn /\ generation # 0 =>
       hnext[r.at] \in {Null, <<r.key>>} \/ r.met
  /\ r.op = "add" => IF generation = 0 THEN r.at = Null ELSE Walking(r.at, r.key, B)
  /\ r.op = "refind" => generation # 0 /\ Walking(r.at, r.key, B)
  /\ r.op = "rehash" => generation \in 1..(MaxGeneration - 1) /\ Emptied(r.beg, B)

Catalogued(B) == Linked(hnext, B) /\ Complete(B) /\ \A t \in Threads : OnTheWay(thread[t], B)

\* What a thread can be doing.
Looks == [op : {"look", "compare"}, key : Keys, torn : BOOLEAN, had : BOOLEAN, met : BOOLEAN,
          at : Pointers \cup {Null}]
Answers == [op : {"answered"}, key : Keys, torn : BOOLEAN, had : BOOLEAN, met : BOOLEAN,
            found : BOOLEAN]
Adds == [op : {"add", "refind"}, key : Keys, at : Pointers \cup {Null}]
Rehashes == [op : {"rehash"}, key : Keys, beg : [bucket : Nat, at : Table!Heads]]
Steps ==
  Looks \cup Answers \cup Adds \cup Rehashes \cup {[op |-> "count"], Table!IdleThread}

Counting == \E t \in Threads : thread[t].op = "count"

\* A key that was linked but not counted yet is the one that is missing in size_.
TableTypes ==
  /\ hnext \in [Pointers -> Table!TableNodes \cup {Null}]
  /\ generation \in 0..MaxGeneration /\ hsize \in Nat /\ present \subseteq Keys
  /\ thread \in [Threads -> Steps] /\ raced \in BOOLEAN
  /\ hsize + (IF Counting THEN 1 ELSE 0) = Cardinality(present)

\* One thread at most adds, and a node nobody added points nowhere.
OneAdds ==
  /\ \A t, u \in Threads : Table!Adding(t) /\ Table!Adding(u) => t = u
  /\ generation = 0 => present = {}
  /\ \A k \in Keys \ present : hnext[<<k>>] = Null

TableInv ==
  /\ TableTypes /\ LookupsRight
  /\ ~raced => OneAdds /\ \E B \in [Table!Heads -> Seq(Keys)] : Catalogued(B)

\* An array of buckets is half as large again as the one before.
Sizes(F, n) ==
  \A g \in 1..n : F[g] = IF g = 1 THEN MinBuckets ELSE (3 * F[g - 1]) \div 2

\* The recursion has a solution.
LEMMA SizesExist ==
  ASSUME NEW n \in Nat
  PROVE  \E F : F = [g \in 1..n |-> IF g = 1 THEN MinBuckets ELSE (3 * F[g - 1]) \div 2]
<1> DEFINE good == {m \in Nat : \E F \in [1..m -> Nat] : Sizes(F, m)}
<1>1. 0 \in good
  <2> DEFINE F == [g \in 1..0 |-> 0]
  <2>1. F \in [1..0 -> Nat] /\ Sizes(F, 0)
    BY DEF Sizes
  <2> QED
    BY <2>1
<1>2. ASSUME NEW m \in Nat, m \in good PROVE m + 1 \in good
  <2>1. PICK F \in [1..m -> Nat] : Sizes(F, m)
    BY <1>2
  <2> DEFINE last == IF m = 0 THEN MinBuckets ELSE (3 * F[m]) \div 2
             G == [g \in 1..(m + 1) |-> IF g = m + 1 THEN last ELSE F[g]]
  <2>2. last \in Nat
    <3>1. CASE m = 0
      BY <3>1, TableAssumption
    <3>2. CASE m # 0
      <4>1. F[m] \in Nat
        BY <2>1, <3>2
      <4>2. \A x \in Nat : (3 * x) \div 2 \in Nat
        OBVIOUS
      <4> QED
        BY <3>2, <4>1, <4>2
    <3> QED
      BY <3>1, <3>2
  <2>3. \A g \in 1..(m + 1) : g = m + 1 \/ g \in 1..m
    OBVIOUS
  <2> HIDE DEF last
  <2>4. G \in [1..(m + 1) -> Nat]
    BY <2>1, <2>2, <2>3
  <2>5. ASSUME NEW g \in 1..(m + 1)
        PROVE  G[g] = IF g = 1 THEN MinBuckets ELSE (3 * G[g - 1]) \div 2
    <3>1. CASE g = m + 1
      <4>1. CASE m = 0
        BY <3>1, <4>1 DEF last
      <4>2. CASE m # 0
        <5>1. g # 1 /\ g - 1 = m /\ m \in 1..(m + 1) /\ m # m + 1
          BY <3>1, <4>2
        <5>2. G[g] = last /\ G[m] = F[m]
          BY <3>1, <5>1
        <5> HIDE DEF G
        <5> QED
          BY <4>2, <5>1, <5>2 DEF last
      <4> QED
        BY <4>1, <4>2
    <3>2. CASE g # m + 1
      <4>1. g \in 1..m
        BY <2>3, <3>2
      <4>2. G[g] = F[g]
        BY <3>2
      <4>3. g # 1 => G[g - 1] = F[g - 1]
        <5>1. g # 1 => g - 1 \in 1..(m + 1) /\ g - 1 # m + 1
          BY <4>1
        <5> QED
          BY <5>1
      <4> HIDE DEF G
      <4> QED
        BY <2>1, <4>1, <4>2, <4>3 DEF Sizes
    <3> QED
      BY <3>1, <3>2
  <2> HIDE DEF G
  <2>6. Sizes(G, m + 1)
    BY <2>5 DEF Sizes
  <2>7. m + 1 \in Nat
    OBVIOUS
  <2> QED
    BY <2>4, <2>6, <2>7
<1>3. n \in good
  <2> HIDE DEF good
  <2> QED
    BY <1>1, <1>2, SetInduction
<1>4. PICK F \in [1..n -> Nat] : Sizes(F, n)
  BY <1>3
<1>5. F = [g \in 1..n |-> F[g]]
  OBVIOUS
<1>6. [g \in 1..n |-> F[g]]
        = [g \in 1..n |-> IF g = 1 THEN MinBuckets ELSE (3 * F[g - 1]) \div 2]
  BY <1>4 DEF Sizes
<1> QED
  BY <1>5, <1>6

\* Every array of buckets has buckets.
LEMMA BucketsAre ==
  ASSUME NEW g \in 1..MaxGeneration
  PROVE  Table!BucketsCnt[g] \in Nat \ {0}
<1> DEFINE F == Table!BucketsCnt
<1>1. F = [h \in 1..MaxGeneration |-> IF h = 1 THEN MinBuckets ELSE (3 * F[h - 1]) \div 2]
  <2>1. \E G : G = [h \in 1..MaxGeneration |->
                      IF h = 1 THEN MinBuckets ELSE (3 * G[h - 1]) \div 2]
    BY SizesExist, TableAssumption
  <2> QED
    BY <2>1, Zenon DEF Table!BucketsCnt
<1> HIDE DEF F
<1> DEFINE good == {m \in Nat : \A h \in 1..MaxGeneration : h <= m => F[h] \in Nat \ {0}}
<1>2. 0 \in good
  OBVIOUS
<1>3. ASSUME NEW m \in Nat, m \in good PROVE m + 1 \in good
  <2>1. ASSUME NEW h \in 1..MaxGeneration, h <= m + 1 PROVE F[h] \in Nat \ {0}
    <3>1. F[h] = IF h = 1 THEN MinBuckets ELSE (3 * F[h - 1]) \div 2
      BY <1>1, Zenon
    <3>2. CASE h = 1
      BY <3>1, <3>2, TableAssumption
    <3>3. CASE h # 1
      <4>1. h - 1 \in 1..MaxGeneration /\ h - 1 <= m
        <5> HIDE DEF good
        <5> QED
          BY <2>1, <3>3, TableAssumption
      <4>2. F[h - 1] \in Nat \ {0}
        BY <1>3, <4>1
      <4>3. \A x \in Nat \ {0} : (3 * x) \div 2 \in Nat \ {0}
        OBVIOUS
      <4> QED
        BY <3>1, <3>3, <4>2, <4>3
    <3> QED
      BY <3>2, <3>3
  <2> QED
    BY <2>1
<1>4. g \in good
  <2> HIDE DEF good
  <2> QED
    BY <1>2, <1>3, SetInduction
<1> QED
  BY <1>4 DEF F

\* Heads are pairs, nodes are not.
LEMMA HeadsAre ==
  /\ \A h \in Table!Heads :
       \E g \in 1..MaxGeneration : \E b \in Table!Buckets(g) : h = <<g, b>>
  /\ \A g \in 1..MaxGeneration : \A b \in Table!Buckets(g) : <<g, b>> \in Table!Heads
  /\ \A h \in Table!Heads : h # Null /\ h \notin Table!TableNodes
BY DEF Table!Heads, Table!TableNodes, Null, Table!Null

\* The bucket of a key.
LEMMA HeadOf ==
  ASSUME NEW g \in 1..MaxGeneration, NEW k \in Keys
  PROVE  Table!Head(g, k) \in Table!Heads /\ Table!Head(g, k)[1] = g
<1> DEFINE n == Table!BucketsCnt[g]
<1>1. n \in Nat \ {0}
  BY BucketsAre
<1>2. k \in Nat
  BY TableAssumption
<1>3. MCHash[k] = k
  BY DEF MCHash
<1> HIDE DEF n
<1>4. k % n \in 0..(n - 1)
  BY <1>1, <1>2
<1>5. Table!Head(g, k) = <<g, k % n>>
  BY <1>3 DEF Table!Head, n
<1>6. k % n \in Table!Buckets(g)
  BY <1>4 DEF Table!Buckets, n
<1> QED
  BY <1>5, <1>6, HeadsAre

\* Nodes and the keys in them.
LEMMA NodesAre ==
  /\ \A k \in Keys : <<k>> \in Table!TableNodes /\ <<k>> # Null /\ <<k>> \notin Table!Heads
  /\ \A k, j : <<k>> = <<j>> => k = j
  /\ \A k : Table!KeyOf(<<k>>) = k
  /\ \A c \in Table!TableNodes : \E k \in Keys : c = <<k>>
BY HeadsAre DEF Table!TableNodes, Null, Table!Null, Table!KeyOf

\* A key put behind i others moves those behind it by one.
LEMMA KeyInserted ==
  ASSUME NEW s \in Seq(Keys), NEW i \in 0..Len(s), NEW k \in Keys
  PROVE  LET w == Inserted(s, i + 1, k) IN
         /\ w \in Seq(Keys) /\ Len(w) = Len(s) + 1
         /\ \A j \in 1..(Len(s) + 1) :
              /\ j <= i => w[j] = s[j]
              /\ j = i + 1 => w[j] = k
              /\ j > i + 1 => w[j] = s[j - 1]
<1> DEFINE w == Inserted(s, i + 1, k)
<1>1. Len(s) \in Nat
  OBVIOUS
<1>2. \A j \in 1..(Len(s) + 1) :
        (IF j < i + 1 THEN s[j] ELSE IF j = i + 1 THEN k ELSE s[j - 1]) \in Keys
  BY <1>1
<1>3. w \in [1..(Len(s) + 1) -> Keys]
  BY <1>2 DEF Inserted
<1>4. w \in Seq(Keys) /\ Len(w) = Len(s) + 1
  BY <1>1, <1>3
<1>5. \A j \in 1..(Len(s) + 1) :
        w[j] = IF j < i + 1 THEN s[j] ELSE IF j = i + 1 THEN k ELSE s[j - 1]
  BY DEF Inserted
<1> HIDE DEF w
<1>6. \A j \in 1..(Len(s) + 1) : j <= i => j < i + 1
  BY <1>1
<1> QED
  BY <1>1, <1>4, <1>5, <1>6 DEF w

\* A key taken out moves those behind it back.
LEMMA KeyRemoved ==
  ASSUME NEW s \in Seq(Keys), NEW i \in 1..Len(s)
  PROVE  LET w == Removed(s, i) IN
         /\ w \in Seq(Keys) /\ Len(w) = Len(s) - 1
         /\ \A j \in 1..(Len(s) - 1) : w[j] = IF j < i THEN s[j] ELSE s[j + 1]
<1> DEFINE w == Removed(s, i)
           n == Len(s) - 1
<1>1. Len(s) \in Nat /\ n \in Nat /\ n + 1 = Len(s)
  OBVIOUS
<1>2. \A j \in 1..n : (IF j < i THEN s[j] ELSE s[j + 1]) \in Keys
  BY <1>1
<1>3. w \in [1..n -> Keys]
  BY <1>2 DEF Removed
<1>4. \A j \in 1..n : w[j] = IF j < i THEN s[j] ELSE s[j + 1]
  BY DEF Removed
<1> HIDE DEF w, n
<1>5. w \in Seq(Keys) /\ Len(w) = n
  BY <1>1, <1>3
<1> QED
  BY <1>4, <1>5 DEF w, n

\* No cell is at two places.
LEMMA SpotsDiffer ==
  ASSUME NEW f, NEW B \in [Table!Heads -> Seq(Keys)], Linked(f, B),
         NEW h \in Table!Heads, NEW i \in 0..Len(B[h]),
         NEW g \in Table!Heads, NEW j \in 0..Len(B[g]), Spot(h, B[h], i) = Spot(g, B[g], j)
  PROVE  h = g /\ i = j
<1>1. /\ \A a \in 1..Len(B[h]) : B[h][a] \in Keys
      /\ \A a \in 1..Len(B[g]) : B[g][a] \in Keys
  OBVIOUS
<1>2. (i = 0 \/ i \in 1..Len(B[h])) /\ (j = 0 \/ j \in 1..Len(B[g]))
  OBVIOUS
<1>3. CASE i = 0 /\ j = 0
  BY <1>3 DEF Spot
<1>4. CASE i = 0 /\ j # 0
  BY <1>1, <1>2, <1>4, NodesAre DEF Spot
<1>5. CASE i # 0 /\ j = 0
  BY <1>1, <1>2, <1>5, NodesAre DEF Spot
<1>6. CASE i # 0 /\ j # 0
  <2>1. B[h][i] = B[g][j]
    BY <1>6 DEF Spot
  <2> QED
    BY <1>2, <1>6, <2>1 DEF Linked
<1> QED
  BY <1>3, <1>4, <1>5, <1>6

\* The pointers along one bucket, and that its keys differ.
Chained(f, h, s) ==
  /\ \A i \in 0..Len(s) : f[Spot(h, s, i)] = IF i < Len(s) THEN <<s[i + 1]>> ELSE Null
  /\ \A i, j \in 1..Len(s) : s[i] = s[j] => i = j

\* Buckets are linked when each is and no two share a key.
LEMMA LinkedIsChained ==
  ASSUME NEW f, NEW B
  PROVE  Linked(f, B) <=>
           /\ \A h \in Table!Heads : Chained(f, h, B[h])
           /\ \A h, g \in Table!Heads : \A i \in 1..Len(B[h]), j \in 1..Len(B[g]) :
                B[h][i] = B[g][j] => h = g
BY DEF Linked, Chained

\* insert_after_node, for one bucket.
LEMMA ChainInsert ==
  ASSUME NEW f, NEW g, NEW h, NEW s \in Seq(Keys), Chained(f, h, s), NEW i \in 0..Len(s),
         NEW k \in Keys, ~Contains(s, k),
         g[<<k>>] = f[Spot(h, s, i)], g[Spot(h, s, i)] = <<k>>,
         \A j \in 0..Len(s) : j # i => g[Spot(h, s, j)] = f[Spot(h, s, j)]
  PROVE  Chained(g, h, Inserted(s, i + 1, k))
<1> DEFINE w == Inserted(s, i + 1, k)
           n == Len(s)
<1>1. n \in Nat /\ i \in Nat /\ i <= n
  OBVIOUS
<1>2. /\ w \in Seq(Keys) /\ Len(w) = n + 1
      /\ \A j \in 1..(n + 1) : /\ j <= i => w[j] = s[j]
                               /\ j = i + 1 => w[j] = k
                               /\ j > i + 1 => w[j] = s[j - 1]
  BY KeyInserted
<1> HIDE DEF w
<1>3. \A j \in 0..n : f[Spot(h, s, j)] = IF j < n THEN <<s[j + 1]>> ELSE Null
  BY DEF Chained
<1>4. \A j \in 1..n : s[j] # k
  BY DEF Contains
<1>5. \A a, b \in 1..n : s[a] = s[b] => a = b
  BY DEF Chained
<1> HIDE DEF n
<1>6. ASSUME NEW j \in 0..(n + 1)
      PROVE  g[Spot(h, w, j)] = IF j < n + 1 THEN <<w[j + 1]>> ELSE Null
  <2>1. CASE j < i
    <3>1. Spot(h, w, j) = Spot(h, s, j)
      BY <1>1, <1>2, <2>1 DEF Spot
    <3>2. j \in 0..n /\ j # i /\ j < n /\ j + 1 \in 1..(n + 1) /\ j + 1 <= i /\ j < n + 1
      BY <1>1, <2>1
    <3>3. g[Spot(h, w, j)] = <<s[j + 1]>>
      BY <1>3, <3>1, <3>2 DEF n
    <3> QED
      BY <1>2, <3>2, <3>3
  <2>2. CASE j = i
    <3>1. Spot(h, w, j) = Spot(h, s, i)
      BY <1>1, <1>2, <2>2 DEF Spot
    <3>2. j + 1 \in 1..(n + 1) /\ j + 1 = i + 1 /\ j < n + 1
      BY <1>1, <2>2
    <3> QED
      BY <1>2, <3>1, <3>2
  <2>3. CASE j = i + 1
    <3>1. Spot(h, w, j) = <<k>>
      <4>1. j # 0 /\ j \in 1..(n + 1)
        BY <1>1, <2>3
      <4> QED
        BY <1>2, <2>3, <4>1 DEF Spot
    <3>2. g[Spot(h, w, j)] = IF i < n THEN <<s[i + 1]>> ELSE Null
      BY <1>1, <1>3, <3>1
    <3>3. CASE i < n
      <4>1. j < n + 1 /\ j + 1 \in 1..(n + 1) /\ j + 1 > i + 1 /\ (j + 1) - 1 = i + 1
        BY <1>1, <2>3, <3>3
      <4>2. w[j + 1] = s[i + 1]
        BY <1>2, <4>1
      <4> QED
        BY <3>2, <3>3, <4>1, <4>2
    <3>4. CASE ~(i < n)
      <4>1. ~(j < n + 1)
        BY <1>1, <2>3, <3>4
      <4> QED
        BY <3>2, <3>4, <4>1
    <3> QED
      BY <3>3, <3>4
  <2>4. CASE j > i + 1
    <3>1. /\ j \in 1..(n + 1) /\ j # 0 /\ j - 1 # 0 /\ j - 1 \in 0..n /\ j - 1 # i
          /\ (j - 1) + 1 = j /\ (j < n + 1 <=> j - 1 < n)
          /\ (j < n + 1 => j + 1 \in 1..(n + 1) /\ j + 1 > i + 1 /\ (j + 1) - 1 = j)
      BY <1>1, <2>4
    <3>2. Spot(h, w, j) = Spot(h, s, j - 1)
      BY <1>2, <2>4, <3>1 DEF Spot
    <3>3. g[Spot(h, w, j)] = IF j < n + 1 THEN <<s[j]>> ELSE Null
      BY <1>3, <3>1, <3>2 DEF n
    <3>4. j < n + 1 => w[j + 1] = s[j]
      BY <1>2, <3>1
    <3> QED
      BY <3>3, <3>4
  <2> QED
    BY <1>1, <2>1, <2>2, <2>3, <2>4
<1>7. ASSUME NEW a \in 1..(n + 1), NEW b \in 1..(n + 1), w[a] = w[b]
      PROVE  a = b
  <2> DEFINE From(c) == IF c <= i THEN c ELSE c - 1
  <2>1. \A c \in 1..(n + 1) : c # i + 1 => From(c) \in 1..n /\ w[c] = s[From(c)]
    BY <1>1, <1>2
  <2>2. CASE a = i + 1 \/ b = i + 1
    BY <1>2, <1>4, <1>7, <2>1, <2>2
  <2>3. CASE a # i + 1 /\ b # i + 1
    <3>1. From(a) = From(b)
      <4> HIDE DEF From
      <4> QED
        BY <1>5, <1>7, <2>1, <2>3
    <3> QED
      BY <1>1, <2>3, <3>1
  <2> QED
    BY <2>2, <2>3
<1> QED
  BY <1>2, <1>6, <1>7 DEF Chained, w

\* erase_after, for one bucket.
LEMMA ChainRemove ==
  ASSUME NEW f, NEW g, NEW h, NEW s \in Seq(Keys), Chained(f, h, s), NEW i \in 1..Len(s),
         g[Spot(h, s, i - 1)] = f[<<s[i]>>],
         \A j \in 0..Len(s) : j # i /\ j # i - 1 => g[Spot(h, s, j)] = f[Spot(h, s, j)]
  PROVE  Chained(g, h, Removed(s, i))
<1> DEFINE w == Removed(s, i)
           n == Len(s)
<1>1. n \in Nat /\ i \in Nat /\ i <= n /\ i >= 1
  OBVIOUS
<1>2. /\ w \in Seq(Keys) /\ Len(w) = n - 1
      /\ \A j \in 1..(n - 1) : w[j] = IF j < i THEN s[j] ELSE s[j + 1]
  BY KeyRemoved
<1> HIDE DEF w
<1>3. \A j \in 0..n : f[Spot(h, s, j)] = IF j < n THEN <<s[j + 1]>> ELSE Null
  BY DEF Chained
<1>4. \A a, b \in 1..n : s[a] = s[b] => a = b
  BY DEF Chained
<1> HIDE DEF n
<1>5. ASSUME NEW j \in 0..(n - 1)
      PROVE  g[Spot(h, w, j)] = IF j < n - 1 THEN <<w[j + 1]>> ELSE Null
  <2>1. CASE j < i - 1
    <3>1. /\ j \in 0..n /\ j # i /\ j # i - 1 /\ j < n /\ j < n - 1 /\ j + 1 \in 1..(n - 1)
          /\ j + 1 < i /\ (j # 0 => j \in 1..(n - 1) /\ j < i)
      BY <1>1, <2>1
    <3>2. Spot(h, w, j) = Spot(h, s, j)
      BY <1>2, <3>1 DEF Spot
    <3>3. g[Spot(h, w, j)] = <<s[j + 1]>>
      BY <1>3, <3>1, <3>2 DEF n
    <3> QED
      BY <1>2, <3>1, <3>3
  <2>2. CASE j = i - 1
    <3>1. (j # 0 => j \in 1..(n - 1) /\ j < i) /\ i \in 0..n /\ i # 0
      BY <1>1, <2>2
    <3>2. Spot(h, w, j) = Spot(h, s, i - 1)
      BY <1>2, <2>2, <3>1 DEF Spot
    <3>3. f[<<s[i]>>] = IF i < n THEN <<s[i + 1]>> ELSE Null
      BY <1>3, <3>1 DEF Spot
    <3>4. CASE i < n
      <4>1. j < n - 1 /\ j + 1 = i /\ i \in 1..(n - 1) /\ ~(i < i)
        BY <1>1, <2>2, <3>4
      <4>2. w[i] = s[i + 1]
        BY <1>2, <4>1
      <4> QED
        BY <3>2, <3>3, <3>4, <4>1, <4>2
    <3>5. CASE ~(i < n)
      <4>1. ~(j < n - 1)
        BY <1>1, <2>2, <3>5
      <4> QED
        BY <3>2, <3>3, <3>5, <4>1
    <3> QED
      BY <3>4, <3>5
  <2>3. CASE j >= i
    <3>1. /\ j # 0 /\ j \in 1..(n - 1) /\ ~(j < i) /\ j + 1 \in 0..n /\ j + 1 # i
          /\ j + 1 # i - 1 /\ j + 1 # 0 /\ (j < n - 1 <=> j + 1 < n)
          /\ (j < n - 1 => j + 1 \in 1..(n - 1) /\ ~(j + 1 < i))
      BY <1>1, <2>3
    <3>2. Spot(h, w, j) = Spot(h, s, j + 1)
      BY <1>2, <3>1 DEF Spot
    <3>3. g[Spot(h, w, j)] = IF j + 1 < n THEN <<s[(j + 1) + 1]>> ELSE Null
      BY <1>3, <3>1, <3>2 DEF n
    <3> QED
      BY <1>2, <3>1, <3>3
  <2> QED
    BY <1>1, <2>1, <2>2, <2>3
<1>6. ASSUME NEW a \in 1..(n - 1), NEW b \in 1..(n - 1), w[a] = w[b]
      PROVE  a = b
  <2> DEFINE From(c) == IF c < i THEN c ELSE c + 1
  <2>1. \A c \in 1..(n - 1) : From(c) \in 1..n /\ w[c] = s[From(c)]
    BY <1>1, <1>2
  <2>2. From(a) = From(b)
    <3> HIDE DEF From
    <3> QED
      BY <1>4, <1>6, <2>1
  <2> QED
    BY <1>1, <2>2
<1> QED
  BY <1>2, <1>5, <1>6 DEF Chained, w

\* The buckets with k behind i nodes of bucket h, and without its node i.
PutIn(B, h, i, k) == [B EXCEPT ![h] = Inserted(B[h], i + 1, k)]
TakenOut(B, h, i) == [B EXCEPT ![h] = Removed(B[h], i)]

\* Buckets are linked when each is and no key is in two.
LEMMA LinkedIsApart ==
  ASSUME NEW f, NEW B
  PROVE  Linked(f, B) <=>
           /\ \A h \in Table!Heads : Chained(f, h, B[h])
           /\ \A h, g \in Table!Heads : \A x : Contains(B[h], x) /\ Contains(B[g], x) => h = g
<1>1. ASSUME \A h, g \in Table!Heads : \A x : Contains(B[h], x) /\ Contains(B[g], x) => h = g,
             NEW h \in Table!Heads, NEW g \in Table!Heads,
             NEW i \in 1..Len(B[h]), NEW j \in 1..Len(B[g]), B[h][i] = B[g][j]
      PROVE  h = g
  <2>1. Contains(B[h], B[h][i]) /\ Contains(B[g], B[h][i])
    BY <1>1 DEF Contains
  <2> QED
    BY <1>1, <2>1
<1>2. ASSUME \A h, g \in Table!Heads : \A i \in 1..Len(B[h]), j \in 1..Len(B[g]) :
               B[h][i] = B[g][j] => h = g,
             NEW h \in Table!Heads, NEW g \in Table!Heads, NEW x,
             Contains(B[h], x), Contains(B[g], x)
      PROVE  h = g
  BY <1>2 DEF Contains
<1> QED
  BY <1>1, <1>2, LinkedIsChained

\* The cells in front of and in a bucket.
LEMMA SpotsAre ==
  ASSUME NEW B \in [Table!Heads -> Seq(Keys)], NEW h \in Table!Heads, NEW i \in 0..Len(B[h])
  PROVE  /\ Spot(h, B[h], i) \in Pointers
         /\ i = 0 => Spot(h, B[h], i) = h
         /\ i # 0 => B[h][i] \in Keys /\ Spot(h, B[h], i) = <<B[h][i]>>
         /\ \A k \in Keys : Spot(h, B[h], i) = <<k>> => Contains(B[h], k)
<1>1. i # 0 => i \in 1..Len(B[h]) /\ B[h][i] \in Keys
  OBVIOUS
<1>2. i # 0 => Contains(B[h], B[h][i])
  BY <1>1 DEF Contains
<1> QED
  BY <1>1, <1>2, NodesAre, Zenon DEF Spot, Pointers

\* The keys of a bucket into which one was put.
LEMMA ContainsInserted ==
  ASSUME NEW s \in Seq(Keys), NEW i \in 0..Len(s), NEW k \in Keys, NEW x
  PROVE  Contains(Inserted(s, i + 1, k), x) <=> Contains(s, x) \/ x = k
<1> DEFINE w == Inserted(s, i + 1, k)
           n == Len(s)
<1>1. n \in Nat /\ i \in Nat /\ i <= n
  OBVIOUS
<1>2. /\ w \in Seq(Keys) /\ Len(w) = n + 1
      /\ \A j \in 1..(n + 1) : /\ j <= i => w[j] = s[j]
                               /\ j = i + 1 => w[j] = k
                               /\ j > i + 1 => w[j] = s[j - 1]
  BY KeyInserted
<1> HIDE DEF w
<1>3. ASSUME Contains(w, x) PROVE Contains(s, x) \/ x = k
  <2>1. PICK j \in 1..(n + 1) : w[j] = x
    BY <1>2, <1>3 DEF Contains
  <2>2. (j <= i /\ j \in 1..n) \/ j = i + 1 \/ (j > i + 1 /\ j - 1 \in 1..n)
    BY <1>1
  <2> QED
    BY <1>2, <2>1, <2>2 DEF Contains
<1>4. ASSUME x = k PROVE Contains(w, x)
  <2>1. i + 1 \in 1..(n + 1)
    BY <1>1
  <2> QED
    BY <1>2, <1>4, <2>1 DEF Contains
<1>5. ASSUME Contains(s, x) PROVE Contains(w, x)
  <2>1. PICK j \in 1..n : s[j] = x
    BY <1>5 DEF Contains
  <2>2. CASE j <= i
    BY <1>1, <1>2, <2>1, <2>2 DEF Contains
  <2>3. CASE j > i
    <3>1. j + 1 \in 1..(n + 1) /\ j + 1 > i + 1 /\ (j + 1) - 1 = j
      BY <1>1, <2>3
    <3>2. w[j + 1] = x
      BY <1>2, <2>1, <3>1
    <3> QED
      BY <1>2, <3>1, <3>2 DEF Contains
  <2> QED
    BY <1>1, <2>2, <2>3
<1> QED
  BY <1>3, <1>4, <1>5 DEF w

\* The keys of a bucket from which one was taken.
LEMMA ContainsRemoved ==
  ASSUME NEW s \in Seq(Keys), NEW i \in 1..Len(s), \A a, b \in 1..Len(s) : s[a] = s[b] => a = b,
         NEW x
  PROVE  Contains(Removed(s, i), x) <=> Contains(s, x) /\ x # s[i]
<1> DEFINE w == Removed(s, i)
           n == Len(s)
<1>1. n \in Nat /\ i \in Nat /\ i <= n /\ i >= 1
  OBVIOUS
<1>2. /\ w \in Seq(Keys) /\ Len(w) = n - 1
      /\ \A j \in 1..(n - 1) : w[j] = IF j < i THEN s[j] ELSE s[j + 1]
  BY KeyRemoved
<1> HIDE DEF w
<1>3. ASSUME Contains(w, x) PROVE Contains(s, x) /\ x # s[i]
  <2>1. PICK j \in 1..(n - 1) : w[j] = x
    BY <1>2, <1>3 DEF Contains
  <2>2. (j < i /\ j \in 1..n /\ j # i) \/ (~(j < i) /\ j + 1 \in 1..n /\ j + 1 # i)
    BY <1>1
  <2>3. i \in 1..n
    OBVIOUS
  <2> HIDE DEF n
  <2>4. PICK a \in 1..n : a # i /\ s[a] = x
    BY <1>2, <2>1, <2>2
  <2> QED
    BY <2>3, <2>4 DEF Contains, n
<1>4. ASSUME Contains(s, x), x # s[i] PROVE Contains(w, x)
  <2>1. PICK j \in 1..n : s[j] = x
    BY <1>4 DEF Contains
  <2>2. j # i
    BY <1>4, <2>1
  <2>3. (j < i /\ j \in 1..(n - 1))
        \/ (~(j - 1 < i) /\ j - 1 \in 1..(n - 1) /\ (j - 1) + 1 = j)
    BY <1>1, <2>2
  <2>4. \E a \in 1..(n - 1) : w[a] = x
    BY <1>2, <2>1, <2>3
  <2> QED
    BY <1>2, <2>4 DEF Contains
<1> QED
  BY <1>3, <1>4 DEF w

\* The pointer at a cell goes to the node of k, or to what is behind that node;
\* no other pointer changes.
LinksIn(f, g, c, k) ==
  /\ g[<<k>>] = f[c] /\ g[c] = <<k>>
  /\ \A d \in Pointers : d # <<k>> /\ d # c => g[d] = f[d]
Passes(f, g, c, k) ==
  /\ g[c] = f[<<k>>]
  /\ \A d \in Pointers : d # <<k>> /\ d # c => g[d] = f[d]

\* The buckets C are B and k in h, or B without k, which was in h.
More(B, C, h, k) ==
  /\ C \in [Table!Heads -> Seq(Keys)]
  /\ \A q \in Table!Heads : \A x : Contains(C[q], x) <=> Contains(B[q], x) \/ (q = h /\ x = k)
  /\ \A q \in Table!Heads : q # h => C[q] = B[q]
Less(B, C, h, k) ==
  /\ C \in [Table!Heads -> Seq(Keys)]
  /\ \A q \in Table!Heads : \A x : Contains(C[q], x) <=> Contains(B[q], x) /\ x # k
  /\ \A q \in Table!Heads : q # h => C[q] = B[q]

Nowhere(B, k) == \A q \in Table!Heads : ~Contains(B[q], k)

\* A node is linked behind another cell: the other buckets stay what they are.
LEMMA Links ==
  ASSUME NEW f, NEW g, NEW B \in [Table!Heads -> Seq(Keys)], Linked(f, B),
         NEW h \in Table!Heads, NEW i \in 0..Len(B[h]), NEW k \in Keys,
         Nowhere(B, k), LinksIn(f, g, Spot(h, B[h], i), k)
  PROVE  /\ Linked(g, PutIn(B, h, i, k)) /\ More(B, PutIn(B, h, i, k), h, k)
         /\ PutIn(B, h, i, k)[h] = Inserted(B[h], i + 1, k)
<1> DEFINE C == PutIn(B, h, i, k)
<1>1. B[h] \in Seq(Keys)
  OBVIOUS
<1>2. Inserted(B[h], i + 1, k) \in Seq(Keys)
  BY <1>1, KeyInserted
<1>3. /\ C \in [Table!Heads -> Seq(Keys)] /\ C[h] = Inserted(B[h], i + 1, k)
      /\ \A q \in Table!Heads : q # h => C[q] = B[q]
  BY <1>2, Zenon DEF PutIn
<1> HIDE DEF C
<1>4. \A q \in Table!Heads : \A x : Contains(C[q], x) <=> Contains(B[q], x) \/ (q = h /\ x = k)
  <2> SUFFICES ASSUME NEW q \in Table!Heads, NEW x
               PROVE  Contains(C[q], x) <=> Contains(B[q], x) \/ (q = h /\ x = k)
    OBVIOUS
  <2>1. Contains(Inserted(B[h], i + 1, k), x) <=> Contains(B[h], x) \/ x = k
    BY <1>1, ContainsInserted
  <2> QED
    BY <1>3, <2>1, Zenon
<1>5. ASSUME NEW q \in Table!Heads, NEW j \in 0..Len(B[q]), ~(q = h /\ j = i)
      PROVE  g[Spot(q, B[q], j)] = f[Spot(q, B[q], j)]
  <2>1. Spot(q, B[q], j) \in Pointers /\ Spot(q, B[q], j) # <<k>>
    BY SpotsAre DEF Nowhere
  <2>2. Spot(q, B[q], j) # Spot(h, B[h], i)
    BY <1>5, SpotsDiffer
  <2> QED
    BY <2>1, <2>2 DEF LinksIn
<1>6. \A q \in Table!Heads : Chained(f, q, B[q])
  BY LinkedIsApart
<1>7. Chained(g, h, C[h])
  <2>1. ~Contains(B[h], k) /\ Chained(f, h, B[h])
    BY <1>6 DEF Nowhere
  <2>2. \A j \in 0..Len(B[h]) : j # i => g[Spot(h, B[h], j)] = f[Spot(h, B[h], j)]
    BY <1>5
  <2> QED
    BY <1>1, <1>3, <2>1, <2>2, ChainInsert DEF LinksIn
<1>8. ASSUME NEW q \in Table!Heads, q # h PROVE Chained(g, q, C[q])
  <2>1. C[q] = B[q] /\ Chained(f, q, B[q])
    BY <1>3, <1>6, <1>8
  <2>2. \A j \in 0..Len(B[q]) : g[Spot(q, B[q], j)] = f[Spot(q, B[q], j)]
    BY <1>5, <1>8
  <2> QED
    BY <2>1, <2>2 DEF Chained
<1>9. \A p, q \in Table!Heads : \A x : Contains(B[p], x) /\ Contains(B[q], x) => p = q
  BY LinkedIsApart
<1>10. \A p, q \in Table!Heads : \A x : Contains(C[p], x) /\ Contains(C[q], x) => p = q
  <2> SUFFICES ASSUME NEW p \in Table!Heads, NEW q \in Table!Heads, NEW x,
                      Contains(C[p], x), Contains(C[q], x)
               PROVE  p = q
    OBVIOUS
  <2>1. CASE x = k
    <3>1. p = h /\ q = h
      BY <1>4, <2>1 DEF Nowhere
    <3> QED
      BY <3>1
  <2>2. CASE x # k
    <3>1. Contains(B[p], x) /\ Contains(B[q], x)
      BY <1>4, <2>2
    <3> QED
      BY <1>9, <3>1
  <2> QED
    BY <2>1, <2>2
<1>11. Linked(g, C)
  BY <1>7, <1>8, <1>10, LinkedIsApart
<1> QED
  BY <1>3, <1>4, <1>11 DEF C, More

\* A node is taken out: the other buckets stay what they are.
LEMMA Unlinks ==
  ASSUME NEW f, NEW g, NEW B \in [Table!Heads -> Seq(Keys)], Linked(f, B),
         NEW h \in Table!Heads, NEW i \in 1..Len(B[h]),
         Passes(f, g, Spot(h, B[h], i - 1), B[h][i])
  PROVE  Linked(g, TakenOut(B, h, i)) /\ Less(B, TakenOut(B, h, i), h, B[h][i])
<1> DEFINE C == TakenOut(B, h, i)
<1>1. B[h] \in Seq(Keys) /\ i \in 0..Len(B[h]) /\ i - 1 \in 0..Len(B[h]) /\ i # 0 /\ i # i - 1
  OBVIOUS
<1>2. Removed(B[h], i) \in Seq(Keys)
  BY <1>1, KeyRemoved
<1>3. /\ C \in [Table!Heads -> Seq(Keys)] /\ C[h] = Removed(B[h], i)
      /\ \A q \in Table!Heads : q # h => C[q] = B[q]
  BY <1>2, Zenon DEF TakenOut
<1> HIDE DEF C
<1>4. /\ \A q \in Table!Heads : Chained(f, q, B[q])
      /\ \A p, q \in Table!Heads : \A x : Contains(B[p], x) /\ Contains(B[q], x) => p = q
  BY LinkedIsApart
<1>5. \A a, b \in 1..Len(B[h]) : B[h][a] = B[h][b] => a = b
  BY <1>4 DEF Chained
<1>6. \A q \in Table!Heads : \A x : Contains(C[q], x) <=> Contains(B[q], x) /\ x # B[h][i]
  <2> SUFFICES ASSUME NEW q \in Table!Heads, NEW x
               PROVE  Contains(C[q], x) <=> Contains(B[q], x) /\ x # B[h][i]
    OBVIOUS
  <2>1. Contains(Removed(B[h], i), x) <=> Contains(B[h], x) /\ x # B[h][i]
    BY <1>1, <1>5, ContainsRemoved
  <2>2. Contains(B[h], B[h][i])
    BY DEF Contains
  <2> QED
    BY <1>3, <1>4, <2>1, <2>2, Zenon
<1>7. ASSUME NEW q \in Table!Heads, NEW j \in 0..Len(B[q]),
             ~(q = h /\ j = i), ~(q = h /\ j = i - 1)
      PROVE  g[Spot(q, B[q], j)] = f[Spot(q, B[q], j)]
  <2>1. Spot(q, B[q], j) \in Pointers /\ Spot(h, B[h], i) = <<B[h][i]>>
    BY <1>1, SpotsAre
  <2>2. Spot(q, B[q], j) # Spot(h, B[h], i)
    BY <1>1, <1>7, SpotsDiffer
  <2>3. Spot(q, B[q], j) # Spot(h, B[h], i - 1)
    BY <1>1, <1>7, SpotsDiffer
  <2> QED
    BY <2>1, <2>2, <2>3 DEF Passes
<1>8. Chained(g, h, C[h])
  <2>1. \A j \in 0..Len(B[h]) :
          j # i /\ j # i - 1 => g[Spot(h, B[h], j)] = f[Spot(h, B[h], j)]
    BY <1>7
  <2> QED
    BY <1>1, <1>3, <1>4, <2>1, ChainRemove DEF Passes
<1>9. ASSUME NEW q \in Table!Heads, q # h PROVE Chained(g, q, C[q])
  <2>1. C[q] = B[q] /\ Chained(f, q, B[q])
    BY <1>3, <1>4, <1>9
  <2>2. \A j \in 0..Len(B[q]) : g[Spot(q, B[q], j)] = f[Spot(q, B[q], j)]
    BY <1>7, <1>9
  <2> QED
    BY <2>1, <2>2 DEF Chained
<1>10. \A p, q \in Table!Heads : \A x : Contains(C[p], x) /\ Contains(C[q], x) => p = q
  BY <1>4, <1>6, Zenon
<1>11. Linked(g, C)
  BY <1>8, <1>9, <1>10, LinkedIsApart
<1> QED
  BY <1>3, <1>6, <1>11 DEF C, Less

\* What a thread that does something knows.
LEMMA StepsAre ==
  ASSUME NEW r \in Steps
  PROVE  /\ r.op \in {"idle", "look", "compare", "answered", "add", "refind", "rehash", "count"}
         /\ r.op = "idle" => r = Table!IdleThread
         /\ r.op \in {"look", "compare"} => r \in Looks
         /\ r.op = "answered" => r \in Answers
         /\ r.op \in {"add", "refind"} => r \in Adds
         /\ r.op = "rehash" => r \in Rehashes
         /\ r.op = "count" => r = [op |-> "count"]
<1>1. CASE r \in Looks
  BY <1>1 DEF Looks
<1>2. CASE r \in Answers
  BY <1>2 DEF Answers
<1>3. CASE r \in Adds
  BY <1>3 DEF Adds
<1>4. CASE r \in Rehashes
  BY <1>4 DEF Rehashes
<1>5. CASE r = [op |-> "count"]
  BY <1>5
<1>6. CASE r = Table!IdleThread
  BY <1>6 DEF Table!IdleThread
<1> QED
  BY <1>1, <1>2, <1>3, <1>4, <1>5, <1>6 DEF Steps

\* The bucket of a key that is looked for from its head on.
LEMMA StartsWalk ==
  ASSUME NEW B \in [Table!Heads -> Seq(Keys)], generation \in 1..MaxGeneration, NEW k \in Keys
  PROVE  Walking(Table!Head(generation, k), k, B)
<1> DEFINE h == Table!Head(generation, k)
<1>1. h \in Table!Heads
  BY HeadOf
<1> HIDE DEF h
<1>2. 0 \in 0..Len(B[h]) /\ h = Spot(h, B[h], 0) /\ \A j \in 1..0 : B[h][j] # k
  BY <1>1 DEF Spot
<1>3. \E i \in 0..Len(B[h]) : h = Spot(h, B[h], i) /\ \A j \in 1..i : B[h][j] # k
  BY <1>2
<1> QED
  BY <1>3 DEF Walking, h

\* A key that was added is in its bucket, unless a rehash is moving it.
LEMMA InItsBucket ==
  ASSUME NEW B, Complete(B), ~Table!Rehashing, generation \in 1..MaxGeneration, NEW k \in Keys
  PROVE  /\ k \in present <=> Contains(B[Table!Head(generation, k)], k)
         /\ k \in present <=> \E h \in Table!Heads : Contains(B[h], k)
<1>1. Table!Head(generation, k) \in Table!Heads
  BY HeadOf
<1> QED
  BY <1>1 DEF Complete

\* find_prev_if: what the next node says of the bucket.
LEMMA WalkOn ==
  ASSUME NEW B \in [Table!Heads -> Seq(Keys)], Linked(hnext, B), generation \in 1..MaxGeneration,
         NEW k \in Keys, NEW c, Walking(c, k, B)
  PROVE  LET h == Table!Head(generation, k) IN
         /\ h \in Table!Heads /\ c \in Pointers /\ c # Null
         /\ hnext[c] = <<k>> => Contains(B[h], k)
         /\ hnext[c] = Null => ~Contains(B[h], k) /\ c = Spot(h, B[h], Len(B[h]))
         /\ hnext[c] # <<k>> /\ hnext[c] # Null => Walking(hnext[c], k, B)
<1> DEFINE h == Table!Head(generation, k)
           n == Len(B[h])
<1>1. h \in Table!Heads
  BY HeadOf
<1>2. PICK i \in 0..n : c = Spot(h, B[h], i) /\ \A j \in 1..i : B[h][j] # k
  BY DEF Walking
<1> HIDE DEF h
<1>3. B[h] \in Seq(Keys) /\ n \in Nat
  BY <1>1
<1>4. c \in Pointers
  BY <1>1, <1>2, SpotsAre
<1>5. c # Null
  BY <1>4, HeadsAre, NodesAre, Zenon DEF Pointers
<1>6. hnext[c] = IF i < n THEN <<B[h][i + 1]>> ELSE Null
  BY <1>1, <1>2 DEF Linked
<1>7. CASE i < n
  <2>1. i + 1 \in 1..n /\ i + 1 \in 0..n /\ i + 1 # 0
    BY <1>3, <1>7
  <2>2. B[h][i + 1] \in Keys
    BY <1>3, <2>1
  <2>3. hnext[c] = <<B[h][i + 1]>> /\ hnext[c] # Null
    BY <1>6, <1>7, <2>2, NodesAre
  <2>4. hnext[c] = <<k>> => Contains(B[h], k)
    BY <2>1, <2>3, NodesAre DEF Contains
  <2>5. ASSUME hnext[c] # <<k>> PROVE Walking(hnext[c], k, B)
    <3>1. hnext[c] = Spot(h, B[h], i + 1)
      BY <2>1, <2>3 DEF Spot
    <3>2. \A j \in 1..(i + 1) : j \in 1..i \/ j = i + 1
      BY <1>3
    <3>3. \A j \in 1..(i + 1) : B[h][j] # k
      BY <1>2, <2>3, <2>5, <3>2
    <3> QED
      BY <2>1, <3>1, <3>3 DEF Walking, h
  <2> QED
    BY <1>1, <1>4, <1>5, <2>3, <2>4, <2>5 DEF h
<1>8. CASE ~(i < n)
  <2>1. i = n
    BY <1>3, <1>8
  <2>2. hnext[c] = Null
    BY <1>6, <1>8
  <2>3. ~Contains(B[h], k)
    BY <1>2, <2>1 DEF Contains
  <2> QED
    BY <1>1, <1>2, <1>4, <1>5, <2>1, <2>2, <2>3, NodesAre DEF h
<1> QED
  BY <1>7, <1>8

\* A set of numbers that is not empty has a smallest one.
LEMMA MinOf ==
  ASSUME NEW S \in SUBSET Nat, S # {}
  PROVE  Table!Min(S) \in S /\ \A d \in S : Table!Min(S) <= d
<1> DEFINE good == {m \in Nat : (\E x \in S : x <= m) => \E x \in S : \A y \in S : x <= y}
<1>1. 0 \in good
  OBVIOUS
<1>2. ASSUME NEW m \in Nat, m \in good PROVE m + 1 \in good
  <2>1. ASSUME \E x \in S : x <= m + 1 PROVE \E x \in S : \A y \in S : x <= y
    <3>1. CASE \E x \in S : x <= m
      BY <1>2, <3>1
    <3>2. CASE ~\E x \in S : x <= m
      BY <2>1, <3>2
    <3> QED
      BY <3>1, <3>2
  <2> QED
    BY <2>1
<1>3. PICK x \in S : TRUE
  OBVIOUS
<1>4. x \in good
  <2>1. x \in Nat
    OBVIOUS
  <2> HIDE DEF good
  <2> QED
    BY <1>1, <1>2, <2>1, SetInduction
<1>5. \E m \in S : \A y \in S : m <= y
  BY <1>4
<1> QED
  BY <1>5, Zenon DEF Table!Min

\* beg.validate() finds the first bucket from here on that has nodes.
LEMMA ValidatedIs ==
  ASSUME NEW f, NEW B \in [Table!Heads -> Seq(Keys)], Linked(f, B),
         generation \in 1..MaxGeneration, NEW b \in Table!Buckets(generation),
         \A d \in Table!Buckets(generation) : d < b => B[<<generation, d>>] = <<>>
  PROVE  /\ Emptied(Table!Validated(f, b, <<generation, b>>), B)
         /\ Table!Validated(f, b, <<generation, b>>) \in [bucket : Nat, at : Table!Heads]
<1> DEFINE n == Table!BucketsCnt[generation]
           c == <<generation, b>>
           behind == {d \in Table!Buckets(generation) : d > b /\ f[<<generation, d>>] # Null}
           v == Table!Validated(f, b, c)
<1>1. n \in Nat \ {0} /\ Table!Buckets(generation) = 0..(n - 1)
  BY BucketsAre DEF Table!Buckets
<1>2. \A d \in Table!Buckets(generation) : <<generation, d>> \in Table!Heads
  BY HeadsAre
<1>3. ASSUME NEW d \in Table!Buckets(generation)
      PROVE  f[<<generation, d>>] # Null <=> B[<<generation, d>>] # <<>>
  <2> DEFINE h == <<generation, d>>
  <2>1. h \in Table!Heads
    BY <1>2
  <2> HIDE DEF h
  <2>2. B[h] \in Seq(Keys) /\ 0 \in 0..Len(B[h]) /\ Spot(h, B[h], 0) = h
    BY <2>1 DEF Spot
  <2>3. f[h] = IF 0 < Len(B[h]) THEN <<B[h][0 + 1]>> ELSE Null
    BY <2>1, <2>2 DEF Linked
  <2>4. <<B[h][0 + 1]>> # Null
    BY DEF Null, Table!Null
  <2>5. 0 < Len(B[h]) <=> B[h] # <<>>
    BY <2>2
  <2> QED
    BY <2>3, <2>4, <2>5 DEF h
<1>4. v = IF f[c] # Null THEN [bucket |-> b, at |-> c]
          ELSE IF behind = {} THEN [bucket |-> n, at |-> c]
          ELSE [bucket |-> Table!Min(behind), at |-> <<generation, Table!Min(behind)>>]
  BY DEF Table!Validated, Null, Table!Null
<1>5. behind \in SUBSET Nat /\ behind \subseteq Table!Buckets(generation)
  BY <1>1
<1> HIDE DEF n, v
<1>6. CASE f[c] # Null
  <2>1. v = [bucket |-> b, at |-> c]
    BY <1>4, <1>6
  <2>2. B[c] # <<>>
    BY <1>3, <1>6
  <2>3. v \in [bucket : Nat, at : Table!Heads] /\ v.bucket \in 0..n /\ v.bucket = b /\ v.at = c
    BY <1>1, <1>2, <2>1
  <2> QED
    BY <2>2, <2>3 DEF Emptied, v, n
<1>7. CASE f[c] = Null /\ behind = {}
  <2>1. v = [bucket |-> n, at |-> c]
    BY <1>4, <1>7
  <2>2. v \in [bucket : Nat, at : Table!Heads] /\ v.bucket \in 0..n /\ v.bucket = n
    BY <1>1, <1>2, <2>1
  <2>3. ASSUME NEW d \in Table!Buckets(generation) PROVE B[<<generation, d>>] = <<>>
    <3>1. CASE d < b
      BY <3>1
    <3>2. CASE d = b
      BY <1>3, <1>7, <3>2
    <3>3. CASE d > b
      BY <1>3, <1>7, <3>3
    <3> QED
      BY <1>1, <3>1, <3>2, <3>3
  <2> QED
    BY <2>2, <2>3 DEF Emptied, v, n
<1>8. CASE f[c] = Null /\ behind # {}
  <2> DEFINE m == Table!Min(behind)
  <2>1. m \in behind /\ \A d \in behind : m <= d
    BY <1>5, <1>8, MinOf
  <2>2. v = [bucket |-> m, at |-> <<generation, m>>]
    BY <1>4, <1>8
  <2>3. m \in Table!Buckets(generation) /\ m > b /\ f[<<generation, m>>] # Null
    BY <2>1
  <2> HIDE DEF m
  <2>4. /\ v \in [bucket : Nat, at : Table!Heads] /\ v.bucket \in 0..n /\ v.bucket = m
        /\ v.at = <<generation, m>>
    BY <1>1, <1>2, <2>2, <2>3
  <2>5. B[v.at] # <<>>
    BY <1>3, <2>3, <2>4
  <2>6. ASSUME NEW d \in Table!Buckets(generation), d < m PROVE B[<<generation, d>>] = <<>>
    <3>1. CASE d < b
      BY <3>1
    <3>2. CASE d = b
      BY <1>3, <1>8, <3>2
    <3>3. CASE d > b
      <4>1. d \notin behind
        BY <1>1, <2>1, <2>3, <2>6
      <4> QED
        BY <1>3, <3>3, <4>1
    <3> QED
      BY <1>1, <3>1, <3>2, <3>3
  <2> QED
    BY <2>4, <2>5, <2>6 DEF Emptied, v, n
<1> QED
  BY <1>6, <1>7, <1>8

\* One thread goes on.
LEMMA GoesOn ==
  ASSUME TableTypes, NEW t \in Threads, NEW r \in Steps, Table!Goes(t, r)
  PROVE  /\ thread' \in [Threads -> Steps] /\ thread'[t] = r
         /\ \A u \in Threads : u # t => thread'[u] = thread[u]
BY DEF TableTypes, Table!Goes

\* A thread goes on without touching the table, and is not the one that rehashes
\* or has a key to count: the others are where they were.
LEMMA QuietStep ==
  ASSUME TableInv, ~raced, NEW t \in Threads, NEW r \in Steps, Table!Goes(t, r),
         UNCHANGED <<hnext, generation, hsize, present>>, raced' \in BOOLEAN,
         thread[t].op \notin {"rehash", "count"}, r.op \notin {"rehash", "count"},
         r.op = "answered" /\ ~r.torn => (r.had => r.found) /\ (r.found => r.key \in present \/ r.met),
         ~raced' /\ r.op \in {"add", "refind"} =>
           \A u \in Threads : Table!Adding(u) => u = t,
         \A B \in [Table!Heads -> Seq(Keys)] : Catalogued(B) => OnTheWay(r, B)
  PROVE  TableInv'
<1>1. TableTypes /\ LookupsRight /\ OneAdds
  BY DEF TableInv
<1>2. /\ thread' \in [Threads -> Steps] /\ thread'[t] = r
      /\ \A u \in Threads : u # t => thread'[u] = thread[u]
  BY <1>1, GoesOn
<1>3. PICK B \in [Table!Heads -> Seq(Keys)] : Catalogued(B)
  BY DEF TableInv
<1>4. Table!Rehashing' <=> Table!Rehashing
  BY <1>2 DEF Table!Rehashing
<1>5. Counting' <=> Counting
  BY <1>2 DEF Counting
<1>6. TableTypes'
  BY <1>1, <1>2, <1>5 DEF TableTypes
<1>7. LookupsRight'
  <2>1. \A u \in Threads : (thread[u].op = "answered" /\ ~thread[u].torn) =>
          (thread[u].had => thread[u].found) /\ (thread[u].found => thread[u].key \in present \/ thread[u].met)
    BY <1>1, Zenon DEF LookupsRight, Table!LookupsRight
  <2>2. \A u \in Threads : (thread'[u].op = "answered" /\ ~thread'[u].torn) =>
          (thread'[u].had => thread'[u].found) /\ (thread'[u].found => thread'[u].key \in present \/ thread'[u].met)
    BY <1>2, <2>1, Zenon
  <2> QED
    BY <2>2, Zenon DEF LookupsRight, Table!LookupsRight
<1>8. ASSUME ~raced' PROVE OneAdds'
  <2>1. \A u \in Threads : u # t => (Table!Adding(u)' <=> Table!Adding(u))
    BY <1>2 DEF Table!Adding
  <2>2. Table!Adding(t)' => r.op \in {"add", "refind"}
    BY <1>2, StepsAre DEF Table!Adding
  <2>3. \A u \in Threads, v \in Threads : (Table!Adding(u) /\ Table!Adding(v))' => u = v
    <3> SUFFICES ASSUME NEW u \in Threads, NEW v \in Threads,
                        Table!Adding(u)', Table!Adding(v)'
                 PROVE  u = v
      OBVIOUS
    <3>1. CASE r.op \in {"add", "refind"}
      <4>1. \A w \in Threads : Table!Adding(w)' => w = t
        BY <1>8, <2>1, <3>1
      <4> QED
        BY <4>1
    <3>2. CASE r.op \notin {"add", "refind"}
      <4>1. \A w \in Threads : Table!Adding(w)' => Table!Adding(w)
        BY <2>1, <2>2, <3>2
      <4> QED
        BY <1>1, <4>1 DEF OneAdds
    <3> QED
      BY <3>1, <3>2
  <2> QED
    BY <1>1, <2>3 DEF OneAdds
<1>9. Catalogued(B)'
  <2>1. Linked(hnext, B)' /\ Complete(B)'
    BY <1>3, <1>4 DEF Catalogued, Linked, Complete, Table!Head
  <2>2. \A x : OnTheWay(x, B)' <=> OnTheWay(x, B)
    <3>1. \A c, k : Walking(c, k, B)' <=> Walking(c, k, B)
      BY DEF Walking, Table!Head
    <3>2. \A c : Emptied(c, B)' <=> Emptied(c, B)
      BY DEF Emptied, Table!Buckets
    <3> QED
      BY <1>4, <3>1, <3>2 DEF OnTheWay
  <2>3. ASSUME NEW u \in Threads PROVE OnTheWay(thread[u], B)'
    <3>1. CASE u = t
      BY <1>2, <1>3, <2>2, <3>1
    <3>2. CASE u # t
      BY <1>2, <1>3, <2>2, <3>2 DEF Catalogued
    <3> QED
      BY <3>1, <3>2
  <2> QED
    BY <2>1, <2>3 DEF Catalogued
<1> QED
  BY <1>6, <1>7, <1>8, <1>9 DEF TableInv

\* find
LEMMA LookKeeps ==
  ASSUME TableInv, ~raced, NEW t \in Threads, NEW k \in Keys, Table!Look(t, k)
  PROVE  TableInv'
<1> DEFINE at == IF generation = 0 THEN Null ELSE Table!Head(generation, k)
           r == [op |-> "look", key |-> k, torn |-> Table!Rehashing, had |-> k \in present,
                 met |-> FALSE, at |-> at]
<1>1. TableTypes /\ LookupsRight /\ OneAdds
  BY DEF TableInv
<1>2. generation # 0 => generation \in 1..MaxGeneration
  BY <1>1, TableAssumption DEF TableTypes
<1>3. at \in Pointers \cup {Null}
  BY <1>2, HeadOf DEF Pointers
<1>4. Table!Rehashing \in BOOLEAN /\ (k \in present) \in BOOLEAN
  BY DEF Table!Rehashing
<1>5. /\ Table!Goes(t, r) /\ thread[t].op = "idle"
      /\ UNCHANGED <<hnext, generation, hsize, present, raced>>
  BY DEF Table!Look, Null
<1> HIDE DEF at
<1>6. r \in Looks /\ r.op = "look" /\ r.torn = Table!Rehashing /\ r.had = (k \in present)
      /\ r.at = at /\ r.key = k
  BY <1>3, <1>4, Zenon DEF Looks
<1> HIDE DEF r
<1>7. r \in Steps
  BY <1>6 DEF Steps
<1>8. ASSUME NEW B \in [Table!Heads -> Seq(Keys)], Catalogued(B) PROVE OnTheWay(r, B)
  <2>1. generation # 0 => Walking(r.at, r.key, B)
    BY <1>2, <1>6, StartsWalk DEF at
  <2>2. generation = 0 => r.at = Null
    BY <1>6 DEF at
  <2> QED
    BY <1>6, <2>1, <2>2, Zenon DEF OnTheWay
<1> QED
  BY <1>1, <1>5, <1>6, <1>7, <1>8, QuietStep DEF TableTypes

\* The answer is given and forgotten.
LEMMA ReturnKeeps ==
  ASSUME TableInv, ~raced, NEW t \in Threads, Table!Return(t)
  PROVE  TableInv'
<1> DEFINE r == Table!IdleThread
<1>1. r \in Steps /\ r.op = "idle"
  BY DEF Steps, Table!IdleThread
<1>2. Table!Goes(t, r) /\ thread[t].op = "answered"
      /\ UNCHANGED <<hnext, generation, hsize, present, raced>>
  BY DEF Table!Return
<1> HIDE DEF r
<1>3. \A B : OnTheWay(r, B)
  BY <1>1 DEF OnTheWay
<1> QED
  BY <1>1, <1>2, <1>3, QuietStep DEF TableInv, TableTypes

\* emplace_add: after a second addition at a time nothing more is said.
LEMMA AddKeeps ==
  ASSUME TableInv, ~raced, NEW t \in Threads, NEW k \in Keys, Table!Add(t, k)
  PROVE  TableInv'
<1> DEFINE at == IF generation = 0 THEN Null ELSE Table!Head(generation, k)
           r == [op |-> "add", key |-> k, at |-> at]
<1>1. TableTypes /\ LookupsRight /\ OneAdds
  BY DEF TableInv
<1>2. generation # 0 => generation \in 1..MaxGeneration
  BY <1>1, TableAssumption DEF TableTypes
<1>3. at \in Pointers \cup {Null}
  BY <1>2, HeadOf DEF Pointers
<1>4. /\ Table!Goes(t, r) /\ thread[t].op = "idle"
      /\ UNCHANGED <<hnext, generation, hsize, present>>
      /\ raced' = \E u \in Threads : Table!Adding(u)
  BY DEF Table!Add, Null
<1> HIDE DEF at
<1>5. r \in Adds /\ r.op = "add" /\ r.at = at /\ r.key = k
  BY <1>3 DEF Adds
<1> HIDE DEF r
<1>6. r \in Steps
  BY <1>5 DEF Steps
<1>7. ASSUME NEW B \in [Table!Heads -> Seq(Keys)], Catalogued(B) PROVE OnTheWay(r, B)
  <2>1. generation # 0 => Walking(r.at, r.key, B)
    BY <1>2, <1>5, StartsWalk DEF at
  <2>2. generation = 0 => r.at = Null
    BY <1>5 DEF at
  <2> QED
    BY <1>5, <2>1, <2>2, Zenon DEF OnTheWay
<1>8. raced' \in BOOLEAN
  BY <1>4
<1> QED
  BY <1>4, <1>5, <1>6, <1>7, <1>8, QuietStep

\* A thread that adds is the only one: nobody rehashes or has a key to count.
LEMMA AddersAre ==
  ASSUME TableTypes, OneAdds, NEW t \in Threads, thread[t].op \in {"add", "refind"}
  PROVE  /\ Table!Adding(t) /\ \A u \in Threads : Table!Adding(u) => u = t
         /\ ~Table!Rehashing /\ ~Counting /\ thread[t] \in Adds
<1>1. thread[t] \in Adds
  BY StepsAre DEF TableTypes
<1>2. Table!Adding(t)
  BY DEF Table!Adding
<1>3. \A u \in Threads : Table!Adding(u) => u = t
  BY <1>2 DEF OneAdds
<1>4. \A u \in Threads : thread[u].op \in {"rehash", "count"} => Table!Adding(u)
  BY DEF Table!Adding
<1> QED
  BY <1>1, <1>2, <1>3, <1>4 DEF Table!Rehashing, Counting

\* The answer of a look-up.
LEMMA AnsweredKeeps ==
  ASSUME TableInv, ~raced, NEW t \in Threads, Table!Looking(t),
         UNCHANGED <<hnext, generation, hsize, present, raced>>,
         NEW found \in BOOLEAN, Table!Answered(t, found),
         ~thread[t].torn => /\ thread[t].had => found
                            /\ found => thread[t].key \in present \/ thread[t].met
  PROVE  TableInv'
<1> DEFINE r == [op |-> "answered", key |-> thread[t].key, torn |-> thread[t].torn,
                 had |-> thread[t].had, met |-> thread[t].met, found |-> found]
<1>1. TableTypes /\ thread[t] \in Looks
  BY StepsAre DEF TableInv, TableTypes, Table!Looking
<1>2. /\ r \in Answers /\ r.op = "answered" /\ r.torn = thread[t].torn /\ r.had = thread[t].had
      /\ r.met = thread[t].met /\ r.found = found /\ r.key = thread[t].key
  BY <1>1 DEF Answers, Looks
<1>3. Table!Goes(t, r)
  BY DEF Table!Answered
<1> HIDE DEF r
<1>4. r \in Steps
  BY <1>2 DEF Steps
<1>5. \A C : OnTheWay(r, C)
  BY <1>2 DEF OnTheWay
<1>6. ~r.torn => (r.had => r.found) /\ (r.found => r.key \in present \/ r.met)
  BY <1>2, Zenon
<1> QED
  BY <1>1, <1>2, <1>3, <1>4, <1>5, <1>6, QuietStep DEF TableTypes, Table!Looking

\* find_prev_if, one node at a time.
LEMMA LookNextKeeps ==
  ASSUME TableInv, ~raced, NEW t \in Threads, Table!LookNext(t)
  PROVE  TableInv'
<1>1. TableTypes /\ LookupsRight /\ OneAdds
  BY DEF TableInv
<1>2. thread[t].op = "look" /\ UNCHANGED <<hnext, generation, hsize, present, raced>>
  BY DEF Table!LookNext
<1>3. thread[t] \in Looks
  BY <1>1, <1>2, StepsAre DEF TableTypes
<1> DEFINE c == thread[t].at
           k == thread[t].key
<1>4. CASE thread[t].torn
  <2>1. PICK found \in BOOLEAN : Table!Answered(t, found)
    BY <1>4 DEF Table!LookNext
  <2> QED
    BY <1>2, <1>4, <2>1, AnsweredKeeps DEF Table!Looking
<1>5. CASE ~thread[t].torn /\ Table!AtResult(t)
  <2> DEFINE r == [thread[t] EXCEPT !.op = "compare"]
  <2>1. Table!Goes(t, r)
    BY <1>5 DEF Table!LookNext
  <2>2. /\ r \in Looks /\ r.op = "compare" /\ r.at = c /\ r.key = k /\ r.had = thread[t].had
        /\ r.torn = thread[t].torn
    BY <1>3 DEF Looks
  <2> HIDE DEF r
  <2>3. r \in Steps
    BY <2>2 DEF Steps
  <2>4. c # Null => hnext[c] \in {Null, <<k>>}
    BY <1>5 DEF Table!AtResult, Table!Behind, Null
  <2>5. ASSUME NEW C \in [Table!Heads -> Seq(Keys)], Catalogued(C) PROVE OnTheWay(r, C)
    <3>1. OnTheWay(thread[t], C) /\ Linked(hnext, C)
      BY <2>5 DEF Catalogued
    <3>2. /\ ~Table!Rehashing /\ (thread[t].had => k \in present)
          /\ IF generation = 0 THEN c = Null ELSE Walking(c, k, C)
      BY <1>2, <1>5, <3>1 DEF OnTheWay
    <3>3. generation # 0 => hnext[c] \in {Null, <<k>>}
      <4>1. generation # 0 => generation \in 1..MaxGeneration /\ k \in Keys
        BY <1>1, <1>3, TableAssumption DEF TableTypes, Looks
      <4>2. generation # 0 => c # Null
        BY <3>1, <3>2, <4>1, WalkOn
      <4> QED
        BY <2>4, <4>2
    <3> QED
      BY <2>2, <3>2, <3>3 DEF OnTheWay
  <2> QED
    BY <1>1, <1>2, <2>1, <2>2, <2>3, <2>5, QuietStep DEF TableTypes
<1>6. CASE ~thread[t].torn /\ ~Table!AtResult(t)
  <2> DEFINE r == [thread[t] EXCEPT !.at = hnext[@]]
  <2>1. Table!Goes(t, r)
    BY <1>6 DEF Table!LookNext
  <2>2. c # Null /\ hnext[c] # Null /\ hnext[c] # <<k>>
    BY <1>6 DEF Table!AtResult, Table!Behind, Null
  <2>3. hnext[c] \in Pointers \cup {Null}
    BY <1>1, <1>3, <2>2 DEF TableTypes, Pointers, Looks
  <2>4. /\ r \in Looks /\ r.op = "look" /\ r.at = hnext[c] /\ r.key = k
        /\ r.had = thread[t].had /\ r.torn = thread[t].torn
    BY <1>2, <1>3, <2>3 DEF Looks
  <2> HIDE DEF r
  <2>5. r \in Steps
    BY <2>4 DEF Steps
  <2>6. ASSUME NEW C \in [Table!Heads -> Seq(Keys)], Catalogued(C) PROVE OnTheWay(r, C)
    <3>1. OnTheWay(thread[t], C) /\ Linked(hnext, C)
      BY <2>6 DEF Catalogued
    <3>2. /\ ~Table!Rehashing /\ (thread[t].had => k \in present)
          /\ generation # 0 /\ Walking(c, k, C)
      BY <1>2, <1>6, <2>2, <3>1 DEF OnTheWay
    <3>3. generation \in 1..MaxGeneration /\ k \in Keys
      BY <1>1, <1>3, <3>2, TableAssumption DEF TableTypes, Looks
    <3>4. Walking(hnext[c], k, C)
      BY <2>2, <3>1, <3>2, <3>3, WalkOn
    <3> QED
      BY <2>4, <3>2, <3>4 DEF OnTheWay
  <2> QED
    BY <1>1, <1>2, <2>1, <2>4, <2>5, <2>6, QuietStep DEF TableTypes
<1> QED
  BY <1>4, <1>5, <1>6

\* != end (): what is behind the place now is what was there when the search ended,
\* or was put there since.
LEMMA LookCompareKeeps ==
  ASSUME TableInv, ~raced, NEW t \in Threads, Table!LookCompare(t)
  PROVE  TableInv'
<1>1. TableTypes /\ LookupsRight /\ OneAdds
  BY DEF TableInv
<1>2. thread[t].op = "compare" /\ UNCHANGED <<hnext, generation, hsize, present, raced>>
  BY DEF Table!LookCompare
<1>3. thread[t] \in Looks
  BY <1>1, <1>2, StepsAre DEF TableTypes
<1> DEFINE c == thread[t].at
           k == thread[t].key
<1>4. CASE thread[t].torn
  <2>1. PICK found \in BOOLEAN : Table!Answered(t, found)
    BY <1>4 DEF Table!LookCompare
  <2> QED
    BY <1>2, <1>4, <2>1, AnsweredKeeps DEF Table!Looking
<1>5. CASE ~thread[t].torn
  <2>1. PICK B \in [Table!Heads -> Seq(Keys)] : Catalogued(B)
    BY DEF TableInv
  <2>2. Linked(hnext, B) /\ Complete(B)
    BY <2>1 DEF Catalogued
  <2>3. /\ ~Table!Rehashing /\ (thread[t].had => k \in present)
        /\ IF generation = 0 THEN c = Null ELSE Walking(c, k, B)
        /\ generation # 0 => hnext[c] \in {Null, <<k>>} \/ thread[t].met
    BY <1>2, <1>5, <2>1 DEF Catalogued, OnTheWay
  <2>4. PICK found \in BOOLEAN : found = Table!Found(t)
    BY DEF Table!Found
  <2>5. Table!Answered(t, found)
    BY <1>5, <2>4 DEF Table!LookCompare
  <2>6. /\ thread[t].had => found
        /\ found => k \in present \/ thread[t].met
    <3>1. CASE generation = 0
      BY <1>1, <2>3, <2>4, <3>1 DEF OneAdds, Table!Found, Table!Behind, Null
    <3>2. CASE generation # 0
      <4> DEFINE h == Table!Head(generation, k)
      <4>1. generation \in 1..MaxGeneration /\ k \in Keys
        BY <1>1, <1>3, <3>2, TableAssumption DEF TableTypes, Looks
      <4>2. Walking(c, k, B)
        BY <2>3, <3>2
      <4>3. /\ c # Null
            /\ hnext[c] = <<k>> => Contains(B[h], k)
            /\ hnext[c] = Null => ~Contains(B[h], k)
        BY <2>2, <4>1, <4>2, WalkOn
      <4>4. k \in present <=> Contains(B[h], k)
        BY <2>2, <2>3, <4>1, InItsBucket
      <4> HIDE DEF h
      <4>5. found <=> hnext[c] # Null
        BY <2>4, <4>3 DEF Table!Found, Table!Behind, Null
      <4> QED
        BY <2>3, <3>2, <4>3, <4>4, <4>5
    <3> QED
      BY <3>1, <3>2
  <2> QED
    BY <1>2, <1>5, <2>5, <2>6, AnsweredKeeps DEF Table!Looking
<1> QED
  BY <1>4, <1>5

\* find_prev_if of emplace_add.
LEMMA AddWalkKeeps ==
  ASSUME TableInv, ~raced, NEW t \in Threads, Table!AddWalk(t)
  PROVE  TableInv'
<1>1. TableTypes /\ LookupsRight /\ OneAdds
  BY DEF TableInv
<1> DEFINE c == thread[t].at
           k == thread[t].key
           r == [thread[t] EXCEPT !.at = hnext[@]]
<1>2. /\ thread[t].op \in {"add", "refind"} /\ ~Table!AtResult(t)
      /\ Table!Goes(t, r) /\ UNCHANGED <<hnext, generation, hsize, present, raced>>
  BY DEF Table!AddWalk
<1>3. thread[t] \in Adds /\ k \in Keys
  BY <1>1, <1>2, AddersAre DEF Adds
<1>4. c # Null /\ hnext[c] # Null /\ hnext[c] # <<k>>
  BY <1>2 DEF Table!AtResult, Table!Behind, Null
<1>5. hnext[c] \in Pointers \cup {Null}
  BY <1>1, <1>3, <1>4 DEF TableTypes, Pointers, Adds
<1>6. r \in Adds /\ r.op = thread[t].op /\ r.at = hnext[c] /\ r.key = k
  BY <1>3, <1>5 DEF Adds
<1> HIDE DEF r
<1>7. r \in Steps
  BY <1>6 DEF Steps
<1>8. ASSUME NEW B \in [Table!Heads -> Seq(Keys)], Catalogued(B) PROVE OnTheWay(r, B)
  <2>1. OnTheWay(thread[t], B) /\ Linked(hnext, B)
    BY <1>8 DEF Catalogued
  <2>2. generation # 0 /\ Walking(c, k, B)
    BY <1>2, <1>4, <2>1 DEF OnTheWay
  <2>3. generation \in 1..MaxGeneration
    BY <1>1, <2>2, TableAssumption DEF TableTypes
  <2>4. Walking(hnext[c], k, B)
    BY <1>3, <1>4, <2>1, <2>2, <2>3, WalkOn
  <2> QED
    BY <1>2, <1>6, <2>2, <2>4 DEF OnTheWay
<1>9. \A u \in Threads : Table!Adding(u) => u = t
  BY <1>1, <1>2, AddersAre
<1> QED
  BY <1>1, <1>2, <1>6, <1>7, <1>8, <1>9, QuietStep DEF TableTypes

\* A key that is there already is not added.
LEMMA AddFoundKeeps ==
  ASSUME TableInv, ~raced, NEW t \in Threads, Table!AddFound(t)
  PROVE  TableInv'
<1> DEFINE r == Table!IdleThread
<1>1. r \in Steps /\ r.op = "idle"
  BY DEF Steps, Table!IdleThread
<1>2. Table!Goes(t, r) /\ thread[t].op = "add"
      /\ UNCHANGED <<hnext, generation, hsize, present, raced>>
  BY DEF Table!AddFound
<1> HIDE DEF r
<1>3. \A B : OnTheWay(r, B)
  BY <1>1 DEF OnTheWay
<1> QED
  BY <1>1, <1>2, <1>3, QuietStep DEF TableInv, TableTypes

\* The others beside the thread that adds only look: it alone rehashes and counts.
LEMMA AdderGoesOn ==
  ASSUME TableInv, ~raced, NEW t \in Threads, Table!Adding(t), NEW r \in Steps,
         thread' \in [Threads -> Steps], thread'[t] = r,
         \A u \in Threads : u # t =>
           \/ thread'[u] = thread[u]
           \/ Table!Looking(u) /\ thread'[u] = [thread[u] EXCEPT !.torn = TRUE]
           \/ Table!Looking(u) /\ thread'[u] = [thread[u] EXCEPT !.met = TRUE],
         r.op # "answered", present \subseteq present'
  PROVE  /\ \A u \in Threads, v \in Threads : (Table!Adding(u) /\ Table!Adding(v))' => u = v
         /\ Table!Rehashing <=> thread[t].op = "rehash"
         /\ Table!Rehashing' <=> r.op = "rehash"
         /\ Counting <=> thread[t].op = "count"
         /\ Counting' <=> r.op = "count"
         /\ LookupsRight'
         /\ \A u \in Threads : u # t => thread'[u].op \in {"idle", "look", "compare", "answered"}
<1>1. TableTypes /\ LookupsRight /\ OneAdds
  BY DEF TableInv
<1>2. ASSUME NEW u \in Threads, u # t
      PROVE  /\ thread'[u].op = thread[u].op /\ thread[u].op \in {"idle", "look", "compare", "answered"}
             /\ thread[u].op = "answered" => thread'[u] = thread[u]
  <2>1. ~Table!Adding(u)
    BY <1>1, <1>2 DEF OneAdds
  <2>2. thread[u].op \in {"idle", "look", "compare", "answered"}
    BY <2>1 DEF Table!Adding
  <2>3. Table!Looking(u) => thread[u] \in Looks /\ thread[u].op # "answered"
    BY <1>1, StepsAre DEF TableTypes, Table!Looking
  <2>4. Table!Looking(u) => /\ [thread[u] EXCEPT !.torn = TRUE].op = thread[u].op
                            /\ [thread[u] EXCEPT !.met = TRUE].op = thread[u].op
    BY <2>3 DEF Looks
  <2> QED
    BY <1>2, <2>2, <2>3, <2>4
<1>3. \A u \in Threads, v \in Threads : (Table!Adding(u) /\ Table!Adding(v))' => u = v
  BY <1>2 DEF Table!Adding
<1>4. /\ Table!Rehashing <=> thread[t].op = "rehash"
      /\ Table!Rehashing' <=> r.op = "rehash"
      /\ Counting <=> thread[t].op = "count"
      /\ Counting' <=> r.op = "count"
  BY <1>2 DEF Table!Rehashing, Counting
<1>5. LookupsRight'
  <2>1. \A u \in Threads : (thread[u].op = "answered" /\ ~thread[u].torn) =>
          (thread[u].had => thread[u].found) /\ (thread[u].found => thread[u].key \in present \/ thread[u].met)
    BY <1>1, Zenon DEF LookupsRight, Table!LookupsRight
  <2>2. ASSUME NEW u \in Threads, thread'[u].op = "answered", ~thread'[u].torn
        PROVE  /\ thread'[u].had => thread'[u].found
               /\ thread'[u].found => thread'[u].key \in present' \/ thread'[u].met
    <3>1. u # t
      BY <2>2
    <3>2. thread[u].op = "answered" /\ thread'[u] = thread[u]
      BY <1>2, <2>2, <3>1
    <3>3. ~thread[u].torn
      BY <2>2, <3>2
    <3>4. (thread[u].had => thread[u].found) /\ (thread[u].found => thread[u].key \in present \/ thread[u].met)
      BY <2>1, <3>2, <3>3, Zenon
    <3> QED
      BY <3>2, <3>4
  <2> QED
    BY <2>2, Zenon DEF LookupsRight, Table!LookupsRight
<1> QED
  BY <1>2, <1>3, <1>4, <1>5

\* The buckets change under the threads that look.
LEMMA TornGoesOn ==
  ASSUME TableTypes, NEW t \in Threads, NEW r \in Steps,
         thread' = [Table!TornBut(t) EXCEPT ![t] = r]
  PROVE  /\ thread' \in [Threads -> Steps] /\ thread'[t] = r
         /\ \A u \in Threads : u # t =>
              \/ thread'[u] = thread[u]
              \/ Table!Looking(u) /\ thread'[u] = [thread[u] EXCEPT !.torn = TRUE]
         /\ \A u \in Threads : u # t => ~(thread'[u].op \in {"look", "compare"} /\ ~thread'[u].torn)
<1>1. thread \in [Threads -> Steps]
  BY DEF TableTypes
<1>2. ASSUME NEW u \in Threads, Table!Looking(u)
      PROVE  /\ [thread[u] EXCEPT !.torn = TRUE] \in Steps
             /\ [thread[u] EXCEPT !.torn = TRUE].torn
  <2> DEFINE q == thread[u]
  <2>1. q \in Looks
    BY <1>1, <1>2, StepsAre DEF Table!Looking
  <2> HIDE DEF q
  <2>2. \A v \in BOOLEAN : [q EXCEPT !.torn = v] \in Looks /\ [q EXCEPT !.torn = v].torn = v
    BY <2>1 DEF Looks
  <2>3. [q EXCEPT !.torn = TRUE] \in Looks /\ [q EXCEPT !.torn = TRUE].torn = TRUE
    BY <2>2, Zenon
  <2> QED
    BY <2>3 DEF Steps, q
<1> DEFINE f == Table!TornBut(t)
<1>3. /\ f \in [Threads -> Steps]
      /\ \A u \in Threads : u # t =>
           f[u] = IF Table!Looking(u) THEN [thread[u] EXCEPT !.torn = TRUE] ELSE thread[u]
  BY <1>1, <1>2 DEF Table!TornBut
<1> HIDE DEF f
<1>4. /\ thread' \in [Threads -> Steps] /\ thread'[t] = r
      /\ \A u \in Threads : u # t => thread'[u] = f[u]
  BY <1>3 DEF f
<1> QED
  BY <1>2, <1>3, <1>4 DEF Table!Looking

\* ++size_
LEMMA CountKeeps ==
  ASSUME TableInv, ~raced, NEW t \in Threads, Table!Count(t)
  PROVE  TableInv'
<1> DEFINE r == Table!IdleThread
<1>1. r \in Steps /\ r.op = "idle"
  BY DEF Steps, Table!IdleThread
<1>2. Table!Goes(t, r) /\ thread[t].op = "count" /\ hsize' = hsize + 1
      /\ UNCHANGED <<hnext, generation, present, raced>>
  BY DEF Table!Count
<1> HIDE DEF r
<1>3. TableTypes /\ LookupsRight /\ OneAdds
  BY DEF TableInv
<1>4. /\ thread' \in [Threads -> Steps] /\ thread'[t] = r
      /\ \A u \in Threads : u # t => thread'[u] = thread[u]
  BY <1>1, <1>2, <1>3, GoesOn
<1>5. Table!Adding(t)
  BY <1>2 DEF Table!Adding
<1>6. present \subseteq present'
  BY <1>2
<1>7. /\ \A u \in Threads, v \in Threads : (Table!Adding(u) /\ Table!Adding(v))' => u = v
      /\ ~Table!Rehashing /\ ~Table!Rehashing' /\ Counting /\ ~Counting' /\ LookupsRight'
  BY <1>1, <1>2, <1>4, <1>5, <1>6, AdderGoesOn
<1>8. TableTypes'
  <2>1. hsize + 1 = Cardinality(present) /\ hsize \in Nat
    BY <1>3, <1>7 DEF TableTypes
  <2>2. hsize' \in Nat /\ hsize' + (IF Counting' THEN 1 ELSE 0) = Cardinality(present)
    BY <1>2, <1>7, <2>1
  <2> QED
    BY <1>2, <1>3, <1>4, <2>2 DEF TableTypes
<1>9. OneAdds'
  BY <1>2, <1>3, <1>7 DEF OneAdds
<1>10. PICK B \in [Table!Heads -> Seq(Keys)] : Catalogued(B)
  BY DEF TableInv
<1>11. Catalogued(B)'
  <2>1. Linked(hnext, B)' /\ Complete(B)'
    BY <1>2, <1>7, <1>10 DEF Catalogued, Linked, Complete, Table!Head
  <2>2. ASSUME NEW u \in Threads PROVE OnTheWay(thread[u], B)'
    <3>1. CASE u = t
      BY <1>1, <1>4, <3>1 DEF OnTheWay
    <3>2. CASE u # t
      <4>1. OnTheWay(thread[u], B) /\ thread'[u] = thread[u]
        BY <1>4, <1>10, <3>2 DEF Catalogued
      <4>2. \A c, k : Walking(c, k, B)' <=> Walking(c, k, B)
        BY <1>2 DEF Walking, Table!Head
      <4>3. \A c : Emptied(c, B)' <=> Emptied(c, B)
        BY <1>2 DEF Emptied, Table!Buckets
      <4> QED
        BY <1>2, <1>7, <4>1, <4>2, <4>3 DEF OnTheWay
    <3> QED
      BY <3>1, <3>2
  <2> QED
    BY <2>1, <2>2 DEF Catalogued
<1> QED
  BY <1>7, <1>8, <1>9, <1>11 DEF TableInv

\* A catalogue that has no tables has empty buckets.
LEMMA NothingThere ==
  ASSUME NEW B \in [Table!Heads -> Seq(Keys)], Complete(B), present = {}
  PROVE  \A h \in Table!Heads : \A k : ~Contains(B[h], k)
<1> SUFFICES ASSUME NEW h \in Table!Heads, NEW k, Contains(B[h], k) PROVE FALSE
  OBVIOUS
<1>1. B[h] \in Seq(Keys)
  OBVIOUS
<1>2. k \in Keys
  BY <1>1 DEF Contains
<1> QED
  BY <1>2 DEF Complete

\* rehash_before_add, the first buckets: they are all empty.
LEMMA FirstBucketsKeeps ==
  ASSUME TableInv, ~raced, NEW t \in Threads, Table!FirstBuckets(t)
  PROVE  TableInv'
<1> DEFINE k == thread[t].key
           to == [op |-> "refind", key |-> k, at |-> Table!Head(1, k)]
<1>1. TableTypes /\ LookupsRight /\ OneAdds
  BY DEF TableInv
<1>2. /\ thread[t].op = "add" /\ generation = 0 /\ generation' = 1
      /\ UNCHANGED <<hnext, hsize, present, raced>>
      /\ thread' = [Table!TornBut(t) EXCEPT ![t] = [op |-> "refind", key |-> @.key,
                                                    at |-> Table!Head(1, @.key)]]
  BY DEF Table!FirstBuckets
<1>3. thread[t] \in Adds /\ Table!Adding(t) /\ k \in Keys
  BY <1>1, <1>2, AddersAre DEF Adds
<1>4. 1 \in 1..MaxGeneration
  BY TableAssumption
<1>5. Table!Head(1, k) \in Table!Heads
  BY <1>3, <1>4, HeadOf
<1>6. Table!TornBut(t)[t] = thread[t]
  BY DEF Table!TornBut
<1>7. thread' = [Table!TornBut(t) EXCEPT ![t] = to]
  BY <1>2, <1>6
<1>8. to \in Steps
  BY <1>3, <1>5 DEF Steps, Adds, Pointers
<1>9. PICK r \in Steps : r = to
  BY <1>8
<1>9a. /\ r.op = "refind" /\ r.key \in Keys /\ r.at = Table!Head(1, r.key)
       /\ r.at \in Table!Heads
  BY <1>3, <1>5, <1>9
<1> HIDE DEF to
<1>10. /\ thread' \in [Threads -> Steps] /\ thread'[t] = r
       /\ \A u \in Threads : u # t =>
            \/ thread'[u] = thread[u]
            \/ Table!Looking(u) /\ thread'[u] = [thread[u] EXCEPT !.torn = TRUE]
       /\ \A u \in Threads : u # t => ~(thread'[u].op \in {"look", "compare"} /\ ~thread'[u].torn)
  BY <1>1, <1>7, <1>9, TornGoesOn
<1>11. present \subseteq present'
  BY <1>2
<1>12. /\ \A u \in Threads, v \in Threads : (Table!Adding(u) /\ Table!Adding(v))' => u = v
       /\ ~Table!Rehashing /\ ~Table!Rehashing' /\ ~Counting /\ ~Counting' /\ LookupsRight'
       /\ \A u \in Threads : u # t => thread'[u].op \in {"idle", "look", "compare", "answered"}
  BY <1>2, <1>3, <1>9a, <1>10, <1>11, AdderGoesOn
<1>13. TableTypes'
  <2>1. generation' \in 0..MaxGeneration
    BY <1>2, <1>4
  <2> QED
    BY <1>1, <1>2, <1>10, <1>12, <2>1 DEF TableTypes
<1>14. OneAdds'
  BY <1>1, <1>2, <1>12 DEF OneAdds
<1>15. PICK B \in [Table!Heads -> Seq(Keys)] : Catalogued(B)
  BY DEF TableInv
<1>16. Catalogued(B)'
  <2>1. present = {} /\ Linked(hnext, B)'
    BY <1>1, <1>2, <1>15 DEF OneAdds, Catalogued, Linked
  <2>2. \A h \in Table!Heads : \A x : ~Contains(B[h], x)
    BY <1>15, <2>1, NothingThere DEF Catalogued
  <2>3. Complete(B)'
    BY <1>2, <2>1, <2>2 DEF Complete
  <2>4. OnTheWay(r, B)'
    <3> DEFINE h == Table!Head(1, r.key)
    <3>1. h \in Table!Heads /\ r.at = h
      BY <1>9a
    <3>2. Table!Head(generation', r.key) = h
      BY <1>2
    <3> HIDE DEF h
    <3>3. 0 \in 0..Len(B[h]) /\ h = Spot(h, B[h], 0) /\ \A j \in 1..0 : B[h][j] # r.key
      BY <3>1 DEF Spot
    <3>4. \E i \in 0..Len(B[h]) : h = Spot(h, B[h], i) /\ \A j \in 1..i : B[h][j] # r.key
      BY <3>3
    <3>5. Walking(r.at, r.key, B)'
      BY <3>1, <3>2, <3>4 DEF Walking, Table!Head
    <3> QED
      BY <1>2, <1>9a, <3>5 DEF OnTheWay
  <2>5. \A u \in Threads : OnTheWay(thread[u], B)'
    BY <1>10, <1>12, <2>4 DEF OnTheWay
  <2> QED
    BY <2>1, <2>3, <2>5 DEF Catalogued
<1> QED
  BY <1>12, <1>13, <1>14, <1>16 DEF TableInv

\* The place where the rehash of a table is begun: it has buckets to go to.
LEMMA RehashStartKeeps ==
  ASSUME TableInv, ~raced, NEW t \in Threads, Table!RehashStart(t)
  PROVE  TableInv'
<1> DEFINE k == thread[t].key
           c == thread[t].at
           beg == Table!Validated(hnext, 0, <<generation, 0>>)
           to == [op |-> "rehash", key |-> k, beg |-> beg]
<1>1. TableTypes /\ LookupsRight /\ OneAdds
  BY DEF TableInv
<1>2. /\ thread[t].op = "add" /\ generation # 0 /\ Table!Full
      /\ Table!AtResult(t) /\ ~Table!Found(t)
      /\ UNCHANGED <<hnext, generation, hsize, present, raced>>
      /\ thread' = [Table!TornBut(t) EXCEPT ![t] = [op |-> "rehash", key |-> @.key, beg |-> beg]]
  BY DEF Table!RehashStart
<1>3. /\ thread[t] \in Adds /\ Table!Adding(t) /\ k \in Keys /\ ~Table!Rehashing /\ ~Counting
      /\ generation \in 1..MaxGeneration
  BY <1>1, <1>2, AddersAre, TableAssumption DEF Adds, TableTypes
<1>4. PICK B \in [Table!Heads -> Seq(Keys)] : Catalogued(B)
  BY DEF TableInv
<1>5. Linked(hnext, B) /\ Complete(B) /\ Walking(c, k, B)
  BY <1>2, <1>4 DEF Catalogued, OnTheWay
<1>6. k \notin present
  <2>1. c # Null /\ hnext[c] = Null => ~Contains(B[Table!Head(generation, k)], k)
    BY <1>3, <1>5, WalkOn
  <2>2. c # Null
    BY <1>3, <1>5, WalkOn
  <2>3. hnext[c] = Null
    BY <1>2, <2>2 DEF Table!Found, Table!Behind, Null
  <2> QED
    BY <1>3, <1>5, <2>1, <2>2, <2>3, InItsBucket
<1>7. generation \in 1..(MaxGeneration - 1)
  <2> DEFINE n == Table!BucketsCnt[MaxGeneration] * MaxInBucket
             p == Cardinality(present)
             a == Cardinality(Keys)
  <2>1. MaxGeneration \in 1..MaxGeneration
    BY TableAssumption
  <2>2. Table!BucketsCnt[MaxGeneration] \in Nat
    BY <2>1, BucketsAre
  <2>3. n \in Nat
    BY <2>2, TableAssumption
  <2>4. IsFiniteSet(Keys) /\ present \subseteq Keys \ {k} /\ IsFiniteSet(Keys \ {k})
    <3>1. IsFiniteSet(Keys) /\ present \subseteq Keys \ {k}
      BY <1>1, <1>6, TableAssumption DEF TableTypes
    <3>2. IsFiniteSet(Keys \ {k})
      BY <3>1, FS_RemoveElement
    <3> QED
      BY <3>1, <3>2
  <2>5. Cardinality(Keys \ {k}) = a - 1 /\ a \in Nat
    BY <1>3, <2>4, FS_RemoveElement, FS_CardinalityType
  <2>6. p <= Cardinality(Keys \ {k}) /\ p \in Nat
    <3>1. IsFiniteSet(present) /\ p <= Cardinality(Keys \ {k})
      BY <2>4, FS_Subset
    <3> QED
      BY <3>1, FS_CardinalityType
  <2>7. hsize = p
    BY <1>1, <1>3 DEF TableTypes
  <2>8. a <= n + 1
    BY TableAssumption
  <2> HIDE DEF n, p, a
  <2>9. ~(hsize > n)
    BY <2>3, <2>5, <2>6, <2>7, <2>8
  <2>10. generation # MaxGeneration
    BY <1>2, <2>9 DEF Table!Full, n
  <2> QED
    BY <1>3, <2>10, TableAssumption
<1>8. 0 \in Table!Buckets(generation)
  BY <1>3, BucketsAre DEF Table!Buckets
<1>9. Emptied(beg, B) /\ beg \in [bucket : Nat, at : Table!Heads]
  <2>1. \A d \in Table!Buckets(generation) : d < 0 => B[<<generation, d>>] = <<>>
    BY <1>3, BucketsAre DEF Table!Buckets
  <2> QED
    BY <1>3, <1>5, <1>8, <2>1, ValidatedIs
<1>10. Table!TornBut(t)[t] = thread[t]
  BY DEF Table!TornBut
<1>11. thread' = [Table!TornBut(t) EXCEPT ![t] = to]
  <2> HIDE DEF beg
  <2> QED
    BY <1>2, <1>10
<1> HIDE DEF beg
<1>12. to \in Steps
  BY <1>3, <1>9 DEF Steps, Rehashes
<1>13. PICK r \in Steps : r = to
  BY <1>12
<1>13a. r.op = "rehash" /\ r.beg = beg
  BY <1>13
<1> HIDE DEF to
<1>14. /\ thread' \in [Threads -> Steps] /\ thread'[t] = r
       /\ \A u \in Threads : u # t =>
            \/ thread'[u] = thread[u]
            \/ Table!Looking(u) /\ thread'[u] = [thread[u] EXCEPT !.torn = TRUE]
       /\ \A u \in Threads : u # t => ~(thread'[u].op \in {"look", "compare"} /\ ~thread'[u].torn)
  BY <1>1, <1>11, <1>13, TornGoesOn
<1>15. present \subseteq present'
  BY <1>2
<1>16. /\ \A u \in Threads, v \in Threads : (Table!Adding(u) /\ Table!Adding(v))' => u = v
       /\ Table!Rehashing' /\ ~Counting' /\ LookupsRight'
       /\ \A u \in Threads : u # t => thread'[u].op \in {"idle", "look", "compare", "answered"}
  BY <1>3, <1>13a, <1>14, <1>15, AdderGoesOn
<1>17. TableTypes'
  BY <1>1, <1>2, <1>3, <1>14, <1>16 DEF TableTypes
<1>18. OneAdds'
  BY <1>1, <1>2, <1>16 DEF OneAdds
<1>19. Catalogued(B)'
  <2>1. Linked(hnext, B)'
    BY <1>2, <1>5 DEF Linked
  <2>2. Complete(B)'
    BY <1>2, <1>3, <1>5 DEF Complete, Table!Head
  <2>3. OnTheWay(r, B)'
    <3>1. Emptied(r.beg, B)' <=> Emptied(r.beg, B)
      BY <1>2 DEF Emptied, Table!Buckets
    <3> QED
      BY <1>2, <1>7, <1>9, <1>13a, <3>1 DEF OnTheWay
  <2>4. \A u \in Threads : OnTheWay(thread[u], B)'
    BY <1>14, <1>16, <2>3 DEF OnTheWay
  <2> QED
    BY <2>1, <2>2, <2>4 DEF Catalogued
<1> QED
  BY <1>16, <1>17, <1>18, <1>19 DEF TableInv

\* A thread that rehashes is the only one that adds.
LEMMA RehashersAre ==
  ASSUME TableTypes, NEW B \in [Table!Heads -> Seq(Keys)], Catalogued(B),
         NEW t \in Threads, thread[t].op = "rehash"
  PROVE  /\ Table!Adding(t) /\ Table!Rehashing /\ thread[t] \in Rehashes
         /\ generation \in 1..(MaxGeneration - 1) /\ Emptied(thread[t].beg, B)
         /\ generation \in 1..MaxGeneration /\ generation + 1 \in 1..MaxGeneration
         /\ generation + 1 # generation
<1>1. OnTheWay(thread[t], B)
  BY DEF Catalogued
<1>2. generation \in 1..(MaxGeneration - 1) /\ Emptied(thread[t].beg, B)
  BY <1>1 DEF OnTheWay
<1>3. thread[t] \in Rehashes
  BY StepsAre DEF TableTypes
<1>4. /\ generation \in 1..MaxGeneration /\ generation + 1 \in 1..MaxGeneration
      /\ generation + 1 # generation
  BY <1>2, TableAssumption
<1> QED
  BY <1>2, <1>3, <1>4 DEF Table!Adding, Table!Rehashing

\* The new buckets take the place of the old ones, which are empty.
LEMMA RehashSwapKeeps ==
  ASSUME TableInv, ~raced, NEW t \in Threads, Table!RehashSwap(t)
  PROVE  TableInv'
<1> DEFINE to == [op |-> "refind", key |-> thread[t].key,
                  at |-> Table!Head(generation + 1, thread[t].key)]
<1>1. TableTypes /\ LookupsRight /\ OneAdds
  BY DEF TableInv
<1>2. /\ thread[t].op = "rehash" /\ thread[t].beg.bucket = Table!BucketsCnt[generation]
      /\ generation' = generation + 1 /\ Table!Goes(t, to)
      /\ UNCHANGED <<hnext, hsize, present, raced>>
  BY DEF Table!RehashSwap
<1>3. PICK B \in [Table!Heads -> Seq(Keys)] : Catalogued(B)
  BY DEF TableInv
<1>4. /\ Table!Adding(t) /\ Table!Rehashing /\ thread[t] \in Rehashes
      /\ Emptied(thread[t].beg, B) /\ generation' \in 1..MaxGeneration
      /\ generation \in 1..MaxGeneration /\ generation + 1 \in 1..MaxGeneration
  BY <1>1, <1>2, <1>3, RehashersAre
<1>5. thread[t].key \in Keys
  BY <1>4 DEF Rehashes
<1>6. Table!Head(generation + 1, thread[t].key) \in Table!Heads
  BY <1>4, <1>5, HeadOf
<1>7. to \in Steps
  BY <1>5, <1>6 DEF Steps, Adds, Pointers
<1>8. PICK r \in Steps : r = to
  BY <1>7
<1>9. /\ r.op = "refind" /\ r.key \in Keys /\ r.at = Table!Head(generation + 1, r.key)
      /\ r.at \in Table!Heads
  BY <1>5, <1>6, <1>8
<1> HIDE DEF to
<1>10. /\ thread' \in [Threads -> Steps] /\ thread'[t] = r
       /\ \A u \in Threads : u # t => thread'[u] = thread[u]
  BY <1>1, <1>2, <1>8, GoesOn
<1>11. present \subseteq present'
  BY <1>2
<1>12. /\ \A u \in Threads, v \in Threads : (Table!Adding(u) /\ Table!Adding(v))' => u = v
       /\ ~Table!Rehashing' /\ ~Counting /\ ~Counting' /\ LookupsRight'
       /\ \A u \in Threads : u # t => thread'[u].op \in {"idle", "look", "compare", "answered"}
  BY <1>2, <1>4, <1>9, <1>10, <1>11, AdderGoesOn
<1>13. TableTypes'
  <2>1. generation' \in 0..MaxGeneration
    BY <1>4
  <2> QED
    BY <1>1, <1>2, <1>10, <1>12, <2>1 DEF TableTypes
<1>14. OneAdds'
  <2>1. generation' # 0
    BY <1>4
  <2> QED
    BY <1>1, <1>2, <1>12, <2>1 DEF OneAdds
<1>15. Linked(hnext, B)'
  BY <1>2, <1>3 DEF Catalogued, Linked
<1>16. Complete(B)'
  <2>1. ASSUME NEW h \in Table!Heads, NEW x \in Keys, Contains(B[h], x)
        PROVE  h = Table!Head(generation + 1, x)
    <3>1. CASE h = Table!Head(generation, x)
      <4> DEFINE n == Table!BucketsCnt[generation]
      <4>1. PICK g \in 1..MaxGeneration, b \in Nat : b \in Table!Buckets(g) /\ h = <<g, b>>
        <5>1. \A g \in 1..MaxGeneration : \A b \in Table!Buckets(g) : b \in Nat
          BY BucketsAre DEF Table!Buckets
        <5> QED
          BY <5>1, HeadsAre
      <4>2. h[1] = generation
        BY <1>4, <3>1, HeadOf
      <4>3. g = generation
        BY <4>1, <4>2
      <4>4. n \in Nat \ {0} /\ b \in 0..(n - 1)
        BY <1>4, <4>1, <4>3, BucketsAre DEF Table!Buckets
      <4> HIDE DEF n
      <4>5. b < n
        BY <4>4
      <4>6. B[h] = <<>>
        BY <1>2, <1>4, <4>1, <4>3, <4>5 DEF Emptied, n
      <4> QED
        BY <2>1, <4>6 DEF Contains
    <3>2. CASE h # Table!Head(generation, x)
      BY <1>3, <2>1, <3>2 DEF Catalogued, Complete
    <3> QED
      BY <3>1, <3>2
  <2>2. \A x : Table!Head(generation, x)' = Table!Head(generation + 1, x)
    BY <1>2 DEF Table!Head
  <2>3. \A x \in Keys : x \in present <=> \E h \in Table!Heads : Contains(B[h], x)
    BY <1>3 DEF Catalogued, Complete
  <2> QED
    BY <1>2, <2>1, <2>2, <2>3 DEF Complete
<1>17. OnTheWay(r, B)'
  <2> DEFINE h == Table!Head(generation + 1, r.key)
  <2>1. h \in Table!Heads /\ r.at = h
    BY <1>9
  <2>2. Table!Head(generation', r.key) = h
    BY <1>2
  <2> HIDE DEF h
  <2>3. 0 \in 0..Len(B[h]) /\ h = Spot(h, B[h], 0) /\ \A j \in 1..0 : B[h][j] # r.key
    BY <2>1 DEF Spot
  <2>4. \E i \in 0..Len(B[h]) : h = Spot(h, B[h], i) /\ \A j \in 1..i : B[h][j] # r.key
    BY <2>3
  <2>5. Walking(r.at, r.key, B)'
    BY <2>1, <2>2, <2>4 DEF Walking, Table!Head
  <2>6. generation' # 0
    BY <1>4
  <2> QED
    BY <1>9, <2>5, <2>6 DEF OnTheWay
<1>18. ASSUME NEW u \in Threads, u # t PROVE OnTheWay(thread[u], B)'
  <2>1. OnTheWay(thread[u], B) /\ thread'[u] = thread[u]
    BY <1>3, <1>10, <1>18 DEF Catalogued
  <2>2. ~(thread[u].op \in {"look", "compare"} /\ ~thread[u].torn)
    BY <1>4, <2>1 DEF OnTheWay
  <2> QED
    BY <1>12, <1>18, <2>1, <2>2 DEF OnTheWay
<1>19. Catalogued(B)'
  BY <1>10, <1>15, <1>16, <1>17, <1>18 DEF Catalogued
<1> QED
  BY <1>12, <1>13, <1>14, <1>19 DEF TableInv

\* The front of a bucket loses its node.
LEMMA FrontUnlinks ==
  ASSUME NEW f, NEW g, NEW B \in [Table!Heads -> Seq(Keys)], Linked(f, B),
         NEW h \in Table!Heads, B[h] # <<>>, NEW k, k = B[h][1], Passes(f, g, h, k)
  PROVE  Linked(g, TakenOut(B, h, 1)) /\ Less(B, TakenOut(B, h, 1), h, k)
<1>1. PICK i \in 1..Len(B[h]) : i = 1
  OBVIOUS
<1>2. B[h][i] = k /\ Spot(h, B[h], i - 1) = h
  BY <1>1 DEF Spot
<1>3. Passes(f, g, Spot(h, B[h], i - 1), B[h][i])
  BY <1>2
<1>4. Linked(g, TakenOut(B, h, i))
  BY <1>3, Unlinks
<1>5. Less(B, TakenOut(B, h, i), h, B[h][i])
  BY <1>3, Unlinks
<1> QED
  BY <1>1, <1>2, <1>4, <1>5

\* The front of a bucket gets a node.
LEMMA FrontLinks ==
  ASSUME NEW f, NEW g, NEW B \in [Table!Heads -> Seq(Keys)], Linked(f, B),
         NEW h \in Table!Heads, NEW k \in Keys, Nowhere(B, k), LinksIn(f, g, h, k)
  PROVE  Linked(g, PutIn(B, h, 0, k)) /\ More(B, PutIn(B, h, 0, k), h, k)
<1>1. PICK i \in 0..Len(B[h]) : i = 0
  OBVIOUS
<1>2. Spot(h, B[h], i) = h
  BY <1>1 DEF Spot
<1>3. LinksIn(f, g, Spot(h, B[h], i), k)
  BY <1>2
<1>4. Linked(g, PutIn(B, h, i, k))
  BY <1>3, Links
<1>5. More(B, PutIn(B, h, i, k), h, k)
  BY <1>3, Links
<1> QED
  BY <1>1, <1>4, <1>5

\* The first node of a bucket goes to the front of another.
Moved(B, from, head) == PutIn(TakenOut(B, from, 1), head, 0, B[from][1])

\* The buckets C are B with k in another bucket.
Rehashed(B, C, from, head, k) ==
  /\ \A q \in Table!Heads : q # from /\ q # head => C[q] = B[q]
  /\ \A q \in Table!Heads : \A x :
       Contains(C[q], x) <=> (Contains(B[q], x) /\ x # k) \/ (q = head /\ x = k)

\* All other pointers stay what they are.
Leaves(f, g, from, head, k) ==
  /\ g \in [Pointers -> Table!TableNodes \cup {Null}]
  /\ \A c \in Pointers : c # <<k>> /\ c # from /\ c # head => g[c] = f[c]

\* Its key is then there, and nothing else changes place.
LEMMA NodeMoves ==
  ASSUME NEW f \in [Pointers -> Table!TableNodes \cup {Null}],
         NEW B \in [Table!Heads -> Seq(Keys)], Linked(f, B),
         NEW from \in Table!Heads, B[from] # <<>>, NEW head \in Table!Heads, head # from,
         NEW g, g = [f EXCEPT ![from] = f[f[from]], ![f[from]] = f[head], ![head] = f[from]]
  PROVE  /\ B[from][1] \in Keys /\ f[from] = <<B[from][1]>> /\ Contains(B[from], B[from][1])
         /\ Moved(B, from, head) \in [Table!Heads -> Seq(Keys)] /\ Linked(g, Moved(B, from, head))
         /\ Rehashed(B, Moved(B, from, head), from, head, B[from][1])
         /\ Leaves(f, g, from, head, B[from][1])
<1> DEFINE k == B[from][1]
           D == TakenOut(B, from, 1)
           C == PutIn(D, head, 0, k)
           e == [f EXCEPT ![from] = f[<<k>>], ![<<k>>] = Null]
<1>1. B[from] \in Seq(Keys) /\ 1 \in 1..Len(B[from]) /\ 0 \in 0..Len(B[from]) /\ 0 < Len(B[from])
  OBVIOUS
<1>2. k \in Keys /\ Contains(B[from], k)
  BY <1>1 DEF Contains
<1>3. /\ Spot(from, B[from], 1 - 1) = from /\ f[from] = <<k>>
  <2>1. Spot(from, B[from], 0) = from
    BY DEF Spot
  <2>2. f[Spot(from, B[from], 0)] = IF 0 < Len(B[from]) THEN <<B[from][0 + 1]>> ELSE Null
    BY <1>1 DEF Linked
  <2> QED
    BY <1>1, <2>1, <2>2
<1> HIDE DEF k
<1>4. /\ <<k>> \in Pointers /\ <<k>> # from /\ <<k>> # head /\ from \in Pointers
      /\ head \in Pointers /\ <<k>> \in Table!TableNodes
  BY <1>2, NodesAre DEF Pointers
<1>5. /\ e[from] = f[<<k>>] /\ e[<<k>>] = Null /\ e[head] = f[head]
      /\ \A c \in Pointers : c # <<k>> /\ c # from => e[c] = f[c]
  BY <1>4
<1>6. /\ g[from] = f[<<k>>] /\ g[<<k>>] = f[head] /\ g[head] = <<k>>
      /\ \A c \in Pointers : c # <<k>> /\ c # from /\ c # head => g[c] = f[c]
  BY <1>3, <1>4
<1>7. g \in [Pointers -> Table!TableNodes \cup {Null}]
  BY <1>3, <1>4
<1> HIDE DEF e
<1>8. Linked(e, D) /\ Less(B, D, from, k)
  <2>1. Passes(f, e, from, k)
    BY <1>5 DEF Passes
  <2>2. k = B[from][1]
    BY DEF k
  <2>3. Linked(e, TakenOut(B, from, 1))
    BY <2>1, <2>2, FrontUnlinks
  <2>4. Less(B, TakenOut(B, from, 1), from, k)
    BY <2>1, <2>2, FrontUnlinks
  <2> QED
    BY <2>3, <2>4
<1> HIDE DEF D
<1>10. LinksIn(e, g, head, k)
  BY <1>5, <1>6 DEF LinksIn
<1>11. Nowhere(D, k) /\ D \in [Table!Heads -> Seq(Keys)]
  BY <1>8 DEF Nowhere, Less
<1>12. Linked(g, C) /\ More(D, C, head, k)
  <2>1. Linked(g, PutIn(D, head, 0, k))
    BY <1>2, <1>8, <1>10, <1>11, FrontLinks
  <2>2. More(D, PutIn(D, head, 0, k), head, k)
    BY <1>2, <1>8, <1>10, <1>11, FrontLinks
  <2> QED
    BY <2>1, <2>2
<1> HIDE DEF C
<1>13. C \in [Table!Heads -> Seq(Keys)] /\ Rehashed(B, C, from, head, k)
  BY <1>8, <1>12 DEF Less, More, Rehashed
<1>14. C = Moved(B, from, head)
  BY DEF C, D, k, Moved
<1>15. Leaves(f, g, from, head, k)
  BY <1>6, <1>7 DEF Leaves
<1> QED
  BY <1>2, <1>3, <1>12, <1>13, <1>14, <1>15 DEF k

\* One node is rehashed, and beg.validate() goes on to the next.
LEMMA RehashMoveKeeps ==
  ASSUME TableInv, ~raced, NEW t \in Threads, Table!RehashMove(t)
  PROVE  TableInv'
<1>1. TableTypes /\ LookupsRight /\ OneAdds
  BY DEF TableInv
<1>2. PICK B \in [Table!Heads -> Seq(Keys)] : Catalogued(B)
  BY DEF TableInv
<1>3. PICK from : from = thread[t].beg.at
  OBVIOUS
<1>4. PICK b : b = thread[t].beg.bucket
  OBVIOUS
<1>5. PICK g : g = hnext'
  OBVIOUS
<1>6. PICK head : head = Table!Head(generation + 1, Table!KeyOf(hnext[from]))
  OBVIOUS
<1>7. PICK beg : beg = Table!Validated(g, b, from)
  OBVIOUS
<1>8. /\ thread[t].op = "rehash" /\ b # Table!BucketsCnt[generation]
      /\ g = [hnext EXCEPT ![from] = hnext[hnext[from]], ![hnext[from]] = hnext[head],
                           ![head] = hnext[from]]
      /\ Table!Goes(t, [thread[t] EXCEPT !.beg = Table!Validated(g, @.bucket, @.at)])
      /\ UNCHANGED <<generation, hsize, present, raced>>
  BY <1>3, <1>4, <1>5, <1>6 DEF Table!RehashMove
<1>9. /\ Table!Adding(t) /\ Table!Rehashing /\ thread[t] \in Rehashes
      /\ generation \in 1..(MaxGeneration - 1) /\ Emptied(thread[t].beg, B)
      /\ generation \in 1..MaxGeneration /\ generation + 1 \in 1..MaxGeneration
      /\ generation + 1 # generation
  BY <1>1, <1>2, <1>8, RehashersAre
<1>10. /\ b \in Table!Buckets(generation) /\ from = <<generation, b>> /\ B[from] # <<>>
       /\ from \in Table!Heads
       /\ \A d \in Table!Buckets(generation) : d < b => B[<<generation, d>>] = <<>>
  <2> DEFINE n == Table!BucketsCnt[generation]
  <2>1. n \in Nat \ {0}
    BY <1>9, BucketsAre
  <2>2. b \in 0..n /\ b # n
    BY <1>4, <1>8, <1>9 DEF Emptied
  <2> HIDE DEF n
  <2>3. b \in 0..(n - 1)
    BY <2>1, <2>2
  <2>4. b \in Table!Buckets(generation)
    BY <2>3 DEF Table!Buckets, n
  <2> QED
    BY <1>3, <1>4, <1>8, <1>9, <2>4, HeadsAre DEF Emptied
<1>11. PICK k : k = B[from][1]
  OBVIOUS
<1>12. k \in Keys /\ hnext[from] = <<k>>
  <2>1. B[from] \in Seq(Keys) /\ 0 \in 0..Len(B[from]) /\ 0 < Len(B[from]) /\ k \in Keys
    BY <1>10, <1>11
  <2>2. Spot(from, B[from], 0) = from
    BY DEF Spot
  <2>3. hnext[Spot(from, B[from], 0)] = IF 0 < Len(B[from]) THEN <<B[from][0 + 1]>> ELSE Null
    BY <1>2, <1>10, <2>1 DEF Catalogued, Linked
  <2> QED
    BY <1>11, <2>1, <2>2, <2>3
<1>13. head = Table!Head(generation + 1, k) /\ head \in Table!Heads /\ head # from
  <2>1. head = Table!Head(generation + 1, k)
    BY <1>6, <1>12, NodesAre
  <2>2. head \in Table!Heads /\ head[1] = generation + 1
    BY <1>9, <1>12, <2>1, HeadOf
  <2>3. from[1] = generation
    BY <1>10
  <2> QED
    BY <1>9, <2>1, <2>2, <2>3
<1>14. PICK C \in [Table!Heads -> Seq(Keys)] :
         Linked(g, C) /\ Rehashed(B, C, from, head, k) /\ Leaves(hnext, g, from, head, k)
  <2>1. hnext \in [Pointers -> Table!TableNodes \cup {Null}] /\ Linked(hnext, B)
    BY <1>1, <1>2 DEF TableTypes, Catalogued
  <2> DEFINE D == Moved(B, from, head)
  <2>2. D \in [Table!Heads -> Seq(Keys)]
    BY <1>8, <1>10, <1>13, <2>1, NodeMoves
  <2>3. Linked(g, D)
    BY <1>8, <1>10, <1>13, <2>1, NodeMoves
  <2>4. Rehashed(B, D, from, head, k)
    BY <1>8, <1>10, <1>11, <1>13, <2>1, NodeMoves
  <2>5. Leaves(hnext, g, from, head, k)
    BY <1>8, <1>10, <1>11, <1>13, <2>1, NodeMoves
  <2> HIDE DEF D
  <2> QED
    BY <2>2, <2>3, <2>4, <2>5
<1>15. Emptied(beg, C) /\ beg \in [bucket : Nat, at : Table!Heads]
  <2>1. \A d \in Table!Buckets(generation) : d < b => C[<<generation, d>>] = <<>>
    <3> SUFFICES ASSUME NEW d \in Table!Buckets(generation), d < b
                 PROVE  C[<<generation, d>>] = <<>>
      OBVIOUS
    <3>1. d # b /\ <<generation, d>> \in Table!Heads
      <4>1. d \in Nat /\ b \in Nat
        BY <1>9, <1>10, BucketsAre DEF Table!Buckets
      <4> QED
        BY <1>9, <4>1, HeadsAre
    <3>2. <<generation, d>> # from
      BY <1>10, <3>1
    <3>3. head[1] = generation + 1
      BY <1>9, <1>12, <1>13, HeadOf
    <3>4. <<generation, d>> # head
      BY <1>9, <3>3
    <3> QED
      BY <1>10, <1>14, <3>1, <3>2, <3>4 DEF Rehashed
  <2>2. beg = Table!Validated(g, b, <<generation, b>>)
    BY <1>7, <1>10
  <2> QED
    BY <1>9, <1>10, <1>14, <2>1, <2>2, ValidatedIs
<1>16. PICK r : r = [thread[t] EXCEPT !.beg = beg]
  OBVIOUS
<1>17. r \in Rehashes /\ r.op = "rehash" /\ r.beg = beg
  BY <1>9, <1>15, <1>16 DEF Rehashes
<1>18. r \in Steps
  BY <1>17 DEF Steps
<1>19. Table!Goes(t, r)
  <2>1. [thread[t] EXCEPT !.beg = Table!Validated(g, @.bucket, @.at)]
          = [thread[t] EXCEPT !.beg = Table!Validated(g, b, from)]
    BY <1>3, <1>4
  <2> QED
    BY <1>7, <1>8, <1>16, <2>1
<1>20. /\ thread' \in [Threads -> Steps] /\ thread'[t] = r
       /\ \A u \in Threads : u # t => thread'[u] = thread[u]
  BY <1>1, <1>18, <1>19, GoesOn
<1>21. present \subseteq present'
  BY <1>8
<1>22. /\ \A u \in Threads, v \in Threads : (Table!Adding(u) /\ Table!Adding(v))' => u = v
       /\ Table!Rehashing' /\ ~Counting /\ ~Counting' /\ LookupsRight'
       /\ \A u \in Threads : u # t => thread'[u].op \in {"idle", "look", "compare", "answered"}
  BY <1>8, <1>9, <1>17, <1>18, <1>20, <1>21, AdderGoesOn
<1>23. TableTypes'
  BY <1>1, <1>5, <1>8, <1>14, <1>20, <1>22 DEF TableTypes, Leaves
<1>24. Linked(hnext, B) /\ Complete(B)
  BY <1>2 DEF Catalogued
<1>25. OneAdds'
  <2>1. k \in present
    <3>1. Contains(B[from], k)
      BY <1>10, <1>11 DEF Contains
    <3> QED
      BY <1>10, <1>12, <1>24, <3>1 DEF Complete
  <2>2. ASSUME NEW x \in Keys \ present PROVE g[<<x>>] = Null
    <3>1. <<x>> \in Pointers /\ <<x>> # <<k>> /\ <<x>> # from /\ <<x>> # head
      BY <1>10, <1>13, <2>1, <2>2, NodesAre DEF Pointers
    <3> QED
      BY <1>1, <1>14, <3>1 DEF OneAdds, Leaves
  <2> QED
    BY <1>1, <1>5, <1>8, <1>22, <2>2 DEF OneAdds
<1>26. Linked(hnext, C)'
  BY <1>5, <1>14 DEF Linked
<1>27. Complete(C)'
  <2>1. ASSUME NEW x \in Keys
        PROVE  (\E h \in Table!Heads : Contains(C[h], x))
                 <=> \E h \in Table!Heads : Contains(B[h], x)
    <3>1. CASE x = k
      <4>1. Contains(B[from], k)
        BY <1>10, <1>11 DEF Contains
      <4> QED
        BY <1>10, <1>13, <1>14, <3>1, <4>1 DEF Rehashed
    <3>2. CASE x # k
      BY <1>14, <3>2 DEF Rehashed
    <3> QED
      BY <3>1, <3>2
  <2>2. ASSUME NEW h \in Table!Heads, NEW x \in Keys, Contains(C[h], x)
        PROVE  h = Table!Head(generation, x) \/ h = Table!Head(generation + 1, x)
    <3>1. CASE x = k /\ h = head
      BY <1>13, <3>1
    <3>2. CASE ~(x = k /\ h = head)
      <4>1. Contains(B[h], x)
        BY <1>14, <2>2, <3>2 DEF Rehashed
      <4> QED
        BY <1>24, <4>1 DEF Complete
    <3> QED
      BY <3>1, <3>2
  <2>3. \A x \in Keys : x \in present <=> \E h \in Table!Heads : Contains(C[h], x)
    BY <1>24, <2>1 DEF Complete
  <2> QED
    BY <1>8, <1>22, <2>2, <2>3 DEF Complete, Table!Head
<1>28. OnTheWay(r, C)'
  <2>1. Emptied(r.beg, C)'
    BY <1>8, <1>15, <1>17 DEF Emptied, Table!Buckets
  <2> QED
    BY <1>8, <1>9, <1>17, <2>1 DEF OnTheWay
<1>29. ASSUME NEW u \in Threads, u # t PROVE OnTheWay(thread[u], C)'
  <2>1. OnTheWay(thread[u], B) /\ thread'[u] = thread[u]
    BY <1>2, <1>20, <1>29 DEF Catalogued
  <2>2. ~(thread[u].op \in {"look", "compare"} /\ ~thread[u].torn)
    BY <1>9, <2>1 DEF OnTheWay
  <2> QED
    BY <1>22, <1>29, <2>1, <2>2 DEF OnTheWay
<1>30. Catalogued(C)'
  BY <1>20, <1>26, <1>27, <1>28, <1>29 DEF Catalogued
<1> QED
  BY <1>22, <1>23, <1>25, <1>30 DEF TableInv

\* A key that comes last in its bucket is in nobody's way.
LEMMA WalkStays ==
  ASSUME NEW B \in [Table!Heads -> Seq(Keys)], NEW C, NEW h \in Table!Heads, NEW k \in Keys,
         More(B, C, h, k), C[h] = Inserted(B[h], Len(B[h]) + 1, k),
         generation \in 1..MaxGeneration, NEW x \in Keys, NEW c, Walking(c, x, B)
  PROVE  Walking(c, x, C)
<1> DEFINE q == Table!Head(generation, x)
           n == Len(B[q])
<1>1. q \in Table!Heads
  BY HeadOf
<1>2. PICK i \in 0..n : c = Spot(q, B[q], i) /\ \A j \in 1..i : B[q][j] # x
  BY DEF Walking
<1> HIDE DEF q
<1>3. B[q] \in Seq(Keys) /\ n \in Nat
  BY <1>1
<1>4. i \in 0..Len(C[q]) /\ \A j \in 1..i : C[q][j] = B[q][j]
  <2>1. CASE q = h
    <3>1. PICK m \in 0..Len(B[q]) : m = n
      BY <1>3
    <3> DEFINE w == Inserted(B[q], m + 1, k)
    <3>2. C[q] = w
      BY <2>1, <3>1
    <3>3. Len(w) = Len(B[q]) + 1
      BY <1>3, KeyInserted
    <3>4. \A j \in 1..(Len(B[q]) + 1) : j <= m => w[j] = B[q][j]
      BY <1>3, KeyInserted
    <3> HIDE DEF w
    <3>5. /\ Len(C[q]) = n + 1
          /\ \A j \in 1..(n + 1) : j <= n => C[q][j] = B[q][j]
      BY <3>1, <3>2, <3>3, <3>4
    <3>6. \A j \in 1..i : j \in 1..(n + 1) /\ j <= n
      BY <1>3
    <3> HIDE DEF n
    <3> QED
      BY <1>3, <3>5, <3>6
  <2>2. CASE q # h
    BY <1>1, <2>2 DEF More
  <2> QED
    BY <2>1, <2>2
<1>5. Spot(q, C[q], i) = Spot(q, B[q], i)
  BY <1>4 DEF Spot
<1>6. \E j \in 0..Len(C[q]) : c = Spot(q, C[q], j) /\ \A a \in 1..j : C[q][a] # x
  BY <1>2, <1>4, <1>5
<1> QED
  BY <1>6 DEF Walking, q

\* A node is put where threads are about to compare.
LEMMA MetGoesOn ==
  ASSUME TableTypes, NEW t \in Threads, NEW r \in Steps, NEW c,
         thread' = [Table!MetBut(t, c) EXCEPT ![t] = r]
  PROVE  /\ thread' \in [Threads -> Steps] /\ thread'[t] = r
         /\ \A u \in Threads : u # t =>
              \/ thread'[u] = thread[u] /\ ~(thread[u].op = "compare" /\ thread[u].at = c)
              \/ Table!Looking(u) /\ thread'[u] = [thread[u] EXCEPT !.met = TRUE]
<1>1. thread \in [Threads -> Steps]
  BY DEF TableTypes
<1>2. ASSUME NEW u \in Threads, thread[u].op = "compare"
      PROVE  [thread[u] EXCEPT !.met = TRUE] \in Steps
  <2>1. thread[u] \in Looks
    BY <1>1, <1>2, StepsAre
  <2>2. [thread[u] EXCEPT !.met = TRUE] \in Looks
    BY <2>1 DEF Looks
  <2> QED
    BY <2>2 DEF Steps
<1> DEFINE f == Table!MetBut(t, c)
<1>3. /\ f \in [Threads -> Steps]
      /\ \A u \in Threads : u # t =>
           f[u] = IF thread[u].op = "compare" /\ thread[u].at = c
                  THEN [thread[u] EXCEPT !.met = TRUE] ELSE thread[u]
  BY <1>1, <1>2 DEF Table!MetBut
<1> HIDE DEF f
<1>4. /\ thread' \in [Threads -> Steps] /\ thread'[t] = r
      /\ \A u \in Threads : u # t => thread'[u] = f[u]
  BY <1>3 DEF f
<1> QED
  BY <1>3, <1>4 DEF Table!Looking

\* emplace_after: the key is there as soon as the last pointer is set.
LEMMA NodeAddedKeeps ==
  ASSUME TableInv, ~raced, NEW t \in Threads, Table!Emplace(t)
  PROVE  TableInv'
<1> DEFINE r == [op |-> "count"]
<1>1. TableTypes /\ LookupsRight /\ OneAdds
  BY DEF TableInv
<1>2. PICK B \in [Table!Heads -> Seq(Keys)] : Catalogued(B)
  BY DEF TableInv
<1>3. PICK c : c = thread[t].at
  OBVIOUS
<1>4. PICK k : k = thread[t].key
  OBVIOUS
<1>5. PICK g : g = hnext'
  OBVIOUS
<1>6. /\ thread[t].op \in {"add", "refind"} /\ ~Table!Found(t) /\ generation # 0
      /\ g = [hnext EXCEPT ![<<k>>] = hnext[c], ![c] = <<k>>]
      /\ present' = present \cup {k} /\ thread' = [Table!MetBut(t, c) EXCEPT ![t] = r]
      /\ UNCHANGED <<generation, hsize, raced>>
  BY <1>3, <1>4, <1>5 DEF Table!Emplace
<1>7. /\ Table!Adding(t) /\ ~Table!Rehashing /\ ~Counting /\ thread[t] \in Adds /\ k \in Keys
      /\ generation \in 1..MaxGeneration
  BY <1>1, <1>4, <1>6, AddersAre, TableAssumption DEF Adds, TableTypes
<1>8. Linked(hnext, B) /\ Complete(B) /\ Walking(c, k, B)
  BY <1>2, <1>3, <1>4, <1>6 DEF Catalogued, OnTheWay
<1>9. PICK h : h = Table!Head(generation, k)
  OBVIOUS
<1>10. /\ h \in Table!Heads /\ c \in Pointers /\ hnext[c] = Null
       /\ ~Contains(B[h], k) /\ c = Spot(h, B[h], Len(B[h]))
  <2>1. h \in Table!Heads /\ c \in Pointers /\ c # Null
    BY <1>7, <1>8, <1>9, WalkOn
  <2>2. hnext[c] = Null
    BY <1>3, <1>6, <2>1 DEF Table!Found, Table!Behind, Null
  <2>3. hnext[c] = Null => ~Contains(B[h], k) /\ c = Spot(h, B[h], Len(B[h]))
    BY <1>7, <1>8, <1>9, WalkOn
  <2> QED
    BY <2>1, <2>2, <2>3
<1>11. k \notin present /\ Nowhere(B, k)
  BY <1>7, <1>8, <1>9, <1>10, InItsBucket DEF Nowhere
<1>12. PICK i \in 0..Len(B[h]) : i = Len(B[h])
  <2>1. B[h] \in Seq(Keys)
    BY <1>10
  <2> QED
    BY <2>1
<1>13. /\ <<k>> \in Pointers /\ <<k>> # c /\ <<k>> \in Table!TableNodes
       /\ g \in [Pointers -> Table!TableNodes \cup {Null}] /\ LinksIn(hnext, g, c, k)
  <2>1. <<k>> \in Pointers /\ <<k>> \in Table!TableNodes
    BY <1>7, NodesAre DEF Pointers
  <2>2. <<k>> # c
    BY <1>7, <1>10, <1>12, SpotsAre
  <2>3. hnext \in [Pointers -> Table!TableNodes \cup {Null}]
    BY <1>1 DEF TableTypes
  <2>4. g \in [Pointers -> Table!TableNodes \cup {Null}]
    BY <1>6, <1>10, <2>1, <2>3
  <2>5. LinksIn(hnext, g, c, k)
    BY <1>6, <1>10, <2>1, <2>2, <2>3 DEF LinksIn
  <2> QED
    BY <2>1, <2>2, <2>4, <2>5
<1>14. PICK C : C = PutIn(B, h, i, k)
  OBVIOUS
<1>15. Linked(g, C) /\ More(B, C, h, k) /\ C[h] = Inserted(B[h], Len(B[h]) + 1, k)
  <2>1. LinksIn(hnext, g, Spot(h, B[h], i), k)
    BY <1>10, <1>12, <1>13
  <2>2. Linked(g, C)
    BY <1>7, <1>8, <1>10, <1>11, <1>14, <2>1, Links
  <2>3. More(B, C, h, k)
    BY <1>7, <1>8, <1>10, <1>11, <1>14, <2>1, Links
  <2>4. C[h] = Inserted(B[h], i + 1, k)
    BY <1>7, <1>8, <1>10, <1>11, <1>14, <2>1, Links
  <2> QED
    BY <1>12, <2>2, <2>3, <2>4
<1>16. r \in Steps /\ r.op = "count"
  BY DEF Steps
<1> HIDE DEF r
<1>17. /\ thread' \in [Threads -> Steps] /\ thread'[t] = r
       /\ \A u \in Threads : u # t =>
            \/ thread'[u] = thread[u] /\ ~(thread[u].op = "compare" /\ thread[u].at = c)
            \/ Table!Looking(u) /\ thread'[u] = [thread[u] EXCEPT !.met = TRUE]
  BY <1>1, <1>6, <1>16, MetGoesOn
<1>18. present \subseteq present'
  BY <1>6
<1>19. /\ \A u \in Threads, v \in Threads : (Table!Adding(u) /\ Table!Adding(v))' => u = v
       /\ ~Table!Rehashing' /\ Counting' /\ LookupsRight'
       /\ \A u \in Threads : u # t => thread'[u].op \in {"idle", "look", "compare", "answered"}
  BY <1>7, <1>16, <1>17, <1>18, AdderGoesOn
<1>20. TableTypes'
  <2>1. IsFiniteSet(present)
    BY <1>1, TableAssumption, FS_Subset DEF TableTypes
  <2>2. Cardinality(present \cup {k}) = Cardinality(present) + 1
    BY <1>11, <2>1, FS_AddElement
  <2>3. hsize = Cardinality(present)
    BY <1>1, <1>7 DEF TableTypes
  <2>4. hsize' + (IF Counting' THEN 1 ELSE 0) = Cardinality(present')
    BY <1>6, <1>19, <2>2, <2>3
  <2> QED
    BY <1>1, <1>5, <1>6, <1>7, <1>13, <1>17, <2>4 DEF TableTypes
<1>21. OneAdds'
  <2>1. ASSUME NEW x \in Keys \ (present \cup {k}) PROVE g[<<x>>] = Null
    <3>1. <<x>> \in Pointers /\ <<x>> # <<k>>
      BY <2>1, NodesAre DEF Pointers
    <3>2. <<x>> # c
      <4>1. <<x>> = c => Contains(B[h], x)
        <5>1. c = Spot(h, B[h], i) /\ x \in Keys
          BY <1>10, <1>12
        <5>2. \A y \in Keys : Spot(h, B[h], i) = <<y>> => Contains(B[h], y)
          BY <1>10, SpotsAre
        <5> QED
          BY <5>1, <5>2
      <4>2. ~Contains(B[h], x)
        BY <1>8, <1>10, <2>1 DEF Complete
      <4> QED
        BY <4>1, <4>2
    <3>3. g[<<x>>] = hnext[<<x>>]
      BY <1>13, <3>1, <3>2 DEF LinksIn
    <3> QED
      BY <1>1, <2>1, <3>3 DEF OneAdds
  <2> QED
    BY <1>1, <1>5, <1>6, <1>19, <2>1 DEF OneAdds
<1>22. C \in [Table!Heads -> Seq(Keys)] /\ Linked(hnext, C)'
  BY <1>5, <1>15 DEF Linked, More
<1>23. Complete(C)'
  <2>1. \A x \in Keys : x \in present \cup {k} <=> \E q \in Table!Heads : Contains(C[q], x)
    BY <1>8, <1>10, <1>15 DEF Complete, More
  <2>2. \A q \in Table!Heads : \A x \in Keys : Contains(C[q], x) => q = Table!Head(generation, x)
    BY <1>7, <1>8, <1>9, <1>15 DEF Complete, More
  <2> QED
    BY <1>6, <2>1, <2>2 DEF Complete, Table!Head
<1>24. OnTheWay(r, C)'
  BY <1>16 DEF OnTheWay
<1>25. ASSUME NEW u \in Threads, u # t PROVE OnTheWay(thread[u], C)'
  <2>1. PICK w \in Steps : w = thread[u]
    BY <1>1, <1>25 DEF TableTypes
  <2>2. PICK v \in Steps : v = thread'[u]
    BY <1>17, <1>25
  <2>3. /\ OnTheWay(w, B) /\ v.op \in {"idle", "look", "compare", "answered"}
        /\ \/ v = w /\ ~(w.op = "compare" /\ w.at = c)
           \/ w.op \in {"look", "compare"} /\ v = [w EXCEPT !.met = TRUE]
    BY <1>2, <1>17, <1>19, <1>25, <2>1, <2>2 DEF Catalogued, Table!Looking
  <2>4. ASSUME v.op \in {"look", "compare"}, ~v.torn
        PROVE  /\ Walking(v.at, v.key, C)' /\ (v.had => v.key \in present)
               /\ v.op = "compare" => g[v.at] \in {Null, <<v.key>>} \/ v.met
    <3>1. /\ w \in Looks /\ ~w.torn /\ w.op = v.op /\ w.at = v.at /\ w.key = v.key /\ w.had = v.had
          /\ (v = w /\ ~(w.op = "compare" /\ w.at = c)) \/ v.met
      <4>1. CASE v = w /\ ~(w.op = "compare" /\ w.at = c)
        BY <2>4, <4>1, StepsAre
      <4>2. CASE w.op \in {"look", "compare"} /\ v = [w EXCEPT !.met = TRUE]
        <5>1. w \in Looks
          BY <4>2, StepsAre
        <5> QED
          BY <2>4, <4>2, <5>1 DEF Looks
      <4> QED
        BY <2>3, <4>1, <4>2
    <3>2. w.key \in Keys
      BY <3>1 DEF Looks
    <3>3. /\ Walking(w.at, w.key, B) /\ (w.had => w.key \in present)
          /\ w.op = "compare" => hnext[w.at] \in {Null, <<w.key>>} \/ w.met
      BY <1>6, <2>3, <2>4, <3>1 DEF OnTheWay
    <3>4. Walking(w.at, w.key, C)
      BY <1>7, <1>10, <1>15, <3>2, <3>3, WalkStays
    <3>5. v.op = "compare" => g[v.at] \in {Null, <<v.key>>} \/ v.met
      <4> SUFFICES ASSUME v.op = "compare", ~v.met PROVE g[v.at] \in {Null, <<v.key>>}
        OBVIOUS
      <4>1. v = w /\ w.at # c /\ hnext[w.at] \in {Null, <<w.key>>}
        BY <3>1, <3>3
      <4>2. w.at \in Pointers
        BY <1>7, <1>8, <3>2, <3>3, WalkOn
      <4>3. g[w.at] = IF w.at = <<k>> THEN Null ELSE hnext[w.at]
        BY <1>10, <1>13, <4>1, <4>2 DEF LinksIn
      <4> QED
        BY <4>1, <4>3
    <3>6. Walking(v.at, v.key, C)
      BY <3>1, <3>4
    <3>7. Walking(v.at, v.key, C)'
      BY <1>6, <3>6 DEF Walking, Table!Head
    <3>8. v.had => v.key \in present
      BY <3>1, <3>3
    <3> QED
      BY <3>5, <3>7, <3>8
  <2>5. OnTheWay(v, C)'
    BY <1>5, <1>6, <1>19, <2>3, <2>4 DEF OnTheWay
  <2> QED
    BY <2>2, <2>5 DEF OnTheWay
<1>26. Catalogued(C)'
  BY <1>17, <1>22, <1>23, <1>24, <1>25 DEF Catalogued
<1> QED
  BY <1>19, <1>20, <1>21, <1>22, <1>26 DEF TableInv

\* What points to a node is the cell in front of it in its bucket.
LEMMA FrontIs ==
  ASSUME TableTypes, OneAdds, NEW B \in [Table!Heads -> Seq(Keys)], Linked(hnext, B), Complete(B),
         NEW h \in Table!Heads, NEW i \in 1..Len(B[h]), NEW c \in Pointers
  PROVE  hnext[c] = <<B[h][i]>> <=> c = Spot(h, B[h], i - 1)
<1>1. B[h] \in Seq(Keys) /\ Len(B[h]) \in Nat
  OBVIOUS
<1>2. i - 1 \in 0..Len(B[h]) /\ i - 1 < Len(B[h]) /\ (i - 1) + 1 = i
  BY <1>1
<1>3. hnext[Spot(h, B[h], i - 1)] = <<B[h][i]>>
  <2>1. hnext[Spot(h, B[h], i - 1)]
          = IF i - 1 < Len(B[h]) THEN <<B[h][(i - 1) + 1]>> ELSE Null
    BY <1>2 DEF Linked
  <2> QED
    BY <1>2, <2>1
<1>4. <<B[h][i]>> # Null
  BY DEF Null, Table!Null
<1>5. ASSUME hnext[c] = <<B[h][i]>> PROVE c = Spot(h, B[h], i - 1)
  <2>1. PICK q \in Table!Heads : \E j \in 0..Len(B[q]) : c = Spot(q, B[q], j)
    <3>1. CASE c \in Table!Heads
      <4>1. B[c] \in Seq(Keys)
        BY <3>1
      <4>2. 0 \in 0..Len(B[c]) /\ c = Spot(c, B[c], 0)
        BY <4>1 DEF Spot
      <4> QED
        BY <3>1, <4>2
    <3>2. CASE c \notin Table!Heads
      <4>1. PICK x \in Keys : c = <<x>>
        BY <3>2, NodesAre DEF Pointers
      <4>2. x \in present
        BY <1>4, <1>5, <4>1 DEF OneAdds
      <4>3. PICK q \in Table!Heads : Contains(B[q], x)
        BY <4>2 DEF Complete
      <4>4. PICK j \in 1..Len(B[q]) : B[q][j] = x
        BY <4>3 DEF Contains
      <4>5. j \in 0..Len(B[q]) /\ j # 0
        OBVIOUS
      <4>6. c = Spot(q, B[q], j)
        BY <4>1, <4>4, <4>5 DEF Spot
      <4> QED
        BY <4>5, <4>6
    <3> QED
      BY <3>1, <3>2
  <2>2. PICK j \in 0..Len(B[q]) : c = Spot(q, B[q], j)
    BY <2>1
  <2>3. hnext[c] = IF j < Len(B[q]) THEN <<B[q][j + 1]>> ELSE Null
    BY <2>2 DEF Linked
  <2>4. j < Len(B[q]) /\ B[q][j + 1] = B[h][i]
    BY <1>4, <1>5, <2>3, NodesAre
  <2>5. j + 1 \in 1..Len(B[q])
    <3>1. B[q] \in Seq(Keys) /\ Len(B[q]) \in Nat
      OBVIOUS
    <3> QED
      BY <2>4, <3>1
  <2>6. q = h /\ j + 1 = i
    BY <2>4, <2>5 DEF Linked
  <2>7. j = i - 1
    BY <1>1, <2>6
  <2> QED
    BY <2>2, <2>6, <2>7
<1> QED
  BY <1>3, <1>5

\* erase: the pointer in front of the node passes it.
LEMMA EraseKeeps ==
  ASSUME TableInv, ~raced, NEW k \in Keys, Table!Erase(k)
  PROVE  TableInv'
<1>1. TableTypes /\ LookupsRight /\ OneAdds
  BY DEF TableInv
<1>2. PICK B \in [Table!Heads -> Seq(Keys)] : Catalogued(B)
  BY DEF TableInv
<1>3. PICK from : from = CHOOSE c \in Pointers : hnext[c] = <<k>>
  OBVIOUS
<1>4. PICK g : g = hnext'
  OBVIOUS
<1>5. /\ \A t \in Threads : thread[t] = Table!IdleThread
      /\ k \in present /\ g = [hnext EXCEPT ![from] = hnext[<<k>>], ![<<k>>] = Null]
      /\ hsize' = hsize - 1 /\ present' = present \ {k}
      /\ UNCHANGED <<generation, thread, raced>>
  BY <1>3, <1>4 DEF Table!Erase, Pointers, Null
<1>6. \A t \in Threads : thread[t].op = "idle"
  BY <1>5 DEF Table!IdleThread
<1>7. ~Table!Rehashing /\ ~Counting /\ ~Table!Rehashing' /\ ~Counting'
  BY <1>5, <1>6 DEF Table!Rehashing, Counting
<1>8. Linked(hnext, B) /\ Complete(B)
  BY <1>2 DEF Catalogued
<1>9. PICK h \in Table!Heads : Contains(B[h], k)
  BY <1>5, <1>8 DEF Complete
<1>10. PICK i \in 1..Len(B[h]) : B[h][i] = k
  BY <1>9 DEF Contains
<1>11. i \in 0..Len(B[h]) /\ i - 1 \in 0..Len(B[h]) /\ i # 0 /\ i # i - 1
  OBVIOUS
<1>12. from = Spot(h, B[h], i - 1) /\ from \in Pointers /\ from # <<k>>
  <2>1. \A c \in Pointers : hnext[c] = <<k>> <=> c = Spot(h, B[h], i - 1)
    BY <1>1, <1>8, <1>10, FrontIs
  <2>2. Spot(h, B[h], i - 1) \in Pointers
    BY <1>11, SpotsAre
  <2>3. from \in Pointers /\ hnext[from] = <<k>>
    BY <1>3, <2>1, <2>2
  <2>4. Spot(h, B[h], i) = <<k>>
    BY <1>10, <1>11, SpotsAre
  <2>5. Spot(h, B[h], i) # Spot(h, B[h], i - 1)
    BY <1>8, <1>11, SpotsDiffer
  <2> QED
    BY <2>1, <2>3, <2>4, <2>5
<1>13. /\ <<k>> \in Pointers /\ g \in [Pointers -> Table!TableNodes \cup {Null}]
       /\ g[<<k>>] = Null /\ Passes(hnext, g, from, k)
  <2>1. <<k>> \in Pointers
    BY NodesAre DEF Pointers
  <2>2. hnext \in [Pointers -> Table!TableNodes \cup {Null}]
    BY <1>1 DEF TableTypes
  <2>3. g \in [Pointers -> Table!TableNodes \cup {Null}] /\ g[<<k>>] = Null
    BY <1>5, <1>12, <2>1, <2>2
  <2>4. Passes(hnext, g, from, k)
    BY <1>5, <1>12, <2>1, <2>2 DEF Passes
  <2> QED
    BY <2>1, <2>3, <2>4
<1>14. PICK C : C = TakenOut(B, h, i)
  OBVIOUS
<1>15. Linked(g, C) /\ Less(B, C, h, k)
  <2>1. Passes(hnext, g, Spot(h, B[h], i - 1), B[h][i])
    BY <1>10, <1>12, <1>13
  <2>2. Linked(g, C)
    BY <1>8, <1>14, <2>1, Unlinks
  <2>3. Less(B, C, h, B[h][i])
    BY <1>8, <1>14, <2>1, Unlinks
  <2> QED
    BY <1>10, <2>2, <2>3
<1>16. C \in [Table!Heads -> Seq(Keys)] /\ Linked(hnext, C)'
  BY <1>4, <1>15 DEF Linked, Less
<1>17. generation # 0
  BY <1>1, <1>5 DEF OneAdds
<1>18. TableTypes'
  <2>1. IsFiniteSet(present)
    BY <1>1, TableAssumption, FS_Subset DEF TableTypes
  <2>2. Cardinality(present \ {k}) = Cardinality(present) - 1 /\ IsFiniteSet(present \ {k})
    BY <1>5, <2>1, FS_RemoveElement
  <2>3. Cardinality(present \ {k}) \in Nat
    BY <2>2, FS_CardinalityType
  <2>4. hsize = Cardinality(present)
    BY <1>1, <1>7 DEF TableTypes
  <2>5. hsize' \in Nat /\ hsize' + (IF Counting' THEN 1 ELSE 0) = Cardinality(present')
    BY <1>5, <1>7, <2>2, <2>3, <2>4
  <2> QED
    BY <1>1, <1>4, <1>5, <1>13, <2>5 DEF TableTypes
<1>19. LookupsRight'
  BY <1>5, <1>6, Zenon DEF LookupsRight, Table!LookupsRight
<1>20. OneAdds'
  <2>1. \A u \in Threads : ~Table!Adding(u)'
    BY <1>5, <1>6 DEF Table!Adding
  <2>2. ASSUME NEW x \in Keys \ (present \ {k}) PROVE g[<<x>>] = Null
    <3>1. CASE x = k
      BY <1>13, <3>1
    <3>2. CASE x # k
      <4>1. <<x>> \in Pointers /\ <<x>> # <<k>> /\ x \in Keys \ present
        BY <2>2, <3>2, NodesAre DEF Pointers
      <4>2. <<x>> # from
        <5>1. \A y \in Keys : Spot(h, B[h], i - 1) = <<y>> => Contains(B[h], y)
          BY <1>11, SpotsAre
        <5>2. ~Contains(B[h], x)
          BY <1>8, <4>1 DEF Complete
        <5> QED
          BY <1>12, <4>1, <5>1, <5>2
      <4>3. g[<<x>>] = hnext[<<x>>]
        BY <1>13, <4>1, <4>2 DEF Passes
      <4> QED
        BY <1>1, <4>1, <4>3 DEF OneAdds
    <3> QED
      BY <3>1, <3>2
  <2> QED
    BY <1>4, <1>5, <1>17, <2>1, <2>2 DEF OneAdds
<1>21. Complete(C)'
  <2>1. \A x \in Keys : x \in present \ {k} <=> \E q \in Table!Heads : Contains(C[q], x)
    BY <1>8, <1>15 DEF Complete, Less
  <2>2. \A q \in Table!Heads : \A x \in Keys : Contains(C[q], x) => q = Table!Head(generation, x)
    BY <1>7, <1>8, <1>15 DEF Complete, Less
  <2> QED
    BY <1>5, <2>1, <2>2 DEF Complete, Table!Head
<1>22. \A u \in Threads : OnTheWay(thread[u], C)'
  BY <1>5, <1>6 DEF OnTheWay
<1>23. Catalogued(C)'
  BY <1>16, <1>21, <1>22 DEF Catalogued
<1> QED
  BY <1>16, <1>18, <1>19, <1>20, <1>23 DEF TableInv

\* No buckets, no keys, nobody there.
LEMMA TableInvInit ==
  ASSUME Table!TableInit
  PROVE  TableInv
<1> DEFINE B == [h \in Table!Heads |-> <<>>]
<1>1. /\ hnext = [c \in Pointers |-> Null] /\ generation = 0 /\ hsize = 0 /\ present = {}
      /\ thread = [t \in Threads |-> Table!IdleThread] /\ raced = FALSE
  BY DEF Table!TableInit, Pointers, Null
<1>2. \A t \in Threads : thread[t] = Table!IdleThread /\ thread[t].op = "idle"
  BY <1>1 DEF Table!IdleThread
<1>3. ~Counting /\ ~Table!Rehashing /\ \A t \in Threads : ~Table!Adding(t)
  BY <1>2 DEF Counting, Table!Rehashing, Table!Adding
<1>4. TableTypes
  <2>1. Cardinality(present) = 0
    BY <1>1, FS_EmptySet
  <2>2. thread \in [Threads -> Steps]
    BY <1>1 DEF Steps
  <2>3. hnext \in [Pointers -> Table!TableNodes \cup {Null}]
    BY <1>1
  <2>4. hsize + (IF Counting THEN 1 ELSE 0) = Cardinality(present)
    BY <1>1, <1>3, <2>1
  <2>5. 0 \in 0..MaxGeneration
    BY TableAssumption
  <2> QED
    BY <1>1, <2>2, <2>3, <2>4, <2>5 DEF TableTypes
<1>5. LookupsRight
  BY <1>2, Zenon DEF LookupsRight, Table!LookupsRight
<1>6. OneAdds
  <2>1. \A k \in Keys : hnext[<<k>>] = Null
    BY <1>1, NodesAre DEF Pointers
  <2> QED
    BY <1>1, <1>3, <2>1 DEF OneAdds
<1>7. B \in [Table!Heads -> Seq(Keys)] /\ Catalogued(B)
  <2>1. B \in [Table!Heads -> Seq(Keys)]
    OBVIOUS
  <2>2. \A h \in Table!Heads : B[h] = <<>> /\ Len(B[h]) = 0
    OBVIOUS
  <2> HIDE DEF B
  <2>3. Linked(hnext, B)
    <3>1. ASSUME NEW h \in Table!Heads, NEW i \in 0..Len(B[h])
          PROVE  hnext[Spot(h, B[h], i)] = Null /\ ~(i < Len(B[h]))
      <4>1. i = 0
        BY <2>2
      <4> QED
        BY <1>1, <2>2, <4>1 DEF Spot, Pointers
    <3>2. \A h \in Table!Heads : \A i \in 1..Len(B[h]) : FALSE
      BY <2>2
    <3> QED
      BY <3>1, <3>2 DEF Linked
  <2>4. Complete(B)
    <3>1. \A h \in Table!Heads : \A k : ~Contains(B[h], k)
      BY <2>2 DEF Contains
    <3> QED
      BY <1>1, <3>1 DEF Complete
  <2>5. \A t \in Threads : OnTheWay(thread[t], B)
    BY <1>2 DEF OnTheWay
  <2> QED
    BY <2>1, <2>3, <2>4, <2>5 DEF Catalogued
<1> HIDE DEF B
<1> QED
  BY <1>4, <1>5, <1>6, <1>7 DEF TableInv

\* Every step of a thread, and every erase.
LEMMA TableInvNext ==
  ASSUME TableInv, Table!HashNext
  PROVE  TableInv'
<1>1. ~raced
  BY DEF Table!HashNext
<1>2. CASE \E k \in Keys : Table!Erase(k)
  BY <1>1, <1>2, EraseKeeps
<1>3. CASE \E t \in Threads : Table!HashThread(t)
  <2>1. PICK t \in Threads : Table!HashThread(t)
    BY <1>3
  <2>2. CASE \E k \in Keys : Table!Look(t, k) \/ Table!Add(t, k)
    BY <1>1, <2>2, LookKeeps, AddKeeps
  <2>3. CASE Table!LookNext(t)
    BY <1>1, <2>3, LookNextKeeps
  <2>4. CASE Table!LookCompare(t) \/ Table!Return(t)
    BY <1>1, <2>4, LookCompareKeeps, ReturnKeeps
  <2>5. CASE Table!AddWalk(t)
    BY <1>1, <2>5, AddWalkKeeps
  <2>6. CASE Table!AddFound(t)
    BY <1>1, <2>6, AddFoundKeeps
  <2>7. CASE Table!FirstBuckets(t)
    BY <1>1, <2>7, FirstBucketsKeeps
  <2>8. CASE Table!RehashStart(t)
    BY <1>1, <2>8, RehashStartKeeps
  <2>9. CASE Table!RehashMove(t)
    BY <1>1, <2>9, RehashMoveKeeps
  <2>10. CASE Table!RehashSwap(t)
    BY <1>1, <2>10, RehashSwapKeeps
  <2>11. CASE Table!Emplace(t)
    BY <1>1, <2>11, NodeAddedKeeps
  <2>12. CASE Table!Count(t)
    BY <1>1, <2>12, CountKeeps
  <2> QED
    BY <2>1, <2>2, <2>3, <2>4, <2>5, <2>6, <2>7, <2>8, <2>9, <2>10, <2>11, <2>12
    DEF Table!HashThread
<1> QED
  BY <1>2, <1>3 DEF Table!HashNext

\* A step of another container.
LEMMA TableInvStays == TableInv /\ UNCHANGED tableVars => TableInv'
<1> SUFFICES ASSUME TableInv, UNCHANGED tableVars PROVE TableInv'
  OBVIOUS
<1>1. UNCHANGED <<hnext, generation, hsize, thread, present, raced>>
  BY DEF tableVars
<1>2. Counting' <=> Counting
  BY <1>1 DEF Counting
<1>3. Table!Rehashing' <=> Table!Rehashing
  BY <1>1 DEF Table!Rehashing
<1>4. TableTypes'
  BY <1>1, <1>2 DEF TableInv, TableTypes
<1>5. LookupsRight'
  BY <1>1 DEF TableInv, LookupsRight, Table!LookupsRight
<1>6. ASSUME ~raced' PROVE OneAdds' /\ \E B \in [Table!Heads -> Seq(Keys)] : Catalogued(B)'
  <2>1. OneAdds'
    BY <1>1, <1>6 DEF TableInv, OneAdds, Table!Adding
  <2>2. PICK B \in [Table!Heads -> Seq(Keys)] : Catalogued(B)
    BY <1>1, <1>6 DEF TableInv
  <2>3. Linked(hnext, B)' /\ Complete(B)'
    BY <1>1, <1>3, <2>2 DEF Catalogued, Linked, Complete, Table!Head
  <2>4. \A x : OnTheWay(x, B)' <=> OnTheWay(x, B)
    <3>1. \A c, k : Walking(c, k, B)' <=> Walking(c, k, B)
      BY <1>1 DEF Walking, Table!Head
    <3>2. \A c : Emptied(c, B)' <=> Emptied(c, B)
      BY <1>1 DEF Emptied, Table!Buckets
    <3> QED
      BY <1>1, <1>3, <3>1, <3>2 DEF OnTheWay
  <2>5. \A t \in Threads : OnTheWay(thread[t], B)'
    BY <1>1, <2>2, <2>4 DEF Catalogued
  <2> QED
    BY <2>1, <2>3, <2>5 DEF Catalogued
<1> QED
  BY <1>4, <1>5, <1>6 DEF TableInv

\* The catalogue: behind each head are the nodes of its keys, once, whatever the
\* threads do until two additions overlap; and what looks is on its way.
THEOREM TableInvariant == Spec => []TableInv
<1>1. Init => TableInv
  BY TableInvInit DEF Init
<1>2. TableInv /\ [Next]_vars => TableInv'
  <2> SUFFICES ASSUME TableInv, [Next]_vars PROVE TableInv'
    OBVIOUS
  <2>1. Table!HashNext \/ UNCHANGED tableVars
    BY DEF Next, vars
  <2> QED
    BY <2>1, TableInvNext, TableInvStays
<1> QED
  BY <1>1, <1>2, PTL DEF Spec

\* A look-up that meets no rehash finds a table that was there when it began,
\* however many tables are added meanwhile; and it takes one that is not there for
\* a table only if another was added where its search had ended, in front of its
\* comparison with end().
THEOREM LookupsAreRight == Spec => []LookupsRight
<1>1. TableInv => LookupsRight
  BY DEF TableInv
<1> QED
  BY <1>1, TableInvariant, PTL

\* What a recursion along the pointers has to be.
Follows(F, f, h, n) ==
  F = [i \in 0..n |-> IF i = 0 THEN h ELSE IF F[i - 1] = Null THEN Null ELSE f[F[i - 1]]]

\* It goes along the bucket, and then stays at its end.
Along(h, s, n) == [i \in 0..n |-> IF i <= Len(s) THEN Spot(h, s, i) ELSE Null]

\* The recursion has a solution.
LEMMA AlongFollows ==
  ASSUME NEW f, NEW h \in Table!Heads, NEW s \in Seq(Keys), Chained(f, h, s), NEW n \in Nat
  PROVE  Follows(Along(h, s, n), f, h, n)
<1> DEFINE F == Along(h, s, n)
           m == Len(s)
<1>1. m \in Nat
  OBVIOUS
<1>2. \A i \in 0..n : F[i] = IF i <= m THEN Spot(h, s, i) ELSE Null
  BY DEF Along
<1>3. \A i \in 0..m : f[Spot(h, s, i)] = IF i < m THEN <<s[i + 1]>> ELSE Null
  BY DEF Chained
<1>4. \A i \in 0..m : Spot(h, s, i) # Null
  BY HeadsAre DEF Spot, Null, Table!Null
<1>5. F = [i \in 0..n |-> F[i]]
  BY DEF Along
<1> HIDE DEF F, m
<1>6. ASSUME NEW i \in 0..n
      PROVE  F[i] = IF i = 0 THEN h ELSE IF F[i - 1] = Null THEN Null ELSE f[F[i - 1]]
  <2>1. CASE i = 0
    <3>1. i <= m /\ Spot(h, s, i) = h
      BY <1>1, <2>1 DEF Spot
    <3>2. F[i] = h
      BY <1>2, <3>1
    <3> QED
      BY <2>1, <3>2
  <2>2. CASE i # 0
    <3>1. i - 1 \in 0..n /\ (i - 1) + 1 = i /\ i \in Nat
      BY <2>2
    <3>2. CASE i - 1 <= m
      <4>1. i - 1 \in 0..m
        BY <3>1, <3>2
      <4>2. F[i - 1] = Spot(h, s, i - 1) /\ F[i - 1] # Null
        BY <1>2, <1>4, <3>1, <3>2, <4>1
      <4>3. f[F[i - 1]] = IF i - 1 < m THEN <<s[i]>> ELSE Null
        BY <1>3, <3>1, <4>1, <4>2
      <4>4. i - 1 < m <=> i <= m
        BY <1>1, <3>1
      <4>5. F[i] = IF i <= m THEN <<s[i]>> ELSE Null
        BY <1>2, <2>2 DEF Spot
      <4> QED
        BY <2>2, <4>2, <4>3, <4>4, <4>5
    <3>3. CASE ~(i - 1 <= m)
      <4>1. ~(i <= m)
        BY <1>1, <3>1, <3>3
      <4> QED
        BY <1>2, <2>2, <3>1, <3>3, <4>1
    <3> QED
      BY <3>2, <3>3
  <2> QED
    BY <2>1, <2>2
<1>7. [i \in 0..n |-> F[i]]
        = [i \in 0..n |-> IF i = 0 THEN h ELSE IF F[i - 1] = Null THEN Null ELSE f[F[i - 1]]]
  BY <1>6
<1> QED
  BY <1>5, <1>7 DEF Follows, F

\* There is one way to go along the pointers.
LEMMA FollowsOnce ==
  ASSUME NEW f, NEW h, NEW n \in Nat, NEW F, NEW G, Follows(F, f, h, n), Follows(G, f, h, n)
  PROVE  \A i \in 0..n : F[i] = G[i]
<1> DEFINE good == {m \in Nat : m <= n => F[m] = G[m]}
<1>1. /\ \A i \in 0..n : F[i] = IF i = 0 THEN h ELSE IF F[i - 1] = Null THEN Null ELSE f[F[i - 1]]
      /\ \A i \in 0..n : G[i] = IF i = 0 THEN h ELSE IF G[i - 1] = Null THEN Null ELSE f[G[i - 1]]
  <2> DEFINE A(E) == [i \in 0..n |-> IF i = 0 THEN h
                                    ELSE IF E[i - 1] = Null THEN Null ELSE f[E[i - 1]]]
  <2>1. F = A(F) /\ G = A(G)
    BY DEF Follows
  <2>2. \A E : \A i \in 0..n :
          A(E)[i] = IF i = 0 THEN h ELSE IF E[i - 1] = Null THEN Null ELSE f[E[i - 1]]
    OBVIOUS
  <2> HIDE DEF A
  <2>3. \A i \in 0..n : F[i] = A(F)[i] /\ G[i] = A(G)[i]
    BY <2>1
  <2> QED
    BY <2>2, <2>3
<1>2. 0 \in good
  BY <1>1
<1>3. ASSUME NEW m \in Nat, m \in good PROVE m + 1 \in good
  <2>1. ASSUME m + 1 <= n PROVE F[m + 1] = G[m + 1]
    <3>1. m + 1 \in 0..n /\ m + 1 # 0 /\ (m + 1) - 1 = m /\ m <= n
      BY <2>1
    <3>2. F[m] = G[m]
      BY <1>3, <3>1
    <3> HIDE DEF good
    <3> QED
      BY <1>1, <3>1, <3>2
  <2> QED
    BY <2>1
<1>4. Nat \subseteq good
  <2> HIDE DEF good
  <2> QED
    BY <1>2, <1>3, SetInduction
<1> QED
  BY <1>4

\* The instance counts as this module does.
LEMMA SameCardinality ==
  ASSUME NEW S
  PROVE  Table!Cardinality(S) = Cardinality(S)
BY Zenon DEF Table!Cardinality, Cardinality

\* Chain: the nodes of a bucket in their order, and nothing behind them.
LEMMA ChainIs ==
  ASSUME NEW h \in Table!Heads, NEW s \in Seq(Keys), Chained(hnext, h, s)
  PROVE  LET n == Table!Cardinality(Keys) + 1 IN
         /\ n \in Nat /\ DOMAIN Table!Chain(h) = 1..n
         /\ \A i \in 1..n : Table!Chain(h)[i] = IF i <= Len(s) THEN <<s[i]>> ELSE Null
<1> DEFINE n == Table!Cardinality(Keys) + 1
           at == CHOOSE F : F = [i \in 0..n |-> IF i = 0 THEN h ELSE Table!Behind(F[i - 1])]
<1>1. n \in Nat
  BY TableAssumption, SameCardinality, FS_CardinalityType
<1>2. Table!Chain(h) = [i \in 1..n |-> at[i]]
  BY Zenon DEF Table!Chain
<1> HIDE DEF n
<1>3. \A F : F = [i \in 0..n |-> IF i = 0 THEN h ELSE Table!Behind(F[i - 1])]
              <=> Follows(F, hnext, h, n)
  BY Zenon DEF Follows, Table!Behind, Null
<1>4. Follows(Along(h, s, n), hnext, h, n)
  BY <1>1, AlongFollows
<1>5. at = [i \in 0..n |-> IF i = 0 THEN h ELSE Table!Behind(at[i - 1])]
  BY <1>3, <1>4, Zenon
<1> HIDE DEF at
<1>6. \A i \in 0..n : at[i] = Along(h, s, n)[i]
  <2>1. Follows(at, hnext, h, n)
    BY <1>3, <1>5, Zenon
  <2> DEFINE F == Along(h, s, n)
  <2>2. Follows(F, hnext, h, n)
    BY <1>4
  <2> HIDE DEF F
  <2>3. \A i \in 0..n : at[i] = F[i]
    BY <1>1, <2>1, <2>2, FollowsOnce
  <2> QED
    BY <2>3 DEF F
<1>7. \A i \in 1..n : Along(h, s, n)[i] = IF i <= Len(s) THEN <<s[i]>> ELSE Null
  BY <1>1 DEF Along, Spot
<1>8. \A i \in 1..n : i \in 0..n
  OBVIOUS
<1>9. DOMAIN Table!Chain(h) = 1..n /\ \A i \in 1..n : Table!Chain(h)[i] = at[i]
  BY <1>2
<1> QED
  BY <1>1, <1>6, <1>7, <1>8, <1>9 DEF n

\* What a bucket has in it, when no rehash is under way: its keys, once.
LEMMA BucketIsWhole ==
  ASSUME TableTypes, NEW B \in [Table!Heads -> Seq(Keys)], Linked(hnext, B), Complete(B),
         ~Table!Rehashing, generation \in 1..MaxGeneration, NEW h \in Table!Heads,
         h[1] = generation
  PROVE  LET chain == Table!Chain(h)
             nodes == {i \in DOMAIN chain : chain[i] # Null}
             here == {k \in present : Table!Head(generation, k) = h}
         IN /\ Table!Cardinality(nodes) = Table!Cardinality(here)
            /\ {chain[i] : i \in nodes} = {<<k>> : k \in here}
<1> DEFINE s == B[h]
           m == Len(s)
           n == Table!Cardinality(Keys) + 1
           chain == Table!Chain(h)
           nodes == {i \in DOMAIN chain : chain[i] # Null}
           here == {k \in present : Table!Head(generation, k) = h}
<1>1. s \in Seq(Keys) /\ m \in Nat /\ Chained(hnext, h, s)
  BY LinkedIsChained
<1>2. here = {s[i] : i \in 1..m} /\ here \subseteq Keys
  <2>1. present \subseteq Keys
    BY DEF TableTypes
  <2>2. ASSUME NEW i \in 1..m PROVE s[i] \in here
    <3>1. s[i] \in Keys
      BY <1>1
    <3>2. Contains(B[h], s[i])
      BY DEF Contains
    <3>3. s[i] \in present /\ h = Table!Head(generation, s[i])
      BY <3>1, <3>2 DEF Complete
    <3> QED
      BY <3>3
  <2>3. ASSUME NEW k \in here PROVE \E i \in 1..m : k = s[i]
    <3>1. k \in Keys /\ k \in present /\ Table!Head(generation, k) = h
      BY <2>1
    <3>2. Contains(B[h], k)
      BY <3>1, InItsBucket
    <3> QED
      BY <3>2 DEF Contains
  <2> HIDE DEF here, s, m
  <2>4. here = {s[i] : i \in 1..m}
    BY <2>2, <2>3
  <2> QED
    BY <2>1, <2>4 DEF here
<1>3. Cardinality(here) = m /\ m <= Cardinality(Keys)
  <2> DEFINE e == [i \in 1..m |-> s[i]]
  <2>1. e \in Bijection(1..m, here)
    <3>1. \A i, j \in 1..m : s[i] = s[j] => i = j
      BY <1>1 DEF Chained
    <3>2. e \in [1..m -> here]
      <4> HIDE DEF here, s, m
      <4> QED
        BY <1>2
    <3> HIDE DEF here, s, m
    <3>3. \A k \in here : \E i \in 1..m : e[i] = k
      BY <1>2
    <3>4. \A i, j \in 1..m : e[i] = e[j] => i = j
      BY <3>1
    <3> HIDE DEF e
    <3>5. DOMAIN e = 1..m
      BY <3>2
    <3> QED
      BY <3>2, <3>3, <3>4, <3>5 DEF Bijection, Injection, Surjection, IsInjective
  <2>2. ExistsBijection(1..m, here)
    <3> HIDE DEF e, here, m
    <3> QED
      BY <2>1 DEF ExistsBijection
  <2>3. Cardinality(here) = m
    <3> HIDE DEF here, s, m
    <3> QED
      BY <1>1, <2>2, FS_CountingElements
  <2>4. Cardinality(here) <= Cardinality(Keys)
    <3> HIDE DEF here
    <3> QED
      BY <1>2, TableAssumption, FS_Subset
  <2> QED
    BY <2>3, <2>4
<1>4. /\ n \in Nat /\ DOMAIN chain = 1..n
      /\ \A i \in 1..n : chain[i] = IF i <= m THEN <<s[i]>> ELSE Null
  <2>1. DOMAIN chain = 1..n
    BY <1>1, ChainIs
  <2>2. n \in Nat
    BY <1>1, ChainIs
  <2>3. \A i \in 1..n : chain[i] = IF i <= m THEN <<s[i]>> ELSE Null
    BY <1>1, ChainIs
  <2> QED
    BY <2>1, <2>2, <2>3
<1>5. n = Cardinality(Keys) + 1 /\ Cardinality(Keys) \in Nat
  BY SameCardinality, TableAssumption, FS_CardinalityType
<1>6. \A i : <<s[i]>> # Null
  BY DEF Null, Table!Null
<1> HIDE DEF s, m, n, chain
<1>7. \A i \in 1..m : i \in 1..n /\ i <= m
  BY <1>1, <1>3, <1>5
<1>8. \A i \in 1..n : i <= m => i \in 1..m
  BY <1>1
<1>9. nodes = 1..m
  BY <1>4, <1>6, <1>7, <1>8
<1>10. \A i \in 1..m : chain[i] = <<s[i]>>
  BY <1>4, <1>7
<1> HIDE DEF nodes, here
<1>11. Cardinality(nodes) = m
  BY <1>1, <1>9, FS_Interval
<1>12. Table!Cardinality(nodes) = Table!Cardinality(here)
  BY <1>3, <1>11, SameCardinality
<1>13. {chain[i] : i \in nodes} = {<<k>> : k \in here}
  BY <1>2, <1>9, <1>10
<1> QED
  BY <1>12, <1>13 DEF nodes, here, chain

\* What the invariant says of a table nobody adds to.
LEMMA TableInvGives == TableInv => TableIsWhole
<1> SUFFICES ASSUME TableInv PROVE Table!TableIsWhole
  BY DEF TableIsWhole
<1>1. TableTypes
  BY DEF TableInv
<1>2. Table!HashTypeOK
  <2>1. IsFiniteSet(Keys) /\ present \subseteq Keys
    BY <1>1, TableAssumption DEF TableTypes
  <2>2. IsFiniteSet(present) /\ Cardinality(present) <= Cardinality(Keys)
    BY <2>1, FS_Subset
  <2>3. Cardinality(present) \in Nat /\ Cardinality(Keys) \in Nat
    BY <2>1, <2>2, FS_CardinalityType
  <2>4. hsize \in Nat /\ hsize <= Cardinality(present)
    BY <1>1, <2>3 DEF TableTypes
  <2>5. hsize \in 0..Table!Cardinality(Keys)
    <3> DEFINE a == Cardinality(present)
               b == Cardinality(Keys)
    <3> HIDE DEF a, b
    <3>1. hsize \in 0..b
      BY <2>2, <2>3, <2>4 DEF a, b
    <3> QED
      BY <3>1, SameCardinality DEF b
  <2>6. generation \in 0..MaxGeneration
    BY <1>1 DEF TableTypes
  <2>7. \A c \in Table!Heads \cup Table!TableNodes : hnext[c] \in Table!TableNodes \cup {Table!Null}
    BY <1>1 DEF TableTypes, Pointers, Null
  <2> QED
    BY <2>1, <2>5, <2>6, <2>7 DEF Table!HashTypeOK
<1>3. ASSUME ~raced, \A t \in Threads : ~Table!Adding(t)
      PROVE  /\ hsize = Table!Cardinality(present)
             /\ generation = 0 => present = {}
             /\ \A b \in (IF generation = 0 THEN {} ELSE Table!Buckets(generation)) :
                  LET chain == Table!Chain(<<generation, b>>)
                      nodes == {i \in DOMAIN chain : chain[i] # Null}
                      here == {k \in present : Table!Head(generation, k) = <<generation, b>>}
                  IN /\ Table!Cardinality(nodes) = Table!Cardinality(here)
                     /\ {chain[i] : i \in nodes} = {<<k>> : k \in here}
  <2>1. ~Table!Rehashing /\ ~Counting
    BY <1>3 DEF Table!Adding, Table!Rehashing, Counting
  <2>2. hsize = Table!Cardinality(present)
    <3>1. hsize = Cardinality(present)
      BY <1>1, <2>1 DEF TableTypes
    <3> QED
      BY <3>1, SameCardinality
  <2>3. generation = 0 => present = {}
    BY <1>3 DEF TableInv, OneAdds
  <2>4. PICK B \in [Table!Heads -> Seq(Keys)] : Catalogued(B)
    BY <1>3 DEF TableInv
  <2>5. ASSUME generation # 0, NEW b \in Table!Buckets(generation)
        PROVE  LET chain == Table!Chain(<<generation, b>>)
                   nodes == {i \in DOMAIN chain : chain[i] # Null}
                   here == {k \in present : Table!Head(generation, k) = <<generation, b>>}
               IN /\ Table!Cardinality(nodes) = Table!Cardinality(here)
                  /\ {chain[i] : i \in nodes} = {<<k>> : k \in here}
    <3>1. generation \in 1..MaxGeneration
      BY <1>1, <2>5, TableAssumption DEF TableTypes
    <3>2. PICK h : h = <<generation, b>>
      OBVIOUS
    <3>3. h \in Table!Heads /\ h[1] = generation
      BY <2>5, <3>1, <3>2, HeadsAre
    <3>4. Linked(hnext, B) /\ Complete(B)
      BY <2>4 DEF Catalogued
    <3>5. LET chain == Table!Chain(h)
              nodes == {i \in DOMAIN chain : chain[i] # Null}
              here == {k \in present : Table!Head(generation, k) = h}
          IN /\ Table!Cardinality(nodes) = Table!Cardinality(here)
             /\ {chain[i] : i \in nodes} = {<<k>> : k \in here}
      BY <1>1, <2>1, <3>1, <3>3, <3>4, BucketIsWhole
    <3> QED
      BY <3>2, <3>5
  <2> QED
    BY <2>2, <2>3, <2>5, Zenon
<1> QED
  BY <1>2, <1>3, Zenon DEF Table!TableIsWhole, Null

\* When nobody adds, every key that was added is once in the bucket in which it
\* will be looked for, nothing else is in any bucket, and size_ counts the keys.
THEOREM CatalogueIsWhole == Spec => []TableIsWhole
BY TableInvariant, TableInvGives, PTL
=============================================================================
