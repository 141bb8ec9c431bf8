-------------------------- MODULE TableStoreProofs --------------------------
(***************************************************************************)
(* The safety of TableStore, and that it implements TableSpec, for every   *)
(* page size, number of pages read ahead, largest key and number of        *)
(* failures.                                                               *)
(*                                                                         *)
(* The properties a run checks are not inductive: a position that is right *)
(* now says nothing of what the files hold when the process dies, or of    *)
(* the rows an iterator has taken out of the pages. The invariant IInv     *)
(* says for each point of an operation what memory, files and iterator are *)
(* to one another: Settled between two operations, Appending after         *)
(* row_writing_start, Finished before sync, HalfSynced between its two     *)
(* writes, and Scans while an iterator walks.                              *)
(*                                                                         *)
(* Lemmas about values of memory and files come first, then one lemma for  *)
(* each action, then the theorems, and at the end the refinement.          *)
(***************************************************************************)
EXTENDS TableRowsProofs

(***************************************************************************)
(* The invariant.                                                          *)
(***************************************************************************)
\* The memory's position and the files.
Mem  == [page : 0..(MaxKey + 1), row : 0..RowsLimit, pk : 0..MaxKey,
         rowWriting : BOOLEAN, synchronized : BOOLEAN]
Disk == [pages : Pages, position : (0..(MaxKey + 1)) \X (0..RowsLimit), pk : 0..MaxKey,
         mode : {"free", "reading", "writing"}]

FilesMatch(m, d) == d.position = <<m.page, m.row>> /\ d.pk = m.pk

Exact(m, d, short) == short = 0 => DOMAIN d.pages = 1..m.page

\* Up to date files describe the table, even if the memory is ahead of them
\* because an append failed.
FilesGood(m, d, short) ==
    m.synchronized => /\ Good(d.pages, d.position[1], d.position[2], d.pk, short)
                      /\ d.position[1] <= m.page

\* Between two operations.
Settled(m, d, short) ==
    /\ Good(d.pages, m.page, m.row, m.pk, short)
    /\ Exact(m, d, short) /\ FilesGood(m, d, short)
    /\ short = 0 \/ ~m.synchronized => FilesMatch(m, d) /\ ~m.rowWriting

\* Between row_writing_start and add_page.
Appending(m, d, short) ==
    /\ Unwritten(d.pages, m.page, m.row, m.pk, short)
    /\ Exact(m, d, short) /\ FilesGood(m, d, short) /\ m.rowWriting

\* Before sync.
Finished(m, d, short) ==
    /\ Good(d.pages, m.page, m.row, m.pk, short)
    /\ Exact(m, d, short) /\ FilesGood(m, d, short)
    /\ short = 0 /\ m.synchronized => FilesMatch(m, d)
    /\ m.rowWriting => short > 0
    /\ m.rowWriting /\ ~m.synchronized => Unwritten(d.pages, m.page, m.row, m.pk, short)

\* Between the two writes of sync.
HalfSynced(m, d, short) ==
    /\ Good(d.pages, m.page, m.row, m.pk, short)
    /\ Exact(m, d, short)
    /\ d.position = <<m.page, m.row>> /\ ~m.synchronized
    /\ m.rowWriting => short > 0

\* While an iterator that reads win pages ahead walks over the rows b.rows, of
\* which e are erased.
Scans(m, d, i, b, e, short, win) ==
    /\ Loads(i, d.pages) /\ i.cnt <= MaxKey + 1
    /\ Ascending(b.rows) /\ Len(b.rows) <= m.pk /\ m.pk = b.pk
    /\ i.deleted = 0 => /\ Settled(m, d, short) /\ m.page = i.cnt
                        /\ Rows(d.pages, 1, m.page) = b.rows /\ e = {}
    /\ i.deleted > 0 => /\ short = 0 /\ m.page = i.page - 1 /\ m.row = RowsLimit
                        /\ ~m.synchronized /\ ~m.rowWriting
    /\ short < RowsBefore(win) => Walks(i, d.pages, b.rows, short, win)
    /\ short = 0 => Whole(i, d.pages, Without(b.rows, e), m.pk)

\* The rows the condition holds for, among the first of the table.
Treated(rows, v, last) == v \cap {rows[j] : j \in 1..last}

\* What an operation has made of the table when it ends.
Outcome(m, d, b, v, e) ==
    \/ Rows(d.pages, 1, m.page) = b.rows /\ m.pk = b.pk /\ v = {}
    \/ Rows(d.pages, 1, m.page) = Append(b.rows, b.pk + 1) /\ m.pk = b.pk + 1 /\ v = {}
    \/ Rows(d.pages, 1, m.page) = Without(b.rows, e) /\ m.pk = b.pk /\ e = v

\* The state at each point of an operation.
IdleInv ==
    /\ Locked => ~mem.rowWriting /\ ~mem.synchronized
    /\ ~Locked => Settled(mem, disk, failures) /\ victims = {} /\ erased = {}

InsertInv ==
    /\ Locked /\ Settled(mem, disk, failures) /\ victims = {} /\ erased = {}
    /\ Contents = before.rows /\ mem.pk = before.pk /\ mem.pk < MaxKey

AppendInv ==
    /\ Locked /\ Appending(mem, disk, failures) /\ victims = {} /\ erased = {}
    /\ Contents = before.rows /\ mem.pk = before.pk + 1

ReleaseInv ==
    /\ Locked /\ Finished(mem, disk, failures)
    /\ failures = 0 => Outcome(mem, disk, before, victims, erased)

SyncInv ==
    /\ disk.mode = "free" /\ Finished(mem, disk, failures)
    /\ failures = 0 => Gone(Contents, victims)

SyncKeyInv ==
    /\ disk.mode = "free" /\ HalfSynced(mem, disk, failures)
    /\ failures = 0 => Gone(Contents, victims)

ScanInv ==
    /\ Locked /\ Scans(mem, disk, iter, before, erased, failures, MaxPageCnt)
    /\ victims \subseteq {before.rows[j] : j \in 1..Len(before.rows)}
    /\ failures = 0 => erased = Treated(before.rows, victims, Passed(iter))

\* After a page could not be read one page less is read ahead.
DrainInv ==
    /\ Locked /\ Scans(mem, disk, iter, before, erased, failures, MaxPageCnt - 1)
    /\ iter.deleted > 0 /\ erased = victims

ReadInv ==
    /\ disk.mode = "reading" /\ Scans(mem, disk, iter, before, erased, failures, MaxPageCnt)
    /\ iter.deleted = 0 /\ victims = {} /\ erased = {}
    /\ failures < RowsBefore(MaxPageCnt) => seen = SubSeq(before.rows, 1, Passed(iter))

Types ==
    /\ mem \in Mem /\ disk \in Disk /\ op \in Op /\ iter \in Iter /\ Shape(iter)
    /\ victims \subseteq Row /\ erased \subseteq Row
    /\ before \in [rows : Seq(Row), pk : Nat] /\ seen \in Seq(Row)
    /\ failures \in Nat /\ spoilt \in BOOLEAN

Stages ==
    /\ op = "idle" => IdleInv
    /\ op = "insert" => InsertInv
    /\ op = "append" => AppendInv
    /\ op = "release" => ReleaseInv
    /\ op = "sync" => SyncInv
    /\ op = "sync_key" => SyncKeyInv
    /\ op = "scan" => ScanInv
    /\ op = "drain" => DrainInv
    /\ op = "read" => ReadInv

IInv ==
    /\ Types
    /\ ~spoilt => Stages
    /\ spoilt => op = "idle" \/ (op \in {"scan", "drain"} /\ failures > 0)

-----------------------------------------------------------------------------
(* The operations on memory and files, as functions: what row_writing_start, *)
(* add_page, sync and a restart make of a table in each of the states.     *)

\* The numbers of memory and files.
LEMMA MemType ==
    ASSUME NEW m, m \in Mem
    PROVE  /\ m.page \in Nat /\ m.page <= MaxKey + 1 /\ m.row \in 0..RowsLimit /\ m.row \in Nat
           /\ m.pk \in 0..MaxKey /\ m.pk \in Nat
           /\ m.rowWriting \in BOOLEAN /\ m.synchronized \in BOOLEAN
  BY BoundsNat, RowsLimitPositive DEF Mem

\* The numbers of the files.
LEMMA DiskType ==
    ASSUME NEW d, d \in Disk
    PROVE  /\ d.pages \in Pages /\ d.position \in (0..(MaxKey + 1)) \X (0..RowsLimit)
           /\ d.position[1] \in Nat /\ d.position[1] <= MaxKey + 1
           /\ d.position[2] \in 0..RowsLimit /\ d.position = <<d.position[1], d.position[2]>>
           /\ d.pk \in 0..MaxKey /\ d.pk \in Nat
           /\ d.mode \in {"free", "reading", "writing"}
<1>1. d.position \in (0..(MaxKey + 1)) \X (0..RowsLimit) /\ d.pages \in Pages /\ d.pk \in 0..MaxKey
      /\ d.mode \in {"free", "reading", "writing"}
  BY DEF Disk
<1>2. d.pk \in Nat
  BY <1>1, BoundsNat
<1>3. d.position[1] \in 0..(MaxKey + 1) /\ d.position[2] \in 0..RowsLimit
      /\ d.position = <<d.position[1], d.position[2]>>
  BY <1>1
<1> QED
  BY <1>1, <1>2, <1>3, BoundsNat

\* Opening or closing the table changes nothing else.
LEMMA ModeOnly ==
    ASSUME NEW d, d \in Disk, NEW mode \in {"free", "reading", "writing"}
    PROVE  LET e == [d EXCEPT !.mode = mode] IN
           /\ e \in Disk /\ e.mode = mode
           /\ e.pages = d.pages /\ e.position = d.position /\ e.pk = d.pk
  BY DEF Disk

\* What is said of memory and files does not depend on the mode.
LEMMA SameFiles ==
    ASSUME NEW m, NEW d, NEW e, NEW short,
           e.pages = d.pages, e.position = d.position, e.pk = d.pk
    PROVE  /\ Settled(m, d, short) => Settled(m, e, short)
           /\ Finished(m, d, short) => Finished(m, e, short)
  BY DEF Settled, Finished, Exact, FilesGood, FilesMatch

\* A settled table can be released, if no row is half-written.
LEMMA SettledFinished ==
    ASSUME NEW m, m \in Mem, NEW d, NEW short \in Nat, Settled(m, d, short), m.rowWriting => short > 0
    PROVE  Finished(m, d, short)
  BY DEF Settled, Finished

\* An unwritten row has a page.
LEMMA UnwrittenBound ==
    ASSUME NEW pages, NEW page \in Nat, NEW row \in 0..RowsLimit, NEW pk \in 0..MaxKey,
           NEW short, Unwritten(pages, page, row, pk, short)
    PROVE  page >= 1 /\ page <= MaxKey /\ pk >= 1 /\ page \in DOMAIN pages
<1>1. row >= 1 /\ page >= 1 /\ RowsBefore(page) + row <= pk /\ 1..page \subseteq DOMAIN pages
  BY DEF Unwritten
<1>2. page \in DOMAIN pages
  BY <1>1
<1>3. page - 1 <= RowsBefore(page) /\ RowsBefore(page) \in Int
  <2>1. page - 1 <= RowsBefore(page) \/ page = 0
    BY RowsBeforePages
  <2> QED
    BY <2>1, <1>1, RowsBeforeInt
<1> QED
  <2>1. RowsLimit \in Nat /\ MaxKey \in Nat
    BY RowsLimitPositive, BoundsNat
  <2> QED
    BY <1>1, <1>2, <1>3, <2>1

\* row_writing_start, as functions of memory and files.
Started(m) == [NextPosition(m) EXCEPT !.rowWriting = TRUE, !.pk = @ + 1]
StartedFiles(m, d) ==
    IF m.row = RowsLimit THEN [d EXCEPT !.pages = Written(@, Started(m).page, <<>>)] ELSE d

\* Positions that may be too large.
AnyMem == [page : Nat, row : 0..RowsLimit, pk : Nat, rowWriting : BOOLEAN, synchronized : BOOLEAN]

\* They are positions when they are small enough.
LEMMA MemIsAny ==
    /\ \A m \in Mem : m \in AnyMem
    /\ \A m \in AnyMem : m.page <= MaxKey + 1 /\ m.pk <= MaxKey => m \in Mem
  BY BoundsNat DEF Mem, AnyMem

\* The position of the next row.
LEMMA NextFields ==
    ASSUME NEW m, m \in AnyMem
    PROVE  /\ NextPosition(m) \in AnyMem
           /\ NextPosition(m).page = IF m.row = RowsLimit THEN m.page + 1 ELSE m.page
           /\ NextPosition(m).row = IF m.row = RowsLimit THEN 1 ELSE m.row + 1
           /\ NextPosition(m).pk = m.pk
           /\ NextPosition(m).synchronized = m.synchronized
<1>1. m.row \in 0..RowsLimit /\ m.page + 1 \in Nat /\ 1 \in 0..RowsLimit
  BY RowsLimitPositive DEF AnyMem
<1>2. CASE m.row = RowsLimit
  BY <1>1, <1>2 DEF NextPosition, AnyMem
<1>3. CASE m.row # RowsLimit
  <2>1. m.row + 1 \in 0..RowsLimit
    BY <1>1, <1>3, RowsLimitPositive
  <2> QED
    BY <2>1, <1>3 DEF NextPosition, AnyMem
<1> QED
  BY <1>2, <1>3

\* The position of the row that is started.
LEMMA StartedFields ==
    ASSUME NEW m, m \in Mem
    PROVE  /\ Started(m) \in AnyMem
           /\ Started(m).page = IF m.row = RowsLimit THEN m.page + 1 ELSE m.page
           /\ Started(m).row = IF m.row = RowsLimit THEN 1 ELSE m.row + 1
           /\ Started(m).pk = m.pk + 1 /\ Started(m).rowWriting = TRUE
           /\ Started(m).synchronized = m.synchronized
<1> DEFINE n == NextPosition(m)
<1>1. m \in AnyMem
  BY MemIsAny
<1>2. /\ n \in AnyMem
      /\ n.page = IF m.row = RowsLimit THEN m.page + 1 ELSE m.page
      /\ n.row = IF m.row = RowsLimit THEN 1 ELSE m.row + 1
      /\ n.pk = m.pk /\ n.synchronized = m.synchronized
  BY <1>1, NextFields
<1>3. Started(m) = [n EXCEPT !.rowWriting = TRUE, !.pk = @ + 1]
  BY DEF Started
<1> HIDE DEF n
<1>4. n.pk + 1 \in Nat
  BY <1>2 DEF AnyMem
<1>5. /\ Started(m) \in AnyMem
      /\ Started(m).page = n.page /\ Started(m).row = n.row /\ Started(m).pk = n.pk + 1
      /\ Started(m).rowWriting = TRUE /\ Started(m).synchronized = n.synchronized
  BY <1>2, <1>3, <1>4 DEF AnyMem
<1> QED
  BY <1>2, <1>5

\* Files that describe the table still do when pages are added to it.
LEMMA FilesGoodSame ==
    ASSUME NEW m, NEW d, NEW n, NEW e, NEW short, d \in Disk, m.page \in Nat, n.page \in Nat,
           FilesGood(m, d, short), n.synchronized => m.synchronized, m.page <= n.page,
           e.position = d.position, e.pk = d.pk,
           1..m.page \subseteq DOMAIN e.pages, \A k \in 1..m.page : e.pages[k] = d.pages[k]
    PROVE  FilesGood(n, e, short)
<1> SUFFICES ASSUME n.synchronized
             PROVE  /\ Good(e.pages, e.position[1], e.position[2], e.pk, short)
                    /\ e.position[1] <= n.page
  BY DEF FilesGood
<1>1. Good(d.pages, d.position[1], d.position[2], d.pk, short) /\ d.position[1] <= m.page
  BY DEF FilesGood
<1>2. d.position[1] \in Nat
  BY DiskType
<1>3. e.position[1] <= n.page
  BY <1>1, <1>2
<1>4. 1..d.position[1] \subseteq 1..m.page
  BY <1>1, <1>2
<1>5. 1..d.position[1] \subseteq DOMAIN e.pages /\ \A k \in 1..d.position[1] : e.pages[k] = d.pages[k]
  BY <1>4
<1>6. Good(e.pages, d.position[1], d.position[2], d.pk, short)
  BY <1>1, <1>2, <1>5, GoodSame
<1> QED
  BY <1>3, <1>6

\* row_writing_start on a page that is not full.
LEMMA RowStarts ==
    ASSUME NEW m, m \in Mem, NEW d, d \in Disk, NEW short \in Nat,
           Settled(m, d, short), m.pk < MaxKey, m.row # RowsLimit
    PROVE  /\ Started(m) \in Mem /\ StartedFiles(m, d) = d
           /\ Appending(Started(m), d, short)
           /\ Started(m).page = m.page
<1> DEFINE n == Started(m)
<1>1. /\ n.page = m.page /\ n.row = m.row + 1 /\ n.pk = m.pk + 1 /\ n.rowWriting = TRUE
      /\ n.synchronized = m.synchronized
  BY StartedFields
<1>2. n \in Mem
  <2>1. n.page <= MaxKey + 1 /\ n.pk <= MaxKey
    <3> HIDE DEF n
    <3> QED
      BY <1>1, MemType, BoundsNat
  <2> QED
    BY <2>1, StartedFields, MemIsAny
<1> HIDE DEF n
<1>3. Good(d.pages, m.page, m.row, m.pk, short) /\ Exact(m, d, short) /\ FilesGood(m, d, short)
  BY DEF Settled
<1>4. Unwritten(d.pages, m.page, m.row + 1, m.pk + 1, short)
  BY <1>3, MemType, DiskType, NextRow
<1>5. Exact(n, d, short) /\ FilesGood(n, d, short)
  BY <1>1, <1>3 DEF Exact, FilesGood
<1>6. Appending(n, d, short)
  BY <1>1, <1>4, <1>5 DEF Appending
<1> QED
  BY <1>1, <1>2, <1>6 DEF n, StartedFiles

\* row_writing_start on a full page.
LEMMA PageStarts ==
    ASSUME NEW m, m \in Mem, NEW d, d \in Disk, NEW short \in Nat,
           Settled(m, d, short), m.pk < MaxKey, m.row = RowsLimit
    PROVE  /\ Started(m) \in Mem /\ StartedFiles(m, d) \in Disk
           /\ StartedFiles(m, d).mode = d.mode
           /\ Appending(Started(m), StartedFiles(m, d), short)
           /\ Rows(StartedFiles(m, d).pages, 1, Started(m).page) = Rows(d.pages, 1, m.page)
<1> DEFINE n == Started(m)
           w == Written(d.pages, m.page + 1, <<>>)
           e == [d EXCEPT !.pages = w]
<1>1. /\ n.page = m.page + 1 /\ n.row = 1 /\ n.pk = m.pk + 1 /\ n.rowWriting = TRUE
      /\ n.synchronized = m.synchronized
  BY StartedFields
<1>2. StartedFiles(m, d) = e
  BY <1>1 DEF StartedFiles
<1>3. m.page \in Nat /\ m.page + 1 \in Nat \ {0} /\ d.pages \in Pages /\ m.pk \in Nat
  BY MemType, DiskType
<1>4. Good(d.pages, m.page, RowsLimit, m.pk, short) /\ Exact(m, d, short) /\ FilesGood(m, d, short)
  BY DEF Settled
<1>5. /\ w \in Pages /\ DOMAIN w = DOMAIN d.pages \cup {m.page + 1}
      /\ \A p \in DOMAIN d.pages : p # m.page + 1 => w[p] = d.pages[p]
  <2>1. <<>> \in Seq(Row)
    OBVIOUS
  <2> QED
    BY <1>3, <2>1, PageWritten, ZenonT(30)
<1>6. /\ Unwritten(w, m.page + 1, 1, m.pk + 1, short)
      /\ Rows(w, 1, m.page + 1) = Rows(d.pages, 1, m.page)
  BY <1>3, <1>4, NextPage
<1>7. e \in Disk /\ e.pages = w /\ e.mode = d.mode /\ e.position = d.position /\ e.pk = d.pk
  <2> HIDE DEF w
  <2> QED
    BY <1>5 DEF Disk
<1>8. n \in Mem
  <2>1. m.page + 1 <= MaxKey
    <3>1. m.page + 1 \in Nat /\ m.pk + 1 \in 0..MaxKey /\ 1 \in 0..RowsLimit
      BY MemType, BoundsNat, RowsLimitPositive
    <3> HIDE DEF w
    <3> QED
      BY <3>1, <1>6, UnwrittenBound
  <2>2. n.page <= MaxKey + 1 /\ n.pk <= MaxKey
    <3> HIDE DEF n
    <3> QED
      BY <1>1, <2>1, MemType, BoundsNat
  <2> QED
    BY <2>2, StartedFields, MemIsAny
<1> HIDE DEF n, w, e
<1>9. 1..m.page \subseteq DOMAIN d.pages
  BY <1>4 DEF Good
<1>10. \A k \in 1..m.page : k \in DOMAIN d.pages /\ k # m.page + 1 /\ k \in DOMAIN w
  BY <1>3, <1>9, <1>5
<1>11. FilesGood(n, e, short)
  <2>1. 1..m.page \subseteq DOMAIN e.pages /\ \A k \in 1..m.page : e.pages[k] = d.pages[k]
    BY <1>5, <1>7, <1>10
  <2>2. n.page \in Nat /\ m.page <= n.page
    BY <1>1, <1>3
  <2> QED
    BY <1>1, <1>3, <1>4, <1>7, <2>1, <2>2, FilesGoodSame
<1>12. Exact(n, e, short)
  <2>1. ASSUME short = 0 PROVE DOMAIN e.pages = 1..n.page
    <3>1. DOMAIN d.pages = 1..m.page
      BY <2>1, <1>4 DEF Exact
    <3>2. (1..m.page) \cup {m.page + 1} = 1..(m.page + 1)
      BY <1>3
    <3> QED
      BY <3>1, <3>2, <1>1, <1>5, <1>7
  <2> QED
    BY <2>1 DEF Exact
<1>13. Appending(n, e, short)
  BY <1>1, <1>6, <1>7, <1>11, <1>12 DEF Appending
<1> QED
  BY <1>1, <1>2, <1>6, <1>7, <1>8, <1>13 DEF n

\* row_writing_start.
LEMMA InsertStarts ==
    ASSUME NEW m, m \in Mem, NEW d, d \in Disk, NEW short \in Nat,
           Settled(m, d, short), m.pk < MaxKey
    PROVE  /\ Started(m) \in Mem /\ StartedFiles(m, d) \in Disk
           /\ StartedFiles(m, d).mode = d.mode
           /\ Appending(Started(m), StartedFiles(m, d), short)
           /\ Rows(StartedFiles(m, d).pages, 1, Started(m).page) = Rows(d.pages, 1, m.page)
           /\ Started(m).pk = m.pk + 1
<1>1. Started(m).pk = m.pk + 1
  BY StartedFields
<1>2. CASE m.row = RowsLimit
  BY <1>1, <1>2, PageStarts
<1>3. CASE m.row # RowsLimit
  BY <1>1, <1>3, RowStarts
<1> QED
  BY <1>2, <1>3

\* add_page and row_writing_finish, as functions of memory and files.
Stored(m)         == [m EXCEPT !.rowWriting = FALSE, !.synchronized = FALSE]
StoredFiles(m, d) == [d EXCEPT !.pages[m.page] = Append(@, m.pk)]

\* A row is appended and written: the table has it at its end.
LEMMA RowStored ==
    ASSUME NEW m, m \in Mem, NEW d, d \in Disk, NEW short \in Nat, Appending(m, d, short)
    PROVE  /\ Stored(m) \in Mem /\ StoredFiles(m, d) \in Disk
           /\ StoredFiles(m, d).mode = d.mode
           /\ Finished(Stored(m), StoredFiles(m, d), short)
           /\ Rows(StoredFiles(m, d).pages, 1, m.page) = Append(Rows(d.pages, 1, m.page), m.pk)
           /\ Stored(m).page = m.page /\ Stored(m).pk = m.pk
<1> DEFINE n == Stored(m)
           w == [d.pages EXCEPT ![m.page] = Append(@, m.pk)]
           e == [d EXCEPT !.pages = w]
<1>1. /\ n \in Mem /\ n.page = m.page /\ n.row = m.row /\ n.pk = m.pk
      /\ n.rowWriting = FALSE /\ n.synchronized = FALSE
  BY DEF Stored, Mem
<1>2. StoredFiles(m, d) = e
  BY DEF StoredFiles, Disk
<1>3. /\ m.page \in Nat /\ d.pages \in Pages /\ m.pk \in Nat /\ m.row \in Nat /\ m.row \in 0..RowsLimit
      /\ m.pk \in 0..MaxKey
  BY MemType, DiskType
<1>4. Unwritten(d.pages, m.page, m.row, m.pk, short)
  BY DEF Appending
<1>5. m.page \in DOMAIN d.pages /\ m.pk >= 1
  BY <1>3, <1>4, UnwrittenBound
<1>6. m.pk \in Row
  BY <1>3, <1>5, BoundsNat DEF Row
<1>7. /\ w \in Pages /\ DOMAIN w = DOMAIN d.pages
      /\ \A p \in DOMAIN d.pages : w[p] = IF p = m.page THEN Append(d.pages[p], m.pk) ELSE d.pages[p]
  BY <1>3, <1>5, <1>6, PageAppended
<1> HIDE DEF w
<1>8. /\ Good(w, m.page, m.row, m.pk, short)
      /\ Rows(w, 1, m.page) = Append(Rows(d.pages, 1, m.page), m.pk)
  BY <1>3, <1>4, <1>6, <1>7, RowAppended
<1>9. e \in Disk /\ e.pages = w /\ e.mode = d.mode
  BY <1>7 DEF Disk
<1> HIDE DEF n, e
<1>10. Exact(n, e, short)
  <2>1. Exact(m, d, short)
    BY DEF Appending
  <2> QED
    BY <2>1, <1>1, <1>7, <1>9 DEF Exact
<1>11. Finished(n, e, short)
  BY <1>1, <1>8, <1>9, <1>10 DEF Finished, FilesGood
<1> QED
  BY <1>1, <1>2, <1>8, <1>9, <1>11 DEF n

\* add_page fails.
LEMMA RowNotStored ==
    ASSUME NEW m, m \in Mem, NEW d, d \in Disk, NEW short \in Nat, Appending(m, d, short)
    PROVE  Finished(m, d, short + 1)
<1>1. /\ m.page \in Nat /\ d.pages \in Pages /\ m.pk \in Nat /\ m.row \in Nat
      /\ d.position[1] \in Nat /\ d.position[2] \in Nat /\ d.pk \in Nat
  BY MemType, DiskType, RowsLimitPositive
<1>2. Unwritten(d.pages, m.page, m.row, m.pk, short) /\ FilesGood(m, d, short)
  BY DEF Appending
<1>3. /\ Good(d.pages, m.page, m.row, m.pk, short + 1)
      /\ Unwritten(d.pages, m.page, m.row, m.pk, short + 1)
  BY <1>1, <1>2, RowLost
<1>4. FilesGood(m, d, short + 1)
  <2>1. ASSUME m.synchronized
        PROVE  Good(d.pages, d.position[1], d.position[2], d.pk, short + 1) /\ d.position[1] <= m.page
    <3>1. Good(d.pages, d.position[1], d.position[2], d.pk, short) /\ d.position[1] <= m.page
      BY <2>1, <1>2 DEF FilesGood
    <3>2. short + 1 \in Nat /\ short <= short + 1
      OBVIOUS
    <3> QED
      BY <3>1, <3>2, <1>1, GoodMore
  <2> QED
    BY <2>1 DEF FilesGood
<1>5. short + 1 # 0 /\ short + 1 > 0
  OBVIOUS
<1> QED
  BY <1>3, <1>4, <1>5 DEF Finished, Exact

\* sync when the files are up to date.
LEMMA NothingToSync ==
    ASSUME NEW m, m \in Mem, NEW d, NEW short \in Nat, Finished(m, d, short), m.synchronized
    PROVE  Settled(m, d, short)
<1>1. short = 0 => FilesMatch(m, d) /\ ~m.rowWriting
  BY DEF Finished
<1> QED
  BY <1>1 DEF Finished, Settled

\* Taking a row back.
LEMMA RolledBackFields ==
    ASSUME NEW m, m \in Mem, NEW d, d \in Disk, NEW short \in Nat,
           Finished(m, d, short), ~m.synchronized
    PROVE  /\ RolledBack(m) \in Mem
           /\ Good(d.pages, RolledBack(m).page, RolledBack(m).row, RolledBack(m).pk, short)
           /\ RolledBack(m).rowWriting = m.rowWriting
           /\ RolledBack(m).synchronized = m.synchronized
           /\ m.rowWriting => short > 0
           /\ ~m.rowWriting => RolledBack(m) = m
<1>1. /\ m.page \in Nat /\ d.pages \in Pages /\ m.pk \in Nat /\ m.row \in Nat /\ m.row \in 0..RowsLimit
      /\ m.pk \in 0..MaxKey
  BY MemType, DiskType
<1>2. CASE ~m.rowWriting
  BY <1>2 DEF RolledBack, Finished
<1>3. CASE m.rowWriting
  <2>1. Unwritten(d.pages, m.page, m.row, m.pk, short) /\ short > 0
    BY <1>3 DEF Finished
  <2>2. /\ m.page >= 1 /\ m.pk >= 1
        /\ m.row = 1 => Good(d.pages, m.page - 1, RowsLimit, m.pk - 1, short)
        /\ m.row # 1 => Good(d.pages, m.page, m.row - 1, m.pk - 1, short)
    BY <2>1, <1>1, RowTakenBack
  <2>3. m.row >= 1
    BY <2>1 DEF Unwritten
  <2>4. m.page - 1 \in 0..(MaxKey + 1) /\ m.pk - 1 \in 0..MaxKey /\ RowsLimit \in 0..RowsLimit
        /\ m.row - 1 \in 0..RowsLimit
    BY <2>2, <2>3, MemType, BoundsNat, RowsLimitPositive
  <2>5. CASE m.row = 1
    <3>1. /\ RolledBack(m) \in Mem /\ RolledBack(m).page = m.page - 1
          /\ RolledBack(m).row = RowsLimit /\ RolledBack(m).pk = m.pk - 1
          /\ RolledBack(m).rowWriting = m.rowWriting
          /\ RolledBack(m).synchronized = m.synchronized
      BY <2>4, <2>5, <1>3 DEF RolledBack, Mem
    <3> QED
      BY <3>1, <2>1, <2>2, <2>5, <1>3
  <2>6. CASE m.row # 1
    <3>1. /\ RolledBack(m) \in Mem /\ RolledBack(m).page = m.page
          /\ RolledBack(m).row = m.row - 1 /\ RolledBack(m).pk = m.pk - 1
          /\ RolledBack(m).rowWriting = m.rowWriting
          /\ RolledBack(m).synchronized = m.synchronized
      BY <2>4, <2>6, <1>3 DEF RolledBack, Mem
    <3> QED
      BY <3>1, <2>1, <2>2, <2>6, <1>3
  <2> QED
    BY <2>5, <2>6
<1> QED
  BY <1>2, <1>3

\* The first write of sync.
PositionFiles(m, d) == [d EXCEPT !.position = <<RolledBack(m).page, RolledBack(m).row>>]

\* The position is in its file, with the half-written row taken back.
LEMMA PositionSynced ==
    ASSUME NEW m, m \in Mem, NEW d, d \in Disk, NEW short \in Nat,
           Finished(m, d, short), ~m.synchronized
    PROVE  /\ RolledBack(m) \in Mem /\ PositionFiles(m, d) \in Disk
           /\ PositionFiles(m, d).mode = d.mode
           /\ HalfSynced(RolledBack(m), PositionFiles(m, d), short)
           /\ short = 0 => RolledBack(m) = m /\ PositionFiles(m, d).pages = d.pages
<1> DEFINE n == RolledBack(m)
           e == PositionFiles(m, d)
<1>1. /\ n \in Mem /\ Good(d.pages, n.page, n.row, n.pk, short)
      /\ n.rowWriting = m.rowWriting /\ n.synchronized = m.synchronized
      /\ m.rowWriting => short > 0
      /\ ~m.rowWriting => n = m
  BY RolledBackFields
<1>2. e = [d EXCEPT !.position = <<n.page, n.row>>]
  BY DEF PositionFiles
<1> HIDE DEF n, e
<1>3. <<n.page, n.row>> \in (0..(MaxKey + 1)) \X (0..RowsLimit)
  BY <1>1 DEF Mem
<1>4. e \in Disk /\ e.position = <<n.page, n.row>> /\ e.pages = d.pages /\ e.mode = d.mode
  BY <1>2, <1>3 DEF Disk
<1>5. short = 0 => n = m
  BY <1>1
<1>6. Exact(n, e, short)
  <2>1. Exact(m, d, short)
    BY DEF Finished
  <2> QED
    BY <2>1, <1>4, <1>5 DEF Exact
<1>7. HalfSynced(n, e, short)
  BY <1>1, <1>4, <1>6 DEF HalfSynced
<1> QED
  BY <1>1, <1>4, <1>5, <1>7 DEF n, e

\* The second write of sync.
UpToDate(m)    == [m EXCEPT !.synchronized = TRUE]
KeyFiles(m, d) == [d EXCEPT !.pk = m.pk]

\* The key is in its file: the table is settled again.
LEMMA KeySynced ==
    ASSUME NEW m, m \in Mem, NEW d, d \in Disk, NEW short \in Nat, HalfSynced(m, d, short)
    PROVE  /\ UpToDate(m) \in Mem /\ KeyFiles(m, d) \in Disk /\ KeyFiles(m, d).mode = d.mode
           /\ Settled(UpToDate(m), KeyFiles(m, d), short)
           /\ UpToDate(m).page = m.page /\ UpToDate(m).pk = m.pk
           /\ KeyFiles(m, d).pages = d.pages
<1> DEFINE n == UpToDate(m)
           e == KeyFiles(m, d)
<1>1. /\ n \in Mem /\ n.page = m.page /\ n.row = m.row /\ n.pk = m.pk
      /\ n.rowWriting = m.rowWriting /\ n.synchronized = TRUE
  BY DEF UpToDate, Mem
<1>2. m.pk \in 0..MaxKey /\ m.page \in Nat
  BY MemType
<1>3. e \in Disk /\ e.position = d.position /\ e.pages = d.pages /\ e.mode = d.mode /\ e.pk = m.pk
  BY <1>2 DEF KeyFiles, Disk
<1> HIDE DEF n, e
<1>4. /\ Good(d.pages, m.page, m.row, m.pk, short) /\ Exact(m, d, short)
      /\ d.position = <<m.page, m.row>> /\ (m.rowWriting => short > 0)
  BY DEF HalfSynced
<1>5. e.position[1] = m.page /\ e.position[2] = m.row
  BY <1>3, <1>4
<1>6. FilesGood(n, e, short) /\ FilesMatch(n, e) /\ Exact(n, e, short)
  BY <1>1, <1>2, <1>3, <1>4, <1>5 DEF FilesGood, FilesMatch, Exact
<1>7. Settled(n, e, short)
  <2>1. Good(e.pages, n.page, n.row, n.pk, short)
    BY <1>1, <1>3, <1>4
  <2>2. n.rowWriting => short > 0
    BY <1>1, <1>4
  <2> QED
    BY <2>1, <2>2, <1>1, <1>6 DEF Settled
<1> QED
  BY <1>1, <1>3, <1>7 DEF n, e

-----------------------------------------------------------------------------
(* Restarts.                                                               *)

\* The memory of a server that has just started.
LEMMA RestoredFields ==
    ASSUME NEW d, d \in Disk
    PROVE  /\ Restored(d) \in Mem
           /\ Restored(d).page = d.position[1] /\ Restored(d).row = d.position[2]
           /\ Restored(d).pk = d.pk
           /\ Restored(d).rowWriting = FALSE /\ Restored(d).synchronized = FALSE
<1>1. d.position[1] \in 0..(MaxKey + 1) /\ d.position[2] \in 0..RowsLimit /\ d.pk \in 0..MaxKey
  BY DEF Disk
<1> QED
  BY <1>1 DEF Restored, Mem

\* It is settled when the files describe the table.
LEMMA RestoredSettled ==
    ASSUME NEW d, d \in Disk, NEW short,
           Good(d.pages, d.position[1], d.position[2], d.pk, short),
           short = 0 => DOMAIN d.pages = 1..d.position[1]
    PROVE  Settled(Restored(d), d, short)
<1>1. d.position = <<d.position[1], d.position[2]>>
  BY DiskType
<1> QED
  BY <1>1, RestoredFields DEF Settled, Exact, FilesGood, FilesMatch

\* A settled table's files describe it.
LEMMA SettledRestarts ==
    ASSUME NEW m, m \in Mem, NEW d, d \in Disk, NEW short \in Nat, Settled(m, d, short)
    PROVE  /\ Settled(Restored(d), d, short)
           /\ short = 0 => Restored(d).page = m.page /\ Restored(d).pk = m.pk
<1>1. /\ Good(d.pages, m.page, m.row, m.pk, short)
      /\ Exact(m, d, short) /\ FilesGood(m, d, short)
      /\ short = 0 \/ ~m.synchronized => FilesMatch(m, d)
  BY DEF Settled
<1>2. FilesMatch(m, d) => d.position[1] = m.page /\ d.position[2] = m.row /\ d.pk = m.pk
  BY DEF FilesMatch
<1>3. CASE short = 0 \/ ~m.synchronized
  <2>1. Good(d.pages, d.position[1], d.position[2], d.pk, short)
    BY <1>1, <1>2, <1>3
  <2>2. short = 0 => DOMAIN d.pages = 1..d.position[1]
    BY <1>1, <1>2, <1>3 DEF Exact
  <2> QED
    BY <2>1, <2>2, <1>1, <1>2, <1>3, RestoredSettled, RestoredFields
<1>4. CASE short # 0 /\ m.synchronized
  BY <1>1, <1>4, RestoredSettled DEF FilesGood
<1> QED
  BY <1>3, <1>4

\* When nothing is running there is nothing to sync but what is on the disk.
LEMMA SettledSynced ==
    ASSUME NEW m, m \in Mem, NEW d, d \in Disk, NEW short \in Nat, Settled(m, d, short)
    PROVE  Synced(m, d) = d
<1>1. CASE m.synchronized
  BY <1>1 DEF Synced
<1>2. CASE ~m.synchronized
  <2>1. FilesMatch(m, d) /\ ~m.rowWriting
    BY <1>2 DEF Settled
  <2>2. RolledBack(m) = m
    BY <2>1 DEF RolledBack
  <2>3. [d EXCEPT !.position = d.position, !.pk = d.pk] = d
    BY DEF Disk
  <2>4. Synced(m, d) = [d EXCEPT !.position = <<m.page, m.row>>, !.pk = m.pk]
    BY <1>2, <2>2 DEF Synced
  <2> QED
    BY <2>1, <2>3, <2>4 DEF FilesMatch
<1> QED
  BY <1>1, <1>2

\* The writer of a table that was closed dies when the files are up to date.
LEMMA FinishedRestarts ==
    ASSUME NEW m, m \in Mem, NEW d, d \in Disk, NEW short \in Nat, Finished(m, d, short),
           d = Synced(m, d)
    PROVE  /\ Settled(Restored(d), d, short)
           /\ short = 0 => Restored(d).page = m.page /\ Restored(d).pk = m.pk
<1>1. CASE m.synchronized
  BY <1>1, NothingToSync, SettledRestarts
<1>2. CASE ~m.synchronized
  <2> DEFINE n == RolledBack(m)
  <2>1. /\ n \in Mem /\ Good(d.pages, n.page, n.row, n.pk, short)
        /\ m.rowWriting => short > 0
        /\ ~m.rowWriting => n = m
    BY <1>2, RolledBackFields
  <2>2. Synced(m, d) = [d EXCEPT !.position = <<n.page, n.row>>, !.pk = n.pk]
    BY <1>2 DEF Synced
  <2> HIDE DEF n
  <2>3. Synced(m, d).position = <<n.page, n.row>> /\ Synced(m, d).pk = n.pk
    BY <2>2 DEF Disk
  <2>4. d.position[1] = n.page /\ d.position[2] = n.row /\ d.pk = n.pk
    <3>1. d.position = <<n.page, n.row>> /\ d.pk = n.pk
      BY <2>3
    <3> QED
      BY <3>1
  <2>5. short = 0 => n = m
    BY <2>1
  <2>6. short = 0 => DOMAIN d.pages = 1..d.position[1]
    BY <2>4, <2>5 DEF Finished, Exact
  <2> QED
    BY <2>1, <2>4, <2>5, <2>6, RestoredSettled, RestoredFields
<1> QED
  BY <1>1, <1>2

\* The same between the two writes of sync.
LEMMA HalfSyncedRestarts ==
    ASSUME NEW m, m \in Mem, NEW d, d \in Disk, NEW short \in Nat, HalfSynced(m, d, short),
           d = Synced(m, d)
    PROVE  /\ Settled(Restored(d), d, short)
           /\ short = 0 => Restored(d).page = m.page /\ Restored(d).pk = m.pk
<1> DEFINE n == RolledBack(m)
<1>1. /\ Good(d.pages, m.page, m.row, m.pk, short) /\ Exact(m, d, short)
      /\ d.position = <<m.page, m.row>> /\ ~m.synchronized
  BY DEF HalfSynced
<1>2. Synced(m, d) = [d EXCEPT !.position = <<n.page, n.row>>, !.pk = n.pk]
  BY <1>1 DEF Synced
<1>3. ~m.rowWriting
  <2> SUFFICES ASSUME m.rowWriting PROVE FALSE
    OBVIOUS
  <2>1. m.row \in Nat /\ m.page \in Nat
    BY MemType
  <2>2. n.page = m.page - 1 \/ n.row = m.row - 1
    <3>1. CASE m.row = 1
      BY <3>1 DEF RolledBack, Mem
    <3>2. CASE m.row # 1
      BY <3>2 DEF RolledBack, Mem
    <3> QED
      BY <3>1, <3>2
  <2> HIDE DEF n
  <2>3. Synced(m, d).position = <<n.page, n.row>>
    BY <1>2 DEF Disk
  <2>4. n.page = m.page /\ n.row = m.row
    <3>1. <<m.page, m.row>> = <<n.page, n.row>>
      BY <1>1, <2>3
    <3> QED
      BY <3>1
  <2> QED
    BY <2>1, <2>2, <2>4
<1>4. n = m
  BY <1>3 DEF RolledBack
<1> HIDE DEF n
<1>5. Synced(m, d).pk = n.pk
  BY <1>2 DEF Disk
<1>6. d.position[1] = m.page /\ d.position[2] = m.row /\ d.pk = m.pk
  <2>1. d.pk = m.pk
    BY <1>4, <1>5
  <2> QED
    BY <2>1, <1>1
<1>7. short = 0 => DOMAIN d.pages = 1..d.position[1]
  BY <1>1, <1>6 DEF Exact
<1> QED
  BY <1>1, <1>6, <1>7, RestoredSettled, RestoredFields

-----------------------------------------------------------------------------
(* The iterator on memory and files.                                       *)

\* How many pages are read ahead, before and after one could not be read.
LEMMA Windows == MaxPageCnt \in Nat \ {0, 1, 2} /\ {MaxPageCnt, MaxPageCnt - 1} \subseteq Nat \ {0, 1}
  BY ReadsAhead

\* There is always something read ahead.
LEMMA AheadPositive == 0 < RowsBefore(MaxPageCnt) /\ 0 < RowsBefore(MaxPageCnt - 1)
  BY Windows, SomethingAhead

\* set_position.
LEMMA SetPositionFields ==
    ASSUME NEW m, m \in Mem, NEW page \in 0..(MaxKey + 1), NEW row \in 0..RowsLimit
    PROVE  /\ SetPosition(m, page, row) \in Mem
           /\ SetPosition(m, page, row).page = page /\ SetPosition(m, page, row).row = row
           /\ SetPosition(m, page, row).pk = m.pk
           /\ ~m.rowWriting => ~SetPosition(m, page, row).rowWriting
           /\ ~SetPosition(m, page, row).synchronized
  BY DEF SetPosition, Mem

\* An iterator on a settled table.
LEMMA ScanStarts ==
    ASSUME NEW m, m \in Mem, NEW d, d \in Disk, NEW short \in Nat, NEW b,
           Settled(m, d, short), b.rows = Rows(d.pages, 1, m.page), b.pk = m.pk
    PROVE  /\ Scans(m, d, InitIter(d.pages, m.page), b, {}, short, MaxPageCnt)
           /\ short < RowsBefore(MaxPageCnt) => Passed(InitIter(d.pages, m.page)) = 0
           /\ InitIter(d.pages, m.page).deleted = 0
<1> DEFINE i == InitIter(d.pages, m.page)
           rows == Rows(d.pages, 1, m.page)
<1>1. /\ d.pages \in Pages /\ m.page \in Nat /\ m.row \in 0..RowsLimit /\ m.pk \in Nat /\ m.row \in Nat
      /\ m.page <= MaxKey + 1
  BY MemType, DiskType
<1>2. Good(d.pages, m.page, m.row, m.pk, short) /\ Exact(m, d, short)
  BY DEF Settled
<1>3. 1..m.page \subseteq DOMAIN d.pages /\ Ascending(rows)
  BY <1>2 DEF Good
<1>4. rows \in Seq(Row) /\ Len(rows) \in Nat
  <2>1. m.page <= m.page /\ m.page \in Int
    BY <1>1
  <2> QED
    BY <1>1, <1>3, <2>1, FirstRows
<1>5. Len(rows) <= m.pk
  <2>1. Len(rows) <= RowsBefore(m.page) + m.row /\ RowsBefore(m.page) + m.row <= m.pk
    BY <1>2 DEF Good
  <2>2. RowsBefore(m.page) \in Int
    BY <1>1, RowsBeforeInt
  <2> HIDE DEF rows
  <2> QED
    BY <1>1, <1>4, <2>1, <2>2
<1>6. Loads(i, d.pages) /\ i.deleted = 0 /\ i.cnt = m.page
  BY <1>1, <1>3, InitType
<1>7. short < RowsBefore(MaxPageCnt) =>
        /\ Walks(i, d.pages, rows, short, MaxPageCnt) /\ Passed(i) = 0
        /\ short = 0 /\ DOMAIN d.pages = 1..m.page => Whole(i, d.pages, rows, m.pk)
  BY <1>1, <1>2, InitWalks
<1>8. Without(rows, {}) = rows
  BY <1>4, WithoutNone
<1>9. short = 0 => Whole(i, d.pages, Without(rows, {}), m.pk)
  <2>1. short = 0 => short < RowsBefore(MaxPageCnt) /\ DOMAIN d.pages = 1..m.page
    BY <1>2, AheadPositive DEF Exact
  <2> HIDE DEF i, rows
  <2> QED
    BY <2>1, <1>7, <1>8
<1>10. rows = b.rows
  OBVIOUS
<1> HIDE DEF i, rows
<1>11. Scans(m, d, i, b, {}, short, MaxPageCnt)
  <2>1. Loads(i, d.pages) /\ i.cnt <= MaxKey + 1
    BY <1>1, <1>6
  <2>2. Ascending(b.rows) /\ Len(b.rows) <= m.pk /\ m.pk = b.pk
    BY <1>3, <1>5, <1>10
  <2>3. Settled(m, d, short) /\ m.page = i.cnt /\ Rows(d.pages, 1, m.page) = b.rows /\ ~(i.deleted > 0)
    BY <1>6
  <2>4. short < RowsBefore(MaxPageCnt) => Walks(i, d.pages, b.rows, short, MaxPageCnt)
    BY <1>7, <1>10
  <2>5. short = 0 => Whole(i, d.pages, Without(b.rows, {}), m.pk)
    BY <1>9, <1>10
  <2> QED
    BY <2>1, <2>2, <2>3, <2>4, <2>5 DEF Scans
<1> QED
  BY <1>6, <1>7, <1>11 DEF i

\* What is known of an iterator that has deleted rows.
LEMMA DeletingScan ==
    ASSUME NEW m, NEW d, NEW i, NEW b, NEW e, NEW short, NEW win \in Nat \ {0, 1},
           Scans(m, d, i, b, e, short, win), i.deleted > 0
    PROVE  /\ short = 0 /\ Walks(i, d.pages, b.rows, 0, win)
           /\ Whole(i, d.pages, Without(b.rows, e), m.pk)
           /\ m.page = i.page - 1 /\ m.row = RowsLimit /\ ~m.synchronized /\ ~m.rowWriting
<1>1. short = 0
  BY DEF Scans
<1> QED
  BY <1>1, SomethingAhead DEF Scans

\* What is known of one that has not.
LEMMA FreshScan ==
    ASSUME NEW m, NEW d, NEW i, NEW b, NEW e, NEW short, NEW win \in Nat \ {0, 1},
           Scans(m, d, i, b, e, short, win), i.deleted = 0
    PROVE  /\ Settled(m, d, short) /\ m.page = i.cnt /\ Rows(d.pages, 1, m.page) = b.rows /\ e = {}
           /\ short = 0 =>
                /\ Walks(i, d.pages, b.rows, 0, win) /\ Whole(i, d.pages, Without(b.rows, e), m.pk)
                /\ Without(b.rows, e) = b.rows /\ Untouched(i, d.pages, b.rows)
<1>1. Settled(m, d, short) /\ m.page = i.cnt /\ Rows(d.pages, 1, m.page) = b.rows /\ e = {}
  BY DEF Scans
<1>2. ASSUME short = 0
      PROVE  /\ Walks(i, d.pages, b.rows, 0, win) /\ Whole(i, d.pages, Without(b.rows, e), m.pk)
             /\ Without(b.rows, e) = b.rows /\ Untouched(i, d.pages, b.rows)
  <2>1. Walks(i, d.pages, b.rows, 0, win) /\ Whole(i, d.pages, Without(b.rows, e), m.pk)
    BY <1>2, SomethingAhead DEF Scans
  <2>2. b.rows \in Seq(Row)
    BY <2>1 DEF Walks
  <2>3. Without(b.rows, e) = b.rows
    BY <2>2, <1>1, WithoutNone
  <2>4. Full(d.pages, m.page - 1, 0)
    BY <1>1, <1>2 DEF Settled, Good
  <2> QED
    BY <2>1, <2>3, <2>4, <1>1 DEF Untouched
<1> QED
  BY <1>1, <1>2

\* next(), as functions of memory and files.
AdvancedMem(i, m)   == IF OnePageRead(Stepped(i)) THEN UploadedMem(Stepped(i), m) ELSE m
AdvancedFiles(i, d) == [d EXCEPT !.pages = AdvancedPages(i, @)]

\* The position moves to the page that was written.
LEMMA AdvancedMemory ==
    ASSUME NEW m, m \in Mem, NEW i, NEW pages, Loads(i, pages), ~AtEnd(i), i.cnt <= MaxKey + 1,
           NEW rows, NEW short, NEW win \in Nat \ {0, 1}, i.deleted > 0 => Walks(i, pages, rows, short, win)
    PROVE  /\ AdvancedMem(i, m) \in Mem /\ AdvancedMem(i, m).pk = m.pk
           /\ i.deleted = 0 => AdvancedMem(i, m) = m
           /\ i.deleted > 0 /\ m.page = i.page - 1 /\ m.row = RowsLimit
                /\ ~m.synchronized /\ ~m.rowWriting =>
                  /\ AdvancedMem(i, m).page = AdvancedIter(i, pages).page - 1
                  /\ AdvancedMem(i, m).row = RowsLimit
                  /\ ~AdvancedMem(i, m).synchronized /\ ~AdvancedMem(i, m).rowWriting
<1>1. /\ Stepped(i).cur = i.cur + 1 /\ Stepped(i).page = i.page
      /\ Stepped(i).deleted = i.deleted /\ Stepped(i).cnt = i.cnt
  BY SteppedType
<1>2. /\ i.cnt \in Nat /\ i.page \in Nat \ {0} /\ i.deleted \in Nat /\ i.cur \in Nat \ {0}
  <2>1. i \in Iter
    BY DEF Loads
  <2> QED
    BY <2>1 DEF Iter
<1>3. CASE i.deleted = 0
  <2>1. ~Writes(Stepped(i))
    BY <1>1, <1>2, <1>3 DEF Writes
  <2>2. AdvancedMem(i, m) = m
    BY <2>1 DEF AdvancedMem, UploadedMem
  <2> QED
    BY <2>2, <1>3
<1>4. CASE i.deleted > 0
  <2>1. Walks(i, pages, rows, short, win)
    BY <1>4
  <2>2. OnePageRead(Stepped(i)) <=> i.cur = RowsLimit
    BY <2>1, SteppedPageRead
  <2>3. i.page <= i.cnt
    BY <2>1, CursorOnRow
  <2>4. CASE i.cur # RowsLimit
    <3>1. AdvancedMem(i, m) = m /\ AdvancedIter(i, pages) = Stepped(i)
      BY <2>2, <2>4 DEF AdvancedMem, AdvancedIter
    <3> QED
      BY <3>1, <1>1, <1>2, <1>4
  <2>5. CASE i.cur = RowsLimit
    <3>1. OnePageRead(Stepped(i)) /\ Writes(Stepped(i)) /\ Stepped(i).cur > 1
      BY <2>2, <2>3, <2>5, <1>1, <1>2, <1>4 DEF Writes
    <3>2. Stepped(i).cur - 1 = RowsLimit
      BY <1>1, <1>2, <2>5
    <3>3. AdvancedMem(i, m) = SetPosition(m, i.page, RowsLimit)
      BY <3>1, <3>2, <1>1 DEF AdvancedMem, UploadedMem
    <3>4. i.page \in 0..(MaxKey + 1) /\ RowsLimit \in 0..RowsLimit
      BY <1>2, <2>3, BoundsNat, RowsLimitPositive
    <3>5. AdvancedIter(i, pages).page = i.page + 1
      <4>1. AdvancedIter(i, pages) = NextPageLoad(Uploaded(Stepped(i)), UploadedPages(Stepped(i), pages))
        BY <3>1 DEF AdvancedIter, AdvancedPages
      <4> QED
        BY <4>1, <2>1, <2>5, PageOver
    <3>6. AdvancedIter(i, pages).page - 1 = i.page /\ i.deleted # 0
      BY <1>2, <1>4, <3>5
    <3>7. /\ AdvancedMem(i, m) \in Mem /\ AdvancedMem(i, m).pk = m.pk
          /\ AdvancedMem(i, m).page = i.page /\ AdvancedMem(i, m).row = RowsLimit
          /\ ~m.rowWriting => ~AdvancedMem(i, m).rowWriting
          /\ ~AdvancedMem(i, m).synchronized
      BY <3>3, <3>4, SetPositionFields
    <3> QED
      BY <3>6, <3>7
  <2> QED
    BY <2>4, <2>5
<1> QED
  BY <1>2, <1>3, <1>4

\* The files that next() leaves.
LEMMA AdvancedDisk ==
    ASSUME NEW d, d \in Disk, NEW i, Loads(i, d.pages), ~AtEnd(i)
    PROVE  /\ AdvancedFiles(i, d) \in Disk /\ AdvancedFiles(i, d).mode = d.mode
           /\ AdvancedFiles(i, d).pages = AdvancedPages(i, d.pages)
           /\ i.deleted = 0 => AdvancedFiles(i, d) = d
<1> DEFINE w == AdvancedPages(i, d.pages)
<1>1. Loads(AdvancedIter(i, d.pages), w) /\ (w = d.pages \/ i.deleted > 0)
  BY AdvanceType
<1>2. w \in Pages
  BY <1>1 DEF Loads
<1>3. AdvancedFiles(i, d) = [d EXCEPT !.pages = w]
  BY DEF AdvancedFiles, Disk
<1> HIDE DEF w
<1>4. /\ [d EXCEPT !.pages = w] \in Disk /\ [d EXCEPT !.pages = w].pages = w
      /\ [d EXCEPT !.pages = w].mode = d.mode
  BY <1>2 DEF Disk
<1>5. w = d.pages => [d EXCEPT !.pages = w] = d
  BY DEF Disk
<1> QED
  BY <1>1, <1>3, <1>4, <1>5 DEF w

\* next(): rows move, none is lost, and the position stays behind the cursor.
LEMMA ScanAdvances ==
    ASSUME NEW m, m \in Mem, NEW d, d \in Disk, NEW i, NEW b, NEW e, NEW short \in Nat,
           NEW win \in Nat \ {0, 1},
           Scans(m, d, i, b, e, short, win), ~AtEnd(i)
    PROVE  /\ AdvancedMem(i, m) \in Mem /\ AdvancedFiles(i, d) \in Disk
           /\ AdvancedFiles(i, d).mode = d.mode
           /\ Scans(AdvancedMem(i, m), AdvancedFiles(i, d), AdvancedIter(i, d.pages), b, e, short, win)
           /\ AdvancedIter(i, d.pages).deleted = i.deleted
           /\ short < RowsBefore(win) => Passed(AdvancedIter(i, d.pages)) = Passed(i) + 1
<1> DEFINE m2 == AdvancedMem(i, m)
           d2 == AdvancedFiles(i, d)
           n  == AdvancedIter(i, d.pages)
           w  == AdvancedPages(i, d.pages)
<1>1. /\ Loads(i, d.pages) /\ i.cnt <= MaxKey + 1
      /\ Ascending(b.rows) /\ Len(b.rows) <= m.pk /\ m.pk = b.pk
      /\ short < RowsBefore(win) => Walks(i, d.pages, b.rows, short, win)
      /\ short = 0 => Whole(i, d.pages, Without(b.rows, e), m.pk)
  BY DEF Scans
<1>2. i.deleted \in Nat /\ (i.deleted = 0 \/ i.deleted > 0)
  <2>1. i \in Iter
    BY <1>1 DEF Loads
  <2> QED
    BY <2>1 DEF Iter
<1>3. Loads(n, w) /\ n.deleted = i.deleted /\ n.cnt = i.cnt
  BY <1>1, AdvanceType
<1>4. d2 \in Disk /\ d2.mode = d.mode /\ d2.pages = w /\ (i.deleted = 0 => d2 = d)
  BY <1>1, AdvancedDisk
<1>5. i.deleted > 0 => Walks(i, d.pages, b.rows, 0, win)
  BY DeletingScan
<1>6. /\ m2 \in Mem /\ m2.pk = m.pk
      /\ i.deleted = 0 => m2 = m
      /\ i.deleted > 0 /\ m.page = i.page - 1 /\ m.row = RowsLimit
           /\ ~m.synchronized /\ ~m.rowWriting =>
             /\ m2.page = n.page - 1 /\ m2.row = RowsLimit /\ ~m2.synchronized /\ ~m2.rowWriting
  BY <1>1, <1>5, AdvancedMemory
<1>7. short < RowsBefore(win) => Walks(n, w, b.rows, short, win) /\ Passed(n) = Passed(i) + 1
  BY <1>1, AdvanceWalks
<1>8. short = 0 => Whole(n, w, Without(b.rows, e), m.pk)
  <2> SUFFICES ASSUME short = 0 PROVE Whole(n, w, Without(b.rows, e), m.pk)
    OBVIOUS
  <2>1. Walks(i, d.pages, b.rows, 0, win) /\ Whole(i, d.pages, Without(b.rows, e), m.pk)
    BY <1>1, SomethingAhead
  <2>2. i.deleted = 0 => Without(b.rows, e) = b.rows /\ Untouched(i, d.pages, b.rows)
    BY FreshScan
  <2> QED
    BY <2>1, <2>2, AdvanceWhole
<1>9. i.deleted = 0 => /\ Settled(m2, d2, short) /\ m2.page = n.cnt
                       /\ Rows(d2.pages, 1, m2.page) = b.rows /\ e = {}
  BY <1>3, <1>4, <1>6, FreshScan
<1>10. i.deleted > 0 => /\ short = 0 /\ m2.page = n.page - 1 /\ m2.row = RowsLimit
                        /\ ~m2.synchronized /\ ~m2.rowWriting
  BY <1>6, DeletingScan
<1> HIDE DEF m2, d2, n, w
<1>11. Scans(m2, d2, n, b, e, short, win)
  BY <1>1, <1>3, <1>4, <1>6, <1>7, <1>8, <1>9, <1>10 DEF Scans
<1> QED
  BY <1>3, <1>4, <1>6, <1>7, <1>11 DEF m2, d2, n

\* erase(), as a function of the memory.
ErasedMem(i, m) == IF i.deleted = 0 THEN SetPosition(m, i.page - 1, RowsLimit) ELSE m

\* erase(): the row under the cursor and no other leaves the table.
LEMMA ScanErases ==
    ASSUME NEW m, m \in Mem, NEW d, d \in Disk, NEW i, NEW b, NEW e, NEW win \in Nat \ {0, 1},
           Scans(m, d, i, b, e, 0, win), ~AtEnd(i)
    PROVE  /\ ErasedMem(i, m) \in Mem
           /\ Scans(ErasedMem(i, m), d, ErasedIter(i, d.pages), b, e \cup {i.rows[i.cur]}, 0, win)
           /\ Passed(ErasedIter(i, d.pages)) = Passed(i) + 1
           /\ i.rows[i.cur] = b.rows[Passed(i) + 1] /\ Passed(i) + 1 <= Len(b.rows)
<1> DEFINE m2 == ErasedMem(i, m)
           n  == ErasedIter(i, d.pages)
           e2 == e \cup {i.rows[i.cur]}
<1>1. /\ Loads(i, d.pages) /\ i.cnt <= MaxKey + 1
      /\ Ascending(b.rows) /\ Len(b.rows) <= m.pk /\ m.pk = b.pk
      /\ Walks(i, d.pages, b.rows, 0, win)
      /\ Whole(i, d.pages, Without(b.rows, e), m.pk)
  BY SomethingAhead DEF Scans
<1>2. /\ i.cnt \in Nat /\ i.page \in Nat \ {0} /\ i.deleted \in Nat
      /\ (i.deleted = 0 \/ i.deleted > 0)
  <2>1. i \in Iter
    BY <1>1 DEF Loads
  <2> QED
    BY <2>1 DEF Iter
<1>3. /\ Loads(n, d.pages) /\ n.deleted = i.deleted + 1 /\ n.cnt = i.cnt /\ n.page = i.page
  BY <1>1, EraseType
<1>4. Walks(n, d.pages, b.rows, 0, win) /\ Passed(n) = Passed(i) + 1
  BY <1>1, EraseWalks
<1>5. Whole(n, d.pages, Without(b.rows, e2), m.pk)
  BY <1>1, EraseWhole
<1>6. /\ i.page <= i.cnt /\ i.rows[i.cur] = b.rows[Passed(i) + 1] /\ Passed(i) < Len(b.rows)
  BY <1>1, CursorOnRow
<1>7. Passed(i) + 1 <= Len(b.rows)
  <2>1. Passed(i) \in Nat
    <3>1. i \in Iter
      BY <1>1 DEF Loads
    <3> QED
      BY <3>1, IterNumbers
  <2>2. Len(b.rows) \in Nat
    BY <1>1, LenProperties DEF Walks
  <2> QED
    BY <2>1, <2>2, <1>6
<1>8. /\ m2 \in Mem /\ m2.pk = m.pk /\ m2.page = i.page - 1 /\ m2.row = RowsLimit
      /\ ~m2.synchronized /\ ~m2.rowWriting
  <2>1. CASE i.deleted = 0
    <3>1. i.page - 1 \in 0..(MaxKey + 1) /\ RowsLimit \in 0..RowsLimit
      BY <1>1, <1>2, <1>6, BoundsNat, RowsLimitPositive
    <3>2. Settled(m, d, 0)
      BY <2>1, FreshScan
    <3>3. ~m.rowWriting
      BY <3>2 DEF Settled
    <3>4. m2 = SetPosition(m, i.page - 1, RowsLimit)
      BY <2>1 DEF ErasedMem
    <3> QED
      BY <3>1, <3>3, <3>4, SetPositionFields
  <2>2. CASE i.deleted > 0
    <3>1. m2 = m
      BY <2>2, <1>2 DEF ErasedMem
    <3> QED
      BY <3>1, <2>2, DeletingScan
  <2> QED
    BY <1>2, <2>1, <2>2
<1>9. n.deleted # 0
  BY <1>2, <1>3
<1> HIDE DEF m2, n, e2
<1>10. Scans(m2, d, n, b, e2, 0, win)
  BY <1>1, <1>3, <1>4, <1>5, <1>8, <1>9 DEF Scans
<1> QED
  BY <1>4, <1>6, <1>7, <1>8, <1>10 DEF m2, n, e2

\* A page further behind nothing else changes.
LEMMA UnloadedScan ==
    ASSUME NEW m, NEW d, NEW n, NEW u, NEW b, NEW e, NEW win \in Nat \ {0, 1, 2},
           Scans(m, d, n, b, e, 0, win), n.deleted > 0,
           u.page = n.page, u.deleted = n.deleted, u.cnt = n.cnt, Loads(u, d.pages),
           Walks(u, d.pages, b.rows, 0, win - 1), Whole(u, d.pages, Without(b.rows, e), m.pk)
    PROVE  Scans(m, d, u, b, e, 0, win - 1)
<1>1. /\ n.cnt <= MaxKey + 1 /\ Ascending(b.rows) /\ Len(b.rows) <= m.pk /\ m.pk = b.pk
      /\ m.page = n.page - 1 /\ m.row = RowsLimit /\ ~m.synchronized /\ ~m.rowWriting
  BY DEF Scans
<1>2. n.deleted # 0
  OBVIOUS
<1> QED
  BY <1>1, <1>2 DEF Scans

\* next() when the page it is to bring cannot be read.
LEMMA ScanStops ==
    ASSUME NEW m, m \in Mem, NEW d, d \in Disk, NEW i, NEW b, NEW e, NEW win \in Nat \ {0, 1, 2},
           Scans(m, d, i, b, e, 0, win), ~AtEnd(i), i.deleted > 0,
           i.loaded < i.cnt, OnePageRead(Stepped(i))
    PROVE  /\ AdvancedMem(i, m) \in Mem /\ AdvancedFiles(i, d) \in Disk
           /\ AdvancedFiles(i, d).mode = d.mode
           /\ Scans(AdvancedMem(i, m), AdvancedFiles(i, d), UnreadIter(i), b, e, 0, win - 1)
           /\ UnreadIter(i).deleted = i.deleted
<1> DEFINE m2 == AdvancedMem(i, m)
           d2 == AdvancedFiles(i, d)
           n  == AdvancedIter(i, d.pages)
           u  == UnreadIter(i)
           w  == AdvancedPages(i, d.pages)
<1>0. win \in Nat \ {0, 1} /\ 0 \in Nat
  OBVIOUS
<1>1. /\ m2 \in Mem /\ d2 \in Disk /\ d2.mode = d.mode
      /\ Scans(m2, d2, n, b, e, 0, win) /\ n.deleted = i.deleted
  BY <1>0, ScanAdvances
<1>2. Walks(i, d.pages, b.rows, 0, win) /\ Whole(i, d.pages, Without(b.rows, e), m.pk)
  BY <1>0, DeletingScan
<1>3. UnreadPages(i, d.pages) = w /\ n = NextPageLoad(u, w)
  BY DEF UnreadPages, AdvancedPages, AdvancedIter, UnreadIter
<1>4. d2.pages = w
  <2>1. Loads(i, d.pages)
    BY DEF Scans
  <2> QED
    BY <2>1, AdvancedDisk
<1>5. /\ Walks(u, w, b.rows, 0, win - 1) /\ Whole(u, w, Without(b.rows, e), m.pk)
      /\ Loads(u, w) /\ u.deleted = i.deleted
  <2>1. ~(i.deleted = 0)
    OBVIOUS
  <2> QED
    BY <1>2, <1>3, <2>1, UnreadWalks
<1>6. n.page = u.page /\ n.cnt = u.cnt
  BY <1>3, <1>5, LoadType
<1>7. m2.pk = m.pk
  BY <1>1 DEF Scans
<1> HIDE DEF m2, d2, n, u, w
<1>8. Scans(m2, d2, u, b, e, 0, win - 1)
  BY <1>1, <1>4, <1>5, <1>6, <1>7, UnloadedScan
<1> QED
  BY <1>1, <1>5, <1>8 DEF m2, d2, u

\* erase() when the page it is to bring cannot be read.
LEMMA ScanErasesUnread ==
    ASSUME NEW m, m \in Mem, NEW d, d \in Disk, NEW i, NEW b, NEW e, NEW win \in Nat \ {0, 1, 2},
           Scans(m, d, i, b, e, 0, win), ~AtEnd(i), i.loaded < i.cnt, OnePageDeleted(Removed(i))
    PROVE  /\ Scans(ErasedMem(i, m), d, Removed(i), b, e \cup {i.rows[i.cur]}, 0, win - 1)
           /\ Removed(i).deleted > 0
<1> DEFINE m2 == ErasedMem(i, m)
           n  == ErasedIter(i, d.pages)
           u  == Removed(i)
           e2 == e \cup {i.rows[i.cur]}
<1>0. win \in Nat \ {0, 1}
  OBVIOUS
<1>1. Scans(m2, d, n, b, e2, 0, win)
  BY <1>0, ScanErases
<1>2. Loads(i, d.pages) /\ m.pk = b.pk /\ m2.pk = b.pk
  BY <1>1 DEF Scans
<1>3. Walks(i, d.pages, b.rows, 0, win) /\ Whole(i, d.pages, Without(b.rows, e), m.pk)
  BY <1>0, SomethingAhead DEF Scans
<1>4. /\ Walks(u, d.pages, b.rows, 0, win - 1) /\ Whole(u, d.pages, Without(b.rows, e2), m.pk)
      /\ Loads(u, d.pages)
      /\ u.page = i.page /\ u.deleted = i.deleted + 1 /\ u.cnt = i.cnt
  BY <1>3, EraseUnreadWalks
<1>5. n.page = i.page /\ n.deleted = i.deleted + 1 /\ n.cnt = i.cnt
  BY <1>2, EraseType
<1>6. i.deleted + 1 > 0
  <2>1. i \in Iter
    BY <1>2 DEF Loads
  <2> QED
    BY <2>1, IterNumbers
<1> HIDE DEF m2, n, u, e2
<1>7. Scans(m2, d, u, b, e2, 0, win - 1)
  BY <1>1, <1>2, <1>4, <1>5, <1>6, UnloadedScan
<1> QED
  BY <1>4, <1>6, <1>7 DEF m2, u, e2

-----------------------------------------------------------------------------
(* The end of a DELETE.                                                    *)

\* reset(), as functions of memory and files.
ResetMem(i, m)   == IF i.deleted > 0 /\ i.rows # <<>> THEN UploadedMem(i, m) ELSE m
ResetFiles(i, d) == IF i.deleted = 0 THEN d ELSE [d EXCEPT !.pages = ResetTo(i, @)]

\* When nothing was deleted nothing is written.
LEMMA FreshEnds ==
    ASSUME NEW m, m \in Mem, NEW d, d \in Disk, NEW i, NEW b, NEW e, NEW short \in Nat,
           NEW win \in Nat \ {0, 1},
           Scans(m, d, i, b, e, short, win), i.deleted = 0
    PROVE  /\ ResetMem(i, m) = m /\ ResetFiles(i, d) = d /\ Finished(m, d, short)
           /\ Rows(d.pages, 1, m.page) = b.rows /\ m.pk = b.pk
<1>1. Settled(m, d, short) /\ Rows(d.pages, 1, m.page) = b.rows
  BY FreshScan
<1>2. m.rowWriting => short > 0
  BY <1>1 DEF Settled
<1>3. Finished(m, d, short)
  BY <1>1, <1>2, SettledFinished
<1>4. m.pk = b.pk
  BY DEF Scans
<1> QED
  BY <1>1, <1>3, <1>4 DEF ResetMem, ResetFiles

\* Else the rows that were not erased are the table.
LEMMA DeletingEnds ==
    ASSUME NEW m, m \in Mem, NEW d, d \in Disk, NEW i, NEW b, NEW e, NEW short, NEW win \in Nat \ {0, 1},
           Scans(m, d, i, b, e, short, win), i.deleted > 0, AtEnd(i)
    PROVE  /\ ResetMem(i, m) \in Mem /\ ResetFiles(i, d) \in Disk
           /\ ResetFiles(i, d).mode = d.mode
           /\ Finished(ResetMem(i, m), ResetFiles(i, d), short)
           /\ Rows(ResetFiles(i, d).pages, 1, ResetMem(i, m).page) = Without(b.rows, e)
           /\ ResetMem(i, m).pk = b.pk /\ Ascending(b.rows)
<1> DEFINE n == ResetMem(i, m)
           f == ResetFiles(i, d)
           w == ResetTo(i, d.pages)
<1>1. /\ short = 0 /\ Walks(i, d.pages, b.rows, 0, win)
      /\ Whole(i, d.pages, Without(b.rows, e), m.pk)
      /\ m.page = i.page - 1 /\ m.row = RowsLimit /\ ~m.synchronized /\ ~m.rowWriting
  BY DeletingScan
<1>2. Len(b.rows) <= m.pk /\ m.pk = b.pk /\ Ascending(b.rows) /\ i.cnt <= MaxKey + 1
  BY DEF Scans
<1>3. m.pk \in Nat
  BY MemType
<1>4. /\ i.page <= i.cnt /\ w \in Pages /\ LastPage(i) \in Nat /\ LastRow(i) \in 0..RowsLimit
      /\ Good(w, LastPage(i), LastRow(i), m.pk, 0)
      /\ Rows(w, 1, LastPage(i)) = Without(b.rows, e) /\ DOMAIN w = 1..LastPage(i)
      /\ i.cur = Len(i.rows) + 1
  BY <1>1, <1>2, <1>3, ResetGood
<1>5. /\ i.cnt \in Nat /\ i.page \in Nat \ {0} /\ i.rows \in Seq(Row) /\ i.deleted # 0
  <2>1. i \in Iter
    BY <1>1 DEF Walks, Loads
  <2> QED
    BY <2>1 DEF Iter
<1>6. f \in Disk /\ f.pages = w /\ f.mode = d.mode
  <2>1. f = [d EXCEPT !.pages = w]
    BY <1>5 DEF ResetFiles
  <2> HIDE DEF f, w
  <2> QED
    BY <2>1, <1>4 DEF Disk
<1>7. /\ n \in Mem /\ n.page = LastPage(i) /\ n.row = LastRow(i) /\ n.pk = m.pk
      /\ ~n.synchronized /\ ~n.rowWriting
  <2>1. CASE i.rows = <<>>
    <3>1. n = m
      BY <2>1 DEF ResetMem
    <3> QED
      BY <3>1, <2>1, <1>1 DEF LastPage, LastRow
  <2>2. CASE i.rows # <<>>
    <3>1. Len(i.rows) \in Nat /\ Len(i.rows) > 0
      BY <2>2, <1>5, EmptySeq, LenProperties
    <3>2. Writes(i) /\ i.cur > 1
      BY <3>1, <1>4 DEF Writes
    <3>3. n = SetPosition(m, i.page, i.cur - 1)
      BY <3>2, <2>2 DEF ResetMem, UploadedMem
    <3>4. i.page \in 0..(MaxKey + 1)
      BY <1>2, <1>4, <1>5, BoundsNat
    <3>5. LastPage(i) = i.page /\ LastRow(i) = i.cur - 1
      BY <2>2 DEF LastPage, LastRow
    <3> QED
      BY <3>3, <3>4, <3>5, <1>1, <1>4, SetPositionFields
  <2> QED
    BY <2>1, <2>2
<1> HIDE DEF n, f, w
<1>8. Finished(n, f, short)
  BY <1>1, <1>4, <1>6, <1>7 DEF Finished, Exact, FilesGood
<1>9. Rows(f.pages, 1, n.page) = Without(b.rows, e) /\ n.pk = b.pk
  BY <1>2, <1>4, <1>6, <1>7
<1> QED
  BY <1>2, <1>6, <1>7, <1>8, <1>9 DEF n, f

-----------------------------------------------------------------------------
(* Each action keeps the invariant.                                        *)

\* The empty iterator.
LEMMA NoIterType == NoIter \in Iter /\ Shape(NoIter)
<1> DEFINE none == <<>>
<1>1. none \in Pages
  <2>1. none = [p \in DOMAIN none |-> none[p]] /\ DOMAIN none = {}
    OBVIOUS
  <2> HIDE DEF none
  <2> QED
    BY <2>1, PagesIntro
<1>2. 0 \in Nat /\ 1..0 \subseteq DOMAIN none
  OBVIOUS
<1> HIDE DEF none
<1>3. Loads(InitIter(none, 0), none)
  BY <1>1, <1>2, InitType
<1> QED
  BY <1>3 DEF NoIter, Loads, none

\* A new table.
LEMMA InitHolds == Init => IInv
<1> SUFFICES ASSUME Init PROVE IInv
  OBVIOUS
<1> DEFINE ps == <<(<<>>)>>
<1>1. /\ ps \in Pages /\ DOMAIN ps = 1..1 /\ ps[1] = <<>> /\ <<>> \in Seq(Row)
  <2>1. ps = [p \in DOMAIN ps |-> ps[p]] /\ DOMAIN ps = 1..1 /\ ps[1] = <<>> /\ <<>> \in Seq(Row)
    OBVIOUS
  <2>2. 1..1 \subseteq Nat \ {0} /\ \A p \in 1..1 : p = 1
    OBVIOUS
  <2> HIDE DEF ps
  <2>3. DOMAIN ps \subseteq Nat \ {0} /\ \A p \in DOMAIN ps : ps[p] \in Seq(Row)
    BY <2>1, <2>2
  <2> QED
    BY <2>1, <2>3, PagesIntro
<1>2. mem.page = 1 /\ mem.row = 0 /\ mem.pk = 0 /\ mem.rowWriting = FALSE /\ mem.synchronized = TRUE
      /\ disk.pages = ps /\ disk.position = <<1, 0>> /\ disk.pk = 0 /\ disk.mode = "free"
      /\ op = "idle" /\ iter = NoIter /\ victims = {} /\ seen = <<>> /\ before = Nothing
      /\ erased = {} /\ failures = 0 /\ spoilt = FALSE
  BY DEF Init
<1>3. mem \in Mem
  BY BoundsNat, RowsLimitPositive DEF Init, Mem
<1>4. disk \in Disk
  <2>1. <<1, 0>> \in (0..(MaxKey + 1)) \X (0..RowsLimit) /\ 0 \in 0..MaxKey
    BY BoundsNat, RowsLimitPositive
  <2>2. disk = [pages |-> ps, position |-> <<1, 0>>, pk |-> 0, mode |-> "free"]
    BY DEF Init
  <2> HIDE DEF ps
  <2> QED
    BY <2>1, <2>2, <1>1 DEF Disk
<1>5. Types
  <2>1. before \in [rows : Seq(Row), pk : Nat]
    BY <1>2, <1>1 DEF Nothing
  <2>2. seen \in Seq(Row)
    BY <1>1, <1>2
  <2> QED
    BY <2>1, <2>2, <1>2, <1>3, <1>4, NoIterType DEF Types, Op
<1> HIDE DEF ps
<1>6. Rows(ps, 1, 0) = <<>>
  BY RowsEmpty
<1>7. Rows(ps, 1, 1) = <<>>
  <2>1. PagesThere(ps, 1, 0 + 1)
    <3>1. \A k \in 1..(0 + 1) : k = 1
      OBVIOUS
    <3> QED
      BY <3>1, <1>1 DEF PagesThere
  <2>2. Rows(ps, 1, 0 + 1) = Rows(ps, 1, 0) \o ps[0 + 1]
    <3>1. 1 \in Nat \ {0} /\ 0 \in Int /\ 1 <= 0 + 1
      OBVIOUS
    <3> QED
      BY <3>1, <2>1, RowsBack
  <2>3. 0 + 1 = 1 /\ <<>> \o <<>> = <<>>
    OBVIOUS
  <2> QED
    BY <2>2, <2>3, <1>1, <1>6
<1>8. Good(ps, 1, 0, 0, 0)
  <2>1. RowsBefore(1) = 0 /\ Len(<<>>) = 0 /\ 1 - 1 = 0 /\ 0 + 1 = 1
    BY RowsBeforeInt
  <2>2. \A k \in 0..0 : k = 0
    OBVIOUS
  <2>3. Full(ps, 0, 0)
    BY <2>1, <2>2, <1>6 DEF Full
  <2>4. Ascending(<<>>) /\ UpTo(<<>>, 0)
    BY DEF Ascending, UpTo
  <2> QED
    BY <2>1, <2>3, <2>4, <1>1, <1>7 DEF Good
<1>9. disk.position[1] = 1 /\ disk.position[2] = 0
  BY <1>2
<1>10. Settled(mem, disk, failures)
  <2>1. Good(disk.pages, mem.page, mem.row, mem.pk, failures)
        /\ Good(disk.pages, disk.position[1], disk.position[2], disk.pk, failures)
    BY <1>2, <1>8, <1>9
  <2>2. Exact(mem, disk, failures) /\ disk.position[1] <= mem.page
    BY <1>1, <1>2, <1>9 DEF Exact
  <2>3. FilesMatch(mem, disk) /\ ~mem.rowWriting
    BY <1>2 DEF FilesMatch
  <2> QED
    BY <2>1, <2>2, <2>3 DEF Settled, FilesGood
<1>11. ~Locked
  BY <1>2 DEF Locked
<1>12. IdleInv
  BY <1>2, <1>10, <1>11 DEF IdleInv
<1>13. Stages
  BY <1>2, <1>12 DEF Stages
<1> QED
  BY <1>2, <1>5, <1>13 DEF IInv

-----------------------------------------------------------------------------
(* The steps of INSERT.                                                    *)

\* The rows of a settled table.
LEMMA SettledRows ==
    ASSUME NEW m, m \in Mem, NEW d, d \in Disk, NEW short, Settled(m, d, short)
    PROVE  Rows(d.pages, 1, m.page) \in Seq(Row)
<1>1. 1..m.page \subseteq DOMAIN d.pages
  BY DEF Settled, Good
<1>2. d.pages \in Pages /\ m.page \in Nat /\ m.page \in Int /\ m.page <= m.page
  BY MemType, DiskType
<1> QED
  BY <1>1, <1>2, FirstRows

\* A guard is constructed.
LEMMA LockTakes ==
    ASSUME Types, IdleInv, NEW m \in {"reading", "writing"}, NEW next, Lock(m, next)
    PROVE  /\ op = "idle" /\ op' = next /\ disk' \in Disk /\ disk'.mode = m
           /\ disk'.pages = disk.pages
           /\ before' \in [rows : Seq(Row), pk : Nat]
           /\ before'.rows = Contents /\ before'.pk = mem.pk
           /\ Settled(mem, disk, failures) /\ Settled(mem, disk', failures)
           /\ victims = {} /\ erased = {}
<1>1. /\ op = "idle" /\ op' = next /\ disk' = [disk EXCEPT !.mode = m]
      /\ before' = [rows |-> Contents, pk |-> mem.pk] /\ disk.mode # "writing"
  BY DEF Lock
<1>2. mem \in Mem /\ disk \in Disk
  BY DEF Types
<1>3. Settled(mem, disk, failures) /\ victims = {} /\ erased = {}
  BY <1>1 DEF IdleInv, Locked
<1>4. /\ disk' \in Disk /\ disk'.mode = m /\ disk'.pages = disk.pages
      /\ disk'.position = disk.position /\ disk'.pk = disk.pk
  BY <1>1, <1>2, ModeOnly, ZenonT(30)
<1>5. Settled(mem, disk', failures)
  BY <1>3, <1>4, SameFiles
<1>6. Contents \in Seq(Row) /\ mem.pk \in Nat
  BY <1>2, <1>3, SettledRows, MemType DEF Contents
<1> QED
  BY <1>1, <1>3, <1>4, <1>5, <1>6

\* INSERT takes the lock.
LEMMA StartInsertKeeps ==
    ASSUME Types, Stages, ~spoilt, StartInsert
    PROVE  IInv'
<1>1. /\ Lock("writing", "insert") /\ mem.pk < MaxKey
      /\ UNCHANGED <<mem, iter, victims, seen, erased, failures, spoilt>>
  BY DEF StartInsert
<1>2. IdleInv
  BY <1>1 DEF Lock, Stages
<1>3. /\ op = "idle" /\ op' = "insert" /\ disk' \in Disk /\ disk'.mode = "writing"
      /\ disk'.pages = disk.pages
      /\ before' \in [rows : Seq(Row), pk : Nat]
      /\ before'.rows = Contents /\ before'.pk = mem.pk
      /\ Settled(mem, disk', failures) /\ victims = {} /\ erased = {}
  BY <1>1, <1>2, LockTakes
<1>4. Types'
  BY <1>1, <1>3 DEF Types, Op
<1>5. InsertInv'
  <2>1. Contents' = Contents
    BY <1>1, <1>3 DEF Contents
  <2> QED
    BY <2>1, <1>1, <1>3 DEF InsertInv, Locked
<1> QED
  BY <1>1, <1>3, <1>4, <1>5 DEF IInv, Stages

\* INSERT refuses its values before it has changed anything.
LEMMA RejectInsertKeeps ==
    ASSUME Types, Stages, ~spoilt, RejectInsert
    PROVE  IInv'
<1>1. /\ op = "insert" /\ op' = "release"
      /\ UNCHANGED <<mem, disk, iter, victims, seen, before, erased, failures, spoilt>>
  BY DEF RejectInsert
<1>2. InsertInv
  BY <1>1 DEF Stages
<1>3. Types'
  BY <1>1 DEF Types, Op
<1>4. mem \in Mem /\ failures \in Nat
  BY DEF Types
<1>5. ReleaseInv'
  <2>1. Settled(mem, disk, failures)
    BY <1>2 DEF InsertInv
  <2>2. mem.rowWriting => failures > 0
    BY <2>1, <1>4 DEF Settled
  <2>3. Finished(mem, disk, failures)
    BY <2>1, <2>2, <1>4, SettledFinished
  <2>4. Outcome(mem, disk, before, victims, erased)
    BY <1>2 DEF InsertInv, Outcome, Contents
  <2>5. Locked
    BY <1>2 DEF InsertInv
  <2> QED
    BY <2>3, <2>4, <2>5, <1>1 DEF ReleaseInv, Locked
<1> QED
  BY <1>1, <1>3, <1>5 DEF IInv, Stages

\* row_writing_start: a position and a key for the row, and a page if need be.
LEMMA RowWritingStartKeeps ==
    ASSUME Types, Stages, ~spoilt, RowWritingStart
    PROVE  IInv'
<1>1. /\ op = "insert" /\ op' = "append"
      /\ UNCHANGED <<iter, victims, seen, before, erased, failures, spoilt>>
  BY DEF RowWritingStart
<1>2. mem' = Started(mem) /\ disk' = StartedFiles(mem, disk)
  BY DEF RowWritingStart, Started, StartedFiles
<1>3. /\ Settled(mem, disk, failures) /\ Locked /\ victims = {} /\ erased = {}
      /\ Contents = before.rows /\ mem.pk = before.pk /\ mem.pk < MaxKey
  BY <1>1 DEF Stages, InsertInv
<1>4. mem \in Mem /\ disk \in Disk /\ failures \in Nat
  BY DEF Types
<1>5. /\ mem' \in Mem /\ disk' \in Disk /\ disk'.mode = disk.mode
      /\ Appending(mem', disk', failures) /\ Contents' = Contents /\ mem'.pk = mem.pk + 1
  BY <1>2, <1>3, <1>4, InsertStarts DEF Contents
<1>6. Types'
  BY <1>1, <1>5 DEF Types, Op
<1>7. AppendInv'
  BY <1>1, <1>3, <1>5 DEF AppendInv, Locked
<1> QED
  BY <1>1, <1>6, <1>7 DEF IInv, Stages

\* add_page and row_writing_finish.
LEMMA AppendRowKeeps ==
    ASSUME Types, Stages, ~spoilt, AppendRow
    PROVE  IInv'
<1>1. /\ op = "append" /\ op' = "release"
      /\ UNCHANGED <<iter, victims, seen, before, erased, failures, spoilt>>
  BY DEF AppendRow
<1>2. mem' = Stored(mem) /\ disk' = StoredFiles(mem, disk)
  BY DEF AppendRow, Stored, StoredFiles
<1>3. /\ Appending(mem, disk, failures) /\ Locked /\ victims = {} /\ erased = {}
      /\ Contents = before.rows /\ mem.pk = before.pk + 1
  BY <1>1 DEF Stages, AppendInv
<1>4. mem \in Mem /\ disk \in Disk /\ failures \in Nat
  BY DEF Types
<1>5. /\ mem' \in Mem /\ disk' \in Disk /\ disk'.mode = disk.mode
      /\ Finished(mem', disk', failures)
      /\ Contents' = Append(Contents, mem.pk) /\ mem'.pk = mem.pk
  BY <1>2, <1>3, <1>4, RowStored DEF Contents
<1>6. Types'
  BY <1>1, <1>5 DEF Types, Op
<1>7. Outcome(mem', disk', before', victims', erased')
  <2>1. Rows(disk'.pages, 1, mem'.page) = Append(before'.rows, before'.pk + 1)
        /\ mem'.pk = before'.pk + 1 /\ victims' = {}
    BY <1>1, <1>3, <1>5 DEF Contents
  <2> QED
    BY <2>1 DEF Outcome
<1>8. ReleaseInv'
  BY <1>1, <1>3, <1>5, <1>7 DEF ReleaseInv, Locked
<1> QED
  BY <1>1, <1>6, <1>8 DEF IInv, Stages

\* add_page throws: the position is one row ahead of the pages.
LEMMA AppendFailsKeeps ==
    ASSUME Types, Stages, ~spoilt, AppendFails
    PROVE  IInv'
<1>1. /\ op = "append" /\ op' = "release" /\ failures' = failures + 1
      /\ UNCHANGED <<mem, disk, iter, victims, seen, before, erased, spoilt>>
  BY DEF AppendFails
<1>2. Appending(mem, disk, failures) /\ Locked
  BY <1>1 DEF Stages, AppendInv
<1>3. mem \in Mem /\ disk \in Disk /\ failures \in Nat
  BY DEF Types
<1>4. Finished(mem', disk', failures')
  BY <1>1, <1>2, <1>3, RowNotStored
<1>5. Types'
  BY <1>1 DEF Types, Op
<1>6. ReleaseInv'
  <2>1. failures' # 0
    BY <1>1, <1>3
  <2> QED
    BY <2>1, <1>1, <1>2, <1>4 DEF ReleaseInv, Locked
<1> QED
  BY <1>1, <1>5, <1>6 DEF IInv, Stages

(* The steps of sync. *)

\* The rows a DELETE was for are gone when it ends.
LEMMA OutcomeGone ==
    ASSUME NEW m, NEW d, NEW b, NEW v, NEW e, Outcome(m, d, b, v, e), b.rows \in Seq(Row)
    PROVE  Gone(Rows(d.pages, 1, m.page), v)
<1>1. CASE v = {}
  BY <1>1 DEF Gone
<1>2. CASE Rows(d.pages, 1, m.page) = Without(b.rows, e) /\ e = v
  BY <1>2, WithoutGone
<1> QED
  BY <1>1, <1>2 DEF Outcome

\* The lock file is freed, before sync.
LEMMA WritingFinishKeeps ==
    ASSUME Types, Stages, ~spoilt, WritingFinish
    PROVE  IInv'
<1>1. /\ op = "release" /\ op' = "sync" /\ disk' = [disk EXCEPT !.mode = "free"]
      /\ UNCHANGED <<mem, iter, victims, seen, before, erased, failures, spoilt>>
  BY DEF WritingFinish
<1>2. Finished(mem, disk, failures)
  BY <1>1 DEF Stages, ReleaseInv
<1>3. disk \in Disk
  BY DEF Types
<1>4. /\ disk' \in Disk /\ disk'.mode = "free" /\ disk'.pages = disk.pages
      /\ disk'.position = disk.position /\ disk'.pk = disk.pk
  BY <1>1, <1>3, ModeOnly
<1>5. Finished(mem, disk', failures)
  BY <1>2, <1>4, SameFiles
<1>6. Types'
  BY <1>1, <1>4 DEF Types, Op
<1>7. failures = 0 => Gone(Contents', victims')
  <2> SUFFICES ASSUME failures = 0 PROVE Gone(Contents', victims')
    OBVIOUS
  <2>1. Outcome(mem, disk, before, victims, erased) /\ before.rows \in Seq(Row)
    BY <1>1 DEF Stages, ReleaseInv, Types
  <2> QED
    BY <2>1, <1>1, <1>4, OutcomeGone DEF Contents
<1>8. SyncInv'
  BY <1>1, <1>4, <1>5, <1>7 DEF SyncInv
<1> QED
  BY <1>1, <1>6, <1>8 DEF IInv, Stages

\* What is forgotten has its type.
LEMMA ForgetTypes ==
    ASSUME Forget
    PROVE  /\ victims' = {} /\ erased' = {} /\ seen' \in Seq(Row)
           /\ before' \in [rows : Seq(Row), pk : Nat]
  BY DEF Forget, Nothing

\* sync returns early when the files are up to date.
LEMMA SyncNothingKeeps ==
    ASSUME Types, Stages, ~spoilt, SyncNothing
    PROVE  IInv'
<1>1. /\ op = "sync" /\ op' = "idle" /\ mem.synchronized /\ Forget
      /\ UNCHANGED <<mem, disk, iter, failures, spoilt>>
  BY DEF SyncNothing
<1>2. Finished(mem, disk, failures) /\ disk.mode = "free"
  BY <1>1 DEF Stages, SyncInv
<1>3. mem \in Mem /\ failures \in Nat
  BY DEF Types
<1>4. Settled(mem, disk, failures)
  BY <1>1, <1>2, <1>3, NothingToSync
<1>5. Types'
  BY <1>1, ForgetTypes DEF Types, Op
<1>6. IdleInv'
  BY <1>1, <1>2, <1>4, ForgetTypes DEF IdleInv, Locked
<1> QED
  BY <1>1, <1>5, <1>6 DEF IInv, Stages

\* sync writes the position.
LEMMA SyncPositionKeeps ==
    ASSUME Types, Stages, ~spoilt, SyncPosition
    PROVE  IInv'
<1>1. /\ op = "sync" /\ op' = "sync_key" /\ ~mem.synchronized
      /\ UNCHANGED <<iter, victims, seen, before, erased, failures, spoilt>>
  BY DEF SyncPosition
<1>2. mem' = RolledBack(mem) /\ disk' = PositionFiles(mem, disk)
  BY DEF SyncPosition, PositionFiles
<1>3. Finished(mem, disk, failures) /\ disk.mode = "free"
  BY <1>1 DEF Stages, SyncInv
<1>4. mem \in Mem /\ disk \in Disk /\ failures \in Nat
  BY DEF Types
<1>5. /\ mem' \in Mem /\ disk' \in Disk /\ disk'.mode = disk.mode
      /\ HalfSynced(mem', disk', failures)
  BY <1>1, <1>2, <1>3, <1>4, PositionSynced
<1>6. Types'
  BY <1>1, <1>5 DEF Types, Op
<1>7. failures = 0 => Gone(Contents', victims')
  <2> SUFFICES ASSUME failures = 0 PROVE Gone(Contents', victims')
    OBVIOUS
  <2>1. mem' = mem /\ disk'.pages = disk.pages
    BY <1>1, <1>2, <1>3, <1>4, PositionSynced
  <2>2. Gone(Contents, victims)
    BY <1>1 DEF Stages, SyncInv
  <2> QED
    BY <2>1, <2>2, <1>1 DEF Contents
<1>8. SyncKeyInv'
  BY <1>1, <1>3, <1>5, <1>7 DEF SyncKeyInv
<1> QED
  BY <1>1, <1>6, <1>8 DEF IInv, Stages

\* sync writes the key.
LEMMA SyncKeyKeeps ==
    ASSUME Types, Stages, ~spoilt, SyncKey
    PROVE  IInv'
<1>1. /\ op = "sync_key" /\ op' = "idle" /\ Forget /\ UNCHANGED <<iter, failures, spoilt>>
  BY DEF SyncKey
<1>2. mem' = UpToDate(mem) /\ disk' = KeyFiles(mem, disk)
  BY DEF SyncKey, UpToDate, KeyFiles
<1>3. HalfSynced(mem, disk, failures) /\ disk.mode = "free"
  BY <1>1 DEF Stages, SyncKeyInv
<1>4. mem \in Mem /\ disk \in Disk /\ failures \in Nat
  BY DEF Types
<1>5. /\ mem' \in Mem /\ disk' \in Disk /\ disk'.mode = disk.mode
      /\ Settled(mem', disk', failures)
  BY <1>2, <1>3, <1>4, KeySynced
<1>6. Types'
  BY <1>1, <1>5, ForgetTypes DEF Types, Op
<1>7. IdleInv'
  BY <1>1, <1>3, <1>5, ForgetTypes DEF IdleInv, Locked
<1> QED
  BY <1>1, <1>6, <1>7 DEF IInv, Stages

(* Restarts. *)

\* The server ends and starts again.
LEMMA CleanRestartKeeps ==
    ASSUME Types, Stages, ~spoilt, CleanRestart
    PROVE  IInv'
<1>1. /\ op = "idle" /\ disk' = Synced(mem, disk) /\ mem' = Restored(disk')
      /\ UNCHANGED <<op, iter, victims, seen, before, erased, failures, spoilt>>
  BY DEF CleanRestart
<1>2. mem \in Mem /\ disk \in Disk /\ failures \in Nat
  BY DEF Types
<1>3. IdleInv
  BY <1>1 DEF Stages
<1>4. CASE ~Locked
  <2>1. Settled(mem, disk, failures) /\ victims = {} /\ erased = {}
    BY <1>3, <1>4 DEF IdleInv
  <2>2. disk' = disk
    BY <2>1, <1>1, <1>2, SettledSynced
  <2>3. Settled(mem', disk', failures)
    BY <2>1, <2>2, <1>1, <1>2, SettledRestarts
  <2>4. mem' \in Mem
    BY <2>2, <1>1, <1>2, RestoredFields
  <2>5. Types'
    BY <2>2, <2>4, <1>1 DEF Types, Op
  <2>6. IdleInv'
    BY <2>1, <2>2, <2>3, <1>1, <1>4 DEF IdleInv, Locked
  <2> QED
    BY <2>5, <2>6, <1>1 DEF IInv, Stages
<1>5. CASE Locked
  <2>1. ~mem.rowWriting /\ ~mem.synchronized
    BY <1>3, <1>5 DEF IdleInv
  <2>2. disk' = [disk EXCEPT !.position = <<mem.page, mem.row>>, !.pk = mem.pk]
    BY <2>1, <1>1 DEF Synced, RolledBack
  <2>3. <<mem.page, mem.row>> \in (0..(MaxKey + 1)) \X (0..RowsLimit) /\ mem.pk \in 0..MaxKey
    BY <1>2 DEF Mem
  <2>4. disk' \in Disk /\ disk'.mode = disk.mode
    BY <2>2, <2>3, <1>2 DEF Disk
  <2>5. mem' \in Mem /\ ~mem'.rowWriting /\ ~mem'.synchronized
    BY <2>4, <1>1, RestoredFields
  <2>6. Types'
    BY <2>4, <2>5, <1>1 DEF Types, Op
  <2>7. IdleInv'
    BY <2>4, <2>5, <1>1, <1>5 DEF IdleInv, Locked
  <2> QED
    BY <2>6, <2>7, <1>1 DEF IInv, Stages
<1> QED
  BY <1>4, <1>5

\* A table that is open for reading is settled.
LEMMA ReadSettled ==
    ASSUME ReadInv
    PROVE  Settled(mem, disk, failures) /\ victims = {} /\ erased = {}
  BY Windows, FreshScan DEF ReadInv

\* What the process finds when it starts again after a crash.
LEMMA CrashSettled ==
    ASSUME Types, Stages, op \in Op, ~Locked,
           op \in {"sync", "sync_key"} => disk = Synced(mem, disk)
    PROVE  Settled(Restored(disk), disk, failures)
<1>1. mem \in Mem /\ disk \in Disk /\ failures \in Nat
  BY DEF Types
<1>2. CASE op = "idle"
  BY <1>1, <1>2, SettledRestarts DEF Stages, IdleInv
<1>3. CASE op = "read"
  BY <1>1, <1>3, ReadSettled, SettledRestarts DEF Stages
<1>4. CASE op = "sync"
  BY <1>1, <1>4, FinishedRestarts DEF Stages, SyncInv
<1>5. CASE op = "sync_key"
  BY <1>1, <1>5, HalfSyncedRestarts DEF Stages, SyncKeyInv
<1>6. CASE op \in {"insert", "append", "release", "scan", "drain"}
  BY <1>6 DEF Stages, InsertInv, AppendInv, ReleaseInv, ScanInv, DrainInv
<1> QED
  BY <1>2, <1>3, <1>4, <1>5, <1>6 DEF Op

\* The server dies and starts again; what it dies in decides what it finds.
LEMMA CrashRestartKeeps ==
    ASSUME Types, Stages, ~spoilt, CrashRestart
    PROVE  IInv'
<1>1. /\ mem' = Restored(disk) /\ op' = "idle" /\ iter' = NoIter
      /\ spoilt' = (spoilt \/ (op \in {"sync", "sync_key"} /\ disk # Synced(mem, disk)))
      /\ (disk.mode = "writing" => UNCHANGED <<victims, seen, before, erased>>)
      /\ (disk.mode # "writing" => Forget)
      /\ UNCHANGED <<disk, failures>>
  BY DEF CrashRestart
<1>2. mem \in Mem /\ disk \in Disk /\ failures \in Nat /\ op \in Op
  BY DEF Types
<1>3. mem' \in Mem /\ ~mem'.rowWriting /\ ~mem'.synchronized
  BY <1>1, <1>2, RestoredFields
<1>4. /\ victims' \subseteq Row /\ erased' \subseteq Row
      /\ before' \in [rows : Seq(Row), pk : Nat] /\ seen' \in Seq(Row)
  <2>1. CASE disk.mode = "writing"
    BY <2>1, <1>1 DEF Types
  <2>2. CASE disk.mode # "writing"
    BY <2>2, <1>1, ForgetTypes
  <2> QED
    BY <2>1, <2>2
<1>5. Types'
  BY <1>1, <1>2, <1>3, <1>4, NoIterType DEF Types, Op
<1>6. ~spoilt' => IdleInv'
  <2> SUFFICES ASSUME ~spoilt' PROVE IdleInv'
    OBVIOUS
  <2>1. CASE Locked
    BY <2>1, <1>1, <1>3 DEF IdleInv, Locked
  <2>2. CASE ~Locked
    <3>1. op \in {"sync", "sync_key"} => disk = Synced(mem, disk)
      BY <1>1
    <3>2. Settled(Restored(disk), disk, failures)
      BY <2>2, <3>1, <1>2, CrashSettled
    <3>3. Settled(mem', disk', failures')
      BY <3>2, <1>1
    <3>4. victims' = {} /\ erased' = {}
      BY <2>2, <1>1, ForgetTypes DEF Locked
    <3> QED
      BY <2>2, <3>3, <3>4, <1>1 DEF IdleInv, Locked
  <2> QED
    BY <2>1, <2>2
<1> QED
  BY <1>1, <1>5, <1>6 DEF IInv, Stages

(* The steps of DELETE. *)

\* The action is the functions that ScanAdvances is about.
LEMMA AdvanceIs ==
    ASSUME disk \in Disk, Advance
    PROVE  /\ mem' = AdvancedMem(iter, mem) /\ disk' = AdvancedFiles(iter, disk)
           /\ iter' = AdvancedIter(iter, disk.pages)
<1> DEFINE i == Stepped(iter)
<1>1. CASE OnePageRead(i)
  <2>1. /\ disk' = [disk EXCEPT !.pages = UploadedPages(i, @)]
        /\ mem' = UploadedMem(i, mem)
        /\ iter' = NextPageLoad(Uploaded(i), disk'.pages)
    BY <1>1 DEF Advance, Stepped
  <2>2. AdvancedPages(iter, disk.pages) = UploadedPages(i, disk.pages)
    BY <1>1 DEF AdvancedPages
  <2>3. disk' = AdvancedFiles(iter, disk)
    BY <2>1, <2>2 DEF AdvancedFiles
  <2>4. disk'.pages = UploadedPages(i, disk.pages)
    BY <2>1 DEF Disk
  <2>5. iter' = AdvancedIter(iter, disk.pages)
    BY <2>1, <2>2, <2>4, <1>1 DEF AdvancedIter
  <2> QED
    BY <2>1, <2>3, <2>5, <1>1 DEF AdvancedMem
<1>2. CASE ~OnePageRead(i)
  <2>1. iter' = i /\ disk' = disk /\ mem' = mem
    BY <1>2 DEF Advance, Stepped
  <2>2. AdvancedPages(iter, disk.pages) = disk.pages
    BY <1>2 DEF AdvancedPages
  <2>3. AdvancedFiles(iter, disk) = disk
    <3>1. [disk EXCEPT !.pages = disk.pages] = disk
      BY DEF Disk
    <3> QED
      BY <3>1, <2>2 DEF AdvancedFiles
  <2> QED
    BY <2>1, <2>3, <1>2 DEF AdvancedMem, AdvancedIter
<1> QED
  BY <1>1, <1>2

\* A step of the iterator, in any state in which it runs.
LEMMA AdvanceScans ==
    ASSUME Types, NEW win \in Nat \ {0, 1},
           Scans(mem, disk, iter, before, erased, failures, win), ~AtEnd(iter), Advance,
           UNCHANGED <<before, erased, failures>>
    PROVE  /\ mem' \in Mem /\ disk' \in Disk /\ disk'.mode = disk.mode
           /\ iter' \in Iter /\ Shape(iter)'
           /\ Scans(mem', disk', iter', before', erased', failures', win)
           /\ iter'.deleted = iter.deleted
           /\ failures < RowsBefore(win) => Passed(iter') = Passed(iter) + 1
<1>1. mem \in Mem /\ disk \in Disk /\ failures \in Nat
  BY DEF Types
<1>2. /\ mem' = AdvancedMem(iter, mem) /\ disk' = AdvancedFiles(iter, disk)
      /\ iter' = AdvancedIter(iter, disk.pages)
  BY <1>1, AdvanceIs
<1>3. /\ mem' \in Mem /\ disk' \in Disk /\ disk'.mode = disk.mode
      /\ Scans(mem', disk', iter', before, erased, failures, win)
      /\ iter'.deleted = iter.deleted
      /\ failures < RowsBefore(win) => Passed(iter') = Passed(iter) + 1
  BY <1>1, <1>2, ScanAdvances
<1>4. iter' \in Iter /\ Shape(iter')
  BY <1>3 DEF Scans, Loads
<1> QED
  BY <1>3, <1>4

\* The rows treated, and the next.
LEMMA TreatedNext ==
    ASSUME NEW rows, NEW v, NEW p \in Nat
    PROVE  /\ Treated(rows, v, 0) = {}
           /\ rows[p + 1] \in v => Treated(rows, v, p + 1) = Treated(rows, v, p) \cup {rows[p + 1]}
           /\ rows[p + 1] \notin v => Treated(rows, v, p + 1) = Treated(rows, v, p)
<1>1. 1..0 = {}
  OBVIOUS
<1>2. \A j : j \in 1..(p + 1) <=> j \in 1..p \/ j = p + 1
  OBVIOUS
<1>3. {rows[j] : j \in 1..(p + 1)} = {rows[j] : j \in 1..p} \cup {rows[p + 1]}
  BY <1>2
<1> QED
  BY <1>1, <1>3 DEF Treated

\* The next is erased.
LEMMA TreatedErased ==
    ASSUME NEW rows, NEW v, NEW p, p \in Nat, rows[p + 1] \in v
    PROVE  Treated(rows, v, p + 1) = Treated(rows, v, p) \cup {rows[p + 1]}
  BY TreatedNext

\* How far the iterator can have come.
LEMMA PassedRange ==
    ASSUME Types, Scans(mem, disk, iter, before, erased, failures, MaxPageCnt),
           failures < RowsBefore(MaxPageCnt)
    PROVE  /\ Passed(iter) \in 0..Len(before.rows) /\ Passed(iter) \in Nat
           /\ Len(before.rows) \in Nat /\ before.rows \in Seq(Row)
           /\ Walks(iter, disk.pages, before.rows, failures, MaxPageCnt)
<1>1. Walks(iter, disk.pages, before.rows, failures, MaxPageCnt)
  BY DEF Scans
<1>2. Passed(iter) <= Len(before.rows) /\ before.rows \in Seq(Row)
  BY <1>1 DEF Walks, Cursor
<1>3. Passed(iter) \in Nat
  <2>1. iter \in Iter
    BY DEF Types
  <2> QED
    BY <2>1, IterNumbers
<1>4. Len(before.rows) \in Nat
  BY <1>2, LenProperties
<1> QED
  BY <1>1, <1>2, <1>3, <1>4

\* DELETE takes the lock and constructs its iterator.
LEMMA StartDeleteKeeps ==
    ASSUME Types, Stages, ~spoilt, StartDelete
    PROVE  IInv'
<1>1. /\ Lock("writing", "scan") /\ iter' = InitIter(disk.pages, mem.page)
      /\ victims' \in SUBSET ToSet(Contents) /\ erased' = {}
      /\ UNCHANGED <<mem, seen, failures, spoilt>>
  BY DEF StartDelete
<1>2. IdleInv
  BY <1>1 DEF Lock, Stages
<1>3. /\ op = "idle" /\ op' = "scan" /\ disk' \in Disk /\ disk'.mode = "writing"
      /\ disk'.pages = disk.pages
      /\ before' \in [rows : Seq(Row), pk : Nat]
      /\ before'.rows = Contents /\ before'.pk = mem.pk
      /\ Settled(mem, disk, failures) /\ Settled(mem, disk', failures)
  BY <1>1, <1>2, LockTakes
<1>4. mem \in Mem /\ disk \in Disk /\ failures \in Nat
  BY DEF Types
<1>5. /\ Scans(mem, disk', iter', before', {}, failures, MaxPageCnt)
      /\ failures < RowsBefore(MaxPageCnt) => Passed(iter') = 0
  BY <1>1, <1>3, <1>4, ScanStarts DEF Contents
<1>6. victims' \subseteq Row
  <2>1. Contents \in Seq(Row)
    BY <1>3, <1>4, SettledRows DEF Contents
  <2>2. \A j \in DOMAIN Contents : Contents[j] \in Row
    BY <2>1, ElementOfSeq
  <2> QED
    BY <2>2, <1>1 DEF ToSet
<1>7. iter' \in Iter /\ Shape(iter')
  BY <1>5 DEF Scans, Loads
<1>8. Types'
  BY <1>1, <1>3, <1>6, <1>7 DEF Types, Op
<1>9. failures = 0 => erased' = Treated(before'.rows, victims', Passed(iter'))
  <2>1. failures = 0 => Passed(iter') = 0
    BY <1>5, AheadPositive
  <2>2. Treated(before'.rows, victims', 0) = {}
    <3>1. 0 \in Nat
      OBVIOUS
    <3> QED
      BY <3>1, TreatedNext
  <2> QED
    BY <2>1, <2>2, <1>1
<1>10. victims' \subseteq {before'.rows[j] : j \in 1..Len(before'.rows)}
  <2>1. Contents \in Seq(Row)
    BY <1>3, <1>4, SettledRows DEF Contents
  <2>2. DOMAIN Contents = 1..Len(Contents)
    BY <2>1, LenProperties
  <2> QED
    BY <2>2, <1>1, <1>3 DEF ToSet
<1>11. ScanInv'
  BY <1>1, <1>3, <1>5, <1>9, <1>10 DEF ScanInv, Locked
<1> QED
  BY <1>1, <1>3, <1>8, <1>11 DEF IInv, Stages

\* ... or fails to, and lets the lock go.
LEMMA StartDeleteUnreadKeeps ==
    ASSUME Types, Stages, ~spoilt, StartDeleteUnread
    PROVE  IInv'
<1>1. /\ Lock("writing", "release")
      /\ UNCHANGED <<mem, iter, victims, seen, erased, failures, spoilt>>
  BY DEF StartDeleteUnread
<1>2. IdleInv
  BY <1>1 DEF Lock, Stages
<1>3. /\ op = "idle" /\ op' = "release" /\ disk' \in Disk /\ disk'.mode = "writing"
      /\ disk'.pages = disk.pages
      /\ before' \in [rows : Seq(Row), pk : Nat]
      /\ before'.rows = Contents /\ before'.pk = mem.pk
      /\ Settled(mem, disk', failures) /\ victims = {} /\ erased = {}
  BY <1>1, <1>2, LockTakes
<1>4. mem \in Mem /\ failures \in Nat
  BY DEF Types
<1>5. Types'
  BY <1>1, <1>3 DEF Types, Op
<1>6. Finished(mem, disk', failures)
  <2>1. mem.rowWriting => failures > 0
    BY <1>3, <1>4 DEF Settled
  <2> QED
    BY <2>1, <1>3, <1>4, SettledFinished
<1>7. Outcome(mem', disk', before', victims', erased')
  BY <1>1, <1>3 DEF Outcome, Contents
<1>8. ReleaseInv'
  BY <1>1, <1>3, <1>6, <1>7 DEF ReleaseInv, Locked
<1> QED
  BY <1>1, <1>3, <1>5, <1>8 DEF IInv, Stages

\* The condition does not hold: next().
LEMMA KeepRowKeeps ==
    ASSUME Types, Stages, ~spoilt, KeepRow
    PROVE  IInv'
<1>1. /\ op = "scan" /\ ~AtEnd(iter) /\ Current \notin victims /\ Advance
      /\ UNCHANGED <<op, victims, seen, before, erased, failures, spoilt>>
  BY DEF KeepRow, Scanning
<1>2. /\ Locked /\ Scans(mem, disk, iter, before, erased, failures, MaxPageCnt)
      /\ victims \subseteq {before.rows[j] : j \in 1..Len(before.rows)}
      /\ failures = 0 => erased = Treated(before.rows, victims, Passed(iter))
  BY <1>1 DEF Stages, ScanInv
<1>3. /\ mem' \in Mem /\ disk' \in Disk /\ disk'.mode = disk.mode
      /\ iter' \in Iter /\ Shape(iter)'
      /\ Scans(mem', disk', iter', before', erased', failures', MaxPageCnt)
      /\ failures < RowsBefore(MaxPageCnt) => Passed(iter') = Passed(iter) + 1
  BY <1>1, <1>2, Windows, AdvanceScans
<1>4. Types'
  BY <1>1, <1>3 DEF Types, Op
<1>5. failures = 0 => erased' = Treated(before'.rows, victims', Passed(iter'))
  <2> SUFFICES ASSUME failures = 0
               PROVE  erased' = Treated(before'.rows, victims', Passed(iter'))
    OBVIOUS
  <2>1. failures < RowsBefore(MaxPageCnt)
    BY AheadPositive
  <2>2. Passed(iter) \in Nat /\ Walks(iter, disk.pages, before.rows, failures, MaxPageCnt)
    BY <2>1, <1>2, PassedRange
  <2>3. before.rows[Passed(iter) + 1] \notin victims
    BY <2>2, <1>1, Windows, CursorOnRow DEF Current
  <2>4. Treated(before.rows, victims, Passed(iter) + 1) = Treated(before.rows, victims, Passed(iter))
    BY <2>2, <2>3, TreatedNext
  <2> QED
    BY <2>1, <2>4, <1>1, <1>2, <1>3
<1>6. ScanInv'
  BY <1>1, <1>2, <1>3, <1>5 DEF ScanInv, Locked
<1> QED
  BY <1>1, <1>4, <1>6 DEF IInv, Stages

\* erase() has the types of memory, files and rows.
LEMMA EraseTypes ==
    ASSUME Types, Scans(mem, disk, iter, before, erased, failures, MaxPageCnt), ~AtEnd(iter),
           EraseRow
    PROVE  /\ mem' = ErasedMem(iter, mem) /\ mem' \in Mem /\ disk' = disk
           /\ erased' = erased \cup {Current} /\ erased' \subseteq Row
<1>1. mem' = ErasedMem(iter, mem) /\ erased' = erased \cup {Current} /\ disk' = disk
  BY DEF EraseRow, ErasedMem, Current
<1>2. mem \in Mem /\ iter \in Iter /\ Shape(iter) /\ iter.cnt <= MaxKey + 1
  BY DEF Types, Scans
<1>3. erased' \subseteq Row
  <2>1. iter.cur \in 1..Len(iter.rows) /\ iter.rows \in Seq(Row)
    BY <1>2, LenProperties DEF AtEnd, Iter
  <2>2. Current \in Row
    BY <2>1, ElementOfSeq DEF Current
  <2> QED
    BY <2>2, <1>1 DEF Types
<1>4. mem' \in Mem
  <2>1. CASE iter.deleted = 0
    <3>1. iter.page \in Nat \ {0} /\ iter.cnt \in Nat /\ iter.page <= iter.cnt + 1
      BY <1>2 DEF Iter, Shape
    <3>2. iter.page - 1 \in 0..(MaxKey + 1) /\ RowsLimit \in 0..RowsLimit
      BY <3>1, <1>2, BoundsNat, RowsLimitPositive
    <3> QED
      BY <2>1, <3>2, <1>1, <1>2, SetPositionFields DEF ErasedMem
  <2>2. CASE iter.deleted # 0
    BY <2>2, <1>1, <1>2 DEF ErasedMem
  <2> QED
    BY <2>1, <2>2
<1> QED
  BY <1>1, <1>3, <1>4

\* The row erased is the next one treated.
LEMMA ErasedNext ==
    ASSUME Types, ScanInv, failures = 0, ~AtEnd(iter), Current \in victims
    PROVE  /\ Passed(iter) \in Nat /\ Passed(iter) + 1 <= Len(before.rows)
           /\ erased \cup {Current} = Treated(before.rows, victims, Passed(iter) + 1)
<1>1. /\ Scans(mem, disk, iter, before, erased, 0, MaxPageCnt)
      /\ erased = Treated(before.rows, victims, Passed(iter))
      /\ mem \in Mem /\ disk \in Disk /\ iter \in Iter
  BY DEF ScanInv, Types
<1>2. Current = before.rows[Passed(iter) + 1] /\ Passed(iter) + 1 <= Len(before.rows)
  <2>1. iter.rows[iter.cur] = before.rows[Passed(iter) + 1] /\ Passed(iter) + 1 <= Len(before.rows)
    BY <1>1, Windows, ScanErases, ZenonT(30)
  <2> QED
    BY <2>1 DEF Current
<1>3. Passed(iter) \in Nat
  BY <1>1, IterNumbers
<1>4. before.rows[Passed(iter) + 1] \in victims
  BY <1>2
<1>5. Treated(before.rows, victims, Passed(iter) + 1)
        = Treated(before.rows, victims, Passed(iter)) \cup {before.rows[Passed(iter) + 1]}
  BY <1>3, <1>4, TreatedErased
<1> QED
  BY <1>1, <1>2, <1>3, <1>5

\* The condition holds: erase().
LEMMA DeleteRowKeeps ==
    ASSUME Types, Stages, ~spoilt, DeleteRow
    PROVE  IInv'
<1>1. /\ op = "scan" /\ ~AtEnd(iter) /\ Current \in victims /\ Erase /\ EraseRow
      /\ spoilt' = (spoilt \/ failures > 0)
      /\ UNCHANGED <<op, victims, seen, before, failures>>
  BY DEF DeleteRow, Scanning, Erase
<1>2. ScanInv
  BY <1>1 DEF Stages
<1>3. Locked /\ Scans(mem, disk, iter, before, erased, failures, MaxPageCnt)
  BY <1>2 DEF ScanInv
<1>4. /\ mem' = ErasedMem(iter, mem) /\ mem' \in Mem /\ disk' = disk
      /\ erased' = erased \cup {Current} /\ erased' \subseteq Row
  BY <1>1, <1>3, EraseTypes
<1>5. iter' = ErasedIter(iter, disk.pages)
  BY <1>1 DEF Erase, ErasedIter
<1>6. mem \in Mem /\ disk \in Disk /\ failures \in Nat /\ iter \in Iter
  BY DEF Types
<1>7. iter' \in Iter /\ Shape(iter')
  <2>1. Loads(iter, disk.pages)
    BY <1>3 DEF Scans
  <2> QED
    BY <2>1, <1>1, <1>5, EraseType DEF Loads
<1>8. Types'
  <2>1. spoilt' \in BOOLEAN
    BY <1>1 DEF Types
  <2> QED
    BY <2>1, <1>1, <1>4, <1>7 DEF Types, Op
<1>9. CASE failures = 0
  <2>1. Scans(mem, disk, iter, before, erased, 0, MaxPageCnt)
    BY <1>3, <1>9
  <2>2. /\ Scans(ErasedMem(iter, mem), disk, ErasedIter(iter, disk.pages), before,
                 erased \cup {iter.rows[iter.cur]}, 0, MaxPageCnt)
        /\ Passed(ErasedIter(iter, disk.pages)) = Passed(iter) + 1
    BY <2>1, <1>1, <1>6, Windows, ScanErases, ZenonT(30)
  <2>3. Scans(mem', disk', iter', before', erased', failures', MaxPageCnt)
    BY <2>2, <1>1, <1>4, <1>5, <1>9 DEF Current
  <2>4. erased' = Treated(before'.rows, victims', Passed(iter'))
    BY <2>2, <1>1, <1>2, <1>4, <1>5, <1>9, ErasedNext
  <2>5. ScanInv'
    BY <2>3, <2>4, <1>1, <1>2, <1>4 DEF ScanInv, Locked
  <2>6. ~spoilt'
    <3>1. ~(failures > 0)
      BY <1>9
    <3> QED
      BY <3>1, <1>1
  <2> QED
    BY <2>5, <2>6, <1>1, <1>8 DEF IInv, Stages
<1>10. CASE failures # 0
  <2>1. failures > 0
    BY <1>6, <1>10
  <2>2. spoilt' /\ failures' > 0 /\ op' = "scan"
    BY <2>1, <1>1
  <2> QED
    BY <2>2, <1>8 DEF IInv
<1> QED
  BY <1>9, <1>10

\* next() when the page it is to bring cannot be read.
LEMMA KeepRowUnreadKeeps ==
    ASSUME Types, Stages, ~spoilt, KeepRowUnread
    PROVE  IInv'
<1>1. /\ op = "scan" /\ ~AtEnd(iter) /\ iter.deleted > 0 /\ AdvanceUnread
      /\ op' = "drain" /\ victims' = erased
      /\ UNCHANGED <<seen, before, erased, failures, spoilt>>
  BY DEF KeepRowUnread, Scanning
<1>2. Locked /\ Scans(mem, disk, iter, before, erased, failures, MaxPageCnt)
  BY <1>1 DEF Stages, ScanInv
<1>3. mem \in Mem /\ disk \in Disk /\ iter \in Iter /\ failures = 0
  BY <1>1, <1>2, Windows, DeletingScan DEF Types
<1>4. /\ OnePageRead(Stepped(iter)) /\ iter.loaded < iter.cnt
      /\ mem' = AdvancedMem(iter, mem) /\ disk' = AdvancedFiles(iter, disk)
      /\ iter' = UnreadIter(iter)
  <2> DEFINE i == [iter EXCEPT !.cur = @ + 1, !.read = @ + 1]
  <2>1. i = Stepped(iter) /\ i.loaded = iter.loaded /\ i.cnt = iter.cnt
    BY <1>3 DEF Stepped, Iter
  <2>2. /\ OnePageRead(i) /\ i.loaded < i.cnt
        /\ disk' = [disk EXCEPT !.pages = UploadedPages(i, disk.pages)]
        /\ mem' = UploadedMem(i, mem) /\ iter' = Uploaded(i)
    BY <1>1 DEF AdvanceUnread, Unread
  <2> HIDE DEF i
  <2>3. AdvancedPages(iter, disk.pages) = UploadedPages(i, disk.pages)
    BY <2>1, <2>2 DEF AdvancedPages
  <2> QED
    BY <2>1, <2>2, <2>3 DEF AdvancedMem, AdvancedFiles, UnreadIter
<1>5. /\ mem' \in Mem /\ disk' \in Disk /\ disk'.mode = disk.mode
      /\ Scans(mem', disk', iter', before, erased, 0, MaxPageCnt - 1)
      /\ iter'.deleted = iter.deleted
  <2>1. Scans(mem, disk, iter, before, erased, 0, MaxPageCnt)
    BY <1>2, <1>3
  <2> QED
    BY <2>1, <1>1, <1>3, <1>4, Windows, ScanStops
<1>6. iter' \in Iter /\ Shape(iter')
  BY <1>5 DEF Scans, Loads
<1>7. Types'
  BY <1>1, <1>5, <1>6 DEF Types, Op
<1>8. DrainInv'
  BY <1>1, <1>2, <1>3, <1>5 DEF DrainInv, Locked
<1> QED
  BY <1>1, <1>7, <1>8 DEF IInv, Stages

\* erase() when the page it is to bring cannot be read.
LEMMA DeleteRowUnreadKeeps ==
    ASSUME Types, Stages, ~spoilt, DeleteRowUnread
    PROVE  IInv'
<1>1. /\ op = "scan" /\ ~AtEnd(iter) /\ EraseRow
      /\ OnePageDeleted(Removed(iter)) /\ iter.loaded < iter.cnt /\ iter' = Removed(iter)
      /\ op' = "drain" /\ victims' = erased'
      /\ spoilt' = (spoilt \/ failures > 0)
      /\ UNCHANGED <<seen, before, failures>>
  BY DEF DeleteRowUnread, Scanning, EraseUnread, Unread
<1>2. Locked /\ Scans(mem, disk, iter, before, erased, failures, MaxPageCnt)
  BY <1>1 DEF Stages, ScanInv
<1>3. /\ mem' = ErasedMem(iter, mem) /\ mem' \in Mem /\ disk' = disk
      /\ erased' = erased \cup {Current} /\ erased' \subseteq Row
  BY <1>1, <1>2, EraseTypes
<1>4. mem \in Mem /\ disk \in Disk /\ failures \in Nat
  BY DEF Types
<1>5. iter' \in Iter /\ Shape(iter')
  <2>1. Loads(iter, disk.pages)
    BY <1>2 DEF Scans
  <2> QED
    BY <2>1, <1>1, RemovedType DEF Loads
<1>6. Types'
  <2>1. spoilt' \in BOOLEAN
    BY <1>1 DEF Types
  <2> QED
    BY <2>1, <1>1, <1>3, <1>5 DEF Types, Op
<1>7. CASE failures = 0
  <2>1. Scans(mem, disk, iter, before, erased, 0, MaxPageCnt)
    BY <1>2, <1>7
  <2>2. /\ Scans(ErasedMem(iter, mem), disk, Removed(iter), before,
                 erased \cup {iter.rows[iter.cur]}, 0, MaxPageCnt - 1)
        /\ Removed(iter).deleted > 0
    BY <2>1, <1>1, <1>4, Windows, ScanErasesUnread, ZenonT(30)
  <2>3. Scans(mem', disk', iter', before', erased', failures', MaxPageCnt - 1)
    BY <2>2, <1>1, <1>3, <1>7 DEF Current
  <2>4. DrainInv'
    BY <2>2, <2>3, <1>1, <1>2, <1>3 DEF DrainInv, Locked
  <2>5. ~spoilt'
    <3>1. ~(failures > 0)
      BY <1>7
    <3> QED
      BY <3>1, <1>1
  <2> QED
    BY <2>4, <2>5, <1>1, <1>6 DEF IInv, Stages
<1>8. CASE failures # 0
  <2>1. failures > 0
    BY <1>4, <1>8
  <2>2. spoilt' /\ failures' > 0 /\ op' = "drain"
    BY <2>1, <1>1
  <2> QED
    BY <2>2, <1>6 DEF IInv
<1> QED
  BY <1>7, <1>8

\* A page cannot be read and nothing was erased.
LEMMA ScanUnreadKeeps ==
    ASSUME Types, Stages, ~spoilt, ScanUnread
    PROVE  IInv'
<1>1. /\ op = "scan" /\ iter.deleted = 0 /\ iter' = NoIter /\ op' = "release" /\ victims' = {}
      /\ UNCHANGED <<mem, disk, seen, before, erased, failures, spoilt>>
  BY DEF ScanUnread, Scanning
<1>2. Locked /\ Scans(mem, disk, iter, before, erased, failures, MaxPageCnt)
  BY <1>1 DEF Stages, ScanInv
<1>3. mem \in Mem /\ disk \in Disk /\ failures \in Nat
  BY DEF Types
<1>4. Types'
  BY <1>1, NoIterType DEF Types, Op
<1>5. /\ Finished(mem, disk, failures)
      /\ Rows(disk.pages, 1, mem.page) = before.rows /\ mem.pk = before.pk
  BY <1>1, <1>2, <1>3, Windows, FreshEnds
<1>6. ReleaseInv'
  BY <1>1, <1>2, <1>5 DEF ReleaseInv, Outcome, Locked
<1> QED
  BY <1>1, <1>4, <1>6 DEF IInv, Stages

\* reset() is the functions that DeletingEnds is about.
LEMMA ResetIs ==
    ASSUME disk \in Disk, iter \in Iter, ResetPages
    PROVE  mem' = ResetMem(iter, mem) /\ disk' = ResetFiles(iter, disk)
<1>1. CASE iter.deleted = 0
  <2>1. ~(iter.deleted > 0)
    BY <1>1
  <2> QED
    BY <2>1, <1>1 DEF ResetPages, ResetMem, ResetFiles
<1>2. CASE iter.deleted # 0
  <2>1. iter.deleted > 0
    BY <1>2 DEF Iter
  <2>2. CASE iter.rows # <<>>
    <3>1. /\ disk' = [disk EXCEPT !.pages = PagesLeft(Uploaded(iter), UploadedPages(iter, disk.pages))]
          /\ mem' = UploadedMem(iter, mem)
      BY <1>2, <2>2 DEF ResetPages
    <3> QED
      BY <3>1, <2>1, <2>2, <1>2 DEF ResetMem, ResetFiles, ResetTo
  <2>3. CASE iter.rows = <<>>
    <3>1. disk' = [disk EXCEPT !.pages = PagesLeft(iter, disk.pages)] /\ mem' = mem
      BY <1>2, <2>3 DEF ResetPages
    <3> QED
      BY <3>1, <2>1, <2>3, <1>2 DEF ResetMem, ResetFiles, ResetTo
  <2> QED
    BY <2>2, <2>3
<1> QED
  BY <1>1, <1>2

\* What is erased when the scan is at its end.
LEMMA ScanErased ==
    ASSUME Types, ScanInv, failures = 0, AtEnd(iter)
    PROVE  erased = victims
<1>1. /\ Scans(mem, disk, iter, before, erased, failures, MaxPageCnt)
      /\ erased = Treated(before.rows, victims, Passed(iter))
      /\ victims \subseteq {before.rows[j] : j \in 1..Len(before.rows)}
  BY DEF ScanInv
<1>2. Walks(iter, disk.pages, before.rows, failures, MaxPageCnt)
  BY <1>1, AheadPositive, PassedRange
<1>3. Passed(iter) = Len(before.rows)
  BY <1>2, Windows, CursorAtEnd
<1> QED
  BY <1>1, <1>3 DEF Treated

\* The destructor goes through the rows that are left.
LEMMA DrainKeeps ==
    ASSUME Types, Stages, ~spoilt, Drain
    PROVE  IInv'
<1>1. /\ op = "drain" /\ ~AtEnd(iter) /\ Advance
      /\ UNCHANGED <<op, victims, seen, before, erased, failures, spoilt>>
  BY DEF Drain
<1>2. /\ Locked /\ Scans(mem, disk, iter, before, erased, failures, MaxPageCnt - 1)
      /\ iter.deleted > 0 /\ erased = victims
  BY <1>1 DEF Stages, DrainInv
<1>3. /\ mem' \in Mem /\ disk' \in Disk /\ disk'.mode = disk.mode
      /\ iter' \in Iter /\ Shape(iter)'
      /\ Scans(mem', disk', iter', before', erased', failures', MaxPageCnt - 1)
      /\ iter'.deleted = iter.deleted
  BY <1>1, <1>2, Windows, AdvanceScans
<1>4. Types'
  BY <1>1, <1>3 DEF Types, Op
<1>5. DrainInv'
  BY <1>1, <1>2, <1>3 DEF DrainInv, Locked
<1> QED
  BY <1>1, <1>4, <1>5 DEF IInv, Stages

\* reset() after the last row.
LEMMA EndDeleteKeeps ==
    ASSUME Types, Stages, ~spoilt, EndDelete
    PROVE  IInv'
<1>1. /\ op \in {"scan", "drain"} /\ AtEnd(iter) /\ ResetPages /\ iter' = NoIter /\ op' = "release"
      /\ UNCHANGED <<victims, seen, before, erased, failures, spoilt>>
  BY DEF EndDelete
<1>2. mem \in Mem /\ disk \in Disk /\ failures \in Nat /\ iter \in Iter
  BY DEF Types
<1>3. mem' = ResetMem(iter, mem) /\ disk' = ResetFiles(iter, disk)
  BY <1>1, <1>2, ResetIs
<1>4. /\ Locked
      /\ \E win \in {MaxPageCnt, MaxPageCnt - 1} :
             Scans(mem, disk, iter, before, erased, failures, win)
  BY <1>1 DEF Stages, ScanInv, DrainInv
<1> PICK win \in {MaxPageCnt, MaxPageCnt - 1} :
             Scans(mem, disk, iter, before, erased, failures, win)
  BY <1>4
<1>0. win \in Nat \ {0, 1}
  BY Windows
<1>7. failures = 0 => erased = victims
  <2>1. CASE op = "scan"
    BY <2>1, <1>1, ScanErased DEF Stages
  <2>2. CASE op = "drain"
    BY <2>2 DEF Stages, DrainInv
  <2> QED
    BY <2>1, <2>2, <1>1
<1>5. CASE iter.deleted = 0
  <2>1. /\ mem' = mem /\ disk' = disk /\ Finished(mem, disk, failures)
        /\ Rows(disk.pages, 1, mem.page) = before.rows /\ mem.pk = before.pk
    BY <1>0, <1>2, <1>3, <1>5, FreshEnds
  <2>2. Types'
    BY <2>1, <1>1, NoIterType DEF Types, Op
  <2>3. failures = 0 => victims = {}
    BY <1>0, <1>5, <1>7, FreshScan
  <2>4. ReleaseInv'
    BY <2>1, <2>3, <1>1, <1>4 DEF ReleaseInv, Outcome, Locked
  <2> QED
    BY <2>2, <2>4, <1>1 DEF IInv, Stages
<1>6. CASE iter.deleted # 0
  <2>1. iter.deleted > 0
    BY <1>2, <1>6 DEF Iter
  <2>2. failures = 0
    BY <1>0, <2>1, DeletingScan
  <2>3. erased = victims
    BY <2>2, <1>7
  <2>4. /\ mem' \in Mem /\ disk' \in Disk /\ disk'.mode = disk.mode
        /\ Finished(mem', disk', failures)
        /\ Rows(disk'.pages, 1, mem'.page) = Without(before.rows, erased)
        /\ mem'.pk = before.pk
    BY <1>0, <2>1, <1>1, <1>2, <1>3, DeletingEnds
  <2>5. Types'
    BY <2>4, <1>1, NoIterType DEF Types, Op
  <2>6. Outcome(mem', disk', before', victims', erased')
    BY <2>3, <2>4, <1>1 DEF Outcome
  <2>7. ReleaseInv'
    BY <2>4, <2>6, <1>1, <1>4 DEF ReleaseInv, Locked
  <2> QED
    BY <2>5, <2>7, <1>1 DEF IInv, Stages
<1> QED
  BY <1>5, <1>6

(* The steps of SELECT. *)

\* A fresh reading iterator.
LEMMA FreshRead ==
    ASSUME NEW m, m \in Mem, NEW d, d \in Disk, NEW short \in Nat, NEW b,
           Settled(m, d, short), b.rows = Rows(d.pages, 1, m.page), b.pk = m.pk
    PROVE  LET i == InitIter(d.pages, m.page) IN
           /\ i \in Iter /\ Shape(i) /\ i.deleted = 0 /\ Scans(m, d, i, b, {}, short, MaxPageCnt)
           /\ short < RowsBefore(MaxPageCnt) => <<>> = SubSeq(b.rows, 1, Passed(i))
<1> DEFINE i == InitIter(d.pages, m.page)
<1>1. /\ Scans(m, d, i, b, {}, short, MaxPageCnt) /\ i.deleted = 0
      /\ short < RowsBefore(MaxPageCnt) => Passed(i) = 0
  BY ScanStarts
<1>2. SubSeq(b.rows, 1, 0) = <<>>
  OBVIOUS
<1> HIDE DEF i
<1>3. i \in Iter /\ Shape(i)
  BY <1>1 DEF Scans, Loads
<1> QED
  BY <1>1, <1>2, <1>3 DEF i

\* SELECT takes the lock and constructs its iterator.
LEMMA StartReadKeeps ==
    ASSUME Types, Stages, ~spoilt, StartRead
    PROVE  IInv'
<1>1. /\ Lock("reading", "read") /\ iter' = InitIter(disk.pages, mem.page) /\ seen' = <<>>
      /\ UNCHANGED <<mem, victims, erased, failures, spoilt>>
  BY DEF StartRead
<1>2. IdleInv
  BY <1>1 DEF Lock, Stages
<1>3. /\ op = "idle" /\ op' = "read" /\ disk' \in Disk /\ disk'.mode = "reading"
      /\ disk'.pages = disk.pages
      /\ before' \in [rows : Seq(Row), pk : Nat]
      /\ before'.rows = Contents /\ before'.pk = mem.pk
      /\ Settled(mem, disk', failures) /\ victims = {} /\ erased = {}
  BY <1>1, <1>2, LockTakes
<1>4. mem \in Mem /\ failures \in Nat
  BY DEF Types
<1>5. /\ iter' \in Iter /\ Shape(iter') /\ iter'.deleted = 0
      /\ Scans(mem, disk', iter', before', {}, failures, MaxPageCnt)
      /\ failures < RowsBefore(MaxPageCnt) => <<>> = SubSeq(before'.rows, 1, Passed(iter'))
  <2>1. before'.rows = Rows(disk'.pages, 1, mem.page) /\ iter' = InitIter(disk'.pages, mem.page)
    BY <1>1, <1>3 DEF Contents
  <2> QED
    BY <2>1, <1>3, <1>4, FreshRead
<1>6. seen' \in Seq(Row)
  BY <1>1, EmptySeq
<1>7. Types'
  BY <1>1, <1>3, <1>5, <1>6 DEF Types, Op
<1>8. ReadInv'
  BY <1>1, <1>3, <1>5 DEF ReadInv
<1> QED
  BY <1>1, <1>3, <1>7, <1>8 DEF IInv, Stages

\* SELECT reads a row.
LEMMA ReadRowKeeps ==
    ASSUME Types, Stages, ~spoilt, ReadRow
    PROVE  IInv'
<1>1. /\ op = "read" /\ ~AtEnd(iter) /\ seen' = Append(seen, Current) /\ Advance
      /\ UNCHANGED <<op, victims, before, erased, failures, spoilt>>
  BY DEF ReadRow
<1>2. /\ disk.mode = "reading" /\ Scans(mem, disk, iter, before, erased, failures, MaxPageCnt)
      /\ iter.deleted = 0 /\ victims = {} /\ erased = {}
      /\ failures < RowsBefore(MaxPageCnt) => seen = SubSeq(before.rows, 1, Passed(iter))
  BY <1>1 DEF Stages, ReadInv
<1>3. /\ mem' \in Mem /\ disk' \in Disk /\ disk'.mode = disk.mode
      /\ iter' \in Iter /\ Shape(iter)'
      /\ Scans(mem', disk', iter', before', erased', failures', MaxPageCnt)
      /\ iter'.deleted = iter.deleted
      /\ failures < RowsBefore(MaxPageCnt) => Passed(iter') = Passed(iter) + 1
  BY <1>1, <1>2, Windows, AdvanceScans
<1>4. seen' \in Seq(Row)
  <2>1. iter \in Iter /\ seen \in Seq(Row)
    BY DEF Types
  <2>2. iter.cur \in 1..Len(iter.rows) /\ iter.rows \in Seq(Row)
    BY <2>1, <1>1, LenProperties DEF AtEnd, Iter
  <2>3. Current \in Row
    BY <2>2, ElementOfSeq DEF Current
  <2> QED
    BY <2>1, <2>3, <1>1, AppendProperties
<1>5. Types'
  BY <1>1, <1>3, <1>4 DEF Types, Op
<1>6. failures < RowsBefore(MaxPageCnt) => seen' = SubSeq(before.rows, 1, Passed(iter) + 1)
  <2> SUFFICES ASSUME failures < RowsBefore(MaxPageCnt)
               PROVE  seen' = SubSeq(before.rows, 1, Passed(iter) + 1)
    OBVIOUS
  <2> DEFINE p == Passed(iter)
             rows == before.rows
  <2>1. /\ p \in Nat /\ Len(rows) \in Nat /\ rows \in Seq(Row)
        /\ Walks(iter, disk.pages, rows, failures, MaxPageCnt)
    BY <1>2, PassedRange
  <2>2. p < Len(rows) /\ Current = rows[p + 1]
    BY <2>1, <1>1, Windows, CursorOnRow DEF Current
  <2>3. seen = SubSeq(rows, 1, p) /\ seen \in Seq(Row)
    BY <1>2 DEF Types
  <2> HIDE DEF p, rows
  <2>4. 1 \in 1..Len(rows) /\ p + 1 <= Len(rows) /\ 1 <= p + 1
    BY <2>1, <2>2
  <2>5. SubSeq(rows, 1, p) \o <<rows[p + 1]>> = SubSeq(rows, 1, p + 1)
    BY <2>1, <2>4, SubSeqBack
  <2>6. Append(seen, Current) = seen \o <<Current>>
    <3>1. Current \in Row /\ seen \in Seq(Row)
      BY <2>1, <2>2, <2>3, <2>4, ElementOfSeq
    <3> QED
      BY <3>1, AppendIsConcat
  <2> QED
    BY <2>2, <2>3, <2>5, <2>6, <1>1 DEF p, rows
<1>7. ReadInv'
  BY <1>1, <1>2, <1>3, <1>6 DEF ReadInv
<1> QED
  BY <1>1, <1>5, <1>7 DEF IInv, Stages

\* reset() of a reading iterator begins again.
LEMMA RestartReadKeeps ==
    ASSUME Types, Stages, ~spoilt, RestartRead
    PROVE  IInv'
<1>1. /\ op = "read" /\ iter' = InitIter(disk.pages, mem.page) /\ seen' = <<>>
      /\ UNCHANGED <<mem, disk, op, victims, before, erased, failures, spoilt>>
  BY DEF RestartRead
<1>2. /\ disk.mode = "reading" /\ Scans(mem, disk, iter, before, erased, failures, MaxPageCnt)
      /\ iter.deleted = 0 /\ victims = {} /\ erased = {}
  BY <1>1 DEF Stages, ReadInv
<1>3. Settled(mem, disk, failures) /\ Rows(disk.pages, 1, mem.page) = before.rows
  BY <1>2, Windows, FreshScan
<1>4. mem \in Mem /\ disk \in Disk /\ failures \in Nat /\ before.pk = mem.pk
  BY <1>2 DEF Types, Scans
<1>5. /\ iter' \in Iter /\ Shape(iter') /\ iter'.deleted = 0
      /\ Scans(mem, disk, iter', before, {}, failures, MaxPageCnt)
      /\ failures < RowsBefore(MaxPageCnt) => <<>> = SubSeq(before.rows, 1, Passed(iter'))
  BY <1>1, <1>3, <1>4, FreshRead
<1>6. seen' \in Seq(Row)
  BY <1>1, EmptySeq
<1>7. Types'
  BY <1>1, <1>5, <1>6 DEF Types, Op
<1>8. ReadInv'
  BY <1>1, <1>2, <1>5 DEF ReadInv
<1> QED
  BY <1>1, <1>7, <1>8 DEF IInv, Stages

\* The reader lets go of the lock file.
LEMMA EndReadKeeps ==
    ASSUME Types, Stages, ~spoilt, EndRead
    PROVE  IInv'
<1>1. /\ op = "read" /\ disk' = [disk EXCEPT !.mode = "free"] /\ iter' = NoIter /\ op' = "idle"
      /\ Forget /\ UNCHANGED <<mem, failures, spoilt>>
  BY DEF EndRead
<1>2. Settled(mem, disk, failures)
  BY <1>1, ReadSettled DEF Stages
<1>3. disk \in Disk
  BY DEF Types
<1>4. /\ disk' \in Disk /\ disk'.mode = "free" /\ disk'.pages = disk.pages
      /\ disk'.position = disk.position /\ disk'.pk = disk.pk
  BY <1>1, <1>3, ModeOnly
<1>5. Settled(mem, disk', failures)
  BY <1>2, <1>4, SameFiles
<1>6. Types'
  BY <1>1, <1>4, ForgetTypes, NoIterType DEF Types, Op
<1>7. IdleInv'
  BY <1>1, <1>4, <1>5, ForgetTypes DEF IdleInv, Locked
<1> QED
  BY <1>1, <1>6, <1>7 DEF IInv, Stages

-----------------------------------------------------------------------------
(* The theorems.                                                           *)

\* Every step keeps the invariant.
LEMMA NextKeeps ==
    ASSUME IInv, Next
    PROVE  IInv'
<1>1. ~spoilt /\ Types /\ Stages
  BY DEF Next, IInv
<1>2. CASE StartInsert
  BY <1>1, <1>2, StartInsertKeeps
<1>3. CASE StartDelete
  BY <1>1, <1>3, StartDeleteKeeps
<1>4. CASE WriterStep
  <2>1. CASE RejectInsert
    BY <1>1, <2>1, RejectInsertKeeps
  <2>2. CASE RowWritingStart
    BY <1>1, <2>2, RowWritingStartKeeps
  <2>3. CASE AppendRow
    BY <1>1, <2>3, AppendRowKeeps
  <2>4. CASE AppendFails
    BY <1>1, <2>4, AppendFailsKeeps
  <2>5. CASE KeepRow
    BY <1>1, <2>5, KeepRowKeeps
  <2>6. CASE DeleteRow
    BY <1>1, <2>6, DeleteRowKeeps
  <2>7. CASE KeepRowUnread
    BY <1>1, <2>7, KeepRowUnreadKeeps
  <2>14. CASE DeleteRowUnread
    BY <1>1, <2>14, DeleteRowUnreadKeeps
  <2>15. CASE ScanUnread
    BY <1>1, <2>15, ScanUnreadKeeps
  <2>8. CASE Drain
    BY <1>1, <2>8, DrainKeeps
  <2>9. CASE EndDelete
    BY <1>1, <2>9, EndDeleteKeeps
  <2>10. CASE WritingFinish
    BY <1>1, <2>10, WritingFinishKeeps
  <2>11. CASE SyncNothing
    BY <1>1, <2>11, SyncNothingKeeps
  <2>12. CASE SyncPosition
    BY <1>1, <2>12, SyncPositionKeeps
  <2>13. CASE SyncKey
    BY <1>1, <2>13, SyncKeyKeeps
  <2> QED
    BY <1>4, <2>1, <2>2, <2>3, <2>4, <2>5, <2>6, <2>7, <2>8, <2>9, <2>10, <2>11, <2>12, <2>13,
       <2>14, <2>15 DEF WriterStep
<1>5. CASE StartRead
  BY <1>1, <1>5, StartReadKeeps
<1>6. CASE ReadRow
  BY <1>1, <1>6, ReadRowKeeps
<1>7. CASE RestartRead
  BY <1>1, <1>7, RestartReadKeeps
<1>8. CASE EndRead
  BY <1>1, <1>8, EndReadKeeps
<1>9. CASE CleanRestart
  BY <1>1, <1>9, CleanRestartKeeps
<1>10. CASE CrashRestart
  BY <1>1, <1>10, CrashRestartKeeps
<1>11. CASE StartDeleteUnread
  BY <1>1, <1>11, StartDeleteUnreadKeeps
<1> QED
  BY <1>2, <1>3, <1>4, <1>5, <1>6, <1>7, <1>8, <1>9, <1>10, <1>11 DEF Next

\* The inductive invariant: in every state in which the table can be opened,
\* memory and files are as the point the operation is at says.
THEOREM Invariant == Spec => []IInv
<1>1. Init => IInv
  BY InitHolds
<1>2. IInv /\ [Next]_vars => IInv'
  <2> SUFFICES ASSUME IInv, [Next]_vars PROVE IInv'
    OBVIOUS
  <2>1. CASE Next
    BY <2>1, NextKeeps
  <2>2. CASE UNCHANGED vars
    <3>1. UNCHANGED <<mem, disk, op, iter, victims, seen, before, erased, failures, spoilt>>
      BY <2>2 DEF vars
    <3>2. Types'
      BY <3>1 DEF IInv, Types
    <3>3. Stages => Stages'
      BY <3>1 DEF Stages, IdleInv, InsertInv, AppendInv, ReleaseInv, SyncInv, SyncKeyInv, ScanInv,
                  DrainInv, ReadInv, Locked, Contents
    <3> QED
      BY <3>1, <3>2, <3>3 DEF IInv
  <2> QED
    BY <2>1, <2>2
<1> QED
  BY <1>1, <1>2, PTL DEF Spec

\* Memory, files and iterator have their types: the row of a position is at most
\* RowsLimit, its page at most one more than keys there are, and the cursor stays
\* within the list and the pages of the table (table_state.cpp,
\* iterator_by_rows_impl.cpp).
THEOREM TypeCorrect == Spec => []TypeOK
<1>1. IInv => TypeOK
  <2> SUFFICES ASSUME IInv PROVE TypeOK
    OBVIOUS
  <2>1. /\ mem \in Mem /\ disk \in Disk /\ op \in Op /\ iter \in Iter /\ Shape(iter)
        /\ victims \subseteq Row /\ erased \subseteq Row
    BY DEF IInv, Types
  <2>2. mem \in [page : 0..MaxKey + MaxFailures + 1, row : 0..RowsLimit, pk : 0..MaxKey,
                 rowWriting : BOOLEAN, synchronized : BOOLEAN]
    <3>1. 0..(MaxKey + 1) \subseteq 0..MaxKey + MaxFailures + 1
      BY BoundsNat
    <3> QED
      BY <2>1, <3>1 DEF Mem
  <2>3. disk.position \in (0..MaxKey + MaxFailures + 1) \X (0..RowsLimit)
    <3>1. 0..(MaxKey + 1) \subseteq 0..MaxKey + MaxFailures + 1
      BY BoundsNat
    <3>2. disk.position \in (0..(MaxKey + 1)) \X (0..RowsLimit)
      BY <2>1, DiskType
    <3> QED
      BY <3>1, <3>2
  <2>4. disk.pk \in 0..MaxKey /\ disk.mode \in {"free", "reading", "writing"}
    BY <2>1, DiskType
  <2>5. \A p \in DOMAIN disk.pages : disk.pages[p] \in Seq(Row)
    BY <2>1, DiskType, PagesType
  <2>6. iter.cur \in 1..Len(iter.rows) + 1 /\ iter.loaded <= iter.cnt /\ iter.page <= iter.cnt + 1
    BY <2>1, LenProperties DEF Iter, Shape
  <2> QED
    BY <2>1, <2>2, <2>3, <2>4, <2>5, <2>6 DEF TypeOK
<1> QED
  BY <1>1, Invariant, PTL

\* Between two operations, while no append has failed, the position is the last
\* row of the last page, every page before is full, there is no other page, and
\* the files say the same: for every page size, also after deletions have moved
\* rows between pages and after a crash (row_writing_start, sync,
\* current_page_upload, reset).
THEOREM PositionsMatch == Spec => []PositionMatches
<1>1. IInv => PositionMatches
  <2> SUFFICES ASSUME IInv, op = "idle", ~Locked, ~spoilt, failures = 0
               PROVE  /\ DOMAIN disk.pages = 1..mem.page
                      /\ \A p \in 1..mem.page :
                            Len(disk.pages[p]) = IF p < mem.page THEN RowsLimit ELSE mem.row
                      /\ mem.page = 0 => mem.row = RowsLimit
                      /\ disk.position = <<mem.page, mem.row>> /\ disk.pk = mem.pk
    BY DEF PositionMatches
  <2>1. Settled(mem, disk, 0) /\ mem \in Mem /\ disk \in Disk
    BY DEF IInv, Types, Stages, IdleInv
  <2>2. /\ DOMAIN disk.pages = 1..mem.page
        /\ disk.position = <<mem.page, mem.row>> /\ disk.pk = mem.pk
    BY <2>1 DEF Settled, Exact, FilesMatch
  <2>3. Good(disk.pages, mem.page, mem.row, mem.pk, 0)
    BY <2>1 DEF Settled
  <2>4. /\ disk.pages \in Pages /\ mem.page \in Nat /\ mem.row \in 0..RowsLimit /\ mem.pk \in Nat
    BY <2>1, MemType, DiskType
  <2> QED
    BY <2>2, <2>3, <2>4, GoodExact
<1> QED
  BY <1>1, Invariant, PTL

\* A table nobody writes to is good.
LEMMA UnlockedGood ==
    ASSUME Types, Stages, ~Locked
    PROVE  /\ Good(disk.pages, mem.page, mem.row, mem.pk, failures)
           /\ DOMAIN Contents = 1..Len(Contents)
<1>1. mem \in Mem /\ disk \in Disk /\ op \in Op
  BY DEF Types
<1>2. Good(disk.pages, mem.page, mem.row, mem.pk, failures)
  <2>1. CASE op = "idle"
    BY <2>1 DEF Stages, IdleInv, Settled
  <2>2. CASE op = "read"
    BY <2>2, ReadSettled DEF Stages, Settled
  <2>3. CASE op = "sync"
    BY <2>3 DEF Stages, SyncInv, Finished
  <2>4. CASE op = "sync_key"
    BY <2>4 DEF Stages, SyncKeyInv, HalfSynced
  <2>5. CASE op \in {"insert", "append", "release", "scan", "drain"}
    BY <2>5 DEF Stages, InsertInv, AppendInv, ReleaseInv, ScanInv, DrainInv
  <2> QED
    BY <2>1, <2>2, <2>3, <2>4, <2>5, <1>1 DEF Op
<1>3. 1..mem.page \subseteq DOMAIN disk.pages
  BY <1>2 DEF Good
<1>4. Contents \in Seq(Row)
  <2>1. disk.pages \in Pages /\ mem.page \in Nat /\ mem.page \in Int /\ mem.page <= mem.page
    BY <1>1, MemType, DiskType
  <2> QED
    BY <2>1, <1>3, FirstRows DEF Contents
<1> QED
  BY <1>2, <1>4, LenProperties

\* When nobody writes, the keys of the rows ascend and none is above the last
\* key given: no key is given twice, whatever appends fail, rows are deleted or
\* processes die, unless the table is spoilt.
THEOREM KeysAscend == Spec => []KeysIncrease
<1>1. IInv => KeysIncrease
  <2> SUFFICES ASSUME IInv, ~Locked, ~spoilt
               PROVE  /\ \A i, j \in DOMAIN Contents : i < j => Contents[i] < Contents[j]
                      /\ \A i \in DOMAIN Contents : Contents[i] <= mem.pk
    BY DEF KeysIncrease
  <2>1. Types /\ Stages
    BY DEF IInv
  <2>2. Good(disk.pages, mem.page, mem.row, mem.pk, failures) /\ DOMAIN Contents = 1..Len(Contents)
    BY <2>1, UnlockedGood
  <2>3. Ascending(Contents) /\ UpTo(Contents, mem.pk)
    BY <2>2 DEF Good, Contents
  <2> QED
    BY <2>2, <2>3 DEF Ascending, UpTo
<1> QED
  BY <1>1, Invariant, PTL

\* While a DELETE rewrites the table in place, the pages written, its list in
\* memory and the pages not loaded are together the rows it has not erased, in
\* their order; and its cursor is at the end only when every page is loaded.
THEOREM NothingIsLost == Spec => []NothingLostInFlight
<1>1. IInv => NothingLostInFlight
  <2> SUFFICES ASSUME IInv, op \in {"scan", "drain"}, failures = 0
               PROVE  /\ Rows(disk.pages, 1, iter.page - 1) \o iter.rows
                            \o Rows(disk.pages, iter.loaded + 1, iter.cnt)
                            = Without(before.rows, erased)
                      /\ AtEnd(iter) => iter.loaded = iter.cnt
    BY DEF NothingLostInFlight
  <2>0. Stages
    <3>1. ~spoilt
      BY DEF IInv
    <3> QED
      BY <3>1 DEF IInv
  <2>1. PICK win \in {MaxPageCnt, MaxPageCnt - 1} : Scans(mem, disk, iter, before, erased, 0, win)
    BY <2>0 DEF Stages, ScanInv, DrainInv
  <2>2. /\ Walks(iter, disk.pages, before.rows, 0, win)
        /\ Whole(iter, disk.pages, Without(before.rows, erased), mem.pk)
    BY <2>1, AheadPositive DEF Scans
  <2>3. AtEnd(iter) => iter.loaded = iter.cnt
    BY <2>2, Windows, CursorAtEnd
  <2>4. Rows(disk.pages, 1, iter.page - 1) \o AheadOf(iter, disk.pages) = Without(before.rows, erased)
    BY <2>2 DEF Whole
  <2>5. Loads(iter, disk.pages)
    BY <2>2 DEF Walks
  <2>6. /\ iter.rows \in Seq(Row) /\ Rows(disk.pages, iter.loaded + 1, iter.cnt) \in Seq(Row)
    BY <2>5, AheadType
  <2>7. Rows(disk.pages, 1, iter.page - 1) \in Seq(Row)
    <3>1. iter.page - 1 \in Int /\ iter.page - 1 <= iter.cnt
      BY <2>5 DEF Loads, Shape, Iter
    <3> QED
      BY <3>1, <2>5, WalkedPages
  <2> QED
    BY <2>3, <2>4, <2>6, <2>7, RowsAssociate DEF AheadOf
<1> QED
  BY <1>1, Invariant, PTL

\* A SELECT that reaches the end has read every row once and in order, for every
\* page size and number of pages read ahead, as long as fewer appends have failed
\* than rows are read ahead.
THEOREM ReadsAll == Spec => []ReadsWholeTable
<1>1. IInv => ReadsWholeTable
  <2> SUFFICES ASSUME IInv, op = "read", AtEnd(iter), failures < (MaxPageCnt - 1) * RowsLimit
               PROVE  seen = Contents
    BY DEF ReadsWholeTable
  <2>1. ReadInv /\ Types
    BY DEF IInv, Stages
  <2>2. failures < RowsBefore(MaxPageCnt)
    <3>1. (MaxPageCnt - 1) * RowsLimit = RowsLimit * (MaxPageCnt - 1)
      BY ReadsAhead, RowsLimitPositive
    <3> QED
      BY <3>1 DEF RowsBefore
  <2>3. /\ Scans(mem, disk, iter, before, erased, failures, MaxPageCnt) /\ iter.deleted = 0
        /\ seen = SubSeq(before.rows, 1, Passed(iter))
    BY <2>1, <2>2 DEF ReadInv
  <2>4. /\ before.rows \in Seq(Row) /\ Walks(iter, disk.pages, before.rows, failures, MaxPageCnt)
    BY <2>1, <2>2, <2>3, PassedRange
  <2>5. Passed(iter) = Len(before.rows)
    BY <2>4, Windows, CursorAtEnd
  <2>6. SubSeq(before.rows, 1, Len(before.rows)) = before.rows
    BY <2>4, SubSeqFull
  <2>7. Contents = before.rows
    BY <2>3, Windows, FreshScan DEF Contents
  <2> QED
    BY <2>3, <2>5, <2>6, <2>7
<1> QED
  BY <1>1, Invariant, PTL

-----------------------------------------------------------------------------
(* The refinement: each action is a step of the abstract table, or none.   *)

\* The mapping.
TableRows == IF Locked THEN before.rows ELSE Contents
TableKey  == IF Locked THEN before.pk ELSE mem.pk

\* The five kinds of steps of the abstract table, and none.
LEMMA MappedSame ==
    ASSUME TableRows' = TableRows, TableKey' = TableKey, victims' = victims
    PROVE  UNCHANGED <<Abstract!tableVars>>
  BY DEF Abstract!tableVars, TableRows, TableKey

\* An operation is answered: the condition is forgotten.
LEMMA MappedAnswer ==
    ASSUME TableRows' = TableRows, TableKey' = TableKey, victims' = {},
           \A i \in DOMAIN TableRows : TableRows[i] \notin victims
    PROVE  Abstract!TableNext
  BY DEF Abstract!TableNext, Abstract!Answer, TableRows, TableKey

\* A row with the next key is at the end.
LEMMA MappedInsert ==
    ASSUME victims = {}, TableKey' = TableKey + 1, TableRows' = Append(TableRows, TableKey'),
           victims' = victims
    PROVE  Abstract!TableNext
  BY DEF Abstract!TableNext, Abstract!InsertRow, TableRows, TableKey

\* A DELETE says which rows it is for.
LEMMA MappedAsk ==
    ASSUME victims = {}, TableKey' = TableKey, TableRows' = TableRows,
           victims' \in SUBSET {TableRows[i] : i \in DOMAIN TableRows}
    PROVE  Abstract!TableNext
  BY DEF Abstract!TableNext, Abstract!AskDelete, TableRows, TableKey

\* The abstract module has its own name for FlattenSeq.
LEMMA SameFlattenSeq == \A s : Abstract!FlattenSeq(s) = FlattenSeq(s)
  BY DEF Abstract!FlattenSeq, FlattenSeq

\* The rows asked for are gone.
LEMMA MappedDelete ==
    ASSUME TableKey' = TableKey, victims' = victims, TableRows' = Without(TableRows, victims)
    PROVE  Abstract!TableNext
  BY SameFlattenSeq DEF Abstract!TableNext, Abstract!DeleteRows, TableRows, TableKey, Without

\* A DELETE stops after the first rows.
LEMMA MappedStop ==
    ASSUME TableKey' = TableKey, TableRows' = TableRows, NEW last \in 0..Len(TableRows),
           victims' = Treated(TableRows, victims, last)
    PROVE  Abstract!TableNext
  BY DEF Abstract!TableNext, Abstract!StopDelete, TableRows, TableKey, Treated

\* While the table is locked it is to the outside what it was.
LEMMA StaysLocked ==
    ASSUME Locked, Locked', UNCHANGED <<before, victims>>
    PROVE  UNCHANGED <<Abstract!tableVars>>
<1>1. TableRows' = TableRows /\ TableKey' = TableKey
  BY DEF TableRows, TableKey
<1> QED
  BY <1>1, MappedSame

\* The lock is released: what the operation has made of the table is seen.
LEMMA FinishMaps ==
    ASSUME Types, Stages, failures = 0, WritingFinish
    PROVE  Abstract!TableNext \/ UNCHANGED <<Abstract!tableVars>>
<1>1. /\ op = "release" /\ disk' = [disk EXCEPT !.mode = "free"]
      /\ UNCHANGED <<mem, victims, before, erased>>
  BY DEF WritingFinish
<1>2. Locked /\ Outcome(mem, disk, before, victims, erased)
  BY <1>1 DEF Stages, ReleaseInv
<1>3. disk'.mode = "free" /\ disk'.pages = disk.pages
  BY <1>1, ModeOnly DEF Types
<1>4. /\ TableRows = before.rows /\ TableKey = before.pk
      /\ TableRows' = Rows(disk.pages, 1, mem.page) /\ TableKey' = mem.pk
  BY <1>1, <1>2, <1>3 DEF TableRows, TableKey, Locked, Contents
<1>5. CASE Rows(disk.pages, 1, mem.page) = before.rows /\ mem.pk = before.pk /\ victims = {}
  BY <1>1, <1>4, <1>5, MappedSame
<1>6. CASE /\ Rows(disk.pages, 1, mem.page) = Append(before.rows, before.pk + 1)
           /\ mem.pk = before.pk + 1 /\ victims = {}
  BY <1>1, <1>4, <1>6, MappedInsert
<1>7. CASE /\ Rows(disk.pages, 1, mem.page) = Without(before.rows, erased)
           /\ mem.pk = before.pk /\ erased = victims
  BY <1>1, <1>4, <1>7, MappedDelete
<1> QED
  BY <1>2, <1>5, <1>6, <1>7 DEF Outcome

\* A guard is constructed: nothing is seen of it ...
LEMMA LockMaps ==
    ASSUME Types, IdleInv, NEW m \in {"reading", "writing"}, NEW next, Lock(m, next), mem' = mem
    PROVE  TableRows' = TableRows /\ TableKey' = TableKey /\ victims = {} /\ TableRows = Contents
<1>1. /\ disk'.mode = m /\ disk'.pages = disk.pages
      /\ before'.rows = Contents /\ before'.pk = mem.pk /\ victims = {}
  BY LockTakes
<1>2. ~Locked
  BY DEF Lock, Locked
<1>3. Contents' = Contents
  BY <1>1 DEF Contents
<1> QED
  BY <1>1, <1>2, <1>3 DEF TableRows, TableKey, Locked

\* ... but the condition of a DELETE.
LEMMA StartDeleteMaps ==
    ASSUME Types, Stages, StartDelete
    PROVE  Abstract!TableNext
<1>1. /\ Lock("writing", "scan") /\ victims' \in SUBSET ToSet(Contents) /\ mem' = mem
  BY DEF StartDelete
<1>2. IdleInv
  BY <1>1 DEF Lock, Stages
<1>3. TableRows' = TableRows /\ TableKey' = TableKey /\ victims = {} /\ TableRows = Contents
  BY <1>1, <1>2, LockMaps
<1>4. victims' \in SUBSET {TableRows[i] : i \in DOMAIN TableRows}
  BY <1>1, <1>3 DEF ToSet
<1> QED
  BY <1>3, <1>4, MappedAsk

\* ... and of the others not even that.
LEMMA StartOtherMaps ==
    ASSUME Types, Stages, StartInsert \/ StartRead \/ StartDeleteUnread
    PROVE  UNCHANGED <<Abstract!tableVars>>
<1>1. PICK m \in {"reading", "writing"} : \E next : Lock(m, next)
  BY DEF StartInsert, StartRead, StartDeleteUnread
<1>2. mem' = mem /\ victims' = victims
  BY DEF StartInsert, StartRead, StartDeleteUnread
<1>3. IdleInv
  BY <1>1 DEF Lock, Stages
<1>4. TableRows' = TableRows /\ TableKey' = TableKey
  BY <1>1, <1>2, <1>3, LockMaps
<1> QED
  BY <1>2, <1>4, MappedSame

\* What the writer does before it gives the lock back is not seen.
LEMMA WritingMaps ==
    ASSUME Types, Stages, Stages',
           \/ RejectInsert \/ RowWritingStart \/ AppendRow
           \/ KeepRow \/ DeleteRow \/ Drain \/ EndDelete
    PROVE  UNCHANGED <<Abstract!tableVars>>
<1>1. /\ op \in {"insert", "append", "scan", "drain"}
      /\ op' \in {"append", "release", "scan", "drain"}
      /\ UNCHANGED <<before, victims>>
  BY DEF RejectInsert, RowWritingStart, AppendRow, KeepRow, DeleteRow, Scanning, Drain, EndDelete
<1>2. Locked
  BY <1>1 DEF Stages, InsertInv, AppendInv, ScanInv, DrainInv
<1>3. Locked'
  BY <1>1 DEF Stages, AppendInv, ReleaseInv, ScanInv, DrainInv
<1> QED
  BY <1>1, <1>2, <1>3, StaysLocked

\* The condition of a DELETE that could not read a page is that of the rows
\* before it.
LEMMA UnreadMaps ==
    ASSUME Types, Stages, Stages', ~spoilt, ~spoilt', failures = 0,
           KeepRowUnread \/ DeleteRowUnread \/ ScanUnread
    PROVE  Abstract!TableNext
<1>1. /\ op = "scan" /\ op' \in {"drain", "release"} /\ before' = before /\ ~AtEnd(iter)
  BY DEF KeepRowUnread, DeleteRowUnread, ScanUnread, Scanning
<1>2. ScanInv /\ Locked /\ Locked'
  BY <1>1 DEF Stages, ScanInv, DrainInv, ReleaseInv
<1>3. TableRows = before.rows /\ TableRows' = TableRows /\ TableKey' = TableKey
  BY <1>1, <1>2 DEF TableRows, TableKey
<1>4. /\ Scans(mem, disk, iter, before, erased, failures, MaxPageCnt)
      /\ erased = Treated(before.rows, victims, Passed(iter))
  BY <1>2 DEF ScanInv
<1>5. Passed(iter) \in 0..Len(before.rows) /\ Len(before.rows) \in Nat
  BY <1>4, AheadPositive, PassedRange
<1>6. CASE KeepRowUnread
  <2>1. victims' = erased
    BY <1>6 DEF KeepRowUnread
  <2> QED
    BY <2>1, <1>3, <1>4, <1>5, MappedStop
<1>7. CASE DeleteRowUnread
  <2>1. /\ Current \in victims /\ victims' = erased \cup {Current}
    BY <1>7 DEF DeleteRowUnread, EraseUnread, EraseRow, Current
  <2>2. /\ Passed(iter) \in Nat /\ Passed(iter) + 1 <= Len(before.rows)
        /\ victims' = Treated(before.rows, victims, Passed(iter) + 1)
    BY <2>1, <1>1, <1>2, ErasedNext
  <2>3. Passed(iter) + 1 \in 0..Len(before.rows)
    BY <2>2, <1>5
  <2> QED
    BY <2>2, <2>3, <1>3, MappedStop
<1>8. CASE ScanUnread
  <2>1. victims' = {} /\ iter.deleted = 0
    BY <1>8 DEF ScanUnread
  <2>2. erased = {}
    BY <2>1, <1>4, Windows, FreshScan
  <2> QED
    BY <2>1, <2>2, <1>3, <1>4, <1>5, MappedStop
<1> QED
  BY <1>6, <1>7, <1>8

\* What is answered is done.
LEMMA UnlockedGone ==
    ASSUME Types, Stages, ~Locked, failures = 0
    PROVE  \A i \in DOMAIN TableRows : TableRows[i] \notin victims
<1>1. TableRows = Contents /\ DOMAIN Contents = 1..Len(Contents)
  BY UnlockedGood DEF TableRows
<1>2. CASE victims = {}
  BY <1>2
<1>3. CASE Gone(Contents, victims)
  BY <1>1, <1>3 DEF Gone
<1>4. victims = {} \/ Gone(Contents, victims)
  <2>1. CASE op \in {"idle", "read"}
    BY <2>1 DEF Stages, IdleInv, ReadInv
  <2>2. CASE op \in {"sync", "sync_key"}
    BY <2>2 DEF Stages, SyncInv, SyncKeyInv
  <2>3. CASE op \in {"insert", "append", "release", "scan", "drain"}
    BY <2>3 DEF Stages, InsertInv, AppendInv, ReleaseInv, ScanInv, DrainInv
  <2> QED
    BY <2>1, <2>2, <2>3 DEF Types, Op
<1> QED
  BY <1>2, <1>3, <1>4

\* sync writes nothing that is seen, and ends the operation.
LEMMA SyncMaps ==
    ASSUME Types, Stages, failures = 0, SyncNothing \/ SyncPosition \/ SyncKey
    PROVE  Abstract!TableNext \/ UNCHANGED <<Abstract!tableVars>>
<1>1. mem \in Mem /\ disk \in Disk /\ failures \in Nat
  BY DEF Types
<1>2. CASE SyncNothing
  <2>1. op = "sync" /\ Forget /\ UNCHANGED <<mem, disk>>
    BY <1>2 DEF SyncNothing
  <2>2. ~Locked
    BY <2>1 DEF Stages, SyncInv, Locked
  <2>3. TableRows' = TableRows /\ TableKey' = TableKey
    BY <2>1, <2>2 DEF TableRows, TableKey, Locked, Contents
  <2> QED
    BY <2>1, <2>2, <2>3, ForgetTypes, UnlockedGone, MappedAnswer
<1>3. CASE SyncPosition
  <2>1. /\ op = "sync" /\ ~mem.synchronized /\ UNCHANGED victims
        /\ mem' = RolledBack(mem) /\ disk' = PositionFiles(mem, disk)
    BY <1>3 DEF SyncPosition, PositionFiles
  <2>2. Finished(mem, disk, failures) /\ disk.mode = "free"
    BY <2>1 DEF Stages, SyncInv
  <2>3. mem' = mem /\ disk'.pages = disk.pages /\ disk'.mode = disk.mode
    BY <2>1, <2>2, <1>1, PositionSynced
  <2>4. TableRows' = TableRows /\ TableKey' = TableKey
    BY <2>2, <2>3 DEF TableRows, TableKey, Locked, Contents
  <2> QED
    BY <2>1, <2>4, MappedSame
<1>4. CASE SyncKey
  <2>1. op = "sync_key" /\ Forget /\ mem' = UpToDate(mem) /\ disk' = KeyFiles(mem, disk)
    BY <1>4 DEF SyncKey, UpToDate, KeyFiles
  <2>2. HalfSynced(mem, disk, failures) /\ disk.mode = "free"
    BY <2>1 DEF Stages, SyncKeyInv
  <2>3. mem'.page = mem.page /\ mem'.pk = mem.pk /\ disk'.pages = disk.pages /\ disk'.mode = disk.mode
    BY <2>1, <2>2, <1>1, KeySynced
  <2>4. TableRows' = TableRows /\ TableKey' = TableKey
    BY <2>2, <2>3 DEF TableRows, TableKey, Locked, Contents
  <2>5. ~Locked
    BY <2>2 DEF Locked
  <2> QED
    BY <2>1, <2>4, <2>5, ForgetTypes, UnlockedGone, MappedAnswer
<1> QED
  BY <1>2, <1>3, <1>4

\* Nor does reading.
LEMMA ReadMaps ==
    ASSUME Types, Stages, Stages', ReadRow \/ RestartRead
    PROVE  UNCHANGED <<Abstract!tableVars>>
<1>1. op = "read" /\ op' = "read" /\ UNCHANGED <<before, victims>>
  BY DEF ReadRow, RestartRead
<1>2. /\ disk.mode = "reading" /\ Contents = before.rows /\ mem.pk = before.pk
  <2>1. disk.mode = "reading" /\ Scans(mem, disk, iter, before, erased, failures, MaxPageCnt) /\ iter.deleted = 0
    BY <1>1 DEF Stages, ReadInv
  <2> QED
    BY <2>1, Windows, FreshScan DEF Scans, Contents
<1>3. /\ disk'.mode = "reading" /\ Contents' = before'.rows /\ mem'.pk = before'.pk
  <2>1. /\ disk'.mode = "reading" /\ Scans(mem', disk', iter', before', erased', failures', MaxPageCnt)
        /\ iter'.deleted = 0
    BY <1>1 DEF Stages, ReadInv
  <2> QED
    BY <2>1, Windows, FreshScan DEF Scans, Contents
<1>4. TableRows' = TableRows /\ TableKey' = TableKey
  BY <1>1, <1>2, <1>3 DEF TableRows, TableKey, Locked
<1> QED
  BY <1>1, <1>4, MappedSame

\* The reader is answered, and has changed nothing.
LEMMA EndReadMaps ==
    ASSUME Types, Stages, EndRead
    PROVE  Abstract!TableNext
<1>1. op = "read" /\ disk' = [disk EXCEPT !.mode = "free"] /\ Forget /\ mem' = mem
  BY DEF EndRead
<1>2. disk.mode = "reading"
  BY <1>1 DEF Stages, ReadInv
<1>3. disk'.mode = "free" /\ disk'.pages = disk.pages
  BY <1>1, ModeOnly DEF Types
<1>4. TableRows' = TableRows /\ TableKey' = TableKey
  BY <1>1, <1>2, <1>3 DEF TableRows, TableKey, Locked, Contents
<1>5. victims = {}
  BY <1>1 DEF Stages, ReadInv
<1> QED
  BY <1>1, <1>4, <1>5, ForgetTypes, MappedAnswer

\* A restart finds the table as it was, if it finds it at all.
LEMMA CleanRestartMaps ==
    ASSUME Types, Stages, Stages', failures = 0, CleanRestart
    PROVE  UNCHANGED <<Abstract!tableVars>>
<1>1. /\ op = "idle" /\ disk' = Synced(mem, disk) /\ mem' = Restored(disk')
      /\ UNCHANGED <<op, victims, before>>
  BY DEF CleanRestart
<1>2. mem \in Mem /\ disk \in Disk /\ failures \in Nat
  BY DEF Types
<1>3. disk'.mode = disk.mode
  BY <1>1, <1>2 DEF Synced, Disk
<1>4. CASE Locked
  BY <1>1, <1>3, <1>4, StaysLocked DEF Locked
<1>5. CASE ~Locked
  <2>1. Settled(mem, disk, failures)
    BY <1>1, <1>5 DEF Stages, IdleInv
  <2>2. disk' = disk
    BY <2>1, <1>1, <1>2, SettledSynced
  <2>3. mem'.page = mem.page /\ mem'.pk = mem.pk
    BY <2>1, <2>2, <1>1, <1>2, SettledRestarts, ZenonT(30)
  <2>4. TableRows' = TableRows /\ TableKey' = TableKey
    BY <2>2, <2>3, <1>5 DEF TableRows, TableKey, Locked, Contents
  <2> QED
    BY <2>4, <1>1, MappedSame
<1> QED
  BY <1>4, <1>5

\* A crash that loses no lock file finds what was written, and the operation is over.
LEMMA CrashRestartMaps ==
    ASSUME Types, Stages, ~spoilt', failures = 0, CrashRestart
    PROVE  Abstract!TableNext \/ UNCHANGED <<Abstract!tableVars>>
<1>1. /\ mem' = Restored(disk) /\ disk' = disk
      /\ spoilt' = (spoilt \/ (op \in {"sync", "sync_key"} /\ disk # Synced(mem, disk)))
      /\ (disk.mode = "writing" => UNCHANGED <<victims, before>>)
      /\ (disk.mode # "writing" => Forget)
  BY DEF CrashRestart
<1>2. mem \in Mem /\ disk \in Disk /\ failures \in Nat /\ op \in Op
  BY DEF Types
<1>3. CASE Locked
  BY <1>1, <1>3, StaysLocked DEF Locked
<1>4. CASE ~Locked
  <2>1. op \in {"sync", "sync_key"} => disk = Synced(mem, disk)
    BY <1>1
  <2>2. Restored(disk).page = mem.page /\ Restored(disk).pk = mem.pk
    <3>1. CASE op = "idle"
      BY <3>1, <1>2, <1>4, SettledRestarts DEF Stages, IdleInv
    <3>2. CASE op = "read"
      BY <3>2, <1>2, ReadSettled, SettledRestarts DEF Stages
    <3>3. CASE op = "sync"
      BY <3>3, <2>1, <1>2, FinishedRestarts DEF Stages, SyncInv
    <3>4. CASE op = "sync_key"
      BY <3>4, <2>1, <1>2, HalfSyncedRestarts DEF Stages, SyncKeyInv
    <3>5. CASE op \in {"insert", "append", "release", "scan", "drain"}
      BY <3>5, <1>4 DEF Stages, InsertInv, AppendInv, ReleaseInv, ScanInv, DrainInv
    <3> QED
      BY <3>1, <3>2, <3>3, <3>4, <3>5, <1>2 DEF Op
  <2>3. TableRows' = TableRows /\ TableKey' = TableKey
    BY <2>2, <1>1, <1>4 DEF TableRows, TableKey, Locked, Contents
  <2>4. victims' = {}
    BY <1>1, <1>4, ForgetTypes DEF Locked
  <2> QED
    BY <2>3, <2>4, <1>4, UnlockedGone, MappedAnswer
<1> QED
  BY <1>3, <1>4

\* Every step of the files is a step of the table.
LEMMA StepMaps ==
    ASSUME IInv, IInv', Next, ~spoilt', failures' = 0
    PROVE  Abstract!TableNext \/ UNCHANGED <<Abstract!tableVars>>
<1>1. ~spoilt /\ Types /\ Stages /\ Stages'
  BY DEF Next, IInv
<1>2. failures = 0 /\ ~AppendFails
  <2>1. failures \in Nat
    BY <1>1 DEF Types
  <2>2. ~AppendFails
    <3> SUFFICES ASSUME AppendFails PROVE FALSE
      OBVIOUS
    <3>1. failures' = failures + 1
      BY DEF AppendFails
    <3> QED
      BY <2>1, <3>1
  <2>3. failures' = failures
    BY <2>2 DEF Next, WriterStep, StartInsert, StartDelete, RejectInsert, RowWritingStart, AppendRow,
       KeepRow, DeleteRow, KeepRowUnread, DeleteRowUnread, ScanUnread, StartDeleteUnread,
       Drain, EndDelete, WritingFinish, SyncNothing,
       SyncPosition, SyncKey, StartRead, ReadRow, RestartRead, EndRead, CleanRestart, CrashRestart
  <2> QED
    BY <2>2, <2>3
<1>3. CASE StartDelete
  BY <1>1, <1>3, StartDeleteMaps
<1>4. CASE StartInsert \/ StartRead \/ StartDeleteUnread
  BY <1>1, <1>4, StartOtherMaps
<1>5. CASE WriterStep
  <2>1. CASE \/ RejectInsert \/ RowWritingStart \/ AppendRow
             \/ KeepRow \/ DeleteRow \/ Drain \/ EndDelete
    BY <1>1, <2>1, WritingMaps
  <2>2. CASE WritingFinish
    BY <1>1, <1>2, <2>2, FinishMaps
  <2>3. CASE SyncNothing \/ SyncPosition \/ SyncKey
    BY <1>1, <1>2, <2>3, SyncMaps
  <2>4. CASE KeepRowUnread \/ DeleteRowUnread \/ ScanUnread
    BY <1>1, <1>2, <2>4, UnreadMaps
  <2> QED
    BY <1>2, <1>5, <2>1, <2>2, <2>3, <2>4 DEF WriterStep
<1>6. CASE ReadRow \/ RestartRead
  BY <1>1, <1>6, ReadMaps
<1>7. CASE EndRead
  BY <1>1, <1>7, EndReadMaps
<1>8. CASE CleanRestart
  BY <1>1, <1>2, <1>8, CleanRestartMaps
<1>9. CASE CrashRestart
  BY <1>1, <1>2, <1>9, CrashRestartMaps
<1> QED
  BY <1>3, <1>4, <1>5, <1>6, <1>7, <1>8, <1>9 DEF Next

\* The files implement the table of TableSpec: a sequence of rows to which
\* INSERT appends, and from which DELETE takes the rows it was asked for, all
\* of them, or those before a page that could not be read. Every operation takes
\* effect at one step, when its lock is released, and no DELETE is over before
\* its rows are gone, if no append has failed and no crash has left the lock
\* file behind.
THEOREM ImplementsTable == Spec => AbstractTable
<1>1. Init => Abstract!TableInit
  <2> SUFFICES ASSUME Init PROVE Abstract!TableInit
    OBVIOUS
  <2>1. ~Locked /\ mem.pk = 0 /\ victims = {} /\ mem.page = 1 /\ disk.pages = <<(<<>>)>>
    BY DEF Init, Locked
  <2>2. IInv
    BY InitHolds
  <2>3. Settled(mem, disk, failures) /\ mem \in Mem /\ disk \in Disk
    BY <2>1, <2>2 DEF Init, IInv, Stages, IdleInv, Types
  <2>4. Contents \in Seq(Row) /\ UpTo(Contents, 0)
    BY <2>1, <2>3, SettledRows DEF Settled, Good, Contents
  <2>5. Contents = <<>>
    <3>1. Len(Contents) \in Nat
      BY <2>4, LenProperties
    <3>2. Len(Contents) = 0
      <4> SUFFICES ASSUME Len(Contents) # 0 PROVE FALSE
        OBVIOUS
      <4>1. 1 \in 1..Len(Contents)
        BY <3>1
      <4>2. Contents[1] \in Row /\ Contents[1] <= 0
        BY <4>1, <2>4, ElementOfSeq DEF UpTo
      <4> QED
        BY <4>2, BoundsNat DEF Row
    <3> QED
      BY <2>4, <3>2, EmptySeq
  <2> QED
    BY <2>1, <2>5 DEF Abstract!TableInit
<1>2. IInv /\ IInv' /\ [Next]_vars
        => [spoilt' \/ failures' > 0 \/ Abstract!TableNext]_<<Abstract!tableVars>>
  <2> SUFFICES ASSUME IInv, IInv', [Next]_vars, ~spoilt', ~(failures' > 0)
               PROVE  Abstract!TableNext \/ UNCHANGED <<Abstract!tableVars>>
    OBVIOUS
  <2>1. failures' = 0
    <3>1. failures' \in Nat
      BY DEF IInv, Types
    <3> QED
      BY <3>1
  <2>2. CASE Next
    BY <2>1, <2>2, StepMaps
  <2>3. CASE UNCHANGED vars
    <3>1. UNCHANGED <<mem, disk, before, victims>>
      BY <2>3 DEF vars
    <3>2. TableRows' = TableRows /\ TableKey' = TableKey
      BY <3>1 DEF TableRows, TableKey, Locked, Contents
    <3> QED
      BY <3>1, <3>2, MappedSame
  <2> QED
    BY <2>2, <2>3
<1> QED
  BY <1>1, <1>2, Invariant, PTL DEF Spec, AbstractTable
=============================================================================
