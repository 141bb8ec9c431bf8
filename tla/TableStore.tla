----------------------------- MODULE TableStore -----------------------------
(***************************************************************************)
(* How one table is kept in its directory: the pages (N.csv), the position *)
(* of the last row, the last primary key and the mode, and the two pieces  *)
(* of code that change them: Table::insert_back with TState's row writing  *)
(* protocol, and IteratorByRows, which walks the table page by page and,   *)
(* for DELETE, rewrites the pages behind its cursor.                       *)
(*                                                                         *)
(* One operation runs at a time: TableLock shows that a writer is alone;   *)
(* readers share no state.  A step is a file operation or one step of the  *)
(* row iterator; the process may die between any two of them.              *)
(***************************************************************************)
EXTENDS Naturals, Sequences, FiniteSets, SequencesExt

CONSTANTS RowsLimit,     \* Database::rowsLimit, rows per page
          MaxPageCnt,    \* IterImpl::maxPageCnt, pages read ahead
          MaxKey,        \* bound: keys given in a behaviour
          MaxFailures,   \* bound: failed appends in a behaviour
          DeleteOn,      \* whether DELETE requests arrive
          CrashPoints    \* the values of op at which the process may die

ASSUME RowsLimitPositive == RowsLimit \in Nat \ {0}
\* (With two pages read ahead a DELETE that fails to read one would lose rows.)
ASSUME ReadsAhead        == MaxPageCnt \in Nat \ {0, 1, 2}
ASSUME BoundsNat         == MaxKey \in Nat /\ MaxFailures \in Nat
ASSUME DeleteOnBoolean   == DeleteOn \in BOOLEAN

VARIABLES mem,      \* TState: page, row, pk, rowWriting, synchronized
          disk,     \* the files: pages, position, pk, mode
          op,       \* where the running operation stands
          iter,     \* IterImpl of the running DELETE or SELECT
          victims,  \* the rows the DELETE erases: its condition holds for them
          seen,     \* history: the rows a SELECT has returned
          before,   \* history: the contents and key when the table was locked
          erased,   \* history: the rows the DELETE has erased
          failures, \* history: how many appends failed
          spoilt    \* history: a crash or a DELETE has spoilt position and key

vars == <<mem, disk, op, iter, victims, seen, before, erased, failures, spoilt>>

Row == 1..MaxKey
Op  == {"idle", "insert", "append", "scan", "drain", "read", "release", "sync", "sync_key"}

TypeOK ==
    /\ mem \in [page : 0..MaxKey + MaxFailures + 1, row : 0..RowsLimit, pk : 0..MaxKey,
                rowWriting : BOOLEAN, synchronized : BOOLEAN]
    /\ disk.position \in (0..MaxKey + MaxFailures + 1) \X (0..RowsLimit)
    /\ disk.pk \in 0..MaxKey
    /\ disk.mode \in {"free", "reading", "writing"}
    /\ \A p \in DOMAIN disk.pages : disk.pages[p] \in Seq(Row)
    /\ op \in Op
    /\ victims \cup erased \subseteq Row
    /\ iter.cur \in 1..Len(iter.rows) + 1
    /\ iter.loaded <= iter.cnt /\ iter.page <= iter.cnt + 1

\* The rows of the pages a..b of a set of files, in order.
Rows(pages, a, b) ==
    FlattenSeq([k \in 1..(IF a <= b THEN b - a + 1 ELSE 0) |-> pages[a + k - 1]])

Contents == Rows(disk.pages, 1, mem.page)

\* A page is written, over the one that was there if there was one.
Written(pages, page, rows) ==
    [p \in DOMAIN pages \cup {page} |-> IF p = page THEN rows ELSE pages[p]]

Without(rows, gone) ==
    FlattenSeq([i \in 1..Len(rows) |-> IF rows[i] \in gone THEN <<>> ELSE <<rows[i]>>])

-----------------------------------------------------------------------------
(* TState.                                                                 *)

\* Mutation: the row number runs on over the end of the page.
MutNextPosition(m) == [m EXCEPT !.row = @ + 1]

\* row_writing_start, the memory part: the next row, on a new page if the
\* current one is full.
NextPosition(m) ==
    IF m.row = RowsLimit THEN [m EXCEPT !.row = 1, !.page = @ + 1]
                         ELSE [m EXCEPT !.row = @ + 1]

\* Mutation: set_position forgets that the files are now behind.
MutSetPosition(m, p, r) == [m EXCEPT !.page = p, !.row = r]

\* set_position, called by DELETE: the files are now behind.
SetPosition(m, p, r) == [m EXCEPT !.page = p, !.row = r, !.synchronized = FALSE]

\* Mutation: every row is taken back, finished or not.
MutRolledBack(m) ==
    IF m.row = 1 THEN [m EXCEPT !.row = RowsLimit, !.page = @ - 1, !.pk = @ - 1]
                 ELSE [m EXCEPT !.row = @ - 1, !.pk = @ - 1]

\* sync, the memory part: a row whose writing never finished is taken back.
RolledBack(m) ==
    IF ~m.rowWriting THEN m
    ELSE IF m.row = 1 THEN [m EXCEPT !.row = RowsLimit, !.page = @ - 1, !.pk = @ - 1]
                      ELSE [m EXCEPT !.row = @ - 1, !.pk = @ - 1]

\* What sync makes of the files.
Synced(m, d) ==
    IF m.synchronized THEN d
    ELSE [d EXCEPT !.position = <<RolledBack(m).page, RolledBack(m).row>>, !.pk = RolledBack(m).pk]

\* TState::TState on an existing table.
Restored(d) ==
    [page |-> d.position[1], row |-> d.position[2], pk |-> d.pk,
     rowWriting |-> FALSE, synchronized |-> FALSE]

-----------------------------------------------------------------------------
(* IteratorByRows::IterImpl.  rows: the list in memory; cur: currRowIt, one *)
(* past the last row for rows.end(); page: currentPage; read: readRowsCnt; *)
(* loaded: pagesLoaded; deleted: rowsDeleted; cnt: pagesCnt.               *)

AtEnd(i) == i.cur > Len(i.rows)

\* Mutation: only one page is read at first, and counted as all of them.
MutPagesReadFirst(cnt) == IF cnt < 1 THEN cnt ELSE 1

\* init reads the first pages.
PagesReadFirst(cnt) == IF cnt < MaxPageCnt THEN cnt ELSE MaxPageCnt

InitIter(pages, cnt) ==
    [rows |-> Rows(pages, 1, PagesReadFirst(cnt)), cur |-> 1, page |-> 1, read |-> 0,
     loaded |-> PagesReadFirst(cnt), deleted |-> 0, cnt |-> cnt]

Nothing == [rows |-> <<>>, pk |-> 0]

NoIter == InitIter(<<>>, 0)

\* next_page_load: a cursor at rows.end() stays there when rows are appended.
NextPageLoad(i, pages) ==
    IF i.loaded = i.cnt THEN i
    ELSE LET all == i.rows \o pages[i.loaded + 1] IN
         [i EXCEPT !.rows = all, !.loaded = @ + 1,
                   !.cur = IF AtEnd(i) THEN Len(all) + 1 ELSE @]

\* current_page_upload: the rows behind the cursor leave the memory; once a
\* row has been deleted they are written to the current page, and the last
\* row written becomes the last of the table.
Uploaded(i) ==
    IF i.page > i.cnt THEN i
    ELSE [i EXCEPT !.rows = SubSeq(@, i.cur, Len(@)), !.cur = 1, !.page = @ + 1]

Writes(i) == i.page <= i.cnt /\ i.deleted > 0

\* Mutation: a page is written without its last row.
MutUploadedPages(i, pages) ==
    IF Writes(i) THEN Written(pages, i.page, SubSeq(i.rows, 1, i.cur - 2)) ELSE pages

UploadedPages(i, pages) ==
    IF Writes(i) THEN Written(pages, i.page, SubSeq(i.rows, 1, i.cur - 1)) ELSE pages

UploadedMem(i, m) ==
    IF Writes(i) /\ i.cur > 1 THEN SetPosition(m, i.page, i.cur - 1) ELSE m

\* Mutation: deleted rows never bring the next page into the memory.
MutOnePageDeleted(i) == FALSE

OnePageRead(i)    == i.read % RowsLimit = 0
OnePageDeleted(i) == i.deleted % RowsLimit = 0

\* Mutation: the cursor stays where it is.
MutAdvance == UNCHANGED <<disk, mem, iter>>

\* next(): one row forward, and a page out and a page in when the rows of
\* one page have been passed.
Advance ==
    LET i == [iter EXCEPT !.cur = @ + 1, !.read = @ + 1] IN
    IF OnePageRead(i)
    THEN /\ disk' = [disk EXCEPT !.pages = UploadedPages(i, @)]
         /\ mem' = UploadedMem(i, mem)
         /\ iter' = NextPageLoad(Uploaded(i), disk'.pages)
    ELSE iter' = i /\ UNCHANGED <<disk, mem>>

\* The page next_page_load is to bring cannot be read: it throws, and all that
\* next() has done before stays.
Unread(i) == i.loaded < i.cnt

AdvanceUnread ==
    LET i == [iter EXCEPT !.cur = @ + 1, !.read = @ + 1] IN
    /\ OnePageRead(i) /\ Unread(i)
    /\ disk' = [disk EXCEPT !.pages = UploadedPages(i, @)]
    /\ mem' = UploadedMem(i, mem)
    /\ iter' = Uploaded(i)

\* erase(): the first deletion moves the position to before this page.
Removed(i) == [i EXCEPT !.rows = RemoveAt(@, i.cur), !.deleted = @ + 1]

EraseRow ==
    /\ mem' = IF iter.deleted = 0 THEN SetPosition(mem, iter.page - 1, RowsLimit) ELSE mem
    /\ erased' = erased \cup {iter.rows[iter.cur]}
    /\ UNCHANGED disk

Erase ==
    /\ iter' = IF OnePageDeleted(Removed(iter)) THEN NextPageLoad(Removed(iter), disk.pages)
                                               ELSE Removed(iter)
    /\ EraseRow

EraseUnread ==
    /\ OnePageDeleted(Removed(iter)) /\ Unread(iter)
    /\ iter' = Removed(iter)
    /\ EraseRow

\* reset(), at the end of the table: the last rows are written, the pages
\* that are not needed any more are removed.
PagesLeft(i, pages) == [p \in DOMAIN pages \ (i.page..i.cnt) |-> pages[p]]

ResetPages ==
    IF iter.deleted = 0 THEN UNCHANGED <<disk, mem>>
    ELSE LET up == iter.rows # <<>>
             i  == IF up THEN Uploaded(iter) ELSE iter
             ps == IF up THEN UploadedPages(iter, disk.pages) ELSE disk.pages IN
         /\ disk' = [disk EXCEPT !.pages = PagesLeft(i, ps)]
         /\ mem' = IF up THEN UploadedMem(iter, mem) ELSE mem

-----------------------------------------------------------------------------
(* The operations.                                                         *)

\* A new table: TState::TState writes the three files and an empty page 1.
Init ==
    /\ mem = [page |-> 1, row |-> 0, pk |-> 0, rowWriting |-> FALSE, synchronized |-> TRUE]
    /\ disk = [pages |-> <<(<<>>)>>, position |-> <<1, 0>>, pk |-> 0, mode |-> "free"]
    /\ op = "idle" /\ iter = NoIter /\ victims = {}
    /\ seen = <<>> /\ before = Nothing /\ erased = {} /\ failures = 0 /\ spoilt = FALSE

\* TStateGuard takes the lock; the mode goes to the lock file.
Lock(m, next) ==
    /\ op = "idle"
    /\ IF m = "reading" THEN disk.mode # "writing" ELSE disk.mode = "free"
    /\ disk' = [disk EXCEPT !.mode = m]
    /\ before' = [rows |-> Contents, pk |-> mem.pk]
    /\ op' = next

StartInsert ==
    /\ mem.pk < MaxKey
    /\ Lock("writing", "insert")
    /\ UNCHANGED <<mem, iter, victims, seen, erased, failures, spoilt>>

\* insert_back: the wrong number of values is an exception before any change.
RejectInsert ==
    /\ op = "insert"
    /\ op' = "release"
    /\ UNCHANGED <<mem, disk, iter, victims, seen, before, erased, failures, spoilt>>

\* row_writing_start: creat_page writes an empty page over whatever was there.
RowWritingStart ==
    /\ op = "insert"
    /\ mem' = [NextPosition(mem) EXCEPT !.rowWriting = TRUE, !.pk = @ + 1]
    /\ disk' = IF mem.row = RowsLimit
               THEN [disk EXCEPT !.pages = Written(@, mem'.page, <<>>)] ELSE disk
    /\ op' = "append"
    /\ UNCHANGED <<iter, victims, seen, before, erased, failures, spoilt>>

\* add_page and row_writing_finish.
AppendRow ==
    /\ op = "append"
    /\ disk' = [disk EXCEPT !.pages[mem.page] = Append(@, mem.pk)]
    /\ mem' = [mem EXCEPT !.rowWriting = FALSE, !.synchronized = FALSE]
    /\ op' = "release"
    /\ UNCHANGED <<iter, victims, seen, before, erased, failures, spoilt>>

\* add_page cannot open the page and throws: row_writing_finish is skipped.
AppendFails ==
    /\ op = "append" /\ failures < MaxFailures
    /\ failures' = failures + 1
    /\ op' = "release"
    /\ UNCHANGED <<mem, disk, iter, victims, seen, before, erased, spoilt>>

\* writing_finish: the lock file first, then sync.
WritingFinish ==
    /\ op = "release"
    /\ disk' = [disk EXCEPT !.mode = "free"]
    /\ op' = "sync"
    /\ UNCHANGED <<mem, iter, victims, seen, before, erased, failures, spoilt>>

\* The history of a finished operation is not needed any more.
Forget == victims' = {} /\ erased' = {} /\ seen' = <<>> /\ before' = Nothing

\* sync: nothing when the files are up to date, else the position ...
SyncNothing ==
    /\ op = "sync" /\ mem.synchronized
    /\ op' = "idle"
    /\ Forget
    /\ UNCHANGED <<mem, disk, iter, failures, spoilt>>

SyncPosition ==
    /\ op = "sync" /\ ~mem.synchronized
    /\ mem' = RolledBack(mem)
    /\ disk' = [disk EXCEPT !.position = <<mem'.page, mem'.row>>]
    /\ op' = "sync_key"
    /\ UNCHANGED <<iter, victims, seen, before, erased, failures, spoilt>>

\* ... and then the key.
SyncKey ==
    /\ op = "sync_key"
    /\ disk' = [disk EXCEPT !.pk = mem.pk]
    /\ mem' = [mem EXCEPT !.synchronized = TRUE]
    /\ op' = "idle"
    /\ Forget
    /\ UNCHANGED <<iter, failures, spoilt>>

\* Database::erase: a DeleteIterator over the rows its condition holds for.
StartDelete ==
    /\ DeleteOn
    /\ Lock("writing", "scan")
    /\ iter' = InitIter(disk.pages, mem.page)
    /\ victims' \in SUBSET ToSet(Contents)
    /\ erased' = {}
    /\ UNCHANGED <<mem, seen, failures, spoilt>>

\* ... or one of the first pages cannot be read: the constructor throws, and
\* the guard is destroyed.
StartDeleteUnread ==
    /\ DeleteOn /\ mem.page > 0
    /\ Lock("writing", "release")
    /\ UNCHANGED <<mem, iter, victims, seen, erased, failures, spoilt>>

Current == iter.rows[iter.cur]

\* DeleteIterator::validate and del, one row at a time.
Scanning == op = "scan" /\ ~AtEnd(iter)

KeepRow ==
    /\ Scanning /\ Current \notin victims
    /\ Advance
    /\ UNCHANGED <<op, victims, seen, before, erased, failures, spoilt>>

\* A page that a failed append has left short is not where the iterator takes
\* it to be: what a DELETE writes spoils the table.
DeleteRow ==
    /\ Scanning /\ Current \in victims
    /\ Erase
    /\ spoilt' = (spoilt \/ failures > 0)
    /\ UNCHANGED <<op, victims, seen, before, failures>>

\* A page cannot be read: the exception destroys the iterator, whose reset
\* walks on to the end when rows were deleted, and erases no more.
KeepRowUnread ==
    /\ Scanning /\ Current \notin victims /\ iter.deleted > 0
    /\ AdvanceUnread
    /\ op' = "drain" /\ victims' = erased
    /\ UNCHANGED <<seen, before, erased, failures, spoilt>>

DeleteRowUnread ==
    /\ Scanning /\ Current \in victims
    /\ EraseUnread
    /\ op' = "drain" /\ victims' = erased'
    /\ spoilt' = (spoilt \/ failures > 0)
    /\ UNCHANGED <<seen, before, failures>>

\* When nothing was deleted nothing is written.
ScanUnread ==
    /\ Scanning /\ Current \notin victims /\ iter.deleted = 0
    /\ OnePageRead([iter EXCEPT !.read = @ + 1]) /\ Unread(iter)
    /\ iter' = NoIter
    /\ op' = "release" /\ victims' = {}
    /\ UNCHANGED <<mem, disk, seen, before, erased, failures, spoilt>>

\* reset() is noexcept: a page that cannot be read now ends the process.
Drain ==
    /\ op = "drain" /\ ~AtEnd(iter)
    /\ Advance
    /\ UNCHANGED <<op, victims, seen, before, erased, failures, spoilt>>

\* The iterator is at the end: reset, and the guard is destroyed.
EndDelete ==
    /\ op \in {"scan", "drain"} /\ AtEnd(iter)
    /\ ResetPages
    /\ iter' = NoIter /\ op' = "release"
    /\ UNCHANGED <<victims, seen, before, erased, failures, spoilt>>

\* SELECT: a reading iterator of the table, and its restart by CrossIterator
\* (noexcept: a page that cannot be read then ends the process).
StartRead ==
    /\ Lock("reading", "read")
    /\ iter' = InitIter(disk.pages, mem.page)
    /\ seen' = <<>>
    /\ UNCHANGED <<mem, victims, erased, failures, spoilt>>

ReadRow ==
    /\ op = "read" /\ ~AtEnd(iter)
    /\ seen' = Append(seen, Current)
    /\ Advance
    /\ UNCHANGED <<op, victims, before, erased, failures, spoilt>>

RestartRead ==
    /\ op = "read" /\ AtEnd(iter)
    /\ iter' = InitIter(disk.pages, mem.page)
    /\ seen' = <<>>
    /\ UNCHANGED <<mem, disk, op, victims, before, erased, failures, spoilt>>

\* The last reader leaves; a SELECT may end early by an exception, as when a
\* page cannot be read.
EndRead ==
    /\ op = "read"
    /\ disk' = [disk EXCEPT !.mode = "free"]
    /\ iter' = NoIter /\ op' = "idle"
    /\ Forget
    /\ UNCHANGED <<mem, failures, spoilt>>

\* The server stops between two operations (~TState syncs) and starts again.
CleanRestart ==
    /\ op = "idle"
    /\ disk' = Synced(mem, disk)
    /\ mem' = Restored(disk')
    /\ UNCHANGED <<op, iter, victims, seen, before, erased, failures, spoilt>>

\* The process dies at any point and is started again.  Between the release of
\* the lock file and the end of sync nothing tells the restarted server that
\* position and key are behind the pages: the table is spoilt.
CrashRestart ==
    /\ op \in CrashPoints
    /\ mem' = Restored(disk)
    /\ op' = "idle" /\ iter' = NoIter
    /\ spoilt' = (spoilt \/ (op \in {"sync", "sync_key"} /\ disk # Synced(mem, disk)))
    /\ IF disk.mode = "writing" THEN UNCHANGED <<victims, seen, before, erased>> ELSE Forget
    /\ UNCHANGED <<disk, failures>>

WriterStep ==
    \/ RejectInsert \/ RowWritingStart \/ AppendRow \/ AppendFails
    \/ KeepRow \/ DeleteRow \/ KeepRowUnread \/ DeleteRowUnread \/ ScanUnread
    \/ Drain \/ EndDelete
    \/ WritingFinish \/ SyncNothing \/ SyncPosition \/ SyncKey

\* A table is followed until it is spoilt.
Next ==
    /\ ~spoilt
    /\ \/ StartInsert \/ StartDelete \/ StartDeleteUnread \/ WriterStep
       \/ StartRead \/ ReadRow \/ RestartRead \/ EndRead
       \/ CleanRestart \/ CrashRestart

Spec == Init /\ [][Next]_vars

\* The thread that holds the table runs on.
FairSpec == Spec /\ WF_vars(~spoilt /\ WriterStep)

-----------------------------------------------------------------------------
Locked == disk.mode = "writing"

\* Between operations the position describes the pages: every page before
\* the last is full, the last has mem.row rows, there is no other page, and
\* the files say the same.  Otherwise the next INSERT lands in the wrong page.
\* (A failed append leaves a page short.)
PositionMatches ==
    (op = "idle" /\ ~Locked /\ ~spoilt /\ failures = 0) =>
        /\ DOMAIN disk.pages = 1..mem.page
        /\ \A p \in 1..mem.page :
               Len(disk.pages[p]) = IF p < mem.page THEN RowsLimit ELSE mem.row
        /\ mem.page = 0 => mem.row = RowsLimit
        /\ disk.position = <<mem.page, mem.row>> /\ disk.pk = mem.pk

\* Keys are unique and in the order of insertion, and none is above the last
\* key given: a key is never given twice, not even over a crash or after failed
\* appends, unless the table is spoilt (CrashRestart, DeleteRow).
KeysIncrease ==
    ~Locked /\ ~spoilt =>
        /\ \A i, j \in DOMAIN Contents : i < j => Contents[i] < Contents[j]
        /\ \A i \in DOMAIN Contents : Contents[i] <= mem.pk

\* While DELETE rewrites the table in place, every row it does not erase is in
\* exactly one of: the pages already written, the list in memory, the pages
\* not loaded yet; and the order is kept.
NothingLostInFlight ==
    (op \in {"scan", "drain"} /\ failures = 0) =>
        /\ Rows(disk.pages, 1, iter.page - 1) \o iter.rows
              \o Rows(disk.pages, iter.loaded + 1, iter.cnt)
              = Without(before.rows, erased)
        /\ AtEnd(iter) => iter.loaded = iter.cnt

\* A SELECT that reaches the end has returned the rows of the table, each
\* once and in order, however many pages it had to load; also when failed
\* appends have left short pages, until these use up all that is read ahead.
ReadsWholeTable ==
    (op = "read" /\ AtEnd(iter) /\ failures < (MaxPageCnt - 1) * RowsLimit)
        => seen = Contents

\* Whoever locks the table for writing gives it back (or dies).
WriterLetsGo == (op \notin {"idle", "read"}) ~> (op = "idle" \/ spoilt)

\* INSERT, DELETE and SELECT on the files are the abstract operations, taking
\* effect when the lock is released; a table whose writer died stays what it
\* was, since nobody can open it any more.  This is claimed until an append
\* fails, which takes a key without inserting a row, or the table is spoilt.
Abstract == INSTANCE TableSpec WITH
    rows    <- IF Locked THEN before.rows ELSE Contents,
    lastKey <- IF Locked THEN before.pk ELSE mem.pk,
    where   <- victims
AbstractTable ==
    Abstract!TableInit /\ [][spoilt' \/ failures' > 0 \/ Abstract!TableNext]_<<Abstract!tableVars>>
=============================================================================
