# A verification project for the exchange and its database

The repository is a small crypto exchange. Bots talk HTTP to an exchange
server; the exchange keeps everything in a database of its own, a separate
process that stores tables in CSV files and executes a subset of SQL. This
directory holds TLA+ models of the parts of both in which concurrency, files or
a sequence of requests can go wrong, the TLC runs that check them on small
instances, and proofs, checked by TLAPS, of the results that matter most.

    bots ── HTTP ──> CryptoServer        ExchangeServer.tla, a thread per connection
                        │  WRSemaphore   WRSemaphore.tla
                     Crypto              Crypto.tla
                        │  DBClient
                       TCP               DBServer.tla
                        │
                     DBServer            a thread per connection
                        │
                  Parser, Database       Parser.tla, ConditionParser.tla, Requests.tla
                        │
                     Table ── TState     TableLock.tla   (who may use it)
                        │
        IteratorByRows, TFileManager     TableStore.tla  (what is in it)
                        │
          N.csv, _position, _pk, _lock

    under all of the database:           List.tla, DynamicArray.tla,
                                         BinTree.tla, HashTable.tla

To check a run: `tlc -config <cfg> <MC module>.tla`, with the pair that `PROJECT.json` lists for it; to check the proofs:
`tlapm <Component>Proofs.tla`. `PROJECT.json` maps every definition to the
source lines it stands for.

## Inventory

| Component (source) | State | Operations | What is hard | What makes it correct | Module |
|---|---|---|---|---|---|
| Table lock (`database/table/table_state.*`) | `mode_`, `readerCnt`, the lock file, a mutex, one condition variable | `reading_start/finish`, `writing_start/finish`, guards, restart | two kinds of waiters on one condition variable; a file operation that throws half-way; a crash | exclusion, no lost wakeup, everybody is served | `TableLock` implements `ReadWriteLock` |
| Table storage (`table_state.*`, `table.*`, `file_manager.*`) | position, key, `rowWriting`, `synchronized`; their files and the pages | `insert_back`, `sync`, restart | memory, three small files and the pages must agree after every step that fails | a table is a sequence of rows; keys are unique | `TableStore` implements `TableSpec` |
| Row iterator, DELETE (`iterator_by_rows*`, `delete_iterator.cpp`) | the list in memory, the cursor and five counters | next, erase, restart, reset | DELETE rewrites pages behind a cursor that reads ahead in the same files | no row is lost, none comes twice, order is kept | `TableStore` |
| Exchange semaphore (`write_read_semaphore.h`) | `writing`, `readerCnt` | the two locks | it does not exclude two writers | what is left of exclusion; nobody sleeps for ever | `WRSemaphore` |
| Exchange (`crypto.*`, `checking_errors.cpp`, `crypto_elements/`) | tables user, user_lot, order | register, place an order, match, cancel | a request is many database requests, none of which is undone by an exception | value is conserved; the book is not crossed; who can pay is served | `Crypto` |
| HTTP server (`crypto_client_server/`), first requests (`crypto.cpp`, `configuration.cpp`) | a thread per connection, a `Crypto` object per request | read a request, init, handle it, answer | the lazy init runs outside the semaphore beside other requests; database connections get lost | initialised once; every user has every balance; names are distinct; the exchange opens | `ExchangeServer` |
| Database server and client (`database/client_server/`) | sockets, one receive buffer, `clientsCnt`, `exit` | connect, request, size, Ok, answer, exit | all threads share the buffer; a reference to a local variable; dying clients | the answer is the client's own; the count is right; the exit command waits | `DBServer` |
| Database requests (`database/database.cpp`) | the catalogue of tables | ADD TABLE, INSERT, DELETE, SELECT, SELECT INTO | a request holds several table locks | SELECT sees its tables as they were at one moment; only rings of SELECT INTO deadlock | `Requests` |
| Cross and filter iterators (`database/iterators/`) | a row iterator per table | next, restart | empty tables | the product, filtered, in order | `Requests` |
| Parser (`database/parser/`) | none | tokens to requests and conditions | one position moves through all lists; precedence of AND and OR | what is executed is what was written | `Parser`, `ConditionParser`, `Requests` |
| Containers (`database/data_struct/`) | lists, dynamic arrays, trees, hash tables | insert, erase, move, swap, copy, clear, rehash | pointers closed by a part of the object; elements moved one by one; look-ups beside an addition | rings, sequences, a copy is its source, a map | `List`, `DynamicArray`, `BinTree`, `HashTable` |
| Utilities, bots, examples | – | text, clients, sample data | – | – | not modelled |

## The modules

**`TableLock`** is the class `TState` as a monitor. Its unit of concurrency is
the `TStateGuard`, since one SELECT may own two guards of a table. A monitor
function holds its mutex from the first line to the last except in `cv.wait`,
so an action is what a guard does between taking the mutex and releasing it or
falling asleep: `Construct` and `Recheck` (the first and the later passes through
the wait loop) lead to `Enter`, `EnterFails` or `Sleep`; `ReadingFinish` and
`WritingFinish` are the functions of that name. `notify_one` is a choice of one
sleeper; a wakeup may also be spurious. `CrashRestart` is the death of the process
at any moment and its restart, which takes the mode from the lock file.
`ReadWriteLock` is the abstract lock, two sets of holders.

**`TableStore`** is what the guard protects. `mem` is TState's memory, `disk` the
files, `iter` the fields of `IterImpl`; `op` tells where the running operation
is. One operation runs at a time: TableLock shows that a writer is alone, and
readers share nothing. An action is one file operation or one step of the
iterator; everything `next()` does — counting, writing the page behind the
cursor, loading one ahead — is one action, since nothing else can see the table
meanwhile, but a crash may come between any two actions. A row is its primary
key, a condition the set of rows it holds for. `TableSpec` is what a table
promises: a sequence of rows with ever larger keys. The refinement maps a locked
table to what it was when it was locked, so that the abstract operation takes
effect when the lock file is freed.

A page may be unreadable. `next_page_load` then throws, and what follows depends on
where it was called. In `next()` and `erase()` of a DELETE (`KeepRowUnread`,
`DeleteRowUnread`) the exception destroys the iterator, whose `reset` walks on to the
end and writes what is left: the DELETE has treated the first rows of the table, and
`TableSpec` allows just that (`StopDelete`). Before anything was deleted, or in the
constructor, nothing is written (`ScanUnread`, `StartDeleteUnread`). A SELECT ends early
(`EndRead`). In `reset` and `restart`, which are `noexcept`, the process ends: the crash of the
model. A condition cannot stop a DELETE half-way: `DeleteIterator::get_operand` is
`noexcept` too. `MaxPageCnt`, the number of pages read ahead, is assumed to be at least
three (`ReadsAhead`): with two, a DELETE that cannot read a page overwrites it before its
rows are in memory. The code's constant is fifty (`iterator_by_rows_impl.cpp`).

**`WRSemaphore`** models the exchange's semaphore like TableLock models the
table's. `overlapped` is a history variable: two writers have been inside at once.

**`Crypto`** extends it (by INSTANCE) with what the threads do inside. A database
request is one step; a thread's remaining work is a list of tasks, into which
`create_order`, `closed_order`, `deal` and `delete_order` expand as the code
calls them, and which an exception drops without undoing anything. Quantities
and prices, doubles in the code, are integers, and what rounding does is left out. The
handlers pass on whatever a client sends, and so does `ClientOrders`: `Offers` may have any
quantity and price, negative ones and zero included, a type that is neither sell nor buy,
which the code treats as a purchase nobody searches for, and a pair that there is not,
whose lookup throws after the order was inserted (`NoLot`). The history `odd` says that
somebody posted an order with a negative number, or without the money for it; `refused`,
that a change of a balance has thrown; `undone` are the closed orders that were cancelled. The tables lot, pair and
state never change after the start and are constants. The requests that only
read are left out; the lazy initialisation is ExchangeServer's.

**`ExchangeServer`** is everything that comes before the orders: the threads of
the HTTP connections (`busy`: a request is being answered), the `Crypto` object
each request constructs, `init`, `post_user`, and the requests that read a table or
a balance. Tasks and the semaphore are as in `Crypto`. `init` runs in the
constructor, outside the semaphore, while other threads register users; which lots
a registration sees depends on how far the init has come. A lost database
connection is an exception at any task; a crash loses the tasks of all threads and
keeps the tables. The histories say what has happened: `raced`, an init began
before another had done anything; `broken`, an init was cut short; `spoilt`, the
users registered beside an init or not to the end. The rest of a raced behaviour is
not followed: two rows in table state are never equal to the one `is_init` expects, so
every later request initialises again. A connection is not told from the next one on
the same thread. Requests about orders are in `Crypto`. The HTTP and JSON libraries
are external.

**`DBServer`** is the connection between the two processes. A message is one
`send`, taken by one `recv`, except an answer, of which `recv` may return a part.
A reception is two steps, `recv` into `buff` and the construction of the string,
because the buffer belongs to the server object and its threads use it without a
lock. The end of the server takes three steps. `Stop` is the return of `wait_loop`, after
`check_exit` has found no client counted; it ends no thread, since they are detached.
`main` then destroys the server and the database and returns, or dies on the way
(`ProcessEnds`), and only this ends the threads. A connection accepted before, whose
thread had not been counted yet, goes on in between (`StartLate`) with objects that are
being destroyed: it finds any number for its socket, and any text in the buffer (`Texts`).
The history `main.late` are these connections.
The history `flaws` records the four weaknesses of the code when they show: a
buffer used by two threads (`mixed`), a thread that read `clientSock` — captured by
reference — after the next `accept` (`wrong_socket`), an answer in parts (`partial`), and a
thread that began after the exit (`destroyed`).
Left out: requests and other messages in parts or glued together, messages
longer than the buffer, descriptor numbers given out again, data that a reset
connection discards, SIGPIPE (see the hazards). `Start` reads the socket and
counts the client in one step; between the two no other thread can see the
difference.

**`Requests`** is what the database does with requests that several of its
threads execute: INSERT, DELETE, SELECT over several tables, SELECT INTO, ADD TABLE. A table is
what `TableSpec` says of it, a sequence of values; a lock is its set of readers,
as in `ReadWriteLock`. INSERT and DELETE, which hold one lock and take effect when
they give it back, are one step. A SELECT takes its locks one by one (`Lock`), keeps
them to its end, and each step of `CrossIterator` and `FilterIterator` is an action:
`Skip`, `Select`, and `InsertInto`, which waits for a table while the iterators
hold theirs. `Die` is the end of the process: a condition that begins or ends with AND
or OR follows a null pointer, and a DELETE that names an unknown column throws
out of a `noexcept` function. `width` is the
catalogue: the tables that exist and their number of columns, which decides whether
a row of values fits. A client asks with tokens, and `Ask` takes what the parser makes
of them. Left out: tables whose columns differ from one another.

**`Parser`** is that parser: an operator per parsing function, over a sequence of
tokens, in which a position stands for `tokenIt`. A thrown exception is `Wrong`, a
token read behind the last one `Beyond`. **`ConditionParser`** is the tree of a
condition; `check_and_get_first` copies the first word before it asks whether there is
one, so words that end before a token or within a comparison are `Short`: the front of an
empty array was read, and the request is refused or kills the server. They reach RECURSIVE operators and serve TLC only. Beside each stands the
same language said without a parser: `IsRequest` and `Written` say how a request is
written, `Means` what the words of a condition mean (alternatives of conjunctions,
without a tree). Left out: the tokenizer.

**`List`**, **`DynamicArray`**, **`BinTree`** and **`HashTable`** are the containers the
database is built from, each as pointers or cells beside what its user believes to
be in it (`content`, `items`, `source`, `present`). `List` is a ring closed by an
`endHead` inside the list object, which a move or a swap cannot take along. In
`DynamicArray` the loops that move or construct elements one at a time are taken step by
step, and a cell that holds no object is told from one whose value was moved away.
`BinTree` is the copy constructor and `clear`, which walk with a stack. `HashTable` is the
catalogue `Database::tables`, over FList and the bucket array: threads look up, and
ADD TABLE adds and rehashes, without a lock. Two additions at once are a data race,
after which the model stops (`raced`); a look-up that runs during a rehash may find
anything (`torn`). A look-up ends with two reads: `find_prev_if` stops in front of a place
(`LookNext`), and the comparison with `end()` in `has_table` reads that place once more
(`LookCompare`). When another table is added there in between (`met`), a name that nobody
added is found. `MCContainers` puts the four side by side; a behaviour is one of one
of them.

The MC modules add the values TLC needs: symmetry, crash points, clients, requests,
configurations.

## The runs

| Run | Question and bounds |
|---|---|
| `lock` | Four guards, both faults. Four are enough for two readers, a woken and a parked guard at once. `MutualExclusion`, `NoLostWakeup`; `OrphanIsForever` says that a write mode left behind by a crash or by a lock file that could not be opened stays until a restart finds another mode; `AbstractSpec` is the refinement; `EverySleeperServed`: a guard that sleeps gets the table, under the premises its definition names. Without them it may starve: there is no queue, and an orphaned mode keeps everybody out. |
| `store` | Pages of two rows, three pages read ahead, seven keys: up to four pages, one more than is read ahead. Every subset of the rows as the condition of a DELETE, a page that cannot be read whenever one is loaded, two failed appends, restarts, and a crash at every point (`CrashAnywhere`). The refinement of `TableSpec` (`AbstractTable`), keys that only rise, positions that fit the pages, rows in flight during a DELETE, a SELECT that reads the whole table, and a writer that lets go. |
| `semaphore` | Four clients: `ExclusionUntilOverlap`, `NoLostWakeup`, `EverySleeperServed`. |
| `crypto_sequential` | One connection, two users, three order rows, quantities and prices 1 and 2, and beside them quantities 0 and −1, the price −1, an unknown type and an unknown pair (`AnyOffers`), whether the client has the money or not, with symmetric user names (`NameSymmetry`: no request does more with a name than compare it): full and partial fills, trades at the newcomer's price, an order meeting two others, cancellation, also of closed orders. `Conservation` and `TradesBalance` hold until a change of a balance is refused, `NoCrossedBook` always, and `PayingClientServed` says that none is refused while nobody posts an odd order. `Conservation`, `TradesBalance`, `NoCrossedBook`, `PayingClientServed`. |
| `crypto_cancel`, `crypto_unfunded`, `crypto_race` | violated, see Findings. |
| `dbserver` | Two connections, three requests, dying clients, the exit command at any time, and threads that go on or begin after it. Two connections are what a shared buffer and a replaced variable need. `CountIsThreads`: the count is right as long as there is a server. `StopsIdle`: what the exit cuts off had not been counted when `check_exit` looked. `OwnAnswers`, until one of the four weaknesses shows; `Answered`, with all of them but `wrong_socket`. |
| `dbserver_blame` | violated, see Findings. |
| `requests` | Two threads, three requests altogether, three tables with two, two and no rows and one that may be added. The first request may be any of eleven sensible ones, of eleven strange ones, or one with a slip: a token left out or written twice at any place. `SelectIsProduct`: what a SELECT returns is the product of its tables, in order, filtered, as they were when it locked the last of them, whatever others ask for meanwhile. `DeleteIsExact`: AND binds before OR, whichever comes first. `RefusedRightly`: whoever is refused has asked nonsense. `UnderstoodAsWritten`: what is executed is what was written, word for word up to commas. `EveryRequestAnswered`: only SELECT INTOs that wait for tables which they or one another read keep anybody waiting. |
| `containers` | Two lists of three nodes, two arrays of up to three elements, all trees of depth three, a hash table of five keys and two threads that starts with two buckets of one element and is rehashed twice. `RingIsContent`, `ElementsAreItems`, `CopyIsSource`, `ClearEnds`, `LookupsRight`, `TableIsWhole`. `LookupsRight`: outside a rehash a table that is there is found, and one that is not there only in the case `met`. |
| `exchange_start` | Two threads, three requests, one fault (a lost database connection at any task, or a crash), and configurations of three lots, of two lots one of which is refused, and of none. Two threads are what an init beside a registration needs; the third request comes after both. `InitialisedOnce`, `BalanceForEveryLot`, `NamesDistinct`, `ExchangeOpens`. |

No run of the first kind would show anything if its bound kept the interesting
case away; every property therefore has a mutant of the code, a plausible bug
in one definition, that the same run must find (`mutants` in `PROJECT.json`).

Not every type invariant is run: those of TableLock, WRSemaphore, DBServer and List
are proved, and so is the semaphore's `ReadersKeepWritersOut`.

**Deadlock** is checked in four runs (`lock`, `semaphore`, `crypto_sequential`,
`crypto_cancel`). In `dbserver` and `dbserver_blame` the server really stops, on the exit
command. In `requests` the clients stop asking, the process may die, and the rings of
SELECT INTO are deadlocks. In `exchange_start` the clients stop asking as well, and a
raced exchange is not followed. In `store` the keys run out, and after a crash under
a write lock nobody can open the table. In `containers` a cleared tree is gone and a
raced hash table is not followed. In `crypto_unfunded` and `crypto_race`, which have no
cancellations, the bounds on users and orders are reached.

**Fairness.** TableLock, WRSemaphore: a notified thread gets the mutex in the end,
and a request that holds the lock ends; nothing is assumed of new requests and
of spurious wakeups. TableStore: the thread that holds the table runs on, which is the
scheduler's duty; it takes no choice away, since its steps are bounded by the table's
length (nothing is assumed of a table that is `spoilt`). DBServer: an accepted connection's thread runs, the main
thread accepts and, once it can, leaves its loop (its `select` times out) and comes to the
end of `main` (`ProcessEnds`: nothing there waits), and a client in `recv` takes what
arrives. No fairness of requests, of the exit command or of
deaths. Requests: a thread with something to do runs, and a waiting one gets a table
that is free, which `TableLock` shows (`EverySleeperServed`) as long as no new readers
come for ever; here requests are bounded. ExchangeServer: a thread with a
request goes on, so the database answers it or its loss is noticed; nothing is assumed
of clients and faults. Containers: a member function of a tree runs to its end. Crypto
has only safety properties.

## What is proved

Proofs hold for every finite set of guards, clients or connections
(`GuardsFinite`, `ClientsFinite`), every subset of the faults (`FaultsKnown`), any
number of requests (`RequestsBounded`), every set of nodes apart from the lists
(`ListAssumption`), configurations that are lists of strings (`ConfigsAreLists`), and
for the table every page size, every number of pages read ahead from three on, every
largest key and every number of failed appends (`RowsLimitPositive`, `ReadsAhead`,
`BoundsNat`), crashes anywhere and DELETE with any condition; for the exchange every
number of connections, users and orders, any kinds of requests, and any integers, types and
pairs in the orders, in any combination (`KindsKnown`, `AmountsAreNumbers`); for the other
containers
arrays of any length whose values include the default one (`ArraysAssumption`), trees of any
depth, and hash tables with any finite set of keys, any number of threads, of buckets at
first and of nodes in a bucket, so long as the model has as many arrays of buckets as the
keys can need (`TableAssumption`). A key is its own hash value there, so collisions are
those of the modulus. They use no other assumption.

- `TableLockProofs`. `LockInv`: a living reader means mode reading, a living
  writer mode writing, one writer at most, the counter is the number of readers,
  and a free table with a sleeper has a woken guard. Exclusion alone is not
  inductive: a second writer is kept out by the mode, so the invariant has to tie
  the mode to the holders. Only one direction holds, since a crash or a failed
  `set_mode` leaves a mode without holder. From it follow `TypeCorrect`,
  `Exclusion`, `CountCorrect`, `WakeupsNotLost`, the action property
  `OrphanPermanent`, and `ImplementsLock`: each step of the monitor is a step of
  `ReadWriteLock` or a stutter.
- `WRSemaphoreProofs`. `SemInv`: the counter is the number of readers; the flag means
  that a writer and no reader is inside; until two writers overlap, a writer also
  means the flag. `Exclusion`, `WakeupsNotLost`, `ReadersProtected`, `TypeCorrect`.
  What is proved of exclusion is what the code has: it ends with the first overlap.
- `DBServerProofs`. `ServerInv`: the count is the number of threads between the
  constructor and the destructor of their `PGuard` (`Counted`), and no thread starts twice,
  for which `QueueInv` says that a waiting connection is new and waits once. `LateInv`: once
  `wait_loop` has returned, which needs the count to be right, only the threads it had
  started and not counted run. `CountCorrect`, `ExitWaits`. `TypeCorrect` adds `FieldsInv`: when a thread reads
  `clientSock` some connection has been accepted, so it always serves a socket; that
  the count never exceeds the clients follows from what it counts. `AnswersAreOwn` is
  `OwnAnswers`: until one of the four weaknesses shows, whoever finishes has the answer
  to its own request. That a client has a right answer is not inductive, since it says
  nothing of what is still on its way; `TalkInv` does: each connection is served by its own
  thread, and the two of them are at one of eight stages of the exchange of
  messages, each of which says what either channel, the buffer and the two programs hold.
- `ContainersProofs`, in four parts.

  Lists. `ListInv`: every list is a ring through exactly its nodes, both ways; no
  node is in two lists or twice in one; a destructor erases from the front. The second
  part makes the first inductive: linking one node must not touch another ring. One
  lemma per operation (`EmplaceKeeps`, `UnlinkKeeps`, `MoveConstructKeeps`, `SwapKeeps`
  and so on) rests on what `Inserted` and `Removed` do to a sequence.
  `ListInvariant`, `ListsAreRings`, `ListTypeCorrect`.

  Arrays. `ElementsAreItems` says nothing while elements are on the move, so `ArrayInv` says
  of each kind of job what it has still to bring or to take (`Filled`, `Pushing`,
  `Resizing`, `Shifting`, `Moving`, `Halves`). `ArraysHoldItems`.

  Trees. Only a finished copy can be compared with its source. `TreeInv` says of an
  unfinished one (`Copying`) that what is copied is right, and that what is missing is at
  `rhsIt`, on the stack or below something that is. That nothing is then missing
  when the stack is empty is an induction on the length of paths. `CopiesAreSources`.

  Hash tables. `TableInv` says that behind each head hangs a chain of keys without
  repetition (`Linked`), that each key added hangs where a look-up goes, or during a rehash
  perhaps already where it will go (`Complete`), and that a thread on its way through a
  chain has not passed its key, and one that has found its place still has it in front of it
  unless a node was added there (`OnTheWay`). The buckets a rehash has left behind it are
  empty, `size_` and the key not counted yet are the number of keys, and one
  thread adds (`OneAdds`). All of it ends when two additions overlap. `Links` and `Unlinks`
  are about `insert_after` and `erase_after`, and each action has a lemma. The
  recursion by which `TableIsWhole` reads a chain has one solution (`ChainIs`), which
  is the chain of the invariant. `TableInvariant`, `LookupsAreRight`, `CatalogueIsWhole`.
- `ExchangeServerProofs`. `NameInv`: in what a thread still has to do, the request that
  adds a user comes right after the check of its name and the check right after the lock
  (`OrderInv`); a thread whose check is next, or done, holds the write lock, and once it
  has checked, the name stays free until write locks overlap. `NamesDistinct` alone is
  not inductive: a thread may be about to add a name somebody else has just taken.
  `LockInv` says what the semaphore is to a program that never locks for reading.
  `NameInvariant`, `NamesStayDistinct`, with any faults and any number of inits.

  `OneInit` is `InitialisedOnce`. It speaks of the end of an init; `InitInv` says how one
  gets there. Before table state has its row every thread is at the beginning of what it
  does, and one at most has decided to initialise (`Uninitialised`); after it no other can
  begin, and unless an init was cut short either all is there or one thread completes it
  (`Completes`): its tasks are the lots the table does not have yet and the end of init
  (`AddingLots`), or a pair, and the pairs in the table are those that come before it
  (`AddingPairs`, with the order `Before`). `InitInvariant`.

  `EveryLotHasBalance` is `BalanceForEveryLot`. `BalanceInv`: no user is registered by two
  threads, a thread that is about to add one registers nobody, and the table has balances
  of users only (`RegisterInv`); and every user is `Served`: spoilt, or its balances are
  all there (`Settled`), or the rows a thread has left to add are those the table lacks
  (`Granting`, `Adding`). `Settled` and `Adding` say that nobody initialises the exchange,
  for then the lots stay what they are, and that needs `InitInv`: once there are
  users, no init begins. `BalanceInvariant`.
- `TableRowsProofs` and `TableStoreProofs`: all safety of the table. The first module is
  about values. `SetInduction` states induction over numbers as a fact about a set, which
  the provers can apply; with it `FlatStep` and its neighbours say what `FlattenSeq`
  computes, and from that follows what `Rows` and `Without` do. `Good(pages, page, row,
  pk, short)` says that pages and a position are a table: the rows ascend, none is above
  `pk`, and between them and the position are at most `short` rows missing, the number
  of appends that have failed. `Walks` says where an iterator is that has passed so many
  rows: at the row that follows, which is in its list unless every page is loaded.
  `Whole` says that the pages written, the list and the pages not loaded are together the
  rows that are left; that holds also when the next page cannot be read, because whatever
  was not loaded is not overwritten. One lemma each says that `next()`, `erase()`, the constructor and
  `reset()` keep them (`AdvanceWalks`, `AdvanceWhole`, `EraseWalks`, `EraseWhole`,
  `InitWalks`, `ResetGood`).

  The second module is about steps. None of the checked properties is inductive:
  `PositionMatches` says nothing of the files while an operation runs, and a crash shows
  them; `KeysIncrease` speaks only of a table nobody writes; `NothingLostInFlight` does
  not say that the row under the cursor is the one that comes next. `IInv` has a part for
  each point of an operation (`InsertInv`, `AppendInv`, `ReleaseInv`, `SyncInv`,
  `SyncKeyInv`, `ScanInv`, `DrainInv`, `ReadInv`), made of `Settled`, `Appending`,
  `Finished`, `HalfSynced` and `Scans`, which say what memory and files are to one another.
  Each action has a lemma (`SyncPositionKeeps`, `DeleteRowKeeps`, ...).
  `Invariant`, `TypeCorrect`, `PositionsMatch`, `KeysAscend`, `NothingIsLost`, `ReadsAll`,
  and `ImplementsTable`: every step is a step of `TableSpec` or none. A DELETE of `TableSpec`
  is over only when no row is left that it should remove (`Answer`), and it should remove
  fewer only when a page could not be read.

- `CryptoProofs`: all safety of the exchange, for any number of connections. What a
  connection has to do is split into operations and, behind them, decisions (`Plan`): the
  operations say what will happen to the tables, a decision only adds operations.

  `TypeInv` holds whatever the connections do to each other (`TypeCorrect`). All else
  ends with the first two writers in the semaphore together, as `crypto_race` shows, so the
  other theorems say `~overlapped`. `LockInv` says that until then one connection
  works, and `SafeInv` that what it leaves is in order. None of `Conservation`,
  `TradesBalance` and `NoCrossedBook` is inductive: they speak of tables at rest and say
  nothing of the middle of a deal. `Good` says what the tables are together with what is
  still to be done: `RowsGood`, one balance row for each user and lot, where a row that is
  being replaced or was not yet added counts (`RowReplaced`, `RowMissing`, `RowsMissing`);
  `BookGood`, no two orders in the book, or about to be put there, could trade, and what the
  client's order could trade with is on the list it goes through (`Faced`); until a change of a
  balance is refused, `MoneyGood`; and until an odd order is posted, `UserGood`. The two are
  apart because the sums do not depend on signs or on anybody's money, and the order of the
  debits does.

  Both treat what is to be done as a path (`Path`): each task moves an account by
  its flow. The books of a lot (`LotGood`) and of the trades (`TradeGood`) end balanced. A
  user's balance follows a path that stays above zero and ends where the
  client can pay for the rest of its order (`UserGood`), so no debit is refused. A deal moves a lot's
  account by what the order it deletes held back, and that of the trades not at all
  (`LotNets`, `TradeNets`); `UserDeal` says that its debits are covered in the order in
  which the code makes them. `UndoneGood` says that a closed order is cancelled
  once. The sums of `Conservation` are defined by recursion; `SumsExist`,
  `SumsAgree` and `AmountRemove` give them by induction on the size of the sets what they need:
  one value, and a term for each element whatever the order.

  `AllIsInOrder` has the invariant, `BalanceRowsUnique`, `BookNeverCrossed`,
  `PayingClientsServed`, `ValueConserved` and `SalesMatchPurchases` what follows. With
  one connection nothing overlaps, and `OneConnectionIsSafe` has all five without that
  condition.

Only model-checked: all liveness properties (beyond the prover; `ClearEnds` of the trees
is one of them), and Requests with its parser, whose conditions
are parsed and computed by recursive operators.

## Findings

1. `crypto_cancel` — `Order::search_one` (`crypto_elements/order.cpp:73`) puts the user's
   id where the query compares the order's and the other way round. A user is told
   that the order does not exist, unless the two numbers are equal.
2. `crypto_unfunded` — `create_order` inserts the order before it withdraws the
   money. When that is refused, the client gets an error and the order stays open.
3. `crypto_race` — `start_writing` does not wait for other writers, so one thread
   looks for a balance row between another's delete and insert.
4. `dbserver_blame` — a thread finds another client's message in the shared buffer
   and blames its own client, which had sent Ok.

## Limits worth knowing

The runs say what they leave out, and some of it is where the code is weak:

- In `store` a crash may come everywhere, but when it comes between the release of the
  lock file and the end of `sync` while the files are behind, the restarted server goes on
  from an old position and gives a key again; and a DELETE that erases a row after a
  failed append takes back a key that is in use. Both set `spoilt`, after which the
  properties claim nothing more.
- After a crash under the write lock nobody can open the table any more; that is
  why its half-written pages can do no harm, and `OrphanIsForever` says it.
- SELECT finds every row on short pages only while fewer than
  `rowsLimit * (maxPageCnt - 1)` appends have failed; the run stays below it.
- `Conservation` adds what `undone` orders were paid twice: a closed order can be
  cancelled and is refunded.
- The code checks no sign. An order with a negative quantity is accepted, pays its owner
  and lets a deal stop half-way: A sells −5 at 1, B buys 10 at 1 and has the money, the
  smaller quantity is −5, and the debit of B's closed part, which is a credit turned
  around, may be refused. `PayingClientServed` is stated until the first such order, and
  the two sums until something is refused.
- `RefusedRightly` has no converse: a condition that begins or ends with AND or OR is
  accepted, and kills the server when it is computed.
- A page that cannot be *written* in the middle of a DELETE is not modelled. The destructor
  would then put the rows of two pages into one file, with a row number beyond `rowsLimit`.
- Where the code does go wrong, no property claims otherwise, and the hazard is listed as
  uncovered: the crash between the lock file and `sync`, the DELETE after a failed append,
  the second refund of a closed order, two inits or two registrations of a name at once,
  a thread with another's socket, the row of blanks.
- SELECT over an empty table yields rows of blanks; `SelectIsProduct` is about tables with
  rows. The rows SELECT INTO inserts are views of a destroyed string (`Garbage`).
- `EveryRequestAnswered` leaves out the rings of SELECT INTO (`IntoCycle`), which the
  code does not prevent; the smallest is a SELECT INTO one of its own tables.
- `ReadLock` is never used by the exchange, so ReadersKeepWritersOut is about
  the class, not about this program.
- `ExchangeServer` stops at a raced init, and says nothing of the balances of users who
  register beside an init. An init that was cut short is never taken up again, since its
  row in table state is there.
- `NamesDistinct` ends with the first two writers inside together (`overlapped`), like
  the semaphore's exclusion.
- A table without rows gives one row of blanks, so GET of lots or pairs throws while
  the table is empty (`GetTable`), and a registration does too (`Grant`).
- INSERT INTO and ADD TABLE without a name read behind the last token, and a condition
  that breaks off reads the front of an empty array (`Beyond`), which is undefined: in the
  model the request is refused or the process dies.
- ADD TABLE with the name of a table that is there answers Ok and changes nothing
  (`AddTable`). A column name twice in an ADD TABLE makes `create_table_header`
  (`file_manager.cpp`) write outside its array; the runs add tables of one column.
- `HashTable` says nothing of two additions at once and of what a look-up finds during
  a rehash; the code allows both. An addition between the two reads of a look-up makes it
  find a table that is not there; `LookupsRight` excepts exactly this case.
- The keys of users (`crypto_elements/user.cpp`) are taken to be distinct. `random_string`
  gets its arguments the other way round there, and its generator is shared by the
  threads without a lock; collisions and the data race are left out.
- A crash while a new table's files are created, and while a page is being
  truncated and rewritten by one `FWriter`, is not modelled.

## Not modelled

- Text: the tokenizer, formatting of rows and headers, logging, HTTP and JSON, the
  utilities. The models say which texts are refused where that decides something
  (`IsNumber`, `BadNames`, the row of blanks), not how.
- The creation of a table's files and headers (`file_manager.cpp`, the first
  construction of a `TState`). A crash in it leaves a directory that no later start
  repairs.
- Of the containers: `DynamicArray::emplace` and `insert` in the middle, which nothing
  instantiates; `Queue`, which nothing uses; copies of `FList`. Iterators are positions.
- Memory lost without consequence: requests the parser allocated before it threw.
- The bots and the examples, which are clients and data.
- SIGPIPE, and descriptor numbers that are given out again, in DBServer.

## Plan

1. TableStore with the creation of tables and of their directories.
2. DBServer with SIGPIPE; Crypto over connections that DBServer loses between the two
   halves of a balance change.
3. `Requests` over `HashTable` instead of the catalogue as a function.
