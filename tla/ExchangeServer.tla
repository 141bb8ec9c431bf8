---------------------------- MODULE ExchangeServer ----------------------------
(***************************************************************************)
(* The HTTP server of the exchange (crypto_client_server/server.cpp) and   *)
(* how the first requests fill its tables (crypto_exchange/crypto.cpp).    *)
(*                                                                         *)
(* Every connection has a thread, and every request an object of class     *)
(* Crypto with a connection of its own to the database.  Its constructor   *)
(* initialises the exchange if the table state does not say that it is;    *)
(* this happens outside the semaphore, while other threads are at work.    *)
(* As in Crypto.tla a step is one database request, and what a thread      *)
(* still has to do is a list of tasks.  Requests about orders are there.   *)
(***************************************************************************)
EXTENDS Integers, Sequences, FiniteSets, Bags, BagsExt, SequencesExt

CONSTANTS Threads,     \* the connections
          Configs,     \* the lists of lots a configuration file may hold
          BadNames,    \* the names check_input refuses
          Names,       \* what users call themselves
          MaxRequests, \* bound: HTTP requests altogether
          MaxFaults    \* bound: lost connections to the database and crashes

ASSUME ConfigsAreLists == \A c \in Configs : c \in Seq(STRING)
ASSUME BoundsNat       == MaxRequests \in Nat /\ MaxFaults \in Nat

VARIABLES config,    \* the lots of the configuration file
          states,    \* table state: how many rows it has
          lots,      \* table lot: the names, indexed by lot_pk
          pairs,     \* table pair: the lots' keys, indexed by pair_pk
          users,     \* table user: the names, indexed by user_pk
          balances,  \* table user_lot: a bag of users with lots
          busy,      \* the threads that have a request to answer
          todo,      \* what its thread still has to do
          asked,     \* how many requests there were
          faults,    \* how many faults
          raced,     \* history: an init began before another had done anything
          broken,    \* history: an init was left half-way
          spoilt,    \* history: users added beside an init, or left half-way
          writing, readerCnt, phase, want, overlapped \* the semaphore

db      == <<states, lots, pairs, users, balances>>
history == <<raced, broken, spoilt>>
sem     == <<writing, readerCnt, phase, want, overlapped>>
vars    == <<config, db, busy, todo, asked, faults, history, sem>>

Sema == INSTANCE WRSemaphore WITH Clients <- Threads

-----------------------------------------------------------------------------
(* What the calls expand into.                                             *)

Task(kind) == [do |-> kind]

\* Mutation: the row of table state comes after the lots.
MutInitTasks ==
    [k \in DOMAIN config |-> [do |-> "add_lot", name |-> config[k]]]
        \o <<Task("add_state"), Task("read_lots")>>

\* Crypto::init: state first, so that few others begin to init as well.
InitTasks ==
    <<Task("add_state")>>
        \o [k \in DOMAIN config |-> [do |-> "add_lot", name |-> config[k]]]
        \o <<Task("read_lots")>>

\* Mutation: the inner loop begins at the lot itself.
MutPairFrom(i, j, n) ==
    LET at(a, b) == <<[do |-> "add_pair", pair |-> <<a, b>>, of |-> n]>> IN
    IF j <= n THEN at(i, j) ELSE IF i + 1 < n THEN at(i + 1, i + 1) ELSE <<>>

\* init's loops over the n lots it has read, at the pair of i and j.
PairFrom(i, j, n) ==
    LET at(a, b) == <<[do |-> "add_pair", pair |-> <<a, b>>, of |-> n]>> IN
    IF j <= n THEN at(i, j) ELSE IF i + 1 < n THEN at(i + 1, i + 2) ELSE <<>>

\* Mutation: the name is checked before the lock is taken.
MutPostUser(name) ==
    <<[do |-> "check_name", name |-> name], Task("lock"), [do |-> "add_user", name |-> name]>>

\* post_user, as far as the new user's key.
PostUser(name) ==
    <<Task("lock"), [do |-> "check_name", name |-> name], [do |-> "add_user", name |-> name]>>

\* Crypto::get and get_balance, for the key of a user or, 0, nobody's.
Get(table)      == <<Task("lock"), [do |-> "get", table |-> table]>>
GetBalance(key) == <<Task("lock"), [do |-> "verify", user |-> key]>>

\* request_processing; a target that is unknown, a body that is no JSON or a
\* missing header throw once the object is constructed.
Handlers ==
    {PostUser(name) : name \in Names} \cup {Get("lot"), Get("pair")}
        \cup {GetBalance(key) : key \in 0..Len(users)} \cup {<<Task("unknown")>>}

\* Mutation: the object is constructed after the request was handled.
MutProcessing(handler) == handler \o <<Task("is_init")>>

\* The object is constructed first.
Processing(handler) == <<Task("is_init")>> \o handler

InitKinds == {"add_state", "add_lot", "read_lots", "add_pair"}

Initialising(th) == \E i \in DOMAIN todo[th] : todo[th][i].do \in InitKinds

\* The user whose balances a thread still has to add.
Registers(th) ==
    {todo[th][i].user : i \in {j \in DOMAIN todo[th] : todo[th][j].do \in {"grant", "add_row"}}}

-----------------------------------------------------------------------------
(* The tasks.                                                              *)

Doing(th, kind) == todo[th] # <<>> /\ Head(todo[th]).do = kind

Returns(th, calls) == todo' = [todo EXCEPT ![th] = calls \o Tail(@)]

\* An exception drops the rest; session answers it with an error.
Throws(th) ==
    /\ todo' = [todo EXCEPT ![th] = <<>>]
    /\ broken' = (broken \/ Initialising(th))

\* WriteLock's constructor.
Lock(th) ==
    /\ Doing(th, "lock")
    /\ Sema!Construct(th, "writing")
    /\ Returns(th, <<>>)
    /\ UNCHANGED <<config, db, busy, asked, faults, history>>

\* is_init compares all of the answer with one row.
IsInit == states = 1

CheckInit(th) ==
    /\ Doing(th, "is_init")
    /\ Returns(th, IF IsInit THEN <<>> ELSE InitTasks)
    /\ raced' = (raced \/ (~IsInit /\ \E o \in Threads : IsPrefix(InitTasks, todo[o])))
    /\ UNCHANGED <<config, db, busy, asked, faults, broken, spoilt, sem>>

AddState(th) ==
    /\ Doing(th, "add_state")
    /\ states' = states + 1
    /\ Returns(th, <<>>)
    /\ UNCHANGED <<config, lots, pairs, users, balances, busy, asked, faults, history, sem>>

AddLot(th) ==
    /\ Doing(th, "add_lot")
    /\ LET name == Head(todo[th]).name IN
       IF name \in BadNames
       THEN Throws(th) /\ UNCHANGED lots
       ELSE lots' = Append(lots, name) /\ Returns(th, <<>>) /\ UNCHANGED broken
    /\ UNCHANGED <<config, states, pairs, users, balances, busy, asked, faults, raced, spoilt, sem>>

\* get_all<Lot>: the one row of an empty table, of empty strings, is no lot.
ReadLots(th) ==
    /\ Doing(th, "read_lots")
    /\ IF lots = <<>> THEN Throws(th)
       ELSE Returns(th, PairFrom(1, 2, Len(lots))) /\ UNCHANGED broken
    /\ UNCHANGED <<config, db, busy, asked, faults, raced, spoilt, sem>>

AddPair(th) ==
    /\ Doing(th, "add_pair")
    /\ LET pair == Head(todo[th]).pair IN
       /\ pairs' = Append(pairs, pair)
       /\ Returns(th, PairFrom(pair[1], pair[2] + 1, Head(todo[th]).of))
    /\ UNCHANGED <<config, states, lots, users, balances, busy, asked, faults, history, sem>>

\* check_repeat_username.
CheckName(th) ==
    /\ Doing(th, "check_name")
    /\ IF Head(todo[th]).name \in ToSet(users) THEN Throws(th)
       ELSE Returns(th, <<>>) /\ UNCHANGED broken
    /\ UNCHANGED <<config, db, busy, asked, faults, raced, spoilt, sem>>

AddUser(th) ==
    /\ Doing(th, "add_user")
    /\ users' = Append(users, Head(todo[th]).name)
    /\ Returns(th, <<[do |-> "grant", user |-> Len(users')]>>)
    /\ UNCHANGED <<config, states, lots, pairs, balances, busy, asked, faults, history, sem>>

\* The loop of post_user goes through the lots there are now.
Grant(th) ==
    /\ Doing(th, "grant")
    /\ LET user == Head(todo[th]).user IN
       /\ IF lots = <<>> THEN Throws(th)
          ELSE /\ Returns(th, [l \in DOMAIN lots |-> [do |-> "add_row", user |-> user, lot |-> l]])
               /\ UNCHANGED broken
       /\ spoilt' = spoilt \cup {u \in {user} : \E o \in Threads : Initialising(o)}
    /\ UNCHANGED <<config, db, busy, asked, faults, raced, sem>>

AddRow(th) ==
    /\ Doing(th, "add_row")
    /\ balances' = BagAdd(balances, <<Head(todo[th]).user, Head(todo[th]).lot>>)
    /\ Returns(th, <<>>)
    /\ UNCHANGED <<config, states, lots, pairs, users, busy, asked, faults, history, sem>>

\* An empty table gives a row that is not parsed, a table of rows an answer.
GetTable(th) ==
    /\ Doing(th, "get")
    /\ IF (IF Head(todo[th]).table = "lot" THEN lots ELSE pairs) = <<>> THEN Throws(th)
       ELSE Returns(th, <<>>) /\ UNCHANGED broken
    /\ UNCHANGED <<config, db, busy, asked, faults, raced, spoilt, sem>>

\* user_verification; the request after it only reads.
Verify(th) ==
    /\ Doing(th, "verify")
    /\ IF Head(todo[th]).user = 0 THEN Throws(th) ELSE Returns(th, <<>>) /\ UNCHANGED broken
    /\ UNCHANGED <<config, db, busy, asked, faults, raced, spoilt, sem>>

Unknown(th) ==
    /\ Doing(th, "unknown")
    /\ Throws(th)
    /\ UNCHANGED <<config, db, busy, asked, faults, raced, spoilt, sem>>

\* The handler returns or throws: its WriteLock is destroyed.
Unlock(th) ==
    /\ todo[th] = <<>>
    /\ Sema!FinishWriting(th)
    /\ UNCHANGED <<config, db, busy, todo, asked, faults, history>>

\* session writes the answer.  Whether the client is still there makes no
\* difference to it: the thread reads the next request, or ends.
Answer(th) ==
    /\ th \in busy /\ todo[th] = <<>> /\ th \notin Sema!Writers
    /\ busy' = busy \ {th}
    /\ UNCHANGED <<config, db, todo, asked, faults, history, sem>>

\* Bound: an exchange that two inits fill at once is followed no further.
Work(th) ==
    /\ ~raced
    /\ \/ Lock(th) \/ CheckInit(th) \/ AddState(th) \/ AddLot(th) \/ ReadLots(th) \/ AddPair(th)
       \/ CheckName(th) \/ AddUser(th) \/ Grant(th) \/ AddRow(th) \/ GetTable(th) \/ Verify(th)
       \/ Unknown(th) \/ Unlock(th) \/ Answer(th)

-----------------------------------------------------------------------------
(* Clients and faults.                                                     *)

\* http::read returns a request, on a connection that was open or has just
\* been accepted.
Read(th) ==
    /\ th \notin busy /\ asked < MaxRequests
    /\ \E handler \in Handlers : todo' = [todo EXCEPT ![th] = Processing(handler)]
    /\ busy' = busy \cup {th}
    /\ asked' = asked + 1
    /\ UNCHANGED <<config, db, faults, history, sem>>

\* The thread's connection to the database fails: db_request throws.
LoseDatabase(th) ==
    /\ th \in busy /\ todo[th] # <<>> /\ faults < MaxFaults
    /\ faults' = faults + 1
    /\ Throws(th)
    /\ spoilt' = spoilt \cup Registers(th)
    /\ UNCHANGED <<config, db, busy, asked, raced, sem>>

\* The process dies and is started again; the database has what it has.
Crash ==
    /\ faults < MaxFaults
    /\ faults' = faults + 1
    /\ busy' = {} /\ todo' = [th \in Threads |-> <<>>]
    /\ broken' = (broken \/ \E th \in Threads : Initialising(th))
    /\ spoilt' = spoilt \cup UNION {Registers(th) : th \in Threads}
    /\ writing' = FALSE /\ readerCnt' = 0 /\ phase' = [th \in Threads |-> "idle"]
    /\ UNCHANGED <<config, db, asked, raced, want, overlapped>>

Init ==
    /\ config \in Configs
    /\ states = 0 /\ lots = <<>> /\ pairs = <<>> /\ users = <<>> /\ balances = EmptyBag
    /\ busy = {} /\ todo = [th \in Threads |-> <<>>]
    /\ asked = 0 /\ faults = 0
    /\ raced = FALSE /\ broken = FALSE /\ spoilt = {}
    /\ Sema!Init

Next ==
    \/ \E th \in Threads : Work(th) \/ (~raced /\ (Read(th) \/ LoseDatabase(th)))
    \/ ~raced /\ Crash

Spec == Init /\ [][Next]_vars

\* The threads run and the database answers; clients need not come.
FairSpec == Spec /\ \A th \in Threads : WF_vars(Work(th))

-----------------------------------------------------------------------------
\* The exchange is initialised once, and then has the lots of its
\* configuration under the keys the bots count on (bots/bot.py:95) and a pair
\* for every two of them, unless an init was cut short or two began at once.
\* (Then no request ever finds an initialised exchange, and each adds lots.)
PairsOf(n) == {pair \in (1..n) \X (1..n) : pair[1] < pair[2]}

Before(p, q) == p[1] < q[1] \/ (p[1] = q[1] /\ p[2] < q[2])

Ready ==
    /\ lots = config
    /\ ToSet(pairs) = PairsOf(Len(config))
    /\ \A i, j \in DOMAIN pairs : i < j => Before(pairs[i], pairs[j])

InitialisedOnce ==
    ~raced => /\ states <= 1
              /\ (states = 1 /\ ~broken /\ \A th \in Threads : ~Initialising(th)) => Ready

\* Every user has a balance in every lot, exactly one, once nobody is adding
\* them: a registration that is refused leaves no user without balances
\* behind, except beside an init or a fault.
BalanceForEveryLot ==
    ~raced => \A u \in 1..Len(users) :
        \/ u \in spoilt \/ \E th \in Threads : u \in Registers(th)
        \/ \A l \in 1..Len(lots) : BagIn(<<u, l>>, balances) /\ balances[<<u, l>>] = 1

\* No two users have one name unless two requests were in their WriteLocks
\* at the same time, which the semaphore allows.
NamesDistinct == ~overlapped => IsInjective(users)

\* The first request opens the exchange, whatever becomes of its client, if no
\* fault, refused name, empty configuration or race keeps it from that.
ExchangeOpens ==
    (busy # {})
        ~> (Ready \/ raced \/ faults > 0 \/ config = <<>> \/ ToSet(config) \cap BadNames # {})
=============================================================================
