------------------------ MODULE ExchangeServerProofs ------------------------
(***************************************************************************)
(* What the server of the exchange keeps for every set of threads, names   *)
(* and lists of lots and any number of requests and faults.                *)
(*                                                                         *)
(* NamesStayDistinct: users' names are distinct, because                   *)
(* check_repeat_username and the request that adds the user are one as     *)
(* long as WriteLocks exclude one another.                                 *)
(*                                                                         *)
(* OneInit: the exchange is initialised once, and then as its              *)
(* configuration says.  One init is at work, and how far it is can be seen *)
(* from what is left of it: lots, then pairs.                              *)
(*                                                                         *)
(* EveryLotHasBalance: every user has one balance in every lot.  One       *)
(* thread registers a user; what is left of its rows are those the table   *)
(* does not have yet.                                                      *)
(***************************************************************************)
EXTENDS ExchangeServer, SequenceTheorems, TLAPS

Word == Names \cup STRING

Tasks ==
    [do : {"lock", "is_init", "add_state", "read_lots", "unknown"}]
        \cup [do : {"add_lot", "check_name", "add_user"}, name : Word]
        \cup [do : {"add_pair"}, pair : Nat \X Nat, of : Nat]
        \cup [do : {"grant", "verify"}, user : Nat]
        \cup [do : {"add_row"}, user : Nat, lot : Nat]
        \cup [do : {"get"}, table : {"lot", "pair"}]

DataInv ==
    /\ todo \in [Threads -> Seq(Tasks)]
    /\ config \in Seq(Word) /\ lots \in Seq(Word) /\ users \in Seq(Word)

\* Nobody locks for reading, so a WriteLock is got at once; two are in it
\* at the same time only after an overlap.
LockInv ==
    /\ phase \in [Threads -> {"idle", "holding"}]
    /\ want \in [Threads -> {"reading", "writing"}]
    /\ \A th \in Threads : phase[th] = "holding" => want[th] = "writing"
    /\ readerCnt = 0
    /\ ~overlapped => \A a, b \in Sema!Writers : a = b

\* A user is added right after the check of the name, which comes right after
\* the lock is taken; who has checked holds the lock, and until writers
\* overlap the name is still free.
OrderOf(th) ==
    \A i \in 1..Len(todo[th]) :
        /\ todo[th][i].do = "check_name" =>
              IF i = 1 THEN th \in Sema!Writers ELSE todo[th][i - 1].do = "lock"
        /\ todo[th][i].do = "add_user" =>
              IF i = 1
              THEN /\ th \in Sema!Writers
                   /\ ~overlapped => \A k \in 1..Len(users) : users[k] # todo[th][1].name
              ELSE /\ todo[th][i - 1].do = "check_name"
                   /\ todo[th][i - 1].name = todo[th][i].name

OrderInv == \A th \in Threads : OrderOf(th)

NameInv == DataInv /\ LockInv /\ OrderInv /\ NamesDistinct

\* The head of what is to be done is replaced by calls.
LEMMA ReturnsIsPop ==
    ASSUME DataInv, NEW th \in Threads, todo[th] # <<>>, NEW calls \in Seq(Tasks),
           Returns(th, calls)
    PROVE  /\ todo' \in [Threads -> Seq(Tasks)]
           /\ \A o \in Threads \ {th} : todo'[o] = todo[o]
           /\ Len(todo[th]) \in Nat \ {0}
           /\ Len(todo'[th]) = Len(calls) + Len(todo[th]) - 1
           /\ \A i \in 1..Len(calls) : todo'[th][i] = calls[i]
           /\ \A i \in 2..Len(todo[th]) : todo'[th][Len(calls) + i - 1] = todo[th][i]
<1>1. todo[th] \in Seq(Tasks) /\ Tail(todo[th]) \in Seq(Tasks)
  BY DEF DataInv
<1>2. todo'[th] = calls \o Tail(todo[th])
  BY DEF DataInv, Returns
<1>3. todo'[th] \in Seq(Tasks)
  BY <1>1, <1>2
<1>4. /\ Len(todo[th]) \in Nat \ {0} /\ Len(calls) \in Nat
      /\ Len(Tail(todo[th])) = Len(todo[th]) - 1
      /\ \A i \in 1..(Len(todo[th]) - 1) : Tail(todo[th])[i] = todo[th][i + 1]
  BY <1>1
<1>5. /\ Len(todo'[th]) = Len(calls) + Len(todo[th]) - 1
      /\ \A i \in 1..Len(calls) : todo'[th][i] = calls[i]
      /\ \A i \in 1..(Len(todo[th]) - 1) : todo'[th][Len(calls) + i] = Tail(todo[th])[i]
  BY <1>1, <1>2, <1>4
<1>6. ASSUME NEW i \in 2..Len(todo[th])
      PROVE  todo'[th][Len(calls) + i - 1] = todo[th][i]
  <2>1. i - 1 \in 1..(Len(todo[th]) - 1) /\ Len(calls) + (i - 1) = Len(calls) + i - 1
    BY <1>4
  <2>2. Tail(todo[th])[i - 1] = todo[th][(i - 1) + 1]
    BY <2>1, <1>4
  <2>3. (i - 1) + 1 = i
    BY <1>4
  <2> QED
    BY <1>5, <2>1, <2>2, <2>3
<1> QED
  BY <1>3, <1>4, <1>5, <1>6 DEF DataInv, Returns

\* What a task is called with.
LEMMA TaskTypes ==
    ASSUME NEW t \in Tasks
    PROVE  /\ t.do \in {"add_lot", "check_name", "add_user"} => t.name \in Word
           /\ t.do = "add_pair" => t.pair \in Nat \X Nat /\ t.of \in Nat
           /\ t.do = "grant" => t.user \in Nat
BY DEF Tasks

\* Calls that neither check a name nor add a user.
Other(calls) == \A i \in 1..Len(calls) : calls[i].do \notin {"check_name", "add_user"}

\* Two such lists make one.
LEMMA OthersJoined ==
    ASSUME NEW s \in Seq(Tasks), NEW t \in Seq(Tasks), Other(s), Other(t)
    PROVE  s \o t \in Seq(Tasks) /\ Other(s \o t)
<1>1. /\ s \o t \in Seq(Tasks) /\ Len(s \o t) = Len(s) + Len(t)
      /\ Len(s) \in Nat /\ Len(t) \in Nat
  OBVIOUS
<1>2. ASSUME NEW i \in 1..Len(s \o t)
      PROVE  (s \o t)[i].do \notin {"check_name", "add_user"}
  <2>1. CASE i <= Len(s)
    <3>1. (s \o t)[i] = s[i]
      BY <1>1, <2>1
    <3> QED
      BY <1>1, <2>1, <3>1 DEF Other
  <2>2. CASE i > Len(s)
    <3>1. (s \o t)[i] = t[i - Len(s)] /\ i - Len(s) \in 1..Len(t)
      BY <1>1, <2>2
    <3> QED
      BY <3>1 DEF Other
  <2> QED
    BY <1>1, <2>1, <2>2
<1> QED
  BY <1>1, <1>2 DEF Other

-----------------------------------------------------------------------------
(* What the calls expand into are tasks.                                   *)

\* Crypto::init.
LEMMA InitTasksAreTasks ==
    ASSUME DataInv
    PROVE  InitTasks \in Seq(Tasks) /\ Other(InitTasks)
<1> DEFINE lot == [k \in DOMAIN config |-> [do |-> "add_lot", name |-> config[k]]]
           first == <<Task("add_state")>>
           last == <<Task("read_lots")>>
<1>1. Task("add_state") \in Tasks /\ Task("read_lots") \in Tasks
  BY DEF Task, Tasks
<1>2. lot \in Seq(Tasks) /\ \A i \in 1..Len(lot) : lot[i].do = "add_lot"
  <2>1. DOMAIN config = 1..Len(config) /\ Len(config) \in Nat
    BY DEF DataInv
  <2>2. \A k \in 1..Len(config) : [do |-> "add_lot", name |-> config[k]] \in Tasks
    BY DEF DataInv, Tasks
  <2>3. lot \in [1..Len(config) -> Tasks]
    BY <2>1, <2>2
  <2>4. lot \in Seq(Tasks) /\ Len(lot) = Len(config)
    BY <2>1, <2>3
  <2> QED
    BY <2>1, <2>4
<1>3. /\ first \in Seq(Tasks) /\ Len(first) = 1 /\ first[1].do = "add_state"
      /\ last \in Seq(Tasks) /\ Len(last) = 1 /\ last[1].do = "read_lots"
  BY <1>1 DEF Task
<1>4. InitTasks = first \o lot \o last
  BY DEF InitTasks
<1> HIDE DEF lot, first, last
<1>5. Other(first) /\ Other(lot) /\ Other(last)
  BY <1>2, <1>3 DEF Other
<1>6. first \o lot \in Seq(Tasks) /\ Other(first \o lot)
  BY <1>2, <1>3, <1>5, OthersJoined
<1> QED
  BY <1>3, <1>4, <1>5, <1>6, OthersJoined

\* The next pair of init's loops.
LEMMA PairsAreTasks ==
    ASSUME NEW i \in Nat, NEW j \in Nat, NEW n \in Nat
    PROVE  PairFrom(i, j, n) \in Seq(Tasks) /\ Other(PairFrom(i, j, n))
<1>1. ASSUME NEW a \in Nat, NEW b \in Nat
      PROVE  [do |-> "add_pair", pair |-> <<a, b>>, of |-> n] \in Tasks
  BY DEF Tasks
<1>2. \A t \in Tasks : <<t>> \in Seq(Tasks) /\ Len(<<t>>) = 1 /\ <<t>>[1] = t
  OBVIOUS
<1>3. /\ <<[do |-> "add_pair", pair |-> <<i, j>>, of |-> n]>> \in Seq(Tasks)
      /\ Other(<<[do |-> "add_pair", pair |-> <<i, j>>, of |-> n]>>)
  BY <1>1, <1>2 DEF Other
<1>4. /\ <<[do |-> "add_pair", pair |-> <<i + 1, i + 2>>, of |-> n]>> \in Seq(Tasks)
      /\ Other(<<[do |-> "add_pair", pair |-> <<i + 1, i + 2>>, of |-> n]>>)
  <2>1. i + 1 \in Nat /\ i + 2 \in Nat
    OBVIOUS
  <2> QED
    BY <2>1, <1>1, <1>2 DEF Other
<1>5. <<>> \in Seq(Tasks) /\ Other(<<>>)
  BY DEF Other
<1> QED
  BY <1>3, <1>4, <1>5 DEF PairFrom

\* The loop of post_user.
LEMMA RowsAreTasks ==
    ASSUME DataInv, NEW user \in Nat
    PROVE  LET rows == [l \in DOMAIN lots |-> [do |-> "add_row", user |-> user, lot |-> l]]
           IN  rows \in Seq(Tasks) /\ Other(rows)
<1> DEFINE rows == [l \in DOMAIN lots |-> [do |-> "add_row", user |-> user, lot |-> l]]
<1>1. DOMAIN lots = 1..Len(lots) /\ Len(lots) \in Nat
  BY DEF DataInv
<1>2. \A l \in 1..Len(lots) : [do |-> "add_row", user |-> user, lot |-> l] \in Tasks
  BY DEF Tasks
<1>3. rows \in [1..Len(lots) -> Tasks]
  BY <1>1, <1>2
<1>4. rows \in Seq(Tasks) /\ Len(rows) = Len(lots)
  BY <1>1, <1>3
<1> QED
  BY <1>1, <1>4 DEF Other

\* Tuples of tasks are sequences.
LEMMA ShortSequences ==
    ASSUME NEW a \in Tasks, NEW b \in Tasks
    PROVE  /\ <<a>> \in Seq(Tasks) /\ Len(<<a>>) = 1
           /\ <<a, b>> \in Seq(Tasks) /\ Len(<<a, b>>) = 2
           /\ \A c \in Tasks : /\ <<a, b, c>> \in Seq(Tasks) /\ Len(<<a, b, c>>) = 3
                              /\ \A d \in Tasks : /\ <<a, b, c, d>> \in Seq(Tasks)
                                                 /\ Len(<<a, b, c, d>>) = 4
OBVIOUS

\* The tasks of a request, from its beginning on.
InOrder(calls) ==
    \A i \in 1..Len(calls) :
        /\ calls[i].do = "check_name" => i # 1 /\ calls[i - 1].do = "lock"
        /\ calls[i].do = "add_user" => /\ i # 1 /\ calls[i - 1].do = "check_name"
                                      /\ calls[i - 1].name = calls[i].name

\* The construction of the object comes before anything else.
LEMMA ProcessingInOrder ==
    ASSUME NEW handler \in Seq(Tasks), InOrder(handler)
    PROVE  Processing(handler) \in Seq(Tasks) /\ InOrder(Processing(handler))
<1> DEFINE first == Task("is_init")
           asks == <<first>> \o handler
<1>1. first \in Tasks /\ first.do = "is_init"
  BY DEF Task, Tasks
<1>2. asks = Processing(handler)
  BY DEF Processing
<1> HIDE DEF first
<1>3. /\ asks \in Seq(Tasks) /\ Len(handler) \in Nat /\ Len(asks) = Len(handler) + 1
      /\ asks[1] = first /\ \A i \in 1..Len(handler) : asks[i + 1] = handler[i]
  BY <1>1
<1> HIDE DEF asks
<1>4. ASSUME NEW i \in 1..Len(asks), asks[i].do \in {"check_name", "add_user"}
      PROVE  /\ asks[i].do = "check_name" => i # 1 /\ asks[i - 1].do = "lock"
             /\ asks[i].do = "add_user" => /\ i # 1 /\ asks[i - 1].do = "check_name"
                                          /\ asks[i - 1].name = asks[i].name
  <2>1. i # 1 /\ i - 1 \in 1..Len(handler) /\ (i - 1) + 1 = i
    BY <1>1, <1>3, <1>4
  <2>2. asks[i] = handler[i - 1]
    BY <1>3, <2>1
  <2>3. i - 1 # 1
    BY <1>4, <2>1, <2>2 DEF InOrder
  <2>4. i - 2 \in 1..Len(handler) /\ (i - 2) + 1 = i - 1 /\ (i - 1) - 1 = i - 2
    BY <2>1, <2>3, <1>3
  <2>5. asks[i - 1] = handler[(i - 1) - 1]
    BY <1>3, <2>4
  <2> QED
    BY <1>4, <2>1, <2>2, <2>5 DEF InOrder
<1> QED
  BY <1>2, <1>3, <1>4 DEF InOrder

\* A request's tasks come in the order that OrderInv asks for.
LEMMA RequestsInOrder ==
    ASSUME DataInv, NEW handler \in Handlers
    PROVE  Processing(handler) \in Seq(Tasks) /\ InOrder(Processing(handler))
<1>1. Task("lock") \in Tasks /\ Task("lock").do = "lock"
  BY DEF Task, Tasks
<1>2. ASSUME NEW name \in Names
      PROVE  PostUser(name) \in Seq(Tasks) /\ InOrder(PostUser(name))
  <2> DEFINE a == Task("lock")
             b == [do |-> "check_name", name |-> name]
             c == [do |-> "add_user", name |-> name]
  <2>1. /\ a \in Tasks /\ b \in Tasks /\ c \in Tasks
        /\ a.do = "lock" /\ b.do = "check_name" /\ c.do = "add_user" /\ b.name = c.name
    BY <1>1 DEF Tasks, Word
  <2>2. PostUser(name) = <<a, b, c>>
    BY DEF PostUser
  <2> HIDE DEF a, b, c
  <2>3. <<a, b, c>> \in Seq(Tasks) /\ Len(<<a, b, c>>) = 3
    BY <2>1, ShortSequences
  <2>4. \A i \in 1..3 : i = 1 \/ (i = 2 /\ i - 1 = 1) \/ (i = 3 /\ i - 1 = 2)
    OBVIOUS
  <2>5. <<a, b, c>>[1] = a /\ <<a, b, c>>[2] = b /\ <<a, b, c>>[3] = c
    OBVIOUS
  <2> QED
    BY <2>1, <2>2, <2>3, <2>4, <2>5 DEF InOrder
<1>3. ASSUME NEW t \in Tasks, t.do \in {"get", "verify"}
      PROVE  <<Task("lock"), t>> \in Seq(Tasks) /\ InOrder(<<Task("lock"), t>>)
  <2> DEFINE a == Task("lock")
  <2>1. a \in Tasks /\ a.do = "lock"
    BY <1>1
  <2> HIDE DEF a
  <2>2. <<a, t>> \in Seq(Tasks) /\ Len(<<a, t>>) = 2 /\ <<a, t>>[1] = a /\ <<a, t>>[2] = t
    BY <2>1, ShortSequences
  <2>3. \A i \in 1..2 : i = 1 \/ i = 2
    OBVIOUS
  <2>4. <<a, t>> \in Seq(Tasks) /\ InOrder(<<a, t>>)
    BY <2>1, <2>2, <2>3, <1>3 DEF InOrder
  <2> QED
    BY <2>4 DEF a
<1>4. <<Task("unknown")>> \in Seq(Tasks) /\ InOrder(<<Task("unknown")>>)
  <2> DEFINE a == Task("unknown")
  <2>1. a \in Tasks /\ a.do = "unknown"
    BY DEF Task, Tasks
  <2> HIDE DEF a
  <2>2. <<a>> \in Seq(Tasks) /\ InOrder(<<a>>)
    BY <2>1, ShortSequences DEF InOrder
  <2> QED
    BY <2>2 DEF a
<1>5. ASSUME NEW table \in {"lot", "pair"}
      PROVE  Get(table) \in Seq(Tasks) /\ InOrder(Get(table))
  <2>1. [do |-> "get", table |-> table] \in Tasks
    BY DEF Tasks
  <2> QED
    BY <2>1, <1>3 DEF Get
<1>6. ASSUME NEW key \in 0..Len(users)
      PROVE  GetBalance(key) \in Seq(Tasks) /\ InOrder(GetBalance(key))
  <2>1. key \in Nat
    BY DEF DataInv
  <2>2. [do |-> "verify", user |-> key] \in Tasks
    BY <2>1 DEF Tasks
  <2> QED
    BY <2>2, <1>3 DEF GetBalance
<1>7. handler \in Seq(Tasks) /\ InOrder(handler)
  BY <1>2, <1>4, <1>5, <1>6 DEF Handlers
<1> QED
  BY <1>7, ProcessingInOrder

-----------------------------------------------------------------------------
(* The order of the tasks.                                                 *)

\* What a thread that takes no step has to do stays in order, unless a user is
\* added while it holds the lock.
LEMMA OrderOfOthers ==
    ASSUME NEW o \in Threads, OrderOf(o), todo'[o] = todo[o],
           o \in Sema!Writers => o \in Sema!Writers', ~overlapped' => ~overlapped,
           users' = users \/ (~overlapped' => o \notin Sema!Writers)
    PROVE  OrderOf(o)'
<1>1. ASSUME NEW i \in 1..Len(todo'[o])
      PROVE  /\ todo'[o][i].do = "check_name" =>
                   IF i = 1 THEN o \in Sema!Writers' ELSE todo'[o][i - 1].do = "lock"
             /\ todo'[o][i].do = "add_user" =>
                   IF i = 1
                   THEN /\ o \in Sema!Writers'
                        /\ ~overlapped' => \A k \in 1..Len(users') : users'[k] # todo'[o][1].name
                   ELSE /\ todo'[o][i - 1].do = "check_name"
                        /\ todo'[o][i - 1].name = todo'[o][i].name
  BY DEF OrderOf
<1> QED
  BY <1>1 DEF OrderOf

\* A task that is neither the lock nor the check makes way for other calls.
LEMMA OrderAfterOthers ==
    ASSUME DataInv, NEW th \in Threads, OrderOf(th), todo[th] # <<>>,
           todo[th][1].do \notin {"lock", "check_name"},
           NEW calls \in Seq(Tasks), Other(calls), Returns(th, calls)
    PROVE  OrderOf(th)'
<1> DEFINE new == todo'[th]
           old == todo[th]
           n == Len(calls)
<1>1. /\ Len(old) \in Nat \ {0} /\ n \in Nat /\ Len(new) = n + Len(old) - 1
      /\ \A i \in 1..n : new[i] = calls[i]
      /\ \A i \in 2..Len(old) : new[n + i - 1] = old[i]
  BY ReturnsIsPop
<1>2. ASSUME NEW i \in 1..Len(new), new[i].do \in {"check_name", "add_user"}
      PROVE  /\ i # 1
             /\ new[i].do = "check_name" => new[i - 1].do = "lock"
             /\ new[i].do = "add_user" => /\ new[i - 1].do = "check_name"
                                         /\ new[i - 1].name = new[i].name
  <2>1. i > n
    BY <1>1, <1>2 DEF Other
  <2> DEFINE k == i - n + 1
  <2>2. k \in 2..Len(old) /\ n + k - 1 = i
    BY <1>1, <2>1
  <2>3. new[i] = old[k]
    BY <1>1, <2>2
  <2>4. k # 2
    <3>1. k = 2 => old[k - 1] = old[1]
      OBVIOUS
    <3> QED
      BY <1>2, <2>2, <2>3, <3>1 DEF OrderOf
  <2>5. k - 1 \in 2..Len(old) /\ n + (k - 1) - 1 = i - 1 /\ i # 1
    BY <1>1, <2>1, <2>2, <2>4
  <2>6. new[i - 1] = old[k - 1]
    BY <1>1, <2>5
  <2>7. k \in 1..Len(old) /\ k # 1
    BY <2>2
  <2> HIDE DEF k
  <2> QED
    BY <1>2, <2>3, <2>5, <2>6, <2>7 DEF OrderOf
<1> HIDE DEF n, old
<1> QED
  BY <1>2 DEF OrderOf

\* An exception leaves nothing that could be out of order.
LEMMA OrderAfterThrow ==
    ASSUME NEW th \in Threads, todo'[th] = <<>>
    PROVE  OrderOf(th)'
BY DEF OrderOf

\* The lock is had, or the name is checked: what comes next has a right to.
LEMMA OrderAfterGuard ==
    ASSUME DataInv, NEW th \in Threads, OrderOf(th), todo[th] # <<>>,
           todo[th][1].do \in {"lock", "check_name"}, Returns(th, <<>>),
           th \in Sema!Writers', users' = users,
           todo[th][1].do = "check_name" /\ ~overlapped' =>
               \A k \in 1..Len(users) : users[k] # todo[th][1].name
    PROVE  OrderOf(th)'
<1> DEFINE new == todo'[th]
           old == todo[th]
<1>1. /\ Len(old) \in Nat \ {0} /\ Len(new) = Len(old) - 1
      /\ \A i \in 2..Len(old) : new[i - 1] = old[i]
  <2> DEFINE none == <<>>
  <2>1. none \in Seq(Tasks) /\ Len(none) = 0 /\ Returns(th, none)
    OBVIOUS
  <2> HIDE DEF none
  <2>2. /\ Len(old) \in Nat \ {0} /\ Len(new) = Len(none) + Len(old) - 1
        /\ \A i \in 2..Len(old) : new[Len(none) + i - 1] = old[i]
    BY <2>1, ReturnsIsPop
  <2> QED
    BY <2>1, <2>2
<1>2. ASSUME NEW i \in 1..Len(new)
      PROVE  /\ i + 1 \in 1..Len(old) /\ i + 1 # 1 /\ (i + 1) - 1 = i
             /\ new[i] = old[i + 1] /\ (i # 1 => new[i - 1] = old[i])
  <2>1. i \in Nat /\ i + 1 \in 2..Len(old) /\ (i + 1) - 1 = i
    BY <1>1
  <2>2. new[i] = old[i + 1]
    BY <2>1, <1>1
  <2>3. i # 1 => i \in 2..Len(old)
    BY <2>1
  <2> QED
    BY <2>1, <2>2, <2>3, <1>1
<1>3. ASSUME NEW i \in 1..Len(new)
      PROVE  /\ new[i].do = "check_name" =>
                   IF i = 1 THEN th \in Sema!Writers' ELSE new[i - 1].do = "lock"
             /\ new[i].do = "add_user" =>
                   IF i = 1
                   THEN /\ th \in Sema!Writers'
                        /\ ~overlapped' => \A k \in 1..Len(users') : users'[k] # new[1].name
                   ELSE new[i - 1].do = "check_name" /\ new[i - 1].name = new[i].name
  <2>1. /\ old[i + 1].do = "check_name" => old[i].do = "lock"
        /\ old[i + 1].do = "add_user" => old[i].do = "check_name" /\ old[i].name = old[i + 1].name
    BY <1>2 DEF OrderOf
  <2> HIDE DEF new, old
  <2>2. CASE i = 1
    BY <1>2, <2>1, <2>2 DEF old
  <2>3. CASE i # 1
    BY <1>2, <2>1, <2>3
  <2> QED
    BY <2>2, <2>3
<1> HIDE DEF old
<1> QED
  BY <1>3 DEF OrderOf

\* A new request.
LEMMA OrderOfRequest ==
    ASSUME NEW th \in Threads, NEW asks \in Seq(Tasks), InOrder(asks), todo'[th] = asks
    PROVE  OrderOf(th)'
<1>1. ASSUME NEW i \in 1..Len(todo'[th])
      PROVE  /\ todo'[th][i].do = "check_name" => i # 1 /\ todo'[th][i - 1].do = "lock"
             /\ todo'[th][i].do = "add_user" => /\ i # 1 /\ todo'[th][i - 1].do = "check_name"
                                               /\ todo'[th][i - 1].name = todo'[th][i].name
  BY DEF InOrder
<1> QED
  BY <1>1 DEF OrderOf

-----------------------------------------------------------------------------
(* The steps.                                                              *)

\* A step that leaves the semaphore alone.
LEMMA LockUntouched ==
    ASSUME LockInv, UNCHANGED <<phase, want, readerCnt, overlapped>>
    PROVE  LockInv' /\ Sema!Writers' = Sema!Writers
BY DEF LockInv, Sema!Writers, Sema!Holders

\* A thread that does not touch the lock, and adds no user, goes on or throws.
LEMMA PlainStep ==
    ASSUME NameInv, NEW th \in Threads, todo[th] # <<>>,
           UNCHANGED <<config, users, phase, want, readerCnt, overlapped>>,
           lots' \in Seq(Word),
           \/ todo' = [todo EXCEPT ![th] = <<>>]
           \/ /\ todo[th][1].do \notin {"lock", "check_name"}
              /\ \E calls \in Seq(Tasks) : Other(calls) /\ Returns(th, calls)
    PROVE  NameInv'
<1>1. DataInv /\ LockInv /\ NamesDistinct /\ \A o \in Threads : OrderOf(o)
  BY DEF NameInv, OrderInv
<1>2. LockInv' /\ Sema!Writers' = Sema!Writers
  BY <1>1, LockUntouched
<1>3. /\ todo' \in [Threads -> Seq(Tasks)] /\ OrderOf(th)'
      /\ \A o \in Threads \ {th} : todo'[o] = todo[o]
  <2>1. CASE todo' = [todo EXCEPT ![th] = <<>>]
    <3>1. todo'[th] = <<>> /\ todo' \in [Threads -> Seq(Tasks)]
      BY <1>1, <2>1 DEF DataInv
    <3> QED
      BY <1>1, <2>1, <3>1, OrderAfterThrow
  <2>2. CASE /\ todo[th][1].do \notin {"lock", "check_name"}
             /\ \E calls \in Seq(Tasks) : Other(calls) /\ Returns(th, calls)
    BY <1>1, <2>2, ReturnsIsPop, OrderAfterOthers
  <2> QED
    BY <2>1, <2>2
<1>4. \A o \in Threads \ {th} : OrderOf(o)'
  BY <1>1, <1>2, <1>3, OrderOfOthers
<1>5. DataInv'
  BY <1>1, <1>3 DEF DataInv
<1>6. NamesDistinct'
  BY <1>1 DEF NamesDistinct, IsInjective
<1> QED
  BY <1>2, <1>3, <1>4, <1>5, <1>6 DEF NameInv, OrderInv

\* Head is the first task, and it is of the kind that is done.
LEMMA HeadDone ==
    ASSUME DataInv, NEW th \in Threads, NEW kind, Doing(th, kind)
    PROVE  /\ todo[th] # <<>> /\ Head(todo[th]) = todo[th][1]
           /\ todo[th][1] \in Tasks /\ todo[th][1].do = kind
<1>1. todo[th] \in Seq(Tasks) /\ todo[th] # <<>>
  BY DEF DataInv, Doing
<1>2. Head(todo[th]) = todo[th][1] /\ todo[th][1] \in Tasks
  BY <1>1
<1> QED
  BY <1>1, <1>2 DEF Doing

\* A task may expand into nothing.
LEMMA NoCalls == <<>> \in Seq(Tasks) /\ Other(<<>>)
BY DEF Other

\* The steps of init, and those that read.
LEMMA OtherSteps ==
    ASSUME NameInv, NEW th \in Threads,
           \/ CheckInit(th) \/ AddState(th) \/ AddLot(th) \/ ReadLots(th) \/ AddPair(th)
           \/ Grant(th) \/ AddRow(th) \/ GetTable(th) \/ Verify(th) \/ Unknown(th)
    PROVE  NameInv'
<1>1. DataInv
  BY DEF NameInv
<1>2. UNCHANGED <<config, users, phase, want, readerCnt, overlapped>>
  BY DEF CheckInit, AddState, AddLot, ReadLots, AddPair, Grant, AddRow, GetTable, Verify,
         Unknown, db, sem
<1>3. \E kind \in {"is_init", "add_state", "add_lot", "read_lots", "add_pair", "grant", "add_row",
                   "get", "verify", "unknown"} : Doing(th, kind)
  BY DEF CheckInit, AddState, AddLot, ReadLots, AddPair, Grant, AddRow, GetTable, Verify, Unknown
<1>4. todo[th] # <<>> /\ todo[th][1].do \notin {"lock", "check_name"}
  BY <1>1, <1>3, HeadDone
<1>5. lots' \in Seq(Word)
  <2>1. CASE AddLot(th)
    <3>1. todo[th][1] \in Tasks /\ todo[th][1].do = "add_lot" /\ Head(todo[th]) = todo[th][1]
      BY <1>1, <2>1, HeadDone DEF AddLot
    <3>2. todo[th][1].name \in Word
      BY <3>1, TaskTypes
    <3>3. lots' = lots \/ lots' = Append(lots, todo[th][1].name)
      BY <2>1, <3>1 DEF AddLot
    <3>4. lots \in Seq(Word)
      BY <1>1 DEF DataInv
    <3>5. Append(lots, todo[th][1].name) \in Seq(Word)
      BY <3>2, <3>4
    <3> QED
      BY <3>3, <3>4, <3>5
  <2>2. CASE ~AddLot(th)
    <3>1. lots' = lots
      BY <2>2 DEF CheckInit, AddState, ReadLots, AddPair, Grant, AddRow, GetTable, Verify,
                  Unknown, db
    <3> QED
      BY <1>1, <3>1 DEF DataInv
  <2> QED
    BY <2>1, <2>2
<1>6. \/ todo' = [todo EXCEPT ![th] = <<>>]
      \/ \E calls \in Seq(Tasks) : Other(calls) /\ Returns(th, calls)
  <2>1. CASE CheckInit(th)
    <3>1. Returns(th, IF IsInit THEN <<>> ELSE InitTasks)
      BY <2>1 DEF CheckInit
    <3>2. CASE IsInit
      BY <3>1, <3>2, NoCalls
    <3>3. CASE ~IsInit
      <4>1. InitTasks \in Seq(Tasks) /\ Other(InitTasks)
        BY <1>1, InitTasksAreTasks
      <4> QED
        BY <3>1, <3>3, <4>1
    <3> QED
      BY <3>2, <3>3
  <2>2. CASE ReadLots(th)
    <3>1. Len(lots) \in Nat /\ 1 \in Nat /\ 2 \in Nat
      BY <1>1 DEF DataInv
    <3>2. PairFrom(1, 2, Len(lots)) \in Seq(Tasks) /\ Other(PairFrom(1, 2, Len(lots)))
      BY <3>1, PairsAreTasks
    <3> QED
      BY <2>2, <3>2 DEF ReadLots, Throws
  <2>3. CASE AddPair(th)
    <3> DEFINE t == todo[th][1]
    <3>1. t \in Tasks /\ t.do = "add_pair" /\ Head(todo[th]) = t
      BY <1>1, <2>3, HeadDone DEF AddPair
    <3>2. t.pair[1] \in Nat /\ t.pair[2] + 1 \in Nat /\ t.of \in Nat
      BY <3>1, TaskTypes
    <3>3. Returns(th, PairFrom(t.pair[1], t.pair[2] + 1, t.of))
      BY <2>3, <3>1 DEF AddPair
    <3> HIDE DEF t
    <3> QED
      BY <3>2, <3>3, PairsAreTasks
  <2>4. CASE Grant(th)
    <3> DEFINE t == todo[th][1]
               rows == [l \in DOMAIN lots |-> [do |-> "add_row", user |-> t.user, lot |-> l]]
    <3>1. t \in Tasks /\ t.do = "grant" /\ Head(todo[th]) = t
      BY <1>1, <2>4, HeadDone DEF Grant
    <3>2. t.user \in Nat
      BY <3>1, TaskTypes
    <3>3. rows \in Seq(Tasks) /\ Other(rows)
      BY <1>1, <3>2, RowsAreTasks
    <3>4. todo' = [todo EXCEPT ![th] = <<>>] \/ Returns(th, rows)
      BY <2>4, <3>1 DEF Grant, Throws
    <3> QED
      BY <3>3, <3>4
  <2>5. CASE AddState(th) \/ AddLot(th) \/ AddRow(th) \/ GetTable(th) \/ Verify(th) \/ Unknown(th)
    BY <2>5, NoCalls DEF AddState, AddLot, AddRow, GetTable, Verify, Unknown, Throws
  <2> QED
    BY <2>1, <2>2, <2>3, <2>4, <2>5
<1> QED
  BY <1>2, <1>4, <1>5, <1>6, PlainStep

\* A WriteLock is constructed at once, since nobody reads; beside another one
\* it is an overlap.
LEMMA LockStep ==
    ASSUME NameInv, NEW th \in Threads, Lock(th)
    PROVE  NameInv'
<1>1. DataInv /\ LockInv /\ NamesDistinct /\ \A o \in Threads : OrderOf(o)
  BY DEF NameInv, OrderInv
<1>2. /\ todo[th] # <<>> /\ todo[th][1].do = "lock" /\ Returns(th, <<>>)
      /\ UNCHANGED <<config, lots, users>>
  BY <1>1, HeadDone DEF Lock, db
<1>3. /\ phase[th] = "idle" /\ want' = [want EXCEPT ![th] = "writing"]
      /\ phase' = [phase EXCEPT ![th] = "holding"] /\ readerCnt' = readerCnt
      /\ overlapped' = (overlapped \/ Sema!Writers # {})
  BY <1>1 DEF Lock, LockInv, Sema!Construct, Sema!Enter, Sema!Sleep, Sema!CanEnter
<1>4. Sema!Writers' = Sema!Writers \cup {th}
  BY <1>1, <1>3 DEF LockInv, Sema!Writers, Sema!Holders
<1>5. LockInv'
  <2>1. ~overlapped' => \A a, b \in Sema!Writers' : a = b
    BY <1>3, <1>4
  <2> QED
    BY <1>1, <1>3, <2>1 DEF LockInv
<1>6. /\ todo' \in [Threads -> Seq(Tasks)]
      /\ \A o \in Threads \ {th} : todo'[o] = todo[o]
  BY <1>1, <1>2, NoCalls, ReturnsIsPop
<1>7. OrderOf(th)'
  BY <1>1, <1>2, <1>4, OrderAfterGuard
<1>8. \A o \in Threads \ {th} : OrderOf(o)'
  BY <1>1, <1>2, <1>3, <1>4, <1>6, OrderOfOthers
<1>9. DataInv' /\ NamesDistinct'
  BY <1>1, <1>2, <1>3, <1>6 DEF DataInv, NamesDistinct, IsInjective
<1> QED
  BY <1>5, <1>7, <1>8, <1>9 DEF NameInv, OrderInv

\* check_repeat_username under the lock.
LEMMA CheckStep ==
    ASSUME NameInv, NEW th \in Threads, CheckName(th)
    PROVE  NameInv'
<1>1. DataInv /\ LockInv /\ NamesDistinct /\ \A o \in Threads : OrderOf(o)
  BY DEF NameInv, OrderInv
<1>2. /\ todo[th] # <<>> /\ todo[th][1].do = "check_name" /\ Head(todo[th]) = todo[th][1]
      /\ UNCHANGED <<config, lots, users, phase, want, readerCnt, overlapped>>
  BY <1>1, HeadDone DEF CheckName, db, sem
<1>3. CASE todo' = [todo EXCEPT ![th] = <<>>]
  BY <1>1, <1>2, <1>3, PlainStep DEF DataInv
<1>4. CASE todo[th][1].name \notin ToSet(users) /\ Returns(th, <<>>)
  <2>1. LockInv' /\ Sema!Writers' = Sema!Writers
    BY <1>1, <1>2, LockUntouched
  <2>2. \A k \in 1..Len(users) : users[k] # todo[th][1].name
    BY <1>1, <1>4 DEF ToSet, DataInv
  <2>3. th \in Sema!Writers
    <3>1. 1 \in 1..Len(todo[th])
      BY <1>1, <1>2 DEF DataInv
    <3> QED
      BY <1>1, <1>2, <3>1 DEF OrderOf
  <2>4. OrderOf(th)'
    BY <1>1, <1>2, <1>4, <2>1, <2>2, <2>3, OrderAfterGuard
  <2>5. /\ todo' \in [Threads -> Seq(Tasks)]
        /\ \A o \in Threads \ {th} : todo'[o] = todo[o]
    BY <1>1, <1>2, <1>4, NoCalls, ReturnsIsPop
  <2>6. \A o \in Threads \ {th} : OrderOf(o)'
    BY <1>1, <1>2, <2>1, <2>5, OrderOfOthers
  <2>7. DataInv' /\ NamesDistinct'
    BY <1>1, <1>2, <2>5 DEF DataInv, NamesDistinct, IsInjective
  <2> QED
    BY <2>1, <2>4, <2>6, <2>7 DEF NameInv, OrderInv
<1> QED
  BY <1>2, <1>3, <1>4 DEF CheckName, Throws

\* The user is added: only the thread in the lock does so, so that no name
\* that another one has checked is taken in the meantime.
LEMMA AddUserStep ==
    ASSUME NameInv, NEW th \in Threads, AddUser(th)
    PROVE  NameInv'
<1> DEFINE name == todo[th][1].name
           grant == <<[do |-> "grant", user |-> Len(users')]>>
<1>1. DataInv /\ LockInv /\ NamesDistinct /\ \A o \in Threads : OrderOf(o)
  BY DEF NameInv, OrderInv
<1>2. /\ todo[th] # <<>> /\ todo[th][1].do = "add_user" /\ Head(todo[th]) = todo[th][1]
      /\ todo[th][1] \in Tasks
      /\ UNCHANGED <<config, lots, phase, want, readerCnt, overlapped>>
  BY <1>1, HeadDone DEF AddUser, sem
<1>3. users' = Append(users, name) /\ Returns(th, grant) /\ name \in Word
  BY <1>2, TaskTypes DEF AddUser
<1>4. /\ users' \in Seq(Word) /\ Len(users') = Len(users) + 1 /\ Len(users) \in Nat
      /\ DOMAIN users = 1..Len(users) /\ DOMAIN users' = 1..(Len(users) + 1)
      /\ users'[Len(users) + 1] = name
      /\ \A k \in 1..Len(users) : users'[k] = users[k]
  BY <1>1, <1>3 DEF DataInv
<1>5. grant \in Seq(Tasks) /\ Other(grant)
  <2>1. [do |-> "grant", user |-> Len(users')] \in Tasks
    BY <1>4 DEF Tasks
  <2> QED
    BY <2>1 DEF Other
<1>6. /\ th \in Sema!Writers
      /\ ~overlapped => \A k \in 1..Len(users) : users[k] # name
  <2>1. 1 \in 1..Len(todo[th])
    BY <1>1, <1>2 DEF DataInv
  <2> QED
    BY <1>1, <1>2, <2>1 DEF OrderOf
<1>7. LockInv' /\ Sema!Writers' = Sema!Writers
  BY <1>1, <1>2, LockUntouched
<1>8. /\ todo' \in [Threads -> Seq(Tasks)] /\ OrderOf(th)'
      /\ \A o \in Threads \ {th} : todo'[o] = todo[o]
  BY <1>1, <1>2, <1>3, <1>5, ReturnsIsPop, OrderAfterOthers
<1>9. ASSUME NEW o \in Threads \ {th}
      PROVE  OrderOf(o)'
  <2>1. ~overlapped' => o \notin Sema!Writers
    BY <1>1, <1>2, <1>6, <1>9 DEF LockInv
  <2> QED
    BY <1>1, <1>2, <1>7, <1>8, <1>9, <2>1, OrderOfOthers
<1>10. NamesDistinct'
  <2>1. SUFFICES ASSUME ~overlapped, NEW j \in 1..(Len(users) + 1), NEW k \in 1..(Len(users) + 1),
                        users'[j] = users'[k]
                 PROVE  j = k
    BY <1>2, <1>4 DEF NamesDistinct, IsInjective
  <2>2. \A m \in 1..(Len(users) + 1) : m \in 1..Len(users) \/ m = Len(users) + 1
    BY <1>4
  <2>3. \A m, n \in 1..Len(users) : users[m] = users[n] => m = n
    BY <1>1, <1>4, <2>1 DEF NamesDistinct, IsInjective
  <2> QED
    BY <1>4, <1>6, <2>1, <2>2, <2>3
<1>11. DataInv'
  BY <1>1, <1>2, <1>4, <1>8 DEF DataInv
<1> QED
  BY <1>7, <1>8, <1>9, <1>10, <1>11 DEF NameInv, OrderInv

\* A WriteLock is destroyed when its thread has nothing left to do.
LEMMA UnlockStep ==
    ASSUME NameInv, NEW th \in Threads, Unlock(th)
    PROVE  NameInv'
<1>1. DataInv /\ LockInv /\ NamesDistinct /\ \A o \in Threads : OrderOf(o)
  BY DEF NameInv, OrderInv
<1>2. todo[th] = <<>> /\ UNCHANGED <<config, lots, users, todo, want, readerCnt, overlapped>>
  BY DEF Unlock, Sema!FinishWriting, db
<1>3. phase' = [phase EXCEPT ![th] = "idle"]
  <2>1. phase' = [c \in Threads |-> IF [phase EXCEPT ![th] = "idle"][c] = "parked" THEN "woken"
                                    ELSE [phase EXCEPT ![th] = "idle"][c]]
    BY DEF Unlock, Sema!FinishWriting, Sema!AllWoken
  <2>2. [phase EXCEPT ![th] = "idle"] \in [Threads -> {"idle", "holding"}]
    BY <1>1 DEF LockInv
  <2> QED
    BY <2>1, <2>2
<1>4. Sema!Writers' = Sema!Writers \ {th}
  BY <1>1, <1>2, <1>3 DEF LockInv, Sema!Writers, Sema!Holders
<1>5. LockInv'
  BY <1>1, <1>2, <1>3, <1>4 DEF LockInv
<1>6. OrderOf(th)'
  BY <1>2, OrderAfterThrow
<1>7. \A o \in Threads \ {th} : OrderOf(o)'
  BY <1>1, <1>2, <1>4, OrderOfOthers
<1>8. DataInv' /\ NamesDistinct'
  BY <1>1, <1>2 DEF DataInv, NamesDistinct, IsInjective
<1> QED
  BY <1>5, <1>6, <1>7, <1>8 DEF NameInv, OrderInv

\* A request comes.
LEMMA ReadStep ==
    ASSUME NameInv, NEW th \in Threads, Read(th)
    PROVE  NameInv'
<1>1. DataInv /\ LockInv /\ NamesDistinct /\ \A o \in Threads : OrderOf(o)
  BY DEF NameInv, OrderInv
<1>2. UNCHANGED <<config, lots, users, phase, want, readerCnt, overlapped>>
  BY DEF Read, db, sem
<1>3. PICK handler \in Handlers : todo' = [todo EXCEPT ![th] = Processing(handler)]
  BY DEF Read
<1>4. Processing(handler) \in Seq(Tasks) /\ InOrder(Processing(handler))
  BY <1>1, RequestsInOrder
<1>5. /\ todo' \in [Threads -> Seq(Tasks)] /\ todo'[th] = Processing(handler)
      /\ \A o \in Threads \ {th} : todo'[o] = todo[o]
  BY <1>1, <1>3, <1>4 DEF DataInv
<1>6. LockInv' /\ Sema!Writers' = Sema!Writers
  BY <1>1, <1>2, LockUntouched
<1>7. OrderOf(th)'
  BY <1>4, <1>5, OrderOfRequest
<1>8. \A o \in Threads \ {th} : OrderOf(o)'
  BY <1>1, <1>2, <1>5, <1>6, OrderOfOthers
<1>9. DataInv' /\ NamesDistinct'
  BY <1>1, <1>2, <1>5 DEF DataInv, NamesDistinct, IsInjective
<1> QED
  BY <1>6, <1>7, <1>8, <1>9 DEF NameInv, OrderInv

\* The process is started again with nothing to do and nobody in the lock.
LEMMA CrashStep ==
    ASSUME NameInv, Crash
    PROVE  NameInv'
<1>1. /\ todo' = [th \in Threads |-> <<>>] /\ phase' = [th \in Threads |-> "idle"]
      /\ readerCnt' = 0 /\ UNCHANGED <<config, lots, users, want, overlapped>>
  BY DEF Crash, db
<1>2. DataInv'
  BY <1>1 DEF DataInv, NameInv
<1>3. Sema!Writers' = {}
  BY <1>1 DEF Sema!Writers, Sema!Holders
<1>4. LockInv'
  BY <1>1, <1>3 DEF LockInv, NameInv
<1>5. \A th \in Threads : OrderOf(th)'
  BY <1>1, OrderAfterThrow
<1>6. NamesDistinct'
  BY <1>1 DEF NameInv, NamesDistinct, IsInjective
<1> QED
  BY <1>2, <1>4, <1>5, <1>6 DEF NameInv, OrderInv

\* The invariant does not look at the rest of the state.
LEMMA StutterStep ==
    ASSUME NameInv, UNCHANGED <<config, lots, users, todo, phase, want, readerCnt, overlapped>>
    PROVE  NameInv'
<1>1. DataInv /\ LockInv /\ NamesDistinct /\ \A o \in Threads : OrderOf(o)
  BY DEF NameInv, OrderInv
<1>2. LockInv' /\ Sema!Writers' = Sema!Writers
  BY <1>1, LockUntouched
<1>3. \A o \in Threads : OrderOf(o)'
  BY <1>1, <1>2, OrderOfOthers
<1>4. DataInv' /\ NamesDistinct'
  BY <1>1 DEF DataInv, NamesDistinct, IsInjective
<1> QED
  BY <1>2, <1>3, <1>4 DEF NameInv, OrderInv

\* Every step keeps the inductive invariant.
LEMMA StepPreserves == NameInv /\ [Next]_vars => NameInv'
<1> SUFFICES ASSUME NameInv, [Next]_vars PROVE NameInv'
  OBVIOUS
<1>1. ASSUME NEW th \in Threads, Work(th)
      PROVE  NameInv'
  <2>1. CASE Answer(th)
    BY <2>1, StutterStep DEF Answer, db, sem
  <2>2. CASE Lock(th) \/ CheckName(th) \/ AddUser(th) \/ Unlock(th)
    BY <2>2, LockStep, CheckStep, AddUserStep, UnlockStep
  <2> QED
    BY <1>1, <2>1, <2>2, OtherSteps DEF Work
<1>2. ASSUME NEW th \in Threads, LoseDatabase(th)
      PROVE  NameInv'
  <2>1. /\ todo[th] # <<>> /\ todo' = [todo EXCEPT ![th] = <<>>]
        /\ UNCHANGED <<config, lots, users, phase, want, readerCnt, overlapped>>
    BY <1>2 DEF LoseDatabase, Throws, db, sem
  <2> QED
    BY <2>1, PlainStep DEF NameInv, DataInv
<1>3. CASE UNCHANGED vars
  BY <1>3, StutterStep DEF vars, db, sem
<1> QED
  BY <1>1, <1>2, <1>3, ReadStep, CrashStep DEF Next

\* It holds at first.
LEMMA InitEstablishes == Init => NameInv
<1> SUFFICES ASSUME Init PROVE NameInv
  OBVIOUS
<1>1. /\ config \in Configs /\ lots = <<>> /\ users = <<>> /\ todo = [th \in Threads |-> <<>>]
      /\ phase = [th \in Threads |-> "idle"] /\ want = [th \in Threads |-> "reading"]
      /\ readerCnt = 0
  BY DEF Init, Sema!Init
<1>2. config \in Seq(Word)
  <2>1. config \in Seq(STRING)
    BY <1>1, ConfigsAreLists
  <2>2. Len(config) \in Nat /\ config \in [1..Len(config) -> STRING]
    BY <2>1
  <2>3. config \in [1..Len(config) -> Word]
    BY <2>2 DEF Word
  <2> QED
    BY <2>2, <2>3
<1>3. DataInv
  BY <1>1, <1>2 DEF DataInv
<1>4. LockInv
  BY <1>1 DEF LockInv, Sema!Writers, Sema!Holders
<1>5. OrderInv
  BY <1>1 DEF OrderInv, OrderOf
<1>6. NamesDistinct
  BY <1>1 DEF NamesDistinct, IsInjective
<1> QED
  BY <1>3, <1>4, <1>5, <1>6 DEF NameInv

\* The inductive invariant holds in every reachable state.
THEOREM NameInvariant == Spec => []NameInv
BY InitEstablishes, StepPreserves, PTL DEF Spec

\* No two users have one name until two requests are in their WriteLocks at
\* once, whatever faults there are and whoever initialises the exchange.
THEOREM NamesStayDistinct == Spec => []NamesDistinct
<1>1. NameInv => NamesDistinct
  BY DEF NameInv
<1> QED
  BY <1>1, NameInvariant, PTL

-----------------------------------------------------------------------------
(* The inductive invariant of the initialisation.                          *)

\* What Crypto::init asks for with the k-th lot, and with a pair.
LotTask(k)  == [do |-> "add_lot", name |-> config[k]]
PairTask(p) == [do |-> "add_pair", pair |-> p, of |-> Len(config)]

\* From its i-th task on a thread does nothing for an init.
PlainFrom(th, i) == \A k \in i..Len(todo[th]) : todo[th][k].do \notin InitKinds

\* An init has not yet written its row of table state, ...
Beginning(th) ==
    LET n == Len(config) IN
    /\ Len(todo[th]) >= n + 2 /\ PlainFrom(th, n + 3)
    /\ todo[th][1] = Task("add_state")
    /\ \A k \in 1..n : todo[th][k + 1] = LotTask(k)
    /\ todo[th][n + 2] = Task("read_lots")
\* ... adds the lots, ...
AddingLots(th) ==
    LET d == Len(lots)
        n == Len(config) IN
    /\ d <= n /\ \A k \in 1..d : lots[k] = config[k]
    /\ pairs = <<>>
    /\ Len(todo[th]) >= n - d + 1 /\ PlainFrom(th, n - d + 2)
    /\ \A k \in 1..(n - d) : todo[th][k] = LotTask(d + k)
    /\ todo[th][n - d + 1] = Task("read_lots")
\* ... or the pairs, all those before p being there.
PairsTo(p) ==
    /\ pairs \in Seq(PairsOf(Len(config)))
    /\ \A q \in PairsOf(Len(config)) : q \in ToSet(pairs) <=> Before(q, p)
    /\ \A i, j \in DOMAIN pairs : i < j => Before(pairs[i], pairs[j])
AddingPairs(th) ==
    /\ lots = config
    /\ \E p \in PairsOf(Len(config)) :
          /\ todo[th] # <<>> /\ PlainFrom(th, 2) /\ todo[th][1] = PairTask(p)
          /\ PairsTo(p)

\* Before the exchange is initialised a thread has come no further than the
\* beginning of an init, ...
Uninitialised ==
    /\ lots = <<>> /\ pairs = <<>> /\ users = <<>>
    /\ \A th \in Threads :
          \/ todo[th] = <<>> \/ Beginning(th)
          \/ todo[th] # <<>> /\ todo[th][1].do = "is_init" /\ PlainFrom(th, 1)
    /\ \A a, b \in Threads : Beginning(a) /\ Beginning(b) => a = b

\* ... later none begins one, and one is at work until all is there.
Completes(th) ==
    /\ AddingLots(th) \/ AddingPairs(th)
    /\ \A o \in Threads \ {th} : PlainFrom(o, 1)
Initialised ==
    /\ \A th \in Threads : \A k \in 1..Len(todo[th]) : todo[th][k].do # "add_state"
    /\ \/ broken
       \/ Ready /\ \A th \in Threads : PlainFrom(th, 1)
       \/ \E th \in Threads : Completes(th)

IdleInv == \A th \in Threads \ busy : todo[th] = <<>>

InitInv ==
    /\ IdleInv
    /\ ~raced => (states = 0 /\ Uninitialised) \/ (states = 1 /\ Initialised)

-----------------------------------------------------------------------------
(* What the steps do to it.                                                *)

\* What comes after m calls is what was to be done after the task.
Follows(new, old, m) ==
    /\ Len(old) \in Nat \ {0} /\ Len(new) = m + Len(old) - 1
    /\ \A i \in 2..Len(old) : new[m + i - 1] = old[i]

\* It is no shorter than the calls, ...
LEMMA LongEnough ==
    ASSUME NEW old, NEW new, NEW m \in Nat, Follows(new, old, m)
    PROVE  Len(new) \in Nat /\ Len(new) >= m
BY DEF Follows

\* ... what comes after them was there before, and its last task was the last.
LEMMA OneRemains ==
    ASSUME NEW old, NEW new, NEW m \in Nat, Follows(new, old, m), NEW i \in (m + 1)..Len(new)
    PROVE  \E j \in 1..Len(old) : /\ new[i] = old[j] /\ j # 1
                                  /\ j = Len(old) => i = Len(new)
<1>1. Len(new) \in Nat /\ Len(new) >= m
  BY DEF Follows
<1>2. i - m + 1 \in 2..Len(old) /\ i - m + 1 \in 1..Len(old) /\ i - m + 1 # 1
  BY <1>1 DEF Follows
<1>3. m + (i - m + 1) - 1 = i
  BY <1>1
<1>4. new[m + (i - m + 1) - 1] = old[i - m + 1]
  BY <1>2 DEF Follows
<1>5. i - m + 1 = Len(old) => i = Len(new)
  BY <1>2 DEF Follows
<1> QED
  BY <1>2, <1>3, <1>4, <1>5

\* An init that is not touched stays where it is.
LEMMA InitElsewhere ==
    ASSUME NEW th \in Threads, todo'[th] = todo[th], config' = config
    PROVE  /\ \A i \in Nat : PlainFrom(th, i) => PlainFrom(th, i)'
           /\ Beginning(th) <=> Beginning(th)'
           /\ UNCHANGED <<lots, pairs>> /\ AddingLots(th) => AddingLots(th)'
           /\ UNCHANGED <<lots, pairs>> /\ AddingPairs(th) => AddingPairs(th)'
<1>1. \A i \in Nat : PlainFrom(th, i) => PlainFrom(th, i)'
  BY DEF PlainFrom
<1>2. Beginning(th) <=> Beginning(th)'
  BY DEF Beginning, PlainFrom, LotTask
<1>3. ASSUME UNCHANGED <<lots, pairs>>, AddingLots(th)
      PROVE  AddingLots(th)'
  BY <1>3 DEF AddingLots, PlainFrom, LotTask
<1>4. ASSUME UNCHANGED <<lots, pairs>>, AddingPairs(th)
      PROVE  AddingPairs(th)'
  BY <1>4 DEF AddingPairs, PlainFrom, PairTask, PairsTo
<1> QED
  BY <1>1, <1>2, <1>3, <1>4

\* Where an init begins: with tasks of its own.
LEMMA InitHeads ==
    ASSUME DataInv, NEW th \in Threads
    PROVE  /\ Beginning(th) => todo[th] # <<>> /\ todo[th][1].do = "add_state"
           /\ AddingLots(th) => todo[th] # <<>> /\ todo[th][1].do \in {"add_lot", "read_lots"}
           /\ AddingPairs(th) => todo[th] # <<>> /\ todo[th][1].do = "add_pair"
           /\ AddingLots(th) \/ AddingPairs(th) => ~PlainFrom(th, 1)
<1>1. todo[th] \in Seq(Tasks) /\ Len(config) \in Nat /\ Len(lots) \in Nat
  BY DEF DataInv
<1>2. Beginning(th) => todo[th] # <<>> /\ todo[th][1].do = "add_state"
  BY <1>1 DEF Beginning, Task
<1>3. ASSUME AddingLots(th)
      PROVE  todo[th] # <<>> /\ todo[th][1].do \in {"add_lot", "read_lots"}
  <2>1. Len(config) - Len(lots) \in Nat /\ Len(todo[th]) >= Len(config) - Len(lots) + 1
    BY <1>1, <1>3 DEF AddingLots
  <2>2. todo[th] # <<>>
    BY <1>1, <2>1
  <2>3. CASE Len(config) - Len(lots) = 0
    BY <1>1, <1>3, <2>2, <2>3 DEF AddingLots, Task
  <2>4. CASE Len(config) - Len(lots) # 0
    <3>1. 1 \in 1..(Len(config) - Len(lots))
      BY <2>1, <2>4
    <3>2. \A k \in 1..(Len(config) - Len(lots)) : todo[th][k] = LotTask(Len(lots) + k)
      BY <1>3 DEF AddingLots
    <3>3. todo[th][1] = LotTask(Len(lots) + 1)
      BY <3>1, <3>2
    <3>4. LotTask(Len(lots) + 1).do = "add_lot"
      BY DEF LotTask
    <3> QED
      BY <2>2, <3>3, <3>4
  <2> QED
    BY <2>3, <2>4
<1>4. AddingPairs(th) => todo[th] # <<>> /\ todo[th][1].do = "add_pair"
  BY DEF AddingPairs, PairTask
<1>5. todo[th] # <<>> => 1 \in 1..Len(todo[th])
  BY <1>1
<1> QED
  BY <1>2, <1>3, <1>4, <1>5 DEF PlainFrom, InitKinds

\* A thread whose first task is neither the test nor one of an init works on
\* an exchange that was initialised.
LEMMA OthersAreLater ==
    ASSUME DataInv, InitInv, ~raced, NEW th \in Threads, todo[th] # <<>>,
           todo[th][1].do \notin {"is_init", "add_state"}
    PROVE  states = 1 /\ Initialised
BY InitHeads DEF InitInv, Uninitialised

\* A thread that has nothing of an init to do is not the one that completes it.
LEMMA OthersComplete ==
    ASSUME DataInv, Initialised, ~broken, NEW th \in Threads,
           todo[th] # <<>> => todo[th][1].do \notin InitKinds \/ PlainFrom(th, 1)
    PROVE  /\ PlainFrom(th, 1)
           /\ \/ Ready /\ \A o \in Threads : PlainFrom(o, 1)
              \/ \E c \in Threads \ {th} : Completes(c)
<1>1. CASE Ready /\ \A o \in Threads : PlainFrom(o, 1)
  BY <1>1
<1>2. CASE \E c \in Threads : Completes(c)
  <2>1. PICK c \in Threads : Completes(c)
    BY <1>2
  <2>2. c # th
    BY <2>1, InitHeads DEF Completes, InitKinds
  <2> QED
    BY <2>1, <2>2 DEF Completes
<1> QED
  BY <1>1, <1>2 DEF Initialised

\* A step of a thread that leaves the initialisation alone.
LEMMA InitialisedStep ==
    ASSUME DataInv, Initialised, NEW th \in Threads, UNCHANGED <<config, lots, pairs>>,
           \A o \in Threads \ {th} : todo'[o] = todo[o],
           \A i \in 1..Len(todo'[th]) :
              \/ todo'[th][i].do \notin InitKinds
              \/ \E j \in 1..Len(todo[th]) : todo'[th][i] = todo[th][j],
           broken => broken',
           \/ broken' \/ PlainFrom(th, 1)
           \/ todo[th] # <<>> /\ todo[th][1].do \notin InitKinds
    PROVE  Initialised'
<1>1. ASSUME NEW o \in Threads, NEW k \in 1..Len(todo'[o])
      PROVE  todo'[o][k].do # "add_state"
  <2>1. CASE o = th
    BY <1>1, <2>1 DEF Initialised, InitKinds
  <2>2. CASE o # th
    BY <1>1, <2>2 DEF Initialised
  <2> QED
    BY <2>1, <2>2
<1>2. CASE broken'
  BY <1>1, <1>2 DEF Initialised
<1>3. CASE ~broken'
  <2>1. /\ PlainFrom(th, 1)
        /\ \/ Ready /\ \A o \in Threads : PlainFrom(o, 1)
           \/ \E c \in Threads \ {th} : Completes(c)
    BY <1>3, OthersComplete
  <2>2. PlainFrom(th, 1)'
    BY <2>1 DEF PlainFrom
  <2>3. CASE Ready /\ \A o \in Threads : PlainFrom(o, 1)
    <3>1. \A o \in Threads \ {th} : PlainFrom(o, 1)'
      BY <2>3, InitElsewhere
    <3>2. Ready'
      BY <2>3 DEF Ready
    <3> QED
      BY <1>1, <2>2, <3>1, <3>2 DEF Initialised
  <2>4. CASE \E c \in Threads \ {th} : Completes(c)
    <3>1. PICK c \in Threads \ {th} : Completes(c)
      BY <2>4
    <3>2. AddingLots(c)' \/ AddingPairs(c)'
      BY <3>1, InitElsewhere DEF Completes
    <3>3. \A o \in Threads \ {c} : PlainFrom(o, 1)'
      BY <2>2, <3>1, InitElsewhere DEF Completes
    <3> QED
      BY <1>1, <3>1, <3>2, <3>3 DEF Initialised, Completes
  <2> QED
    BY <2>1, <2>3, <2>4
<1> QED
  BY <1>2, <1>3

\* A thread goes on with calls that are about no init.
LEMMA GoesOn ==
    ASSUME DataInv, InitInv, ~raced, states = 1, NEW th \in Threads, todo[th] # <<>>,
           todo[th][1].do \notin InitKinds,
           NEW calls \in Seq(Tasks), Returns(th, calls),
           \A i \in 1..Len(calls) : calls[i].do \notin InitKinds,
           UNCHANGED <<config, states, lots, pairs, busy, broken>>
    PROVE  InitInv'
<1>1. /\ todo' \in [Threads -> Seq(Tasks)]
      /\ \A o \in Threads \ {th} : todo'[o] = todo[o]
      /\ Len(todo[th]) \in Nat \ {0} /\ Len(calls) \in Nat
      /\ Len(todo'[th]) = Len(calls) + Len(todo[th]) - 1
      /\ \A i \in 1..Len(calls) : todo'[th][i] = calls[i]
      /\ \A i \in 2..Len(todo[th]) : todo'[th][Len(calls) + i - 1] = todo[th][i]
  BY ReturnsIsPop
<1>2. ASSUME NEW i \in 1..Len(todo'[th])
      PROVE  \/ todo'[th][i].do \notin InitKinds
             \/ \E j \in 1..Len(todo[th]) : todo'[th][i] = todo[th][j]
  <2>1. CASE i <= Len(calls)
    <3>1. i \in 1..Len(calls)
      BY <1>1, <2>1
    <3>2. todo'[th][i] = calls[i]
      BY <1>1, <3>1
    <3> QED
      BY <3>1, <3>2
  <2>2. CASE i > Len(calls)
    <3>1. i \in (Len(calls) + 1)..Len(todo'[th])
      BY <1>1, <2>2
    <3>2. Follows(todo'[th], todo[th], Len(calls))
      BY <1>1 DEF Follows
    <3>3. PICK j \in 1..Len(todo[th]) : todo'[th][i] = todo[th][j]
      <4>1. Len(calls) \in Nat
        BY <1>1
      <4> QED
        BY <3>1, <3>2, <4>1, OneRemains
    <3> QED
      BY <3>3
  <2> QED
    BY <1>1, <2>1, <2>2
<1>3. states = 1 /\ Initialised
  BY DEF InitInv
<1>4. Initialised'
  BY <1>1, <1>2, <1>3, InitialisedStep
<1>5. IdleInv'
  BY <1>1 DEF InitInv, IdleInv
<1> QED
  BY <1>3, <1>4, <1>5 DEF InitInv

\* An exception: an init that it ends is cut short.
LEMMA Drops ==
    ASSUME DataInv, InitInv, ~raced, NEW th \in Threads, Throws(th),
           UNCHANGED <<config, states, lots, pairs, users, busy>>
    PROVE  InitInv'
<1>1. /\ todo'[th] = <<>> /\ \A o \in Threads \ {th} : todo'[o] = todo[o]
      /\ broken' = (broken \/ Initialising(th))
  BY DEF Throws, DataInv
<1>2. IdleInv'
  BY <1>1 DEF InitInv, IdleInv
<1>3. CASE states = 0 /\ Uninitialised
  <2>1. \A o \in Threads \ {th} : /\ Beginning(o) <=> Beginning(o)'
                                  /\ PlainFrom(o, 1) => PlainFrom(o, 1)'
    BY <1>1, InitElsewhere
  <2>2. ~Beginning(th)'
    <3>1. Len(config') + 2 > 0
      BY DEF DataInv
    <3> QED
      BY <1>1, <3>1 DEF Beginning
  <2> QED
    BY <1>1, <1>2, <1>3, <2>1, <2>2 DEF InitInv, Uninitialised
<1>4. CASE states = 1 /\ Initialised
  <2>1. ~Initialising(th) => PlainFrom(th, 1)
    <3>1. todo[th] \in Seq(Tasks)
      BY DEF DataInv
    <3>2. DOMAIN todo[th] = 1..Len(todo[th])
      BY <3>1
    <3> QED
      BY <3>2 DEF Initialising, PlainFrom
  <2>2. broken' \/ PlainFrom(th, 1)
    BY <1>1, <2>1
  <2>3. \A i \in 1..Len(todo'[th]) : FALSE
    BY <1>1
  <2>4. Initialised'
    BY <1>1, <1>4, <2>2, <2>3, InitialisedStep
  <2> QED
    BY <1>2, <1>4, <2>4 DEF InitInv
<1> QED
  BY <1>3, <1>4 DEF InitInv

\* A sequence comes after another.
LEMMA Joined ==
    ASSUME NEW s \in Seq(Tasks), NEW t \in Seq(Tasks)
    PROVE  /\ s \o t \in Seq(Tasks) /\ Len(s \o t) = Len(s) + Len(t)
           /\ \A i \in 1..Len(s) : (s \o t)[i] = s[i]
           /\ \A i \in 1..Len(t) : (s \o t)[Len(s) + i] = t[i]
OBVIOUS

\* The tasks of Crypto::init one by one.
LEMMA InitTasksAre ==
    ASSUME DataInv
    PROVE  /\ InitTasks \in Seq(Tasks)
           /\ Len(InitTasks) = Len(config) + 2 /\ Len(config) \in Nat
           /\ InitTasks[1] = Task("add_state")
           /\ \A k \in 1..Len(config) : InitTasks[k + 1] = LotTask(k)
           /\ InitTasks[Len(config) + 2] = Task("read_lots")
<1> DEFINE lot == [k \in DOMAIN config |-> [do |-> "add_lot", name |-> config[k]]]
           first == <<Task("add_state")>>
           last == <<Task("read_lots")>>
           n == Len(config)
<1>1. Task("add_state") \in Tasks /\ Task("read_lots") \in Tasks
  BY DEF Task, Tasks
<1>2. n \in Nat /\ lot \in Seq(Tasks) /\ Len(lot) = n /\ \A k \in 1..n : lot[k] = LotTask(k)
  <2>1. DOMAIN config = 1..n /\ n \in Nat
    BY DEF DataInv
  <2>2. \A k \in 1..n : [do |-> "add_lot", name |-> config[k]] \in Tasks
    BY DEF DataInv, Tasks
  <2>3. lot \in [1..n -> Tasks]
    BY <2>1, <2>2
  <2>4. \A k \in 1..n : lot[k] = LotTask(k)
    BY <2>1 DEF LotTask
  <2> QED
    BY <2>1, <2>3, <2>4
<1>3. /\ first \in Seq(Tasks) /\ Len(first) = 1 /\ first[1] = Task("add_state")
      /\ last \in Seq(Tasks) /\ Len(last) = 1 /\ last[1] = Task("read_lots")
  BY <1>1
<1>4. InitTasks = first \o lot \o last
  BY DEF InitTasks
<1> HIDE DEF lot, first, last, n
<1> DEFINE most == first \o lot
           all == most \o last
<1>5. /\ most \in Seq(Tasks) /\ Len(most) = Len(first) + Len(lot)
      /\ \A k \in 1..Len(first) : most[k] = first[k]
      /\ \A k \in 1..Len(lot) : most[Len(first) + k] = lot[k]
  BY <1>2, <1>3, Joined
<1> HIDE DEF most
<1>6. /\ Len(most) = n + 1 /\ most[1] = first[1]
      /\ \A k \in 1..n : most[k + 1] = lot[k]
  <2>1. \A k \in 1..n : 1 + k = k + 1
    BY <1>2
  <2> QED
    BY <1>2, <1>3, <1>5, <2>1
<1>7. /\ all \in Seq(Tasks) /\ Len(all) = Len(most) + Len(last)
      /\ \A k \in 1..Len(most) : all[k] = most[k]
      /\ \A k \in 1..Len(last) : all[Len(most) + k] = last[k]
  BY <1>3, <1>5, Joined
<1>8. 1 \in 1..(n + 1) /\ \A k \in 1..n : k + 1 \in 1..(n + 1)
  BY <1>2
<1>9. InitTasks = all
  BY <1>4 DEF most
<1> HIDE DEF all
<1>10. Len(all) = n + 2 /\ all[n + 2] = last[1]
  <2>1. (n + 1) + 1 = n + 2 /\ 1 \in 1..Len(last)
    BY <1>2, <1>3
  <2> QED
    BY <1>3, <1>6, <1>7, <2>1
<1>11. /\ all[1] = Task("add_state") /\ all[n + 2] = Task("read_lots")
       /\ \A k \in 1..n : all[k + 1] = LotTask(k)
  BY <1>2, <1>3, <1>6, <1>7, <1>8, <1>10
<1> QED
  BY <1>2, <1>7, <1>9, <1>10, <1>11 DEF n

\* CheckInit recognises an init that has done nothing.
LEMMA BeginningIsSeen ==
    ASSUME DataInv, NEW o \in Threads, Beginning(o)
    PROVE  IsPrefix(InitTasks, todo[o])
<1> DEFINE s == InitTasks
           t == todo[o]
           n == Len(config)
<1>1. s \in Seq(Tasks) /\ Len(s) = n + 2 /\ n \in Nat
  BY InitTasksAre
<1>2. t \in Seq(Tasks) /\ Len(t) >= n + 2
  BY DEF DataInv, Beginning
<1>3. \A i \in 1..(n + 2) : s[i] = t[i]
  <2>1. s[1] = t[1] /\ s[n + 2] = t[n + 2]
    BY InitTasksAre DEF Beginning
  <2>2. ASSUME NEW i \in 1..(n + 2), i # 1, i # n + 2
        PROVE  s[i] = t[i]
    <3>1. i - 1 \in 1..n /\ (i - 1) + 1 = i
      BY <1>1, <2>2
    <3>2. s[(i - 1) + 1] = LotTask(i - 1) /\ t[(i - 1) + 1] = LotTask(i - 1)
      BY <3>1, InitTasksAre DEF Beginning
    <3> QED
      BY <3>1, <3>2
  <2> QED
    BY <2>1, <2>2
<1> HIDE DEF s, t, n
<1>4. Len(s) \in 0..Len(s) /\ Len(s) \in 0..Len(t) /\ 1 \in 1..(Len(s) + 1) /\ 1 \in 1..(Len(t) + 1)
  BY <1>1, <1>2
<1>5. /\ SubSeq(s, 1, Len(s)) \in Seq(Tasks)
      /\ Len(SubSeq(s, 1, Len(s))) = Len(s)
      /\ \A i \in 1..Len(s) : SubSeq(s, 1, Len(s))[i] = s[i]
  BY <1>1, <1>4, SubSeqProperties
<1>6. /\ SubSeq(t, 1, Len(s)) \in Seq(Tasks)
      /\ Len(SubSeq(t, 1, Len(s))) = Len(s)
      /\ \A i \in 1..Len(s) : SubSeq(t, 1, Len(s))[i] = t[i]
  BY <1>1, <1>2, <1>4, SubSeqProperties
<1>7. SubSeq(s, 1, Len(s)) = SubSeq(t, 1, Len(s))
  BY <1>1, <1>3, <1>5, <1>6, SeqEqual
<1>8. IsPrefix(s, t)
  BY <1>1, <1>2, <1>7 DEF IsPrefix
<1> QED
  BY <1>8 DEF s, t

\* A task is done, and nothing is called.
LEMMA Popped ==
    ASSUME DataInv, NEW th \in Threads, todo[th] # <<>>, Returns(th, <<>>)
    PROVE  /\ todo' \in [Threads -> Seq(Tasks)]
           /\ \A o \in Threads \ {th} : todo'[o] = todo[o]
           /\ Len(todo[th]) \in Nat \ {0} /\ Len(todo'[th]) = Len(todo[th]) - 1
           /\ \A i \in 1..(Len(todo[th]) - 1) : todo'[th][i] = todo[th][i + 1]
<1> DEFINE none == <<>>
<1>1. none \in Seq(Tasks) /\ Len(none) = 0 /\ Returns(th, none)
  OBVIOUS
<1> HIDE DEF none
<1>2. /\ todo' \in [Threads -> Seq(Tasks)]
      /\ \A o \in Threads \ {th} : todo'[o] = todo[o]
      /\ Len(todo[th]) \in Nat \ {0}
      /\ Len(todo'[th]) = Len(none) + Len(todo[th]) - 1
      /\ \A i \in 2..Len(todo[th]) : todo'[th][Len(none) + i - 1] = todo[th][i]
  BY <1>1, ReturnsIsPop
<1>3. ASSUME NEW i \in 1..(Len(todo[th]) - 1)
      PROVE  todo'[th][i] = todo[th][i + 1]
  <2>1. i + 1 \in 2..Len(todo[th]) /\ Len(none) + (i + 1) - 1 = i
    BY <1>1, <1>2
  <2>2. todo'[th][Len(none) + (i + 1) - 1] = todo[th][i + 1]
    BY <1>2, <2>1
  <2> QED
    BY <2>1, <2>2
<1> QED
  BY <1>1, <1>2, <1>3

\* A thread finds that the exchange is not initialised, and begins.
LEMMA BeginsInit ==
    ASSUME NameInv, InitInv, ~raced, ~raced', NEW th \in Threads, CheckInit(th), ~IsInit
    PROVE  InitInv'
<1> DEFINE old == todo[th]
           new == todo'[th]
<1>1. DataInv
  BY DEF NameInv
<1> PICK n \in Nat : n = Len(config)
  BY <1>1 DEF DataInv
<1>2. /\ old # <<>> /\ old[1].do = "is_init" /\ Returns(th, InitTasks)
      /\ UNCHANGED <<config, states, lots, pairs, users, busy, broken>>
  BY <1>1, HeadDone DEF CheckInit, db
<1>3. states = 0 /\ Uninitialised
  BY DEF InitInv, IsInit
<1>4. \A o \in Threads : ~Beginning(o)
  BY <1>1, BeginningIsSeen DEF CheckInit
<1>5. PlainFrom(th, 1)
  BY <1>2, <1>3, <1>4 DEF Uninitialised
<1>6. /\ InitTasks \in Seq(Tasks) /\ Len(InitTasks) = n + 2 /\ n \in Nat
  BY <1>1, InitTasksAre
<1>7. /\ todo' \in [Threads -> Seq(Tasks)]
      /\ \A o \in Threads \ {th} : todo'[o] = todo[o]
      /\ Len(old) \in Nat \ {0}
      /\ Len(new) = Len(InitTasks) + Len(old) - 1
      /\ \A i \in 1..Len(InitTasks) : new[i] = InitTasks[i]
      /\ \A i \in 2..Len(old) : new[Len(InitTasks) + i - 1] = old[i]
  BY <1>1, <1>2, <1>6, ReturnsIsPop
<1>8. Beginning(th)'
  <2>0. /\ Len(new) >= n + 2
        /\ \A i \in (n + 3)..Len(new) : \E j \in 1..Len(old) : new[i] = old[j]
    <3>1. Follows(new, old, n + 2)
      BY <1>6, <1>7 DEF Follows
    <3>2. n + 2 \in Nat /\ (n + 2) + 1 = n + 3
      OBVIOUS
    <3>3. Len(new) >= n + 2
      BY <3>1, <3>2, LongEnough
    <3>4. ASSUME NEW i \in (n + 3)..Len(new)
          PROVE  \E j \in 1..Len(old) : new[i] = old[j]
      <4>1. i \in ((n + 2) + 1)..Len(new)
        BY <3>2
      <4> QED
        BY <3>1, <3>2, <4>1, OneRemains
    <3> QED
      BY <3>3, <3>4
  <2>1. 1 \in 1..(n + 2) /\ n + 2 \in 1..(n + 2) /\ \A k \in 1..n : k + 1 \in 1..(n + 2)
    BY <1>6
  <2>2. /\ new[1] = Task("add_state") /\ new[n + 2] = Task("read_lots")
        /\ \A k \in 1..n : new[k + 1] = LotTask(k)
    BY <1>1, <1>6, <1>7, <2>1, InitTasksAre
  <2>3. ASSUME NEW i \in (n + 3)..Len(new)
        PROVE  new[i].do \notin InitKinds
    <3>1. PICK j \in 1..Len(old) : new[i] = old[j]
      BY <2>0
    <3> QED
      BY <1>5, <3>1 DEF PlainFrom
  <2>4. config' = config /\ Len(new) >= n + 2
    BY <1>2, <2>0
  <2>5. \A k \in 1..n : LotTask(k)' = LotTask(k)
    BY <2>4 DEF LotTask
  <2>6. PlainFrom(th, n + 3)'
    BY <2>3, <2>4 DEF PlainFrom
  <2> QED
    BY <2>2, <2>4, <2>5, <2>6 DEF Beginning
<1>9. ASSUME NEW o \in Threads \ {th}
      PROVE  /\ ~Beginning(o)'
             /\ \/ todo'[o] = <<>>
                \/ todo'[o] # <<>> /\ todo'[o][1].do = "is_init" /\ PlainFrom(o, 1)'
  <2>1. todo'[o] = todo[o] /\ config' = config
    BY <1>2, <1>7
  <2> QED
    BY <1>3, <1>4, <2>1, InitElsewhere DEF Uninitialised
<1>10. Uninitialised'
  BY <1>2, <1>3, <1>8, <1>9 DEF Uninitialised
<1>11. IdleInv'
  BY <1>2, <1>7 DEF InitInv, IdleInv
<1> QED
  BY <1>2, <1>3, <1>10, <1>11 DEF InitInv

\* The row of table state, which keeps others from beginning.
LEMMA StateIsAdded ==
    ASSUME NameInv, InitInv, ~raced, NEW th \in Threads, AddState(th)
    PROVE  InitInv'
<1>1. DataInv
  BY DEF NameInv
<1> PICK n \in Nat : n = Len(config)
  BY <1>1 DEF DataInv
<1>2. /\ todo[th] # <<>> /\ todo[th][1].do = "add_state" /\ Returns(th, <<>>)
      /\ UNCHANGED <<config, lots, pairs, busy, broken>> /\ states' = states + 1
  BY <1>1, HeadDone DEF AddState, history
<1>3. states = 0 /\ Uninitialised
  <2>1. 1 \in 1..Len(todo[th])
    BY <1>1, <1>2 DEF DataInv
  <2> QED
    BY <1>2, <2>1 DEF InitInv, Initialised
<1>4. Beginning(th) /\ lots = <<>> /\ pairs = <<>>
  BY <1>2, <1>3 DEF Uninitialised
<1>5. /\ todo' \in [Threads -> Seq(Tasks)]
      /\ \A o \in Threads \ {th} : todo'[o] = todo[o]
      /\ Len(todo[th]) \in Nat \ {0} /\ Len(todo'[th]) = Len(todo[th]) - 1
      /\ \A i \in 1..(Len(todo[th]) - 1) : todo'[th][i] = todo[th][i + 1]
  BY <1>1, <1>2, Popped
<1>6. /\ n \in Nat /\ Len(todo'[th]) >= n + 1
      /\ \A k \in 1..n : todo'[th][k] = LotTask(k)
      /\ todo'[th][n + 1] = Task("read_lots")
      /\ \A i \in (n + 2)..Len(todo'[th]) : todo'[th][i].do \notin InitKinds
  <2>1. n \in Nat /\ Len(todo[th]) >= n + 2
    BY <1>1, <1>4 DEF Beginning, DataInv
  <2>2. /\ n + 1 \in 1..(Len(todo[th]) - 1) /\ (n + 1) + 1 = n + 2
        /\ \A k \in 1..n : k \in 1..(Len(todo[th]) - 1)
    BY <1>5, <2>1
  <2>3. \A k \in 1..n : todo'[th][k] = LotTask(k)
    BY <1>4, <1>5, <2>2 DEF Beginning
  <2>4. todo'[th][n + 1] = Task("read_lots")
    BY <1>4, <1>5, <2>2 DEF Beginning
  <2>5. ASSUME NEW i \in (n + 2)..Len(todo'[th])
        PROVE  todo'[th][i].do \notin InitKinds
    <3>1. i \in 1..(Len(todo[th]) - 1) /\ i + 1 \in (n + 3)..Len(todo[th])
      BY <1>5, <2>1
    <3>2. todo[th][i + 1].do \notin InitKinds
      BY <1>4, <3>1 DEF Beginning, PlainFrom
    <3> QED
      BY <1>5, <3>1, <3>2
  <2> QED
    BY <1>5, <2>1, <2>3, <2>4, <2>5
<1>7. AddingLots(th)'
  <2>1. Len(lots') = 0 /\ pairs' = <<>> /\ Len(config') = n
    BY <1>2, <1>4
  <2>2. PlainFrom(th, n + 2)'
    BY <1>6 DEF PlainFrom
  <2>3. \A k \in 1..n : LotTask(0 + k)' = LotTask(k)
    BY <1>2, <1>6 DEF LotTask
  <2>4. n - 0 = n /\ n - 0 + 1 = n + 1 /\ n - 0 + 2 = n + 2
    BY <1>6
  <2> QED
    BY <1>6, <2>1, <2>2, <2>3, <2>4 DEF AddingLots
<1>8. ASSUME NEW o \in Threads \ {th}
      PROVE  PlainFrom(o, 1)'
  <2>1. PlainFrom(o, 1)
    BY <1>3, <1>4 DEF Uninitialised, PlainFrom
  <2> QED
    BY <1>2, <1>5, <2>1, InitElsewhere
<1>9. \A o \in Threads : \A k \in 1..Len(todo'[o]) : todo'[o][k].do # "add_state"
  <2>1. \A o \in Threads \ {th} : \A k \in 1..Len(todo'[o]) : todo'[o][k].do # "add_state"
    BY <1>8 DEF PlainFrom, InitKinds
  <2>2. ASSUME NEW k \in 1..Len(todo'[th])
        PROVE  todo'[th][k].do # "add_state"
    <3>1. k \in 1..n \/ k = n + 1 \/ k \in (n + 2)..Len(todo'[th])
      BY <1>6
    <3>2. \A j \in 1..n : LotTask(j).do = "add_lot"
      BY DEF LotTask
    <3> QED
      BY <1>6, <3>1, <3>2 DEF Task, InitKinds
  <2> QED
    BY <2>1, <2>2
<1>10. Initialised'
  BY <1>7, <1>8, <1>9 DEF Initialised, Completes
<1>11. IdleInv'
  BY <1>2, <1>5 DEF InitInv, IdleInv
<1> QED
  BY <1>2, <1>3, <1>10, <1>11 DEF InitInv

\* No thread begins an init any more.
NoState == \A th \in Threads : \A k \in 1..Len(todo[th]) : todo[th][k].do # "add_state"

\* That stays so, unless an init is called.
LEMMA NoStateStays ==
    ASSUME NoState, NEW th \in Threads, \A o \in Threads \ {th} : todo'[o] = todo[o],
           \A i \in 1..Len(todo'[th]) :
              \/ todo'[th][i].do # "add_state"
              \/ \E j \in 1..Len(todo[th]) : todo'[th][i] = todo[th][j]
    PROVE  NoState'
<1>1. ASSUME NEW o \in Threads, NEW k \in 1..Len(todo'[o])
      PROVE  todo'[o][k].do # "add_state"
  <2>1. CASE o = th
    BY <1>1, <2>1 DEF NoState
  <2>2. CASE o # th
    BY <1>1, <2>2 DEF NoState
  <2> QED
    BY <2>1, <2>2
<1> QED
  BY <1>1 DEF NoState

\* The thread at a task of an init is the one that completes it.
LEMMA CompletesItself ==
    ASSUME DataInv, Initialised, ~broken, NEW th \in Threads, todo[th] # <<>>,
           todo[th][1].do \in InitKinds
    PROVE  Completes(th)
<1>1. ~PlainFrom(th, 1)
  <2>1. 1 \in 1..Len(todo[th])
    BY DEF DataInv
  <2> QED
    BY <2>1 DEF PlainFrom
<1> QED
  BY <1>1 DEF Initialised, Completes

\* With r of n lots to be added after the next one, of which d are there, the
\* rest of what is to be done, m tasks, moves up by one.
Shifts(n, d, r, m) ==
    /\ n - d = r + 1 /\ n - (d + 1) = r /\ m >= r + 1
    /\ \A k \in 1..r : k + 1 \in 1..(n - d) /\ k \in 1..m /\ d + (k + 1) = (d + 1) + k
    /\ r + 1 \in 1..m /\ (r + 1) + 1 = n - d + 1
    /\ \A i \in (r + 2)..m : i \in 1..m /\ i + 1 \in (n - d + 2)..(m + 1)

\* It does, if there are that many.
LEMMA LotsShift ==
    ASSUME NEW n \in Nat, NEW d \in Nat, NEW r \in Nat, NEW m \in Nat, r + d + 1 = n, m >= r + 1
    PROVE  Shifts(n, d, r, m)
BY DEF Shifts

\* The next lot of the configuration gets the next key.
LEMMA NextLot ==
    ASSUME DataInv, NEW th \in Threads, AddingLots(th), todo[th][1].do = "add_lot",
           lots' = Append(lots, todo[th][1].name), Returns(th, <<>>),
           UNCHANGED <<config, pairs>>
    PROVE  AddingLots(th)'
<1> PICK n \in Nat, d \in Nat : n = Len(config) /\ d = Len(lots)
  BY DEF DataInv
<1>1. /\ d <= n /\ Len(todo[th]) >= n - d + 1 /\ PlainFrom(th, n - d + 2)
      /\ \A k \in 1..d : lots[k] = config[k]
      /\ \A k \in 1..(n - d) : todo[th][k] = LotTask(d + k)
      /\ todo[th][n - d + 1] = Task("read_lots") /\ pairs = <<>>
  BY DEF AddingLots
<1>2. d < n
  <2>1. d = n => todo[th][1] = Task("read_lots")
    BY <1>1
  <2> QED
    BY <1>1, <2>1 DEF Task
<1>3. todo[th][1].name = config[d + 1]
  <2>1. todo[th][1] = LotTask(d + 1)
    BY <1>1, <1>2
  <2> QED
    BY <2>1 DEF LotTask
<1>4. /\ Len(lots') = d + 1 /\ lots'[d + 1] = config[d + 1]
      /\ \A k \in 1..d : lots'[k] = lots[k]
  BY <1>3 DEF DataInv
<1>5. \A k \in 1..(d + 1) : lots'[k] = config[k]
  <2>1. \A k \in 1..(d + 1) : k \in 1..d \/ k = d + 1
    OBVIOUS
  <2> QED
    BY <1>1, <1>4, <2>1
<1>6. /\ Len(todo[th]) \in Nat \ {0} /\ Len(todo'[th]) = Len(todo[th]) - 1
      /\ \A i \in 1..(Len(todo[th]) - 1) : todo'[th][i] = todo[th][i + 1]
  <2>1. todo[th] # <<>>
    BY <1>1 DEF DataInv
  <2> QED
    BY <2>1, Popped
<1> PICK m \in Nat : m + 1 = Len(todo[th])
  <2>1. Len(todo[th]) - 1 \in Nat /\ (Len(todo[th]) - 1) + 1 = Len(todo[th])
    BY <1>6
  <2> QED
    BY <2>1
<1>7. Len(todo'[th]) = m /\ \A i \in 1..m : todo'[th][i] = todo[th][i + 1]
  BY <1>6
<1> PICK r \in Nat : r + d + 1 = n
  <2>1. n - d - 1 \in Nat /\ (n - d - 1) + d + 1 = n
    BY <1>2
  <2> QED
    BY <2>1
<1>8. /\ n - d = r + 1 /\ n - (d + 1) = r /\ m >= r + 1
      /\ \A k \in 1..r : k + 1 \in 1..(n - d) /\ k \in 1..m /\ d + (k + 1) = (d + 1) + k
      /\ r + 1 \in 1..m /\ (r + 1) + 1 = n - d + 1
      /\ \A i \in (r + 2)..m : i \in 1..m /\ i + 1 \in (n - d + 2)..(m + 1)
  <2>1. n - d = r + 1
    OBVIOUS
  <2>2. m >= r + 1
    <3>1. m + 1 >= n - d + 1
      BY <1>1
    <3> QED
      BY <2>1, <3>1
  <2>3. Shifts(n, d, r, m)
    BY <2>2, LotsShift
  <2> QED
    BY <2>3 DEF Shifts
<1>9. ASSUME NEW k \in 1..r
      PROVE  todo'[th][k] = LotTask((d + 1) + k)'
  <2>1. todo'[th][k] = todo[th][k + 1]
    BY <1>7, <1>8
  <2>2. todo[th][k + 1] = LotTask(d + (k + 1))
    BY <1>1, <1>8
  <2>3. LotTask((d + 1) + k)' = LotTask((d + 1) + k)
    BY DEF LotTask
  <2> QED
    BY <1>8, <2>1, <2>2, <2>3
<1>10. todo'[th][r + 1] = Task("read_lots")
  BY <1>1, <1>7, <1>8
<1>11. PlainFrom(th, r + 2)'
  <2>1. ASSUME NEW i \in (r + 2)..m
        PROVE  todo'[th][i].do \notin InitKinds
    <3>1. todo[th][i + 1].do \notin InitKinds
      BY <1>1, <1>8 DEF PlainFrom
    <3> QED
      BY <1>7, <1>8, <3>1
  <2> QED
    BY <1>7, <2>1 DEF PlainFrom
<1>12. /\ Len(lots') = d + 1 /\ Len(config') = n /\ d + 1 <= n
       /\ n - (d + 1) + 1 = r + 1 /\ n - (d + 1) + 2 = r + 2
  BY <1>2, <1>4, <1>8
<1> QED
  BY <1>1, <1>5, <1>7, <1>8, <1>9, <1>10, <1>11, <1>12 DEF AddingLots

\* A lot is added, or its name refused.
LEMMA LotIsAdded ==
    ASSUME NameInv, InitInv, ~raced, NEW th \in Threads, AddLot(th)
    PROVE  InitInv'
<1>1. DataInv
  BY DEF NameInv
<1>2. /\ todo[th] # <<>> /\ todo[th][1].do = "add_lot" /\ Head(todo[th]) = todo[th][1]
      /\ UNCHANGED <<config, states, pairs, users, busy>>
  BY <1>1, HeadDone DEF AddLot
<1>3. states = 1 /\ Initialised
  BY <1>1, <1>2, OthersAreLater
<1>4. CASE Throws(th) /\ UNCHANGED lots
  BY <1>1, <1>2, <1>4, Drops
<1>5. CASE lots' = Append(lots, todo[th][1].name) /\ Returns(th, <<>>) /\ UNCHANGED broken
  <2>1. /\ \A o \in Threads \ {th} : todo'[o] = todo[o]
        /\ Len(todo[th]) \in Nat \ {0} /\ Len(todo'[th]) = Len(todo[th]) - 1
        /\ \A i \in 1..(Len(todo[th]) - 1) : todo'[th][i] = todo[th][i + 1]
    BY <1>1, <1>2, <1>5, Popped
  <2>2. NoState'
    <3>1. \A i \in 1..Len(todo'[th]) : \E j \in 1..Len(todo[th]) : todo'[th][i] = todo[th][j]
      <4>1. ASSUME NEW i \in 1..Len(todo'[th])
            PROVE  i + 1 \in 1..Len(todo[th]) /\ todo'[th][i] = todo[th][i + 1]
        BY <2>1
      <4> QED
        BY <4>1
    <3> QED
      BY <1>3, <2>1, <3>1, NoStateStays DEF Initialised, NoState
  <2>3. ASSUME ~broken
        PROVE  Completes(th)'
    <3>1. Completes(th)
      BY <1>1, <1>2, <1>3, <2>3, CompletesItself DEF InitKinds
    <3>2. AddingLots(th)
      BY <1>1, <1>2, <3>1, InitHeads DEF Completes
    <3>3. AddingLots(th)'
      BY <1>1, <1>2, <1>5, <3>2, NextLot
    <3>4. \A o \in Threads \ {th} : PlainFrom(o, 1)'
      BY <1>2, <2>1, <3>1, InitElsewhere DEF Completes
    <3> QED
      BY <3>3, <3>4 DEF Completes
  <2>4. Initialised'
    BY <1>5, <2>2, <2>3 DEF Initialised, NoState
  <2>5. IdleInv'
    BY <1>2, <2>1 DEF InitInv, IdleInv
  <2> QED
    BY <1>2, <1>3, <2>4, <2>5 DEF InitInv
<1> QED
  BY <1>2, <1>4, <1>5 DEF AddLot

\* init's loops ask for pairs.
LEMMA PairFromIs ==
    ASSUME NEW i \in Nat, NEW j \in Nat, NEW n \in Nat
    PROVE  /\ PairFrom(i, j, n) \in Seq(Tasks)
           /\ \A k \in 1..Len(PairFrom(i, j, n)) : PairFrom(i, j, n)[k].do = "add_pair"
<1> DEFINE task(a, b) == [do |-> "add_pair", pair |-> <<a, b>>, of |-> n]
<1>1. \A a, b : Len(<<task(a, b)>>) = 1 /\ <<task(a, b)>>[1] = task(a, b)
  OBVIOUS
<1>2. \A a, b : task(a, b).do = "add_pair"
  OBVIOUS
<1>3. PairFrom(i, j, n) \in Seq(Tasks)
  BY PairsAreTasks
<1>4. PairFrom(i, j, n) = IF j <= n THEN <<task(i, j)>>
                          ELSE IF i + 1 < n THEN <<task(i + 1, i + 2)>> ELSE <<>>
  BY DEF PairFrom
<1>5. Len(<<>>) = 0 /\ \A k \in 1..1 : k = 1
  OBVIOUS
<1> HIDE DEF task
<1>6. (\E a, b : PairFrom(i, j, n) = <<task(a, b)>>) \/ PairFrom(i, j, n) = <<>>
  BY <1>4
<1> QED
  BY <1>1, <1>2, <1>3, <1>5, <1>6

\* A single call.
LEMMA OneCall ==
    \A t : Len(<<t>>) = 1 /\ <<t>>[1] = t
OBVIOUS

\* The order of the pairs.
LEMMA PairsInOrder ==
    ASSUME NEW n \in Nat, NEW q \in PairsOf(n), NEW i \in Nat, NEW j \in Nat
    PROVE  /\ Before(q, <<i, j>>) <=> q[1] < i \/ (q[1] = i /\ q[2] < j)
           /\ q[1] \in 1..n /\ q[2] \in 1..n /\ q[1] < q[2] /\ q = <<q[1], q[2]>>
BY DEF PairsOf, Before

\* The loops go on with the pair of i and j, or with the next i, or are over.
LEMMA NextPair ==
    ASSUME DataInv, NEW th \in Threads, todo[th] # <<>>, PlainFrom(th, 2),
           \A o \in Threads \ {th} : PlainFrom(o, 1),
           NEW n \in Nat, n = Len(config), NEW i \in 1..n, NEW j \in 1..(n + 1), i < j,
           Returns(th, PairFrom(i, j, n)),
           config' = config, lots' = config', PairsTo(<<i, j>>)'
    PROVE  \/ Completes(th)'
           \/ Ready' /\ \A o \in Threads : PlainFrom(o, 1)'
<1> DEFINE calls == PairFrom(i, j, n)
<1>1. i \in Nat /\ j \in Nat
  OBVIOUS
<1>2. calls \in Seq(Tasks)
  BY <1>1, PairFromIs
<1>3. /\ \A o \in Threads \ {th} : todo'[o] = todo[o]
      /\ Follows(todo'[th], todo[th], Len(calls))
      /\ \A k \in 1..Len(calls) : todo'[th][k] = calls[k]
      /\ todo' \in [Threads -> Seq(Tasks)]
  BY <1>2, ReturnsIsPop DEF Follows
<1>4. \A o \in Threads \ {th} : PlainFrom(o, 1)'
  BY <1>3, InitElsewhere
<1>5. ASSUME NEW k \in (Len(calls) + 1)..Len(todo'[th])
      PROVE  todo'[th][k].do \notin InitKinds
  <2>1. Len(calls) \in Nat
    BY <1>2
  <2>2. PICK m \in 1..Len(todo[th]) : todo'[th][k] = todo[th][m] /\ m # 1
    BY <1>3, <1>5, <2>1, OneRemains
  <2>3. m \in 2..Len(todo[th])
    BY <2>2
  <2> QED
    BY <2>2, <2>3 DEF PlainFrom
<1>6. /\ pairs' \in Seq(PairsOf(n))
      /\ \A q \in PairsOf(n) : q \in ToSet(pairs') <=> Before(q, <<i, j>>)
      /\ \A k, l \in DOMAIN pairs' : k < l => Before(pairs'[k], pairs'[l])
  BY DEF PairsTo
<1>7. ASSUME NEW a \in 1..n, NEW b \in 1..n, a < b, Len(calls) = 1,
             calls[1] = [do |-> "add_pair", pair |-> <<a, b>>, of |-> n],
             \A q \in PairsOf(n) : Before(q, <<i, j>>) <=> Before(q, <<a, b>>)
      PROVE  Completes(th)'
  <2>1. <<a, b>> \in PairsOf(n)
    BY <1>7 DEF PairsOf
  <2>2. todo'[th][1] = PairTask(<<a, b>>)'
    <3>1. todo'[th][1] = calls[1]
      <4>1. 1 \in 1..Len(calls)
        BY <1>7
      <4> QED
        BY <1>3, <4>1
    <3>2. PairTask(<<a, b>>)' = [do |-> "add_pair", pair |-> <<a, b>>, of |-> n]
      BY DEF PairTask
    <3> QED
      BY <1>7, <3>1, <3>2
  <2>3. PlainFrom(th, 2)'
    BY <1>5, <1>7 DEF PlainFrom
  <2>4. PairsTo(<<a, b>>)'
    BY <1>6, <1>7 DEF PairsTo
  <2>5. todo'[th] # <<>>
    BY <1>3, <1>7 DEF Follows
  <2>6. AddingPairs(th)'
    BY <2>1, <2>2, <2>3, <2>4, <2>5 DEF AddingPairs
  <2> QED
    BY <1>4, <2>6 DEF Completes
<1>8. CASE j <= n
  <2>1. Len(calls) = 1 /\ calls[1] = [do |-> "add_pair", pair |-> <<i, j>>, of |-> n]
    <3>1. calls = <<[do |-> "add_pair", pair |-> <<i, j>>, of |-> n]>>
      BY <1>8 DEF PairFrom
    <3> HIDE DEF calls
    <3> QED
      BY <3>1, OneCall
  <2>2. j \in 1..n
    BY <1>8
  <2> HIDE DEF calls
  <2>3. Completes(th)'
    BY <1>7, <2>1, <2>2
  <2> QED
    BY <2>3
<1>9. CASE j > n /\ i + 1 < n
  <2>1. j = n + 1 /\ i + 1 \in 1..n /\ i + 2 \in 1..n /\ i + 1 < i + 2
    BY <1>9
  <2>2. ASSUME NEW q \in PairsOf(n)
        PROVE  Before(q, <<i, j>>) <=> Before(q, <<i + 1, i + 2>>)
    <3>1. /\ Before(q, <<i, j>>) <=> q[1] < i \/ (q[1] = i /\ q[2] < j)
          /\ q[1] \in 1..n /\ q[2] \in 1..n /\ q[1] < q[2]
      BY <1>1, PairsInOrder
    <3>2. Before(q, <<i + 1, i + 2>>) <=> q[1] < i + 1 \/ (q[1] = i + 1 /\ q[2] < i + 2)
      BY <2>1, PairsInOrder
    <3> QED
      BY <2>1, <3>1, <3>2
  <2>3. /\ Len(calls) = 1
        /\ calls[1] = [do |-> "add_pair", pair |-> <<i + 1, i + 2>>, of |-> n]
    <3>1. calls = <<[do |-> "add_pair", pair |-> <<i + 1, i + 2>>, of |-> n]>>
      BY <1>9 DEF PairFrom
    <3> HIDE DEF calls
    <3> QED
      BY <3>1, OneCall
  <2> HIDE DEF calls
  <2>4. Completes(th)'
    BY <1>7, <2>1, <2>2, <2>3
  <2> QED
    BY <2>4
<1>10. CASE j > n /\ i + 1 >= n
  <2>1. Len(calls) = 0
    <3>1. calls = <<>>
      BY <1>10 DEF PairFrom
    <3> HIDE DEF calls
    <3> QED
      BY <3>1
  <2>2. PlainFrom(th, 1)'
    BY <1>5, <2>1 DEF PlainFrom
  <2>3. \A q \in PairsOf(n) : Before(q, <<i, j>>)
    <3>1. j = n + 1
      BY <1>10
    <3> QED
      BY <1>1, <1>10, <3>1, PairsInOrder
  <2>4. ToSet(pairs') \subseteq PairsOf(n)
    BY <1>6 DEF ToSet
  <2>5. Ready'
    BY <1>6, <2>3, <2>4 DEF Ready
  <2> QED
    BY <1>4, <2>2, <2>5
<1> QED
  BY <1>8, <1>9, <1>10

\* The calls of init's loops leave nobody at the beginning of an init.
LEMMA PairsAreLater ==
    ASSUME DataInv, NoState, NEW th \in Threads, todo[th] # <<>>,
           NEW i \in Nat, NEW j \in Nat, NEW n \in Nat, Returns(th, PairFrom(i, j, n))
    PROVE  NoState'
<1> DEFINE calls == PairFrom(i, j, n)
<1>1. /\ calls \in Seq(Tasks) /\ Len(calls) \in Nat
      /\ \A k \in 1..Len(calls) : calls[k].do = "add_pair"
  <2>1. calls \in Seq(Tasks) /\ \A k \in 1..Len(calls) : calls[k].do = "add_pair"
    BY PairFromIs
  <2> HIDE DEF calls
  <2> QED
    BY <2>1
<1> HIDE DEF calls
<1>2. /\ \A o \in Threads \ {th} : todo'[o] = todo[o]
      /\ Follows(todo'[th], todo[th], Len(calls))
      /\ \A k \in 1..Len(calls) : todo'[th][k] = calls[k]
  BY <1>1, ReturnsIsPop DEF Follows, calls
<1>3. ASSUME NEW k \in 1..Len(todo'[th])
      PROVE  \/ todo'[th][k].do # "add_state"
             \/ \E m \in 1..Len(todo[th]) : todo'[th][k] = todo[th][m]
  <2>1. Len(todo'[th]) \in Nat
    BY <1>1, <1>2, LongEnough
  <2>2. k \in 1..Len(calls) \/ k \in (Len(calls) + 1)..Len(todo'[th])
    BY <1>1, <2>1
  <2>3. CASE k \in 1..Len(calls)
    <3>1. todo'[th][k] = calls[k] /\ calls[k].do = "add_pair"
      BY <1>1, <1>2, <2>3
    <3> QED
      BY <3>1
  <2>4. CASE k \in (Len(calls) + 1)..Len(todo'[th])
    BY <1>1, <1>2, <2>4, OneRemains
  <2> QED
    BY <2>2, <2>3, <2>4
<1> QED
  BY <1>2, <1>3, NoStateStays

\* Where all lots are there, they are those of the configuration.
LEMMA LotsAreThere ==
    ASSUME DataInv, NEW th \in Threads, AddingLots(th), todo[th][1].do = "read_lots"
    PROVE  lots = config /\ PlainFrom(th, 2) /\ pairs = <<>>
<1>0. Len(config) \in Nat /\ Len(lots) \in Nat
  BY DEF DataInv
<1> PICK n \in Nat : n = Len(config)
  BY <1>0
<1> PICK d \in Nat : d = Len(lots)
  BY <1>0
<1>1. /\ d <= n /\ PlainFrom(th, n - d + 2)
      /\ \A k \in 1..d : lots[k] = config[k]
      /\ \A k \in 1..(n - d) : todo[th][k] = LotTask(d + k)
      /\ pairs = <<>>
  BY DEF AddingLots
<1>2. d = n
  <2>1. ASSUME d # n PROVE FALSE
    <3>1. 1 \in 1..(n - d)
      BY <1>1, <2>1
    <3>2. todo[th][1] = LotTask(d + 1)
      BY <1>1, <3>1
    <3>3. LotTask(d + 1).do = "add_lot"
      BY DEF LotTask
    <3> QED
      BY <3>2, <3>3
  <2> QED
    BY <2>1
<1>3. lots \in Seq(Word) /\ config \in Seq(Word)
  BY DEF DataInv
<1>4. lots = config
  BY <1>1, <1>2, <1>3, SeqEqual
<1>5. n - d + 2 = 2
  BY <1>2
<1> QED
  BY <1>1, <1>4, <1>5

\* The lots are read and their pairs follow, if there are lots.
LEMMA LotsAreRead ==
    ASSUME NameInv, InitInv, ~raced, NEW th \in Threads, ReadLots(th)
    PROVE  InitInv'
<1>1. DataInv
  BY DEF NameInv
<1>2. /\ todo[th] # <<>> /\ todo[th][1].do = "read_lots"
      /\ UNCHANGED <<config, states, lots, pairs, users, busy>>
  BY <1>1, HeadDone DEF ReadLots, db
<1>3. states = 1 /\ Initialised
  BY <1>1, <1>2, OthersAreLater
<1>4. CASE Throws(th)
  BY <1>1, <1>2, <1>4, Drops
<1>5. CASE lots # <<>> /\ Returns(th, PairFrom(1, 2, Len(lots))) /\ UNCHANGED broken
  <2>1. 1 \in Nat /\ 2 \in Nat /\ Len(lots) \in Nat /\ Len(lots) # 0
    BY <1>1, <1>5 DEF DataInv
  <2>2. NoState'
    BY <1>1, <1>2, <1>3, <1>5, <2>1, PairsAreLater DEF Initialised, NoState
  <2>3. ASSUME ~broken
        PROVE  Completes(th)' \/ (Ready' /\ \A o \in Threads : PlainFrom(o, 1)')
    <3>1. Completes(th)
      BY <1>1, <1>2, <1>3, <2>3, CompletesItself DEF InitKinds
    <3>2. AddingLots(th)
      BY <1>1, <1>2, <3>1, InitHeads DEF Completes
    <3>3. lots = config /\ PlainFrom(th, 2) /\ pairs = <<>>
      BY <1>1, <1>2, <3>2, LotsAreThere
    <3>4. PICK n \in Nat : n = Len(config)
      BY <2>1, <3>3
    <3>5. 1 \in 1..n /\ 2 \in 1..(n + 1) /\ 1 < 2
      BY <2>1, <3>3, <3>4
    <3>6. ASSUME NEW q \in PairsOf(n)
          PROVE  ~Before(q, <<1, 2>>)
      BY <2>1, PairsInOrder
    <3>7. PairsTo(<<1, 2>>)'
      <4>1. pairs' = <<>> /\ Len(config') = n
        BY <1>2, <3>3, <3>4
      <4>2. <<>> \in Seq(PairsOf(n)) /\ ToSet(<<>>) = {} /\ DOMAIN <<>> = {}
        BY DEF ToSet
      <4> QED
        BY <3>6, <4>1, <4>2 DEF PairsTo
    <3>8. Returns(th, PairFrom(1, 2, n))
      BY <1>5, <3>3, <3>4
    <3>9. \A o \in Threads \ {th} : PlainFrom(o, 1)
      BY <3>1 DEF Completes
    <3>10. config' = config /\ lots' = config'
      BY <1>2, <3>3
    <3> QED
      BY <1>1, <1>2, <3>3, <3>4, <3>5, <3>7, <3>8, <3>9, <3>10, NextPair
  <2>4. Initialised'
    BY <1>5, <2>2, <2>3 DEF Initialised, NoState
  <2>5. IdleInv'
    <3>1. \A o \in Threads \ {th} : todo'[o] = todo[o]
      BY <1>1, <1>5 DEF Returns, DataInv
    <3> QED
      BY <1>2, <3>1 DEF InitInv, IdleInv
  <2> QED
    BY <1>2, <1>3, <2>4, <2>5 DEF InitInv
<1> QED
  BY <1>4, <1>5 DEF ReadLots

\* The pairs that are there with p are those before the next one.
LEMMA PairsWithNext ==
    ASSUME NEW p \in PairsOf(Len(config)), PairsTo(p), Len(config) \in Nat,
           pairs' = Append(pairs, p), config' = config
    PROVE  PairsTo(<<p[1], p[2] + 1>>)'
<1> PICK n \in Nat : n = Len(config)
  OBVIOUS
<1>1. /\ pairs \in Seq(PairsOf(n)) /\ p \in PairsOf(n)
      /\ \A q \in PairsOf(n) : q \in ToSet(pairs) <=> Before(q, p)
      /\ \A i, j \in DOMAIN pairs : i < j => Before(pairs[i], pairs[j])
  BY DEF PairsTo
<1>2. p[1] \in 1..n /\ p[2] \in 1..n /\ p[1] < p[2] /\ p = <<p[1], p[2]>>
  BY DEF PairsOf
<1> PICK m \in Nat : m = Len(pairs)
  BY <1>1
<1>3. /\ pairs' \in Seq(PairsOf(n)) /\ DOMAIN pairs = 1..m /\ DOMAIN pairs' = 1..(m + 1)
      /\ pairs'[m + 1] = p /\ \A i \in 1..m : pairs'[i] = pairs[i]
  BY <1>1
<1>4. ToSet(pairs') = ToSet(pairs) \cup {p}
  <2>1. \A i \in 1..(m + 1) : i \in 1..m \/ i = m + 1
    OBVIOUS
  <2>2. \A i \in 1..m : i \in 1..(m + 1)
    OBVIOUS
  <2>3. m + 1 \in 1..(m + 1)
    OBVIOUS
  <2> QED
    BY <1>3, <2>1, <2>2, <2>3 DEF ToSet
<1>5. ASSUME NEW q \in PairsOf(n)
      PROVE  q \in ToSet(pairs') <=> Before(q, <<p[1], p[2] + 1>>)
  <2>1. /\ Before(q, p) <=> q[1] < p[1] \/ (q[1] = p[1] /\ q[2] < p[2])
        /\ Before(q, <<p[1], p[2] + 1>>) <=> q[1] < p[1] \/ (q[1] = p[1] /\ q[2] < p[2] + 1)
    BY DEF Before
  <2>2. q[1] \in 1..n /\ q[2] \in 1..n /\ q = <<q[1], q[2]>>
    BY DEF PairsOf
  <2>3. q = p <=> q[1] = p[1] /\ q[2] = p[2]
    BY <1>2, <2>2
  <2>4. Before(q, <<p[1], p[2] + 1>>) <=> Before(q, p) \/ q = p
    BY <1>2, <2>1, <2>2, <2>3
  <2> QED
    BY <1>1, <1>4, <2>4
<1>6. ASSUME NEW i \in 1..(m + 1), NEW j \in 1..(m + 1), i < j
      PROVE  Before(pairs'[i], pairs'[j])
  <2>1. i \in 1..m
    BY <1>6
  <2>2. CASE j = m + 1
    <3>1. pairs[i] \in ToSet(pairs) /\ pairs[i] \in PairsOf(n)
      BY <1>1, <1>3, <2>1 DEF ToSet
    <3> QED
      BY <1>1, <1>3, <2>1, <2>2, <3>1
  <2>3. CASE j # m + 1
    <3>1. j \in 1..m
      BY <2>3
    <3> QED
      BY <1>1, <1>3, <1>6, <2>1, <3>1
  <2> QED
    BY <2>2, <2>3
<1> QED
  BY <1>3, <1>5, <1>6 DEF PairsTo

\* A pair gets the next key.
LEMMA PairIsAdded ==
    ASSUME NameInv, InitInv, ~raced, NEW th \in Threads, AddPair(th)
    PROVE  InitInv'
<1>1. DataInv
  BY DEF NameInv
<1>2. /\ todo[th] # <<>> /\ todo[th][1].do = "add_pair" /\ todo[th][1] \in Tasks
      /\ Head(todo[th]) = todo[th][1]
      /\ UNCHANGED <<config, states, lots, busy, broken>>
  BY <1>1, HeadDone DEF AddPair, history
<1>3. states = 1 /\ Initialised
  BY <1>1, <1>2, OthersAreLater
<1> PICK t \in Tasks : t = todo[th][1]
  BY <1>2
<1>4. t.do = "add_pair" /\ t.pair[1] \in Nat /\ t.pair[2] + 1 \in Nat /\ t.of \in Nat
  BY <1>2, TaskTypes
<1>5. /\ pairs' = Append(pairs, t.pair)
      /\ Returns(th, PairFrom(t.pair[1], t.pair[2] + 1, t.of))
  BY <1>2 DEF AddPair
<1>6. NoState'
  BY <1>1, <1>2, <1>3, <1>4, <1>5, PairsAreLater DEF Initialised, NoState
<1>7. ASSUME ~broken
      PROVE  Completes(th)' \/ (Ready' /\ \A o \in Threads : PlainFrom(o, 1)')
  <2>1. Completes(th)
    BY <1>1, <1>2, <1>3, <1>7, CompletesItself DEF InitKinds
  <2>2. AddingPairs(th)
    BY <1>1, <1>2, <2>1, InitHeads DEF Completes
  <2>3. PICK p \in PairsOf(Len(config)) : /\ PlainFrom(th, 2) /\ todo[th][1] = PairTask(p)
                                          /\ PairsTo(p) /\ lots = config
    BY <2>2 DEF AddingPairs
  <2>4. t.pair = p /\ t.of = Len(config)
    BY <2>3 DEF PairTask
  <2>5. PICK n \in Nat : n = Len(config)
    BY <1>1 DEF DataInv
  <2>6. p[1] \in 1..n /\ p[2] + 1 \in 1..(n + 1) /\ p[1] < p[2] + 1
    BY <2>5 DEF PairsOf
  <2>7. PairsTo(<<p[1], p[2] + 1>>)'
    BY <1>2, <1>5, <2>3, <2>4, <2>5, PairsWithNext
  <2>8. Returns(th, PairFrom(p[1], p[2] + 1, n))
    BY <1>5, <2>4, <2>5
  <2>9. \A o \in Threads \ {th} : PlainFrom(o, 1)
    BY <2>1 DEF Completes
  <2>10. config' = config /\ lots' = config'
    BY <1>2, <2>3
  <2> QED
    BY <1>1, <1>2, <2>3, <2>5, <2>6, <2>7, <2>8, <2>9, <2>10, NextPair
<1>8. Initialised'
  BY <1>2, <1>6, <1>7 DEF Initialised, NoState
<1>9. IdleInv'
  <2>1. \A o \in Threads \ {th} : todo'[o] = todo[o]
    BY <1>1, <1>5 DEF Returns, DataInv
  <2> QED
    BY <1>2, <2>1 DEF InitInv, IdleInv
<1> QED
  BY <1>2, <1>3, <1>8, <1>9 DEF InitInv

\* What a request asks for.
RequestKinds == {"lock", "check_name", "add_user", "get", "verify", "unknown"}

\* A registration ends with the new user.
OfRequest(calls) ==
    /\ calls \in Seq(Tasks)
    /\ \A i \in 1..Len(calls) : /\ calls[i].do \in RequestKinds
                                /\ calls[i].do = "add_user" => i = Len(calls)

\* Every request is of that form, ...
LEMMA HandlersAreRequests ==
    ASSUME DataInv, NEW handler \in Handlers
    PROVE  OfRequest(handler)
<1>1. \A k : Task(k).do = k
  BY DEF Task
<1>2. Task("lock") \in Tasks /\ Task("unknown") \in Tasks
  BY DEF Task, Tasks
<1>3. ASSUME NEW name \in Names
      PROVE  OfRequest(PostUser(name))
  <2> DEFINE a == Task("lock")
             b == [do |-> "check_name", name |-> name]
             c == [do |-> "add_user", name |-> name]
  <2>1. a.do = "lock" /\ b.do = "check_name" /\ c.do = "add_user"
    BY <1>1
  <2>2. a \in Tasks /\ b \in Tasks /\ c \in Tasks
    BY <1>2 DEF Tasks, Word
  <2>3. PostUser(name) = <<a, b, c>>
    BY DEF PostUser
  <2> HIDE DEF a, b, c
  <2>4. <<a, b, c>> \in Seq(Tasks) /\ Len(<<a, b, c>>) = 3
    BY <2>2, ShortSequences
  <2>5. <<a, b, c>>[1] = a /\ <<a, b, c>>[2] = b /\ <<a, b, c>>[3] = c
    OBVIOUS
  <2>6. \A i \in 1..3 : i = 1 \/ i = 2 \/ i = 3
    OBVIOUS
  <2> QED
    BY <2>1, <2>3, <2>4, <2>5, <2>6 DEF OfRequest, RequestKinds
<1>4. ASSUME NEW t \in Tasks, t.do \in {"get", "verify"}
      PROVE  OfRequest(<<Task("lock"), t>>)
  <2> DEFINE a == Task("lock")
  <2>1. a \in Tasks /\ a.do = "lock"
    BY <1>1, <1>2
  <2> HIDE DEF a
  <2>2. <<a, t>> \in Seq(Tasks) /\ Len(<<a, t>>) = 2 /\ <<a, t>>[1] = a /\ <<a, t>>[2] = t
    BY <2>1, ShortSequences
  <2>3. \A i \in 1..2 : i = 1 \/ i = 2
    OBVIOUS
  <2>4. OfRequest(<<a, t>>)
    BY <2>1, <2>2, <2>3, <1>4 DEF OfRequest, RequestKinds
  <2> QED
    BY <2>4 DEF a
<1>5. OfRequest(<<Task("unknown")>>)
  <2> DEFINE a == Task("unknown")
  <2>1. a \in Tasks /\ a.do = "unknown"
    BY <1>1, <1>2
  <2> HIDE DEF a
  <2>2. <<a>> \in Seq(Tasks) /\ Len(<<a>>) = 1 /\ <<a>>[1] = a
    BY <2>1, ShortSequences
  <2>3. \A i \in 1..1 : i = 1
    OBVIOUS
  <2>4. OfRequest(<<a>>)
    BY <2>1, <2>2, <2>3 DEF OfRequest, RequestKinds
  <2> QED
    BY <2>4 DEF a
<1>6. ASSUME NEW table \in {"lot", "pair"}
      PROVE  OfRequest(Get(table))
  <2>1. [do |-> "get", table |-> table] \in Tasks
    BY DEF Tasks
  <2> QED
    BY <2>1, <1>4 DEF Get
<1>7. ASSUME NEW key \in 0..Len(users)
      PROVE  OfRequest(GetBalance(key))
  <2>1. key \in Nat
    BY DEF DataInv
  <2>2. [do |-> "verify", user |-> key] \in Tasks
    BY <2>1 DEF Tasks
  <2> QED
    BY <2>2, <1>4 DEF GetBalance
<1> QED
  BY <1>3, <1>5, <1>6, <1>7 DEF Handlers

\* A request begins with the test whether the exchange is initialised.
IsRequest(asks) ==
    /\ asks \in Seq(Tasks) /\ asks # <<>> /\ asks[1].do = "is_init"
    /\ \A i \in 1..Len(asks) : /\ asks[i].do \in RequestKinds \cup {"is_init"}
                               /\ asks[i].do = "add_user" => i = Len(asks)

\* ... and so is what is done for it.
LEMMA RequestTasks ==
    ASSUME DataInv, NEW handler \in Handlers
    PROVE  IsRequest(Processing(handler))
<1> DEFINE first == Task("is_init")
           asks == Processing(handler)
<1>1. first \in Tasks /\ first.do = "is_init"
  BY DEF Task, Tasks
<1>2. asks = <<first>> \o handler
  BY DEF Processing
<1> HIDE DEF first, asks
<1>3. OfRequest(handler)
  BY HandlersAreRequests
<1>4. <<first>> \in Seq(Tasks) /\ Len(<<first>>) = 1 /\ <<first>>[1] = first
  BY <1>1
<1>5. /\ asks \in Seq(Tasks) /\ Len(asks) = 1 + Len(handler) /\ Len(handler) \in Nat
      /\ \A i \in 1..1 : asks[i] = <<first>>[i]
      /\ \A i \in 1..Len(handler) : asks[1 + i] = handler[i]
  BY <1>2, <1>3, <1>4, Joined DEF OfRequest
<1>6. ASSUME NEW i \in 1..Len(asks)
      PROVE  /\ asks[i].do \in RequestKinds \cup {"is_init"}
             /\ asks[i].do = "add_user" => i = Len(asks)
  <2>1. CASE i = 1
    BY <1>1, <1>4, <1>5, <2>1
  <2>2. CASE i # 1
    <3>1. i - 1 \in 1..Len(handler) /\ 1 + (i - 1) = i
      BY <1>5, <2>2
    <3>2. PICK k \in 1..Len(handler) : k = i - 1
      BY <3>1
    <3>3. asks[i] = handler[k]
      BY <1>5, <3>1, <3>2
    <3>4. k = Len(handler) => i = Len(asks)
      BY <1>5, <3>2
    <3>5. handler[k].do \in RequestKinds /\ (handler[k].do = "add_user" => k = Len(handler))
      BY <1>3 DEF OfRequest
    <3> QED
      BY <3>3, <3>4, <3>5
  <2> QED
    BY <2>1, <2>2
<1>7. asks # <<>> /\ asks[1] = first
  BY <1>4, <1>5
<1>8. IsRequest(asks)
  BY <1>1, <1>5, <1>6, <1>7 DEF IsRequest
<1> QED
  BY <1>8 DEF asks

\* A request comes to a thread that has nothing to do.
LEMMA RequestKeepsInit ==
    ASSUME NameInv, InitInv, ~raced, NEW th \in Threads, Read(th)
    PROVE  InitInv'
<1>1. DataInv
  BY DEF NameInv
<1>2. todo[th] = <<>> /\ UNCHANGED <<config, states, lots, pairs, users, broken>>
      /\ busy' = busy \cup {th}
  BY DEF Read, InitInv, IdleInv, db, history
<1>3. PICK handler \in Handlers : todo' = [todo EXCEPT ![th] = Processing(handler)]
  BY DEF Read
<1>4. todo'[th] = Processing(handler) /\ \A o \in Threads \ {th} : todo'[o] = todo[o]
  BY <1>1, <1>3 DEF DataInv
<1>5. /\ todo'[th] \in Seq(Tasks) /\ todo'[th] # <<>> /\ todo'[th][1].do = "is_init"
      /\ \A i \in 1..Len(todo'[th]) : todo'[th][i].do \notin InitKinds
  <2>1. /\ todo'[th] \in Seq(Tasks) /\ todo'[th] # <<>> /\ todo'[th][1].do = "is_init"
        /\ \A i \in 1..Len(todo'[th]) : todo'[th][i].do \in RequestKinds \cup {"is_init"}
    <3>1. IsRequest(todo'[th])
      BY <1>1, <1>4, RequestTasks
    <3> QED
      BY <3>1 DEF IsRequest
  <2> QED
    BY <2>1 DEF RequestKinds, InitKinds
<1>6. PlainFrom(th, 1)'
  BY <1>5 DEF PlainFrom
<1>7. IdleInv'
  BY <1>2, <1>4 DEF InitInv, IdleInv
<1>8. CASE states = 0 /\ Uninitialised
  <2>1. \A o \in Threads \ {th} : /\ Beginning(o) <=> Beginning(o)'
                                  /\ PlainFrom(o, 1) => PlainFrom(o, 1)'
    BY <1>2, <1>4, InitElsewhere
  <2>2. ~Beginning(th)'
    BY <1>5 DEF Beginning, Task
  <2>3. Uninitialised'
    BY <1>2, <1>4, <1>5, <1>6, <1>8, <2>1, <2>2 DEF Uninitialised
  <2> QED
    BY <1>2, <1>7, <1>8, <2>3 DEF InitInv
<1>9. CASE states = 1 /\ Initialised
  <2>1. PlainFrom(th, 1)
    BY <1>2 DEF PlainFrom
  <2>2. Initialised'
    BY <1>1, <1>2, <1>4, <1>5, <1>9, <2>1, InitialisedStep
  <2> QED
    BY <1>2, <1>7, <1>9, <2>2 DEF InitInv
<1> QED
  BY <1>8, <1>9 DEF InitInv

\* The process dies: an init that was under way is cut short.
LEMMA CrashKeepsInit ==
    ASSUME NameInv, InitInv, ~raced, Crash
    PROVE  InitInv'
<1>1. DataInv
  BY DEF NameInv
<1>2. /\ \A th \in Threads : todo'[th] = <<>>
      /\ broken' = (broken \/ \E th \in Threads : Initialising(th))
      /\ UNCHANGED <<config, states, lots, pairs, users>>
  BY DEF Crash, db
<1>3. \A th \in Threads : PlainFrom(th, 1)' /\ ~Beginning(th)'
  <2>1. Len(config') + 2 > 0
    BY <1>1, <1>2 DEF DataInv
  <2> QED
    BY <1>2, <2>1 DEF PlainFrom, Beginning
<1>4. IdleInv'
  BY <1>2 DEF IdleInv
<1>5. CASE states = 0 /\ Uninitialised
  BY <1>2, <1>3, <1>4, <1>5 DEF InitInv, Uninitialised
<1>6. CASE states = 1 /\ Initialised
  <2>1. ASSUME ~broken'
        PROVE  Ready'
    <3>1. ~broken /\ \A th \in Threads : PlainFrom(th, 1)
      <4>1. \A th \in Threads : DOMAIN todo[th] = 1..Len(todo[th])
        BY <1>1 DEF DataInv
      <4> QED
        BY <1>2, <2>1, <4>1 DEF Initialising, PlainFrom
    <3>2. Ready
      BY <1>1, <1>6, <3>1, InitHeads DEF Initialised, Completes
    <3> QED
      BY <1>2, <3>2 DEF Ready
  <2>2. Initialised'
    BY <1>2, <1>3, <2>1 DEF Initialised
  <2> QED
    BY <1>2, <1>4, <1>6, <2>2 DEF InitInv
<1> QED
  BY <1>5, <1>6 DEF InitInv

\* The other tasks are about no init.
LEMMA OthersKeepInit ==
    ASSUME NameInv, NameInv', InitInv, ~raced, NEW th \in Threads,
           \/ Lock(th) \/ CheckName(th) \/ AddUser(th) \/ Grant(th) \/ AddRow(th) \/ GetTable(th)
           \/ Verify(th) \/ Unknown(th)
    PROVE  InitInv'
<1>1. DataInv
  BY DEF NameInv
<1>2. UNCHANGED <<config, states, lots, pairs, busy>>
  BY DEF Lock, CheckName, AddUser, Grant, AddRow, GetTable, Verify, Unknown, db
<1>3. \E kind \in {"lock", "check_name", "add_user", "grant", "add_row", "get", "verify",
                   "unknown"} :
         Doing(th, kind)
  BY DEF Lock, CheckName, AddUser, Grant, AddRow, GetTable, Verify, Unknown
<1>4. /\ todo[th] # <<>> /\ todo[th][1].do \notin InitKinds
      /\ todo[th][1].do \notin {"is_init", "add_state"}
  BY <1>1, <1>3, HeadDone DEF InitKinds
<1>5. states = 1
  BY <1>1, <1>4, OthersAreLater
<1>6. \/ Throws(th) /\ users' = users
      \/ /\ broken' = broken
         /\ \E calls \in Seq(Tasks) : /\ Returns(th, calls)
                                      /\ \A i \in 1..Len(calls) : calls[i].do \notin InitKinds
  <2>1. CASE AddUser(th)
    <3> DEFINE t == [do |-> "grant", user |-> Len(users')]
    <3>1. Returns(th, <<t>>) /\ broken' = broken
      BY <2>1 DEF AddUser, history
    <3>2. Len(users') \in Nat
      BY DEF NameInv, DataInv
    <3>3. t \in Tasks /\ t.do \notin InitKinds
      BY <3>2 DEF Tasks, InitKinds
    <3> HIDE DEF t
    <3>4. <<t>> \in Seq(Tasks) /\ \A i \in 1..Len(<<t>>) : <<t>>[i].do \notin InitKinds
      BY <3>3
    <3> QED
      BY <3>1, <3>4
  <2>2. CASE Grant(th)
    <3> DEFINE u == Head(todo[th]).user
               rows == [l \in DOMAIN lots |-> [do |-> "add_row", user |-> u, lot |-> l]]
    <3>1. todo[th][1].do = "grant" /\ todo[th][1] \in Tasks /\ Head(todo[th]) = todo[th][1]
      BY <1>1, <2>2, HeadDone DEF Grant
    <3>2. u \in Nat
      BY <3>1, TaskTypes
    <3>3. rows \in Seq(Tasks)
      BY <1>1, <3>2, RowsAreTasks
    <3>4. \A i \in 1..Len(rows) : rows[i].do \notin InitKinds
      <4>1. DOMAIN rows = 1..Len(rows)
        BY <3>3
      <4>2. \A i \in DOMAIN rows : rows[i].do = "add_row"
        OBVIOUS
      <4> HIDE DEF rows
      <4> QED
        BY <4>1, <4>2 DEF InitKinds
    <3>5. (Throws(th) /\ users' = users) \/ (Returns(th, rows) /\ broken' = broken)
      BY <2>2 DEF Grant, db
    <3> HIDE DEF rows
    <3> QED
      BY <3>3, <3>4, <3>5
  <2>3. CASE Lock(th) \/ CheckName(th) \/ AddRow(th) \/ GetTable(th) \/ Verify(th) \/ Unknown(th)
    <3>1. (Throws(th) /\ users' = users) \/ (Returns(th, <<>>) /\ broken' = broken)
      BY <2>3 DEF Lock, CheckName, AddRow, GetTable, Verify, Unknown, db, history
    <3>2. <<>> \in Seq(Tasks) /\ \A i \in 1..Len(<<>>) : <<>>[i].do \notin InitKinds
      OBVIOUS
    <3> QED
      BY <3>1, <3>2
  <2> QED
    BY <2>1, <2>2, <2>3
<1> QED
  BY <1>1, <1>2, <1>4, <1>5, <1>6, GoesOn, Drops

\* Nothing happens to what InitInv is about.
LEMMA InitStutters ==
    ASSUME InitInv, UNCHANGED <<config, states, lots, pairs, users, todo, raced, broken>>, IdleInv'
    PROVE  InitInv'
<1>1. \A th \in Threads : /\ PlainFrom(th, 1) => PlainFrom(th, 1)'
                          /\ Beginning(th) <=> Beginning(th)'
                          /\ AddingLots(th) => AddingLots(th)'
                          /\ AddingPairs(th) => AddingPairs(th)'
  BY InitElsewhere
<1>2. Uninitialised => Uninitialised'
  BY <1>1 DEF Uninitialised
<1>3. Initialised => Initialised'
  <2>1. Ready => Ready'
    BY DEF Ready
  <2>2. \A th \in Threads : Completes(th) => Completes(th)'
    BY <1>1 DEF Completes
  <2> QED
    BY <1>1, <2>1, <2>2 DEF Initialised
<1> QED
  BY <1>2, <1>3 DEF InitInv

\* Every step keeps the initialisation going.
LEMMA InitKept == NameInv /\ NameInv' /\ InitInv /\ [Next]_vars => InitInv'
<1> SUFFICES ASSUME NameInv, NameInv', InitInv, [Next]_vars PROVE InitInv'
  OBVIOUS
<1>1. CASE UNCHANGED vars
  BY <1>1, InitStutters DEF vars, db, history, InitInv, IdleInv
<1>2. CASE Crash /\ ~raced
  BY <1>2, CrashKeepsInit
<1>3. ASSUME NEW th \in Threads, ~raced, Read(th)
      PROVE  InitInv'
  BY <1>3, RequestKeepsInit
<1>4. ASSUME NEW th \in Threads, ~raced, LoseDatabase(th)
      PROVE  InitInv'
  BY <1>4, Drops DEF LoseDatabase, db, NameInv
<1>5. ASSUME NEW th \in Threads, Work(th)
      PROVE  InitInv'
  <2>1. ~raced /\ DataInv
    BY <1>5 DEF Work, NameInv
  <2>2. CASE CheckInit(th) /\ IsInit
    <3>1. Returns(th, <<>>) /\ UNCHANGED <<config, states, lots, pairs, busy, broken>>
      BY <2>2 DEF CheckInit, db
    <3>2. todo[th] # <<>> /\ todo[th][1].do \notin InitKinds
      BY <2>1, <2>2, HeadDone DEF CheckInit, InitKinds
    <3>3. <<>> \in Seq(Tasks) /\ \A i \in 1..Len(<<>>) : <<>>[i].do \notin InitKinds
      OBVIOUS
    <3> QED
      BY <2>1, <2>2, <3>1, <3>2, <3>3, GoesOn DEF IsInit
  <2>3. CASE CheckInit(th) /\ ~IsInit
    <3>1. CASE raced'
      <4>1. IdleInv'
        <5>1. todo[th] # <<>> /\ busy' = busy /\ \A o \in Threads \ {th} : todo'[o] = todo[o]
          BY <2>1, <2>3, HeadDone DEF CheckInit, Returns, DataInv
        <5> QED
          BY <5>1 DEF InitInv, IdleInv
      <4> QED
        BY <3>1, <4>1 DEF InitInv
    <3>2. CASE ~raced'
      BY <2>1, <2>3, <3>2, BeginsInit
    <3> QED
      BY <3>1, <3>2
  <2>4. CASE Unlock(th) \/ Answer(th)
    <3>1. UNCHANGED <<config, states, lots, pairs, users, todo, raced, broken>>
      BY <2>4 DEF Unlock, Answer, db, history
    <3>2. IdleInv'
      BY <2>4 DEF Unlock, Answer, InitInv, IdleInv
    <3> QED
      BY <3>1, <3>2, InitStutters
  <2>5. CASE AddState(th) \/ AddLot(th) \/ ReadLots(th) \/ AddPair(th)
    BY <2>1, <2>5, StateIsAdded, LotIsAdded, LotsAreRead, PairIsAdded
  <2>6. CASE \/ Lock(th) \/ CheckName(th) \/ AddUser(th) \/ Grant(th) \/ AddRow(th)
             \/ GetTable(th) \/ Verify(th) \/ Unknown(th)
    BY <2>1, <2>6, OthersKeepInit
  <2> QED
    BY <1>5, <2>2, <2>3, <2>4, <2>5, <2>6 DEF Work
<1> QED
  BY <1>1, <1>2, <1>3, <1>4, <1>5 DEF Next

\* Nothing is there at first.
LEMMA InitBegins == Init => InitInv
<1> SUFFICES ASSUME Init PROVE InitInv
  OBVIOUS
<1>1. /\ states = 0 /\ lots = <<>> /\ pairs = <<>> /\ users = <<>>
      /\ \A th \in Threads : todo[th] = <<>>
  BY DEF Init
<1>2. \A th \in Threads : ~Beginning(th)
  <2>1. DataInv
    BY InitEstablishes DEF NameInv
  <2> QED
    BY <1>1, <2>1, InitHeads
<1> QED
  BY <1>1, <1>2 DEF InitInv, Uninitialised, IdleInv

\* The inductive invariant of the initialisation.
THEOREM InitInvariant == Spec => []InitInv
BY NameInvariant, InitBegins, InitKept, PTL DEF Spec

\* The exchange is initialised once, whoever comes first, and has the lots of
\* the configuration and the pairs of any two of them when that is done, unless
\* an init was cut short or another one began before its first request.
THEOREM OneInit == Spec => []InitialisedOnce
<1>1. NameInv /\ InitInv => InitialisedOnce
  <2> SUFFICES ASSUME NameInv, InitInv, ~raced
               PROVE  /\ states <= 1
                      /\ states = 1 /\ ~broken /\ (\A th \in Threads : ~Initialising(th)) => Ready
    BY DEF InitialisedOnce
  <2>1. states <= 1
    BY DEF InitInv
  <2>2. ASSUME states = 1, ~broken, \A th \in Threads : ~Initialising(th)
        PROVE  Ready
    <3>1. \A th \in Threads : DOMAIN todo[th] = 1..Len(todo[th])
      BY DEF NameInv, DataInv
    <3>2. \A th \in Threads : PlainFrom(th, 1)
      BY <2>2, <3>1 DEF Initialising, PlainFrom
    <3>3. \A th \in Threads : ~AddingLots(th) /\ ~AddingPairs(th)
      BY <3>2, InitHeads DEF NameInv
    <3> QED
      BY <2>2, <3>3 DEF InitInv, Initialised, Completes
  <2> QED
    BY <2>1, <2>2
<1> QED
  BY <1>1, NameInvariant, InitInvariant, PTL

-----------------------------------------------------------------------------
(* The inductive invariant of the registrations.                           *)

\* Nobody initialises the exchange; if it is initialised, nobody will.
NoInit == \A th \in Threads : PlainFrom(th, 1)

Has(u, l) == <<u, l>> \in DOMAIN balances

\* A user's balances are still to be added, ...
Granting(th, u) ==
    /\ Len(todo[th]) = 1 /\ todo[th][1] = [do |-> "grant", user |-> u]
    /\ \A l \in Nat : ~Has(u, l)
\* ... some of them are, as many as there are lots, ...
Adding(th, u) ==
    /\ NoInit
    /\ \E k \in 0..(Len(lots) - 1) :
          /\ Len(todo[th]) = Len(lots) - k
          /\ \A i \in 1..(Len(lots) - k) :
                todo[th][i] = [do |-> "add_row", user |-> u, lot |-> k + i]
          /\ \A l \in 1..k : Has(u, l) /\ balances[<<u, l>>] = 1
          /\ \A l \in Nat : l > k => ~Has(u, l)
\* ... or all of them are there.
Settled(u) ==
    /\ NoInit
    /\ \A th \in Threads : u \notin Registers(th)
    /\ \A l \in 1..Len(lots) : Has(u, l) /\ balances[<<u, l>>] = 1

\* Users are registered one by one, by one thread each.
RegisterInv ==
    /\ \A th \in Threads : Registers(th) \subseteq 1..Len(users)
    /\ \A a, b \in Threads : a # b => Registers(a) \cap Registers(b) = {}
    /\ \A th \in Threads : \A i \in 1..Len(todo[th]) :
          todo[th][i].do = "add_user" => i = Len(todo[th]) /\ Registers(th) = {}
    /\ \A u, l \in Nat : Has(u, l) => u <= Len(users)

\* A user's balances are there, or are to come, or were spoilt.
Served(u) ==
    \/ u \in spoilt \/ Settled(u)
    \/ \E th \in Threads : Granting(th, u) \/ Adding(th, u)
UsersServed == \A u \in 1..Len(users) : Served(u)

BalanceInv == ~raced => RegisterInv /\ UsersServed

-----------------------------------------------------------------------------
(* What the steps do to it.                                                *)

\* The tasks that carry a user.
RegisterKinds == {"grant", "add_row"}

\* Who is registered by a thread.
LEMMA RegistersAre ==
    ASSUME NEW th \in Threads, todo \in [Threads -> Seq(Tasks)], NEW u
    PROVE  u \in Registers(th) <=>
               \E i \in 1..Len(todo[th]) :
                  todo[th][i].do \in RegisterKinds /\ todo[th][i].user = u
<1>1. DOMAIN todo[th] = 1..Len(todo[th])
  OBVIOUS
<1> QED
  BY <1>1 DEF Registers, RegisterKinds

\* A thread that registers a user begins with it.
LEMMA RegisteringHeads ==
    ASSUME DataInv, NEW th \in Threads, NEW u \in Nat
    PROVE  /\ Granting(th, u) => /\ todo[th] # <<>> /\ todo[th][1].do = "grant"
                                 /\ todo[th][1].user = u
           /\ Adding(th, u) => /\ todo[th] # <<>> /\ todo[th][1].do = "add_row"
                               /\ todo[th][1].user = u
           /\ Granting(th, u) \/ Adding(th, u) => u \in Registers(th)
<1>1. ASSUME Granting(th, u)
      PROVE  todo[th] # <<>> /\ todo[th][1].do = "grant" /\ todo[th][1].user = u
  BY <1>1 DEF Granting
<1>2. ASSUME Adding(th, u)
      PROVE  todo[th] # <<>> /\ todo[th][1].do = "add_row" /\ todo[th][1].user = u
  <2>1. PICK k \in 0..(Len(lots) - 1) :
           /\ Len(todo[th]) = Len(lots) - k
           /\ \A i \in 1..(Len(lots) - k) :
                 todo[th][i] = [do |-> "add_row", user |-> u, lot |-> k + i]
    BY <1>2 DEF Adding
  <2>2. Len(lots) \in Nat
    BY DEF DataInv
  <2>3. 1 \in 1..(Len(lots) - k) /\ Len(todo[th]) # 0
    BY <2>1, <2>2
  <2>4. todo[th][1] = [do |-> "add_row", user |-> u, lot |-> k + 1]
    BY <2>1, <2>3
  <2>5. todo[th] # <<>>
    BY <2>3
  <2> QED
    BY <2>4, <2>5
<1>3. todo[th] # <<>> => 1 \in 1..Len(todo[th])
  BY DEF DataInv
<1>4. ASSUME Granting(th, u) \/ Adding(th, u)
      PROVE  u \in Registers(th)
  <2>1. 1 \in 1..Len(todo[th]) /\ todo[th][1].do \in RegisterKinds /\ todo[th][1].user = u
    BY <1>1, <1>2, <1>3, <1>4 DEF RegisterKinds
  <2> QED
    BY <2>1, RegistersAre DEF DataInv
<1> QED
  BY <1>1, <1>2, <1>4

\* A user is not concerned by what a thread that does not register it does.
LEMMA ServedElsewhere ==
    ASSUME DataInv, NEW th \in Threads, \A o \in Threads \ {th} : todo'[o] = todo[o],
           NEW u \in Nat, Served(u), u \notin Registers(th), u \notin Registers(th)',
           NoInit => NoInit' /\ lots' = lots, spoilt \subseteq spoilt',
           \A l \in Nat : /\ Has(u, l)' <=> Has(u, l)
                          /\ Has(u, l) => balances'[<<u, l>>] = balances[<<u, l>>]
    PROVE  Served(u)'
<1>1. CASE u \in spoilt
  BY <1>1 DEF Served
<1>2. CASE Settled(u)
  <2>1. \A o \in Threads \ {th} : u \notin Registers(o)'
    BY <1>2 DEF Settled, Registers
  <2>2. Len(lots) \in Nat
    BY DEF DataInv
  <2>3. Settled(u)'
    BY <1>2, <2>1, <2>2 DEF Settled
  <2> QED
    BY <2>3 DEF Served
<1>3. ASSUME NEW o \in Threads, Granting(o, u) \/ Adding(o, u)
      PROVE  Served(u)'
  <2>1. o # th
    BY <1>3, RegisteringHeads
  <2>2. CASE Granting(o, u)
    BY <2>1, <2>2 DEF Granting, Served
  <2>3. CASE Adding(o, u)
    <3>1. NoInit' /\ lots' = lots
      BY <2>3 DEF Adding
    <3>2. PICK k \in 0..(Len(lots) - 1) :
             /\ Len(todo[o]) = Len(lots) - k
             /\ \A i \in 1..(Len(lots) - k) :
                   todo[o][i] = [do |-> "add_row", user |-> u, lot |-> k + i]
             /\ \A l \in 1..k : Has(u, l) /\ balances[<<u, l>>] = 1
             /\ \A l \in Nat : l > k => ~Has(u, l)
      BY <2>3 DEF Adding
    <3>3. \A l \in 1..k : Has(u, l)' /\ balances'[<<u, l>>] = 1
      BY <3>2
    <3>4. Adding(o, u)'
      BY <2>1, <3>1, <3>2, <3>3 DEF Adding
    <3> QED
      BY <3>4 DEF Served
  <2> QED
    BY <1>3, <2>2, <2>3
<1> QED
  BY <1>1, <1>2, <1>3 DEF Served

\* What a thread has to do is what it had to do, or registers nobody.
Shortens(th) ==
    \A i \in 1..Len(todo'[th]) :
       \/ todo'[th][i].do \notin RegisterKinds \cup {"add_user"}
       \/ \E j \in 1..Len(todo[th]) : /\ todo'[th][i] = todo[th][j]
                                      /\ j = Len(todo[th]) => i = Len(todo'[th])

\* Calls that neither register nor add anybody.
LEMMA CallsShorten ==
    ASSUME DataInv, NEW th \in Threads, todo[th] # <<>>, NEW calls \in Seq(Tasks),
           Returns(th, calls),
           \A i \in 1..Len(calls) : calls[i].do \notin RegisterKinds \cup {"add_user"}
    PROVE  Shortens(th) /\ \A o \in Threads \ {th} : todo'[o] = todo[o]
<1>1. /\ \A o \in Threads \ {th} : todo'[o] = todo[o]
      /\ Follows(todo'[th], todo[th], Len(calls)) /\ Len(calls) \in Nat
      /\ \A k \in 1..Len(calls) : todo'[th][k] = calls[k]
  <2>1. Len(calls) \in Nat
    OBVIOUS
  <2>2. /\ \A o \in Threads \ {th} : todo'[o] = todo[o]
        /\ Follows(todo'[th], todo[th], Len(calls))
        /\ \A k \in 1..Len(calls) : todo'[th][k] = calls[k]
    BY ReturnsIsPop DEF Follows
  <2> QED
    BY <2>1, <2>2
<1>2. ASSUME NEW i \in 1..Len(todo'[th])
      PROVE  \/ todo'[th][i].do \notin RegisterKinds \cup {"add_user"}
             \/ \E j \in 1..Len(todo[th]) : /\ todo'[th][i] = todo[th][j]
                                            /\ j = Len(todo[th]) => i = Len(todo'[th])
  <2>1. Len(todo'[th]) \in Nat
    BY <1>1, LongEnough
  <2>2. i \in 1..Len(calls) \/ i \in (Len(calls) + 1)..Len(todo'[th])
    BY <1>1, <2>1
  <2>3. CASE i \in 1..Len(calls)
    <3>1. todo'[th][i] = calls[i] /\ calls[i].do \notin RegisterKinds \cup {"add_user"}
      BY <1>1, <2>3
    <3> QED
      BY <3>1
  <2>4. CASE i \in (Len(calls) + 1)..Len(todo'[th])
    BY <1>1, <2>4, OneRemains
  <2> QED
    BY <2>2, <2>3, <2>4
<1> QED
  BY <1>1, <1>2 DEF Shortens

\* Then it registers nobody new.
LEMMA RegisterShortens ==
    ASSUME DataInv, DataInv', RegisterInv, NEW th \in Threads, Shortens(th),
           \A o \in Threads \ {th} : todo'[o] = todo[o], users' = users,
           \A u, l \in Nat : Has(u, l)' => Has(u, l) \/ u <= Len(users)
    PROVE  RegisterInv' /\ Registers(th)' \subseteq Registers(th)
<1>1. todo \in [Threads -> Seq(Tasks)] /\ todo' \in [Threads -> Seq(Tasks)]
  BY DEF DataInv
<1>2. ASSUME NEW u, u \in Registers(th)'
      PROVE  u \in Registers(th)
  <2>1. PICK i \in 1..Len(todo'[th]) :
           todo'[th][i].do \in RegisterKinds /\ todo'[th][i].user = u
    <3>1. DOMAIN todo'[th] = 1..Len(todo'[th])
      BY <1>1
    <3> QED
      BY <1>2, <3>1 DEF Registers, RegisterKinds
  <2>2. PICK j \in 1..Len(todo[th]) : todo'[th][i] = todo[th][j]
    BY <2>1 DEF Shortens
  <2> QED
    BY <1>1, <2>1, <2>2, RegistersAre
<1>3. \A o \in Threads \ {th} : Registers(o)' = Registers(o)
  BY DEF Registers
<1>4. \A o \in Threads : Registers(o)' \subseteq Registers(o)
  BY <1>2, <1>3
<1>5. ASSUME NEW o \in Threads, NEW i \in 1..Len(todo'[o]), todo'[o][i].do = "add_user"
      PROVE  i = Len(todo'[o]) /\ Registers(o)' = {}
  <2>1. CASE o = th
    <3>1. PICK j \in 1..Len(todo[th]) : /\ todo'[th][i] = todo[th][j]
                                        /\ j = Len(todo[th]) => i = Len(todo'[th])
      BY <1>5, <2>1 DEF Shortens
    <3>2. j = Len(todo[th]) /\ Registers(th) = {}
      BY <1>5, <2>1, <3>1 DEF RegisterInv
    <3> QED
      BY <1>4, <2>1, <3>1, <3>2
  <2>2. CASE o # th
    <3>1. i = Len(todo[o]) /\ Registers(o) = {}
      BY <1>5, <2>2 DEF RegisterInv
    <3> QED
      BY <1>3, <2>2, <3>1
  <2> QED
    BY <2>1, <2>2
<1>6. \A o \in Threads : Registers(o)' \subseteq 1..Len(users')
  BY <1>4 DEF RegisterInv
<1>7. \A a, b \in Threads : a # b => Registers(a)' \cap Registers(b)' = {}
  BY <1>4 DEF RegisterInv
<1>8. \A u, l \in Nat : Has(u, l)' => u <= Len(users')
  BY DEF RegisterInv
<1> QED
  BY <1>2, <1>5, <1>6, <1>7, <1>8 DEF RegisterInv

\* A thread goes on that is not about to add balances, or its users are spoilt.
LEMMA Unregistered ==
    ASSUME DataInv, DataInv', RegisterInv, UsersServed, NEW th \in Threads, Shortens(th),
           \A o \in Threads \ {th} : todo'[o] = todo[o],
           UNCHANGED <<users, balances>>, spoilt \subseteq spoilt',
           users # <<>> /\ NoInit => NoInit' /\ lots' = lots,
           \/ todo[th] # <<>> => todo[th][1].do \notin RegisterKinds
           \/ Registers(th) \subseteq spoilt'
    PROVE  RegisterInv' /\ UsersServed'
<1>1. \A u, l \in Nat : /\ Has(u, l)' <=> Has(u, l)
                        /\ balances'[<<u, l>>] = balances[<<u, l>>]
  BY DEF Has
<1>2. RegisterInv' /\ Registers(th)' \subseteq Registers(th)
  BY <1>1, RegisterShortens
<1>3. ASSUME NEW u \in 1..Len(users)
      PROVE  Served(u)'
  <2>1. u \in Nat /\ users # <<>> /\ Served(u)
    BY DEF DataInv, UsersServed
  <2>2. CASE u \notin Registers(th)
    BY <1>1, <1>2, <2>1, <2>2, ServedElsewhere
  <2>3. CASE u \in spoilt'
    BY <2>3 DEF Served
  <2>4. CASE u \in Registers(th) /\ u \notin spoilt'
    <3>1. \A o \in Threads : Granting(o, u) \/ Adding(o, u) => o = th
      BY <2>1, <2>4, RegisteringHeads DEF RegisterInv
    <3>2. \A o \in Threads : ~Granting(o, u) /\ ~Adding(o, u)
      BY <2>1, <2>4, <3>1, RegisteringHeads DEF RegisterKinds
    <3>3. ~Settled(u)
      BY <2>4 DEF Settled
    <3> QED
      BY <2>1, <2>4, <3>2, <3>3 DEF Served
  <2> QED
    BY <2>2, <2>3, <2>4
<1> QED
  BY <1>2, <1>3 DEF UsersServed

\* An exception leaves nothing to do; nothing called leaves what there was.
LEMMA DropsShorten ==
    ASSUME DataInv, NEW th \in Threads, todo[th] # <<>>, Throws(th) \/ Returns(th, <<>>)
    PROVE  /\ \A o \in Threads \ {th} : todo'[o] = todo[o]
           /\ Shortens(th) /\ (NoInit => NoInit')
<1>1. CASE Throws(th)
  <2>1. todo'[th] = <<>> /\ \A o \in Threads \ {th} : todo'[o] = todo[o]
    BY <1>1 DEF Throws, DataInv
  <2>2. NoInit => NoInit'
    BY <2>1 DEF NoInit, PlainFrom
  <2> QED
    BY <2>1, <2>2 DEF Shortens
<1>2. CASE Returns(th, <<>>)
  <2>1. /\ \A o \in Threads \ {th} : todo'[o] = todo[o]
        /\ Len(todo[th]) \in Nat \ {0} /\ Len(todo'[th]) = Len(todo[th]) - 1
        /\ \A i \in 1..(Len(todo[th]) - 1) : todo'[th][i] = todo[th][i + 1]
    BY <1>2, Popped
  <2>2. ASSUME NEW i \in 1..Len(todo'[th])
        PROVE  /\ i + 1 \in 1..Len(todo[th]) /\ todo'[th][i] = todo[th][i + 1]
               /\ i + 1 = Len(todo[th]) => i = Len(todo'[th])
    BY <2>1
  <2>3. Shortens(th)
    BY <2>2 DEF Shortens
  <2>4. NoInit => NoInit'
    <3>1. ASSUME NoInit, NEW o \in Threads, NEW i \in 1..Len(todo'[o])
          PROVE  todo'[o][i].do \notin InitKinds
      <4>1. CASE o = th
        BY <2>2, <3>1, <4>1 DEF NoInit, PlainFrom
      <4>2. CASE o # th
        BY <2>1, <3>1, <4>2 DEF NoInit, PlainFrom
      <4> QED
        BY <4>1, <4>2
    <3> QED
      BY <3>1 DEF NoInit, PlainFrom
  <2> QED
    BY <2>1, <2>3, <2>4
<1> QED
  BY <1>1, <1>2

\* The tasks of an init register nobody.
LEMMA InitTasksRegisterNobody ==
    ASSUME DataInv, NEW i \in 1..Len(InitTasks)
    PROVE  InitTasks[i].do \notin RegisterKinds \cup {"add_user"}
<1> PICK n \in Nat : n = Len(config)
  BY DEF DataInv
<1>1. i = 1 \/ i = n + 2 \/ i - 1 \in 1..n
  BY InitTasksAre
<1>2. /\ InitTasks[1] = Task("add_state") /\ InitTasks[n + 2] = Task("read_lots")
      /\ \A k \in 1..n : InitTasks[k + 1] = LotTask(k)
  BY InitTasksAre
<1>3. \A k : LotTask(k).do = "add_lot"
  BY DEF LotTask
<1>4. CASE i - 1 \in 1..n
  <2>1. InitTasks[(i - 1) + 1] = LotTask(i - 1) /\ (i - 1) + 1 = i
    BY <1>2, <1>4
  <2> QED
    BY <1>3, <2>1 DEF RegisterKinds
<1> QED
  BY <1>1, <1>2, <1>4 DEF RegisterKinds, Task

\* The tasks that are about no user's balances.
LEMMA OthersServe ==
    ASSUME NameInv, NameInv', InitInv, ~raced, RegisterInv, UsersServed, NEW th \in Threads,
           \/ Lock(th) \/ CheckInit(th) \/ AddState(th) \/ AddLot(th) \/ ReadLots(th) \/ AddPair(th)
           \/ CheckName(th) \/ GetTable(th) \/ Verify(th) \/ Unknown(th)
    PROVE  RegisterInv' /\ UsersServed'
<1>1. DataInv /\ DataInv'
  BY DEF NameInv
<1>2. UNCHANGED <<users, balances, spoilt>>
  BY DEF Lock, CheckInit, AddState, AddLot, ReadLots, AddPair, CheckName, GetTable, Verify,
         Unknown, db, history
<1>3. \E kind \in {"lock", "is_init", "add_state", "add_lot", "read_lots", "add_pair",
                   "check_name", "get", "verify", "unknown"} : Doing(th, kind)
  BY DEF Lock, CheckInit, AddState, AddLot, ReadLots, AddPair, CheckName, GetTable, Verify,
         Unknown
<1>4. /\ todo[th] # <<>> /\ todo[th][1].do \notin RegisterKinds /\ 1 \in 1..Len(todo[th])
      /\ todo[th] \in Seq(Tasks)
  BY <1>1, <1>3, HeadDone DEF RegisterKinds, DataInv
<1>5. CASE AddState(th) \/ AddLot(th) \/ ReadLots(th) \/ AddPair(th) \/ (CheckInit(th) /\ ~IsInit)
  <2>1. ~(users # <<>> /\ NoInit)
    <3>1. CASE CheckInit(th) /\ ~IsInit
      BY <3>1 DEF InitInv, Uninitialised, IsInit
    <3>2. CASE AddState(th) \/ AddLot(th) \/ ReadLots(th) \/ AddPair(th)
      <4>1. todo[th][1].do \in InitKinds
        BY <1>1, <3>2, HeadDone DEF AddState, AddLot, ReadLots, AddPair, InitKinds
      <4> QED
        BY <1>4, <4>1 DEF NoInit, PlainFrom
    <3> QED
      BY <1>5, <3>1, <3>2
  <2>2. /\ Shortens(th) /\ \A o \in Threads \ {th} : todo'[o] = todo[o]
    <3>1. CASE Throws(th) \/ Returns(th, <<>>)
      BY <1>1, <1>4, <3>1, DropsShorten
    <3>2. ASSUME NEW i \in Nat, NEW j \in Nat, NEW n \in Nat, Returns(th, PairFrom(i, j, n))
          PROVE  Shortens(th) /\ \A o \in Threads \ {th} : todo'[o] = todo[o]
      <4>1. /\ PairFrom(i, j, n) \in Seq(Tasks)
            /\ \A k \in 1..Len(PairFrom(i, j, n)) : PairFrom(i, j, n)[k].do = "add_pair"
        BY PairFromIs
      <4>2. \A k \in 1..Len(PairFrom(i, j, n)) :
               PairFrom(i, j, n)[k].do \notin RegisterKinds \cup {"add_user"}
        BY <4>1 DEF RegisterKinds
      <4> QED
        BY <1>1, <1>4, <3>2, <4>1, <4>2, CallsShorten
    <3>3. CASE CheckInit(th) /\ ~IsInit
      <4>1. Returns(th, InitTasks)
        BY <3>3 DEF CheckInit
      <4>2. InitTasks \in Seq(Tasks)
        BY <1>1, InitTasksAre
      <4>3. \A i \in 1..Len(InitTasks) : InitTasks[i].do \notin RegisterKinds \cup {"add_user"}
        BY <1>1, InitTasksRegisterNobody
      <4> QED
        BY <1>1, <1>4, <4>1, <4>2, <4>3, CallsShorten
    <3>4. CASE ReadLots(th)
      <4>1. 1 \in Nat /\ 2 \in Nat /\ Len(lots) \in Nat
        BY <1>1 DEF DataInv
      <4> QED
        BY <3>1, <3>2, <3>4, <4>1 DEF ReadLots
    <3>5. CASE AddPair(th)
      <4>1. todo[th][1] \in Tasks /\ todo[th][1].do = "add_pair" /\ Head(todo[th]) = todo[th][1]
        BY <1>1, <3>5, HeadDone DEF AddPair
      <4> PICK t \in Tasks : t = todo[th][1]
        BY <4>1
      <4>2. t.pair[1] \in Nat /\ t.pair[2] + 1 \in Nat /\ t.of \in Nat
        BY <4>1, TaskTypes
      <4>3. Returns(th, PairFrom(t.pair[1], t.pair[2] + 1, t.of))
        BY <3>5, <4>1 DEF AddPair
      <4> QED
        BY <3>2, <4>2, <4>3
    <3>6. CASE AddState(th) \/ AddLot(th)
      BY <3>1, <3>6 DEF AddState, AddLot
    <3> QED
      BY <1>5, <3>3, <3>4, <3>5, <3>6
  <2> QED
    BY <1>1, <1>2, <1>4, <2>1, <2>2, Unregistered
<1>6. CASE \/ Lock(th) \/ (CheckInit(th) /\ IsInit) \/ CheckName(th) \/ GetTable(th)
           \/ Verify(th) \/ Unknown(th)
  <2>1. lots' = lots /\ (Throws(th) \/ Returns(th, <<>>))
    BY <1>6 DEF Lock, CheckInit, CheckName, GetTable, Verify, Unknown, db
  <2>2. /\ \A o \in Threads \ {th} : todo'[o] = todo[o]
        /\ Shortens(th) /\ (NoInit => NoInit')
    BY <1>1, <1>4, <2>1, DropsShorten
  <2> QED
    BY <1>1, <1>2, <1>4, <2>1, <2>2, Unregistered
<1> QED
  BY <1>5, <1>6

\* A thread loses its connection; whom it was registering is spoilt.
LEMMA LossServes ==
    ASSUME NameInv, NameInv', InitInv, ~raced, RegisterInv, UsersServed, NEW th \in Threads,
           LoseDatabase(th)
    PROVE  RegisterInv' /\ UsersServed'
<1>1. DataInv /\ DataInv'
  BY DEF NameInv
<1>2. /\ UNCHANGED <<users, balances, lots>> /\ spoilt' = spoilt \cup Registers(th)
      /\ todo[th] # <<>> /\ Throws(th)
  BY DEF LoseDatabase, db
<1>3. /\ \A o \in Threads \ {th} : todo'[o] = todo[o]
      /\ Shortens(th) /\ (NoInit => NoInit')
  BY <1>1, <1>2, DropsShorten
<1> QED
  BY <1>1, <1>2, <1>3, Unregistered

\* A request comes.
LEMMA RequestServes ==
    ASSUME NameInv, NameInv', InitInv, ~raced, RegisterInv, UsersServed, NEW th \in Threads,
           Read(th)
    PROVE  RegisterInv' /\ UsersServed'
<1>1. DataInv /\ DataInv'
  BY DEF NameInv
<1>2. UNCHANGED <<users, balances, lots, spoilt>> /\ todo[th] = <<>>
  BY DEF Read, InitInv, IdleInv, db, history
<1>3. PICK handler \in Handlers : todo' = [todo EXCEPT ![th] = Processing(handler)]
  BY DEF Read
<1>4. todo'[th] = Processing(handler) /\ \A o \in Threads \ {th} : todo'[o] = todo[o]
  BY <1>1, <1>3 DEF DataInv
<1>5. IsRequest(todo'[th])
  BY <1>1, <1>4, RequestTasks
<1>6. \A i \in 1..Len(todo'[th]) : /\ todo'[th][i].do \notin RegisterKinds \cup InitKinds
                                   /\ todo'[th][i].do = "add_user" => i = Len(todo'[th])
  BY <1>5 DEF IsRequest, RequestKinds, RegisterKinds, InitKinds
<1>7. Registers(th) = {} /\ Registers(th)' = {}
  <2>1. DOMAIN todo'[th] = 1..Len(todo'[th]) /\ DOMAIN todo[th] = {}
    BY <1>1, <1>2 DEF DataInv
  <2> QED
    BY <1>6, <2>1 DEF Registers, RegisterKinds
<1>8. \A o \in Threads \ {th} : Registers(o)' = Registers(o)
  BY <1>4 DEF Registers
<1>9. \A u, l \in Nat : /\ Has(u, l)' <=> Has(u, l)
                        /\ balances'[<<u, l>>] = balances[<<u, l>>]
  BY <1>2 DEF Has
<1>10. RegisterInv'
  <2>1. ASSUME NEW o \in Threads, NEW i \in 1..Len(todo'[o]), todo'[o][i].do = "add_user"
        PROVE  i = Len(todo'[o]) /\ Registers(o)' = {}
    <3>1. CASE o = th
      BY <1>6, <1>7, <2>1, <3>1
    <3>2. CASE o # th
      BY <1>4, <1>8, <2>1, <3>2 DEF RegisterInv
    <3> QED
      BY <3>1, <3>2
  <2>2. \A o \in Threads : Registers(o)' \subseteq 1..Len(users')
    BY <1>2, <1>7, <1>8 DEF RegisterInv
  <2>3. \A a, b \in Threads : a # b => Registers(a)' \cap Registers(b)' = {}
    BY <1>7, <1>8 DEF RegisterInv
  <2>4. \A u, l \in Nat : Has(u, l)' => u <= Len(users')
    BY <1>2, <1>9 DEF RegisterInv
  <2> QED
    BY <2>1, <2>2, <2>3, <2>4 DEF RegisterInv
<1>11. NoInit => NoInit'
  <2>1. PlainFrom(th, 1)'
    BY <1>6 DEF PlainFrom
  <2>2. \A o \in Threads \ {th} : PlainFrom(o, 1) => PlainFrom(o, 1)'
    BY <1>4 DEF PlainFrom
  <2> QED
    BY <2>1, <2>2 DEF NoInit
<1>12. ASSUME NEW u \in 1..Len(users)
       PROVE  Served(u)'
  <2>1. u \in Nat /\ Served(u)
    BY DEF UsersServed
  <2> QED
    BY <1>1, <1>2, <1>4, <1>7, <1>9, <1>11, <2>1, ServedElsewhere
<1> QED
  BY <1>2, <1>10, <1>12 DEF UsersServed

\* The process dies; whom it was registering is spoilt.
LEMMA CrashServes ==
    ASSUME NameInv, RegisterInv, UsersServed, Crash
    PROVE  RegisterInv' /\ UsersServed'
<1>1. DataInv
  BY DEF NameInv
<1>2. /\ UNCHANGED <<users, balances, lots>>
      /\ spoilt' = spoilt \cup UNION {Registers(th) : th \in Threads}
      /\ \A th \in Threads : todo'[th] = <<>>
  BY DEF Crash, db
<1>3. \A th \in Threads : Registers(th)' = {}
  BY <1>2 DEF Registers
<1>4. RegisterInv'
  BY <1>2, <1>3 DEF RegisterInv, Has
<1>5. NoInit'
  BY <1>2 DEF NoInit, PlainFrom
<1>6. ASSUME NEW u \in 1..Len(users)
      PROVE  Served(u)'
  <2>1. u \in Nat /\ Served(u)
    BY DEF UsersServed
  <2>2. CASE \E th \in Threads : u \in Registers(th)
    BY <1>2, <2>2 DEF Served
  <2>3. CASE u \in spoilt
    BY <1>2, <2>3 DEF Served
  <2>4. CASE ~(\E th \in Threads : u \in Registers(th)) /\ u \notin spoilt
    <3>1. Settled(u)
      BY <1>1, <2>1, <2>4, RegisteringHeads DEF Served
    <3>2. Settled(u)'
      BY <1>2, <1>3, <1>5, <3>1 DEF Settled, Has
    <3> QED
      BY <3>2 DEF Served
  <2> QED
    BY <2>2, <2>3, <2>4
<1> QED
  BY <1>2, <1>4, <1>6 DEF UsersServed

\* A task that is alone is the only one that may register somebody.
LEMMA AloneRegisters ==
    ASSUME NEW s \in Seq(Tasks), Len(s) = 1, NEW u, s[1] = [do |-> "grant", user |-> u]
    PROVE  {s[i].user : i \in {j \in DOMAIN s : s[j].do \in {"grant", "add_row"}}} = {u}
<1>1. DOMAIN s = {1}
  OBVIOUS
<1>2. s[1].do = "grant" /\ s[1].user = u
  OBVIOUS
<1> QED
  BY <1>1, <1>2

\* A user is added, whose balances are to come.
LEMMA UserIsAdded ==
    ASSUME NameInv, NameInv', InitInv, ~raced, RegisterInv, UsersServed, NEW th \in Threads,
           AddUser(th)
    PROVE  RegisterInv' /\ UsersServed'
<1>1. DataInv /\ DataInv'
  BY DEF NameInv
<1> PICK n \in Nat : n = Len(users)
  BY <1>1 DEF DataInv
<1>2. /\ todo[th] # <<>> /\ todo[th][1].do = "add_user" /\ UNCHANGED <<lots, balances, spoilt>>
      /\ Returns(th, <<[do |-> "grant", user |-> Len(users')]>>) /\ Len(users') = n + 1
  <2>1. Doing(th, "add_user") /\ UNCHANGED <<lots, balances, spoilt>>
    BY DEF AddUser, history
  <2>2. Head(todo[th]) = todo[th][1] /\ todo[th][1] \in Tasks /\ todo[th][1].do = "add_user"
    BY <1>1, <2>1, HeadDone
  <2>3. users' = Append(users, todo[th][1].name) /\ users \in Seq(Word) /\ todo[th][1].name \in Word
    BY <1>1, <2>2, TaskTypes DEF AddUser, DataInv
  <2>4. Len(users') = Len(users) + 1
    BY <2>3
  <2> QED
    BY <1>1, <2>1, <2>2, <2>4, HeadDone DEF AddUser
<1>3. Len(todo[th]) = 1 /\ Registers(th) = {}
  <2>1. 1 \in 1..Len(todo[th])
    BY <1>1, <1>2 DEF DataInv
  <2> QED
    BY <1>2, <2>1 DEF RegisterInv
<1>4. /\ Len(todo'[th]) = 1 /\ todo'[th][1] = [do |-> "grant", user |-> n + 1]
      /\ \A o \in Threads \ {th} : todo'[o] = todo[o]
  <2> DEFINE task == [do |-> "grant", user |-> n + 1]
             calls == <<task>>
  <2>1. task \in Tasks
    BY DEF Tasks
  <2>2. calls \in Seq(Tasks) /\ Len(calls) = 1 /\ calls[1] = task
    BY <2>1
  <2>3. Returns(th, calls)
    BY <1>2
  <2> HIDE DEF task, calls
  <2>4. /\ \A o \in Threads \ {th} : todo'[o] = todo[o]
        /\ Len(todo'[th]) = 1 + 1 - 1
        /\ \A i \in 1..1 : todo'[th][i] = calls[i]
    <3>1. /\ \A o \in Threads \ {th} : todo'[o] = todo[o]
          /\ Len(todo'[th]) = Len(calls) + Len(todo[th]) - 1
          /\ \A i \in 1..Len(calls) : todo'[th][i] = calls[i]
      BY <1>1, <1>2, <2>2, <2>3, ReturnsIsPop
    <3> QED
      BY <1>3, <2>2, <3>1
  <2> QED
    BY <2>2, <2>4 DEF task
<1>5. Registers(th)' = {n + 1} /\ \A o \in Threads \ {th} : Registers(o)' = Registers(o)
  <2>1. Registers(th)' = {n + 1}
    <3>1. todo'[th] \in Seq(Tasks)
      BY <1>1 DEF DataInv
    <3> QED
      BY <1>4, <3>1, AloneRegisters DEF Registers
  <2> QED
    BY <1>4, <2>1 DEF Registers
<1>6. \A u, l \in Nat : /\ Has(u, l)' <=> Has(u, l)
                        /\ balances'[<<u, l>>] = balances[<<u, l>>]
  BY <1>2 DEF Has
<1>7. \A l \in Nat : ~Has(n + 1, l)
  BY DEF RegisterInv
<1>8. RegisterInv'
  <2>1. \A o \in Threads : Registers(o) \subseteq 1..n
    BY DEF RegisterInv
  <2>2. \A o \in Threads : Registers(o)' \subseteq 1..Len(users')
    BY <1>2, <1>5, <2>1
  <2>3. \A a, b \in Threads : a # b => Registers(a)' \cap Registers(b)' = {}
    BY <1>5, <2>1 DEF RegisterInv
  <2>4. ASSUME NEW o \in Threads, NEW i \in 1..Len(todo'[o]), todo'[o][i].do = "add_user"
        PROVE  i = Len(todo'[o]) /\ Registers(o)' = {}
    <3>1. o # th
      BY <1>4, <2>4
    <3> QED
      BY <1>4, <1>5, <2>4, <3>1 DEF RegisterInv
  <2>5. ASSUME NEW u \in Nat, NEW l \in Nat, Has(u, l)'
        PROVE  u <= Len(users')
    <3>1. u <= Len(users)
      BY <1>6, <2>5 DEF RegisterInv
    <3> QED
      BY <1>2, <3>1
  <2> QED
    BY <2>2, <2>3, <2>4, <2>5 DEF RegisterInv
<1>9. NoInit => NoInit'
  <2>1. PlainFrom(th, 1)'
    BY <1>4 DEF PlainFrom, InitKinds
  <2>2. \A o \in Threads \ {th} : PlainFrom(o, 1) => PlainFrom(o, 1)'
    BY <1>4 DEF PlainFrom
  <2> QED
    BY <2>1, <2>2 DEF NoInit
<1>10. ASSUME NEW u \in 1..n
       PROVE  Served(u)'
  <2>1. u \in Nat /\ Served(u) /\ u \notin Registers(th) /\ u \notin Registers(th)'
    BY <1>3, <1>5 DEF UsersServed
  <2> QED
    BY <1>1, <1>2, <1>4, <1>6, <1>9, <2>1, ServedElsewhere
<1>11. Served(n + 1)'
  <2>1. \A l \in Nat : ~Has(n + 1, l)'
    BY <1>2, <1>7 DEF Has
  <2>2. Granting(th, n + 1)'
    BY <1>4, <2>1 DEF Granting
  <2> QED
    BY <2>2 DEF Served
<1> QED
  BY <1>2, <1>8, <1>10, <1>11 DEF UsersServed

\* A user whose thread is at work is served by it alone.
LEMMA ServedByHead ==
    ASSUME DataInv, RegisterInv, NEW th \in Threads, NEW u \in Nat, u \in Registers(th), Served(u),
           u \notin spoilt
    PROVE  (Granting(th, u) \/ Adding(th, u)) /\ todo[th][1].user = u
<1>1. ~Settled(u)
  BY DEF Settled
<1>2. PICK o \in Threads : Granting(o, u) \/ Adding(o, u)
  BY <1>1 DEF Served
<1>3. u \in Registers(o)
  BY <1>2, RegisteringHeads
<1>4. o = th
  BY <1>3 DEF RegisterInv
<1> QED
  BY <1>2, <1>4, RegisteringHeads

\* The tasks that grant the balances are followed by none that adds a user.
LEMMA GrantKeepsRegister ==
    ASSUME DataInv, DataInv', RegisterInv, UNCHANGED <<users, balances>>, NEW th \in Threads,
           NEW u \in Registers(th), \A o \in Threads \ {th} : todo'[o] = todo[o],
           NEW n \in Nat, Follows(todo'[th], todo[th], n),
           \A i \in 1..n : todo'[th][i].do = "add_row" /\ todo'[th][i].user = u
    PROVE  RegisterInv' /\ Registers(th)' \subseteq Registers(th)
<1>1. todo \in [Threads -> Seq(Tasks)] /\ Len(todo'[th]) \in Nat
      /\ DOMAIN todo'[th] = 1..Len(todo'[th])
  BY DEF DataInv
<1>2. ASSUME NEW i \in 1..Len(todo'[th])
      PROVE  \/ todo'[th][i].do = "add_row" /\ todo'[th][i].user = u
             \/ \E j \in 1..Len(todo[th]) : todo'[th][i] = todo[th][j]
  <2>1. i \in 1..n \/ i \in (n + 1)..Len(todo'[th])
    BY <1>1
  <2>2. CASE i \in (n + 1)..Len(todo'[th])
    BY <2>2, OneRemains
  <2> QED
    BY <2>1, <2>2
<1>3. ASSUME NEW v, v \in Registers(th)'
      PROVE  v \in Registers(th)
  <2>1. PICK i \in 1..Len(todo'[th]) :
           todo'[th][i].do \in RegisterKinds /\ todo'[th][i].user = v
    BY <1>1, <1>3 DEF Registers, RegisterKinds
  <2> QED
    BY <1>1, <1>2, <2>1, RegistersAre
<1>4. \A o \in Threads \ {th} : Registers(o)' = Registers(o)
  BY DEF Registers
<1>5. \A o \in Threads : Registers(o)' \subseteq Registers(o)
  BY <1>3, <1>4
<1>6. ASSUME NEW o \in Threads, NEW i \in 1..Len(todo'[o]), todo'[o][i].do = "add_user"
      PROVE  i = Len(todo'[o]) /\ Registers(o)' = {}
  <2>1. o # th
    <3>1. \A j \in 1..Len(todo[th]) : todo[th][j].do # "add_user"
      BY DEF RegisterInv
    <3> QED
      BY <1>2, <1>6, <3>1
  <2> QED
    BY <1>4, <1>6, <2>1 DEF RegisterInv
<1>7. \A o \in Threads : Registers(o)' \subseteq 1..Len(users')
  BY <1>5 DEF RegisterInv
<1>8. \A a, b \in Threads : a # b => Registers(a)' \cap Registers(b)' = {}
  BY <1>5 DEF RegisterInv
<1>9. \A v, l \in Nat : Has(v, l)' => v <= Len(users')
  BY DEF RegisterInv, Has
<1> QED
  BY <1>3, <1>6, <1>7, <1>8, <1>9 DEF RegisterInv

\* The balances of a user are about to be added, in the lots there are now.
LEMMA GrantServes ==
    ASSUME NameInv, NameInv', InitInv, ~raced, RegisterInv, UsersServed, NEW th \in Threads,
           Grant(th)
    PROVE  RegisterInv' /\ UsersServed'
<1>1. DataInv /\ DataInv'
  BY DEF NameInv
<1> PICK user \in Nat : user = todo[th][1].user
  BY <1>1, HeadDone, TaskTypes DEF Grant
<1> PICK n \in Nat : n = Len(lots)
  BY <1>1 DEF DataInv
<1>2. /\ todo[th] # <<>> /\ todo[th][1].do = "grant" /\ Head(todo[th]) = todo[th][1]
      /\ UNCHANGED <<lots, users, balances>> /\ spoilt \subseteq spoilt'
      /\ (\E o \in Threads : Initialising(o)) => user \in spoilt'
  BY <1>1, HeadDone DEF Grant, db
<1>3. user \in Registers(th) /\ user \in 1..Len(users)
  <2>1. 1 \in 1..Len(todo[th]) /\ todo[th][1].do \in RegisterKinds
    BY <1>1, <1>2 DEF DataInv, RegisterKinds
  <2>2. user \in Registers(th)
    BY <1>1, <2>1, RegistersAre DEF DataInv
  <2> QED
    BY <2>2 DEF RegisterInv
<1>4. user \notin spoilt' => NoInit
  <2>1. \A o \in Threads : DOMAIN todo[o] = 1..Len(todo[o])
    BY <1>1 DEF DataInv
  <2> QED
    BY <1>2, <2>1 DEF Initialising, NoInit, PlainFrom
<1>5. \A u, l \in Nat : /\ Has(u, l)' <=> Has(u, l)
                        /\ balances'[<<u, l>>] = balances[<<u, l>>]
  BY <1>2 DEF Has
<1>6. ASSUME RegisterInv', Registers(th)' \subseteq Registers(th),
             \A o \in Threads \ {th} : todo'[o] = todo[o], NoInit => NoInit',
             user \notin spoilt' => Served(user)'
      PROVE  RegisterInv' /\ UsersServed'
  <2>1. ASSUME NEW u \in 1..Len(users)
        PROVE  Served(u)'
    <3>1. u \in Nat /\ Served(u)
      BY DEF UsersServed
    <3>2. CASE u \in spoilt'
      BY <3>2 DEF Served
    <3>3. CASE u \notin spoilt' /\ u \in Registers(th)
      <4>1. u = user
        BY <1>1, <1>2, <3>1, <3>3, ServedByHead
      <4> QED
        BY <1>6, <3>3, <4>1
    <3>4. CASE u \notin Registers(th)
      BY <1>1, <1>2, <1>5, <1>6, <3>1, <3>4, ServedElsewhere
    <3> QED
      BY <3>2, <3>3, <3>4
  <2> QED
    BY <1>2, <1>6, <2>1 DEF UsersServed
<1>7. CASE lots = <<>>
  <2>1. Throws(th) /\ n = 0
    BY <1>7 DEF Grant
  <2>2. /\ \A o \in Threads \ {th} : todo'[o] = todo[o]
        /\ Shortens(th) /\ (NoInit => NoInit') /\ todo'[th] = <<>>
    <3>1. todo'[th] = <<>>
      BY <1>1, <2>1 DEF Throws, DataInv
    <3> QED
      BY <1>1, <1>2, <2>1, <3>1, DropsShorten
  <2>3. RegisterInv' /\ Registers(th)' \subseteq Registers(th)
    BY <1>1, <1>2, <1>5, <2>2, RegisterShortens
  <2>4. user \notin spoilt' => Served(user)'
    <3>1. \A o \in Threads : user \notin Registers(o)'
      <4>1. Registers(th)' = {}
        BY <2>2 DEF Registers
      <4>2. \A o \in Threads \ {th} : Registers(o)' = Registers(o)
        BY <2>2 DEF Registers
      <4> QED
        BY <1>3, <4>1, <4>2 DEF RegisterInv
    <3>2. Len(lots') = 0
      BY <1>2, <1>7
    <3> QED
      BY <1>4, <2>2, <3>1, <3>2 DEF Served, Settled
  <2> QED
    BY <1>6, <2>2, <2>3, <2>4
<1>8. CASE lots # <<>>
  <2> DEFINE rows == [l \in DOMAIN lots |-> [do |-> "add_row", user |-> user, lot |-> l]]
  <2>1. Returns(th, rows)
    BY <1>2, <1>8 DEF Grant
  <2>2. rows \in Seq(Tasks)
    BY <1>1, RowsAreTasks
  <2>3. /\ Len(rows) = n
        /\ \A i \in 1..n : /\ rows[i].do = "add_row" /\ rows[i].user = user
                           /\ rows[i] = [do |-> "add_row", user |-> user, lot |-> i]
    <3>1. DOMAIN lots = 1..n
      BY <1>1 DEF DataInv
    <3> QED
      BY <2>2, <3>1
  <2> HIDE DEF rows
  <2>4. /\ \A o \in Threads \ {th} : todo'[o] = todo[o]
        /\ Follows(todo'[th], todo[th], n) /\ Len(todo'[th]) = n + Len(todo[th]) - 1
        /\ \A i \in 1..n : todo'[th][i] = rows[i]
    <3>1. /\ \A o \in Threads \ {th} : todo'[o] = todo[o]
          /\ Len(todo[th]) \in Nat \ {0}
          /\ Len(todo'[th]) = Len(rows) + Len(todo[th]) - 1
          /\ \A i \in 1..Len(rows) : todo'[th][i] = rows[i]
          /\ \A i \in 2..Len(todo[th]) : todo'[th][Len(rows) + i - 1] = todo[th][i]
      BY <1>1, <1>2, <2>1, <2>2, ReturnsIsPop
    <3> QED
      BY <2>3, <3>1 DEF Follows
  <2>5. RegisterInv' /\ Registers(th)' \subseteq Registers(th)
    <3>1. \A i \in 1..n : todo'[th][i].do = "add_row" /\ todo'[th][i].user = user
      BY <2>3, <2>4
    <3>2. UNCHANGED <<users, balances>>
      BY <1>2
    <3> QED
      BY <1>1, <1>3, <2>4, <3>1, <3>2, GrantKeepsRegister
  <2>6. NoInit => NoInit'
    <3>1. ASSUME NoInit, NEW o \in Threads, NEW i \in 1..Len(todo'[o])
          PROVE  todo'[o][i].do \notin InitKinds
      <4>1. CASE o # th
        BY <2>4, <3>1, <4>1 DEF NoInit, PlainFrom
      <4>2. CASE o = th /\ i \in 1..n
        BY <2>3, <2>4, <4>2 DEF InitKinds
      <4>3. CASE o = th /\ i \notin 1..n
        <5>1. Len(todo'[th]) \in Nat
          BY <1>1 DEF DataInv
        <5>2. i \in (n + 1)..Len(todo'[th])
          BY <4>3, <5>1
        <5>3. PICK j \in 1..Len(todo[th]) : todo'[th][i] = todo[th][j]
          <6>1. Follows(todo'[th], todo[th], n)
            BY <2>4
          <6> QED
            BY <5>2, <6>1, OneRemains, SMTT(30)
        <5> QED
          BY <3>1, <4>3, <5>3 DEF NoInit, PlainFrom
      <4> QED
        BY <4>1, <4>2, <4>3
    <3> QED
      BY <3>1 DEF NoInit, PlainFrom
  <2>7. ASSUME user \notin spoilt'
        PROVE  Served(user)'
    <3>1. Granting(th, user)
      <4>1. user \notin spoilt /\ Served(user)
        BY <1>2, <1>3, <2>7 DEF UsersServed
      <4>2. ~Adding(th, user)
        BY <1>1, <1>2, RegisteringHeads
      <4> QED
        BY <1>1, <1>3, <4>1, <4>2, ServedByHead
    <3>2. Len(todo'[th]) = n /\ \A l \in Nat : ~Has(user, l)'
      <4>1. Len(todo[th]) = 1 /\ \A l \in Nat : ~Has(user, l)
        BY <3>1 DEF Granting
      <4>2. ASSUME NEW l \in Nat
            PROVE  ~Has(user, l)'
        BY <1>2, <4>1 DEF Has
      <4>3. Len(todo'[th]) = n
        BY <2>4, <4>1
      <4> QED
        BY <4>2, <4>3
    <3>3. 0 \in 0..(n - 1)
      BY <1>1, <1>8 DEF DataInv
    <3>4. Adding(th, user)'
      <4>1. \A i \in 1..(n - 0) :
               todo'[th][i] = [do |-> "add_row", user |-> user, lot |-> 0 + i]
        BY <2>3, <2>4
      <4>2. Len(lots') = n /\ Len(todo'[th]) = n - 0
        BY <1>2, <3>2
      <4>3. NoInit'
        BY <1>4, <2>6, <2>7
      <4>4. \A l \in 1..0 : Has(user, l)' /\ balances'[<<user, l>>] = 1
        OBVIOUS
      <4>5. \A l \in Nat : l > 0 => ~Has(user, l)'
        BY <3>2
      <4> QED
        BY <3>3, <4>1, <4>2, <4>3, <4>4, <4>5 DEF Adding
    <3> QED
      BY <3>4 DEF Served
  <2> QED
    BY <1>6, <2>4, <2>5, <2>6, <2>7
<1> QED
  BY <1>7, <1>8

\* One of the balances of a user is added.
LEMMA RowServes ==
    ASSUME NameInv, NameInv', InitInv, ~raced, RegisterInv, UsersServed, NEW th \in Threads,
           AddRow(th)
    PROVE  RegisterInv' /\ UsersServed'
<1>1. DataInv /\ DataInv'
  BY DEF NameInv
<1>2. /\ todo[th] # <<>> /\ todo[th][1] \in Tasks /\ todo[th][1].do = "add_row"
      /\ Head(todo[th]) = todo[th][1] /\ UNCHANGED <<lots, users, spoilt>>
      /\ Returns(th, <<>>)
  BY <1>1, HeadDone DEF AddRow, history
<1>3. todo[th][1].user \in Nat /\ todo[th][1].lot \in Nat
  BY <1>2 DEF Tasks
<1> PICK user \in Nat : user = todo[th][1].user
  BY <1>3
<1> PICK lot \in Nat : lot = todo[th][1].lot
  BY <1>3
<1> PICK n \in Nat : n = Len(lots)
  BY <1>1 DEF DataInv
<1>4. balances' = BagAdd(balances, <<user, lot>>)
  BY <1>2 DEF AddRow
<1>5. /\ \A u, l \in Nat : Has(u, l)' <=> Has(u, l) \/ (u = user /\ l = lot)
      /\ \A u, l \in Nat : Has(u, l) /\ (u # user \/ l # lot) =>
            balances'[<<u, l>>] = balances[<<u, l>>]
      /\ ~Has(user, lot) => balances'[<<user, lot>>] = 1
  BY <1>4 DEF BagAdd, Has
<1>6. user \in Registers(th) /\ user \in 1..Len(users)
  <2>1. 1 \in 1..Len(todo[th]) /\ todo[th][1].do \in RegisterKinds
    BY <1>1, <1>2 DEF DataInv, RegisterKinds
  <2>2. user \in Registers(th)
    BY <1>1, <2>1, RegistersAre DEF DataInv
  <2> QED
    BY <2>2 DEF RegisterInv
<1>7. /\ \A o \in Threads \ {th} : todo'[o] = todo[o]
      /\ Shortens(th) /\ (NoInit => NoInit')
  BY <1>1, <1>2, DropsShorten
<1>8. RegisterInv' /\ Registers(th)' \subseteq Registers(th)
  <2>1. \A u, l \in Nat : Has(u, l)' => Has(u, l) \/ u <= Len(users)
    BY <1>5, <1>6
  <2> QED
    BY <1>1, <1>2, <1>7, <2>1, RegisterShortens
<1>9. ASSUME user \notin spoilt
      PROVE  Served(user)'
  <2>1. Adding(th, user)
    <3>1. Served(user)
      BY <1>6 DEF UsersServed
    <3>2. ~Granting(th, user)
      BY <1>1, <1>2, RegisteringHeads
    <3> QED
      BY <1>1, <1>6, <1>9, <3>1, <3>2, ServedByHead
  <2>2. PICK k \in 0..(n - 1) :
           /\ Len(todo[th]) = n - k
           /\ \A i \in 1..(n - k) : todo[th][i] = [do |-> "add_row", user |-> user, lot |-> k + i]
           /\ \A l \in 1..k : Has(user, l) /\ balances[<<user, l>>] = 1
           /\ \A l \in Nat : l > k => ~Has(user, l)
    BY <2>1 DEF Adding
  <2>3. k \in Nat /\ k + 1 \in Nat /\ lot = k + 1 /\ ~Has(user, lot)
    <3>1. 1 \in 1..(n - k)
      BY <2>2
    <3>2. todo[th][1] = [do |-> "add_row", user |-> user, lot |-> k + 1]
      BY <2>2, <3>1
    <3>3. lot = k + 1 /\ k + 1 \in Nat /\ k + 1 > k
      BY <2>2, <3>2
    <3> QED
      BY <2>2, <3>3
  <2>4. NoInit'
    BY <1>7, <2>1 DEF Adding
  <2>5. ASSUME NEW l \in 1..(k + 1)
        PROVE  Has(user, l)' /\ balances'[<<user, l>>] = 1
    <3>1. l \in Nat /\ (l = lot \/ (l \in 1..k /\ l # lot))
      BY <2>3
    <3> QED
      BY <1>5, <2>2, <2>3, <3>1
  <2>6. ASSUME NEW l \in Nat, l > k + 1
        PROVE  ~Has(user, l)'
    <3>1. l > k /\ l # lot
      BY <2>3, <2>6
    <3> QED
      BY <1>5, <2>2, <3>1
  <2>7. /\ Len(todo'[th]) = n - (k + 1)
        /\ \A i \in 1..(n - (k + 1)) :
              todo'[th][i] = [do |-> "add_row", user |-> user, lot |-> (k + 1) + i]
    <3>1. /\ Len(todo'[th]) = Len(todo[th]) - 1
          /\ \A i \in 1..(Len(todo[th]) - 1) : todo'[th][i] = todo[th][i + 1]
      BY <1>1, <1>2, Popped
    <3>2. Len(todo'[th]) = n - (k + 1)
      BY <2>2, <2>3, <3>1
    <3>3. ASSUME NEW i \in 1..(n - (k + 1))
          PROVE  todo'[th][i] = [do |-> "add_row", user |-> user, lot |-> (k + 1) + i]
      <4>1. i + 1 \in 1..(n - k) /\ i \in 1..(Len(todo[th]) - 1) /\ k + (i + 1) = (k + 1) + i
        BY <2>2, <2>3
      <4>2. todo'[th][i] = todo[th][i + 1]
        BY <3>1, <4>1
      <4>3. todo[th][i + 1] = [do |-> "add_row", user |-> user, lot |-> k + (i + 1)]
        BY <2>2, <4>1
      <4> QED
        BY <4>1, <4>2, <4>3
    <3> QED
      BY <3>2, <3>3
  <2>8. Len(lots') = n
    BY <1>2
  <2>9. CASE k + 1 <= n - 1
    <3>1. k + 1 \in 0..(n - 1)
      BY <2>3, <2>9
    <3>2. Adding(th, user)'
      BY <2>4, <2>5, <2>6, <2>7, <2>8, <3>1 DEF Adding
    <3> QED
      BY <3>2 DEF Served
  <2>10. CASE k + 1 = n
    <3>1. \A o \in Threads : user \notin Registers(o)'
      <4>1. Registers(th)' = {}
        <5>1. Len(todo'[th]) = 0 /\ todo'[th] \in Seq(Tasks)
          BY <1>1, <2>7, <2>10 DEF DataInv
        <5>2. DOMAIN todo'[th] = {}
          BY <5>1
        <5> QED
          BY <5>2 DEF Registers
      <4>2. \A o \in Threads \ {th} : Registers(o)' = Registers(o)
        BY <1>7 DEF Registers
      <4> QED
        BY <1>6, <4>1, <4>2 DEF RegisterInv
    <3>2. Settled(user)'
      BY <2>4, <2>5, <2>8, <2>10, <3>1 DEF Settled
    <3> QED
      BY <3>2 DEF Served
  <2> QED
    BY <2>2, <2>9, <2>10
<1>10. ASSUME NEW u \in 1..Len(users)
       PROVE  Served(u)'
  <2>1. u \in Nat /\ Served(u)
    BY DEF UsersServed
  <2>2. CASE u \in spoilt
    BY <1>2, <2>2 DEF Served
  <2>3. CASE u \notin spoilt /\ u \in Registers(th)
    <3>1. u = user
      BY <1>1, <2>1, <2>3, ServedByHead
    <3> QED
      BY <1>9, <2>3, <3>1
  <2>4. CASE u \notin Registers(th)
    <3>1. u # user
      BY <1>6, <2>4
    <3>2. \A l \in Nat : /\ Has(u, l)' <=> Has(u, l)
                         /\ Has(u, l) => balances'[<<u, l>>] = balances[<<u, l>>]
      BY <1>5, <2>1, <3>1
    <3>3. u \notin Registers(th)' /\ lots' = lots /\ spoilt \subseteq spoilt'
      BY <1>2, <1>8, <2>4
    <3> QED
      BY <1>1, <1>7, <2>1, <2>4, <3>2, <3>3, ServedElsewhere
  <2> QED
    BY <2>2, <2>3, <2>4
<1> QED
  BY <1>2, <1>8, <1>10 DEF UsersServed

\* Nothing happens to what BalanceInv is about.
LEMMA BalanceStutters ==
    ASSUME RegisterInv, UsersServed, UNCHANGED <<lots, users, balances, todo, spoilt>>
    PROVE  RegisterInv' /\ UsersServed'
<1>1. \A th \in Threads : Registers(th)' = Registers(th)
  BY DEF Registers
<1>2. \A u, l \in Nat : Has(u, l)' <=> Has(u, l)
  BY DEF Has
<1>3. RegisterInv'
  BY <1>1, <1>2 DEF RegisterInv
<1>4. NoInit <=> NoInit'
  BY DEF NoInit, PlainFrom
<1>5. ASSUME NEW u \in 1..Len(users)
      PROVE  Served(u)'
  <2>1. Settled(u) => Settled(u)'
    BY <1>1, <1>4 DEF Settled, Has
  <2>2. \A th \in Threads : Granting(th, u) => Granting(th, u)'
    BY DEF Granting, Has
  <2>3. \A th \in Threads : Adding(th, u) => Adding(th, u)'
    BY <1>4 DEF Adding, Has
  <2> QED
    BY <2>1, <2>2, <2>3 DEF UsersServed, Served
<1> QED
  BY <1>3, <1>5 DEF UsersServed

\* Every step leaves the users served.
LEMMA BalanceKept == NameInv /\ NameInv' /\ InitInv /\ BalanceInv /\ [Next]_vars => BalanceInv'
<1> SUFFICES ASSUME NameInv, NameInv', InitInv, BalanceInv, [Next]_vars, ~raced'
             PROVE  RegisterInv' /\ UsersServed'
  BY DEF BalanceInv
<1>1. ~raced /\ RegisterInv /\ UsersServed
  <2>1. ~raced
    <3>1. CASE UNCHANGED vars
      BY <3>1 DEF vars, history
    <3>2. CASE Next
      BY <3>2 DEF Next, Work
    <3> QED
      BY <3>1, <3>2
  <2> QED
    BY <2>1 DEF BalanceInv
<1>2. CASE UNCHANGED vars
  BY <1>1, <1>2, BalanceStutters DEF vars, db, history
<1>3. CASE Crash
  BY <1>1, <1>3, CrashServes
<1>4. ASSUME NEW th \in Threads, Read(th) \/ LoseDatabase(th)
      PROVE  RegisterInv' /\ UsersServed'
  BY <1>1, <1>4, RequestServes, LossServes
<1>5. ASSUME NEW th \in Threads, Work(th)
      PROVE  RegisterInv' /\ UsersServed'
  <2>1. CASE Unlock(th) \/ Answer(th)
    <3>1. UNCHANGED <<lots, users, balances, todo, spoilt>>
      BY <2>1 DEF Unlock, Answer, db, history
    <3> QED
      BY <1>1, <3>1, BalanceStutters
  <2>2. CASE AddUser(th) \/ Grant(th) \/ AddRow(th)
    BY <1>1, <2>2, UserIsAdded, GrantServes, RowServes
  <2>3. CASE \/ Lock(th) \/ CheckInit(th) \/ AddState(th) \/ AddLot(th) \/ ReadLots(th)
             \/ AddPair(th) \/ CheckName(th) \/ GetTable(th) \/ Verify(th) \/ Unknown(th)
    BY <1>1, <2>3, OthersServe
  <2> QED
    BY <1>5, <2>1, <2>2, <2>3 DEF Work
<1> QED
  BY <1>2, <1>3, <1>4, <1>5 DEF Next

\* There are no users at first.
LEMMA BalanceBegins == Init => BalanceInv
<1> SUFFICES ASSUME Init PROVE RegisterInv /\ UsersServed
  BY DEF BalanceInv
<1>1. /\ users = <<>> /\ \A th \in Threads : todo[th] = <<>>
      /\ balances = EmptyBag
  BY DEF Init
<1>2. \A th \in Threads : Registers(th) = {}
  BY <1>1 DEF Registers
<1>3. \A u, l \in Nat : ~Has(u, l)
  BY <1>1 DEF Has, EmptyBag, SetToBag
<1> QED
  BY <1>1, <1>2, <1>3 DEF RegisterInv, UsersServed

\* The inductive invariant of the registrations.
THEOREM BalanceInvariant == Spec => []BalanceInv
BY NameInvariant, InitInvariant, BalanceBegins, BalanceKept, PTL DEF Spec

\* A user nobody is registering has one balance in every lot, unless the
\* registration ran beside an init or was cut short by a fault.
THEOREM EveryLotHasBalance == Spec => []BalanceForEveryLot
<1>1. NameInv /\ BalanceInv => BalanceForEveryLot
  <2> SUFFICES ASSUME NameInv, BalanceInv, ~raced, NEW u \in 1..Len(users), u \notin spoilt,
                      \A th \in Threads : u \notin Registers(th), NEW l \in 1..Len(lots)
               PROVE  BagIn(<<u, l>>, balances) /\ balances[<<u, l>>] = 1
    BY DEF BalanceForEveryLot
  <2>1. Served(u) /\ u \in Nat
    BY DEF BalanceInv, UsersServed
  <2>2. Settled(u)
    BY <2>1, RegisteringHeads DEF Served, NameInv
  <2> QED
    BY <2>2 DEF Settled, Has, BagIn, BagToSet
<1> QED
  BY <1>1, NameInvariant, BalanceInvariant, PTL
=============================================================================
