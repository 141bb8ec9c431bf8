------------------------------- MODULE Crypto -------------------------------
(***************************************************************************)
(* The exchange: class Crypto (crypto_exchange/crypto.cpp) and the checks  *)
(* of checking_errors.cpp, run by one thread per HTTP connection under a   *)
(* shared WRSemaphore, over the tables user, user_lot and order of the     *)
(* database.                                                               *)
(*                                                                         *)
(* Every request is a sequence of database requests, each of which is      *)
(* atomic because the database locks the table (TableLock); a step of the  *)
(* model is one of them.  What a thread still has to do is a list of       *)
(* tasks, which the calls of the code expand into.  An exception drops the *)
(* rest of the list: nothing is undone.  Quantities and prices are doubles *)
(* in the code and small integers here.  Tables that never change after    *)
(* the start (lot, pair, state) are constants; requests that only read     *)
(* (get_balance and the GET requests) change no table and are left out.    *)
(***************************************************************************)
EXTENDS Integers, Sequences, FiniteSets, SequencesExt, FiniteSetsExt

CONSTANTS Threads,     \* the connections of the server
          Names,       \* user names a client may register
          DefaultQuantity, \* state.default_quantity
          Offers,      \* what clients put in orders: any numbers, types and pairs
          Requests,    \* the kinds of requests that arrive: "user", "order", "cancel"
          MaxUsers, MaxOrders  \* bounds: users, order rows

ASSUME KindsKnown == Requests \subseteq {"user", "order", "cancel"}
\* One pair of two lots: the first is sold and bought, the second is the money.
\* An order may name a pair that there is not, and has no lots then.
First  == 1
Second == 2
Lots   == {First, Second}
NoLot  == 0

\* What an order says it is: only "sell" and "buy" are searched for, and what
\* is not "sell" is treated like "buy".
Types == {"sell", "buy", "other"}

ASSUME AmountsAreNumbers ==
    /\ DefaultQuantity \in Nat /\ MaxUsers \in Nat /\ MaxOrders \in Nat
    /\ Offers \subseteq [pair : BOOLEAN, quantity : Int, price : Int, type : Types]

VARIABLES users,      \* table user: the names, indexed by user_pk
          userLots,   \* table user_lot
          lotPk,      \* its last key
          orders,     \* table order
          orderPk,    \* its last key
          todo,       \* what each thread still has to do
          my,         \* post_order's local copy of the client's order
          failed,     \* the threads whose request has thrown
          undone,     \* history: the closed orders that were cancelled
          odd,        \* history: an order was posted with a negative number, or
                      \* by a client that could not pay for it
          refused,    \* history: a change of a balance has thrown
          writing, readerCnt, phase, want, overlapped \* the semaphore

db    == <<users, userLots, lotPk, orders, orderPk>>
local == <<todo, my, failed>>
history == <<undone, odd, refused>>
sem   == <<writing, readerCnt, phase, want, overlapped>>
vars  == <<db, local, history, sem>>

Sema == INSTANCE WRSemaphore WITH Clients <- Threads

NoOrder == [id |-> 0]

\* An order of the table; before an odd one was posted all of them are plain.
Plain(o) == o.pair /\ o.quantity >= 0 /\ o.price >= 0
Order ==
    {o \in [id : Nat, user : 1..Len(users), pair : BOOLEAN, quantity : Int, price : Int,
            type : Types, closed : BOOLEAN] : odd \/ Plain(o)}

TypeOK ==
    /\ users \in Seq(Names)
    /\ \A r \in userLots : r \in [pk : 1..lotPk, user : 1..Len(users), lot : Lots, quantity : Nat]
    /\ \A o \in orders : o \in Order /\ o.id <= orderPk
    /\ failed \subseteq Threads /\ odd \in BOOLEAN /\ refused \in BOOLEAN
    /\ \A r, s \in userLots : r.pk = s.pk => r = s
    /\ \A o, p \in orders : o.id = p.id => o = p

-----------------------------------------------------------------------------
(* What the functions of Crypto expand into.                               *)

\* What an order holds back, in which lot, and what its closing brings.
LockLot(o) == IF ~o.pair THEN NoLot ELSE IF o.type = "sell" THEN First ELSE Second
Locked(o)  == IF o.type = "sell" THEN o.quantity ELSE o.price * o.quantity
GainLot(o) == IF ~o.pair THEN NoLot ELSE IF o.type = "sell" THEN Second ELSE First
Gain(o)    == IF o.type = "sell" THEN o.price * o.quantity ELSE o.quantity

\* change_balance.
Change(u, l, s) == [do |-> "change", user |-> u, lot |-> l, sum |-> s]

\* create_order: the row first; the withdrawal second, which throws when
\* there is no such pair (get_one<Pair>) or not the money.
CreateOrder(o) ==
    <<[do |-> "add_order", order |-> o], Change(o.user, LockLot(o), -Locked(o))>>

\* closed_order.
ClosedOrder(o) == <<Change(o.user, GainLot(o), Gain(o))>> \o CreateOrder(o)

\* Mutation: the money of a deleted order is not given back.
MutDeleteUnpaid(o) == <<[do |-> "del_order", id |-> o.id]>>

\* delete_order (Order const&): the refund first, the row second.
DeleteOrder(o) ==
    <<Change(o.user, LockLot(o), Locked(o)), [do |-> "del_order", id |-> o.id]>>

\* Mutation: equal prices do not trade.
MutStrictProfit(m, o) == IF m.type = "sell" THEN m.price < o.price ELSE m.price > o.price

IsProfit(m, o) == IF m.type = "sell" THEN m.price <= o.price ELSE m.price >= o.price

Smaller(a, b) == IF a < b THEN a ELSE b

Part(o, q) == [o EXCEPT !.quantity = q]

\* order_separate and closed_order: the parts of the quantity both have, the
\* part of the other order at the price given.
Closing(m, o, price) ==
    LET q == Smaller(m.quantity, o.quantity) IN
    ClosedOrder([Part(o, q) EXCEPT !.closed = TRUE, !.price = price])
        \o ClosedOrder([Part(m, q) EXCEPT !.closed = TRUE])
\* What the other order has left goes back into the book.
Rest(m, o) ==
    IF o.quantity > m.quantity THEN CreateOrder(Part(o, o.quantity - m.quantity)) ELSE <<>>

\* Mutations of deal: the other part is closed at its own price; the old order
\* is given back at the end.
MutDealOwnPrice(m, o)   == DeleteOrder(o) \o Closing(m, o, o.price) \o Rest(m, o)
MutDealDeleteLast(m, o) == Closing(m, o, m.price) \o Rest(m, o) \o DeleteOrder(o)

\* deal: both parts are closed at the price of the newcomer.
Deal(m, o) == DeleteOrder(o) \o Closing(m, o, m.price) \o Rest(m, o)

\* Order::search_revers: the open orders of the reverse type, one after the
\* other in the order of the table.
IsReverse(m, o) ==
    ~o.closed /\ o.pair = m.pair /\ o.type = IF m.type = "sell" THEN "buy" ELSE "sell"
ReverseOrders(m) ==
    LET S == {o \in orders : IsReverse(m, o)}
        D == 1..Cardinality(S)
    IN  {found \in Surjection(D, S) : \A i, j \in D : i < j => found[i].id < found[j].id}

\* Order::search_one formats its two arguments into each other's place.
SearchOne(userId, orderId) == {o \in orders : o.id = userId /\ o.user = orderId}

BalanceRows(u, l) == {r \in userLots : r.user = u /\ r.lot = l}

\* Mutation: a withdrawal is compared with its sign.
MutSignedSum(r, sum) == sum > 0 \/ sum <= r.quantity

\* check_change_quantity: the row covers the withdrawal.
Covers(r, sum) == sum > 0 \/ -sum <= r.quantity

-----------------------------------------------------------------------------
(* One database request of a thread.                                       *)

Task(th) == Head(todo[th])
Doing(th, kind) == th \in Sema!Writers /\ todo[th] # <<>> /\ Task(th).do = kind

\* The call returns, having expanded into further calls; or it throws.
Returns(th, calls) ==
    /\ todo' = [todo EXCEPT ![th] = calls \o Tail(@)]
    /\ UNCHANGED failed
Throws(th) ==
    /\ todo' = [todo EXCEPT ![th] = <<>>]
    /\ failed' = failed \cup {th}

\* check_repeat_username.
CheckName(th) ==
    /\ Doing(th, "check_name")
    /\ IF Task(th).name \in ToSet(users) THEN Throws(th) ELSE Returns(th, <<>>)
    /\ UNCHANGED <<db, my, history, sem>>

\* add<User>, then one balance row per lot.
AddUser(th) ==
    /\ Doing(th, "add_user")
    /\ users' = Append(users, Task(th).name)
    /\ Returns(th, [l \in 1..2 |-> [do |-> "add_row", user |-> Len(users'), lot |-> l,
                                    quantity |-> DefaultQuantity]])
    /\ UNCHANGED <<userLots, lotPk, orders, orderPk, my, history, sem>>

\* change_balance: the one row of the user and lot, if it covers the change, is
\* replaced by two more requests; the new quantity is computed here.
ChangeBalance(th) ==
    /\ Doing(th, "change")
    /\ LET t == Task(th) IN
       \/ \E r \in BalanceRows(t.user, t.lot) :
             /\ BalanceRows(t.user, t.lot) = {r}
             /\ Covers(r, t.sum)
             /\ Returns(th, <<[do |-> "del_row", pk |-> r.pk],
                              [do |-> "add_row", user |-> t.user, lot |-> t.lot,
                               quantity |-> r.quantity + t.sum]>>)
             /\ UNCHANGED refused
       \/ /\ \/ Cardinality(BalanceRows(t.user, t.lot)) # 1
             \/ \E r \in BalanceRows(t.user, t.lot) : ~Covers(r, t.sum)
          /\ Throws(th)
          /\ refused' = TRUE
    /\ UNCHANGED <<db, my, undone, odd, sem>>

DelRow(th) ==
    /\ Doing(th, "del_row")
    /\ userLots' = {r \in userLots : r.pk # Task(th).pk}
    /\ Returns(th, <<>>)
    /\ UNCHANGED <<users, lotPk, orders, orderPk, my, history, sem>>

AddRow(th) ==
    /\ Doing(th, "add_row")
    /\ lotPk' = lotPk + 1
    /\ userLots' = userLots \cup {[pk |-> lotPk', user |-> Task(th).user, lot |-> Task(th).lot,
                                   quantity |-> Task(th).quantity]}
    /\ Returns(th, <<>>)
    /\ UNCHANGED <<users, orders, orderPk, my, history, sem>>

AddOrder(th) ==
    /\ Doing(th, "add_order")
    /\ orderPk' = orderPk + 1
    /\ orders' = orders \cup {[Task(th).order EXCEPT !.id = orderPk']}
    /\ Returns(th, <<>>)
    /\ UNCHANGED <<users, userLots, lotPk, my, history, sem>>

DelOrder(th) ==
    /\ Doing(th, "del_order")
    /\ orders' = {o \in orders : o.id # Task(th).id}
    /\ Returns(th, <<>>)
    /\ UNCHANGED <<users, userLots, lotPk, orderPk, my, history, sem>>

\* post_order reads the reverse orders once ...
ReadReverse(th) ==
    /\ Doing(th, "match")
    /\ \E found \in ReverseOrders(my[th]) :
       Returns(th, [i \in DOMAIN found |-> [do |-> "consider", order |-> found[i]]]
                       \o <<[do |-> "place"]>>)
    /\ UNCHANGED <<db, my, history, sem>>

\* ... and goes through its copy: a deal that fills the order is the last.
Consider(th) ==
    /\ Doing(th, "consider")
    /\ LET other == Task(th).order
           left  == my[th].quantity - Smaller(my[th].quantity, other.quantity) IN
       IF other.user = my[th].user \/ ~IsProfit(my[th], other)
       THEN Returns(th, <<>>) /\ UNCHANGED my
       ELSE /\ todo' = [todo EXCEPT ![th] = Deal(my[th], other)
                                               \o (IF left = 0 THEN <<>> ELSE Tail(@))]
            /\ my' = [my EXCEPT ![th].quantity = left]
            /\ UNCHANGED failed
    /\ UNCHANGED <<db, history, sem>>

\* What is left of the order goes into the book.
Place(th) ==
    /\ Doing(th, "place")
    /\ Returns(th, CreateOrder(my[th]))
    /\ UNCHANGED <<db, my, history, sem>>

\* check_and_get_user_order, then delete_order.
FindOrder(th) ==
    /\ Doing(th, "find_order")
    /\ LET found == SearchOne(Task(th).user, Task(th).id) IN
       \/ \E o \in found : /\ found = {o}
                           /\ Returns(th, DeleteOrder(o))
                           /\ undone' = undone \cup {p \in {o} : p.closed}
       \/ Cardinality(found) # 1 /\ Throws(th) /\ UNCHANGED undone
    /\ UNCHANGED <<db, my, odd, refused, sem>>

Work(th) ==
    \/ CheckName(th) \/ AddUser(th) \/ ChangeBalance(th) \/ DelRow(th) \/ AddRow(th)
    \/ AddOrder(th) \/ DelOrder(th) \/ ReadReverse(th) \/ Consider(th) \/ Place(th)
    \/ FindOrder(th)

-----------------------------------------------------------------------------
(* Requests.  The key of a user is looked up first (user_verification); the *)
(* rows of table user never change, so the user is known at once.          *)

Begin(th, first, tasks) ==
    /\ Sema!Construct(th, "writing")
    /\ my' = [my EXCEPT ![th] = first]
    /\ todo' = [todo EXCEPT ![th] = tasks]
    /\ UNCHANGED <<db, failed, undone, refused>>

PostUser(th, name) ==
    /\ "user" \in Requests /\ Len(users) < MaxUsers /\ UNCHANGED odd
    /\ Begin(th, NoOrder, <<[do |-> "check_name", name |-> name],
                            [do |-> "add_user", name |-> name]>>)

CanPay(o) ==
    \E r \in BalanceRows(o.user, LockLot(o)) : Locked(o) <= r.quantity

\* Nothing in the code asks for this: the handlers pass on any order.
Proper(o) == Plain(o) /\ CanPay(o)

PostOrder(th, o) ==
    /\ "order" \in Requests /\ orderPk < MaxOrders
    /\ odd' = (odd \/ ~Proper(o))
    /\ Begin(th, o, <<[do |-> "match"]>>)

CancelOrder(th, user, id) ==
    /\ "cancel" \in Requests /\ UNCHANGED odd
    /\ Begin(th, NoOrder, <<[do |-> "find_order", user |-> user, id |-> id]>>)

\* The request is answered and its WriteLock destroyed.
Answer(th) ==
    /\ th \in Sema!Writers /\ todo[th] = <<>>
    /\ Sema!FinishWriting(th)
    /\ failed' = failed \ {th}
    /\ my' = [my EXCEPT ![th] = NoOrder]
    /\ UNCHANGED <<db, todo, history>>

\* The order of a request, whatever its pair, its numbers and its type.
ClientOrders ==
    {[id |-> 0, user |-> user, pair |-> offer.pair, quantity |-> offer.quantity,
      price |-> offer.price, type |-> offer.type, closed |-> FALSE] :
        user \in 1..Len(users), offer \in Offers}

Init ==
    /\ users = <<>> /\ userLots = {} /\ lotPk = 0 /\ orders = {} /\ orderPk = 0
    /\ todo = [th \in Threads |-> <<>>] /\ my = [th \in Threads |-> NoOrder]
    /\ failed = {} /\ undone = {} /\ odd = FALSE /\ refused = FALSE
    /\ Sema!Init

ThreadNext(th) ==
    \/ \E name \in Names : PostUser(th, name)
    \/ \E o \in ClientOrders : PostOrder(th, o)
    \/ \E user \in 1..Len(users) : \E id \in 1..orderPk : CancelOrder(th, user, id)
    \/ Work(th)
    \/ Answer(th)

Next == \E th \in Threads : ThreadNext(th)

Spec == Init /\ [][Next]_vars

-----------------------------------------------------------------------------
AtRest == \A th \in Threads : phase[th] = "idle"

Open(type) == {o \in orders : ~o.closed /\ o.type = type}
Sales      == {o \in orders \cup undone : o.closed /\ o.type = "sell"}
Purchases  == {o \in orders \cup undone : o.closed /\ o.type # "sell"}
Total(S, f(_)) == MapThenSumSet(f, S)

\* No value appears or disappears, whatever the numbers in the orders, until
\* a change of a balance is refused: in every lot the balances and what the
\* open orders hold back add up to what the users were given and to what the
\* cancellation of closed orders, which delete_order does not tell from open
\* ones, paid out a second time.
Conservation ==
    AtRest /\ ~refused => \A l \in Lots :
        Total({r \in userLots : r.lot = l}, LAMBDA r : r.quantity)
          + Total({o \in orders : ~o.closed /\ LockLot(o) = l}, Locked)
        = DefaultQuantity * Len(users) + Total({o \in undone : LockLot(o) = l}, Locked)

\* Every sale has its purchase, whatever the numbers in the orders, until a
\* change of a balance is refused: the closed orders balance in quantity and
\* in money, whatever partial fills they came from.
TradesBalance ==
    AtRest /\ ~refused =>
        /\ Total(Sales, LAMBDA o : o.quantity) = Total(Purchases, LAMBDA o : o.quantity)
        /\ Total(Sales, Gain) = Total(Purchases, Locked)

\* The book is never crossed, whatever the numbers in the orders and whatever
\* was refused: two open orders of different users that could have traded with
\* each other did.
NoCrossedBook ==
    AtRest => \A s \in Open("sell"), b \in Open("buy") :
        s.user # b.user /\ s.pair = b.pair => s.price > b.price

\* While every client posts what it can pay for, with no negative number in
\* it, no change of a balance is refused: neither a client nor the owner of an
\* order it meets is left half-way, because the refunds, credits and debits of
\* a deal come in an order in which every debit is covered.  (An order with a
\* negative quantity or price is accepted and does leave others half-way.)
PayingClientServed == ~odd => ~refused

\* A balance that is looked up for a change is there, once (crypto.h:95).
OneBalanceRow ==
    \A th \in Threads : Doing(th, "change") /\ Task(th).lot \in Lots =>
        Cardinality(BalanceRows(Task(th).user, Task(th).lot)) = 1

\* An order of the user is found when the user asks to cancel it, so that the
\* refusal says the truth (checking_errors.cpp:62).
OwnOrderFound ==
    \A th \in Threads : Doing(th, "find_order") =>
        \A o \in orders : (o.id = Task(th).id /\ o.user = Task(th).user)
                             => o \in SearchOne(Task(th).user, Task(th).id)

\* A client that is told that its money could not be withdrawn
\* (checking_errors.cpp:49) has no open order for that money in the book.
RefusedOrderNotOpen ==
    \A th \in failed : my[th] # NoOrder =>
        ~ \E o \in orders : /\ o.id = orderPk /\ o.user = my[th].user
                            /\ o.pair /\ ~o.closed
=============================================================================
