---------------------------- MODULE CryptoProofs ----------------------------
(***************************************************************************)
(* Proofs about Crypto for any number of connections, users and orders,    *)
(* and for any pairs, types, quantities and prices in the orders, negative *)
(* ones included: type correctness; and, until two requests that write     *)
(* have overlapped in the semaphore, one balance row for every user and    *)
(* lot, a book that is never crossed and, until a change of a balance is   *)
(* refused, the conservation of value and the balance of the trades; no    *)
(* change is refused while every client posts what it can pay for.         *)
(*                                                                         *)
(* The list of tasks of a connection is split into operations (on rows,    *)
(* balances and orders) and the decisions behind them.  What makes the     *)
(* invariants inductive is that they speak of the tables together with     *)
(* what the operations still ahead will do to them.                        *)
(***************************************************************************)
EXTENDS Crypto, FiniteSetTheorems, SequenceTheorems, WellFoundedInduction, TLAPS

-----------------------------------------------------------------------------
(* Sums over finite sets.                                                  *)

\* What the sums add up.
Measure(k, x) ==
    CASE k = "quantity" -> x.quantity [] k = "locked" -> Locked(x) [] k = "gain" -> Gain(x)

Measured(S, k) == IsFiniteSet(S) /\ \A x \in S : Measure(k, x) \in Int

Some(s) == CHOOSE x \in s : TRUE

\* F is the sum of every subset of S: what MapThenSumSet computes by recursion.
Sums(F, S, k) ==
    F = [s \in SUBSET S |-> IF s = {} THEN 0 ELSE Measure(k, Some(s)) + F[s \ {Some(s)}]]

Amount(S, k) == (CHOOSE F : Sums(F, S, k))[S]

\* A set that holds 0 and the successors of its numbers holds every number.
LEMMA SetInduction ==
    ASSUME NEW S, 0 \in S, \A n \in Nat : n \in S => n + 1 \in S
    PROVE  Nat \subseteq S
<1> DEFINE less == OpToRel(<, Nat)
           rest == Nat \ S
<1>1. SUFFICES ASSUME rest # {} PROVE FALSE
  OBVIOUS
<1>2. rest \subseteq Nat
  OBVIOUS
<1>3. IsWellFoundedOn(less, Nat)
  BY NatLessThanWellFounded
<1>4. \A x, y \in Nat : x < y => <<x, y>> \in less
  BY DEF OpToRel
<1> HIDE DEF less
<1>5. PICK x \in rest : \A y \in rest : <<y, x>> \notin less
  <2> HIDE DEF rest
  <2> QED
    BY <1>1, <1>2, <1>3, WFMin
<1>6. x # 0 /\ x \in Nat /\ x - 1 \in Nat
  BY <1>5
<1>7. x - 1 < x /\ x - 1 \in S
  <2>1. x - 1 < x
    BY <1>6
  <2>2. <<x - 1, x>> \in less
    BY <1>4, <1>6, <2>1
  <2> HIDE DEF less
  <2> QED
    BY <1>5, <1>6, <2>1, <2>2
<1>8. (x - 1) + 1 \in S
  BY <1>6, <1>7
<1> QED
  BY <1>5, <1>6, <1>8

\* The element that is taken out leaves one element less.
LEMMA OneLess ==
    ASSUME NEW s, IsFiniteSet(s), s # {}
    PROVE  /\ Some(s) \in s /\ s \ {Some(s)} \subseteq s /\ IsFiniteSet(s \ {Some(s)})
           /\ Cardinality(s) \in Nat /\ Cardinality(s \ {Some(s)}) \in Nat
           /\ Cardinality(s \ {Some(s)}) + 1 = Cardinality(s)
<1>1. Some(s) \in s
  BY DEF Some
<1>2. IsFiniteSet(s \ {Some(s)}) /\ Cardinality(s \ {Some(s)}) = Cardinality(s) - 1
  BY <1>1, FS_RemoveElement
<1>3. Cardinality(s) \in Nat /\ Cardinality(s \ {Some(s)}) \in Nat
  BY <1>2, FS_CardinalityType
<1> QED
  BY <1>1, <1>2, <1>3

\* The recursion has a solution: it is built up by the size of the subsets.
LEMMA SumsExist ==
    ASSUME NEW S, NEW k, Measured(S, k)
    PROVE  \E F \in [SUBSET S -> Int] : Sums(F, S, k)
<1> DEFINE Small(n) == {s \in SUBSET S : Cardinality(s) <= n}
           Solves(F, n) ==
             \A s \in Small(n) :
                 F[s] = IF s = {} THEN 0 ELSE Measure(k, Some(s)) + F[s \ {Some(s)}]
           good == {n \in Nat : \E F \in [Small(n) -> Int] : Solves(F, n)}
<1>1. \A s \in SUBSET S : IsFiniteSet(s) /\ Cardinality(s) \in Nat
  BY FS_Subset, FS_CardinalityType DEF Measured
<1>2. \A s \in SUBSET S : Cardinality(s) = 0 <=> s = {}
  BY <1>1, FS_EmptySet
<1>3. 0 \in good
  <2> DEFINE F == [s \in Small(0) |-> 0]
  <2>1. \A s \in Small(0) : s = {}
    BY <1>1, <1>2
  <2>2. F \in [Small(0) -> Int] /\ Solves(F, 0)
    BY <2>1
  <2> QED
    BY <2>2
<1>4. ASSUME NEW n \in Nat, n \in good PROVE n + 1 \in good
  <2>1. PICK F \in [Small(n) -> Int] : Solves(F, n)
    BY <1>4
  <2> DEFINE G == [s \in Small(n + 1) |->
                     IF s = {} THEN 0 ELSE Measure(k, Some(s)) + F[s \ {Some(s)}]]
  <2>2. ASSUME NEW s \in Small(n + 1), s # {}
        PROVE  /\ s \ {Some(s)} \in Small(n) /\ Some(s) \in S
               /\ Measure(k, Some(s)) \in Int /\ F[s \ {Some(s)}] \in Int
    <3>1. IsFiniteSet(s) /\ s \in SUBSET S /\ Cardinality(s) <= n + 1
      BY <1>1, <2>2
    <3>2. /\ Some(s) \in s /\ s \ {Some(s)} \subseteq s
          /\ Cardinality(s) \in Nat /\ Cardinality(s \ {Some(s)}) \in Nat
          /\ Cardinality(s \ {Some(s)}) + 1 = Cardinality(s)
      BY <2>2, <3>1, OneLess
    <3>3. s \ {Some(s)} \in Small(n)
      BY <3>1, <3>2
    <3> HIDE DEF Small
    <3> QED
      BY <2>1, <3>1, <3>2, <3>3 DEF Measured
  <2>3. ASSUME NEW s \in Small(n + 1)
        PROVE  /\ G[s] = IF s = {} THEN 0 ELSE Measure(k, Some(s)) + F[s \ {Some(s)}]
               /\ G[s] \in Int
    <3>1. G[s] = IF s = {} THEN 0 ELSE Measure(k, Some(s)) + F[s \ {Some(s)}]
      OBVIOUS
    <3>2. CASE s = {}
      BY <3>1, <3>2
    <3>3. CASE s # {}
      <4>1. Measure(k, Some(s)) \in Int /\ F[s \ {Some(s)}] \in Int
        BY <2>2, <3>3
      <4>2. G[s] = Measure(k, Some(s)) + F[s \ {Some(s)}]
        BY <3>1, <3>3
      <4> HIDE DEF G
      <4> QED
        BY <3>1, <4>1, <4>2
    <3> QED
      BY <3>2, <3>3
  <2>4. ASSUME NEW s \in Small(n) PROVE s \in Small(n + 1) /\ G[s] = F[s]
    <3>1. s \in Small(n + 1)
      BY <1>1
    <3>2. F[s] = IF s = {} THEN 0 ELSE Measure(k, Some(s)) + F[s \ {Some(s)}]
      BY <2>1
    <3> HIDE DEF G, Small
    <3> QED
      BY <2>3, <3>1, <3>2
  <2>5. G \in [Small(n + 1) -> Int]
    <3>1. G = [s \in Small(n + 1) |-> G[s]]
      OBVIOUS
    <3> HIDE DEF G, Small
    <3> QED
      BY <2>3, <3>1
  <2>6. Solves(G, n + 1)
    <3>1. ASSUME NEW s \in Small(n + 1)
          PROVE  G[s] = IF s = {} THEN 0 ELSE Measure(k, Some(s)) + G[s \ {Some(s)}]
      <4> HIDE DEF G, Small
      <4> QED
        BY <2>2, <2>3, <2>4
    <3> HIDE DEF G, Small
    <3> QED
      BY <3>1
  <2>7. n + 1 \in Nat
    OBVIOUS
  <2> HIDE DEF G, Small, Solves
  <2> QED
    BY <2>5, <2>6, <2>7
<1>5. Cardinality(S) \in good
  <2> HIDE DEF good
  <2> QED
    BY <1>1, <1>3, <1>4, SetInduction
<1>6. PICK F \in [Small(Cardinality(S)) -> Int] : Solves(F, Cardinality(S))
  BY <1>5
<1>7. Small(Cardinality(S)) = SUBSET S
  BY FS_Subset DEF Measured
<1>8. F \in [SUBSET S -> Int]
  BY <1>6, <1>7
<1>9. \A s \in SUBSET S : F[s] = IF s = {} THEN 0 ELSE Measure(k, Some(s)) + F[s \ {Some(s)}]
  BY <1>6, <1>7
<1> QED
  BY <1>8, <1>9 DEF Sums

\* The recursion has one solution.
LEMMA SumsAgree ==
    ASSUME NEW S, NEW T, NEW k, IsFiniteSet(T), S \subseteq T, NEW F, NEW G,
           Sums(F, S, k), Sums(G, T, k), NEW s \in SUBSET S
    PROVE  F[s] = G[s]
<1> DEFINE good == {n \in Nat : \A t \in SUBSET S : Cardinality(t) = n => F[t] = G[t]}
<1>1. \A t \in SUBSET S : IsFiniteSet(t) /\ Cardinality(t) \in Nat /\ t \in SUBSET T
  BY FS_Subset, FS_CardinalityType
<1>2. \A t \in SUBSET S :
          /\ F[t] = IF t = {} THEN 0 ELSE Measure(k, Some(t)) + F[t \ {Some(t)}]
          /\ G[t] = IF t = {} THEN 0 ELSE Measure(k, Some(t)) + G[t \ {Some(t)}]
  BY <1>1 DEF Sums
<1>3. 0 \in good
  <2>1. \A t \in SUBSET S : Cardinality(t) = 0 => t = {}
    BY <1>1, FS_EmptySet
  <2> QED
    BY <1>2, <2>1
<1>4. ASSUME NEW n \in Nat, n \in good PROVE n + 1 \in good
  <2>1. SUFFICES ASSUME NEW t \in SUBSET S, Cardinality(t) = n + 1 PROVE F[t] = G[t]
    OBVIOUS
  <2>2. CASE t = {}
    BY <1>2, <2>2
  <2>3. CASE t # {}
    <3>1. /\ t \ {Some(t)} \in SUBSET S /\ Cardinality(t \ {Some(t)}) \in Nat
          /\ Cardinality(t \ {Some(t)}) + 1 = Cardinality(t)
      BY <1>1, <2>3, OneLess
    <3>2. Cardinality(t \ {Some(t)}) = n
      BY <2>1, <3>1
    <3>3. F[t \ {Some(t)}] = G[t \ {Some(t)}]
      BY <1>4, <3>1, <3>2
    <3> QED
      BY <1>2, <2>3, <3>3
  <2> QED
    BY <2>2, <2>3
<1>5. Cardinality(s) \in good
  <2> HIDE DEF good
  <2> QED
    BY <1>1, <1>3, <1>4, SetInduction
<1> QED
  BY <1>5

\* The sum of a set by any solution, of the set or of a larger one.
LEMMA AmountIs ==
    ASSUME NEW S, NEW T, NEW k, Measured(T, k), S \subseteq T, NEW F, Sums(F, T, k)
    PROVE  Amount(S, k) = F[S]
<1>1. Measured(S, k) /\ IsFiniteSet(T)
  BY FS_Subset DEF Measured
<1>2. \E G : Sums(G, S, k)
  BY <1>1, SumsExist
<1>3. Sums(CHOOSE G : Sums(G, S, k), S, k)
  BY <1>2, Zenon
<1>4. S \in SUBSET S
  OBVIOUS
<1> QED
  BY <1>1, <1>3, <1>4, SumsAgree DEF Amount

\* A sum of numbers is a number.
LEMMA AmountInt ==
    ASSUME NEW S, NEW k, Measured(S, k)
    PROVE  Amount(S, k) \in Int
<1>1. PICK F \in [SUBSET S -> Int] : Sums(F, S, k)
  BY SumsExist
<1>2. Amount(S, k) = F[S]
  BY <1>1, AmountIs
<1> QED
  BY <1>1, <1>2

\* The sum of nothing is 0.
LEMMA AmountEmpty == ASSUME NEW k PROVE Amount({}, k) = 0
<1>1. Measured({}, k)
  BY FS_EmptySet DEF Measured
<1>2. PICK F \in [SUBSET {} -> Int] : Sums(F, {}, k)
  BY <1>1, SumsExist
<1>3. Amount({}, k) = F[{}]
  BY <1>1, <1>2, AmountIs
<1> QED
  BY <1>2, <1>3 DEF Sums

\* The order in which the elements are taken does not matter.
LEMMA AmountRemove ==
    ASSUME NEW S, NEW k, Measured(S, k), NEW e \in S
    PROVE  /\ Amount(S \ {e}, k) \in Int /\ Measure(k, e) \in Int
           /\ Amount(S, k) = Measure(k, e) + Amount(S \ {e}, k)
<1>1. PICK F \in [SUBSET S -> Int] : Sums(F, S, k)
  BY SumsExist
<1>2. \A t \in SUBSET S : F[t] = IF t = {} THEN 0 ELSE Measure(k, Some(t)) + F[t \ {Some(t)}]
  BY <1>1 DEF Sums
<1> DEFINE good == {n \in Nat : \A t \in SUBSET S : \A x \in t :
                       Cardinality(t) = n => F[t] = Measure(k, x) + F[t \ {x}]}
<1>3. \A t \in SUBSET S : IsFiniteSet(t) /\ Cardinality(t) \in Nat
  BY FS_Subset, FS_CardinalityType DEF Measured
<1>4. 0 \in good
  <2>1. \A t \in SUBSET S : Cardinality(t) = 0 => t = {}
    BY <1>3, FS_EmptySet
  <2> QED
    BY <2>1
<1>5. ASSUME NEW n \in Nat, n \in good PROVE n + 1 \in good
  <2>1. SUFFICES ASSUME NEW t \in SUBSET S, NEW x \in t, Cardinality(t) = n + 1
                 PROVE  F[t] = Measure(k, x) + F[t \ {x}]
    OBVIOUS
  <2> DEFINE y == Some(t)
  <2>2. t # {} /\ IsFiniteSet(t)
    BY <1>3, <2>1
  <2>3. /\ y \in t /\ Cardinality(t \ {y}) \in Nat /\ Cardinality(t \ {y}) + 1 = Cardinality(t)
        /\ Cardinality(t) \in Nat
    BY <2>2, OneLess
  <2>4. F[t] = Measure(k, y) + F[t \ {y}]
    BY <1>2, <2>2
  <2> HIDE DEF y
  <2>5. CASE x = y
    BY <2>4, <2>5
  <2>6. CASE x # y
    <3>1. Cardinality(t \ {y}) = n
      BY <2>1, <2>3
    <3>2. Cardinality(t \ {x}) = n
      <4>1. Cardinality(t \ {x}) = Cardinality(t) - 1
        BY <2>2, FS_RemoveElement
      <4> QED
        BY <2>1, <4>1
    <3>3. /\ t \ {y} \in SUBSET S /\ x \in t \ {y} /\ t \ {x} \in SUBSET S /\ y \in t \ {x}
          /\ (t \ {y}) \ {x} = (t \ {x}) \ {y}
      BY <2>3, <2>6
    <3>4. F[t \ {y}] = Measure(k, x) + F[(t \ {y}) \ {x}]
      BY <1>5, <3>1, <3>3
    <3>5. F[t \ {x}] = Measure(k, y) + F[(t \ {x}) \ {y}]
      BY <1>5, <3>2, <3>3
    <3>6. /\ Measure(k, x) \in Int /\ Measure(k, y) \in Int /\ F[(t \ {x}) \ {y}] \in Int
      <4>1. x \in S /\ y \in S /\ (t \ {x}) \ {y} \in SUBSET S
        BY <2>3
      <4> QED
        BY <1>1, <4>1 DEF Measured
    <3>7. F[(t \ {y}) \ {x}] = F[(t \ {x}) \ {y}]
      BY <3>3
    <3>8. /\ F[t] = Measure(k, y) + (Measure(k, x) + F[(t \ {x}) \ {y}])
          /\ Measure(k, x) + F[t \ {x}] = Measure(k, x) + (Measure(k, y) + F[(t \ {x}) \ {y}])
      BY <2>4, <3>4, <3>5, <3>7, Zenon
    <3>9. \A a, b, c \in Int : a + (b + c) = b + (a + c)
      OBVIOUS
    <3> QED
      BY <3>6, <3>8, <3>9
  <2> QED
    BY <2>5, <2>6
<1>6. Cardinality(S) \in good
  <2> HIDE DEF good
  <2> QED
    BY <1>3, <1>4, <1>5, SetInduction
<1>7. F[S] = Measure(k, e) + F[S \ {e}]
  BY <1>6
<1>8. Amount(S, k) = F[S] /\ Amount(S \ {e}, k) = F[S \ {e}]
  BY <1>1, AmountIs
<1>9. F[S \ {e}] \in Int /\ Measure(k, e) \in Int
  BY <1>1 DEF Measured
<1> QED
  BY <1>7, <1>8, <1>9

\* An element more is added to the sum.
LEMMA AmountAdd ==
    ASSUME NEW S, NEW k, Measured(S, k), NEW e, e \notin S, Measure(k, e) \in Int
    PROVE  /\ Measured(S \cup {e}, k) /\ Amount(S, k) \in Int
           /\ Amount(S \cup {e}, k) = Measure(k, e) + Amount(S, k)
<1>1. Measured(S \cup {e}, k)
  BY FS_AddElement DEF Measured
<1>2. (S \cup {e}) \ {e} = S /\ e \in S \cup {e}
  OBVIOUS
<1> QED
  BY <1>1, <1>2, AmountRemove, AmountInt

\* The totals of the module are such sums.
LEMMA TotalQuantity ==
    ASSUME NEW S, Measured(S, "quantity")
    PROVE  Total(S, LAMBDA r : r.quantity) = Amount(S, "quantity")
<1> DEFINE P(F) == F = [s \in SUBSET S |-> IF s = {} THEN 0
                            ELSE (CHOOSE x \in s : TRUE).quantity + F[s \ {CHOOSE x \in s : TRUE}]]
<1>1. \A F : Sums(F, S, "quantity") <=> P(F)
  BY Zenon DEF Sums, Measure, Some
<1>2. Total(S, LAMBDA r : r.quantity) = (CHOOSE F : P(F))[S]
  BY DEF Total, MapThenSumSet, MapThenFoldSet
<1> HIDE DEF P
<1>3. \E F : P(F)
  BY <1>1, SumsExist
<1>4. P(CHOOSE F : P(F))
  BY <1>3, Zenon
<1> QED
  BY <1>1, <1>2, <1>4, AmountIs

\* The same for what orders hold back ...
LEMMA TotalLocked ==
    ASSUME NEW S, Measured(S, "locked")
    PROVE  Total(S, Locked) = Amount(S, "locked")
<1> DEFINE P(F) == F = [s \in SUBSET S |-> IF s = {} THEN 0
                            ELSE Locked(CHOOSE x \in s : TRUE) + F[s \ {CHOOSE x \in s : TRUE}]]
<1>1. \A F : Sums(F, S, "locked") <=> P(F)
  BY Zenon DEF Sums, Measure, Some
<1>2. Total(S, Locked) = (CHOOSE F : P(F))[S]
  BY DEF Total, MapThenSumSet, MapThenFoldSet
<1> HIDE DEF P
<1>3. \E F : P(F)
  BY <1>1, SumsExist
<1>4. P(CHOOSE F : P(F))
  BY <1>3, Zenon
<1> QED
  BY <1>1, <1>2, <1>4, AmountIs

\* ... and for what they bring.
LEMMA TotalGain ==
    ASSUME NEW S, Measured(S, "gain")
    PROVE  Total(S, Gain) = Amount(S, "gain")
<1> DEFINE P(F) == F = [s \in SUBSET S |-> IF s = {} THEN 0
                            ELSE Gain(CHOOSE x \in s : TRUE) + F[s \ {CHOOSE x \in s : TRUE}]]
<1>1. \A F : Sums(F, S, "gain") <=> P(F)
  BY Zenon DEF Sums, Measure, Some
<1>2. Total(S, Gain) = (CHOOSE F : P(F))[S]
  BY DEF Total, MapThenSumSet, MapThenFoldSet
<1> HIDE DEF P
<1>3. \E F : P(F)
  BY <1>1, SumsExist
<1>4. P(CHOOSE F : P(F))
  BY <1>3, Zenon
<1> QED
  BY <1>1, <1>2, <1>4, AmountIs

-----------------------------------------------------------------------------
(* What a connection still has to do.                                      *)

\* What an order and its lots can be: before (~d) and after (d) one was odd.
Orders(d, n) ==
    {o \in [id : Nat, user : 1..n, pair : BOOLEAN, quantity : Int, price : Int,
            type : Types, closed : BOOLEAN] : d \/ Plain(o)}

LotsOf(d) == {l \in Lots \cup {NoLot} : d \/ l # NoLot}

\* The tasks that change a table or a balance ...
OpKinds == {"add_row", "del_row", "change", "add_order", "del_order"}

Ops(d, n) ==
    [do : {"add_row"}, user : 1..n, lot : Lots, quantity : Nat]
        \cup [do : {"del_row"}, pk : Nat]
        \cup [do : {"change"}, user : 1..n, lot : LotsOf(d), sum : Int]
        \cup [do : {"add_order"}, order : Orders(d, n)]
        \cup [do : {"del_order"}, id : Nat]

\* ... and those that decide what comes next.
Waits(d, n) ==
    [do : {"check_name", "add_user"}, name : Names]
        \cup [do : {"match", "place"}]
        \cup [do : {"consider"}, order : Orders(d, n)]
        \cup [do : {"find_order"}, user : Nat, id : Nat]

\* The order of the client is still to be placed.
Placing(b) == b # <<>> /\ b[Len(b)].do \in {"match", "place"}

Ends(b, m, d, n) ==
    /\ \A i \in 1..Len(b) :
          /\ b[i].do \in {"match", "place"} => i = Len(b)
          /\ b[i].do = "consider" => b[Len(b)].do = "place"
          /\ b[i].do \in {"check_name", "add_user", "find_order"} => m = NoOrder
    /\ Placing(b) => m \in Orders(d, n) /\ ~m.closed

\* What is to be done is a list of operations and, behind it, of decisions.
Plan(w, f, b, m, d, n) ==
    f \in Seq(Ops(d, n)) /\ b \in Seq(Waits(d, n)) /\ w = f \o b /\ Ends(b, m, d, n)

\* The fields of an operation, by its kind.
LEMMA OpsAreOps ==
    ASSUME NEW d, NEW n \in Nat, NEW t \in Ops(d, n)
    PROVE  /\ t.do \in OpKinds
           /\ t.do = "add_row" => t.user \in 1..n /\ t.lot \in Lots /\ t.quantity \in Nat
           /\ t.do = "del_row" => t.pk \in Nat
           /\ t.do = "change" => t.user \in 1..n /\ t.lot \in LotsOf(d) /\ t.sum \in Int
           /\ t.do = "add_order" => t.order \in Orders(d, n)
           /\ t.do = "del_order" => t.id \in Nat
BY DEF Ops, OpKinds

\* The fields of a decision, by its kind; no decision is an operation.
LEMMA WaitsAreWaits ==
    ASSUME NEW d, NEW n \in Nat, NEW t \in Waits(d, n)
    PROVE  /\ t.do \in {"check_name", "add_user", "match", "place", "consider", "find_order"}
           /\ t.do \notin OpKinds
           /\ t.do \in {"check_name", "add_user"} => t.name \in Names
           /\ t.do = "consider" => t.order \in Orders(d, n)
           /\ t.do = "find_order" => t.user \in Nat /\ t.id \in Nat
BY DEF Waits, OpKinds

\* A user more, or an odd order, takes nothing away.
LEMMA MoreUsers ==
    ASSUME NEW d, NEW e, d => e, NEW n \in Nat, NEW k \in Nat, n <= k
    PROVE  /\ Orders(d, n) \subseteq Orders(e, k) /\ Ops(d, n) \subseteq Ops(e, k)
           /\ Waits(d, n) \subseteq Waits(e, k)
<1>1. 1..n \subseteq 1..k
  OBVIOUS
<1>2. Orders(d, n) \subseteq Orders(e, k)
  BY <1>1 DEF Orders
<1>3. LotsOf(d) \subseteq LotsOf(e)
  BY DEF LotsOf
<1> QED
  BY <1>1, <1>2, <1>3 DEF Ops, Waits

\* A plan stays one when a user registers or posts an odd order.
LEMMA PlanWithMoreUsers ==
    ASSUME NEW d, NEW e, d => e, NEW n \in Nat, NEW k \in Nat, n <= k,
           NEW w, NEW f, NEW b, NEW m, Plan(w, f, b, m, d, n)
    PROVE  Plan(w, f, b, m, e, k)
<1>1. /\ Orders(d, n) \subseteq Orders(e, k) /\ Ops(d, n) \subseteq Ops(e, k)
      /\ Waits(d, n) \subseteq Waits(e, k)
  BY MoreUsers
<1>2. f \in Seq(Ops(e, k)) /\ b \in Seq(Waits(e, k))
  BY <1>1 DEF Plan
<1>3. Ends(b, m, e, k)
  BY <1>1 DEF Plan, Ends
<1> QED
  BY <1>2, <1>3 DEF Plan

\* Joining lists is associative.
LEMMA JoinedThree ==
    ASSUME NEW T, NEW s \in Seq(T), NEW t \in Seq(T), NEW u \in Seq(T)
    PROVE  (s \o t) \o u = s \o (t \o u)
OBVIOUS

\* The next task is an operation: it is the first of them.
LEMMA FrontStep ==
    ASSUME NEW d, NEW n \in Nat, NEW w, NEW f, NEW b, NEW m, Plan(w, f, b, m, d, n),
           w # <<>>, Head(w).do \in OpKinds, NEW calls \in Seq(Ops(d, n))
    PROVE  /\ f # <<>> /\ Head(f) = Head(w) /\ Head(f) \in Ops(d, n) /\ Tail(f) \in Seq(Ops(d, n))
           /\ Plan(calls \o Tail(w), calls \o Tail(f), b, m, d, n)
<1>1. f \in Seq(Ops(d, n)) /\ b \in Seq(Waits(d, n)) /\ w = f \o b /\ Ends(b, m, d, n)
  BY DEF Plan
<1>2. f # <<>>
  <2>1. SUFFICES ASSUME f = <<>> PROVE FALSE
    OBVIOUS
  <2>2. w = b
    BY <1>1, <2>1
  <2>3. Head(w) \in Waits(d, n)
    BY <1>1, <2>2
  <2> QED
    BY <2>3, WaitsAreWaits
<1>3. Head(w) = Head(f) /\ Tail(w) = Tail(f) \o b /\ Head(f) \in Ops(d, n) /\ Tail(f) \in Seq(Ops(d, n))
  BY <1>1, <1>2
<1>4. calls \o Tail(w) = (calls \o Tail(f)) \o b
  <2> DEFINE T == Ops(d, n) \cup Waits(d, n)
  <2>1. calls \in Seq(T) /\ Tail(f) \in Seq(T) /\ b \in Seq(T)
    BY <1>1, <1>3
  <2> HIDE DEF T
  <2>2. (calls \o Tail(f)) \o b = calls \o (Tail(f) \o b)
    BY <2>1, JoinedThree
  <2>3. Tail(w) = Tail(f) \o b
    BY <1>3
  <2> QED
    BY <2>2, <2>3, Zenon
<1>5. calls \o Tail(f) \in Seq(Ops(d, n))
  BY <1>3
<1> QED
  BY <1>1, <1>2, <1>3, <1>4, <1>5 DEF Plan

\* The next task is a decision: no operation is left.
LEMMA BackStep ==
    ASSUME NEW d, NEW n \in Nat, NEW w, NEW f, NEW b, NEW m, Plan(w, f, b, m, d, n),
           w # <<>>, Head(w).do \notin OpKinds
    PROVE  /\ f = <<>> /\ b = w /\ b \in Seq(Waits(d, n)) /\ Ends(b, m, d, n)
           /\ Head(b) \in Waits(d, n) /\ Head(b) = b[1] /\ 1 \in 1..Len(b) /\ Len(b) \in Nat
<1>1. f \in Seq(Ops(d, n)) /\ b \in Seq(Waits(d, n)) /\ w = f \o b /\ Ends(b, m, d, n)
  BY DEF Plan
<1>2. f = <<>>
  <2>1. SUFFICES ASSUME f # <<>> PROVE FALSE
    OBVIOUS
  <2>2. Head(w) = Head(f) /\ Head(f) \in Ops(d, n)
    BY <1>1, <2>1
  <2> QED
    BY <2>2, OpsAreOps
<1>3. b = w
  BY <1>1, <1>2
<1> QED
  BY <1>1, <1>2, <1>3

\* The decisions behind the first.
LEMMA TailOfBack ==
    ASSUME NEW d, NEW n \in Nat, NEW b \in Seq(Waits(d, n)), b # <<>>
    PROVE  /\ Tail(b) \in Seq(Waits(d, n)) /\ Len(Tail(b)) = Len(b) - 1
           /\ Len(b) \in Nat /\ Len(Tail(b)) \in Nat
           /\ \A i \in 1..Len(Tail(b)) : i + 1 \in 1..Len(b) /\ Tail(b)[i] = b[i + 1]
           /\ \A i \in 2..Len(b) : i - 1 \in 1..Len(Tail(b)) /\ Tail(b)[i - 1] = b[i]
           /\ Tail(b) # <<>> => Tail(b)[Len(Tail(b))] = b[Len(b)]
<1>1. /\ Tail(b) \in Seq(Waits(d, n)) /\ Len(Tail(b)) = Len(b) - 1
      /\ Len(b) \in Nat /\ Len(Tail(b)) \in Nat
      /\ \A i \in 1..(Len(b) - 1) : Tail(b)[i] = b[i + 1]
  OBVIOUS
<1>2. ASSUME NEW i \in 2..Len(b) PROVE i - 1 \in 1..Len(Tail(b)) /\ Tail(b)[i - 1] = b[i]
  <2>1. i - 1 \in 1..(Len(b) - 1) /\ (i - 1) + 1 = i
    BY <1>1
  <2> QED
    BY <1>1, <2>1
<1>3. ASSUME Tail(b) # <<>> PROVE Tail(b)[Len(Tail(b))] = b[Len(b)]
  <2>1. Len(Tail(b)) # 0
    BY <1>1, <1>3
  <2>2. Len(b) \in 2..Len(b) /\ Len(b) - 1 = Len(Tail(b))
    BY <1>1, <2>1
  <2> QED
    BY <1>2, <2>2
<1> QED
  BY <1>1, <1>2, <1>3

\* The decisions behind the first are in order when all of them are.
LEMMA EndsOfTail ==
    ASSUME NEW d, NEW n \in Nat, NEW b \in Seq(Waits(d, n)), b # <<>>, NEW m, Ends(b, m, d, n)
    PROVE  /\ Ends(Tail(b), m, d, n)
           /\ Placing(Tail(b)) => Placing(b)
           /\ b[1].do = "consider" => Placing(b) /\ Placing(Tail(b))
           /\ b[1].do \in {"match", "place"} => Placing(b) /\ Tail(b) = <<>>
<1> DEFINE t == Tail(b)
<1>1. /\ t \in Seq(Waits(d, n)) /\ Len(t) = Len(b) - 1 /\ Len(b) \in Nat /\ Len(t) \in Nat
      /\ \A i \in 1..Len(t) : i + 1 \in 1..Len(b) /\ t[i] = b[i + 1]
      /\ t # <<>> => t[Len(t)] = b[Len(b)]
  BY TailOfBack
<1> HIDE DEF t
<1>2. Placing(t) => Placing(b)
  BY <1>1 DEF Placing
<1>3. ASSUME NEW i \in 1..Len(t)
      PROVE  /\ t[i].do \in {"match", "place"} => i = Len(t)
             /\ t[i].do = "consider" => t[Len(t)].do = "place"
             /\ t[i].do \in {"check_name", "add_user", "find_order"} => m = NoOrder
  <2>1. i + 1 \in 1..Len(b) /\ t[i] = b[i + 1] /\ t # <<>>
    BY <1>1
  <2> QED
    BY <1>1, <2>1 DEF Ends
<1>4. Ends(t, m, d, n)
  BY <1>2, <1>3 DEF Ends
<1>5. 1 \in 1..Len(b)
  BY <1>1
<1>6. ASSUME b[1].do = "consider" PROVE Placing(b) /\ Placing(t)
  <2>1. b[Len(b)].do = "place"
    BY <1>5, <1>6 DEF Ends
  <2>2. Len(b) # 1
    BY <1>6, <2>1
  <2>3. t # <<>>
    BY <1>1, <1>5, <2>2
  <2> QED
    BY <1>1, <2>1, <2>3 DEF Placing
<1>7. ASSUME b[1].do \in {"match", "place"} PROVE Placing(b) /\ t = <<>>
  <2>1. Len(b) = 1
    BY <1>5, <1>7 DEF Ends
  <2>2. Len(t) = 0
    BY <1>1, <2>1
  <2> QED
    BY <1>1, <1>7, <2>1, <2>2 DEF Placing
<1> QED
  BY <1>2, <1>4, <1>6, <1>7 DEF t

\* A decision is replaced by operations.
LEMMA BackPlan ==
    ASSUME NEW d, NEW n \in Nat, NEW b \in Seq(Waits(d, n)), NEW m, Ends(b, m, d, n), NEW calls \in Seq(Ops(d, n))
    PROVE  Plan(calls \o b, calls, b, m, d, n)
BY DEF Plan

\* A connection with nothing to do has a plan, the empty one.
LEMMA NothingPlanned ==
    ASSUME NEW d, NEW n \in Nat, NEW m
    PROVE  Plan(<<>>, <<>>, <<>>, m, d, n) /\ Ends(<<>>, m, d, n) /\ ~Placing(<<>>)
<1>1. Ends(<<>>, m, d, n) /\ ~Placing(<<>>)
  BY DEF Ends, Placing
<1> QED
  BY <1>1 DEF Plan

-----------------------------------------------------------------------------
(* What the calls expand into.                                             *)

\* The fields of an order, and what it holds back and brings.
LEMMA OrderFields ==
    ASSUME NEW d, NEW n, NEW o \in Orders(d, n)
    PROVE  /\ o.id \in Nat /\ o.user \in 1..n /\ o.quantity \in Int /\ o.price \in Int
           /\ o.type \in Types /\ o.closed \in BOOLEAN /\ o.pair \in BOOLEAN
           /\ LockLot(o) \in LotsOf(d) /\ GainLot(o) \in LotsOf(d)
           /\ Locked(o) \in Int /\ Gain(o) \in Int
           /\ ~d => /\ o.quantity \in Nat /\ o.price \in Nat /\ o.pair
                    /\ LockLot(o) \in Lots /\ GainLot(o) \in Lots /\ LockLot(o) # GainLot(o)
                    /\ Locked(o) \in Nat /\ Gain(o) \in Nat
<1>1. /\ o.id \in Nat /\ o.user \in 1..n /\ o.quantity \in Int /\ o.price \in Int
      /\ o.type \in Types /\ o.closed \in BOOLEAN /\ o.pair \in BOOLEAN
      /\ ~d => o.quantity \in Nat /\ o.price \in Nat /\ o.pair
  BY DEF Orders, Plain
<1>2. \A p, q \in Int : p * q \in Int
  OBVIOUS
<1>3. \A p, q \in Nat : p * q \in Nat
  OBVIOUS
<1>4. o.price * o.quantity \in Int /\ (~d => o.price * o.quantity \in Nat)
  BY <1>1, <1>2, <1>3
<1>5. Locked(o) \in Int /\ Gain(o) \in Int /\ (~d => Locked(o) \in Nat /\ Gain(o) \in Nat)
  BY <1>1, <1>4 DEF Locked, Gain
<1>6. /\ LockLot(o) \in LotsOf(d) /\ GainLot(o) \in LotsOf(d)
      /\ ~d => LockLot(o) \in Lots /\ GainLot(o) \in Lots /\ LockLot(o) # GainLot(o)
  BY <1>1 DEF LockLot, GainLot, LotsOf, Lots, First, Second, NoLot
<1> QED
  BY <1>1, <1>5, <1>6

\* Part of an order is that order with another quantity.
LEMMA PartFields ==
    ASSUME NEW d, NEW n \in Nat, NEW o \in Orders(d, n), NEW q \in Int, d \/ q \in Nat
    PROVE  /\ Part(o, q) \in Orders(d, n)
           /\ Part(o, q).id = o.id /\ Part(o, q).user = o.user /\ Part(o, q).quantity = q
           /\ Part(o, q).price = o.price /\ Part(o, q).type = o.type
           /\ Part(o, q).closed = o.closed /\ Part(o, q).pair = o.pair
BY DEF Part, Orders, Plain

\* The two parts that closing an order against another leaves closed.
ClosedOther(m, o, p) ==
    [Part(o, Smaller(m.quantity, o.quantity)) EXCEPT !.closed = TRUE, !.price = p]
ClosedMine(m, o) == [Part(m, Smaller(m.quantity, o.quantity)) EXCEPT !.closed = TRUE]

\* The two closed parts are orders of the quantity both had.
LEMMA ClosedFields ==
    ASSUME NEW d, NEW n \in Nat, NEW m \in Orders(d, n), NEW o \in Orders(d, n),
           NEW p \in Int, d \/ p \in Nat
    PROVE  LET q == Smaller(m.quantity, o.quantity)
               x == ClosedOther(m, o, p)
               y == ClosedMine(m, o)
           IN  /\ q \in Int /\ (d \/ q \in Nat) /\ q <= m.quantity /\ q <= o.quantity
               /\ x \in Orders(d, n) /\ x.user = o.user /\ x.quantity = q /\ x.price = p
               /\ x.type = o.type /\ x.closed /\ x.pair = o.pair
               /\ y \in Orders(d, n) /\ y.user = m.user /\ y.quantity = q /\ y.price = m.price
               /\ y.type = m.type /\ y.closed /\ y.pair = m.pair
<1> DEFINE q == Smaller(m.quantity, o.quantity)
<1>1. q \in Int /\ (d \/ q \in Nat) /\ q <= m.quantity /\ q <= o.quantity
  BY OrderFields DEF Smaller
<1> HIDE DEF q
<1>2. ClosedOther(m, o, p) = [Part(o, q) EXCEPT !.closed = TRUE, !.price = p]
  BY DEF ClosedOther, q
<1>3. ClosedMine(m, o) = [Part(m, q) EXCEPT !.closed = TRUE]
  BY DEF ClosedMine, q
<1>4. /\ ClosedOther(m, o, p) \in Orders(d, n)
      /\ ClosedOther(m, o, p).user = o.user /\ ClosedOther(m, o, p).quantity = q
      /\ ClosedOther(m, o, p).price = p /\ ClosedOther(m, o, p).type = o.type
      /\ ClosedOther(m, o, p).closed /\ ClosedOther(m, o, p).pair = o.pair
  <2> DEFINE x == Part(o, q)
  <2>1. x \in Orders(d, n) /\ x.quantity = q /\ x.user = o.user /\ x.type = o.type
        /\ x.pair = o.pair
    BY <1>1, PartFields
  <2> HIDE DEF x
  <2> DEFINE y == [x EXCEPT !.closed = TRUE, !.price = p]
  <2>2. /\ y.user = x.user /\ y.quantity = x.quantity /\ y.price = p /\ y.type = x.type
        /\ y.closed /\ y.pair = x.pair
        /\ y \in [id : Nat, user : 1..n, pair : BOOLEAN, quantity : Int, price : Int,
                  type : Types, closed : BOOLEAN]
    BY <2>1 DEF Orders
  <2>3. d \/ x.pair
    BY <2>1 DEF Orders, Plain
  <2> HIDE DEF y
  <2>4. y \in Orders(d, n)
    BY <1>1, <2>1, <2>2, <2>3 DEF Orders, Plain
  <2> QED
    BY <1>2, <2>1, <2>2, <2>4 DEF x, y
<1>5. /\ ClosedMine(m, o) \in Orders(d, n)
      /\ ClosedMine(m, o).user = m.user /\ ClosedMine(m, o).quantity = q
      /\ ClosedMine(m, o).price = m.price /\ ClosedMine(m, o).type = m.type
      /\ ClosedMine(m, o).closed /\ ClosedMine(m, o).pair = m.pair
  <2>1. Part(m, q) \in Orders(d, n) /\ Part(m, q).quantity = q
        /\ Part(m, q).user = m.user /\ Part(m, q).type = m.type /\ Part(m, q).pair = m.pair
        /\ Part(m, q).price = m.price
    BY <1>1, PartFields
  <2> QED
    BY <1>3, <2>1 DEF Orders, Plain
<1> QED
  BY <1>1, <1>4, <1>5 DEF q

\* Lists of one and of two tasks.
LEMMA ShortLists ==
    ASSUME NEW T, NEW a \in T, NEW c \in T
    PROVE  /\ <<>> \in Seq(T) /\ Len(<<>>) = 0
           /\ <<a>> \in Seq(T) /\ Len(<<a>>) = 1 /\ <<a>>[1] = a
           /\ <<a, c>> \in Seq(T) /\ Len(<<a, c>>) = 2 /\ <<a, c>>[1] = a /\ <<a, c>>[2] = c
           /\ <<a, c>> = <<a>> \o <<c>>
<1>1. /\ <<>> \in Seq(T) /\ Len(<<>>) = 0
      /\ <<a>> \in Seq(T) /\ Len(<<a>>) = 1 /\ <<a>>[1] = a
      /\ <<c>> \in Seq(T) /\ Len(<<c>>) = 1 /\ <<c>>[1] = c
      /\ <<a, c>> \in Seq(T) /\ Len(<<a, c>>) = 2 /\ <<a, c>>[1] = a /\ <<a, c>>[2] = c
  OBVIOUS
<1> DEFINE s == <<a>>
           t == <<c>>
<1>2. s \in Seq(T) /\ t \in Seq(T) /\ Len(s) = 1 /\ Len(t) = 1 /\ s[1] = a /\ t[1] = c
  BY <1>1
<1> HIDE DEF s, t
<1>3. s \o t \in Seq(T) /\ Len(s \o t) = 2 /\ (s \o t)[1] = a /\ (s \o t)[2] = c
  <2>1. /\ s \o t \in Seq(T) /\ Len(s \o t) = Len(s) + Len(t)
        /\ \A i \in 1..(Len(s) + Len(t)) :
              (s \o t)[i] = IF i <= Len(s) THEN s[i] ELSE t[i - Len(s)]
    BY <1>2, ConcatProperties
  <2> QED
    BY <1>2, <2>1
<1>4. \A i \in 1..2 : i = 1 \/ i = 2
  OBVIOUS
<1>5. <<a, c>> = s \o t
  <2> DEFINE u == <<a, c>>
             v == s \o t
  <2>1. u \in Seq(T) /\ Len(u) = 2 /\ u[1] = a /\ u[2] = c
    BY <1>1
  <2>2. v \in Seq(T) /\ Len(v) = 2 /\ v[1] = a /\ v[2] = c
    BY <1>3
  <2> HIDE DEF u, v
  <2>3. \A i \in 1..Len(u) : u[i] = v[i]
    BY <1>4, <2>1, <2>2
  <2>4. u = v
    BY <2>1, <2>2, <2>3, SeqEqual
  <2> QED
    BY <2>4 DEF u, v
<1> QED
  BY <1>1, <1>5 DEF s, t

\* A change of balance is an operation.
LEMMA ChangeIsOp ==
    ASSUME NEW d, NEW n \in Nat, NEW u \in 1..n, NEW l \in LotsOf(d), NEW s \in Int
    PROVE  /\ Change(u, l, s) \in Ops(d, n) /\ Change(u, l, s).do = "change"
           /\ Change(u, l, s).user = u /\ Change(u, l, s).lot = l /\ Change(u, l, s).sum = s
BY DEF Change, Ops

\* create_order expands into operations: the row, the withdrawal.
LEMMA CreateOrderOps ==
    ASSUME NEW d, NEW n \in Nat, NEW o \in Orders(d, n)
    PROVE  /\ CreateOrder(o) \in Seq(Ops(d, n))
           /\ [do |-> "add_order", order |-> o] \in Ops(d, n)
           /\ Change(o.user, LockLot(o), -Locked(o)) \in Ops(d, n)
           /\ CreateOrder(o) = <<[do |-> "add_order", order |-> o]>>
                                  \o <<Change(o.user, LockLot(o), -Locked(o))>>
<1>1. [do |-> "add_order", order |-> o] \in Ops(d, n)
  BY DEF Ops
<1>2. -Locked(o) \in Int /\ o.user \in 1..n /\ LockLot(o) \in LotsOf(d)
  BY OrderFields
<1>3. Change(o.user, LockLot(o), -Locked(o)) \in Ops(d, n)
  BY <1>2, ChangeIsOp
<1> QED
  BY <1>1, <1>3, ShortLists DEF CreateOrder

\* closed_order expands into operations: the payment, then create_order.
LEMMA ClosedOrderOps ==
    ASSUME NEW d, NEW n \in Nat, NEW o \in Orders(d, n)
    PROVE  /\ ClosedOrder(o) \in Seq(Ops(d, n)) /\ Change(o.user, GainLot(o), Gain(o)) \in Ops(d, n)
           /\ ClosedOrder(o) = <<Change(o.user, GainLot(o), Gain(o))>> \o CreateOrder(o)
<1>1. Gain(o) \in Int /\ o.user \in 1..n /\ GainLot(o) \in LotsOf(d)
  BY OrderFields
<1>2. Change(o.user, GainLot(o), Gain(o)) \in Ops(d, n)
  BY <1>1, ChangeIsOp
<1>3. <<Change(o.user, GainLot(o), Gain(o))>> \in Seq(Ops(d, n))
  BY <1>2, ShortLists
<1>4. CreateOrder(o) \in Seq(Ops(d, n))
  BY CreateOrderOps
<1> QED
  BY <1>2, <1>3, <1>4 DEF ClosedOrder

\* delete_order expands into operations: the refund, the row.
LEMMA DeleteOrderOps ==
    ASSUME NEW d, NEW n \in Nat, NEW o \in Orders(d, n)
    PROVE  /\ DeleteOrder(o) \in Seq(Ops(d, n)) /\ Change(o.user, LockLot(o), Locked(o)) \in Ops(d, n)
           /\ [do |-> "del_order", id |-> o.id] \in Ops(d, n)
           /\ DeleteOrder(o) = <<Change(o.user, LockLot(o), Locked(o))>>
                                  \o <<[do |-> "del_order", id |-> o.id]>>
<1>1. Locked(o) \in Int /\ o.user \in 1..n /\ LockLot(o) \in LotsOf(d) /\ o.id \in Nat
  BY OrderFields
<1>2. Change(o.user, LockLot(o), Locked(o)) \in Ops(d, n)
  BY <1>1, ChangeIsOp
<1>3. [do |-> "del_order", id |-> o.id] \in Ops(d, n)
  BY <1>1 DEF Ops
<1> QED
  BY <1>2, <1>3, ShortLists DEF DeleteOrder

\* What is left of the other order is an order, if something is.
LEMMA RestOps ==
    ASSUME NEW d, NEW n \in Nat, NEW m \in Orders(d, n), NEW o \in Orders(d, n)
    PROVE  /\ Rest(m, o) \in Seq(Ops(d, n))
           /\ o.quantity > m.quantity => /\ o.quantity - m.quantity \in Nat \ {0}
                                        /\ Part(o, o.quantity - m.quantity) \in Orders(d, n)
<1>1. CASE o.quantity > m.quantity
  <2>1. o.quantity - m.quantity \in Nat \ {0}
    BY <1>1, OrderFields
  <2>2. Part(o, o.quantity - m.quantity) \in Orders(d, n)
    BY <2>1, PartFields
  <2> QED
    BY <1>1, <2>1, <2>2, CreateOrderOps DEF Rest
<1>2. CASE ~(o.quantity > m.quantity)
  <2>1. Rest(m, o) = <<>>
    BY <1>2 DEF Rest
  <2> QED
    BY <1>2, <2>1
<1> QED
  BY <1>1, <1>2

\* deal expands into operations: four calls, one after the other.
LEMMA DealOps ==
    ASSUME NEW d, NEW n \in Nat, NEW m \in Orders(d, n), NEW o \in Orders(d, n)
    PROVE  /\ Deal(m, o) \in Seq(Ops(d, n))
           /\ Deal(m, o) = ((DeleteOrder(o) \o ClosedOrder(ClosedOther(m, o, m.price)))
                               \o ClosedOrder(ClosedMine(m, o))) \o Rest(m, o)
<1> DEFINE z == DeleteOrder(o)
           x == ClosedOrder(ClosedOther(m, o, m.price))
           y == ClosedOrder(ClosedMine(m, o))
           r == Rest(m, o)
<1>1. z \in Seq(Ops(d, n)) /\ r \in Seq(Ops(d, n))
  BY DeleteOrderOps, RestOps
<1>2. ClosedOther(m, o, m.price) \in Orders(d, n) /\ ClosedMine(m, o) \in Orders(d, n)
  BY ClosedFields, OrderFields
<1>3. x \in Seq(Ops(d, n)) /\ y \in Seq(Ops(d, n))
  BY <1>2, ClosedOrderOps
<1>4. Closing(m, o, m.price) = x \o y
  BY DEF Closing, ClosedOther, ClosedMine
<1>5. Deal(m, o) = z \o (x \o y) \o r
  BY <1>4 DEF Deal
<1> HIDE DEF z, x, y, r
<1>6. z \o (x \o y) \o r = ((z \o x) \o y) \o r /\ z \o (x \o y) \o r \in Seq(Ops(d, n))
  BY <1>1, <1>3
<1> QED
  BY <1>5, <1>6 DEF z, x, y, r

-----------------------------------------------------------------------------
(* The types, whatever the connections do to each other.                   *)

Data ==
    /\ TypeOK /\ lotPk \in Nat /\ orderPk \in Nat
    /\ IsFiniteSet(userLots) /\ IsFiniteSet(orders) /\ IsFiniteSet(undone)
    /\ \A p \in undone : p \in Order /\ p.id <= orderPk /\ p.closed
    /\ DOMAIN todo = Threads /\ DOMAIN my = Threads

TypeInv ==
    Data /\ \A th \in Threads : \E f, b : Plan(todo[th], f, b, my[th], odd, Len(users))

\* The number of users is a number, and the orders of the table are orders.
LEMMA UsersLength == ASSUME Data PROVE Len(users) \in Nat /\ Order = Orders(odd, Len(users))
<1>1. users \in Seq(Names)
  BY DEF Data, TypeOK
<1>2. Len(users) \in Nat
  BY <1>1
<1> QED
  BY <1>2 DEF Order, Orders

\* The thread's next task is an operation.
LEMMA FrontTask ==
    ASSUME Data, NEW th \in Threads, NEW f, NEW b,
           Plan(todo[th], f, b, my[th], odd, Len(users)), NEW kind \in OpKinds, Doing(th, kind)
    PROVE  /\ f # <<>> /\ Head(f) \in Ops(odd, Len(users)) /\ Head(f) = Task(th)
           /\ Head(f).do = kind /\ Tail(f) \in Seq(Ops(odd, Len(users))) /\ Len(users) \in Nat
           /\ th \in Sema!Writers /\ f \in Seq(Ops(odd, Len(users)))
<1>1. todo[th] # <<>> /\ Head(todo[th]).do = kind /\ Task(th) = Head(todo[th])
  BY DEF Doing, Task
<1>2. Len(users) \in Nat
  BY UsersLength
<1>3. <<>> \in Seq(Ops(odd, Len(users)))
  OBVIOUS
<1>4. /\ f # <<>> /\ Head(f) = Head(todo[th]) /\ Head(f) \in Ops(odd, Len(users))
      /\ Tail(f) \in Seq(Ops(odd, Len(users)))
  BY <1>1, <1>2, <1>3, FrontStep
<1> QED
  BY <1>1, <1>2, <1>4 DEF Doing, Plan

\* It is replaced by what it expands into.
LEMMA FrontReturns ==
    ASSUME Data, NEW th \in Threads, NEW f, NEW b,
           Plan(todo[th], f, b, my[th], odd, Len(users)), NEW kind \in OpKinds, Doing(th, kind),
           NEW calls \in Seq(Ops(odd, Len(users))), Returns(th, calls)
    PROVE  /\ Plan(todo'[th], calls \o Tail(f), b, my[th], odd, Len(users))
           /\ DOMAIN todo' = Threads /\ \A o \in Threads \ {th} : todo'[o] = todo[o]
           /\ failed' = failed
<1>1. todo[th] # <<>> /\ Head(todo[th]).do \in OpKinds
  BY DEF Doing, Task
<1>2. Len(users) \in Nat
  BY UsersLength
<1>3. Plan(calls \o Tail(todo[th]), calls \o Tail(f), b, my[th], odd, Len(users))
  BY <1>1, <1>2, FrontStep
<1>4. /\ todo'[th] = calls \o Tail(todo[th]) /\ DOMAIN todo' = Threads
      /\ \A o \in Threads \ {th} : todo'[o] = todo[o]
  BY DEF Returns, Data
<1> QED
  BY <1>3, <1>4 DEF Returns

\* It is done, and expands into nothing.
LEMMA FrontDone ==
    ASSUME Data, NEW th \in Threads, NEW f, NEW b,
           Plan(todo[th], f, b, my[th], odd, Len(users)), NEW kind \in OpKinds, Doing(th, kind),
           Returns(th, <<>>)
    PROVE  /\ Plan(todo'[th], Tail(f), b, my[th], odd, Len(users))
           /\ DOMAIN todo' = Threads /\ \A o \in Threads \ {th} : todo'[o] = todo[o]
           /\ failed' = failed
<1>1. <<>> \in Seq(Ops(odd, Len(users)))
  OBVIOUS
<1>2. /\ Plan(todo'[th], <<>> \o Tail(f), b, my[th], odd, Len(users))
      /\ DOMAIN todo' = Threads /\ \A o \in Threads \ {th} : todo'[o] = todo[o]
      /\ failed' = failed
  BY <1>1, FrontReturns
<1>3. Tail(f) \in Seq(Ops(odd, Len(users)))
  BY FrontTask
<1>4. <<>> \o Tail(f) = Tail(f)
  BY <1>3
<1> QED
  BY <1>2, <1>4

\* The thread's next task is a decision.
LEMMA BackTask ==
    ASSUME Data, NEW th \in Threads, NEW f, NEW b,
           Plan(todo[th], f, b, my[th], odd, Len(users)), NEW kind, kind \notin OpKinds,
           Doing(th, kind)
    PROVE  /\ f = <<>> /\ b = todo[th] /\ b # <<>> /\ b \in Seq(Waits(odd, Len(users)))
           /\ Ends(b, my[th], odd, Len(users)) /\ b[1] = Task(th) /\ b[1] \in Waits(odd, Len(users))
           /\ b[1].do = kind /\ 1 \in 1..Len(b) /\ Len(users) \in Nat /\ th \in Sema!Writers
<1>1. todo[th] # <<>> /\ Head(todo[th]).do = kind /\ Task(th) = Head(todo[th])
  BY DEF Doing, Task
<1>2. Len(users) \in Nat /\ Head(todo[th]).do \notin OpKinds
  BY <1>1, UsersLength
<1>3. /\ f = <<>> /\ b = todo[th] /\ b \in Seq(Waits(odd, Len(users)))
      /\ Ends(b, my[th], odd, Len(users)) /\ Head(b) \in Waits(odd, Len(users)) /\ Head(b) = b[1]
      /\ 1 \in 1..Len(b)
  BY <1>1, <1>2, BackStep
<1> QED
  BY <1>1, <1>2, <1>3 DEF Doing

\* It is replaced by operations, which go before the other decisions.
LEMMA BackReturns ==
    ASSUME Data, NEW th \in Threads, NEW f, NEW b,
           Plan(todo[th], f, b, my[th], odd, Len(users)), NEW kind, kind \notin OpKinds,
           Doing(th, kind), NEW calls, Returns(th, calls), NEW n \in Nat, Len(users) <= n,
           calls \in Seq(Ops(odd, n))
    PROVE  /\ Plan(todo'[th], calls, Tail(b), my[th], odd, n)
           /\ DOMAIN todo' = Threads /\ \A o \in Threads \ {th} : todo'[o] = todo[o]
           /\ failed' = failed
<1>1. /\ b = todo[th] /\ b # <<>> /\ b \in Seq(Waits(odd, Len(users)))
      /\ Ends(b, my[th], odd, Len(users)) /\ Len(users) \in Nat /\ f = <<>>
  BY BackTask
<1>2. Plan(b, f, b, my[th], odd, n)
  BY <1>1, PlanWithMoreUsers
<1>3. b \in Seq(Waits(odd, n)) /\ Ends(b, my[th], odd, n)
  BY <1>2 DEF Plan
<1>4. Tail(b) \in Seq(Waits(odd, n)) /\ Ends(Tail(b), my[th], odd, n)
  BY <1>1, <1>3, EndsOfTail, TailOfBack
<1>5. Plan(calls \o Tail(b), calls, Tail(b), my[th], odd, n)
  BY <1>4, BackPlan
<1>6. /\ todo'[th] = calls \o Tail(todo[th]) /\ DOMAIN todo' = Threads
      /\ \A o \in Threads \ {th} : todo'[o] = todo[o]
  BY DEF Returns, Data
<1> QED
  BY <1>1, <1>5, <1>6 DEF Returns

\* The call throws: nothing is left to do.
LEMMA ThrowPlan ==
    ASSUME Data, NEW th \in Threads, Throws(th)
    PROVE  /\ todo'[th] = <<>> /\ Plan(todo'[th], <<>>, <<>>, my[th], odd, Len(users))
           /\ DOMAIN todo' = Threads /\ \A o \in Threads \ {th} : todo'[o] = todo[o]
           /\ failed' = failed \cup {th}
<1>1. /\ todo'[th] = <<>> /\ DOMAIN todo' = Threads
      /\ \A o \in Threads \ {th} : todo'[o] = todo[o] /\ failed' = failed \cup {th}
  BY DEF Throws, Data
<1>2. Plan(<<>>, <<>>, <<>>, my[th], odd, Len(users))
  BY UsersLength, NothingPlanned
<1> QED
  BY <1>1, <1>2 DEF Throws

-----------------------------------------------------------------------------
(* One action at a time: the data, and what the thread has left to do.     *)

\* Steps that change no table keep the data.
LEMMA SameData ==
    ASSUME Data, UNCHANGED db, DOMAIN todo' = Threads, DOMAIN my' = Threads,
           UNCHANGED undone, failed' \subseteq Threads, refused' \in BOOLEAN,
           odd => odd', odd' \in BOOLEAN
    PROVE  Data'
<1>1. UNCHANGED <<users, userLots, lotPk, orders, orderPk>>
  BY DEF db
<1>2. Order \subseteq Order'
  BY <1>1 DEF Order, Plain
<1> QED
  BY <1>1, <1>2 DEF Data, TypeOK

\* check_repeat_username returns, or throws before anything was done.
LEMMA CheckNamePlan ==
    ASSUME Data, NEW th \in Threads, NEW f, NEW b,
           Plan(todo[th], f, b, my[th], odd, Len(users)), CheckName(th)
    PROVE  /\ Data' /\ UNCHANGED <<db, undone, odd, refused, my, sem>> /\ f = <<>>
           /\ \A o \in Threads \ {th} : todo'[o] = todo[o]
           /\ \/ Plan(todo'[th], <<>>, Tail(b), my[th], odd, Len(users)) /\ failed' = failed
              \/ /\ Plan(todo'[th], <<>>, <<>>, my[th], odd, Len(users)) /\ my[th] = NoOrder
                 /\ failed' = failed \cup {th} /\ todo'[th] = <<>>
           /\ b # <<>> /\ b \in Seq(Waits(odd, Len(users))) /\ th \in Sema!Writers
           /\ Ends(b, my[th], odd, Len(users)) /\ b[1].do = "check_name"
<1>1. Doing(th, "check_name") /\ UNCHANGED <<db, my, undone, odd, refused, sem>>
  BY DEF CheckName, history
<1>2. "check_name" \notin OpKinds
  BY DEF OpKinds
<1>3. /\ f = <<>> /\ b = todo[th] /\ b # <<>> /\ b \in Seq(Waits(odd, Len(users)))
      /\ Ends(b, my[th], odd, Len(users)) /\ b[1].do = "check_name" /\ 1 \in 1..Len(b)
      /\ Len(users) \in Nat /\ th \in Sema!Writers
  BY <1>1, <1>2, BackTask
<1>4. CASE Returns(th, <<>>)
  <2>1. <<>> \in Seq(Ops(odd, Len(users))) /\ Len(users) <= Len(users)
    BY <1>3
  <2>2. /\ Plan(todo'[th], <<>>, Tail(b), my[th], odd, Len(users))
        /\ DOMAIN todo' = Threads /\ \A o \in Threads \ {th} : todo'[o] = todo[o]
        /\ failed' = failed
    BY <1>1, <1>2, <1>3, <1>4, <2>1, BackReturns
  <2>3. Data'
    BY <1>1, <2>2, SameData DEF Data, TypeOK
  <2> QED
    BY <1>1, <1>3, <2>2, <2>3
<1>5. CASE Throws(th)
  <2>1. /\ todo'[th] = <<>> /\ Plan(todo'[th], <<>>, <<>>, my[th], odd, Len(users))
        /\ DOMAIN todo' = Threads /\ \A o \in Threads \ {th} : todo'[o] = todo[o]
        /\ failed' = failed \cup {th}
    BY <1>5, ThrowPlan
  <2>2. Data'
    BY <1>1, <2>1, SameData DEF Data, TypeOK
  <2>3. my[th] = NoOrder
    BY <1>3 DEF Ends
  <2> QED
    BY <1>1, <1>3, <2>1, <2>2, <2>3
<1> QED
  BY <1>4, <1>5 DEF CheckName

\* The two halves of a change, and the rows of a new user.
Removes(r)    == [do |-> "del_row", pk |-> r.pk]
Adds(u, l, q) == [do |-> "add_row", user |-> u, lot |-> l, quantity |-> q]
NewRow(u, l)  == Adds(u, l, DefaultQuantity)

\* A new user: its two rows are the next operations.
LEMMA AddUserPlan ==
    ASSUME Data, NEW th \in Threads, NEW f, NEW b,
           Plan(todo[th], f, b, my[th], odd, Len(users)), AddUser(th)
    PROVE  /\ Data' /\ Len(users') = Len(users) + 1 /\ f = <<>> /\ failed' = failed
           /\ UNCHANGED <<userLots, lotPk, orders, orderPk, undone, odd, refused, my, sem>>
           /\ \A o \in Threads \ {th} : todo'[o] = todo[o]
           /\ Plan(todo'[th], <<NewRow(Len(users'), First), NewRow(Len(users'), Second)>>,
                   Tail(b), my[th], odd', Len(users'))
           /\ b # <<>> /\ b \in Seq(Waits(odd, Len(users))) /\ th \in Sema!Writers
           /\ Ends(b, my[th], odd, Len(users)) /\ b[1].do = "add_user"
<1> DEFINE n == Len(users) + 1
           rows == <<NewRow(n, First), NewRow(n, Second)>>
<1>1. /\ Doing(th, "add_user") /\ UNCHANGED <<userLots, lotPk, orders, orderPk, my, undone, odd, refused, sem>>
      /\ users' = Append(users, Task(th).name)
  BY DEF AddUser, history
<1>2. "add_user" \notin OpKinds
  BY DEF OpKinds
<1>3. /\ f = <<>> /\ b = todo[th] /\ b # <<>> /\ b \in Seq(Waits(odd, Len(users)))
      /\ b[1] = Task(th) /\ b[1] \in Waits(odd, Len(users))
      /\ Ends(b, my[th], odd, Len(users)) /\ b[1].do = "add_user" /\ 1 \in 1..Len(b)
      /\ Len(users) \in Nat /\ th \in Sema!Writers
  BY <1>1, <1>2, BackTask
<1>4. Task(th).name \in Names
  BY <1>3, WaitsAreWaits
<1>5. users' \in Seq(Names) /\ Len(users') = n /\ n \in Nat /\ Len(users) <= n
  BY <1>1, <1>3, <1>4 DEF Data, TypeOK
<1>6. Returns(th, rows)
  <2>1. Returns(th, [l \in 1..2 |-> [do |-> "add_row", user |-> Len(users'), lot |-> l,
                                    quantity |-> DefaultQuantity]])
    BY DEF AddUser, history
  <2>2. [l \in 1..2 |-> [do |-> "add_row", user |-> Len(users'), lot |-> l,
                         quantity |-> DefaultQuantity]] = rows
    BY <1>5 DEF NewRow, Adds, First, Second
  <2> QED
    BY <2>1, <2>2
<1>7. NewRow(n, First) \in Ops(odd, n) /\ NewRow(n, Second) \in Ops(odd, n)
  <2>1. n \in 1..n /\ DefaultQuantity \in Nat
    BY <1>5, AmountsAreNumbers
  <2> HIDE DEF n
  <2> QED
    BY <2>1 DEF NewRow, Adds, Ops, Lots
<1>8. rows \in Seq(Ops(odd, n))
  BY <1>7, ShortLists
<1> HIDE DEF n, rows
<1>9. /\ Plan(todo'[th], rows, Tail(b), my[th], odd, n)
      /\ DOMAIN todo' = Threads /\ \A o \in Threads \ {th} : todo'[o] = todo[o]
      /\ failed' = failed
  BY <1>1, <1>2, <1>5, <1>6, <1>8, BackReturns
<1>10. Data'
  <2>1. Order \subseteq Order'
    <3>1. Order = Orders(odd, Len(users)) /\ Order' = Orders(odd, Len(users'))
      BY <1>1 DEF Order, Orders
    <3>2. Len(users') \in Nat /\ Len(users) <= Len(users')
      BY <1>5
    <3> QED
      BY <1>3, <3>1, <3>2, MoreUsers
  <2>2. 1..Len(users) \subseteq 1..Len(users')
    BY <1>3, <1>5
  <2>3. \A r \in userLots' :
           r \in [pk : 1..lotPk', user : 1..Len(users'), lot : Lots, quantity : Nat]
    BY <1>1, <2>2 DEF Data, TypeOK
  <2>4. TypeOK'
    BY <1>1, <1>5, <1>9, <2>1, <2>3 DEF Data, TypeOK
  <2> QED
    BY <1>1, <1>9, <2>1, <2>4 DEF Data
<1> QED
  BY <1>1, <1>3, <1>5, <1>9, <1>10 DEF rows, n

\* change_balance finds the row and computes the new quantity, or throws.
LEMMA ChangePlan ==
    ASSUME Data, NEW th \in Threads, NEW f, NEW b,
           Plan(todo[th], f, b, my[th], odd, Len(users)), ChangeBalance(th)
    PROVE  /\ Data' /\ UNCHANGED <<db, undone, odd, my, sem>>
           /\ \A o \in Threads \ {th} : todo'[o] = todo[o]
           /\ f # <<>> /\ f \in Seq(Ops(odd, Len(users))) /\ Head(f) \in Ops(odd, Len(users))
           /\ Head(f).do = "change" /\ th \in Sema!Writers
           /\ \/ \E r \in userLots :
                    /\ BalanceRows(Head(f).user, Head(f).lot) = {r} /\ Head(f).lot \in Lots
                    /\ r.pk \in Nat /\ r.quantity \in Nat /\ r.quantity + Head(f).sum \in Nat
                    /\ failed' = failed /\ refused' = refused
                    /\ Plan(todo'[th],
                            <<Removes(r), Adds(Head(f).user, Head(f).lot,
                                               r.quantity + Head(f).sum)>> \o Tail(f),
                            b, my[th], odd, Len(users))
              \/ /\ Plan(todo'[th], <<>>, <<>>, my[th], odd, Len(users)) /\ todo'[th] = <<>>
                 /\ failed' = failed \cup {th} /\ refused' = TRUE
                 /\ \/ Cardinality(BalanceRows(Head(f).user, Head(f).lot)) # 1
                    \/ \E r \in BalanceRows(Head(f).user, Head(f).lot) :
                          Head(f).sum <= 0 /\ -Head(f).sum > r.quantity
<1> DEFINE t == Task(th)
           n == Len(users)
<1>1. Doing(th, "change") /\ UNCHANGED <<db, my, undone, odd, sem>>
  BY DEF ChangeBalance
<1>2. "change" \in OpKinds
  BY DEF OpKinds
<1>3. /\ f # <<>> /\ Head(f) = t /\ t \in Ops(odd, n) /\ t.do = "change"
      /\ Tail(f) \in Seq(Ops(odd, n)) /\ n \in Nat /\ th \in Sema!Writers /\ f \in Seq(Ops(odd, n))
  BY <1>1, <1>2, FrontTask
<1>4. t.user \in 1..n /\ t.sum \in Int
  BY <1>3, OpsAreOps
<1>5. ASSUME NEW r \in BalanceRows(t.user, t.lot), BalanceRows(t.user, t.lot) = {r},
             Covers(r, t.sum),
             Returns(th, <<[do |-> "del_row", pk |-> r.pk],
                           [do |-> "add_row", user |-> t.user, lot |-> t.lot,
                            quantity |-> r.quantity + t.sum]>>),
             UNCHANGED refused
      PROVE  /\ Data' /\ t.lot \in Lots /\ \A o \in Threads \ {th} : todo'[o] = todo[o]
             /\ r \in userLots /\ r.pk \in Nat /\ r.quantity \in Nat /\ r.quantity + t.sum \in Nat
             /\ failed' = failed
             /\ Plan(todo'[th], <<Removes(r), Adds(t.user, t.lot, r.quantity + t.sum)>> \o Tail(f),
                     b, my[th], odd, n)
  <2>1. /\ r \in userLots /\ r.quantity \in Nat /\ r.pk \in 1..lotPk /\ lotPk \in Nat
        /\ t.lot \in Lots
    BY DEF BalanceRows, Data, TypeOK
  <2>2. r.quantity + t.sum \in Nat /\ r.pk \in Nat
    BY <1>4, <1>5, <2>1 DEF Covers
  <2> DEFINE q == r.quantity + t.sum
  <2> HIDE DEF q, t
  <2>3. Removes(r) \in Ops(odd, n) /\ Adds(t.user, t.lot, q) \in Ops(odd, n)
    BY <1>4, <2>1, <2>2 DEF Removes, Adds, Ops, q
  <2>4. <<Removes(r), Adds(t.user, t.lot, q)>> \in Seq(Ops(odd, n))
    BY <2>3, ShortLists
  <2>5. Returns(th, <<Removes(r), Adds(t.user, t.lot, q)>>)
    BY <1>5 DEF Removes, Adds, q
  <2>6. /\ Plan(todo'[th], <<Removes(r), Adds(t.user, t.lot, q)>> \o Tail(f), b, my[th], odd, n)
        /\ DOMAIN todo' = Threads /\ \A o \in Threads \ {th} : todo'[o] = todo[o]
        /\ failed' = failed
    BY <1>1, <1>2, <2>4, <2>5, FrontReturns
  <2>7. Data'
    BY <1>1, <1>5, <2>6, SameData DEF Data, TypeOK
  <2> QED
    BY <2>1, <2>2, <2>6, <2>7 DEF q
<1>6. ASSUME Throws(th), refused' = TRUE
      PROVE  /\ Data' /\ \A o \in Threads \ {th} : todo'[o] = todo[o]
             /\ Plan(todo'[th], <<>>, <<>>, my[th], odd, n) /\ todo'[th] = <<>>
             /\ failed' = failed \cup {th}
  <2>1. /\ todo'[th] = <<>> /\ Plan(todo'[th], <<>>, <<>>, my[th], odd, n)
        /\ DOMAIN todo' = Threads /\ \A o \in Threads \ {th} : todo'[o] = todo[o]
        /\ failed' = failed \cup {th}
    BY <1>6, ThrowPlan
  <2>2. Data'
    BY <1>1, <1>6, <2>1, SameData DEF Data, TypeOK
  <2> QED
    BY <2>1, <2>2
<1>7. \/ \E r \in BalanceRows(t.user, t.lot) :
            /\ BalanceRows(t.user, t.lot) = {r}
            /\ Covers(r, t.sum)
            /\ Returns(th, <<[do |-> "del_row", pk |-> r.pk],
                             [do |-> "add_row", user |-> t.user, lot |-> t.lot,
                              quantity |-> r.quantity + t.sum]>>)
            /\ UNCHANGED refused
      \/ /\ \/ Cardinality(BalanceRows(t.user, t.lot)) # 1
            \/ \E r \in BalanceRows(t.user, t.lot) : ~Covers(r, t.sum)
         /\ Throws(th) /\ refused' = TRUE
  BY DEF ChangeBalance
<1>8. ASSUME NEW r \in BalanceRows(t.user, t.lot), ~Covers(r, t.sum)
      PROVE  t.sum <= 0 /\ -t.sum > r.quantity
  <2>1. r.quantity \in Nat
    BY DEF BalanceRows, Data, TypeOK
  <2> QED
    BY <1>4, <1>8, <2>1 DEF Covers
<1> HIDE DEF t, n
<1> QED
  BY <1>1, <1>3, <1>5, <1>6, <1>7, <1>8 DEF n

\* A balance row is removed.
LEMMA DelRowPlan ==
    ASSUME Data, NEW th \in Threads, NEW f, NEW b,
           Plan(todo[th], f, b, my[th], odd, Len(users)), DelRow(th)
    PROVE  /\ Data' /\ UNCHANGED <<users, lotPk, orders, orderPk, undone, odd, refused, my, sem>>
           /\ \A o \in Threads \ {th} : todo'[o] = todo[o]
           /\ failed' = failed /\ Plan(todo'[th], Tail(f), b, my[th], odd, Len(users))
           /\ f # <<>> /\ f \in Seq(Ops(odd, Len(users))) /\ Head(f) \in Ops(odd, Len(users))
           /\ Head(f).do = "del_row" /\ th \in Sema!Writers
           /\ userLots' = {r \in userLots : r.pk # Head(f).pk}
<1>1. /\ Doing(th, "del_row") /\ UNCHANGED <<users, lotPk, orders, orderPk, my, undone, odd, refused, sem>>
      /\ userLots' = {r \in userLots : r.pk # Task(th).pk} /\ Returns(th, <<>>)
  BY DEF DelRow, history
<1>2. "del_row" \in OpKinds
  BY DEF OpKinds
<1>3. /\ f # <<>> /\ Head(f) = Task(th) /\ Head(f) \in Ops(odd, Len(users)) /\ Head(f).do = "del_row"
      /\ th \in Sema!Writers /\ f \in Seq(Ops(odd, Len(users)))
  BY <1>1, <1>2, FrontTask
<1>4. /\ Plan(todo'[th], Tail(f), b, my[th], odd, Len(users))
      /\ DOMAIN todo' = Threads /\ \A o \in Threads \ {th} : todo'[o] = todo[o]
      /\ failed' = failed
  BY <1>1, <1>2, FrontDone
<1>5. Data'
  <2>1. IsFiniteSet(userLots')
    BY <1>1, FS_Subset DEF Data
  <2>2. TypeOK'
    BY <1>1, <1>4 DEF Data, TypeOK, Order
  <2> QED
    BY <1>1, <1>4, <2>1, <2>2 DEF Data, Order
<1> QED
  BY <1>1, <1>3, <1>4, <1>5

\* The row that add_row writes.
Row(pk, t) == [pk |-> pk, user |-> t.user, lot |-> t.lot, quantity |-> t.quantity]

\* A balance row is added under a new key.
LEMMA AddRowPlan ==
    ASSUME Data, NEW th \in Threads, NEW f, NEW b,
           Plan(todo[th], f, b, my[th], odd, Len(users)), AddRow(th)
    PROVE  /\ Data' /\ UNCHANGED <<users, orders, orderPk, undone, odd, refused, my, sem>>
           /\ \A o \in Threads \ {th} : todo'[o] = todo[o]
           /\ failed' = failed /\ Plan(todo'[th], Tail(f), b, my[th], odd, Len(users))
           /\ f # <<>> /\ f \in Seq(Ops(odd, Len(users))) /\ Head(f) \in Ops(odd, Len(users))
           /\ Head(f).do = "add_row" /\ th \in Sema!Writers
           /\ lotPk' = lotPk + 1 /\ userLots' = userLots \cup {Row(lotPk', Head(f))}
           /\ Row(lotPk', Head(f)) \notin userLots
<1> DEFINE t == Task(th)
           new == Row(lotPk', t)
<1>1. /\ Doing(th, "add_row") /\ UNCHANGED <<users, orders, orderPk, my, undone, odd, refused, sem>>
      /\ lotPk' = lotPk + 1 /\ userLots' = userLots \cup {new} /\ Returns(th, <<>>)
  BY DEF AddRow, Row, history
<1>2. "add_row" \in OpKinds
  BY DEF OpKinds
<1>3. /\ f # <<>> /\ Head(f) = t /\ t \in Ops(odd, Len(users)) /\ t.do = "add_row"
      /\ th \in Sema!Writers /\ f \in Seq(Ops(odd, Len(users))) /\ Len(users) \in Nat
  BY <1>1, <1>2, FrontTask
<1>4. /\ Plan(todo'[th], Tail(f), b, my[th], odd, Len(users))
      /\ DOMAIN todo' = Threads /\ \A o \in Threads \ {th} : todo'[o] = todo[o]
      /\ failed' = failed
  BY <1>1, <1>2, FrontDone
<1>5. t.user \in 1..Len(users) /\ t.lot \in Lots /\ t.quantity \in Nat
  BY <1>3, OpsAreOps
<1> HIDE DEF t
<1>6. /\ new \in [pk : {lotPk + 1}, user : 1..Len(users), lot : Lots, quantity : Nat]
      /\ new.pk = lotPk + 1
  BY <1>1, <1>5 DEF Row
<1> HIDE DEF new
<1>7. \A r \in userLots : /\ r \in [pk : 1..lotPk, user : 1..Len(users), lot : Lots, quantity : Nat]
                          /\ r.pk # lotPk + 1
  BY DEF Data, TypeOK
<1>8. Data'
  <2>1. IsFiniteSet(userLots')
    BY <1>1, FS_AddElement DEF Data
  <2>2. lotPk \in Nat /\ 1..lotPk \subseteq 1..lotPk' /\ lotPk + 1 \in 1..lotPk'
    BY <1>1 DEF Data
  <2>3. \A r \in userLots' :
           r \in [pk : 1..lotPk', user : 1..Len(users'), lot : Lots, quantity : Nat]
    BY <1>1, <1>6, <1>7, <2>2
  <2>4. \A r, s \in userLots' : r.pk = s.pk => r = s
    BY <1>1, <1>6, <1>7 DEF Data, TypeOK
  <2>5. TypeOK'
    BY <1>1, <1>4, <2>3, <2>4 DEF Data, TypeOK, Order
  <2> QED
    BY <1>1, <1>4, <2>1, <2>2, <2>5 DEF Data, Order
<1>9. new \notin userLots
  BY <1>6, <1>7
<1> QED
  BY <1>1, <1>3, <1>4, <1>8, <1>9 DEF new, t

\* The row that add_order writes.
WithId(o, id) == [o EXCEPT !.id = id]

\* It differs from the order of the task in its key only.
LEMMA WithIdFields ==
    ASSUME NEW d, NEW n, NEW o \in Orders(d, n), NEW id \in Nat
    PROVE  /\ WithId(o, id) \in Orders(d, n) /\ WithId(o, id).id = id
           /\ WithId(o, id).user = o.user /\ WithId(o, id).quantity = o.quantity
           /\ WithId(o, id).price = o.price /\ WithId(o, id).type = o.type
           /\ WithId(o, id).pair = o.pair
           /\ WithId(o, id).closed = o.closed
<1> DEFINE x == WithId(o, id)
<1>1. /\ x.id = id /\ x.user = o.user /\ x.quantity = o.quantity /\ x.price = o.price
      /\ x.type = o.type /\ x.pair = o.pair /\ x.closed = o.closed
      /\ x \in [id : Nat, user : 1..n, pair : BOOLEAN, quantity : Int, price : Int,
                type : Types, closed : BOOLEAN]
  BY DEF WithId, Orders
<1>2. d \/ Plain(o)
  BY DEF Orders
<1> HIDE DEF x
<1>3. x \in Orders(d, n)
  BY <1>1, <1>2 DEF Orders, Plain
<1> QED
  BY <1>1, <1>3 DEF x

\* An order row is added under a new key.
LEMMA AddOrderPlan ==
    ASSUME Data, NEW th \in Threads, NEW f, NEW b,
           Plan(todo[th], f, b, my[th], odd, Len(users)), AddOrder(th)
    PROVE  /\ Data' /\ UNCHANGED <<users, userLots, lotPk, undone, odd, refused, my, sem>>
           /\ \A o \in Threads \ {th} : todo'[o] = todo[o]
           /\ failed' = failed /\ Plan(todo'[th], Tail(f), b, my[th], odd, Len(users))
           /\ f # <<>> /\ f \in Seq(Ops(odd, Len(users))) /\ Head(f) \in Ops(odd, Len(users))
           /\ Head(f).do = "add_order" /\ th \in Sema!Writers
           /\ orderPk' = orderPk + 1 /\ orders' = orders \cup {WithId(Head(f).order, orderPk')}
           /\ \A o \in orders \cup undone : o.id # orderPk'
<1> DEFINE t == Task(th)
           new == WithId(t.order, orderPk')
<1>1. /\ Doing(th, "add_order") /\ UNCHANGED <<users, userLots, lotPk, my, undone, odd, refused, sem>>
      /\ orderPk' = orderPk + 1 /\ orders' = orders \cup {new} /\ Returns(th, <<>>)
  BY DEF AddOrder, WithId, history
<1>2. "add_order" \in OpKinds
  BY DEF OpKinds
<1>3. /\ f # <<>> /\ Head(f) = t /\ t \in Ops(odd, Len(users)) /\ t.do = "add_order"
      /\ th \in Sema!Writers /\ f \in Seq(Ops(odd, Len(users))) /\ Len(users) \in Nat
  BY <1>1, <1>2, FrontTask
<1>4. /\ Plan(todo'[th], Tail(f), b, my[th], odd, Len(users))
      /\ DOMAIN todo' = Threads /\ \A o \in Threads \ {th} : todo'[o] = todo[o]
      /\ failed' = failed
  BY <1>1, <1>2, FrontDone
<1>5. t.order \in Orders(odd, Len(users))
  BY <1>3, OpsAreOps
<1> HIDE DEF t
<1>6. orderPk \in Nat /\ orderPk' \in Nat /\ Order' = Order /\ Order = Orders(odd, Len(users))
  BY <1>1, UsersLength DEF Data, Order
<1>7. new \in Order /\ new.id = orderPk + 1
  BY <1>1, <1>5, <1>6, WithIdFields
<1> HIDE DEF new
<1>8. \A o \in orders \cup undone : o \in Order /\ o.id <= orderPk /\ o.id \in Nat
  <2>1. \A o \in orders \cup undone : o \in Order /\ o.id <= orderPk
    BY DEF Data, TypeOK
  <2> QED
    BY <1>6, <2>1, OrderFields
<1>9. \A o \in orders \cup undone : o.id # orderPk'
  BY <1>1, <1>6, <1>8
<1>10. Data'
  <2>1. IsFiniteSet(orders')
    BY <1>1, FS_AddElement DEF Data
  <2>2. \A o \in orders' : o \in Order' /\ o.id <= orderPk'
    BY <1>1, <1>6, <1>7, <1>8
  <2>3. \A o, p \in orders' : o.id = p.id => o = p
    BY <1>1, <1>7, <1>9 DEF Data, TypeOK
  <2>4. TypeOK'
    BY <1>1, <1>4, <2>2, <2>3 DEF Data, TypeOK
  <2>5. \A p \in undone' : p \in Order' /\ p.id <= orderPk' /\ p.closed
    BY <1>1, <1>6, <1>8 DEF Data
  <2> QED
    BY <1>1, <1>4, <1>6, <2>1, <2>4, <2>5 DEF Data
<1> QED
  BY <1>1, <1>3, <1>4, <1>9, <1>10 DEF new, t

\* An order row is removed.
LEMMA DelOrderPlan ==
    ASSUME Data, NEW th \in Threads, NEW f, NEW b,
           Plan(todo[th], f, b, my[th], odd, Len(users)), DelOrder(th)
    PROVE  /\ Data' /\ UNCHANGED <<users, userLots, lotPk, orderPk, undone, odd, refused, my, sem>>
           /\ \A o \in Threads \ {th} : todo'[o] = todo[o]
           /\ failed' = failed /\ Plan(todo'[th], Tail(f), b, my[th], odd, Len(users))
           /\ f # <<>> /\ f \in Seq(Ops(odd, Len(users))) /\ Head(f) \in Ops(odd, Len(users))
           /\ Head(f).do = "del_order" /\ th \in Sema!Writers
           /\ orders' = {o \in orders : o.id # Head(f).id}
<1>1. /\ Doing(th, "del_order") /\ UNCHANGED <<users, userLots, lotPk, orderPk, my, undone, odd, refused, sem>>
      /\ orders' = {o \in orders : o.id # Task(th).id} /\ Returns(th, <<>>)
  BY DEF DelOrder, history
<1>2. "del_order" \in OpKinds
  BY DEF OpKinds
<1>3. /\ f # <<>> /\ Head(f) = Task(th) /\ Head(f) \in Ops(odd, Len(users)) /\ Head(f).do = "del_order"
      /\ th \in Sema!Writers /\ f \in Seq(Ops(odd, Len(users)))
  BY <1>1, <1>2, FrontTask
<1>4. /\ Plan(todo'[th], Tail(f), b, my[th], odd, Len(users))
      /\ DOMAIN todo' = Threads /\ \A o \in Threads \ {th} : todo'[o] = todo[o]
      /\ failed' = failed
  BY <1>1, <1>2, FrontDone
<1>5. Data'
  <2>1. IsFiniteSet(orders')
    BY <1>1, FS_Subset DEF Data
  <2>2. TypeOK'
    BY <1>1, <1>4 DEF Data, TypeOK, Order
  <2> QED
    BY <1>1, <1>4, <2>1, <2>2 DEF Data, Order
<1> QED
  BY <1>1, <1>3, <1>4, <1>5

\* A connection without an order of its client has no order.
LEMMA NoOrderIsNone == ASSUME NEW d, NEW n PROVE NoOrder \notin Orders(d, n)
<1>1. SUFFICES ASSUME NoOrder \in Orders(d, n) PROVE FALSE
  OBVIOUS
<1>2. DOMAIN NoOrder = {"id", "user", "pair", "quantity", "price", "type", "closed"}
  BY <1>1 DEF Orders
<1>3. DOMAIN NoOrder = {"id"}
  BY DEF NoOrder
<1> QED
  BY <1>2, <1>3

\* The open orders that an order can trade with.
Facing(m) == {o \in orders : IsReverse(m, o)}

\* The reverse orders, one after the other, and the client's order at the end.
Reads(b, m) ==
    \E k \in Nat :
        /\ Len(b) = k + 1 /\ b[k + 1].do = "place"
        /\ \A i \in 1..k : b[i].do = "consider" /\ b[i].order \in Facing(m)
        /\ \A o \in Facing(m) : \E i \in 1..k : b[i].order = o
        /\ \A i, j \in 1..k : b[i].order = b[j].order => i = j

\* post_order reads the reverse orders: each of them is on the list, once.
LEMMA ReadReversePlan ==
    ASSUME Data, NEW th \in Threads, NEW f, NEW b,
           Plan(todo[th], f, b, my[th], odd, Len(users)), ReadReverse(th)
    PROVE  /\ Data' /\ UNCHANGED <<db, undone, odd, refused, my, sem>> /\ failed' = failed /\ f = <<>>
           /\ \A o \in Threads \ {th} : todo'[o] = todo[o]
           /\ Placing(b) /\ my[th] \in Orders(odd, Len(users)) /\ ~my[th].closed
           /\ th \in Sema!Writers
           /\ \E c : /\ Plan(todo'[th], <<>>, c, my[th], odd, Len(users))
                     /\ Reads(c, my[th]) /\ Placing(c) /\ c[Len(c)].do = "place"
<1> DEFINE n == Len(users)
           m == my[th]
           S == Facing(m)
           k == Cardinality(S)
<1>1. Doing(th, "match") /\ UNCHANGED <<db, my, undone, odd, refused, sem>>
  BY DEF ReadReverse, history
<1>2. "match" \notin OpKinds
  BY DEF OpKinds
<1>3. /\ f = <<>> /\ b = todo[th] /\ b # <<>> /\ b \in Seq(Waits(odd, n))
      /\ Ends(b, m, odd, n) /\ b[1].do = "match" /\ n \in Nat /\ th \in Sema!Writers
  BY <1>1, <1>2, BackTask
<1>4. Placing(b) /\ Tail(b) = <<>>
  BY <1>3, EndsOfTail
<1>5. m \in Orders(odd, n) /\ ~m.closed
  BY <1>3, <1>4 DEF Ends
<1>6. PICK found \in ReverseOrders(m) :
          Returns(th, [i \in DOMAIN found |-> [do |-> "consider", order |-> found[i]]]
                          \o <<[do |-> "place"]>>)
  BY DEF ReadReverse, history
<1>7. /\ found \in Surjection(1..k, S)
      /\ \A i, j \in 1..k : i < j => found[i].id < found[j].id
  BY <1>6 DEF ReverseOrders, Facing
<1>8. k \in Nat
  <2>1. IsFiniteSet(S)
    BY FS_Subset DEF Facing, Data
  <2> QED
    BY <2>1, FS_CardinalityType
<1>9. /\ found \in [1..k -> S] /\ DOMAIN found = 1..k
      /\ \A o \in S : \E i \in 1..k : found[i] = o
  BY <1>7 DEF Surjection
<1>10. \A o \in S : o \in Orders(odd, n) /\ o.id \in Nat
  <2>1. \A o \in S : o \in Orders(odd, n)
    BY UsersLength DEF Facing, Data, TypeOK
  <2> QED
    BY <2>1, OrderFields
<1> DEFINE s == [i \in 1..k |-> [do |-> "consider", order |-> found[i]]]
           p == <<[do |-> "place"]>>
           c == s \o p
<1>11. s \in Seq(Waits(odd, n)) /\ Len(s) = k
  <2>1. \A i \in 1..k : found[i] \in Orders(odd, n)
    BY <1>9, <1>10
  <2>2. \A i \in 1..k : [do |-> "consider", order |-> found[i]] \in Waits(odd, n)
    BY <2>1 DEF Waits
  <2>3. s \in [1..k -> Waits(odd, n)]
    BY <2>2
  <2> HIDE DEF s, k, n
  <2> QED
    BY <1>8, <2>3
<1>12. p \in Seq(Waits(odd, n)) /\ Len(p) = 1 /\ p[1].do = "place"
  <2>1. [do |-> "place"] \in Waits(odd, n)
    BY DEF Waits
  <2> QED
    BY <2>1, ShortLists
<1>13. \A i \in 1..k : s[i].do = "consider" /\ s[i].order = found[i]
  OBVIOUS
<1>14. todo' = [todo EXCEPT ![th] = c \o Tail(todo[th])] /\ failed' = failed
  BY <1>6, <1>9 DEF Returns
<1> HIDE DEF s, p, k, S, m, n
<1>15. /\ c \in Seq(Waits(odd, n)) /\ Len(c) = k + 1 /\ c[k + 1].do = "place"
       /\ \A i \in 1..k : c[i] = s[i]
  <2>1. /\ c \in Seq(Waits(odd, n)) /\ Len(c) = Len(s) + Len(p)
        /\ \A i \in 1..(Len(s) + Len(p)) :
              c[i] = IF i <= Len(s) THEN s[i] ELSE p[i - Len(s)]
    BY <1>11, <1>12, ConcatProperties
  <2>2. c[k + 1] = p[1]
    <3>1. k + 1 \in 1..(Len(s) + Len(p)) /\ ~(k + 1 <= Len(s)) /\ (k + 1) - Len(s) = 1
      BY <1>8, <1>11, <1>12
    <3> QED
      BY <2>1, <3>1
  <2>3. \A i \in 1..k : i \in 1..(Len(s) + Len(p)) /\ i <= Len(s)
    BY <1>8, <1>11, <1>12
  <2> HIDE DEF c
  <2> QED
    BY <1>8, <1>11, <1>12, <2>1, <2>2, <2>3
<1>16. todo'[th] = c /\ DOMAIN todo' = Threads /\ \A o \in Threads \ {th} : todo'[o] = todo[o]
  <2>1. c \o <<>> = c
    BY <1>15, ConcatEmptySeq
  <2>2. Tail(todo[th]) = <<>>
    BY <1>3, <1>4
  <2> QED
    BY <1>14, <2>1, <2>2 DEF Data
<1> HIDE DEF c
<1>17. \A i, j \in 1..k : c[i].order = c[j].order => i = j
  <2>1. SUFFICES ASSUME NEW i \in 1..k, NEW j \in 1..k, found[i] = found[j], i # j PROVE FALSE
    BY <1>13, <1>15
  <2>2. i < j \/ j < i
    BY <1>8, <2>1
  <2>3. found[i].id \in Nat /\ found[i].id < found[i].id
    BY <1>7, <1>9, <1>10, <2>1, <2>2
  <2> QED
    BY <2>3
<1>18. Reads(c, m)
  <2>1. \A i \in 1..k : c[i].do = "consider" /\ c[i].order \in S /\ c[i].order = found[i]
    BY <1>9, <1>13, <1>15
  <2>2. \A o \in S : \E i \in 1..k : c[i].order = o
    BY <1>9, <2>1
  <2> QED
    BY <1>8, <1>15, <1>17, <2>1, <2>2 DEF Reads, S
<1>19. Ends(c, m, odd, n) /\ Placing(c) /\ c[Len(c)].do = "place"
  <2>1. \A i \in 1..Len(c) : i = k + 1 \/ i \in 1..k
    BY <1>8, <1>15
  <2>2. \A i \in 1..k : c[i].do = "consider"
    BY <1>13, <1>15
  <2>3. c # <<>>
    BY <1>8, <1>15
  <2> QED
    BY <1>5, <1>15, <2>1, <2>2, <2>3 DEF Ends, Placing
<1>20. Plan(c, <<>>, c, m, odd, n)
  <2>1. <<>> \in Seq(Ops(odd, n)) /\ c = <<>> \o c
    BY <1>15
  <2> QED
    BY <1>15, <1>19, <2>1 DEF Plan
<1>21. Data'
  BY <1>1, <1>14, <1>16, SameData DEF Data, TypeOK
<1> QED
  BY <1>1, <1>3, <1>4, <1>5, <1>14, <1>16, <1>18, <1>19, <1>20, <1>21 DEF m, n

\* What is left of the client's order after a deal.
Left(m, o) == m.quantity - Smaller(m.quantity, o.quantity)

\* The first order on the list is passed over; or a deal with it fills the
\* client's order and ends the list; or the deal leaves a part of the client's
\* order, and the rest of the list.
LEMMA ConsiderPlan ==
    ASSUME Data, NEW th \in Threads, NEW f, NEW b,
           Plan(todo[th], f, b, my[th], odd, Len(users)), Consider(th)
    PROVE  /\ Data' /\ UNCHANGED <<db, undone, odd, refused, sem>> /\ failed' = failed /\ f = <<>>
           /\ \A o \in Threads \ {th} : todo'[o] = todo[o] /\ my'[o] = my[o]
           /\ b # <<>> /\ b \in Seq(Waits(odd, Len(users))) /\ Ends(b, my[th], odd, Len(users))
           /\ b[1].do = "consider" /\ b[1].order \in Orders(odd, Len(users)) /\ Placing(b)
           /\ my[th] \in Orders(odd, Len(users)) /\ ~my[th].closed /\ th \in Sema!Writers
           /\ Placing(Tail(b))
           /\ \/ /\ b[1].order.user = my[th].user \/ ~IsProfit(my[th], b[1].order)
                 /\ my'[th] = my[th] /\ Plan(todo'[th], <<>>, Tail(b), my[th], odd, Len(users))
              \/ /\ b[1].order.user # my[th].user /\ IsProfit(my[th], b[1].order)
                 /\ Left(my[th], b[1].order) = 0
                 /\ Plan(todo'[th], Deal(my[th], b[1].order), <<>>, my'[th], odd, Len(users))
              \/ /\ b[1].order.user # my[th].user /\ IsProfit(my[th], b[1].order)
                 /\ Left(my[th], b[1].order) \in Nat \ {0}
                 /\ my'[th] = Part(my[th], Left(my[th], b[1].order))
                 /\ Plan(todo'[th], Deal(my[th], b[1].order), Tail(b), my'[th], odd, Len(users))
<1> DEFINE n == Len(users)
           m == my[th]
           o == b[1].order
<1>1. Doing(th, "consider") /\ UNCHANGED <<db, undone, odd, refused, sem>>
  BY DEF Consider, history
<1>2. "consider" \notin OpKinds
  BY DEF OpKinds
<1>3. /\ f = <<>> /\ b = todo[th] /\ b # <<>> /\ b \in Seq(Waits(odd, n)) /\ b[1] = Task(th)
      /\ Ends(b, m, odd, n) /\ b[1].do = "consider" /\ b[1] \in Waits(odd, n) /\ n \in Nat
      /\ th \in Sema!Writers
  BY <1>1, <1>2, BackTask
<1>4. Placing(b) /\ Placing(Tail(b)) /\ Ends(Tail(b), m, odd, n)
  BY <1>3, EndsOfTail
<1>5. m \in Orders(odd, n) /\ ~m.closed /\ o \in Orders(odd, n)
  BY <1>3, <1>4, WaitsAreWaits DEF Ends
<1>6. IF o.user = m.user \/ ~IsProfit(m, o)
      THEN Returns(th, <<>>) /\ UNCHANGED my
      ELSE /\ todo' = [todo EXCEPT ![th] = Deal(m, o)
                                              \o (IF Left(m, o) = 0 THEN <<>> ELSE Tail(@))]
           /\ my' = [my EXCEPT ![th].quantity = Left(m, o)]
           /\ UNCHANGED failed
  BY <1>3 DEF Consider, Left
<1>7. Left(m, o) \in Nat
  <2>1. m.quantity \in Int /\ o.quantity \in Int
    BY <1>5, OrderFields
  <2> QED
    BY <2>1 DEF Left, Smaller
<1>8. Tail(b) \in Seq(Waits(odd, n)) /\ Deal(m, o) \in Seq(Ops(odd, n))
  BY <1>3, <1>5, TailOfBack, DealOps
<1> HIDE DEF n, m, o
<1>9. CASE o.user = m.user \/ ~IsProfit(m, o)
  <2>1. Returns(th, <<>>) /\ UNCHANGED my
    BY <1>6, <1>9
  <2>2. <<>> \in Seq(Ops(odd, n)) /\ n <= n
    BY <1>3
  <2>3. /\ Plan(todo'[th], <<>>, Tail(b), m, odd, n)
        /\ DOMAIN todo' = Threads /\ \A x \in Threads \ {th} : todo'[x] = todo[x]
        /\ failed' = failed
    BY <1>1, <1>2, <1>3, <2>1, <2>2, BackReturns DEF n, m
  <2>4. Data'
    BY <1>1, <2>1, <2>3, SameData DEF Data, TypeOK
  <2> QED
    BY <1>1, <1>3, <1>4, <1>5, <1>9, <2>1, <2>3, <2>4 DEF n, m, o
<1>10. CASE ~(o.user = m.user \/ ~IsProfit(m, o))
  <2>1. /\ todo'[th] = Deal(m, o) \o (IF Left(m, o) = 0 THEN <<>> ELSE Tail(b))
        /\ my'[th] = Part(m, Left(m, o)) /\ failed' = failed
        /\ DOMAIN todo' = Threads /\ DOMAIN my' = Threads
        /\ \A x \in Threads \ {th} : todo'[x] = todo[x] /\ my'[x] = my[x]
    BY <1>3, <1>6, <1>10 DEF Data, Part, m
  <2>2. Data'
    BY <1>1, <2>1, SameData DEF Data, TypeOK
  <2>3. CASE Left(m, o) = 0
    <3>1. todo'[th] = Deal(m, o) \o <<>>
      BY <2>1, <2>3
    <3>2. Ends(<<>>, my'[th], odd, n) /\ <<>> \in Seq(Waits(odd, n))
      BY <1>3, NothingPlanned
    <3>3. Plan(todo'[th], Deal(m, o), <<>>, my'[th], odd, n)
      BY <1>3, <1>8, <3>1, <3>2, BackPlan
    <3> QED
      BY <1>1, <1>3, <1>4, <1>5, <1>10, <2>1, <2>2, <2>3, <3>3 DEF n, m, o
  <2>4. CASE Left(m, o) # 0
    <3>1. todo'[th] = Deal(m, o) \o Tail(b) /\ Left(m, o) \in Nat \ {0}
      BY <1>7, <2>1, <2>4
    <3>2. my'[th] \in Orders(odd, n) /\ ~my'[th].closed
      <4> DEFINE q == Left(m, o)
      <4>1. q \in Int /\ q \in Nat \ {0} /\ (odd \/ q \in Nat)
        BY <3>1
      <4> HIDE DEF q
      <4>2. Part(m, q) \in Orders(odd, n) /\ Part(m, q).closed = m.closed
        <5>1. n \in Nat /\ m \in Orders(odd, n)
          BY <1>3, <1>5
        <5> QED
          BY <4>1, <5>1, PartFields
      <4>3. my'[th] = Part(m, q)
        BY <2>1 DEF q
      <4> QED
        BY <1>5, <4>2, <4>3, Zenon
    <3>3. Ends(Tail(b), my'[th], odd, n)
      <4>1. m # NoOrder
        BY <1>5, NoOrderIsNone
      <4> QED
        BY <1>4, <3>2, <4>1 DEF Ends
    <3>4. Plan(todo'[th], Deal(m, o), Tail(b), my'[th], odd, n)
      BY <1>3, <1>8, <3>1, <3>3, BackPlan
    <3> QED
      BY <1>1, <1>3, <1>4, <1>5, <1>10, <2>1, <2>2, <3>1, <3>4 DEF n, m, o
  <2> QED
    BY <2>3, <2>4
<1> QED
  BY <1>9, <1>10

\* The client's order is placed: the last decision.
LEMMA PlacePlan ==
    ASSUME Data, NEW th \in Threads, NEW f, NEW b,
           Plan(todo[th], f, b, my[th], odd, Len(users)), Place(th)
    PROVE  /\ Data' /\ UNCHANGED <<db, undone, odd, refused, my, sem>> /\ failed' = failed /\ f = <<>>
           /\ \A o \in Threads \ {th} : todo'[o] = todo[o]
           /\ b[1].do = "place" /\ Placing(b) /\ Len(b) = 1 /\ th \in Sema!Writers
           /\ my[th] \in Orders(odd, Len(users)) /\ ~my[th].closed
           /\ Plan(todo'[th], CreateOrder(my[th]), <<>>, my[th], odd, Len(users))
<1> DEFINE n == Len(users)
           m == my[th]
<1>1. Doing(th, "place") /\ UNCHANGED <<db, my, undone, odd, refused, sem>> /\ Returns(th, CreateOrder(m))
  BY DEF Place, history
<1>2. "place" \notin OpKinds
  BY DEF OpKinds
<1>3. /\ f = <<>> /\ b # <<>> /\ b \in Seq(Waits(odd, n)) /\ Ends(b, m, odd, n) /\ b[1].do = "place"
      /\ n \in Nat /\ th \in Sema!Writers /\ 1 \in 1..Len(b)
  BY <1>1, <1>2, BackTask
<1>4. Placing(b) /\ Tail(b) = <<>> /\ Len(b) = 1
  <2>1. Placing(b) /\ Tail(b) = <<>>
    BY <1>3, EndsOfTail
  <2> QED
    BY <1>3, <2>1 DEF Ends
<1>5. m \in Orders(odd, n) /\ ~m.closed
  BY <1>3, <1>4 DEF Ends
<1> HIDE DEF n, m
<1>6. CreateOrder(m) \in Seq(Ops(odd, n)) /\ n <= n
  <2>1. n \in Nat /\ m \in Orders(odd, n)
    BY <1>3, <1>5
  <2>2. CreateOrder(m) \in Seq(Ops(odd, n))
    BY <2>1, CreateOrderOps
  <2> QED
    BY <2>1, <2>2
<1>7. /\ Plan(todo'[th], CreateOrder(m), Tail(b), m, odd, n)
      /\ DOMAIN todo' = Threads /\ \A x \in Threads \ {th} : todo'[x] = todo[x]
      /\ failed' = failed
  BY <1>1, <1>2, <1>3, <1>6, BackReturns DEF n, m
<1>8. Data'
  BY <1>1, <1>7, SameData DEF Data, TypeOK
<1> QED
  BY <1>1, <1>3, <1>4, <1>5, <1>7, <1>8 DEF n, m

\* The order to cancel is found, and its deletion planned; or the call throws.
LEMMA FindOrderPlan ==
    ASSUME Data, NEW th \in Threads, NEW f, NEW b,
           Plan(todo[th], f, b, my[th], odd, Len(users)), FindOrder(th)
    PROVE  /\ Data' /\ UNCHANGED <<db, my, odd, refused, sem>> /\ f = <<>> /\ my[th] = NoOrder
           /\ \A o \in Threads \ {th} : todo'[o] = todo[o]
           /\ b[1].do = "find_order" /\ ~Placing(Tail(b)) /\ b # <<>> /\ th \in Sema!Writers
           /\ b \in Seq(Waits(odd, Len(users))) /\ Ends(b, my[th], odd, Len(users))
           /\ \/ \E o \in orders :
                    /\ undone' = undone \cup {p \in {o} : p.closed} /\ failed' = failed
                    /\ Plan(todo'[th], DeleteOrder(o), Tail(b), my[th], odd, Len(users))
              \/ /\ undone' = undone /\ failed' = failed \cup {th} /\ todo'[th] = <<>>
                 /\ Plan(todo'[th], <<>>, <<>>, my[th], odd, Len(users))
<1> DEFINE n == Len(users)
           m == my[th]
<1>1. Doing(th, "find_order") /\ UNCHANGED <<db, my, odd, refused, sem>>
  BY DEF FindOrder, history
<1>2. "find_order" \notin OpKinds
  BY DEF OpKinds
<1>3. /\ f = <<>> /\ b # <<>> /\ b \in Seq(Waits(odd, n)) /\ Ends(b, m, odd, n) /\ b[1].do = "find_order"
      /\ n \in Nat /\ th \in Sema!Writers /\ 1 \in 1..Len(b)
  BY <1>1, <1>2, BackTask
<1>4. m = NoOrder
  BY <1>3 DEF Ends
<1>5. ~Placing(Tail(b))
  BY <1>3, <1>4, EndsOfTail, NoOrderIsNone DEF Ends
<1>9. \A o \in orders : o \in Orders(odd, n) /\ o \in Order /\ o.id <= orderPk
  BY UsersLength DEF Data, TypeOK
<1> HIDE DEF n, m
<1>6. ASSUME NEW o \in orders, Returns(th, DeleteOrder(o)),
             undone' = undone \cup {p \in {o} : p.closed}
      PROVE  /\ Data' /\ \A x \in Threads \ {th} : todo'[x] = todo[x]
             /\ failed' = failed /\ Plan(todo'[th], DeleteOrder(o), Tail(b), m, odd, n)
  <2>1. o \in Orders(odd, n) /\ o \in Order /\ o.id <= orderPk
    BY <1>9
  <2>2. DeleteOrder(o) \in Seq(Ops(odd, n)) /\ n <= n
    <3>1. n \in Nat
      BY <1>3
    <3>2. DeleteOrder(o) \in Seq(Ops(odd, n))
      BY <2>1, <3>1, DeleteOrderOps
    <3> QED
      BY <3>1, <3>2
  <2>3. /\ Plan(todo'[th], DeleteOrder(o), Tail(b), m, odd, n)
        /\ DOMAIN todo' = Threads /\ \A x \in Threads \ {th} : todo'[x] = todo[x]
        /\ failed' = failed
    BY <1>1, <1>2, <1>3, <1>6, <2>2, BackReturns DEF n, m
  <2>4. Order' = Order
    BY <1>1 DEF Order, db
  <2>5. IsFiniteSet(undone')
    <3>1. {p \in {o} : p.closed} = {} \/ {p \in {o} : p.closed} = {o}
      OBVIOUS
    <3>2. undone' = undone \/ undone' = undone \cup {o}
      BY <1>6, <3>1
    <3> QED
      BY <3>2, FS_AddElement DEF Data
  <2>6. \A p \in undone' : p \in Order' /\ p.id <= orderPk' /\ p.closed
    BY <1>1, <1>6, <2>1, <2>4 DEF Data, db
  <2>7. TypeOK'
    BY <1>1, <2>3, <2>4 DEF Data, TypeOK, db
  <2>8. Data'
    BY <1>1, <2>3, <2>5, <2>6, <2>7 DEF Data, db
  <2> QED
    BY <2>3, <2>8
<1>7. ASSUME Throws(th), undone' = undone
      PROVE  /\ Data' /\ \A x \in Threads \ {th} : todo'[x] = todo[x]
             /\ Plan(todo'[th], <<>>, <<>>, m, odd, n) /\ todo'[th] = <<>>
             /\ failed' = failed \cup {th}
  <2>1. /\ todo'[th] = <<>> /\ Plan(todo'[th], <<>>, <<>>, m, odd, n)
        /\ DOMAIN todo' = Threads /\ \A x \in Threads \ {th} : todo'[x] = todo[x]
        /\ failed' = failed \cup {th}
    BY <1>7, ThrowPlan DEF n, m
  <2>2. Data'
    BY <1>1, <1>7, <2>1, SameData DEF Data, TypeOK
  <2> QED
    BY <2>1, <2>2
<1>8. \/ \E o \in orders : /\ Returns(th, DeleteOrder(o))
                           /\ undone' = undone \cup {p \in {o} : p.closed}
      \/ Throws(th) /\ undone' = undone
  BY DEF FindOrder, SearchOne
<1> QED
  BY <1>1, <1>3, <1>4, <1>5, <1>6, <1>7, <1>8 DEF n, m

-----------------------------------------------------------------------------
(* The semaphore: nobody locks for reading, so a WriteLock is got at once; *)
(* two connections are in it at the same time only after an overlap.       *)

LockInv ==
    /\ phase \in [Threads -> {"idle", "holding"}]
    /\ want \in [Threads -> {"reading", "writing"}]
    /\ \A th \in Threads : phase[th] = "holding" => want[th] = "writing"
    /\ readerCnt = 0
    /\ \A th \in Threads : phase[th] = "idle" => todo[th] = <<>> /\ th \notin failed
    /\ \A th \in failed : todo[th] = <<>>
    /\ ~overlapped => \A a, b \in Sema!Writers : a = b

\* The writers are the connections with a request.
LEMMA WritersHold ==
    ASSUME LockInv
    PROVE  /\ Sema!Writers = {th \in Threads : phase[th] = "holding"}
           /\ \A th \in Threads : th \notin Sema!Writers => phase[th] = "idle"
BY DEF LockInv, Sema!Writers, Sema!Holders

\* A request begins: the lock is taken and its tasks lie ahead.
LEMMA BeginPlan ==
    ASSUME Data, LockInv, NEW th \in Threads, NEW first, NEW tasks, Begin(th, first, tasks),
           odd => odd', odd' \in BOOLEAN,
           tasks \in Seq(Waits(odd', Len(users))), Ends(tasks, first, odd', Len(users))
    PROVE  /\ Data' /\ LockInv' /\ UNCHANGED <<db, failed, undone, refused>> /\ my'[th] = first
           /\ Plan(todo'[th], <<>>, tasks, my'[th], odd', Len(users))
           /\ \A o \in Threads \ {th} : todo'[o] = todo[o] /\ my'[o] = my[o]
           /\ th \notin Sema!Writers /\ th \in Sema!Writers'
           /\ overlapped' = (overlapped \/ Sema!Writers # {})
<1>1. /\ my' = [my EXCEPT ![th] = first] /\ todo' = [todo EXCEPT ![th] = tasks]
      /\ UNCHANGED <<db, failed, undone, refused>> /\ Sema!Construct(th, "writing")
  BY DEF Begin
<1>2. /\ phase[th] = "idle" /\ want' = [want EXCEPT ![th] = "writing"]
      /\ phase' = [phase EXCEPT ![th] = "holding"] /\ readerCnt' = readerCnt
      /\ overlapped' = (overlapped \/ Sema!Writers # {})
  BY <1>1 DEF LockInv, Sema!Construct, Sema!Enter, Sema!Sleep, Sema!CanEnter
<1>3. Sema!Writers' = Sema!Writers \cup {th} /\ th \notin Sema!Writers
  BY <1>2 DEF LockInv, Sema!Writers, Sema!Holders
<1>4. /\ my'[th] = first /\ todo'[th] = tasks /\ DOMAIN my' = Threads /\ DOMAIN todo' = Threads
      /\ \A o \in Threads \ {th} : todo'[o] = todo[o] /\ my'[o] = my[o]
  BY <1>1 DEF Data
<1>5. LockInv'
  <2>1. ~overlapped' => \A a, c \in Sema!Writers' : a = c
    BY <1>2, <1>3
  <2>2. \A o \in Threads : phase'[o] = "idle" => todo'[o] = <<>> /\ o \notin failed'
    BY <1>1, <1>2, <1>4 DEF LockInv
  <2>3. \A o \in failed' : todo'[o] = <<>>
    BY <1>1, <1>2, <1>4 DEF LockInv, Data, TypeOK
  <2> QED
    BY <1>2, <2>1, <2>2, <2>3 DEF LockInv
<1>6. Data'
  BY <1>1, <1>4, SameData DEF Data, TypeOK
<1>7. Plan(todo'[th], <<>>, tasks, first, odd', Len(users))
  <2>1. <<>> \o tasks = tasks
    OBVIOUS
  <2>2. <<>> \in Seq(Ops(odd', Len(users)))
    OBVIOUS
  <2> QED
    BY <1>4, <2>1, <2>2 DEF Plan
<1> QED
  BY <1>1, <1>2, <1>3, <1>4, <1>5, <1>6, <1>7

\* The tasks of the requests.
LEMMA RequestsEnd ==
    ASSUME Data
    PROVE  LET n == Len(users) IN
           /\ \A name \in Names :
                LET tasks == <<[do |-> "check_name", name |-> name],
                               [do |-> "add_user", name |-> name]>>
                IN  tasks \in Seq(Waits(odd, n)) /\ Ends(tasks, NoOrder, odd, n) /\ ~Placing(tasks)
           /\ \A o \in ClientOrders, e \in BOOLEAN : e \/ Proper(o) =>
                /\ o \in Orders(e, n) /\ ~o.closed
                /\ <<[do |-> "match"]>> \in Seq(Waits(e, n)) /\ Ends(<<[do |-> "match"]>>, o, e, n)
           /\ \A user \in 1..n, id \in 1..orderPk :
                LET tasks == <<[do |-> "find_order", user |-> user, id |-> id]>>
                IN  tasks \in Seq(Waits(odd, n)) /\ Ends(tasks, NoOrder, odd, n) /\ ~Placing(tasks)
<1> DEFINE n == Len(users)
<1>1. n \in Nat /\ orderPk \in Nat
  BY UsersLength DEF Data
<1>2. ASSUME NEW name \in Names
      PROVE  LET tasks == <<[do |-> "check_name", name |-> name],
                            [do |-> "add_user", name |-> name]>>
             IN  tasks \in Seq(Waits(odd, n)) /\ Ends(tasks, NoOrder, odd, n) /\ ~Placing(tasks)
  <2> DEFINE a == [do |-> "check_name", name |-> name]
             c == [do |-> "add_user", name |-> name]
  <2>1. a \in Waits(odd, n) /\ c \in Waits(odd, n) /\ a.do = "check_name" /\ c.do = "add_user"
    BY DEF Waits
  <2> HIDE DEF a, c, n
  <2>2. <<a, c>> \in Seq(Waits(odd, n)) /\ Len(<<a, c>>) = 2 /\ <<a, c>>[1] = a /\ <<a, c>>[2] = c
    BY <2>1, ShortLists
  <2>3. \A i \in 1..2 : i = 1 \/ i = 2
    OBVIOUS
  <2>4. Ends(<<a, c>>, NoOrder, odd, n) /\ ~Placing(<<a, c>>)
    BY <2>1, <2>2, <2>3 DEF Ends, Placing
  <2> QED
    BY <2>2, <2>4 DEF a, c
<1>3. ASSUME NEW o \in ClientOrders, NEW e \in BOOLEAN, e \/ Proper(o)
      PROVE  /\ o \in Orders(e, n) /\ ~o.closed
             /\ <<[do |-> "match"]>> \in Seq(Waits(e, n)) /\ Ends(<<[do |-> "match"]>>, o, e, n)
  <2>1. o \in Orders(e, n) /\ o.closed = FALSE
    <3>1. PICK user \in 1..n, offer \in Offers :
             o = [id |-> 0, user |-> user, pair |-> offer.pair, quantity |-> offer.quantity,
                  price |-> offer.price, type |-> offer.type, closed |-> FALSE]
      BY DEF ClientOrders
    <3>2. /\ offer.pair \in BOOLEAN /\ offer.quantity \in Int /\ offer.price \in Int
          /\ offer.type \in Types
      BY AmountsAreNumbers
    <3>3. e \/ Plain(o)
      BY <1>3 DEF Proper
    <3> HIDE DEF n
    <3> QED
      BY <3>1, <3>2, <3>3 DEF Orders
  <2> DEFINE a == [do |-> "match"]
  <2>2. a \in Waits(e, n) /\ a.do = "match"
    BY DEF Waits
  <2> HIDE DEF a, n
  <2>3. <<a>> \in Seq(Waits(e, n)) /\ Len(<<a>>) = 1 /\ <<a>>[1] = a
    BY <2>2, ShortLists
  <2>4. \A i \in 1..1 : i = 1
    OBVIOUS
  <2>5. Ends(<<a>>, o, e, n)
    BY <2>1, <2>2, <2>3, <2>4 DEF Ends
  <2> QED
    BY <2>1, <2>3, <2>5 DEF a
<1>4. ASSUME NEW user \in 1..n, NEW id \in 1..orderPk
      PROVE  LET tasks == <<[do |-> "find_order", user |-> user, id |-> id]>>
             IN  tasks \in Seq(Waits(odd, n)) /\ Ends(tasks, NoOrder, odd, n) /\ ~Placing(tasks)
  <2> DEFINE a == [do |-> "find_order", user |-> user, id |-> id]
  <2>1. user \in Nat /\ id \in Nat
    BY <1>1
  <2>2. a \in Waits(odd, n) /\ a.do = "find_order"
    BY <2>1 DEF Waits
  <2> HIDE DEF a, n
  <2>3. <<a>> \in Seq(Waits(odd, n)) /\ Len(<<a>>) = 1 /\ <<a>>[1] = a
    BY <2>2, ShortLists
  <2>4. \A i \in 1..1 : i = 1
    OBVIOUS
  <2>5. Ends(<<a>>, NoOrder, odd, n) /\ ~Placing(<<a>>)
    BY <2>2, <2>3, <2>4 DEF Ends, Placing
  <2> QED
    BY <2>3, <2>5 DEF a
<1> QED
  BY <1>2, <1>3, <1>4

\* A request is answered: nothing was left to do.
LEMMA AnswerPlan ==
    ASSUME Data, LockInv, NEW th \in Threads, NEW f, NEW b,
           Plan(todo[th], f, b, my[th], odd, Len(users)), Answer(th)
    PROVE  /\ Data' /\ LockInv' /\ UNCHANGED <<db, undone, odd, refused, overlapped>> /\ my'[th] = NoOrder
           /\ failed' = failed \ {th} /\ f = <<>> /\ b = <<>>
           /\ Plan(todo'[th], <<>>, <<>>, my'[th], odd, Len(users))
           /\ \A o \in Threads \ {th} : todo'[o] = todo[o] /\ my'[o] = my[o]
           /\ th \in Sema!Writers /\ Sema!Writers' = Sema!Writers \ {th}
<1>1. /\ th \in Sema!Writers /\ todo[th] = <<>> /\ Sema!FinishWriting(th)
      /\ failed' = failed \ {th} /\ my' = [my EXCEPT ![th] = NoOrder]
      /\ UNCHANGED <<db, todo, undone, odd, refused>>
  BY DEF Answer, history
<1>2. phase' = [phase EXCEPT ![th] = "idle"] /\ UNCHANGED <<readerCnt, want, overlapped>>
  <2>1. [phase EXCEPT ![th] = "idle"] \in [Threads -> {"idle", "holding"}]
    BY DEF LockInv
  <2> DEFINE rest == [phase EXCEPT ![th] = "idle"]
  <2> HIDE DEF rest
  <2>2. Sema!AllWoken(rest) = rest
    BY <2>1 DEF Sema!AllWoken, rest
  <2> QED
    BY <1>1, <2>2 DEF Sema!FinishWriting, rest
<1>3. Sema!Writers' = Sema!Writers \ {th}
  BY <1>2 DEF LockInv, Sema!Writers, Sema!Holders
<1>4. /\ my'[th] = NoOrder /\ DOMAIN my' = Threads /\ DOMAIN todo' = Threads
      /\ \A o \in Threads \ {th} : todo'[o] = todo[o] /\ my'[o] = my[o]
  BY <1>1 DEF Data
<1>5. LockInv'
  <2>1. ~overlapped' => \A a, c \in Sema!Writers' : a = c
    BY <1>2, <1>3 DEF LockInv
  <2>2. \A o \in Threads : phase'[o] = "idle" => todo'[o] = <<>> /\ o \notin failed'
    BY <1>1, <1>2 DEF LockInv
  <2> QED
    BY <1>1, <1>2, <2>1, <2>2 DEF LockInv
<1>6. Data'
  BY <1>1, <1>4, SameData DEF Data, TypeOK
<1>7. f = <<>> /\ b = <<>>
  <2> DEFINE T == Ops(odd, Len(users)) \cup Waits(odd, Len(users))
  <2>1. f \in Seq(T) /\ b \in Seq(T) /\ f \o b = <<>>
    BY <1>1 DEF Plan
  <2> HIDE DEF T
  <2> QED
    BY <2>1
<1>8. Plan(todo'[th], <<>>, <<>>, my'[th], odd, Len(users))
  BY <1>1, UsersLength, NothingPlanned
<1> QED
  BY <1>1, <1>2, <1>3, <1>4, <1>5, <1>6, <1>7, <1>8

\* Work leaves the lock alone.
LEMMA LockAtWork ==
    ASSUME Data, LockInv, NEW th \in Threads, th \in Sema!Writers, todo[th] # <<>>,
           UNCHANGED sem, \A o \in Threads \ {th} : todo'[o] = todo[o],
           failed' = failed \/ (failed' = failed \cup {th} /\ todo'[th] = <<>>)
    PROVE  LockInv' /\ Sema!Writers' = Sema!Writers /\ th \notin failed
<1>1. /\ phase' = phase /\ want' = want /\ readerCnt' = readerCnt /\ overlapped' = overlapped
  BY DEF sem
<1>2. Sema!Writers' = Sema!Writers
  BY <1>1 DEF Sema!Writers, Sema!Holders
<1>3. phase[th] = "holding" /\ th \notin failed
  BY WritersHold DEF LockInv
<1>4. \A o \in Threads : phase'[o] = "idle" => todo'[o] = <<>> /\ o \notin failed'
  BY <1>1, <1>3 DEF LockInv
<1>5. \A o \in failed' : todo'[o] = <<>>
  BY <1>3 DEF LockInv, Data, TypeOK
<1> QED
  BY <1>1, <1>2, <1>3, <1>4, <1>5 DEF LockInv

\* A step of Work, for the types.
LEMMA WorkPlan ==
    ASSUME Data, LockInv, NEW th \in Threads, NEW f, NEW b,
           Plan(todo[th], f, b, my[th], odd, Len(users)), Work(th)
    PROVE  /\ Data' /\ LockInv' /\ UNCHANGED <<overlapped, odd>> /\ th \in Sema!Writers
           /\ Sema!Writers' = Sema!Writers /\ th \notin failed
           /\ \A o \in Threads \ {th} : todo'[o] = todo[o] /\ my'[o] = my[o]
           /\ Len(users) <= Len(users')
           /\ \E g, c : Plan(todo'[th], g, c, my'[th], odd', Len(users'))
<1>1. \E kind : Doing(th, kind)
  BY DEF Work, CheckName, AddUser, ChangeBalance, DelRow, AddRow, AddOrder, DelOrder,
         ReadReverse, Consider, Place, FindOrder
<1>2. todo[th] # <<>> /\ th \in Sema!Writers
  BY <1>1 DEF Doing
<1>3. Len(users) \in Nat
  BY UsersLength
<1>4. /\ Data' /\ UNCHANGED <<sem, odd>> /\ Len(users) <= Len(users')
      /\ \A o \in Threads \ {th} : todo'[o] = todo[o] /\ my'[o] = my[o]
      /\ failed' = failed \/ (failed' = failed \cup {th} /\ todo'[th] = <<>>)
      /\ \E g, c : Plan(todo'[th], g, c, my'[th], odd', Len(users'))
  <2>1. CASE CheckName(th)
    <3>1. /\ Data' /\ UNCHANGED <<sem, odd>> /\ my' = my /\ users' = users
          /\ \A o \in Threads \ {th} : todo'[o] = todo[o]
          /\ failed' = failed \/ (failed' = failed \cup {th} /\ todo'[th] = <<>>)
      BY <2>1, CheckNamePlan DEF db
    <3>2. \E g, c : Plan(todo'[th], g, c, my'[th], odd', Len(users'))
      BY <2>1, <3>1, CheckNamePlan DEF db
    <3> QED
      BY <1>3, <3>1, <3>2
  <2>2. CASE AddUser(th)
    <3>1. /\ Data' /\ UNCHANGED <<sem, odd>> /\ my' = my /\ Len(users') = Len(users) + 1
          /\ \A o \in Threads \ {th} : todo'[o] = todo[o]
          /\ failed' = failed
      BY <2>2, AddUserPlan
    <3>2. \E g, c : Plan(todo'[th], g, c, my'[th], odd', Len(users'))
      BY <2>2, <3>1, AddUserPlan
    <3> QED
      BY <1>3, <3>1, <3>2
  <2>3. CASE ChangeBalance(th)
    <3>1. /\ Data' /\ UNCHANGED <<sem, odd>> /\ my' = my /\ users' = users
          /\ \A o \in Threads \ {th} : todo'[o] = todo[o]
          /\ failed' = failed \/ (failed' = failed \cup {th} /\ todo'[th] = <<>>)
      BY <2>3, ChangePlan DEF db
    <3>2. \E g, c : Plan(todo'[th], g, c, my'[th], odd', Len(users'))
      BY <2>3, <3>1, ChangePlan DEF db
    <3> QED
      BY <1>3, <3>1, <3>2
  <2>4. CASE DelRow(th)
    <3>1. /\ Data' /\ UNCHANGED <<sem, odd>> /\ my' = my /\ users' = users
          /\ \A o \in Threads \ {th} : todo'[o] = todo[o]
          /\ failed' = failed
      BY <2>4, DelRowPlan
    <3>2. \E g, c : Plan(todo'[th], g, c, my'[th], odd', Len(users'))
      BY <2>4, <3>1, DelRowPlan
    <3> QED
      BY <1>3, <3>1, <3>2
  <2>5. CASE AddRow(th)
    <3>1. /\ Data' /\ UNCHANGED <<sem, odd>> /\ my' = my /\ users' = users
          /\ \A o \in Threads \ {th} : todo'[o] = todo[o]
          /\ failed' = failed
      BY <2>5, AddRowPlan
    <3>2. \E g, c : Plan(todo'[th], g, c, my'[th], odd', Len(users'))
      BY <2>5, <3>1, AddRowPlan
    <3> QED
      BY <1>3, <3>1, <3>2
  <2>6. CASE AddOrder(th)
    <3>1. /\ Data' /\ UNCHANGED <<sem, odd>> /\ my' = my /\ users' = users
          /\ \A o \in Threads \ {th} : todo'[o] = todo[o]
          /\ failed' = failed
      BY <2>6, AddOrderPlan
    <3>2. \E g, c : Plan(todo'[th], g, c, my'[th], odd', Len(users'))
      BY <2>6, <3>1, AddOrderPlan
    <3> QED
      BY <1>3, <3>1, <3>2
  <2>7. CASE DelOrder(th)
    <3>1. /\ Data' /\ UNCHANGED <<sem, odd>> /\ my' = my /\ users' = users
          /\ \A o \in Threads \ {th} : todo'[o] = todo[o]
          /\ failed' = failed
      BY <2>7, DelOrderPlan
    <3>2. \E g, c : Plan(todo'[th], g, c, my'[th], odd', Len(users'))
      BY <2>7, <3>1, DelOrderPlan
    <3> QED
      BY <1>3, <3>1, <3>2
  <2>8. CASE ReadReverse(th)
    <3>1. /\ Data' /\ UNCHANGED <<sem, odd>> /\ my' = my /\ users' = users
          /\ \A o \in Threads \ {th} : todo'[o] = todo[o]
          /\ failed' = failed
      BY <2>8, ReadReversePlan DEF db
    <3>2. \E g, c : Plan(todo'[th], g, c, my'[th], odd', Len(users'))
      BY <2>8, <3>1, ReadReversePlan DEF db
    <3> QED
      BY <1>3, <3>1, <3>2
  <2>9. CASE Consider(th)
    <3>1. /\ Data' /\ UNCHANGED <<sem, odd>> /\ users' = users
          /\ \A o \in Threads \ {th} : todo'[o] = todo[o] /\ my'[o] = my[o]
          /\ failed' = failed
      BY <2>9, ConsiderPlan DEF db
    <3>2. \E g, c : Plan(todo'[th], g, c, my'[th], odd', Len(users'))
      BY <2>9, <3>1, ConsiderPlan DEF db
    <3> QED
      BY <1>3, <3>1, <3>2
  <2>10. CASE Place(th)
    <3>1. /\ Data' /\ UNCHANGED <<sem, odd>> /\ my' = my /\ users' = users
          /\ \A o \in Threads \ {th} : todo'[o] = todo[o]
          /\ failed' = failed
      BY <2>10, PlacePlan DEF db
    <3>2. \E g, c : Plan(todo'[th], g, c, my'[th], odd', Len(users'))
      BY <2>10, <3>1, PlacePlan DEF db
    <3> QED
      BY <1>3, <3>1, <3>2
  <2>11. CASE FindOrder(th)
    <3>1. /\ Data' /\ UNCHANGED <<sem, odd>> /\ my' = my /\ users' = users
          /\ \A o \in Threads \ {th} : todo'[o] = todo[o]
          /\ failed' = failed \/ (failed' = failed \cup {th} /\ todo'[th] = <<>>)
      BY <2>11, FindOrderPlan DEF db
    <3>2. \E g, c : Plan(todo'[th], g, c, my'[th], odd', Len(users'))
      BY <2>11, <3>1, FindOrderPlan DEF db
    <3> QED
      BY <1>3, <3>1, <3>2
  <2> QED
    BY <2>1, <2>2, <2>3, <2>4, <2>5, <2>6, <2>7, <2>8, <2>9, <2>10, <2>11 DEF Work
<1>5. LockInv' /\ Sema!Writers' = Sema!Writers /\ th \notin failed
  BY <1>2, <1>4, LockAtWork
<1> QED
  BY <1>2, <1>4, <1>5 DEF sem

-----------------------------------------------------------------------------
(* Type correctness.                                                       *)

\* The others' plans stay plans.
LEMMA OthersPlans ==
    ASSUME TypeInv, NEW th \in Threads, Data', Len(users) <= Len(users'), odd => odd',
           \A o \in Threads \ {th} : todo'[o] = todo[o] /\ my'[o] = my[o],
           \E f, b : Plan(todo'[th], f, b, my'[th], odd', Len(users'))
    PROVE  TypeInv'
<1>1. Len(users) \in Nat /\ Len(users') \in Nat
  <2>1. Len(users) \in Nat
    BY UsersLength DEF TypeInv
  <2>2. users' \in Seq(Names)
    BY DEF Data, TypeOK
  <2> QED
    BY <2>1, <2>2
<1>2. ASSUME NEW o \in Threads \ {th}
      PROVE  \E f, b : Plan(todo'[o], f, b, my'[o], odd', Len(users'))
  <2>1. PICK f, b : Plan(todo[o], f, b, my[o], odd, Len(users))
    BY DEF TypeInv
  <2>2. Plan(todo[o], f, b, my[o], odd', Len(users'))
    BY <1>1, <2>1, PlanWithMoreUsers
  <2> QED
    BY <2>2
<1> QED
  BY <1>2 DEF TypeInv

\* What a request begins with.
Begins(th, first, tasks) ==
    /\ Begin(th, first, tasks) /\ tasks \in Seq(Waits(odd', Len(users)))
    /\ Ends(tasks, first, odd', Len(users)) /\ (odd => odd') /\ odd' \in BOOLEAN
    /\ \/ ~Placing(tasks) /\ first = NoOrder /\ odd' = odd
       \/ /\ tasks = <<[do |-> "match"]>> /\ first \in Orders(odd', Len(users)) /\ ~first.closed
          /\ odd' \/ CanPay(first)

\* Every request begins so.
LEMMA RequestBegins ==
    ASSUME Data, NEW th \in Threads,
           \/ \E name \in Names : PostUser(th, name)
           \/ \E o \in ClientOrders : PostOrder(th, o)
           \/ \E user \in 1..Len(users) : \E id \in 1..orderPk : CancelOrder(th, user, id)
    PROVE  \E first, tasks : Begins(th, first, tasks)
<1>1. ASSUME NEW name \in Names, PostUser(th, name)
      PROVE  \E first, tasks : Begins(th, first, tasks)
  <2> DEFINE tasks == <<[do |-> "check_name", name |-> name], [do |-> "add_user", name |-> name]>>
  <2>1. Begin(th, NoOrder, tasks) /\ odd' = odd /\ odd \in BOOLEAN
    BY <1>1 DEF PostUser, Data, TypeOK
  <2>2. /\ tasks \in Seq(Waits(odd, Len(users))) /\ Ends(tasks, NoOrder, odd, Len(users))
        /\ ~Placing(tasks)
    BY RequestsEnd
  <2> HIDE DEF tasks
  <2> QED
    BY <2>1, <2>2 DEF Begins
<1>2. ASSUME NEW o \in ClientOrders, PostOrder(th, o)
      PROVE  \E first, tasks : Begins(th, first, tasks)
  <2>1. Begin(th, o, <<[do |-> "match"]>>) /\ odd' = (odd \/ ~Proper(o))
    BY <1>2 DEF PostOrder
  <2>2. odd' \in BOOLEAN /\ (odd => odd') /\ (odd' \/ Proper(o))
    BY <2>1
  <2>3. /\ o \in Orders(odd', Len(users)) /\ ~o.closed
        /\ <<[do |-> "match"]>> \in Seq(Waits(odd', Len(users)))
        /\ Ends(<<[do |-> "match"]>>, o, odd', Len(users))
    BY <2>2, RequestsEnd
  <2>4. odd' \/ CanPay(o)
    BY <2>2 DEF Proper
  <2> QED
    BY <2>1, <2>2, <2>3, <2>4 DEF Begins
<1>3. ASSUME NEW user \in 1..Len(users), NEW id \in 1..orderPk, CancelOrder(th, user, id)
      PROVE  \E first, tasks : Begins(th, first, tasks)
  <2> DEFINE tasks == <<[do |-> "find_order", user |-> user, id |-> id]>>
  <2>1. Begin(th, NoOrder, tasks) /\ odd' = odd /\ odd \in BOOLEAN
    BY <1>3 DEF CancelOrder, Data, TypeOK
  <2>2. /\ tasks \in Seq(Waits(odd, Len(users))) /\ Ends(tasks, NoOrder, odd, Len(users))
        /\ ~Placing(tasks)
    BY RequestsEnd
  <2> HIDE DEF tasks
  <2> QED
    BY <2>1, <2>2 DEF Begins
<1> QED
  BY <1>1, <1>2, <1>3

\* The types and the semaphore in the initial state.
LEMMA TypeInit == Init => TypeInv /\ LockInv
<1> SUFFICES ASSUME Init PROVE TypeInv /\ LockInv
  OBVIOUS
<1>1. /\ users = <<>> /\ userLots = {} /\ lotPk = 0 /\ orders = {} /\ orderPk = 0
      /\ todo = [th \in Threads |-> <<>>] /\ my = [th \in Threads |-> NoOrder]
      /\ failed = {} /\ undone = {} /\ odd = FALSE /\ refused = FALSE
      /\ readerCnt = 0 /\ phase = [c \in Threads |-> "idle"]
      /\ want = [c \in Threads |-> "reading"]
  BY DEF Init, Sema!Init
<1>2. Data
  <2>1. <<>> \in Seq(Names)
    OBVIOUS
  <2>2. odd \in BOOLEAN /\ refused \in BOOLEAN
    BY <1>1
  <2>3. TypeOK
    BY <1>1, <2>1, <2>2 DEF TypeOK
  <2> QED
    BY <1>1, <2>3, FS_EmptySet DEF Data
<1>3. \A th \in Threads : Plan(todo[th], <<>>, <<>>, my[th], odd, Len(users))
  BY <1>1, <1>2, UsersLength, NothingPlanned
<1>4. LockInv
  BY <1>1 DEF LockInv, Sema!Writers, Sema!Holders
<1> QED
  BY <1>2, <1>3, <1>4 DEF TypeInv

\* Every step keeps both.
LEMMA TypeStep == TypeInv /\ LockInv /\ [Next]_vars => TypeInv' /\ LockInv'
<1> SUFFICES ASSUME TypeInv, LockInv, [Next]_vars PROVE TypeInv' /\ LockInv'
  OBVIOUS
<1>1. Data /\ Len(users) \in Nat
  BY UsersLength DEF TypeInv
<1>2. CASE Next
  <2>1. PICK th \in Threads : ThreadNext(th)
    BY <1>2 DEF Next
  <2>2. PICK f, b : Plan(todo[th], f, b, my[th], odd, Len(users))
    BY DEF TypeInv
  <2>3. CASE Work(th)
    <3>1. /\ Data' /\ LockInv' /\ odd' = odd /\ Len(users) <= Len(users')
          /\ \A o \in Threads \ {th} : todo'[o] = todo[o] /\ my'[o] = my[o]
          /\ \E g, c : Plan(todo'[th], g, c, my'[th], odd', Len(users'))
      BY <1>1, <2>2, <2>3, WorkPlan
    <3> QED
      BY <3>1, OthersPlans
  <2>4. CASE Answer(th)
    <3>1. /\ Data' /\ LockInv' /\ users' = users /\ odd' = odd
          /\ Plan(todo'[th], <<>>, <<>>, my'[th], odd', Len(users'))
          /\ \A o \in Threads \ {th} : todo'[o] = todo[o] /\ my'[o] = my[o]
      BY <1>1, <2>2, <2>4, AnswerPlan DEF db
    <3> QED
      BY <1>1, <3>1, OthersPlans
  <2>5. CASE \/ \E name \in Names : PostUser(th, name)
             \/ \E o \in ClientOrders : PostOrder(th, o)
             \/ \E user \in 1..Len(users) : \E id \in 1..orderPk : CancelOrder(th, user, id)
    <3>1. PICK first, tasks : Begins(th, first, tasks)
      BY <1>1, <2>5, RequestBegins
    <3>2. /\ Data' /\ LockInv' /\ users' = users /\ (odd => odd')
          /\ Plan(todo'[th], <<>>, tasks, my'[th], odd', Len(users'))
          /\ \A o \in Threads \ {th} : todo'[o] = todo[o] /\ my'[o] = my[o]
      BY <1>1, <3>1, BeginPlan DEF db, Begins
    <3> QED
      BY <1>1, <3>2, OthersPlans
  <2> QED
    BY <2>1, <2>3, <2>4, <2>5 DEF ThreadNext
<1>3. CASE UNCHANGED vars
  <2>1. /\ users' = users /\ userLots' = userLots /\ lotPk' = lotPk /\ orders' = orders
        /\ orderPk' = orderPk /\ todo' = todo /\ my' = my /\ failed' = failed /\ undone' = undone
        /\ phase' = phase /\ want' = want /\ readerCnt' = readerCnt /\ overlapped' = overlapped
        /\ odd' = odd /\ refused' = refused
    BY <1>3 DEF vars, db, local, history, sem
  <2>2. Data'
    BY <1>1, <2>1, SameData DEF Data, TypeOK, db
  <2>3. TypeInv'
    BY <2>1, <2>2 DEF TypeInv
  <2>4. LockInv'
    BY <2>1 DEF LockInv, Sema!Writers, Sema!Holders
  <2> QED
    BY <2>3, <2>4
<1> QED
  BY <1>2, <1>3

\* TypeOK is an invariant for any number of connections, overlapping or not:
\* orders and balances refer to users that exist, no balance is negative, and
\* the keys of both tables are distinct.
THEOREM TypeCorrect == Spec => []TypeOK
<1>1. TypeInv => TypeOK
  BY DEF TypeInv, Data
<1> QED
  BY <1>1, TypeInit, TypeStep, PTL DEF Spec

-----------------------------------------------------------------------------
(* What a list of tasks contains.                                          *)

Has(f, t) == \E i \in 1..Len(f) : f[i] = t

\* The empty list has nothing, a list of one its task.
LEMMA HasShort ==
    ASSUME NEW T, NEW a \in T, NEW t
    PROVE  ~Has(<<>>, t) /\ (Has(<<a>>, t) <=> t = a)
<1>1. Len(<<>>) = 0 /\ Len(<<a>>) = 1 /\ <<a>>[1] = a
  BY ShortLists
<1>2. \A i \in 1..1 : i = 1
  OBVIOUS
<1> QED
  BY <1>1, <1>2 DEF Has

\* Two lists together have what one of them has.
LEMMA HasJoined ==
    ASSUME NEW T, NEW f \in Seq(T), NEW g \in Seq(T), NEW t
    PROVE  Has(f \o g, t) <=> Has(f, t) \/ Has(g, t)
<1> DEFINE h == f \o g
<1>1. /\ Len(h) = Len(f) + Len(g) /\ Len(f) \in Nat /\ Len(g) \in Nat
      /\ \A i \in 1..(Len(f) + Len(g)) : h[i] = IF i <= Len(f) THEN f[i] ELSE g[i - Len(f)]
  BY ConcatProperties
<1> HIDE DEF h
<1>2. ASSUME NEW i \in 1..Len(h) PROVE Has(f, h[i]) \/ Has(g, h[i])
  <2>1. CASE i <= Len(f)
    BY <1>1, <2>1 DEF Has
  <2>2. CASE ~(i <= Len(f))
    <3>1. i - Len(f) \in 1..Len(g) /\ h[i] = g[i - Len(f)]
      BY <1>1, <2>2
    <3> QED
      BY <3>1 DEF Has
  <2> QED
    BY <2>1, <2>2
<1>3. ASSUME NEW i \in 1..Len(f) PROVE Has(h, f[i])
  <2>1. i \in 1..Len(h) /\ h[i] = f[i]
    BY <1>1
  <2> QED
    BY <2>1 DEF Has
<1>4. ASSUME NEW i \in 1..Len(g) PROVE Has(h, g[i])
  <2>1. i + Len(f) \in 1..Len(h) /\ ~(i + Len(f) <= Len(f)) /\ (i + Len(f)) - Len(f) = i
    BY <1>1
  <2>2. h[i + Len(f)] = g[i]
    BY <1>1, <2>1
  <2> QED
    BY <2>1, <2>2 DEF Has
<1>5. Has(h, t) => Has(f, t) \/ Has(g, t)
  BY <1>2 DEF Has
<1>6. Has(f, t) => Has(h, t)
  BY <1>3 DEF Has
<1>7. Has(g, t) => Has(h, t)
  BY <1>4 DEF Has
<1> QED
  BY <1>5, <1>6, <1>7 DEF h

\* A list has its head and what its tail has.
LEMMA HasHead ==
    ASSUME NEW T, NEW f \in Seq(T), f # <<>>, NEW t
    PROVE  Has(f, t) <=> t = Head(f) \/ Has(Tail(f), t)
<1> DEFINE a == Head(f)
           g == Tail(f)
<1>1. a \in T /\ g \in Seq(T) /\ <<a>> \in Seq(T) /\ f = <<a>> \o g
  OBVIOUS
<1> HIDE DEF a, g
<1>2. Has(<<a>> \o g, t) <=> Has(<<a>>, t) \/ Has(g, t)
  BY <1>1, HasJoined
<1>3. Has(<<a>>, t) <=> t = a
  BY <1>1, HasShort
<1> QED
  BY <1>1, <1>2, <1>3 DEF a, g

\* A list of two has both.
LEMMA HasPair ==
    ASSUME NEW T, NEW a \in T, NEW c \in T, NEW t
    PROVE  Has(<<a, c>>, t) <=> t = a \/ t = c
<1>1. <<a>> \in Seq(T) /\ <<c>> \in Seq(T) /\ <<a, c>> = <<a>> \o <<c>>
  BY ShortLists
<1>2. Has(<<a>>, t) <=> t = a
  BY HasShort
<1>3. Has(<<c>>, t) <=> t = c
  BY HasShort
<1>4. Has(<<a>> \o <<c>>, t) <=> Has(<<a>>, t) \/ Has(<<c>>, t)
  BY <1>1, HasJoined
<1> QED
  BY <1>1, <1>2, <1>3, <1>4

\* Heads and tails of the lists that a change of balance expands into.
LEMMA TwoAndMore ==
    ASSUME NEW T, NEW a \in T, NEW c \in T, NEW g \in Seq(T)
    PROVE  /\ <<a, c>> \o g \in Seq(T) /\ <<a, c>> \o g # <<>>
           /\ Head(<<a, c>> \o g) = a /\ Tail(<<a, c>> \o g) = <<c>> \o g
           /\ <<c>> \o g \in Seq(T) /\ <<c>> \o g # <<>>
           /\ Head(<<c>> \o g) = c /\ Tail(<<c>> \o g) = g
           /\ Head(<<a, c>>) = a /\ Tail(<<a, c>>) = <<c>> /\ <<a, c>> # <<>>
           /\ Head(<<c>>) = c /\ Tail(<<c>>) = <<>> /\ <<c>> # <<>>
<1>1. \A x \in T, h \in Seq(T) : /\ <<x>> \o h \in Seq(T) /\ <<x>> \o h # <<>>
                                 /\ Head(<<x>> \o h) = x /\ Tail(<<x>> \o h) = h
  OBVIOUS
<1>2. <<a>> \in Seq(T) /\ <<c>> \in Seq(T) /\ <<a, c>> = <<a>> \o <<c>>
  BY ShortLists
<1>3. <<a, c>> \o g = <<a>> \o (<<c>> \o g)
  <2> DEFINE s == <<a>>
             u == <<c>>
  <2>1. s \in Seq(T) /\ u \in Seq(T) /\ <<a, c>> = s \o u
    BY <1>2
  <2> HIDE DEF s, u
  <2>2. (s \o u) \o g = s \o (u \o g)
    BY <2>1, JoinedThree
  <2> QED
    BY <2>1, <2>2 DEF s, u
<1>4. <<c>> \o g \in Seq(T) /\ <<c>> \o g # <<>> /\ Head(<<c>> \o g) = c /\ Tail(<<c>> \o g) = g
  BY <1>1
<1> DEFINE h == <<c>> \o g
<1> HIDE DEF h
<1>5. h \in Seq(T)
  BY <1>4 DEF h
<1>6. <<a>> \o h \in Seq(T) /\ <<a>> \o h # <<>> /\ Head(<<a>> \o h) = a /\ Tail(<<a>> \o h) = h
  BY <1>1, <1>5
<1>7. /\ <<a, c>> \o g \in Seq(T) /\ <<a, c>> \o g # <<>>
      /\ Head(<<a, c>> \o g) = a /\ Tail(<<a, c>> \o g) = <<c>> \o g
  BY <1>3, <1>6, Zenon DEF h
<1>8. Head(<<a, c>>) = a /\ Tail(<<a, c>>) = <<c>> /\ <<a, c>> # <<>>
  OBVIOUS
<1>9. Head(<<c>>) = c /\ Tail(<<c>>) = <<>> /\ <<c>> # <<>>
  OBVIOUS
<1> QED
  BY <1>4, <1>7, <1>8, <1>9

\* The tasks of the functions of Crypto.
AddsOrder(o)     == [do |-> "add_order", order |-> o]
DeletesOrder(id) == [do |-> "del_order", id |-> id]

\* create_order adds the order and withdraws what it holds back.
LEMMA CreateOrderHas ==
    ASSUME NEW d, NEW n \in Nat, NEW o \in Orders(d, n), NEW t
    PROVE  Has(CreateOrder(o), t) <=>
              t \in {AddsOrder(o), Change(o.user, LockLot(o), -Locked(o))}
<1>1. AddsOrder(o) \in Ops(d, n) /\ Change(o.user, LockLot(o), -Locked(o)) \in Ops(d, n)
  BY CreateOrderOps DEF AddsOrder
<1>2. CreateOrder(o) = <<AddsOrder(o), Change(o.user, LockLot(o), -Locked(o))>>
  BY DEF CreateOrder, AddsOrder
<1>3. \A x, y \in Ops(d, n) : Has(<<x, y>>, t) <=> t = x \/ t = y
  BY HasPair
<1> QED
  BY <1>1, <1>2, <1>3

\* closed_order does the same after the payment.
LEMMA ClosedOrderHas ==
    ASSUME NEW d, NEW n \in Nat, NEW o \in Orders(d, n), NEW t
    PROVE  Has(ClosedOrder(o), t) <=>
              t \in {Change(o.user, GainLot(o), Gain(o)), AddsOrder(o),
                     Change(o.user, LockLot(o), -Locked(o))}
<1> DEFINE a == Change(o.user, GainLot(o), Gain(o))
<1>1. a \in Ops(d, n) /\ ClosedOrder(o) = <<a>> \o CreateOrder(o)
  BY ClosedOrderOps
<1>2. <<a>> \in Seq(Ops(d, n)) /\ CreateOrder(o) \in Seq(Ops(d, n))
  BY <1>1, ShortLists, CreateOrderOps
<1> HIDE DEF a
<1>3. Has(ClosedOrder(o), t) <=> Has(<<a>>, t) \/ Has(CreateOrder(o), t)
  <2>1. \A f, g \in Seq(Ops(d, n)) : Has(f \o g, t) <=> Has(f, t) \/ Has(g, t)
    BY HasJoined
  <2>2. Has(<<a>> \o CreateOrder(o), t) <=> Has(<<a>>, t) \/ Has(CreateOrder(o), t)
    BY <1>2, <2>1
  <2> QED
    BY <1>1, <2>2, Zenon
<1>4. Has(<<a>>, t) <=> t = a
  BY <1>1, HasShort
<1> QED
  BY <1>3, <1>4, CreateOrderHas DEF a

\* delete_order refunds and deletes.
LEMMA DeleteOrderHas ==
    ASSUME NEW d, NEW n \in Nat, NEW o \in Orders(d, n), NEW t
    PROVE  Has(DeleteOrder(o), t) <=>
              t \in {Change(o.user, LockLot(o), Locked(o)), DeletesOrder(o.id)}
<1>1. DeletesOrder(o.id) \in Ops(d, n) /\ Change(o.user, LockLot(o), Locked(o)) \in Ops(d, n)
  BY DeleteOrderOps DEF DeletesOrder
<1>2. DeleteOrder(o) = <<Change(o.user, LockLot(o), Locked(o)), DeletesOrder(o.id)>>
  BY DEF DeleteOrder, DeletesOrder
<1>3. \A x, y \in Ops(d, n) : Has(<<x, y>>, t) <=> t = x \/ t = y
  BY HasPair
<1> QED
  BY <1>1, <1>2, <1>3

\* A deal deletes the other order, adds the two closed parts and, if the
\* other order was the larger, what is left of it.
LEMMA DealHas ==
    ASSUME NEW d, NEW n \in Nat, NEW m \in Orders(d, n), NEW o \in Orders(d, n), NEW t, Has(Deal(m, o), t)
    PROVE  \/ t.do = "change"
           \/ t = DeletesOrder(o.id)
           \/ t = AddsOrder(ClosedOther(m, o, m.price))
           \/ t = AddsOrder(ClosedMine(m, o))
           \/ o.quantity > m.quantity /\ t = AddsOrder(Part(o, o.quantity - m.quantity))
<1> DEFINE z == DeleteOrder(o)
           x == ClosedOrder(ClosedOther(m, o, m.price))
           y == ClosedOrder(ClosedMine(m, o))
           r == Rest(m, o)
<1>1. ClosedOther(m, o, m.price) \in Orders(d, n) /\ ClosedMine(m, o) \in Orders(d, n)
  BY ClosedFields, OrderFields
<1>2. z \in Seq(Ops(d, n)) /\ x \in Seq(Ops(d, n)) /\ y \in Seq(Ops(d, n)) /\ r \in Seq(Ops(d, n))
  BY <1>1, DeleteOrderOps, ClosedOrderOps, RestOps
<1>3. Deal(m, o) = ((z \o x) \o y) \o r
  BY DealOps
<1>4. \A u, l, s : Change(u, l, s).do = "change"
  BY DEF Change
<1>5. Has(z, t) => t.do = "change" \/ t = DeletesOrder(o.id)
  BY <1>4, DeleteOrderHas
<1>6. Has(x, t) => t.do = "change" \/ t = AddsOrder(ClosedOther(m, o, m.price))
  BY <1>1, <1>4, ClosedOrderHas
<1>7. Has(y, t) => t.do = "change" \/ t = AddsOrder(ClosedMine(m, o))
  BY <1>1, <1>4, ClosedOrderHas
<1>8. Has(r, t) => /\ o.quantity > m.quantity
                   /\ t.do = "change" \/ t = AddsOrder(Part(o, o.quantity - m.quantity))
  <2>1. CASE o.quantity > m.quantity
    <3>1. r = CreateOrder(Part(o, o.quantity - m.quantity))
      BY <2>1 DEF Rest
    <3>2. Part(o, o.quantity - m.quantity) \in Orders(d, n)
      BY <2>1, RestOps
    <3> QED
      BY <1>4, <2>1, <3>1, <3>2, CreateOrderHas
  <2>2. CASE ~(o.quantity > m.quantity)
    <3>1. r = <<>>
      BY <2>2 DEF Rest
    <3> QED
      BY <3>1, HasShort
  <2> QED
    BY <2>1, <2>2
<1> HIDE DEF z, x, y, r
<1>9. z \o x \in Seq(Ops(d, n)) /\ (z \o x) \o y \in Seq(Ops(d, n))
  BY <1>2
<1>10. Has(z \o x, t) => Has(z, t) \/ Has(x, t)
  BY <1>2, HasJoined
<1>11. Has((z \o x) \o y, t) => Has(z \o x, t) \/ Has(y, t)
  BY <1>2, <1>9, HasJoined
<1>12. Has(((z \o x) \o y) \o r, t) => Has((z \o x) \o y, t) \/ Has(r, t)
  <2>1. \A f, g \in Seq(Ops(d, n)) : Has(f \o g, t) => Has(f, t) \/ Has(g, t)
    BY HasJoined
  <2> QED
    BY <1>2, <1>9, <2>1
<1> QED
  BY <1>3, <1>5, <1>6, <1>7, <1>8, <1>10, <1>11, <1>12

\* It does delete the other order.
LEMMA DealDeletes ==
    ASSUME NEW d, NEW n \in Nat, NEW m \in Orders(d, n), NEW o \in Orders(d, n)
    PROVE  Has(Deal(m, o), DeletesOrder(o.id))
<1> DEFINE z == DeleteOrder(o)
           x == ClosedOrder(ClosedOther(m, o, m.price))
           y == ClosedOrder(ClosedMine(m, o))
           r == Rest(m, o)
           t == DeletesOrder(o.id)
<1>1. ClosedOther(m, o, m.price) \in Orders(d, n) /\ ClosedMine(m, o) \in Orders(d, n)
  BY ClosedFields, OrderFields
<1>2. z \in Seq(Ops(d, n)) /\ x \in Seq(Ops(d, n)) /\ y \in Seq(Ops(d, n)) /\ r \in Seq(Ops(d, n))
  BY <1>1, DeleteOrderOps, ClosedOrderOps, RestOps
<1>3. Deal(m, o) = ((z \o x) \o y) \o r
  BY DealOps
<1>4. Has(z, t)
  BY DeleteOrderHas
<1> HIDE DEF z, x, y, r, t
<1>5. z \o x \in Seq(Ops(d, n)) /\ (z \o x) \o y \in Seq(Ops(d, n))
  BY <1>2
<1>6. Has(z \o x, t)
  BY <1>2, <1>4, HasJoined
<1>7. Has((z \o x) \o y, t)
  BY <1>2, <1>5, <1>6, HasJoined
<1>8. Has(((z \o x) \o y) \o r, t)
  BY <1>2, <1>5, <1>7, HasJoined
<1> QED
  BY <1>3, <1>8 DEF t

-----------------------------------------------------------------------------
(* One balance row per user and lot, while one connection works at a time. *)

NoRows(g) == \A t : Has(g, t) => t.do \notin {"add_row", "del_row"}

OneRow(u, l) == \E r \in userLots : BalanceRows(u, l) = {r}

AllRows == \A u \in 1..Len(users), l \in Lots : OneRow(u, l)

\* No row is missing; a row is about to be replaced; it is removed and not
\* yet added; a new user has none of its two rows yet.
RowsThere(f) == NoRows(f) /\ AllRows
RowReplaced(f, r, q, g) ==
    /\ r \in userLots /\ q \in Nat /\ g \in Seq(Ops(odd, Len(users)))
    /\ f = <<Removes(r), Adds(r.user, r.lot, q)>> \o g /\ NoRows(g) /\ AllRows
RowMissing(f, v, k, q, g) ==
    /\ v \in 1..Len(users) /\ k \in Lots /\ q \in Nat /\ g \in Seq(Ops(odd, Len(users)))
    /\ f = <<Adds(v, k, q)>> \o g /\ NoRows(g) /\ BalanceRows(v, k) = {}
    /\ \A u \in 1..Len(users), l \in Lots : OneRow(u, l) \/ (u = v /\ l = k)
RowsMissing(f, v) ==
    /\ v \in 1..Len(users) /\ f = <<NewRow(v, First), NewRow(v, Second)>>
    /\ \A l \in Lots : BalanceRows(v, l) = {}
    /\ \A u \in 1..Len(users), l \in Lots : OneRow(u, l) \/ u = v

RowsGood(f) ==
    \/ RowsThere(f)
    \/ \E r, q, g : RowReplaced(f, r, q, g)
    \/ \E v, k, q, g : RowMissing(f, v, k, q, g)
    \/ \E v : RowsMissing(f, v)

\* Adding a row is an operation ...
LEMMA AddsIsOp ==
    ASSUME NEW d, NEW n \in Nat, NEW u \in 1..n, NEW l \in Lots, NEW q \in Nat
    PROVE  /\ Adds(u, l, q) \in Ops(d, n) /\ Adds(u, l, q).do = "add_row"
           /\ Adds(u, l, q).user = u /\ Adds(u, l, q).lot = l /\ Adds(u, l, q).quantity = q
BY DEF Adds, Ops

\* ... and so is removing one.
LEMMA RemovesIsOp ==
    ASSUME NEW d, NEW n \in Nat, NEW r, r.pk \in Nat
    PROVE  Removes(r) \in Ops(d, n) /\ Removes(r).do = "del_row" /\ Removes(r).pk = r.pk
BY DEF Removes, Ops

\* The fields of a balance row.
LEMMA RowFields ==
    ASSUME Data, NEW r \in userLots
    PROVE  /\ r.pk \in Nat /\ r.pk <= lotPk /\ r.user \in 1..Len(users) /\ r.lot \in Lots
           /\ r.quantity \in Nat /\ r \in BalanceRows(r.user, r.lot)
           /\ Removes(r) \in Ops(odd, Len(users)) /\ Removes(r).do = "del_row"
           /\ Removes(r).pk = r.pk
<1>1. r \in [pk : 1..lotPk, user : 1..Len(users), lot : Lots, quantity : Nat] /\ lotPk \in Nat
  BY DEF Data, TypeOK
<1>2. /\ r.pk \in Nat /\ r.pk <= lotPk /\ r.user \in 1..Len(users) /\ r.lot \in Lots
      /\ r.quantity \in Nat
  BY <1>1
<1>3. Len(users) \in Nat
  BY UsersLength
<1> QED
  BY <1>2, <1>3, RemovesIsOp DEF BalanceRows

\* Behind a task without rows there are none.
LEMMA TailHasNoRows ==
    ASSUME NEW T, NEW f \in Seq(T), f # <<>>, NoRows(f)
    PROVE  NoRows(Tail(f)) /\ Head(f).do \notin {"add_row", "del_row"}
BY HasHead DEF NoRows

\* The first task says which of the four cases it is.
LEMMA RowReplacedHead ==
    ASSUME Data, NEW f, NEW r, NEW q, NEW g, RowReplaced(f, r, q, g)
    PROVE  /\ f # <<>> /\ Head(f) = Removes(r) /\ Head(f).do = "del_row"
           /\ Tail(f) = <<Adds(r.user, r.lot, q)>> \o g
<1>1. /\ r \in userLots /\ q \in Nat /\ g \in Seq(Ops(odd, Len(users)))
      /\ f = <<Removes(r), Adds(r.user, r.lot, q)>> \o g
  BY DEF RowReplaced
<1>2. Removes(r) \in Ops(odd, Len(users)) /\ Removes(r).do = "del_row"
  BY <1>1, RowFields
<1>3. Adds(r.user, r.lot, q) \in Ops(odd, Len(users))
  BY <1>1, UsersLength, RowFields, AddsIsOp
<1> DEFINE T == Ops(odd, Len(users))
           a == Removes(r)
           c == Adds(r.user, r.lot, q)
<1>4. a \in T /\ c \in T /\ g \in Seq(T)
  BY <1>1, <1>2, <1>3
<1> HIDE DEF T, a, c
<1>5. <<a, c>> \o g # <<>>
  BY <1>4, TwoAndMore
<1>6. Head(<<a, c>> \o g) = a
  BY <1>4, TwoAndMore
<1>7. Tail(<<a, c>> \o g) = <<c>> \o g
  BY <1>4, TwoAndMore
<1> QED
  BY <1>1, <1>2, <1>5, <1>6, <1>7, Zenon DEF a, c

\* One row is missing: it is added next.
LEMMA RowMissingHead ==
    ASSUME Data, NEW f, NEW v, NEW k, NEW q, NEW g, RowMissing(f, v, k, q, g)
    PROVE  /\ f # <<>> /\ Head(f) = Adds(v, k, q) /\ Head(f).do = "add_row" /\ Tail(f) = g
           /\ Head(f).user = v /\ Head(f).lot = k
<1>1. /\ v \in 1..Len(users) /\ k \in Lots /\ q \in Nat /\ g \in Seq(Ops(odd, Len(users)))
      /\ f = <<Adds(v, k, q)>> \o g
  BY DEF RowMissing
<1>2. /\ Adds(v, k, q) \in Ops(odd, Len(users)) /\ Adds(v, k, q).do = "add_row"
      /\ Adds(v, k, q).user = v /\ Adds(v, k, q).lot = k
  BY <1>1, UsersLength, AddsIsOp
<1> DEFINE T == Ops(odd, Len(users))
           c == Adds(v, k, q)
<1>3. c \in T /\ g \in Seq(T)
  BY <1>1, <1>2
<1> HIDE DEF T, c
<1>4. <<c>> \o g # <<>> /\ Head(<<c>> \o g) = c /\ Tail(<<c>> \o g) = g
  BY <1>3, TwoAndMore
<1> QED
  BY <1>1, <1>2, <1>4, Zenon DEF c

\* Both rows of a new user are missing: they are added next, one by one.
LEMMA RowsMissingHead ==
    ASSUME Data, NEW f, NEW v, RowsMissing(f, v)
    PROVE  /\ f # <<>> /\ Head(f) = NewRow(v, First) /\ Head(f).do = "add_row"
           /\ Head(f).user = v /\ Head(f).lot = First
           /\ Tail(f) = <<Adds(v, Second, DefaultQuantity)>> \o <<>>
<1>1. v \in 1..Len(users) /\ f = <<NewRow(v, First), NewRow(v, Second)>>
  BY DEF RowsMissing
<1>2. First \in Lots /\ DefaultQuantity \in Nat
  BY AmountsAreNumbers DEF Lots
<1>3. /\ NewRow(v, First).do = "add_row" /\ NewRow(v, First).user = v
      /\ NewRow(v, First).lot = First
  BY DEF NewRow, Adds
<1>4. Head(f) = NewRow(v, First) /\ Tail(f) = <<NewRow(v, Second)>> /\ f # <<>>
  BY <1>1
<1>5. <<NewRow(v, Second)>> = <<Adds(v, Second, DefaultQuantity)>> \o <<>>
  BY DEF NewRow
<1> QED
  BY <1>3, <1>4, <1>5, Zenon

\* No row is missing: the next task is about none.
LEMMA RowsThereHead ==
    ASSUME NEW T, NEW f \in Seq(T), RowsThere(f)
    PROVE  /\ AllRows
           /\ f # <<>> => NoRows(Tail(f)) /\ Head(f).do \notin {"add_row", "del_row"}
BY TailHasNoRows DEF RowsThere

\* Which of the cases holds is known by the next task.
LEMMA RowCases ==
    ASSUME Data, NEW f \in Seq(Ops(odd, Len(users))), RowsGood(f)
    PROVE  /\ f = <<>> => AllRows
           /\ f # <<>> /\ Head(f).do \notin {"add_row", "del_row"} =>
                 NoRows(Tail(f)) /\ AllRows
           /\ f # <<>> /\ Head(f).do = "del_row" => \E r, q, g : RowReplaced(f, r, q, g)
           /\ f # <<>> /\ Head(f).do = "add_row" =>
                 \/ \E v, k, q, g : RowMissing(f, v, k, q, g)
                 \/ \E v : RowsMissing(f, v)
<1>1. CASE RowsThere(f)
  BY <1>1, RowsThereHead
<1>2. CASE \E r, q, g : RowReplaced(f, r, q, g)
  BY <1>2, RowReplacedHead
<1>3. CASE \E v, k, q, g : RowMissing(f, v, k, q, g)
  BY <1>3, RowMissingHead
<1>4. CASE \E v : RowsMissing(f, v)
  BY <1>4, RowsMissingHead
<1> QED
  BY <1>1, <1>2, <1>3, <1>4 DEF RowsGood

\* Tasks that add and remove no row, on a table where no row is missing.
LEMMA RowsStay ==
    ASSUME NEW g, NoRows(g), UNCHANGED <<users, userLots>>,
           AllRows
    PROVE  RowsGood(g)'
<1>1. \A u, l : OneRow(u, l)' = OneRow(u, l)
  BY DEF OneRow, BalanceRows
<1>2. NoRows(g)'
  BY DEF NoRows, Has
<1>3. AllRows'
  BY <1>1 DEF AllRows
<1> QED
  BY <1>2, <1>3 DEF RowsGood, RowsThere

\* The lists that the decisions expand into have no such tasks.
LEMMA CallsHaveNoRows ==
    ASSUME NEW d, NEW n \in Nat, NEW o \in Orders(d, n), NEW m \in Orders(d, n)
    PROVE  NoRows(<<>>) /\ NoRows(CreateOrder(o)) /\ NoRows(DeleteOrder(o)) /\ NoRows(Deal(m, o))
<1>1. /\ \A u, l, s : Change(u, l, s).do \notin {"add_row", "del_row"}
      /\ \A x : AddsOrder(x).do \notin {"add_row", "del_row"}
      /\ \A x : DeletesOrder(x).do \notin {"add_row", "del_row"}
  BY DEF Change, AddsOrder, DeletesOrder
<1>2. NoRows(<<>>)
  BY HasShort DEF NoRows
<1>3. NoRows(CreateOrder(o))
  BY <1>1, CreateOrderHas DEF NoRows
<1>4. NoRows(DeleteOrder(o))
  BY <1>1, DeleteOrderHas DEF NoRows
<1>5. NoRows(Deal(m, o))
  <2>1. SUFFICES ASSUME NEW t, Has(Deal(m, o), t) PROVE t.do \notin {"add_row", "del_row"}
    BY DEF NoRows
  <2>2. \/ t.do = "change"
        \/ t = DeletesOrder(o.id)
        \/ t = AddsOrder(ClosedOther(m, o, m.price))
        \/ t = AddsOrder(ClosedMine(m, o))
        \/ o.quantity > m.quantity /\ t = AddsOrder(Part(o, o.quantity - m.quantity))
    BY <2>1, DealHas
  <2> QED
    BY <1>1, <2>2
<1> QED
  BY <1>2, <1>3, <1>4, <1>5

\* Nothing to do is no row to add or remove.
LEMMA NoRowsInNothing == NoRows(<<>>)
BY HasShort DEF NoRows

\* A change of balance removes the row it read and adds another in its place.
LEMMA RowsAtChange ==
    ASSUME Data, NEW f \in Seq(Ops(odd, Len(users))), f # <<>>, Head(f).do = "change", RowsGood(f),
           UNCHANGED db, odd' = odd, NEW r \in userLots, NEW q \in Nat
    PROVE  RowsGood(<<Removes(r), Adds(r.user, r.lot, q)>> \o Tail(f))'
<1>1. users' = users /\ userLots' = userLots
  BY DEF db
<1>2. NoRows(Tail(f)) /\ AllRows
  BY RowCases
<1>3. AllRows'
  BY <1>1, <1>2 DEF AllRows, OneRow, BalanceRows
<1> DEFINE g == Tail(f)
<1>4. g \in Seq(Ops(odd, Len(users)))
  OBVIOUS
<1> HIDE DEF g
<1>5. g \in Seq(Ops(odd', Len(users'))) /\ NoRows(g) /\ r \in userLots'
  BY <1>1, <1>2, <1>4 DEF g
<1>6. RowReplaced(<<Removes(r), Adds(r.user, r.lot, q)>> \o g, r, q, g)'
  BY <1>3, <1>5 DEF RowReplaced
<1>7. RowsGood(<<Removes(r), Adds(r.user, r.lot, q)>> \o g)'
  BY <1>6 DEF RowsGood
<1> QED
  BY <1>7 DEF g

\* It is refused on a table where no row is missing.
LEMMA RowsAtThrow ==
    ASSUME Data, NEW f \in Seq(Ops(odd, Len(users))), RowsGood(f),
           f = <<>> \/ Head(f).do \notin {"add_row", "del_row"}, UNCHANGED db
    PROVE  RowsGood(<<>>)'
<1>1. users' = users /\ userLots' = userLots
  BY DEF db
<1>2. AllRows
  BY RowCases
<1> QED
  BY <1>1, <1>2, RowsStay, NoRowsInNothing

\* A decision expands into tasks without rows.
LEMMA RowsAtDecision ==
    ASSUME Data, RowsGood(<<>>), UNCHANGED db, NEW g, NoRows(g)
    PROVE  RowsGood(g)'
<1>1. users' = users /\ userLots' = userLots
  BY DEF db
<1>2. <<>> \in Seq(Ops(odd, Len(users)))
  OBVIOUS
<1>3. AllRows
  BY <1>2, RowCases
<1> QED
  BY <1>1, <1>3, RowsStay

\* An order is added or deleted.
LEMMA RowsAtOrder ==
    ASSUME Data, NEW f \in Seq(Ops(odd, Len(users))), f # <<>>, RowsGood(f),
           Head(f).do \in {"add_order", "del_order"}, UNCHANGED <<users, userLots>>
    PROVE  RowsGood(Tail(f))'
<1>1. NoRows(Tail(f)) /\ AllRows
  BY RowCases
<1> QED
  BY <1>1, RowsStay

\* The row read by the change is removed: it is the only one missing.
LEMMA RowsAtDelRow ==
    ASSUME Data, NEW f \in Seq(Ops(odd, Len(users))), f # <<>>, Head(f).do = "del_row", RowsGood(f),
           users' = users, odd' = odd, userLots' = {r \in userLots : r.pk # Head(f).pk}
    PROVE  RowsGood(Tail(f))'
<1>1. PICK r, q, g : RowReplaced(f, r, q, g)
  BY RowCases
<1>2. /\ r \in userLots /\ q \in Nat /\ g \in Seq(Ops(odd, Len(users))) /\ NoRows(g) /\ AllRows
      /\ Head(f) = Removes(r) /\ Tail(f) = <<Adds(r.user, r.lot, q)>> \o g
  BY <1>1, RowReplacedHead DEF RowReplaced
<1>3. /\ r.user \in 1..Len(users) /\ r.lot \in Lots /\ r \in BalanceRows(r.user, r.lot)
      /\ Removes(r).pk = r.pk
  BY <1>2, RowFields
<1>4. userLots' = userLots \ {r}
  <2>1. \A x \in userLots : x.pk = r.pk => x = r
    BY <1>2 DEF Data, TypeOK
  <2>2. Head(f).pk = r.pk
    BY <1>2, <1>3
  <2> QED
    BY <2>1, <2>2
<1>5. BalanceRows(r.user, r.lot)' = {}
  <2>1. PICK x \in userLots : BalanceRows(r.user, r.lot) = {x}
    BY <1>2, <1>3 DEF OneRow, AllRows
  <2>2. BalanceRows(r.user, r.lot) = {r}
    BY <1>3, <2>1
  <2> QED
    BY <1>4, <2>2 DEF BalanceRows
<1>6. ASSUME NEW u \in 1..Len(users'), NEW l \in Lots
      PROVE  OneRow(u, l)' \/ (u = r.user /\ l = r.lot)
  <2>1. PICK x \in userLots : BalanceRows(u, l) = {x}
    BY <1>2 DEF OneRow, AllRows
  <2>2. x.user = u /\ x.lot = l
    BY <2>1 DEF BalanceRows
  <2>3. CASE x = r
    BY <2>2, <2>3
  <2>4. CASE x # r
    <3>1. x \in userLots' /\ BalanceRows(u, l)' = {x}
      BY <1>4, <2>1, <2>4 DEF BalanceRows
    <3> QED
      BY <3>1 DEF OneRow
  <2> QED
    BY <2>3, <2>4
<1>7. RowMissing(Tail(f), r.user, r.lot, q, g)'
  BY <1>2, <1>3, <1>5, <1>6 DEF RowMissing
<1> QED
  BY <1>7 DEF RowsGood

\* The missing row is added, or the first of a new user's two.
LEMMA RowsAtAddRow ==
    ASSUME Data, NEW f \in Seq(Ops(odd, Len(users))), f # <<>>, Head(f).do = "add_row", RowsGood(f),
           users' = users, odd' = odd, NEW pk, userLots' = userLots \cup {Row(pk, Head(f))}
    PROVE  RowsGood(Tail(f))'
<1> DEFINE row == Row(pk, Head(f))
<1>1. /\ row.user = Head(f).user /\ row.lot = Head(f).lot
      /\ \A u, l : BalanceRows(u, l)' =
            IF u = Head(f).user /\ l = Head(f).lot THEN BalanceRows(u, l) \cup {row}
            ELSE BalanceRows(u, l)
  BY DEF Row, BalanceRows
<1>2. row \in userLots'
  OBVIOUS
<1> HIDE DEF row
<1>3. \A u, l : u = Head(f).user /\ l = Head(f).lot /\ BalanceRows(u, l) = {} => OneRow(u, l)'
  <2>1. \A S : S = {} => S \cup {row} = {row}
    OBVIOUS
  <2>2. SUFFICES ASSUME NEW u, NEW l, u = Head(f).user, l = Head(f).lot, BalanceRows(u, l) = {}
                 PROVE  OneRow(u, l)'
    OBVIOUS
  <2>3. BalanceRows(u, l)' = {row}
    BY <1>1, <2>1, <2>2
  <2> QED
    BY <1>2, <2>3 DEF OneRow
<1>4. \A u, l : ~(u = Head(f).user /\ l = Head(f).lot) => (OneRow(u, l) => OneRow(u, l)')
  <2>1. userLots \subseteq userLots'
    OBVIOUS
  <2>2. SUFFICES ASSUME NEW u, NEW l, ~(u = Head(f).user /\ l = Head(f).lot), OneRow(u, l)
                 PROVE  OneRow(u, l)'
    OBVIOUS
  <2>3. PICK x \in userLots : BalanceRows(u, l) = {x}
    BY <2>2 DEF OneRow
  <2>4. BalanceRows(u, l)' = {x}
    BY <1>1, <2>2, <2>3
  <2> QED
    BY <2>1, <2>4 DEF OneRow
<1>5. ASSUME NEW v, NEW k, NEW q, NEW g, RowMissing(f, v, k, q, g)
      PROVE  RowsGood(Tail(f))'
  <2>1. Head(f).user = v /\ Head(f).lot = k /\ Tail(f) = g
    BY <1>5, RowMissingHead
  <2>2. /\ NoRows(g) /\ BalanceRows(v, k) = {}
        /\ \A u \in 1..Len(users), l \in Lots : OneRow(u, l) \/ (u = v /\ l = k)
    BY <1>5 DEF RowMissing
  <2>3. AllRows'
    BY <1>3, <1>4, <2>1, <2>2 DEF AllRows
  <2>4. NoRows(Tail(f))'
    BY <2>1, <2>2 DEF NoRows, Has
  <2> QED
    BY <2>3, <2>4 DEF RowsGood, RowsThere
<1>6. ASSUME NEW v, RowsMissing(f, v)
      PROVE  RowsGood(Tail(f))'
  <2>1. First \in Lots /\ Second \in Lots /\ DefaultQuantity \in Nat /\ First # Second
    BY AmountsAreNumbers DEF Lots, First, Second
  <2>2. /\ Head(f).user = v /\ Head(f).lot = First
        /\ Tail(f) = <<Adds(v, Second, DefaultQuantity)>> \o <<>>
    BY <1>6, RowsMissingHead
  <2>3. /\ v \in 1..Len(users) /\ \A l \in Lots : BalanceRows(v, l) = {}
        /\ \A u \in 1..Len(users), l \in Lots : OneRow(u, l) \/ u = v
    BY <1>6 DEF RowsMissing
  <2>4. BalanceRows(v, Second)' = {}
    <3>1. BalanceRows(v, Second) = {} /\ Second # Head(f).lot
      BY <2>1, <2>2, <2>3
    <3> QED
      BY <1>1, <3>1
  <2>5. \A u \in 1..Len(users'), l \in Lots : OneRow(u, l)' \/ (u = v /\ l = Second)
    <3>1. \A l \in Lots : l = First \/ l = Second
      BY DEF Lots
    <3> QED
      BY <1>3, <1>4, <2>1, <2>2, <2>3, <3>1
  <2>6. <<>> \in Seq(Ops(odd', Len(users'))) /\ NoRows(<<>>)
    BY NoRowsInNothing
  <2>7. RowMissing(Tail(f), v, Second, DefaultQuantity, <<>>)'
    BY <2>1, <2>2, <2>3, <2>4, <2>5, <2>6 DEF RowMissing
  <2> QED
    BY <2>7 DEF RowsGood
<1>7. \/ \E v, k, q, g : RowMissing(f, v, k, q, g)
      \/ \E v : RowsMissing(f, v)
  BY RowCases
<1> QED
  BY <1>5, <1>6, <1>7

\* A new user has no row yet.
LEMMA RowsAtAddUser ==
    ASSUME Data, RowsGood(<<>>), NEW k, k = Len(users) + 1, Len(users') = k, userLots' = userLots
    PROVE  RowsGood(<<NewRow(k, First), NewRow(k, Second)>>)'
<1> DEFINE n == Len(users)
<1>1. n \in Nat /\ k = n + 1
  BY UsersLength
<1>2. <<>> \in Seq(Ops(odd, Len(users)))
  OBVIOUS
<1>3. \A u \in 1..n, l \in Lots : OneRow(u, l)
  BY <1>2, RowCases DEF AllRows
<1>4. \A u, l : OneRow(u, l)' = OneRow(u, l) /\ BalanceRows(u, l)' = BalanceRows(u, l)
  BY DEF OneRow, BalanceRows
<1>5. \A r \in userLots : r.user \in 1..n
  BY RowFields
<1> HIDE DEF n
<1>6. k \in 1..k /\ k \notin 1..n /\ \A u \in 1..k : u \in 1..n \/ u = k
  BY <1>1
<1>7. \A l \in Lots : BalanceRows(k, l)' = {}
  <2>1. SUFFICES ASSUME NEW l \in Lots PROVE BalanceRows(k, l) = {}
    BY <1>4
  <2>2. \A r \in userLots : r.user # k
    BY <1>5, <1>6
  <2> QED
    BY <2>2 DEF BalanceRows
<1>8. \A u \in 1..k, l \in Lots : OneRow(u, l)' \/ u = k
  BY <1>3, <1>4, <1>6
<1>9. RowsMissing(<<NewRow(k, First), NewRow(k, Second)>>, k)'
  BY <1>6, <1>7, <1>8 DEF RowsMissing
<1> QED
  BY <1>9 DEF RowsGood

-----------------------------------------------------------------------------
(* The book of open orders, while one connection works at a time.          *)

\* Two orders that could trade with each other.
Clash(o, p) ==
    /\ o.user # p.user
    /\ o.pair = p.pair
    /\ \/ o.type = "sell" /\ p.type = "buy" /\ o.price <= p.price
       \/ p.type = "sell" /\ o.type = "buy" /\ p.price <= o.price

Opened    == {o \in orders : ~o.closed}
Coming(f) == {o \in Orders(TRUE, Len(users)) : ~o.closed /\ Has(f, AddsOrder(o))}
Kept(f)   == {o \in Opened : ~Has(f, DeletesOrder(o.id))}

NoneClash(S) == \A o, p \in S : ~Clash(o, p)

\* The reverse orders have been read.
Listed(b) == b # <<>> /\ b[Len(b)].do = "place"

\* What the client's order could still trade with is on the list, and what is
\* on the list is still in the book, once.
Faced(f, b, m) ==
    /\ \A p \in Kept(f) :
          Clash(p, m) => \E i \in 1..Len(b) : b[i].do = "consider" /\ b[i].order = p
    /\ \A i \in 1..Len(b) :
          b[i].do = "consider" => b[i].order \in Kept(f) /\ IsReverse(m, b[i].order)
    /\ \A i, j \in 1..Len(b) :
          b[i].do = "consider" /\ b[j].do = "consider" /\ b[i].order = b[j].order => i = j

BookGood(f, b, m) ==
    /\ NoneClash(Opened \cup Coming(f))
    /\ Placing(b) => Coming(f) = {}
    /\ Listed(b) => Faced(f, b, m)

\* An open order of the table is an order, and the only one of its key.
LEMMA OpenedOrders ==
    ASSUME Data, NEW o \in Opened
    PROVE  /\ o \in orders /\ o \in Orders(odd, Len(users)) /\ ~o.closed
           /\ \A p \in orders : p.id = o.id => p = o
BY UsersLength DEF Data, TypeOK, Opened

\* Who has read the reverse orders has an order to place.
LEMMA ListedIsPlacing == ASSUME NEW b, Listed(b) PROVE Placing(b)
BY DEF Listed, Placing

\* Orders of the same user, type and price clash with the same orders.
LEMMA SameClash ==
    ASSUME NEW o, NEW x, x.user = o.user, x.type = o.type, x.price = o.price,
           x.pair = o.pair
    PROVE  \A p : (Clash(x, p) <=> Clash(o, p)) /\ (Clash(p, x) <=> Clash(p, o))
BY DEF Clash

\* Tasks that add and delete no order.
LEMMA BookSame ==
    ASSUME NEW f, NEW g, NEW b, NEW m, BookGood(f, b, m), UNCHANGED <<users, orders>>,
           \A o : Has(g, AddsOrder(o)) <=> Has(f, AddsOrder(o)),
           \A id : Has(g, DeletesOrder(id)) <=> Has(f, DeletesOrder(id))
    PROVE  BookGood(g, b, m)'
<1>1. Opened' = Opened /\ Coming(g)' = Coming(f) /\ Kept(g)' = Kept(f)
  BY DEF Opened, Coming, Kept, Has
<1> QED
  BY <1>1 DEF BookGood, Faced, NoneClash, Placing, Listed

\* A list that adds no open order, while no reverse orders are listed.
LEMMA BookUnread ==
    ASSUME NEW g, NEW c, NEW m, NoneClash(Opened), orders' = orders, ~Listed(c),
           \A o : Has(g, AddsOrder(o)) => o.closed
    PROVE  BookGood(g, c, m)'
<1>1. Opened' = Opened /\ Coming(g)' = {}
  BY DEF Opened, Coming, Has
<1> QED
  BY <1>1 DEF BookGood, NoneClash, Placing, Listed

\* With the orders that are coming, without them too.
LEMMA BookIsNotCrossed ==
    ASSUME NEW f, NEW b, NEW m, BookGood(f, b, m)
    PROVE  NoneClash(Opened)
BY DEF BookGood, NoneClash

\* Nothing to do adds and deletes no order.
LEMMA NothingComes ==
    \A o, id : ~Has(<<>>, AddsOrder(o)) /\ ~Has(<<>>, DeletesOrder(id))
BY HasShort

\* The reverse orders have just been read.
LEMMA BookAtRead ==
    ASSUME Data, NEW b, NEW c, NEW m, BookGood(<<>>, b, m), orders' = orders, Reads(c, m)
    PROVE  BookGood(<<>>, c, m)'
<1>1. Opened' = Opened /\ Coming(<<>>)' = {} /\ Kept(<<>>)' = Opened
  BY NothingComes DEF Opened, Coming, Kept, Has
<1>2. PICK k \in Nat :
        /\ Len(c) = k + 1 /\ c[k + 1].do = "place"
        /\ \A i \in 1..k : c[i].do = "consider" /\ c[i].order \in Facing(m)
        /\ \A o \in Facing(m) : \E i \in 1..k : c[i].order = o
        /\ \A i, j \in 1..k : c[i].order = c[j].order => i = j
  BY DEF Reads
<1>3. 1..k \subseteq 1..Len(c) /\ \A i \in 1..Len(c) : c[i].do = "consider" => i \in 1..k
  BY <1>2
<1>4. Facing(m) = {o \in Opened : IsReverse(m, o)}
  BY DEF Facing, Opened, IsReverse
<1>5. ASSUME NEW p \in Opened, Clash(p, m)
      PROVE  \E i \in 1..Len(c) : c[i].do = "consider" /\ c[i].order = p
  <2>1. p \in Facing(m)
    BY <1>4, <1>5 DEF Clash, IsReverse, Opened
  <2> QED
    BY <1>2, <1>3, <2>1
<1>6. /\ \A i \in 1..Len(c) :
            c[i].do = "consider" => c[i].order \in Opened /\ IsReverse(m, c[i].order)
      /\ \A i, j \in 1..Len(c) :
            c[i].do = "consider" /\ c[j].do = "consider" /\ c[i].order = c[j].order => i = j
  BY <1>2, <1>3, <1>4
<1>7. Faced(<<>>, c, m)'
  BY <1>1, <1>5, <1>6 DEF Faced
<1> QED
  BY <1>1, <1>7 DEF BookGood, NoneClash

\* The first order on the list is passed over: the two cannot trade.
LEMMA BookAtSkip ==
    ASSUME Data, NEW n \in Nat, NEW b \in Seq(Waits(odd, n)), b # <<>>, NEW m \in Orders(odd, n),
           Ends(b, m, odd, n), b[1].do = "consider", BookGood(<<>>, b, m), orders' = orders,
           b[1].order.user = m.user \/ ~IsProfit(m, b[1].order), b[1].order \in Orders(odd, n)
    PROVE  BookGood(<<>>, Tail(b), m)'
<1> DEFINE c == Tail(b)
           o == b[1].order
<1>1. /\ Len(c) = Len(b) - 1 /\ Len(b) \in Nat /\ Len(c) \in Nat
      /\ \A i \in 1..Len(c) : i + 1 \in 1..Len(b) /\ c[i] = b[i + 1]
      /\ \A i \in 2..Len(b) : i - 1 \in 1..Len(c) /\ c[i - 1] = b[i]
      /\ c # <<>> => c[Len(c)] = b[Len(b)]
  BY TailOfBack
<1>2. Placing(b) /\ Placing(c)
  BY EndsOfTail
<1>3. 1 \in 1..Len(b) /\ b[Len(b)].do = "place"
  <2>1. 1 \in 1..Len(b)
    BY <1>1, <1>2 DEF Placing
  <2> QED
    BY <2>1 DEF Ends
<1>4. Opened' = Opened /\ Coming(<<>>)' = {} /\ Kept(<<>>)' = Opened /\ Kept(<<>>) = Opened
  BY NothingComes DEF Opened, Coming, Kept, Has
<1>5. Faced(<<>>, b, m)
  BY <1>2, <1>3 DEF BookGood, Listed, Placing
<1>6. ~Clash(o, m)
  <2>1. /\ o.price \in Int /\ m.price \in Int
        /\ o.type \in Types /\ m.type \in Types
    BY OrderFields
  <2> QED
    BY <2>1 DEF Clash, IsProfit
<1> HIDE DEF c, o
<1>7. ASSUME NEW p \in Opened, Clash(p, m)
      PROVE  \E i \in 1..Len(c) : c[i].do = "consider" /\ c[i].order = p
  <2>1. PICK i \in 1..Len(b) : b[i].do = "consider" /\ b[i].order = p
    BY <1>4, <1>5, <1>7 DEF Faced
  <2>2. i # 1
    BY <1>6, <1>7, <2>1 DEF o
  <2>3. i \in 2..Len(b)
    BY <1>1, <2>1, <2>2
  <2> QED
    BY <1>1, <2>1, <2>3
<1>8. ASSUME NEW i \in 1..Len(c), c[i].do = "consider"
      PROVE  c[i].order \in Opened /\ IsReverse(m, c[i].order)
  BY <1>1, <1>4, <1>5, <1>8 DEF Faced
<1>9. ASSUME NEW i \in 1..Len(c), NEW j \in 1..Len(c), c[i].do = "consider",
             c[j].do = "consider", c[i].order = c[j].order
      PROVE  i = j
  <2>1. i + 1 \in 1..Len(b) /\ j + 1 \in 1..Len(b) /\ c[i] = b[i + 1] /\ c[j] = b[j + 1]
    BY <1>1
  <2>2. i + 1 = j + 1
    BY <1>5, <1>9, <2>1 DEF Faced
  <2> QED
    BY <1>1, <2>2
<1>10. Faced(<<>>, c, m)'
  BY <1>4, <1>7, <1>8, <1>9 DEF Faced
<1>11. BookGood(<<>>, c, m)'
  BY <1>4, <1>10 DEF BookGood, NoneClash
<1> QED
  BY <1>11 DEF c

\* A deal: the other order goes; what is left of it clashes with nothing, as
\* it did not; the others on the list stay in the book.
LEMMA BookAtDeal ==
    ASSUME Data, NEW b \in Seq(Waits(odd, Len(users))), b # <<>>, NEW m \in Orders(odd, Len(users)),
           Ends(b, m, odd, Len(users)), b[1].do = "consider", b[1].order \in Orders(odd, Len(users)),
           BookGood(<<>>, b, m), UNCHANGED <<users, orders>>, NEW c, NEW x,
           c = <<>> \/ /\ c = Tail(b) /\ Left(m, b[1].order) # 0
                       /\ x = Part(m, Left(m, b[1].order)) /\ x \in Orders(odd, Len(users))
    PROVE  BookGood(Deal(m, b[1].order), c, x)'
<1> DEFINE n == Len(users)
           o == b[1].order
           g == Deal(m, o)
<1>1. n \in Nat /\ Len(users') = n
  BY UsersLength
<1>2. /\ Len(Tail(b)) = Len(b) - 1 /\ Len(b) \in Nat /\ Len(Tail(b)) \in Nat
      /\ \A i \in 1..Len(Tail(b)) : i + 1 \in 1..Len(b) /\ Tail(b)[i] = b[i + 1]
      /\ \A i \in 2..Len(b) : i - 1 \in 1..Len(Tail(b)) /\ Tail(b)[i - 1] = b[i]
  BY <1>1, TailOfBack
<1>3. Placing(b)
  BY <1>1, EndsOfTail
<1>4. 1 \in 1..Len(b) /\ b[Len(b)].do = "place"
  <2>1. 1 \in 1..Len(b)
    BY <1>2, <1>3 DEF Placing
  <2> QED
    BY <2>1 DEF Ends
<1>5. Faced(<<>>, b, m)
  BY <1>3, <1>4 DEF BookGood, Listed, Placing
<1>6. Opened' = Opened /\ Kept(<<>>) = Opened
  BY NothingComes DEF Opened, Kept
<1>7. o \in Opened /\ \A p \in Opened : p.id = o.id => p = o
  <2>1. o \in Opened
    BY <1>4, <1>5, <1>6 DEF Faced
  <2> QED
    BY <2>1, OpenedOrders
<1>8. NoneClash(Opened)
  BY BookIsNotCrossed
<1> HIDE DEF n, o, g
<1>9. o \in Orders(odd, n) /\ m \in Orders(odd, n)
  BY DEF o, n
<1>10. ASSUME NEW y \in Coming(g)'
       PROVE  /\ o.quantity > m.quantity
              /\ y.user = o.user /\ y.type = o.type /\ y.price = o.price /\ y.pair = o.pair
  <2>1. ~y.closed /\ Has(g, AddsOrder(y))
    BY DEF Coming, Has
  <2>2. \/ AddsOrder(y).do = "change"
        \/ AddsOrder(y) = DeletesOrder(o.id)
        \/ AddsOrder(y) = AddsOrder(ClosedOther(m, o, m.price))
        \/ AddsOrder(y) = AddsOrder(ClosedMine(m, o))
        \/ o.quantity > m.quantity /\ AddsOrder(y) = AddsOrder(Part(o, o.quantity - m.quantity))
    BY <1>1, <1>9, <2>1, DealHas DEF g
  <2>3. AddsOrder(y).do = "add_order" /\ DeletesOrder(o.id).do = "del_order"
    BY DEF AddsOrder, DeletesOrder
  <2>4. \A u, v : AddsOrder(u) = AddsOrder(v) => u = v
    BY DEF AddsOrder
  <2>5. ClosedOther(m, o, m.price).closed /\ ClosedMine(m, o).closed
    <3>1. m.price \in Int /\ (odd \/ m.price \in Nat)
      BY <1>1, <1>9, OrderFields
    <3> QED
      BY <1>1, <1>9, <3>1, ClosedFields
  <2>6. o.quantity > m.quantity /\ y = Part(o, o.quantity - m.quantity)
    BY <2>1, <2>2, <2>3, <2>4, <2>5
  <2>7. o.quantity - m.quantity \in Nat \ {0}
    BY <1>1, <1>9, <2>6, RestOps
  <2>8. LET z == Part(o, o.quantity - m.quantity)
        IN  /\ z.user = o.user /\ z.type = o.type /\ z.price = o.price /\ z.pair = o.pair
    BY <1>1, <1>9, <2>7, PartFields
  <2> QED
    BY <2>6, <2>8
<1>11. NoneClash((Opened \cup Coming(g))')
  <2>1. ASSUME NEW p \in Opened', NEW q \in Opened' PROVE ~Clash(p, q)
    BY <1>6, <1>8 DEF NoneClash
  <2>2. ASSUME NEW p \in Coming(g)', NEW q \in Opened' PROVE ~Clash(p, q) /\ ~Clash(q, p)
    <3>1. /\ Clash(p, q) <=> Clash(o, q)
          /\ Clash(q, p) <=> Clash(q, o)
      BY <1>10, SameClash
    <3> QED
      BY <1>6, <1>7, <1>8, <3>1 DEF NoneClash
  <2>3. ASSUME NEW p \in Coming(g)', NEW q \in Coming(g)' PROVE ~Clash(p, q)
    BY <1>10 DEF Clash
  <2> QED
    BY <2>1, <2>2, <2>3 DEF NoneClash
<1>12. CASE c = <<>>
  <2>1. ~Placing(c) /\ ~Listed(c)
    BY <1>12 DEF Placing, Listed
  <2> QED
    BY <1>11, <2>1 DEF BookGood, NoneClash, g, o
<1>13. CASE c = Tail(b) /\ Left(m, o) # 0 /\ x = Part(m, Left(m, o)) /\ x \in Orders(odd, n)
  <2>1. ~(o.quantity > m.quantity)
    <3>1. o.quantity \in Int /\ m.quantity \in Int
      BY <1>1, <1>9, OrderFields
    <3> QED
      BY <1>13, <3>1 DEF Left, Smaller
  <2>2. Coming(g)' = {}
    BY <1>10, <2>1
  <2>3. x.user = m.user /\ x.type = m.type /\ x.price = m.price /\ x.pair = m.pair
    BY <1>9, <1>13 DEF Part, Orders
  <2>4. Kept(g)' = Opened \ {o}
    <3>1. \A id : Has(g, DeletesOrder(id)) => id = o.id
      <4>1. SUFFICES ASSUME NEW id, Has(g, DeletesOrder(id)) PROVE id = o.id
        OBVIOUS
      <4>2. \/ DeletesOrder(id).do = "change"
            \/ DeletesOrder(id) = DeletesOrder(o.id)
            \/ DeletesOrder(id) = AddsOrder(ClosedOther(m, o, m.price))
            \/ DeletesOrder(id) = AddsOrder(ClosedMine(m, o))
            \/ DeletesOrder(id) = AddsOrder(Part(o, o.quantity - m.quantity))
        BY <1>1, <1>9, <4>1, DealHas DEF g
      <4>3. /\ DeletesOrder(id).do = "del_order" /\ DeletesOrder(id).id = id
            /\ DeletesOrder(o.id).id = o.id /\ \A u : AddsOrder(u).do = "add_order"
        BY DEF AddsOrder, DeletesOrder
      <4> QED
        BY <4>2, <4>3
    <3>2. Has(g, DeletesOrder(o.id))
      BY <1>1, <1>9, DealDeletes DEF g
    <3>3. \A p \in Opened : Has(g, DeletesOrder(p.id)) <=> p = o
      BY <1>7, <3>1, <3>2
    <3>4. Kept(g)' = {p \in Opened : ~Has(g, DeletesOrder(p.id))}
      BY <1>6 DEF Kept, Has
    <3> QED
      BY <3>3, <3>4
  <2>5. ASSUME NEW p \in Opened \ {o}, Clash(p, x)
        PROVE  \E i \in 1..Len(c) : c[i].do = "consider" /\ c[i].order = p
    <3>1. Clash(p, m)
      BY <2>3, <2>5, SameClash
    <3>2. PICK i \in 1..Len(b) : b[i].do = "consider" /\ b[i].order = p
      BY <1>5, <1>6, <2>5, <3>1 DEF Faced
    <3>3. i # 1
      BY <2>5, <3>2 DEF o
    <3>4. i \in 2..Len(b)
      BY <1>2, <3>2, <3>3
    <3> QED
      BY <1>2, <1>13, <3>2, <3>4
  <2>6. ASSUME NEW i \in 1..Len(c), c[i].do = "consider"
        PROVE  c[i].order \in Opened \ {o} /\ IsReverse(x, c[i].order)
    <3>1. i + 1 \in 1..Len(b) /\ c[i] = b[i + 1] /\ i + 1 # 1
      BY <1>2, <1>13
    <3>2. c[i].order \in Opened /\ IsReverse(m, c[i].order)
      BY <1>5, <1>6, <2>6, <3>1 DEF Faced
    <3>3. c[i].order # o
      BY <1>4, <1>5, <2>6, <3>1 DEF Faced, o
    <3> QED
      BY <2>3, <3>2, <3>3 DEF IsReverse
  <2>7. ASSUME NEW i \in 1..Len(c), NEW j \in 1..Len(c), c[i].do = "consider",
               c[j].do = "consider", c[i].order = c[j].order
        PROVE  i = j
    <3>1. i + 1 \in 1..Len(b) /\ j + 1 \in 1..Len(b) /\ c[i] = b[i + 1] /\ c[j] = b[j + 1]
      BY <1>2, <1>13
    <3>2. i + 1 = j + 1
      BY <1>5, <2>7, <3>1 DEF Faced
    <3>3. i \in Int /\ j \in Int
      BY <1>2, <1>13
    <3> QED
      BY <3>2, <3>3
  <2>8. Faced(g, c, x)'
    BY <2>4, <2>5, <2>6, <2>7 DEF Faced
  <2> QED
    BY <1>11, <2>2, <2>8 DEF BookGood, NoneClash, g, o
<1> QED
  BY <1>12, <1>13 DEF o, n

\* The client's order is about to be placed: nothing is left to trade with.
LEMMA BookAtPlace ==
    ASSUME Data, NEW b, NEW m \in Orders(odd, Len(users)), Len(b) = 1, b[1].do = "place",
           BookGood(<<>>, b, m), UNCHANGED <<users, orders>>
    PROVE  BookGood(CreateOrder(m), <<>>, m)'
<1>1. Len(users) \in Nat
  BY UsersLength
<1>2. Opened' = Opened /\ Kept(<<>>) = Opened /\ NoneClash(Opened)
  BY NothingComes, BookIsNotCrossed DEF Opened, Kept
<1>3. Faced(<<>>, b, m)
  BY DEF BookGood, Listed
<1>4. \A i \in 1..Len(b) : i = 1
  OBVIOUS
<1>5. \A p \in Opened : ~Clash(p, m) /\ ~Clash(m, p)
  <2>1. \A p \in Opened : ~Clash(p, m)
    BY <1>2, <1>3, <1>4 DEF Faced
  <2> QED
    BY <2>1 DEF Clash
<1>6. \A y \in Coming(CreateOrder(m))' : y = m
  <2>1. SUFFICES ASSUME NEW y, Has(CreateOrder(m), AddsOrder(y)) PROVE y = m
    BY DEF Coming, Has
  <2>2. AddsOrder(y) \in {AddsOrder(m), Change(m.user, LockLot(m), -Locked(m))}
    BY <1>1, <2>1, CreateOrderHas
  <2> QED
    BY <2>2 DEF AddsOrder, Change
<1>7. NoneClash((Opened \cup Coming(CreateOrder(m)))')
  BY <1>2, <1>5, <1>6 DEF NoneClash, Clash
<1>8. ~Placing(<<>>) /\ ~Listed(<<>>)
  BY DEF Placing, Listed
<1> QED
  BY <1>7, <1>8 DEF BookGood, NoneClash

\* An order comes into the book: it clashes with nothing there.
LEMMA BookAtAddOrder ==
    ASSUME Data, NEW f \in Seq(Ops(odd, Len(users))), f # <<>>, Head(f).do = "add_order",
           NEW b, NEW m, BookGood(f, b, m), users' = users, NEW id \in Nat,
           orders' = orders \cup {WithId(Head(f).order, id)},
           \A o \in orders : o.id # id
    PROVE  BookGood(Tail(f), b, m)'
<1> DEFINE n == Len(users)
           o == Head(f).order
           x == WithId(o, id)
           g == Tail(f)
<1>1. n \in Nat /\ Len(users') = n
  BY UsersLength
<1>2. Head(f) \in Ops(odd, n) /\ g \in Seq(Ops(odd, n))
  OBVIOUS
<1>3. o \in Orders(odd, n) /\ Head(f) = AddsOrder(o)
  <2>1. Head(f) \in [do : {"add_order"}, order : Orders(odd, n)]
    BY <1>2 DEF Ops
  <2> QED
    BY <2>1 DEF AddsOrder
<1>4. /\ x \in Orders(odd, n) /\ x.user = o.user /\ x.type = o.type /\ x.price = o.price /\ x.pair = o.pair
      /\ x.closed = o.closed
  <2> HIDE DEF n, o
  <2> QED
    BY <1>1, <1>3, WithIdFields DEF x
<1>5. \A t : Has(f, t) <=> t = Head(f) \/ Has(g, t)
  BY HasHead
<1>6. \A y : DeletesOrder(y) # Head(f)
  BY <1>3 DEF AddsOrder, DeletesOrder
<1>7. Opened' = IF o.closed THEN Opened ELSE Opened \cup {x}
  BY <1>4 DEF Opened
<1>8. /\ Coming(g)' = {y \in Orders(TRUE, n) : ~y.closed /\ Has(g, AddsOrder(y))}
      /\ Coming(g)' \subseteq Coming(f)
  <2>1. Coming(g)' = {y \in Orders(TRUE, n) : ~y.closed /\ Has(g, AddsOrder(y))}
    BY <1>1 DEF Coming, Has
  <2> QED
    BY <1>5, <2>1 DEF Coming
<1>9. ~o.closed => o \in Coming(f)
  BY <1>3, <1>5 DEF Coming, Orders
<1>10. NoneClash(Opened \cup Coming(f))
  BY DEF BookGood
<1> HIDE DEF g, x, o, n
<1>11. NoneClash((Opened \cup Coming(g))')
  <2>1. CASE o.closed
    BY <1>7, <1>8, <1>10, <2>1 DEF NoneClash
  <2>2. CASE ~o.closed
    <3>1. ASSUME NEW p \in Opened \cup Coming(f) PROVE ~Clash(x, p) /\ ~Clash(p, x)
      <4>1. ~Clash(o, p) /\ ~Clash(p, o)
        BY <1>9, <1>10, <2>2 DEF NoneClash
      <4> QED
        BY <1>4, <4>1, SameClash
    <3>2. ~Clash(x, x)
      BY DEF Clash
    <3> QED
      BY <1>7, <1>8, <1>10, <2>2, <3>1, <3>2 DEF NoneClash
  <2> QED
    BY <2>1, <2>2
<1>12. Placing(b) => Coming(g)' = {} /\ o.closed
  BY <1>8, <1>9 DEF BookGood
<1>13. Placing(b) => Kept(g)' = Kept(f)
  <2>1. ASSUME Placing(b) PROVE Kept(g)' = Kept(f)
    <3>1. Opened' = Opened
      BY <1>7, <1>12, <2>1
    <3>2. \A y : Has(g, DeletesOrder(y)) <=> Has(f, DeletesOrder(y))
      BY <1>5, <1>6
    <3> QED
      BY <3>1, <3>2 DEF Kept, Has
  <2> QED
    BY <2>1
<1>14. ASSUME Listed(b) PROVE Faced(g, b, m)'
  <2>1. Kept(g)' = Kept(f) /\ Faced(f, b, m)
    BY <1>13, <1>14, ListedIsPlacing DEF BookGood
  <2> QED
    BY <2>1 DEF Faced
<1>15. BookGood(g, b, m)'
  BY <1>11, <1>12, <1>14 DEF BookGood, NoneClash, Placing, Listed
<1> QED
  BY <1>15 DEF g

\* An order leaves the book: it was to be deleted.
LEMMA BookAtDelOrder ==
    ASSUME Data, NEW f \in Seq(Ops(odd, Len(users))), f # <<>>, Head(f).do = "del_order",
           NEW b, NEW m, BookGood(f, b, m), users' = users,
           orders' = {o \in orders : o.id # Head(f).id}
    PROVE  BookGood(Tail(f), b, m)'
<1> DEFINE n == Len(users)
           id == Head(f).id
           g == Tail(f)
<1>1. n \in Nat /\ Len(users') = n
  BY UsersLength
<1>2. Head(f) \in Ops(odd, n)
  OBVIOUS
<1>3. Head(f) = DeletesOrder(id)
  <2>1. Head(f) \in [do : {"del_order"}, id : Nat]
    BY <1>2 DEF Ops
  <2> QED
    BY <2>1 DEF DeletesOrder
<1>4. \A t : Has(f, t) <=> t = Head(f) \/ Has(g, t)
  BY HasHead
<1>5. \A y : AddsOrder(y) # Head(f)
  BY <1>3 DEF AddsOrder, DeletesOrder
<1>6. \A y : DeletesOrder(y) = Head(f) <=> y = id
  BY <1>3 DEF DeletesOrder
<1>7. Opened' = {o \in Opened : o.id # id}
  BY DEF Opened
<1> HIDE DEF g, id, n
<1>8. Coming(g)' = Coming(f)
  <2>1. Coming(g)' = {y \in Orders(TRUE, n) : ~y.closed /\ Has(g, AddsOrder(y))}
    BY <1>1 DEF Coming, Has
  <2> QED
    BY <1>4, <1>5, <2>1 DEF Coming, n
<1>9. Kept(g)' = Kept(f)
  <2>1. Kept(g)' = {o \in Opened : o.id # id /\ ~Has(g, DeletesOrder(o.id))}
    BY <1>7 DEF Kept, Has
  <2> QED
    BY <1>4, <1>6, <2>1 DEF Kept
<1>10. NoneClash((Opened \cup Coming(g))')
  BY <1>7, <1>8 DEF BookGood, NoneClash
<1>11. ASSUME Listed(b) PROVE Faced(g, b, m)'
  BY <1>9, <1>11 DEF BookGood, Faced
<1>12. BookGood(g, b, m)'
  BY <1>8, <1>10, <1>11 DEF BookGood, NoneClash, Placing, Listed
<1> QED
  BY <1>12 DEF g

-----------------------------------------------------------------------------
(* Accounts: what a list of tasks does to one.                             *)

\* The account starts at a, task after task moves it by D, it ends at e and
\* never leaves S.
Path(S, D, f, a, e) ==
    \E h \in [0..Len(f) -> S] :
        h[0] = a /\ h[Len(f)] = e /\ \A i \in 1..Len(f) : h[i] = h[i - 1] + D[f[i]]

\* No task moves it.
LEMMA PathNone ==
    ASSUME NEW S, NEW D, NEW a \in S
    PROVE  Path(S, D, <<>>, a, a)
<1> DEFINE h == [i \in 0..Len(<<>>) |-> a]
<1>1. Len(<<>>) = 0
  OBVIOUS
<1>2. h \in [0..Len(<<>>) -> S] /\ h[0] = a /\ h[Len(<<>>)] = a
  BY <1>1
<1>3. \A i \in 1..Len(<<>>) : h[i] = h[i - 1] + D[<<>>[i]]
  BY <1>1
<1> HIDE DEF h
<1> QED
  BY <1>2, <1>3 DEF Path

\* With nothing left to do the account is where it ends.
LEMMA PathEnd ==
    ASSUME NEW S, NEW D, NEW a, NEW e, Path(S, D, <<>>, a, e)
    PROVE  a = e /\ a \in S
BY DEF Path

\* One task moves it once.
LEMMA PathOne ==
    ASSUME NEW S, NEW T, NEW t \in T, NEW D, NEW a \in S, a + D[t] \in S
    PROVE  Path(S, D, <<t>>, a, a + D[t])
<1> DEFINE s == <<t>>
           h == [i \in 0..1 |-> IF i = 0 THEN a ELSE a + D[t]]
<1>1. Len(s) = 1 /\ s[1] = t
  BY ShortLists
<1>2. h \in [0..1 -> S] /\ h[0] = a /\ h[1] = a + D[t]
  OBVIOUS
<1> HIDE DEF s, h
<1>3. \A i \in 1..Len(s) : h[i] = h[i - 1] + D[s[i]]
  <2>1. \A i \in 1..1 : i = 1 /\ i - 1 = 0
    OBVIOUS
  <2> QED
    BY <1>1, <1>2, <2>1
<1>4. Path(S, D, s, a, a + D[t])
  BY <1>1, <1>2, <1>3 DEF Path
<1> QED
  BY <1>4 DEF s

\* One list after the other.
LEMMA PathJoined ==
    ASSUME NEW S, NEW T, NEW D, NEW f \in Seq(T), NEW g \in Seq(T), NEW a, NEW c, NEW e,
           Path(S, D, f, a, c), Path(S, D, g, c, e)
    PROVE  Path(S, D, f \o g, a, e)
<1>1. PICK h \in [0..Len(f) -> S] :
          h[0] = a /\ h[Len(f)] = c /\ \A i \in 1..Len(f) : h[i] = h[i - 1] + D[f[i]]
  BY DEF Path
<1>2. PICK k \in [0..Len(g) -> S] :
          k[0] = c /\ k[Len(g)] = e /\ \A i \in 1..Len(g) : k[i] = k[i - 1] + D[g[i]]
  BY DEF Path
<1> DEFINE x == Len(f)
           y == Len(g)
           s == f \o g
           j == [i \in 0..(x + y) |-> IF i <= x THEN h[i] ELSE k[i - x]]
<1>3. /\ x \in Nat /\ y \in Nat /\ Len(s) = x + y
      /\ \A i \in 1..(x + y) : s[i] = IF i <= x THEN f[i] ELSE g[i - x]
  BY ConcatProperties
<1>4. \A i \in 0..(x + y) : j[i] = IF i <= x THEN h[i] ELSE k[i - x]
  OBVIOUS
<1> HIDE DEF s, x, y
<1>5. ASSUME NEW i \in 0..(x + y)
      PROVE  j[i] \in S /\ (i <= x => i \in 0..x) /\ (~(i <= x) => i - x \in 0..y)
  <2>1. (i <= x => i \in 0..x) /\ (~(i <= x) => i - x \in 0..y)
    BY <1>3
  <2>2. (i <= x => h[i] \in S) /\ (~(i <= x) => k[i - x] \in S)
    BY <1>1, <1>2, <2>1 DEF x, y
  <2> QED
    BY <1>4, <2>1, <2>2
<1>6. j \in [0..(x + y) -> S]
  BY <1>5
<1> HIDE DEF j
<1>7. j[0] = a
  <2>1. 0 \in 0..(x + y) /\ 0 <= x
    BY <1>3
  <2> QED
    BY <1>1, <1>4, <2>1
<1>8. j[x + y] = e
  <2>1. CASE y = 0
    <3>1. x + y = x /\ x \in 0..(x + y) /\ x <= x
      BY <1>3, <2>1
    <3> QED
      BY <1>1, <1>2, <1>4, <2>1, <3>1 DEF x, y
  <2>2. CASE y # 0
    <3>1. x + y \in 0..(x + y) /\ ~(x + y <= x) /\ (x + y) - x = y
      BY <1>3, <2>2
    <3> QED
      BY <1>2, <1>4, <3>1 DEF y
  <2> QED
    BY <2>1, <2>2
<1>9. ASSUME NEW i \in 1..(x + y) PROVE j[i] = j[i - 1] + D[s[i]]
  <2>1. i \in 0..(x + y) /\ i - 1 \in 0..(x + y)
    BY <1>3
  <2>2. CASE i <= x
    <3>1. i \in 1..x /\ i - 1 <= x
      BY <1>3, <2>2
    <3>2. h[i] = h[i - 1] + D[f[i]]
      BY <1>1, <3>1 DEF x
    <3> QED
      BY <1>3, <1>4, <2>1, <2>2, <3>1, <3>2
  <2>3. CASE ~(i <= x)
    <3>1. i - x \in 1..y /\ (i - x) - 1 = (i - 1) - x
      BY <1>3, <2>3
    <3>2. k[i - x] = k[(i - 1) - x] + D[g[i - x]]
      BY <1>2, <3>1 DEF y
    <3>3. CASE i - 1 <= x
      <4>1. i - 1 = x /\ (i - 1) - x = 0
        BY <1>3, <2>3, <3>3
      <4>2. j[i - 1] = k[0]
        BY <1>1, <1>2, <1>4, <2>1, <3>3, <4>1 DEF x
      <4> QED
        BY <1>3, <1>4, <2>1, <2>3, <3>2, <4>1, <4>2
    <3>4. CASE ~(i - 1 <= x)
      BY <1>3, <1>4, <2>1, <2>3, <3>2, <3>4
    <3> QED
      BY <3>3, <3>4
  <2> QED
    BY <2>2, <2>3
<1>10. Path(S, D, s, a, e)
  BY <1>3, <1>6, <1>7, <1>8, <1>9 DEF Path
<1> QED
  BY <1>10 DEF s

\* The first task is done.
LEMMA PathHead ==
    ASSUME NEW S, NEW T, NEW D, NEW f \in Seq(T), f # <<>>, NEW a, NEW e, Path(S, D, f, a, e)
    PROVE  /\ a \in S /\ a + D[Head(f)] \in S
           /\ Path(S, D, Tail(f), a + D[Head(f)], e)
<1>1. PICK h \in [0..Len(f) -> S] :
          h[0] = a /\ h[Len(f)] = e /\ \A i \in 1..Len(f) : h[i] = h[i - 1] + D[f[i]]
  BY DEF Path
<1> DEFINE x == Len(f)
           g == Tail(f)
           k == [i \in 0..(x - 1) |-> h[i + 1]]
<1>2. /\ x \in Nat /\ x >= 1 /\ Len(g) = x - 1 /\ Head(f) = f[1]
      /\ \A i \in 1..(x - 1) : g[i] = f[i + 1]
  OBVIOUS
<1>3. \A i \in 0..(x - 1) : k[i] = h[i + 1]
  OBVIOUS
<1> HIDE DEF x, g
<1>4. k \in [0..(x - 1) -> S]
  <2>1. \A i \in 0..(x - 1) : i + 1 \in 0..x
    BY <1>2
  <2> QED
    BY <1>1, <2>1 DEF x
<1> HIDE DEF k
<1>5. k[0] = a + D[Head(f)] /\ a \in S /\ a + D[Head(f)] \in S
  <2>1. 1 \in 1..x /\ 0 \in 0..x /\ 1 \in 0..x /\ 0 \in 0..(x - 1) /\ 1 - 1 = 0 /\ 0 + 1 = 1
    BY <1>2
  <2>2. h[1] = h[0] + D[f[1]] /\ h[0] \in S /\ h[1] \in S
    BY <1>1, <2>1 DEF x
  <2> QED
    BY <1>1, <1>2, <1>3, <2>1, <2>2
<1>6. k[x - 1] = e
  <2>1. x - 1 \in 0..(x - 1) /\ (x - 1) + 1 = x
    BY <1>2
  <2> QED
    BY <1>1, <1>3, <2>1 DEF x
<1>7. ASSUME NEW i \in 1..(x - 1) PROVE k[i] = k[i - 1] + D[g[i]]
  <2>1. /\ i \in 0..(x - 1) /\ i - 1 \in 0..(x - 1) /\ i + 1 \in 1..x
        /\ (i + 1) - 1 = i /\ (i - 1) + 1 = i
    BY <1>2
  <2>2. h[i + 1] = h[(i + 1) - 1] + D[f[i + 1]]
    BY <1>1, <2>1 DEF x
  <2> QED
    BY <1>2, <1>3, <2>1, <2>2
<1>8. Path(S, D, g, a + D[Head(f)], e)
  BY <1>2, <1>4, <1>5, <1>6, <1>7 DEF Path
<1> QED
  BY <1>5, <1>8 DEF g

\* Two tasks, and one before a list.
LEMMA PathTwo ==
    ASSUME NEW S, NEW T, NEW t \in T, NEW v \in T, NEW D, NEW a \in S, NEW c \in S, NEW e \in S,
           c = a + D[t], e = c + D[v]
    PROVE  Path(S, D, <<t, v>>, a, e)
<1> DEFINE x == <<t>>
           y == <<v>>
<1>1. x \in Seq(T) /\ y \in Seq(T) /\ <<t, v>> = x \o y
  BY ShortLists
<1>2. Path(S, D, x, a, c) /\ Path(S, D, y, c, e)
  BY PathOne
<1> HIDE DEF x, y
<1>3. Path(S, D, x \o y, a, e)
  BY <1>1, <1>2, PathJoined
<1> QED
  BY <1>1, <1>3

\* One task before a list ...
LEMMA PathOneMore ==
    ASSUME NEW S, NEW T, NEW t \in T, NEW D, NEW g \in Seq(T), NEW a \in S, NEW c \in S, NEW e,
           c = a + D[t], Path(S, D, g, c, e)
    PROVE  Path(S, D, <<t>> \o g, a, e)
<1> DEFINE x == <<t>>
<1>1. x \in Seq(T)
  BY ShortLists
<1>2. Path(S, D, x, a, c)
  BY PathOne
<1> HIDE DEF x
<1>3. Path(S, D, x \o g, a, e)
  BY <1>1, <1>2, PathJoined
<1> QED
  BY <1>3 DEF x

\* ... and two.
LEMMA PathTwoMore ==
    ASSUME NEW S, NEW T, NEW t \in T, NEW v \in T, NEW D, NEW g \in Seq(T),
           NEW a \in S, NEW c \in S, NEW d \in S, NEW e,
           c = a + D[t], d = c + D[v], Path(S, D, g, d, e)
    PROVE  Path(S, D, <<t, v>> \o g, a, e)
<1> DEFINE x == <<t, v>>
<1>1. x \in Seq(T)
  BY ShortLists
<1>2. Path(S, D, x, a, d)
  BY PathTwo
<1> HIDE DEF x
<1>3. Path(S, D, x \o g, a, e)
  BY <1>1, <1>2, PathJoined
<1> QED
  BY <1>3 DEF x

-----------------------------------------------------------------------------
(* The account of a user in a lot: it is never overdrawn.                  *)

\* What a task does to the balance of user u in lot l.
UserFlow(d, n, u, l) ==
    [t \in Ops(d, n) |->
        IF t.do = "change" /\ t.user = u /\ t.lot = l THEN t.sum
        ELSE IF t.do = "add_row" /\ t.user = u /\ t.lot = l THEN t.quantity
        ELSE 0]

\* The account of a user in a lot, task by task.
LEMMA UserFlowOf ==
    ASSUME NEW d, NEW n \in Nat, NEW u, NEW l
    PROVE  LET D == UserFlow(d, n, u, l) IN
           /\ \A t \in Ops(d, n) : D[t] \in Int
           /\ \A v \in 1..n, k \in LotsOf(d), s \in Int :
                D[Change(v, k, s)] = IF v = u /\ k = l THEN s ELSE 0
           /\ \A v \in 1..n, k \in Lots, q \in Nat :
                D[Adds(v, k, q)] = IF v = u /\ k = l THEN q ELSE 0
           /\ \A t \in Ops(d, n) : t.do \notin {"change", "add_row"} => D[t] = 0
<1> DEFINE D == UserFlow(d, n, u, l)
<1>1. \A t \in Ops(d, n) :
         D[t] = IF t.do = "change" /\ t.user = u /\ t.lot = l THEN t.sum
                ELSE IF t.do = "add_row" /\ t.user = u /\ t.lot = l THEN t.quantity
                ELSE 0
  BY DEF UserFlow
<1> HIDE DEF D
<1>2. \A t \in Ops(d, n) : D[t] \in Int
  <2>1. SUFFICES ASSUME NEW t \in Ops(d, n) PROVE D[t] \in Int
    OBVIOUS
  <2>2. (t.do = "add_row" => t.quantity \in Nat) /\ (t.do = "change" => t.sum \in Int)
    BY OpsAreOps
  <2> QED
    BY <1>1, <2>2
<1>3. \A v \in 1..n, k \in LotsOf(d), s \in Int :
         D[Change(v, k, s)] = IF v = u /\ k = l THEN s ELSE 0
  <2>1. SUFFICES ASSUME NEW v \in 1..n, NEW k \in LotsOf(d), NEW s \in Int
                 PROVE  D[Change(v, k, s)] = IF v = u /\ k = l THEN s ELSE 0
    OBVIOUS
  <2> DEFINE t == Change(v, k, s)
  <2>2. t \in Ops(d, n) /\ t.do = "change" /\ t.user = v /\ t.lot = k /\ t.sum = s
    BY DEF Change, Ops
  <2> HIDE DEF t
  <2>3. D[t] = IF v = u /\ k = l THEN s ELSE 0
    BY <1>1, <2>2
  <2> QED
    BY <2>3 DEF t
<1>4. \A v \in 1..n, k \in Lots, q \in Nat :
         D[Adds(v, k, q)] = IF v = u /\ k = l THEN q ELSE 0
  <2>1. SUFFICES ASSUME NEW v \in 1..n, NEW k \in Lots, NEW q \in Nat
                 PROVE  D[Adds(v, k, q)] = IF v = u /\ k = l THEN q ELSE 0
    OBVIOUS
  <2> DEFINE t == Adds(v, k, q)
  <2>2. t \in Ops(d, n) /\ t.do = "add_row" /\ t.user = v /\ t.lot = k /\ t.quantity = q
    BY AddsIsOp
  <2> HIDE DEF t
  <2>3. D[t] = IF v = u /\ k = l THEN q ELSE 0
    BY <1>1, <2>2
  <2> QED
    BY <2>3 DEF t
<1>5. \A t \in Ops(d, n) : t.do \notin {"change", "add_row"} => D[t] = 0
  BY <1>1
<1> QED
  BY <1>2, <1>3, <1>4, <1>5 DEF D

\* A change of a balance moves the account it is about.
LEMMA UserFlowChange ==
    ASSUME NEW d, NEW n \in Nat, NEW u, NEW l, NEW v \in 1..n, NEW k \in LotsOf(d), NEW s \in Int
    PROVE  UserFlow(d, n, u, l)[Change(v, k, s)] = IF v = u /\ k = l THEN s ELSE 0
<1> DEFINE t == Change(v, k, s)
<1>1. t \in Ops(d, n) /\ t.do = "change" /\ t.user = v /\ t.lot = k /\ t.sum = s
  BY DEF Change, Ops
<1> HIDE DEF t
<1>2. UserFlow(d, n, u, l)[t] = IF v = u /\ k = l THEN s ELSE 0
  BY <1>1 DEF UserFlow
<1> QED
  BY <1>2 DEF t

\* What an order takes from the account, and what its closing brings.
Debit(u, l, o)  == IF o.user = u /\ LockLot(o) = l THEN Locked(o) ELSE 0
Credit(u, l, o) == IF o.user = u /\ GainLot(o) = l THEN Gain(o) ELSE 0
RestDebit(u, l, m, o) ==
    IF o.quantity > m.quantity THEN Debit(u, l, Part(o, o.quantity - m.quantity)) ELSE 0

\* No order takes or brings less than nothing.
LEMMA DebitsAreNumbers ==
    ASSUME NEW d, ~d, NEW n, NEW o \in Orders(d, n), NEW u, NEW l
    PROVE  Debit(u, l, o) \in Nat /\ Credit(u, l, o) \in Nat
BY OrderFields DEF Debit, Credit

\* An order is created: its debit has to be covered.
LEMMA UserCreate ==
    ASSUME NEW d, ~d, NEW n \in Nat, NEW u, NEW l, NEW o \in Orders(d, n), NEW a \in Nat,
           Debit(u, l, o) <= a
    PROVE  Path(Nat, UserFlow(d, n, u, l), CreateOrder(o), a, a - Debit(u, l, o))
<1> DEFINE D == UserFlow(d, n, u, l)
           t == AddsOrder(o)
           v == Change(o.user, LockLot(o), -Locked(o))
<1>1. t \in Ops(d, n) /\ v \in Ops(d, n) /\ t.do = "add_order"
  BY CreateOrderOps DEF AddsOrder
<1>2. D[t] = 0
  BY <1>1, UserFlowOf
<1>3. a + D[v] = a - Debit(u, l, o)
  <2>1. o.user \in 1..n /\ LockLot(o) \in LotsOf(d) /\ Locked(o) \in Nat /\ -Locked(o) \in Int
    BY OrderFields
  <2>2. D[v] = IF o.user = u /\ LockLot(o) = l THEN -Locked(o) ELSE 0
    BY <2>1, UserFlowChange
  <2> HIDE DEF D, v
  <2>3. CASE o.user = u /\ LockLot(o) = l
    BY <2>1, <2>2, <2>3 DEF Debit
  <2>4. CASE ~(o.user = u /\ LockLot(o) = l)
    BY <2>2, <2>4 DEF Debit
  <2> QED
    BY <2>3, <2>4
<1>4. Debit(u, l, o) \in Nat
  BY DebitsAreNumbers
<1>5. CreateOrder(o) = <<t, v>>
  BY DEF CreateOrder, AddsOrder
<1> HIDE DEF D, t, v
<1>6. a = a + D[t] /\ a - Debit(u, l, o) = a + D[v] /\ a - Debit(u, l, o) \in Nat
  BY <1>2, <1>3, <1>4
<1>7. Path(Nat, D, <<t, v>>, a, a - Debit(u, l, o))
  BY <1>1, <1>6, PathTwo
<1> QED
  BY <1>5, <1>7 DEF D

\* A part is closed: paid first, so that a debit needs no more than before.
LEMMA UserClosed ==
    ASSUME NEW d, ~d, NEW n \in Nat, NEW u, NEW l, NEW o \in Orders(d, n), NEW a \in Nat,
           Debit(u, l, o) <= a
    PROVE  Path(Nat, UserFlow(d, n, u, l), ClosedOrder(o), a,
                (a + Credit(u, l, o)) - Debit(u, l, o))
<1> DEFINE D == UserFlow(d, n, u, l)
           t == Change(o.user, GainLot(o), Gain(o))
           c == a + Credit(u, l, o)
<1>1. t \in Ops(d, n) /\ ClosedOrder(o) = <<t>> \o CreateOrder(o) /\ CreateOrder(o) \in Seq(Ops(d, n))
  BY ClosedOrderOps, CreateOrderOps
<1>2. D[t] = Credit(u, l, o)
  <2>1. o.user \in 1..n /\ GainLot(o) \in LotsOf(d) /\ Gain(o) \in Int
    BY OrderFields
  <2> QED
    BY <2>1, UserFlowChange DEF Credit
<1>3. Debit(u, l, o) \in Nat /\ Credit(u, l, o) \in Nat
  BY DebitsAreNumbers
<1>4. c \in Nat /\ Debit(u, l, o) <= c /\ c = a + D[t]
  BY <1>2, <1>3
<1> HIDE DEF c
<1>5. Path(Nat, D, CreateOrder(o), c, c - Debit(u, l, o))
  BY <1>4, UserCreate
<1> HIDE DEF D, t
<1>6. Path(Nat, D, <<t>> \o CreateOrder(o), a, c - Debit(u, l, o))
  BY <1>1, <1>4, <1>5, PathOneMore
<1>7. ClosedOrder(o) = <<t>> \o CreateOrder(o)
  BY <1>1
<1>8. Path(Nat, D, ClosedOrder(o), a, c - Debit(u, l, o))
  BY <1>6, <1>7, Zenon
<1> QED
  BY <1>8 DEF D, c

\* An order is deleted: its owner has what it held back.
LEMMA UserDelete ==
    ASSUME NEW d, ~d, NEW n \in Nat, NEW u, NEW l, NEW o \in Orders(d, n), NEW a \in Nat
    PROVE  Path(Nat, UserFlow(d, n, u, l), DeleteOrder(o), a, a + Debit(u, l, o))
<1> DEFINE D == UserFlow(d, n, u, l)
           t == Change(o.user, LockLot(o), Locked(o))
           v == DeletesOrder(o.id)
           c == a + Debit(u, l, o)
<1>1. t \in Ops(d, n) /\ v \in Ops(d, n) /\ v.do = "del_order"
  BY DeleteOrderOps DEF DeletesOrder
<1>2. D[t] = Debit(u, l, o)
  <2>1. o.user \in 1..n /\ LockLot(o) \in LotsOf(d) /\ Locked(o) \in Int
    BY OrderFields
  <2> QED
    BY <2>1, UserFlowChange DEF Debit
<1>3. D[v] = 0
  BY <1>1, UserFlowOf
<1>4. Debit(u, l, o) \in Nat
  BY DebitsAreNumbers
<1>5. DeleteOrder(o) = <<t, v>>
  BY DEF DeleteOrder, DeletesOrder
<1>6. c \in Nat /\ c = a + D[t] /\ c = c + D[v]
  BY <1>2, <1>3, <1>4
<1> HIDE DEF D, t, v, c
<1>7. Path(Nat, D, <<t, v>>, a, c)
  BY <1>1, <1>6, PathTwo
<1> QED
  BY <1>5, <1>7 DEF D, c

\* Products of prices and quantities.
LEMMA Products ==
    ASSUME NEW p \in Nat, NEW r \in Nat, NEW a \in Nat, NEW q \in Nat
    PROVE  /\ p * a \in Nat
           /\ q <= a => p * (a - q) = p * a - p * q /\ p * (a - q) \in Nat
           /\ p <= r => p * a <= r * a
<1>1. p * a \in Nat
  OBVIOUS
<1>2. ASSUME q <= a PROVE p * (a - q) = p * a - p * q /\ p * (a - q) \in Nat
  <2>1. a - q \in Nat
    BY <1>2
  <2>2. p * (a - q) = p * a - p * q
    OBVIOUS
  <2>3. \A x \in Nat : p * x \in Nat
    OBVIOUS
  <2> QED
    BY <2>1, <2>2, <2>3
<1>3. ASSUME p <= r PROVE p * a <= r * a
  <2>1. r - p \in Nat
    BY <1>3
  <2>2. \A x \in Nat : x * a \in Nat
    OBVIOUS
  <2>3. (r - p) * a \in Nat
    BY <2>1, <2>2
  <2>4. (r - p) * a = r * a - p * a
    OBVIOUS
  <2>5. r * a \in Nat
    OBVIOUS
  <2> QED
    BY <1>1, <2>3, <2>4, <2>5
<1> QED
  BY <1>1, <1>2, <1>3

\* What one part of a deal brings the other one holds back, whatever the numbers.
LEMMA PartsMeet ==
    ASSUME NEW d, NEW n \in Nat, NEW m \in Orders(d, n), NEW o \in Orders(d, n), IsReverse(m, o)
    PROVE  LET c == ClosedOther(m, o, m.price)
               k == ClosedMine(m, o)
           IN  /\ LockLot(c) = LockLot(o) /\ GainLot(c) = GainLot(o)
               /\ LockLot(k) = LockLot(m) /\ GainLot(k) = GainLot(m)
               /\ Gain(c) = Locked(k) /\ Gain(k) = Locked(c)
               /\ GainLot(c) = LockLot(k) /\ GainLot(k) = LockLot(c)
<1> DEFINE c == ClosedOther(m, o, m.price)
           k == ClosedMine(m, o)
<1>1. o.pair = m.pair /\ o.type = IF m.type = "sell" THEN "buy" ELSE "sell"
  BY DEF IsReverse
<1>2. /\ c.price = m.price /\ c.type = o.type /\ c.pair = o.pair
      /\ k.quantity = c.quantity /\ k.price = m.price /\ k.type = m.type /\ k.pair = m.pair
  BY ClosedFields, OrderFields
<1> HIDE DEF c, k
<1>3. /\ LockLot(c) = LockLot(o) /\ GainLot(c) = GainLot(o)
      /\ LockLot(k) = LockLot(m) /\ GainLot(k) = GainLot(m)
      /\ Gain(c) = Locked(k) /\ Gain(k) = Locked(c)
      /\ GainLot(c) = LockLot(k) /\ GainLot(k) = LockLot(c)
  BY <1>1, <1>2 DEF LockLot, GainLot, Gain, Locked, First, Second
<1> QED
  BY <1>3 DEF c, k

\* What the two parts of a deal, closed and left, hold back, when no number is
\* negative.
LEMMA LockedParts ==
    ASSUME NEW d, ~d, NEW n \in Nat, NEW m \in Orders(d, n), NEW o \in Orders(d, n), IsReverse(m, o),
           IsProfit(m, o)
    PROVE  LET q == Smaller(m.quantity, o.quantity)
               c == ClosedOther(m, o, m.price)
               k == ClosedMine(m, o)
           IN  /\ LockLot(c) = LockLot(o) /\ GainLot(c) = GainLot(o)
               /\ LockLot(k) = LockLot(m) /\ GainLot(k) = GainLot(m)
               /\ Gain(c) = Locked(k) /\ Gain(k) = Locked(c)
               /\ GainLot(c) = LockLot(k) /\ GainLot(k) = LockLot(c)
               /\ Locked(c) <= Locked(o)
               /\ o.quantity > m.quantity =>
                     Locked(Part(o, o.quantity - m.quantity)) <= Locked(o) - Locked(c)
               /\ Locked(k) <= Locked(m)
               /\ Left(m, o) # 0 => Locked(Part(m, Left(m, o))) = Locked(m) - Locked(k)
<1> DEFINE q == Smaller(m.quantity, o.quantity)
           c == ClosedOther(m, o, m.price)
           k == ClosedMine(m, o)
<1>1. /\ m.quantity \in Nat /\ m.price \in Nat /\ m.type \in Types /\ m.pair
      /\ o.quantity \in Nat /\ o.price \in Nat /\ o.type \in Types /\ o.pair
      /\ o.type = IF m.type = "sell" THEN "buy" ELSE "sell"
  BY OrderFields DEF IsReverse
<1>2. /\ q \in Nat /\ q <= m.quantity /\ q <= o.quantity
      /\ c.quantity = q /\ c.price = m.price /\ c.type = o.type /\ c.pair = o.pair
      /\ k.quantity = q /\ k.price = m.price /\ k.type = m.type /\ k.pair = m.pair
  <2>1. q \in Nat /\ q <= m.quantity /\ q <= o.quantity
    BY <1>1 DEF Smaller
  <2> HIDE DEF q
  <2>2. c.quantity = q /\ c.price = m.price /\ c.type = o.type /\ c.pair = o.pair
    BY DEF ClosedOther, Part, Orders, q
  <2>3. k.quantity = q /\ k.price = m.price /\ k.type = m.type /\ k.pair = m.pair
    BY DEF ClosedMine, Part, Orders, q
  <2> QED
    BY <2>1, <2>2, <2>3
<1>3. o.quantity > m.quantity => q = m.quantity
  BY <1>1 DEF Smaller
<1>4. Left(m, o) = m.quantity - q
  BY DEF Left
<1>5. \A x \in Orders(d, n) : \A y :
         /\ Part(x, y).quantity = y /\ Part(x, y).price = x.price
         /\ Part(x, y).type = x.type
  BY DEF Part, Orders
<1> HIDE DEF q, c, k
<1>6. /\ LockLot(c) = LockLot(o) /\ GainLot(c) = GainLot(o)
      /\ LockLot(k) = LockLot(m) /\ GainLot(k) = GainLot(m)
      /\ Gain(c) = Locked(k) /\ Gain(k) = Locked(c)
      /\ GainLot(c) = LockLot(k) /\ GainLot(k) = LockLot(c)
  BY PartsMeet DEF c, k
<1>7. /\ m.price * q \in Nat /\ m.price * (m.quantity - q) = m.price * m.quantity - m.price * q
      /\ m.price * m.quantity \in Nat /\ m.price * (m.quantity - q) \in Nat
  BY <1>1, <1>2, Products
<1>8. /\ o.price * q \in Nat /\ o.price * (o.quantity - q) = o.price * o.quantity - o.price * q
      /\ o.price * o.quantity \in Nat /\ o.price * (o.quantity - q) \in Nat
  BY <1>1, <1>2, Products
<1>9. m.price <= o.price => m.price * q <= o.price * q
  BY <1>1, <1>2, Products
<1>10. CASE m.type = "sell"
  <2>1. o.type = "buy" /\ m.price <= o.price
    BY <1>1, <1>10 DEF IsProfit
  <2>2. /\ Locked(c) = m.price * q /\ Locked(o) = o.price * o.quantity
        /\ Locked(k) = q /\ Locked(m) = m.quantity
        /\ \A y : Locked(Part(o, y)) = o.price * y
        /\ \A y : Locked(Part(m, y)) = y
    BY <1>2, <1>5, <1>10, <2>1 DEF Locked
  <2>3. m.price * q <= o.price * o.quantity
    BY <1>7, <1>8, <1>9, <2>1
  <2>4. o.quantity > m.quantity =>
           o.price * (o.quantity - m.quantity) <= o.price * o.quantity - m.price * q
    BY <1>3, <1>7, <1>8, <1>9, <2>1
  <2> QED
    BY <1>2, <1>4, <1>6, <2>2, <2>3, <2>4 DEF q, c, k
<1>11. CASE m.type # "sell"
  <2>1. o.type = "sell"
    BY <1>1, <1>11
  <2>2. /\ Locked(c) = q /\ Locked(o) = o.quantity
        /\ Locked(k) = m.price * q /\ Locked(m) = m.price * m.quantity
        /\ \A y : Locked(Part(o, y)) = y
        /\ \A y : Locked(Part(m, y)) = m.price * y
    BY <1>2, <1>5, <1>11, <2>1 DEF Locked
  <2>3. m.price * q <= m.price * m.quantity
    BY <1>7
  <2>4. o.quantity > m.quantity => o.quantity - m.quantity <= o.quantity - q
    BY <1>1, <1>3
  <2> QED
    BY <1>2, <1>4, <1>6, <1>7, <2>2, <2>3, <2>4 DEF q, c, k
<1> QED
  BY <1>1, <1>10, <1>11

\* What the other order has left is created: its debit has to be covered.
LEMMA UserRest ==
    ASSUME NEW d, ~d, NEW n \in Nat, NEW u, NEW l, NEW m \in Orders(d, n), NEW o \in Orders(d, n), NEW a \in Nat,
           RestDebit(u, l, m, o) <= a
    PROVE  /\ Path(Nat, UserFlow(d, n, u, l), Rest(m, o), a, a - RestDebit(u, l, m, o))
           /\ RestDebit(u, l, m, o) \in Nat
<1>1. CASE o.quantity > m.quantity
  <2> DEFINE x == Part(o, o.quantity - m.quantity)
  <2>1. x \in Orders(d, n) /\ Rest(m, o) = CreateOrder(x) /\ RestDebit(u, l, m, o) = Debit(u, l, x)
    BY <1>1, RestOps DEF Rest, RestDebit
  <2> HIDE DEF x
  <2>2. Debit(u, l, x) <= a /\ Debit(u, l, x) \in Nat
    BY <2>1, DebitsAreNumbers
  <2>3. Path(Nat, UserFlow(d, n, u, l), CreateOrder(x), a, a - Debit(u, l, x))
    BY <2>1, <2>2, UserCreate
  <2> QED
    BY <2>1, <2>2, <2>3
<1>2. CASE ~(o.quantity > m.quantity)
  <2>1. Rest(m, o) = <<>> /\ RestDebit(u, l, m, o) = 0
    BY <1>2 DEF Rest, RestDebit
  <2>2. a - 0 = a
    OBVIOUS
  <2>3. Path(Nat, UserFlow(d, n, u, l), <<>>, a, a)
    BY PathNone
  <2> QED
    BY <2>1, <2>2, <2>3
<1> QED
  BY <1>1, <1>2

\* In a deal every debit is covered: the other's by its refund, the client's
\* by what it could pay when it placed its order.
LEMMA UserDeal ==
    ASSUME NEW d, ~d, NEW n \in Nat, NEW u, NEW l, NEW m \in Orders(d, n), NEW o \in Orders(d, n),
           m.user # o.user, IsReverse(m, o), IsProfit(m, o),
           NEW a \in Nat, Debit(u, l, m) <= a
    PROVE  \E e \in Nat :
              /\ Path(Nat, UserFlow(d, n, u, l), Deal(m, o), a, e)
              /\ Left(m, o) # 0 => Debit(u, l, Part(m, Left(m, o))) <= e
<1> DEFINE D == UserFlow(d, n, u, l)
           c == ClosedOther(m, o, m.price)
           k == ClosedMine(m, o)
           x == DeleteOrder(o)
           y == ClosedOrder(c)
           z == ClosedOrder(k)
           r == Rest(m, o)
           p == Part(m, Left(m, o))
           s == RestDebit(u, l, m, o)
           a1 == a + Debit(u, l, o)
           a2 == (a1 + Credit(u, l, c)) - Debit(u, l, c)
           a3 == (a2 + Credit(u, l, k)) - Debit(u, l, k)
           a4 == a3 - s
<1>1. /\ c \in Orders(d, n) /\ c.user = o.user /\ k \in Orders(d, n) /\ k.user = m.user
  BY ClosedFields, OrderFields
<1>2. /\ LockLot(c) = LockLot(o) /\ GainLot(c) = GainLot(o)
      /\ LockLot(k) = LockLot(m) /\ GainLot(k) = GainLot(m)
      /\ Locked(c) <= Locked(o)
      /\ o.quantity > m.quantity =>
            Locked(Part(o, o.quantity - m.quantity)) <= Locked(o) - Locked(c)
      /\ Locked(k) <= Locked(m)
      /\ Left(m, o) # 0 => Locked(p) = Locked(m) - Locked(k)
  BY LockedParts
<1>3. /\ Locked(c) \in Nat /\ Locked(o) \in Nat /\ Locked(k) \in Nat /\ Locked(m) \in Nat
  BY <1>1, OrderFields
<1>4. /\ Debit(u, l, o) \in Nat /\ Credit(u, l, c) \in Nat /\ Debit(u, l, c) \in Nat
      /\ Credit(u, l, k) \in Nat /\ Debit(u, l, k) \in Nat /\ Debit(u, l, m) \in Nat
  BY <1>1, DebitsAreNumbers
<1>5. s \in Nat
  BY UserRest, <1>4, RestOps, DebitsAreNumbers DEF RestDebit
<1>6. Debit(u, l, c) <= Debit(u, l, o)
  BY <1>1, <1>2, <1>3 DEF Debit
<1>7. s <= Debit(u, l, o) - Debit(u, l, c)
  <2>1. CASE o.quantity > m.quantity
    <3> DEFINE v == Part(o, o.quantity - m.quantity)
    <3>1. v.user = o.user /\ LockLot(v) = LockLot(o)
      BY DEF Part, Orders, LockLot
    <3>2. s = Debit(u, l, v)
      BY <2>1 DEF RestDebit
    <3>3. Locked(v) <= Locked(o) - Locked(c)
      BY <1>2, <2>1
    <3> HIDE DEF v, s, c
    <3>4. CASE o.user = u /\ LockLot(o) = l
      BY <1>1, <1>2, <1>3, <3>1, <3>2, <3>3, <3>4 DEF Debit
    <3>5. CASE ~(o.user = u /\ LockLot(o) = l)
      BY <1>1, <1>2, <1>3, <3>1, <3>2, <3>5 DEF Debit
    <3> QED
      BY <3>4, <3>5
  <2>2. CASE ~(o.quantity > m.quantity)
    <3>1. s = 0
      BY <2>2 DEF RestDebit
    <3> QED
      BY <1>4, <1>6, <3>1
  <2> QED
    BY <2>1, <2>2
<1>8. Debit(u, l, k) <= Debit(u, l, m)
  BY <1>1, <1>2, <1>3 DEF Debit
<1>9. o.user # u \/ m.user # u
  OBVIOUS
<1>10. o.user # u => Debit(u, l, o) = 0 /\ Debit(u, l, c) = 0 /\ Credit(u, l, c) = 0
  BY <1>1 DEF Debit, Credit
<1>11. m.user # u => Debit(u, l, m) = 0 /\ Debit(u, l, k) = 0 /\ Credit(u, l, k) = 0
  BY <1>1 DEF Debit, Credit
<1>12. Left(m, o) # 0 => Debit(u, l, p) = Debit(u, l, m) - Debit(u, l, k)
  <2>1. p.user = m.user /\ LockLot(p) = LockLot(m)
    BY DEF Part, Orders, LockLot
  <2> HIDE DEF p, k
  <2>2. CASE m.user = u /\ LockLot(m) = l
    BY <1>1, <1>2, <1>3, <2>1, <2>2 DEF Debit
  <2>3. CASE ~(m.user = u /\ LockLot(m) = l)
    BY <1>1, <1>2, <2>1, <2>3 DEF Debit
  <2> QED
    BY <2>2, <2>3
<1>13. x \in Seq(Ops(d, n)) /\ y \in Seq(Ops(d, n)) /\ z \in Seq(Ops(d, n)) /\ r \in Seq(Ops(d, n))
  BY <1>1, DeleteOrderOps, ClosedOrderOps, RestOps
<1>14. Deal(m, o) = ((x \o y) \o z) \o r
  BY DealOps
<1>15. a1 \in Nat /\ Debit(u, l, c) <= a1
  BY <1>4, <1>6
<1>16. a2 \in Nat /\ Debit(u, l, k) <= a2
  <2> HIDE DEF c, k, s
  <2> QED
    BY <1>4, <1>6, <1>8, <1>9, <1>10, <1>11
<1>17. a3 \in Nat /\ s <= a3
  <2> HIDE DEF c, k, s
  <2> QED
    BY <1>4, <1>5, <1>6, <1>7, <1>8, <1>9, <1>10, <1>11
<1>18. a4 \in Nat /\ (Left(m, o) # 0 => Debit(u, l, p) <= a4)
  <2> HIDE DEF c, k, s, p
  <2>1. a4 \in Nat
    <3> HIDE DEF a3
    <3> QED
      BY <1>5, <1>17
  <2>2. Left(m, o) # 0 => Debit(u, l, p) <= a4
    BY <1>4, <1>5, <1>6, <1>7, <1>8, <1>9, <1>10, <1>11, <1>12
  <2> QED
    BY <2>1, <2>2
<1>19. Path(Nat, D, x, a, a1)
  BY UserDelete
<1> HIDE DEF x, a1
<1>20. Path(Nat, D, y, a1, a2)
  <2> HIDE DEF c
  <2> QED
    BY <1>1, <1>15, UserClosed
<1> HIDE DEF y, a2
<1>21. Path(Nat, D, z, a2, a3)
  <2> HIDE DEF k
  <2> QED
    BY <1>1, <1>16, UserClosed
<1> HIDE DEF z, a3
<1>22. Path(Nat, D, r, a3, a4)
  BY <1>17, UserRest
<1> HIDE DEF r, a4, D, s, c, k, p
<1>23. x \o y \in Seq(Ops(d, n)) /\ (x \o y) \o z \in Seq(Ops(d, n))
  BY <1>13
<1>24. Path(Nat, D, x \o y, a, a2)
  BY <1>13, <1>19, <1>20, PathJoined
<1>25. Path(Nat, D, (x \o y) \o z, a, a3)
  BY <1>13, <1>21, <1>23, <1>24, PathJoined
<1>26. Path(Nat, D, ((x \o y) \o z) \o r, a, a4)
  BY <1>13, <1>22, <1>23, <1>25, PathJoined
<1>27. Path(Nat, D, Deal(m, o), a, a4)
  BY <1>14, <1>26, Zenon
<1> QED
  BY <1>18, <1>27 DEF D, p

\* The rows that are not about to be removed, and the balance they show.
LiveRows(f) == {r \in userLots : ~Has(f, Removes(r))}

Holds(u, l, f, a) ==
    \/ a = 0 /\ \A r \in LiveRows(f) : ~(r.user = u /\ r.lot = l)
    \/ \E r \in LiveRows(f) : r.user = u /\ r.lot = l /\ a = r.quantity

\* With what is still to be done, no balance of any user is overdrawn, and in
\* the end the client can pay for what is left of its order.
UserGood(f, b, m) ==
    \A u \in 1..Len(users), l \in Lots : \E a, e \in Nat :
        /\ Holds(u, l, f, a) /\ Path(Nat, UserFlow(odd, Len(users), u, l), f, a, e)
        /\ Placing(b) => Debit(u, l, m) <= e

\* Tasks that remove no row leave all of them.
LEMMA LiveWithoutRows ==
    ASSUME NEW g, NoRows(g)
    PROVE  LiveRows(g) = userLots
<1>1. \A r : Removes(r).do = "del_row"
  BY DEF Removes
<1> QED
  BY <1>1 DEF LiveRows, NoRows

\* Orders are no rows.
LEMMA LiveAtOrder ==
    ASSUME Data, NEW f \in Seq(Ops(odd, Len(users))), f # <<>>,
           Head(f).do \in {"add_order", "del_order"}, userLots' = userLots
    PROVE  LiveRows(Tail(f))' = LiveRows(f)
<1> DEFINE g == Tail(f)
<1>1. \A r : Removes(r) # Head(f)
  BY DEF Removes
<1>2. \A t : Has(f, t) <=> t = Head(f) \/ Has(g, t)
  BY HasHead
<1> HIDE DEF g
<1>3. LiveRows(g)' = {r \in userLots : ~Has(g, Removes(r))}
  BY DEF LiveRows, Has
<1> QED
  BY <1>1, <1>2, <1>3 DEF LiveRows, g

\* A row is about to be replaced.
LEMMA LiveAtChange ==
    ASSUME Data, NEW f \in Seq(Ops(odd, Len(users))), f # <<>>, Head(f).do = "change", RowsGood(f),
           userLots' = userLots, NEW r \in userLots, NEW q \in Nat
    PROVE  /\ LiveRows(f) = userLots
           /\ LiveRows(<<Removes(r), Adds(r.user, r.lot, q)>> \o Tail(f))' = userLots \ {r}
<1> DEFINE n == Len(users)
           t == Removes(r)
           v == Adds(r.user, r.lot, q)
           h == Tail(f)
           g == <<t, v>> \o h
<1>1. n \in Nat /\ Head(f) \in Ops(odd, n) /\ h \in Seq(Ops(odd, n))
  BY UsersLength
<1>2. r.user \in 1..n /\ r.lot \in Lots /\ t \in Ops(odd, n) /\ t.do = "del_row"
  BY RowFields
<1>3. v \in Ops(odd, n) /\ v.do = "add_row"
  BY <1>1, <1>2, AddsIsOp
<1>4. NoRows(h)
  BY RowCases
<1>5. LiveRows(f) = userLots
  <2>1. \A x : Has(f, x) <=> x = Head(f) \/ Has(h, x)
    BY HasHead
  <2>2. \A x : Removes(x) # Head(f) /\ Removes(x).do = "del_row"
    BY DEF Removes
  <2> QED
    BY <1>4, <2>1, <2>2 DEF LiveRows, NoRows
<1>6. \A x \in userLots : Has(g, Removes(x)) <=> x = r
  <2>1. \A x : Has(<<t, v>>, x) <=> x = t \/ x = v
    BY <1>2, <1>3, HasPair
  <2>2. \A x : Has(g, x) <=> Has(<<t, v>>, x) \/ Has(h, x)
    <3> DEFINE s == <<t, v>>
    <3>1. s \in Seq(Ops(odd, n))
      BY <1>2, <1>3, ShortLists
    <3> HIDE DEF s, h, n, t, v
    <3>2. \A x : Has(s \o h, x) <=> Has(s, x) \/ Has(h, x)
      BY <1>1, <3>1, HasJoined
    <3> QED
      BY <3>2, Zenon DEF s
  <2>3. \A x : Removes(x).do = "del_row" /\ Removes(x).pk = x.pk
    BY DEF Removes
  <2>4. \A x \in userLots : x.pk = r.pk => x = r
    BY DEF Data, TypeOK
  <2>5. \A x : Removes(x) = t => x.pk = r.pk
    BY <2>3
  <2>6. \A x : Removes(x) # v /\ ~Has(h, Removes(x))
    BY <1>3, <1>4, <2>3 DEF NoRows
  <2> HIDE DEF g, v, h
  <2> QED
    BY <2>1, <2>2, <2>4, <2>5, <2>6 DEF t
<1> HIDE DEF g
<1>7. LiveRows(g)' = userLots \ {r}
  <2>1. LiveRows(g)' = {x \in userLots : ~Has(g, Removes(x))}
    BY DEF LiveRows, Has
  <2> QED
    BY <1>6, <2>1
<1> QED
  BY <1>5, <1>7 DEF g

\* It is removed.
LEMMA LiveAtDelRow ==
    ASSUME Data, NEW f \in Seq(Ops(odd, Len(users))), f # <<>>, Head(f).do = "del_row",
           userLots' = {r \in userLots : r.pk # Head(f).pk}
    PROVE  LiveRows(Tail(f))' = LiveRows(f)
<1>1. Len(users) \in Nat /\ Head(f) \in Ops(odd, Len(users))
  BY UsersLength
<1> DEFINE g == Tail(f)
<1>2. \A t : Has(f, t) <=> t = Head(f) \/ Has(g, t)
  BY HasHead
<1>3. \A r : Removes(r) = Head(f) <=> r.pk = Head(f).pk
  <2>1. Head(f) \in [do : {"del_row"}, pk : Nat]
    BY <1>1 DEF Ops
  <2> QED
    BY <2>1 DEF Removes
<1> HIDE DEF g
<1>4. LiveRows(g)' = {r \in userLots : r.pk # Head(f).pk /\ ~Has(g, Removes(r))}
  BY DEF LiveRows, Has
<1> QED
  BY <1>2, <1>3, <1>4 DEF LiveRows, g

\* It is added, where there is none.
LEMMA LiveAtAddRow ==
    ASSUME Data, NEW f \in Seq(Ops(odd, Len(users))), f # <<>>, Head(f).do = "add_row", RowsGood(f),
           NEW row, userLots' = userLots \cup {row}
    PROVE  /\ LiveRows(f) = userLots /\ LiveRows(Tail(f))' = userLots \cup {row}
           /\ BalanceRows(Head(f).user, Head(f).lot) = {}
<1> DEFINE n == Len(users)
           g == Tail(f)
<1>1. n \in Nat
  BY UsersLength
<1>3. BalanceRows(Head(f).user, Head(f).lot) = {}
  <2>1. ASSUME NEW v, NEW k, NEW q, NEW h, RowMissing(f, v, k, q, h)
        PROVE  BalanceRows(Head(f).user, Head(f).lot) = {}
    <3>1. BalanceRows(v, k) = {}
      BY <2>1 DEF RowMissing
    <3>2. Head(f).user = v /\ Head(f).lot = k
      BY <2>1, RowMissingHead
    <3> QED
      BY <3>1, <3>2
  <2>2. ASSUME NEW v, RowsMissing(f, v)
        PROVE  BalanceRows(Head(f).user, Head(f).lot) = {}
    <3>1. Head(f).user = v /\ Head(f).lot = First /\ First \in Lots
      BY <2>2, RowsMissingHead DEF Lots
    <3>2. \A l \in Lots : BalanceRows(v, l) = {}
      BY <2>2 DEF RowsMissing
    <3> QED
      BY <3>1, <3>2
  <2> QED
    BY <2>1, <2>2, RowCases
<1>4. \A x : ~Has(g, Removes(x))
  <2>1. \A x : Removes(x).do = "del_row"
    BY DEF Removes
  <2>2. ASSUME NEW v, NEW k, NEW q, NEW h, RowMissing(f, v, k, q, h)
        PROVE  \A x : ~Has(g, Removes(x))
    <3>1. NoRows(h) /\ g = h
      BY <2>2, RowMissingHead DEF RowMissing
    <3> QED
      BY <2>1, <3>1 DEF NoRows
  <2>3. ASSUME NEW v, RowsMissing(f, v)
        PROVE  \A x : ~Has(g, Removes(x))
    <3>1. g = <<NewRow(v, Second)>> /\ v \in 1..n
      <4>1. v \in 1..n /\ f = <<NewRow(v, First), NewRow(v, Second)>>
        BY <2>3 DEF RowsMissing
      <4> QED
        BY <4>1
    <3>2. NewRow(v, Second) \in Ops(odd, n) /\ NewRow(v, Second).do = "add_row"
      <4>1. Second \in Lots /\ DefaultQuantity \in Nat
        BY AmountsAreNumbers DEF Lots
      <4> QED
        BY <1>1, <3>1, <4>1, AddsIsOp DEF NewRow
    <3>3. \A t : Has(<<NewRow(v, Second)>>, t) <=> t = NewRow(v, Second)
      BY <3>2, HasShort
    <3> QED
      BY <2>1, <3>1, <3>2, <3>3
  <2> QED
    BY <2>2, <2>3, RowCases
<1> HIDE DEF g
<1>5. LiveRows(g)' = userLots \cup {row}
  BY <1>4 DEF LiveRows, Has
<1>6. LiveRows(f) = userLots
  <2>1. \A t : Has(f, t) <=> t = Head(f) \/ Has(g, t)
    BY HasHead DEF g
  <2>2. \A x : Removes(x) # Head(f)
    BY DEF Removes
  <2> QED
    BY <1>4, <2>1, <2>2 DEF LiveRows
<1> QED
  BY <1>3, <1>5, <1>6 DEF g

\* A decision that expands into tasks without rows.
LEMMA UserAtDecision ==
    ASSUME Data, NEW f, NEW b, NEW m, UserGood(f, b, m), NoRows(f), NEW g, NoRows(g), NEW c, NEW x,
           UNCHANGED <<users, userLots, odd>>,
           \A u \in 1..Len(users), l \in Lots, a, e \in Nat :
              /\ Path(Nat, UserFlow(odd, Len(users), u, l), f, a, e)
              /\ Placing(b) => Debit(u, l, m) <= e
              => \E i \in Nat : /\ Path(Nat, UserFlow(odd, Len(users), u, l), g, a, i)
                                /\ Placing(c) => Debit(u, l, x) <= i
    PROVE  UserGood(g, c, x)'
<1>1. LiveRows(f) = userLots /\ LiveRows(g) = userLots
  BY LiveWithoutRows
<1>2. LiveRows(g)' = LiveRows(f)
  BY <1>1 DEF LiveRows, Has
<1>3. ASSUME NEW u \in 1..Len(users'), NEW l \in Lots
      PROVE  \E a, e \in Nat :
                /\ Holds(u, l, g, a)' /\ Path(Nat, UserFlow(odd', Len(users'), u, l), g, a, e)
                /\ Placing(c) => Debit(u, l, x) <= e
  <2>1. PICK a \in Nat, e \in Nat :
                /\ Holds(u, l, f, a) /\ Path(Nat, UserFlow(odd, Len(users), u, l), f, a, e)
                /\ Placing(b) => Debit(u, l, m) <= e
    BY DEF UserGood
  <2>2. Holds(u, l, g, a)'
    BY <1>2, <2>1 DEF Holds
  <2>3. \E i \in Nat : /\ Path(Nat, UserFlow(odd, Len(users), u, l), g, a, i)
                       /\ Placing(c) => Debit(u, l, x) <= i
    BY <2>1
  <2> QED
    BY <2>2, <2>3
<1> QED
  BY <1>3 DEF UserGood, Path, Placing, UserFlow, Debit

\* The first task is done: the account stands where it moved it.
LEMMA UserAtTask ==
    ASSUME Data, NEW f \in Seq(Ops(odd, Len(users))), f # <<>>, NEW b, NEW m, UserGood(f, b, m),
           UNCHANGED <<users, odd>>,
           \A u \in 1..Len(users), l \in Lots, a \in Nat :
              LET D == UserFlow(odd, Len(users), u, l) IN
              Holds(u, l, f, a) => Holds(u, l, Tail(f), a + D[Head(f)])'
    PROVE  UserGood(Tail(f), b, m)'
<1> DEFINE g == Tail(f)
<1>1. ASSUME NEW u \in 1..Len(users'), NEW l \in Lots
      PROVE  \E a, e \in Nat :
                /\ Holds(u, l, g, a)' /\ Path(Nat, UserFlow(odd', Len(users'), u, l), g, a, e)
                /\ Placing(b) => Debit(u, l, m) <= e
  <2>1. PICK a \in Nat, e \in Nat :
                /\ Holds(u, l, f, a) /\ Path(Nat, UserFlow(odd, Len(users), u, l), f, a, e)
                /\ Placing(b) => Debit(u, l, m) <= e
    BY DEF UserGood
  <2> DEFINE D == UserFlow(odd, Len(users), u, l)
             i == a + D[Head(f)]
  <2>2. Holds(u, l, g, i)'
    BY <2>1
  <2>3. Path(Nat, D, f, a, e)
    BY <2>1
  <2> HIDE DEF D
  <2>4. i \in Nat /\ Path(Nat, D, g, i, e)
    BY <2>3, PathHead
  <2> QED
    BY <2>1, <2>2, <2>4 DEF D
<1> HIDE DEF g
<1>2. UserGood(g, b, m)'
  BY <1>1 DEF UserGood, Path, Placing, UserFlow, Debit
<1> QED
  BY <1>2 DEF g

\* Orders are no rows.
LEMMA UserAtOrder ==
    ASSUME Data, NEW f \in Seq(Ops(odd, Len(users))), f # <<>>, NEW b, NEW m, UserGood(f, b, m),
           Head(f).do \in {"add_order", "del_order"}, UNCHANGED <<users, userLots, odd>>
    PROVE  UserGood(Tail(f), b, m)'
<1>1. Len(users) \in Nat /\ Head(f) \in Ops(odd, Len(users))
  BY UsersLength
<1>2. LiveRows(Tail(f))' = LiveRows(f)
  BY LiveAtOrder
<1>3. ASSUME NEW u \in 1..Len(users), NEW l \in Lots, NEW a \in Nat, Holds(u, l, f, a)
      PROVE  LET D == UserFlow(odd, Len(users), u, l) IN Holds(u, l, Tail(f), a + D[Head(f)])'
  <2> DEFINE D == UserFlow(odd, Len(users), u, l)
             g == Tail(f)
  <2>1. D[Head(f)] = 0
    BY <1>1, UserFlowOf
  <2> HIDE DEF D, g
  <2>2. a + D[Head(f)] = a
    BY <2>1
  <2>3. Holds(u, l, g, a)'
    BY <1>2, <1>3 DEF Holds, g
  <2>4. Holds(u, l, g, a + D[Head(f)])'
    BY <2>2, <2>3 DEF D, UserFlow
  <2> QED
    BY <2>4 DEF D, g
<1> QED
  BY <1>3, UserAtTask

\* A change of balance: the row goes and comes back changed.
LEMMA UserAtChange ==
    ASSUME Data, NEW f \in Seq(Ops(odd, Len(users))), f # <<>>, Head(f).do = "change", RowsGood(f),
           NEW b, NEW m, UserGood(f, b, m), UNCHANGED <<users, userLots, odd>>, NEW r \in userLots,
           BalanceRows(Head(f).user, Head(f).lot) = {r}, NEW q \in Nat,
           q = r.quantity + Head(f).sum
    PROVE  UserGood(<<Removes(r), Adds(r.user, r.lot, q)>> \o Tail(f), b, m)'
<1> DEFINE n == Len(users)
           t == Removes(r)
           v == Adds(r.user, r.lot, q)
           h == Tail(f)
           g == <<t, v>> \o h
<1>1. /\ n \in Nat /\ Head(f) \in Ops(odd, n) /\ h \in Seq(Ops(odd, n)) /\ r.user = Head(f).user
      /\ r.lot = Head(f).lot /\ Head(f).sum \in Int
  <2>1. n \in Nat /\ Head(f) \in Ops(odd, n) /\ h \in Seq(Ops(odd, n))
    BY UsersLength
  <2>2. Head(f).sum \in Int
    BY <2>1, OpsAreOps
  <2>3. r.user = Head(f).user /\ r.lot = Head(f).lot
    BY DEF BalanceRows
  <2> QED
    BY <2>1, <2>2, <2>3
<1>2. /\ r.user \in 1..n /\ r.lot \in Lots /\ r.quantity \in Nat
      /\ t \in Ops(odd, n) /\ t.do = "del_row"
  BY RowFields
<1>3. v \in Ops(odd, n) /\ v.do = "add_row"
  BY <1>1, <1>2, AddsIsOp
<1>5. LiveRows(f) = userLots /\ LiveRows(g)' = userLots \ {r}
  BY LiveAtChange
<1> HIDE DEF g
<1>8. ASSUME NEW u \in 1..Len(users'), NEW l \in Lots
      PROVE  \E a, e \in Nat :
                /\ Holds(u, l, g, a)' /\ Path(Nat, UserFlow(odd', Len(users'), u, l), g, a, e)
                /\ Placing(b) => Debit(u, l, m) <= e
  <2> DEFINE D == UserFlow(odd, n, u, l)
  <2>1. PICK a \in Nat, e \in Nat :
                /\ Holds(u, l, f, a) /\ Path(Nat, D, f, a, e)
                /\ Placing(b) => Debit(u, l, m) <= e
    BY DEF UserGood
  <2>2. /\ D[t] = 0
        /\ D[v] = IF r.user = u /\ r.lot = l THEN q ELSE 0
    <3> HIDE DEF n
    <3>1. /\ \A x \in Ops(odd, n) : x.do \notin {"change", "add_row"} => D[x] = 0
          /\ \A x \in 1..n, k \in Lots, y \in Nat :
                D[Adds(x, k, y)] = IF x = u /\ k = l THEN y ELSE 0
      BY <1>1, UserFlowOf
    <3> HIDE DEF D, t
    <3>2. D[t] = 0
      BY <1>2, <3>1
    <3>3. D[v] = IF r.user = u /\ r.lot = l THEN q ELSE 0
      BY <1>2, <3>1
    <3> QED
      BY <3>2, <3>3
  <2>3. D[Head(f)] = IF r.user = u /\ r.lot = l THEN Head(f).sum ELSE 0
    BY <1>1 DEF UserFlow
  <2> HIDE DEF D
  <2>4. a + D[Head(f)] \in Nat /\ Path(Nat, D, h, a + D[Head(f)], e)
    BY <2>1, PathHead
  <2>5. CASE r.user = u /\ r.lot = l
    <3>1. a = r.quantity
      <4>1. \A x \in userLots : x.user = u /\ x.lot = l => x = r
        BY <1>1, <2>5 DEF BalanceRows
      <4> QED
        BY <1>5, <2>1, <2>5, <4>1 DEF Holds
    <3>2. a + D[Head(f)] = q
      BY <2>3, <2>5, <3>1
    <3>3. Holds(u, l, g, 0)'
      <4>1. \A x \in LiveRows(g)' : ~(x.user = u /\ x.lot = l)
        BY <1>1, <1>5, <2>5 DEF BalanceRows
      <4> QED
        BY <4>1 DEF Holds
    <3>4. Path(Nat, D, g, 0, e)
      <4>1. 0 \in Nat /\ 0 = 0 + D[t] /\ q = 0 + D[v]
        BY <2>2, <2>5
      <4>2. Path(Nat, D, h, q, e)
        BY <2>4, <3>2
      <4> HIDE DEF t, v, h
      <4> QED
        BY <1>1, <1>2, <1>3, <4>1, <4>2, PathTwoMore DEF g
    <3> QED
      BY <2>1, <3>3, <3>4 DEF D
  <2>6. CASE ~(r.user = u /\ r.lot = l)
    <3>1. a + D[Head(f)] = a
      BY <2>3, <2>6
    <3>2. Holds(u, l, g, a)'
      <4>1. \A x \in userLots : x.user = u /\ x.lot = l => x # r
        BY <2>6
      <4> QED
        BY <1>5, <2>1, <4>1 DEF Holds
    <3>3. Path(Nat, D, g, a, e)
      <4>1. a = a + D[t] /\ a = a + D[v]
        BY <2>2, <2>6
      <4>2. Path(Nat, D, h, a, e)
        BY <2>4, <3>1
      <4> HIDE DEF t, v, h
      <4> QED
        BY <1>1, <1>2, <1>3, <4>1, <4>2, PathTwoMore DEF g
    <3> QED
      BY <2>1, <3>2, <3>3 DEF D
  <2> QED
    BY <2>5, <2>6
<1>9. UserGood(g, b, m)'
  BY <1>8 DEF UserGood, Path, Placing, UserFlow, Debit
<1> QED
  BY <1>9 DEF g

\* It is never refused.
LEMMA ChangeCovered ==
    ASSUME Data, ~odd, NEW f \in Seq(Ops(odd, Len(users))), f # <<>>, Head(f).do = "change", RowsGood(f),
           NEW b, NEW m, UserGood(f, b, m)
    PROVE  /\ Cardinality(BalanceRows(Head(f).user, Head(f).lot)) = 1
           /\ \A r \in BalanceRows(Head(f).user, Head(f).lot) :
                 ~(Head(f).sum <= 0 /\ -Head(f).sum > r.quantity)
<1> DEFINE n == Len(users)
           u == Head(f).user
           l == Head(f).lot
           D == UserFlow(odd, n, u, l)
<1>1. n \in Nat /\ Head(f) \in Ops(odd, n) /\ u \in 1..n /\ l \in Lots /\ Head(f).sum \in Int
  <2>1. n \in Nat /\ Head(f) \in Ops(odd, n)
    BY UsersLength
  <2>2. u \in 1..n /\ l \in LotsOf(odd) /\ Head(f).sum \in Int
    BY <2>1, OpsAreOps
  <2> QED
    BY <2>1, <2>2 DEF LotsOf
<1>2. PICK r \in userLots : BalanceRows(u, l) = {r}
  BY <1>1, RowCases DEF AllRows, OneRow
<1>3. Cardinality(BalanceRows(u, l)) = 1
  BY <1>2, FS_Singleton
<1>4. PICK a \in Nat, e \in Nat : Holds(u, l, f, a) /\ Path(Nat, D, f, a, e)
  BY <1>1 DEF UserGood
<1>5. D[Head(f)] = Head(f).sum
  BY <1>1 DEF UserFlow
<1> HIDE DEF D
<1>6. a + Head(f).sum \in Nat
  BY <1>4, <1>5, PathHead
<1>7. a = r.quantity
  <2>1. NoRows(f)
    <3>1. NoRows(Tail(f))
      BY RowCases
    <3>2. \A t : Has(f, t) <=> t = Head(f) \/ Has(Tail(f), t)
      BY HasHead
    <3> QED
      BY <3>1, <3>2 DEF NoRows
  <2>2. LiveRows(f) = userLots
    BY <2>1, LiveWithoutRows
  <2>3. r.user = u /\ r.lot = l /\ \A x \in userLots : x.user = u /\ x.lot = l => x = r
    BY <1>2 DEF BalanceRows
  <2> QED
    BY <1>4, <2>2, <2>3 DEF Holds
<1>8. ~(Head(f).sum <= 0 /\ -Head(f).sum > r.quantity)
  BY <1>1, <1>4, <1>6, <1>7
<1> QED
  BY <1>2, <1>3, <1>8

\* The row that the change read is removed: the account does not count it.
LEMMA UserAtDelRow ==
    ASSUME Data, NEW f \in Seq(Ops(odd, Len(users))), f # <<>>, Head(f).do = "del_row",
           NEW b, NEW m, UserGood(f, b, m), UNCHANGED <<users, odd>>,
           userLots' = {r \in userLots : r.pk # Head(f).pk}
    PROVE  UserGood(Tail(f), b, m)'
<1>1. Len(users) \in Nat /\ Head(f) \in Ops(odd, Len(users))
  BY UsersLength
<1> DEFINE g == Tail(f)
<1>2. LiveRows(g)' = LiveRows(f)
  BY LiveAtDelRow
<1>3. ASSUME NEW u \in 1..Len(users), NEW l \in Lots, NEW a \in Nat, Holds(u, l, f, a)
      PROVE  LET D == UserFlow(odd, Len(users), u, l) IN Holds(u, l, g, a + D[Head(f)])'
  <2> DEFINE D == UserFlow(odd, Len(users), u, l)
  <2>1. D[Head(f)] = 0
    BY <1>1, UserFlowOf
  <2> HIDE DEF D, g
  <2>2. a + D[Head(f)] = a
    BY <2>1
  <2>3. Holds(u, l, g, a)'
    BY <1>2, <1>3 DEF Holds
  <2>4. Holds(u, l, g, a + D[Head(f)])'
    BY <2>2, <2>3 DEF D, UserFlow
  <2> QED
    BY <2>4 DEF D
<1> QED
  BY <1>3, UserAtTask

\* The row that is added shows what the account holds.
LEMMA UserAtAddRow ==
    ASSUME Data, NEW f \in Seq(Ops(odd, Len(users))), f # <<>>, Head(f).do = "add_row", RowsGood(f),
           NEW b, NEW m, UserGood(f, b, m), UNCHANGED <<users, odd>>, NEW pk,
           userLots' = userLots \cup {Row(pk, Head(f))}, Row(pk, Head(f)) \notin userLots,
           pk \notin {r.pk : r \in userLots}
    PROVE  UserGood(Tail(f), b, m)'
<1> DEFINE n == Len(users)
           row == Row(pk, Head(f))
           g == Tail(f)
<1>1. /\ n \in Nat /\ Head(f) \in Ops(odd, n) /\ Head(f).user \in 1..n /\ Head(f).lot \in Lots
      /\ Head(f).quantity \in Nat /\ g \in Seq(Ops(odd, n))
  <2>1. n \in Nat /\ Head(f) \in Ops(odd, n) /\ g \in Seq(Ops(odd, n))
    BY UsersLength
  <2> QED
    BY <2>1, OpsAreOps
<1>2. /\ row.user = Head(f).user /\ row.lot = Head(f).lot /\ row.quantity = Head(f).quantity
  BY DEF Row
<1>3. /\ LiveRows(f) = userLots /\ LiveRows(g)' = userLots \cup {row}
      /\ BalanceRows(Head(f).user, Head(f).lot) = {}
  BY LiveAtAddRow
<1> HIDE DEF g, row
<1>7. ASSUME NEW u \in 1..Len(users), NEW l \in Lots, NEW a \in Nat, Holds(u, l, f, a)
      PROVE  LET D == UserFlow(odd, Len(users), u, l) IN Holds(u, l, Tail(f), a + D[Head(f)])'
  <2> DEFINE D == UserFlow(odd, Len(users), u, l)
  <2>1. D[Head(f)] = IF Head(f).user = u /\ Head(f).lot = l THEN Head(f).quantity ELSE 0
    BY <1>1 DEF UserFlow
  <2> DEFINE i == a + D[Head(f)]
  <2>2. /\ Head(f).user = u /\ Head(f).lot = l => i = Head(f).quantity
        /\ ~(Head(f).user = u /\ Head(f).lot = l) => i = a
    <3> HIDE DEF D
    <3>1. CASE Head(f).user = u /\ Head(f).lot = l
      <4>1. a = 0
        BY <1>3, <1>7, <3>1 DEF Holds, BalanceRows
      <4> QED
        BY <1>1, <2>1, <3>1, <4>1
    <3>2. CASE ~(Head(f).user = u /\ Head(f).lot = l)
      BY <2>1, <3>2
    <3> QED
      BY <3>1, <3>2
  <2> HIDE DEF D
  <2>3. \/ i = 0 /\ \A r \in LiveRows(g)' : ~(r.user = u /\ r.lot = l)
        \/ \E r \in LiveRows(g)' : r.user = u /\ r.lot = l /\ i = r.quantity
    <3>1. CASE Head(f).user = u /\ Head(f).lot = l
      BY <1>2, <1>3, <2>2, <3>1
    <3>2. CASE ~(Head(f).user = u /\ Head(f).lot = l)
      <4>1. i = a /\ ~(row.user = u /\ row.lot = l)
        BY <1>2, <2>2, <3>2
      <4> HIDE DEF i
      <4> QED
        BY <1>3, <1>7, <4>1 DEF Holds
    <3> QED
      BY <3>1, <3>2
  <2>4. D' = D
    BY DEF D, UserFlow
  <2>5. Holds(u, l, g, i)'
    BY <2>3, <2>4 DEF Holds
  <2> QED
    BY <2>5 DEF D, g
<1> QED
  BY <1>7, UserAtTask

\* A new user has nothing until its rows are added.
LEMMA UserAtAddUser ==
    ASSUME Data, NEW b, NEW m, UserGood(<<>>, b, m), NEW k, k = Len(users) + 1, Len(users') = k,
           UNCHANGED <<userLots, odd>>, NEW c, ~Placing(c)
    PROVE  UserGood(<<NewRow(k, First), NewRow(k, Second)>>, c, m)'
<1> DEFINE n == Len(users)
           t == NewRow(k, First)
           v == NewRow(k, Second)
           g == <<t, v>>
<1>1. n \in Nat /\ k \in Nat /\ n <= k /\ k \notin 1..n /\ k \in 1..k
  BY UsersLength
<1>2. First \in Lots /\ Second \in Lots /\ DefaultQuantity \in Nat
  BY AmountsAreNumbers DEF Lots
<1>3. t \in Ops(odd, k) /\ v \in Ops(odd, k) /\ t.do = "add_row" /\ v.do = "add_row"
  BY <1>1, <1>2, AddsIsOp DEF NewRow
<1>4. \A x : ~Has(g, Removes(x))
  <2>1. \A x : Has(g, x) <=> x = t \/ x = v
    BY <1>3, HasPair
  <2>2. \A x : Removes(x).do = "del_row"
    BY DEF Removes
  <2> QED
    BY <1>3, <2>1, <2>2
<1> HIDE DEF g
<1>5. LiveRows(g)' = userLots
  BY <1>4 DEF LiveRows, Has
<1>6. LiveRows(<<>>) = userLots
  BY NoRowsInNothing, LiveWithoutRows
<1>7. ASSUME NEW u \in 1..k, NEW l \in Lots
      PROVE  \E a, e \in Nat : Holds(u, l, g, a)' /\ Path(Nat, UserFlow(odd, k, u, l), g, a, e)
  <2> DEFINE D == UserFlow(odd, k, u, l)
  <2>1. /\ D[t] = IF k = u /\ First = l THEN DefaultQuantity ELSE 0
        /\ D[v] = IF k = u /\ Second = l THEN DefaultQuantity ELSE 0
    <3>1. /\ t.user = k /\ t.lot = First /\ t.quantity = DefaultQuantity
          /\ v.user = k /\ v.lot = Second /\ v.quantity = DefaultQuantity
      BY DEF NewRow, Adds
    <3> HIDE DEF t, v
    <3> QED
      BY <1>3, <3>1 DEF UserFlow
  <2>2. PICK a \in Nat : Holds(u, l, g, a)'
    <3>1. CASE u \in 1..n
      <4>1. PICK a \in Nat : Holds(u, l, <<>>, a)
        BY <3>1 DEF UserGood
      <4>2. Holds(u, l, g, a)'
        BY <1>5, <1>6, <4>1 DEF Holds
      <4> QED
        BY <4>2
    <3>2. CASE u \notin 1..n
      <4>1. \A r \in userLots : r.user # u
        BY <3>2, RowFields
      <4>2. Holds(u, l, g, 0)'
        BY <1>5, <4>1 DEF Holds
      <4> QED
        BY <4>2
    <3> QED
      BY <3>1, <3>2
  <2> HIDE DEF D, t, v
  <2>3. a + D[t] \in Nat /\ (a + D[t]) + D[v] \in Nat
    BY <1>2, <2>1
  <2>4. Path(Nat, D, <<t, v>>, a, (a + D[t]) + D[v])
    BY <1>3, <2>3, PathTwo
  <2> QED
    BY <2>2, <2>3, <2>4 DEF D, g
<1>8. Len(users') = k
  OBVIOUS
<1>9. ASSUME NEW u \in 1..Len(users'), NEW l \in Lots
      PROVE  \E a, e \in Nat :
                /\ Holds(u, l, g, a)' /\ Path(Nat, UserFlow(odd', Len(users'), u, l), g, a, e)
                /\ Placing(c) => Debit(u, l, m) <= e
  <2>1. u \in 1..k
    BY <1>8
  <2>2. PICK a \in Nat, e \in Nat : Holds(u, l, g, a)' /\ Path(Nat, UserFlow(odd, k, u, l), g, a, e)
    BY <1>7, <2>1
  <2>3. Path(Nat, UserFlow(odd', Len(users'), u, l), g, a, e)
    BY <1>8, <2>2
  <2> QED
    BY <2>2, <2>3
<1>10. UserGood(g, c, m)'
  BY <1>9 DEF UserGood, Path, Placing, UserFlow, Debit
<1> QED
  BY <1>10 DEF g

\* A client posts an order that it can pay for.
LEMMA UserAtPost ==
    ASSUME Data, RowsGood(<<>>), UserGood(<<>>, <<>>, NoOrder), NEW o \in Orders(odd, Len(users)),
           CanPay(o), ~odd, UNCHANGED <<users, userLots, odd>>, NEW c
    PROVE  UserGood(<<>>, c, o)'
<1>1. LiveRows(<<>>) = userLots /\ LiveRows(<<>>)' = userLots
  <2>1. LiveRows(<<>>) = userLots
    BY NoRowsInNothing, LiveWithoutRows
  <2>2. LiveRows(<<>>)' = LiveRows(<<>>)
    BY DEF LiveRows, Has
  <2> QED
    BY <2>1, <2>2
<1>2. AllRows
  <2>1. <<>> \in Seq(Ops(odd, Len(users)))
    OBVIOUS
  <2> QED
    BY <2>1, RowCases
<1>3. ASSUME NEW u \in 1..Len(users'), NEW l \in Lots
      PROVE  \E a, e \in Nat :
                /\ Holds(u, l, <<>>, a)' /\ Path(Nat, UserFlow(odd', Len(users'), u, l), <<>>, a, e)
                /\ Debit(u, l, o) <= e
  <2>1. PICK a \in Nat, e \in Nat :
           Holds(u, l, <<>>, a) /\ Path(Nat, UserFlow(odd, Len(users), u, l), <<>>, a, e)
    BY DEF UserGood
  <2>2. a = e
    BY <2>1, PathEnd
  <2>3. Debit(u, l, o) <= a
    <3>1. CASE o.user = u /\ LockLot(o) = l
      <4>1. PICK r \in BalanceRows(u, l) : Locked(o) <= r.quantity
        BY <3>1 DEF CanPay
      <4>2. BalanceRows(u, l) = {r}
        BY <1>2, <4>1 DEF AllRows, OneRow
      <4>3. a = r.quantity
        BY <1>1, <2>1, <4>2 DEF Holds, BalanceRows
      <4> QED
        BY <3>1, <4>1, <4>3 DEF Debit
    <3>2. CASE ~(o.user = u /\ LockLot(o) = l)
      BY <3>2 DEF Debit
    <3> QED
      BY <3>1, <3>2
  <2>4. Holds(u, l, <<>>, a)'
    BY <1>1, <2>1 DEF Holds
  <2> QED
    BY <2>1, <2>2, <2>3, <2>4
<1> QED
  BY <1>3 DEF UserGood, Path, UserFlow, Debit

-----------------------------------------------------------------------------
(* Accounts that may go below zero: what the calls move altogether.        *)

\* What the tasks of create_order, closed_order, delete_order and deal move.
CreateNet(D, o) == D[AddsOrder(o)] + D[Change(o.user, LockLot(o), -Locked(o))]
ClosedNet(D, o) == D[Change(o.user, GainLot(o), Gain(o))] + CreateNet(D, o)
DeleteNet(D, o) == D[Change(o.user, LockLot(o), Locked(o))] + D[DeletesOrder(o.id)]
RestNet(D, m, o) ==
    IF o.quantity > m.quantity THEN CreateNet(D, Part(o, o.quantity - m.quantity)) ELSE 0
DealNet(D, m, o) ==
    ((DeleteNet(D, o) + ClosedNet(D, ClosedOther(m, o, m.price)))
        + ClosedNet(D, ClosedMine(m, o))) + RestNet(D, m, o)

\* The path of the tasks of create_order.
LEMMA NetCreate ==
    ASSUME NEW d, NEW n \in Nat, NEW D \in [Ops(d, n) -> Int], NEW o \in Orders(d, n), NEW a \in Int
    PROVE  /\ CreateNet(D, o) \in Int /\ CreateOrder(o) \in Seq(Ops(d, n))
           /\ Path(Int, D, CreateOrder(o), a, a + CreateNet(D, o))
<1> DEFINE t == AddsOrder(o)
           v == Change(o.user, LockLot(o), -Locked(o))
           c == a + D[t]
           e == a + CreateNet(D, o)
<1>1. t \in Ops(d, n) /\ v \in Ops(d, n) /\ CreateOrder(o) \in Seq(Ops(d, n))
  BY CreateOrderOps DEF AddsOrder
<1>2. CreateOrder(o) = <<t, v>>
  BY DEF CreateOrder, AddsOrder
<1>3. D[t] \in Int /\ D[v] \in Int /\ CreateNet(D, o) = D[t] + D[v]
  BY <1>1 DEF CreateNet
<1>4. c \in Int /\ e \in Int /\ e = c + D[v] /\ c = a + D[t] /\ CreateNet(D, o) \in Int
  <2> HIDE DEF t, v
  <2> QED
    BY <1>3
<1> HIDE DEF t, v, c, e
<1>5. Path(Int, D, <<t, v>>, a, e)
  BY <1>1, <1>4, PathTwo
<1> QED
  BY <1>1, <1>2, <1>4, <1>5 DEF e

\* The path of the tasks of closed_order.
LEMMA NetClosed ==
    ASSUME NEW d, NEW n \in Nat, NEW D \in [Ops(d, n) -> Int], NEW o \in Orders(d, n), NEW a \in Int
    PROVE  /\ ClosedNet(D, o) \in Int /\ ClosedOrder(o) \in Seq(Ops(d, n))
           /\ Path(Int, D, ClosedOrder(o), a, a + ClosedNet(D, o))
<1> DEFINE t == Change(o.user, GainLot(o), Gain(o))
           c == a + D[t]
           k == CreateOrder(o)
<1>1. t \in Ops(d, n) /\ ClosedOrder(o) = <<t>> \o k /\ k \in Seq(Ops(d, n))
      /\ ClosedOrder(o) \in Seq(Ops(d, n))
  BY ClosedOrderOps, CreateOrderOps
<1>2. D[t] \in Int /\ CreateNet(D, o) \in Int /\ ClosedNet(D, o) = D[t] + CreateNet(D, o)
  BY <1>1, NetCreate DEF ClosedNet
<1> HIDE DEF t
<1>3. c \in Int /\ c = a + D[t] /\ ClosedNet(D, o) \in Int
      /\ c + CreateNet(D, o) = a + ClosedNet(D, o)
  BY <1>2
<1> HIDE DEF c
<1>4. Path(Int, D, k, c, c + CreateNet(D, o))
  BY <1>3, NetCreate
<1> HIDE DEF k
<1>5. Path(Int, D, <<t>> \o k, a, c + CreateNet(D, o))
  BY <1>1, <1>3, <1>4, PathOneMore
<1>6. Path(Int, D, ClosedOrder(o), a, a + ClosedNet(D, o))
  <2>1. ClosedOrder(o) = <<t>> \o k /\ c + CreateNet(D, o) = a + ClosedNet(D, o)
    BY <1>1, <1>3
  <2> QED
    BY <1>5, <2>1, Zenon
<1> QED
  BY <1>1, <1>3, <1>6

\* The path of the tasks of delete_order.
LEMMA NetDelete ==
    ASSUME NEW d, NEW n \in Nat, NEW D \in [Ops(d, n) -> Int], NEW o \in Orders(d, n), NEW a \in Int
    PROVE  /\ DeleteNet(D, o) \in Int /\ DeleteOrder(o) \in Seq(Ops(d, n))
           /\ Path(Int, D, DeleteOrder(o), a, a + DeleteNet(D, o))
<1> DEFINE t == Change(o.user, LockLot(o), Locked(o))
           v == DeletesOrder(o.id)
           c == a + D[t]
           e == a + DeleteNet(D, o)
<1>1. t \in Ops(d, n) /\ v \in Ops(d, n) /\ DeleteOrder(o) \in Seq(Ops(d, n))
  BY DeleteOrderOps DEF DeletesOrder
<1>2. DeleteOrder(o) = <<t, v>>
  BY DEF DeleteOrder, DeletesOrder
<1>3. D[t] \in Int /\ D[v] \in Int /\ DeleteNet(D, o) = D[t] + D[v]
  BY <1>1 DEF DeleteNet
<1>4. c \in Int /\ e \in Int /\ e = c + D[v] /\ c = a + D[t] /\ DeleteNet(D, o) \in Int
  <2> HIDE DEF t, v
  <2> QED
    BY <1>3
<1> HIDE DEF t, v, c, e
<1>5. Path(Int, D, <<t, v>>, a, e)
  BY <1>1, <1>4, PathTwo
<1> QED
  BY <1>1, <1>2, <1>4, <1>5 DEF e

\* The path of what is left of the other order.
LEMMA NetRest ==
    ASSUME NEW d, NEW n \in Nat, NEW D \in [Ops(d, n) -> Int], NEW m \in Orders(d, n), NEW o \in Orders(d, n),
           NEW a \in Int
    PROVE  /\ RestNet(D, m, o) \in Int /\ Rest(m, o) \in Seq(Ops(d, n))
           /\ Path(Int, D, Rest(m, o), a, a + RestNet(D, m, o))
<1>1. CASE o.quantity > m.quantity
  <2> DEFINE x == Part(o, o.quantity - m.quantity)
  <2>1. x \in Orders(d, n) /\ Rest(m, o) = CreateOrder(x) /\ RestNet(D, m, o) = CreateNet(D, x)
    BY <1>1, RestOps DEF Rest, RestNet
  <2> HIDE DEF x
  <2> QED
    BY <2>1, NetCreate
<1>2. CASE ~(o.quantity > m.quantity)
  <2>1. Rest(m, o) = <<>> /\ RestNet(D, m, o) = 0 /\ a + 0 = a
    BY <1>2 DEF Rest, RestNet
  <2>2. Path(Int, D, <<>>, a, a)
    BY PathNone
  <2> QED
    BY <2>1, <2>2, RestOps
<1> QED
  BY <1>1, <1>2

\* The path of a deal.
LEMMA NetDeal ==
    ASSUME NEW d, NEW n \in Nat, NEW D \in [Ops(d, n) -> Int], NEW m \in Orders(d, n), NEW o \in Orders(d, n),
           NEW a \in Int
    PROVE  /\ DealNet(D, m, o) \in Int
           /\ Path(Int, D, Deal(m, o), a, a + DealNet(D, m, o))
<1> DEFINE c == ClosedOther(m, o, m.price)
           v == ClosedMine(m, o)
           x == DeleteOrder(o)
           y == ClosedOrder(c)
           z == ClosedOrder(v)
           r == Rest(m, o)
           i == DeleteNet(D, o)
           j == ClosedNet(D, c)
           k == ClosedNet(D, v)
           h == RestNet(D, m, o)
           a1 == a + i
           a2 == a1 + j
           a3 == a2 + k
           a4 == a3 + h
<1>1. c \in Orders(d, n) /\ v \in Orders(d, n)
  BY ClosedFields, OrderFields
<1> HIDE DEF c, v
<1>2. /\ i \in Int /\ j \in Int /\ k \in Int /\ h \in Int
      /\ x \in Seq(Ops(d, n)) /\ y \in Seq(Ops(d, n)) /\ z \in Seq(Ops(d, n)) /\ r \in Seq(Ops(d, n))
  BY <1>1, NetDelete, NetClosed, NetRest
<1>3. DealNet(D, m, o) = ((i + j) + k) + h
  BY DEF DealNet, c, v
<1> HIDE DEF i, j, k, h
<1>4. /\ a1 \in Int /\ a2 \in Int /\ a3 \in Int
      /\ a4 = a + DealNet(D, m, o) /\ DealNet(D, m, o) \in Int
  BY <1>2, <1>3
<1>5. Path(Int, D, x, a, a1)
  BY NetDelete DEF i
<1> HIDE DEF x, a1
<1>6. Path(Int, D, y, a1, a2)
  BY <1>1, <1>4, NetClosed DEF j
<1> HIDE DEF y, a2
<1>7. Path(Int, D, z, a2, a3)
  BY <1>1, <1>4, NetClosed DEF k
<1> HIDE DEF z, a3
<1>8. Path(Int, D, r, a3, a4)
  BY <1>4, NetRest DEF h
<1> HIDE DEF r, a4
<1>9. x \o y \in Seq(Ops(d, n)) /\ (x \o y) \o z \in Seq(Ops(d, n))
  BY <1>2
<1>10. Path(Int, D, x \o y, a, a2)
  BY <1>2, <1>5, <1>6, PathJoined
<1>11. Path(Int, D, (x \o y) \o z, a, a3)
  BY <1>2, <1>7, <1>9, <1>10, PathJoined
<1>12. Path(Int, D, ((x \o y) \o z) \o r, a, a4)
  BY <1>2, <1>8, <1>9, <1>11, PathJoined
<1>13. Deal(m, o) = ((x \o y) \o z) \o r
  BY DealOps DEF x, y, z, r, c, v
<1>14. Path(Int, D, Deal(m, o), a, a4)
  BY <1>12, <1>13, Zenon
<1> QED
  BY <1>4, <1>14

\* An account that ends at 0: the first task is done.
LEMMA BalanceAtTask ==
    ASSUME NEW T, NEW f \in Seq(T), f # <<>>, NEW D, NEW a, NEW c, Path(Int, D, f, a, 0),
           c = a + D[Head(f)]
    PROVE  Path(Int, D, Tail(f), c, 0)
BY PathHead

\* One change becomes two tasks.
LEMMA BalanceAtChange ==
    ASSUME NEW T, NEW f \in Seq(T), f # <<>>, NEW D \in [T -> Int], NEW a, Path(Int, D, f, a, 0),
           NEW t \in T, NEW v \in T, NEW c \in Int, (c + D[t]) + D[v] = a + D[Head(f)]
    PROVE  Path(Int, D, <<t, v>> \o Tail(f), c, 0)
<1> DEFINE h == Tail(f)
           d == c + D[t]
           e == d + D[v]
<1>1. h \in Seq(T) /\ D[t] \in Int /\ D[v] \in Int
  OBVIOUS
<1>2. d \in Int /\ e \in Int /\ e = a + D[Head(f)]
  BY <1>1
<1>3. Path(Int, D, h, e, 0)
  BY <1>2, PathHead
<1>4. d = c + D[t] /\ e = d + D[v]
  OBVIOUS
<1> HIDE DEF h, d, e
<1> QED
  BY <1>1, <1>2, <1>3, <1>4, PathTwoMore DEF h

-----------------------------------------------------------------------------
(* The accounts of a lot and of the trades.                                *)

\* What a task does to the value in lot l, balances and open orders together.
LotFlow(d, n, l) ==
    [t \in Ops(d, n) |->
        IF t.do = "change" /\ t.lot = l THEN t.sum
        ELSE IF t.do = "add_row" /\ t.lot = l THEN t.quantity
        ELSE IF t.do = "add_order" /\ ~t.order.closed /\ LockLot(t.order) = l
             THEN Locked(t.order)
        ELSE 0]

\* What an order holds back in lot l, and what its closing brings there.
Held(l, o)   == IF LockLot(o) = l THEN Locked(o) ELSE 0
Brings(l, o) == IF GainLot(o) = l THEN Gain(o) ELSE 0

\* Sales and purchases, by quantity or by money.
SaleMeasure(k)     == IF k = "traded" THEN "quantity" ELSE "gain"
PurchaseMeasure(k) == IF k = "traded" THEN "quantity" ELSE "locked"
Value(k, o) ==
    IF o.type = "sell" THEN Measure(SaleMeasure(k), o) ELSE -Measure(PurchaseMeasure(k), o)

\* What a task does to the difference between sales and purchases.
TradeFlow(d, n, k) ==
    [t \in Ops(d, n) |-> IF t.do = "add_order" /\ t.order.closed THEN Value(k, t.order) ELSE 0]

\* What the measures of orders are.
LEMMA Measures ==
    ASSUME NEW o
    PROVE  /\ Measure("quantity", o) = o.quantity /\ Measure("locked", o) = Locked(o)
           /\ Measure("gain", o) = Gain(o)
BY DEF Measure

\* Values are numbers, and the two parts of a deal have opposite ones.
LEMMA ValueInt ==
    ASSUME NEW d, NEW n, NEW o \in Orders(d, n), NEW k
    PROVE  Value(k, o) \in Int
<1>1. o.quantity \in Int /\ Locked(o) \in Int /\ Gain(o) \in Int
  BY OrderFields
<1>2. \A x \in Int : -x \in Int
  OBVIOUS
<1> QED
  BY <1>1, <1>2, Measures DEF Value, SaleMeasure, PurchaseMeasure

\* The fields of the tasks that the calls expand into.
LEMMA TaskFields ==
    ASSUME NEW d, NEW n \in Nat
    PROVE  /\ \A o \in Orders(d, n) : /\ AddsOrder(o) \in Ops(d, n) /\ AddsOrder(o).do = "add_order"
                                  /\ AddsOrder(o).order = o
           /\ \A id \in Nat : DeletesOrder(id) \in Ops(d, n) /\ DeletesOrder(id).do = "del_order"
           /\ \A u \in 1..n, l \in LotsOf(d), s \in Int :
                /\ Change(u, l, s) \in Ops(d, n) /\ Change(u, l, s).do = "change"
                /\ Change(u, l, s).lot = l /\ Change(u, l, s).sum = s
<1>1. \A o \in Orders(d, n) : AddsOrder(o) \in Ops(d, n)
  BY DEF AddsOrder, Ops
<1>2. \A id \in Nat : DeletesOrder(id) \in Ops(d, n)
  BY DEF DeletesOrder, Ops
<1>3. \A u \in 1..n, l \in LotsOf(d), s \in Int :
                /\ Change(u, l, s) \in Ops(d, n) /\ Change(u, l, s).do = "change"
                /\ Change(u, l, s).lot = l /\ Change(u, l, s).sum = s
  BY DEF Change, Ops
<1> QED
  BY <1>1, <1>2, <1>3 DEF AddsOrder, DeletesOrder

\* The account of a lot, task by task.
LEMMA LotFlowOf ==
    ASSUME NEW d, NEW n \in Nat, NEW l
    PROVE  LET D == LotFlow(d, n, l) IN
           /\ D \in [Ops(d, n) -> Int]
           /\ \A u \in 1..n, k \in LotsOf(d), s \in Int : D[Change(u, k, s)] = IF k = l THEN s ELSE 0
           /\ \A o \in Orders(d, n) : D[AddsOrder(o)] = IF o.closed THEN 0 ELSE Held(l, o)
           /\ \A id \in Nat : D[DeletesOrder(id)] = 0
<1> DEFINE D == LotFlow(d, n, l)
           E(t) == IF t.do = "change" /\ t.lot = l THEN t.sum
                   ELSE IF t.do = "add_row" /\ t.lot = l THEN t.quantity
                   ELSE IF t.do = "add_order" /\ ~t.order.closed /\ LockLot(t.order) = l
                        THEN Locked(t.order)
                   ELSE 0
<1>1. ASSUME NEW t \in Ops(d, n) PROVE E(t) \in Int
  <2>1. /\ t.do = "add_row" => t.quantity \in Nat
        /\ t.do = "change" => t.sum \in Int
        /\ t.do = "add_order" => Locked(t.order) \in Int
    <3>1. t.do = "add_order" => t.order \in Orders(d, n)
      BY OpsAreOps
    <3> QED
      BY <3>1, OpsAreOps, OrderFields
  <2> QED
    BY <2>1
<1>2. D = [t \in Ops(d, n) |-> E(t)]
  BY DEF LotFlow
<1>3. \A t \in Ops(d, n) : D[t] = E(t)
  BY <1>2
<1> HIDE DEF D
<1>4. D \in [Ops(d, n) -> Int]
  <2> HIDE DEF E
  <2> QED
    BY <1>1, <1>2
<1>5. ASSUME NEW u \in 1..n, NEW k \in LotsOf(d), NEW s \in Int
      PROVE  D[Change(u, k, s)] = IF k = l THEN s ELSE 0
  <2> DEFINE t == Change(u, k, s)
  <2>1. t \in Ops(d, n) /\ t.do = "change" /\ t.lot = k /\ t.sum = s
    BY TaskFields
  <2> HIDE DEF t
  <2>2. D[t] = IF k = l THEN s ELSE 0
    BY <1>3, <2>1
  <2> QED
    BY <2>2 DEF t
<1>6. ASSUME NEW o \in Orders(d, n)
      PROVE  D[AddsOrder(o)] = IF o.closed THEN 0 ELSE Held(l, o)
  <2> DEFINE t == AddsOrder(o)
  <2>1. t \in Ops(d, n) /\ t.do = "add_order" /\ t.order = o
    BY TaskFields
  <2> HIDE DEF t
  <2>2. D[t] = IF ~o.closed /\ LockLot(o) = l THEN Locked(o) ELSE 0
    BY <1>3, <2>1
  <2> QED
    BY <2>2 DEF t, Held
<1>7. ASSUME NEW id \in Nat PROVE D[DeletesOrder(id)] = 0
  <2>1. DeletesOrder(id) \in Ops(d, n) /\ DeletesOrder(id).do = "del_order"
    BY TaskFields
  <2> QED
    BY <1>3, <2>1
<1> QED
  BY <1>4, <1>5, <1>6, <1>7 DEF D

\* What the calls move in the account of a lot: an open order that is created
\* nothing, a closed one what its quantity cost; a deal what the order that
\* it deletes held back.
LEMMA LotNets ==
    ASSUME NEW d, NEW n \in Nat, NEW l, NEW m \in Orders(d, n), NEW o \in Orders(d, n)
    PROVE  LET D == LotFlow(d, n, l) IN
           /\ ~o.closed => CreateNet(D, o) = 0
           /\ DeleteNet(D, o) = Held(l, o)
           /\ IsReverse(m, o) /\ IsProfit(m, o) => DealNet(D, m, o) = Held(l, o)
<1> DEFINE D == LotFlow(d, n, l)
<1>1. /\ D \in [Ops(d, n) -> Int]
      /\ \A u \in 1..n, k \in LotsOf(d), s \in Int : D[Change(u, k, s)] = IF k = l THEN s ELSE 0
      /\ \A x \in Orders(d, n) : D[AddsOrder(x)] = IF x.closed THEN 0 ELSE Held(l, x)
      /\ \A id \in Nat : D[DeletesOrder(id)] = 0
  BY LotFlowOf
<1> HIDE DEF D
<1>2. ASSUME NEW x \in Orders(d, n)
      PROVE  /\ CreateNet(D, x) = IF x.closed THEN -Held(l, x) ELSE 0
             /\ ClosedNet(D, x) = Brings(l, x) + CreateNet(D, x)
             /\ DeleteNet(D, x) = Held(l, x)
             /\ Held(l, x) \in Int /\ Brings(l, x) \in Int
  <2>1. /\ x.user \in 1..n /\ x.id \in Nat /\ LockLot(x) \in LotsOf(d) /\ GainLot(x) \in LotsOf(d)
        /\ Locked(x) \in Int /\ Gain(x) \in Int /\ -Locked(x) \in Int /\ x.closed \in BOOLEAN
    BY OrderFields
  <2>2. /\ D[Change(x.user, LockLot(x), -Locked(x))] = IF LockLot(x) = l THEN -Locked(x) ELSE 0
        /\ D[Change(x.user, LockLot(x), Locked(x))] = IF LockLot(x) = l THEN Locked(x) ELSE 0
        /\ D[Change(x.user, GainLot(x), Gain(x))] = IF GainLot(x) = l THEN Gain(x) ELSE 0
        /\ D[AddsOrder(x)] = IF x.closed THEN 0 ELSE Held(l, x)
        /\ D[DeletesOrder(x.id)] = 0
    BY <1>1, <2>1
  <2>3. Held(l, x) \in Int /\ Brings(l, x) \in Int
    BY <2>1 DEF Held, Brings
  <2>4. D[Change(x.user, LockLot(x), -Locked(x))] = -Held(l, x)
    BY <2>1, <2>2 DEF Held
  <2>5. D[Change(x.user, LockLot(x), Locked(x))] = Held(l, x)
    BY <2>2 DEF Held
  <2>6. CreateNet(D, x) = IF x.closed THEN -Held(l, x) ELSE 0
    <3>1. CreateNet(D, x) = (IF x.closed THEN 0 ELSE Held(l, x)) + (-Held(l, x))
      BY <2>2, <2>4 DEF CreateNet
    <3>2. CASE x.closed
      BY <2>3, <3>1, <3>2
    <3>3. CASE ~x.closed
      BY <2>3, <3>1, <3>3
    <3> QED
      BY <2>1, <3>2, <3>3
  <2>7. ClosedNet(D, x) = Brings(l, x) + CreateNet(D, x)
    BY <2>2 DEF ClosedNet, Brings
  <2>8. DeleteNet(D, x) = Held(l, x)
    BY <2>2, <2>3, <2>5 DEF DeleteNet
  <2> QED
    BY <2>3, <2>6, <2>7, <2>8
<1>3. ~o.closed => CreateNet(D, o) = 0
  BY <1>2
<1>4. ASSUME IsReverse(m, o), IsProfit(m, o) PROVE DealNet(D, m, o) = Held(l, o)
  <2> DEFINE c == ClosedOther(m, o, m.price)
             v == ClosedMine(m, o)
  <2>1. c \in Orders(d, n) /\ c.closed /\ v \in Orders(d, n) /\ v.closed
    BY ClosedFields, OrderFields
  <2>2. /\ Gain(c) = Locked(v) /\ Gain(v) = Locked(c)
        /\ GainLot(c) = LockLot(v) /\ GainLot(v) = LockLot(c)
    BY <1>4, PartsMeet
  <2> HIDE DEF c, v
  <2>3. Brings(l, c) = Held(l, v) /\ Brings(l, v) = Held(l, c)
    BY <2>2 DEF Brings, Held
  <2>4. RestNet(D, m, o) = 0
    <3>1. CASE o.quantity > m.quantity
      <4> DEFINE x == Part(o, o.quantity - m.quantity)
      <4>1. x \in Orders(d, n)
        BY <3>1, RestOps
      <4>2. x.closed = o.closed
        BY DEF Part, Orders
      <4> HIDE DEF x
      <4>3. CreateNet(D, x) = 0
        BY <1>2, <1>4, <4>1, <4>2 DEF IsReverse
      <4> QED
        BY <3>1, <4>3 DEF RestNet, x
    <3>2. CASE ~(o.quantity > m.quantity)
      BY <3>2 DEF RestNet
    <3> QED
      BY <3>1, <3>2
  <2>5. /\ ClosedNet(D, c) = Held(l, v) + (-Held(l, c)) /\ DeleteNet(D, o) = Held(l, o)
        /\ ClosedNet(D, v) = Held(l, c) + (-Held(l, v))
        /\ Held(l, c) \in Int /\ Held(l, v) \in Int /\ Held(l, o) \in Int
    BY <1>2, <2>1, <2>3
  <2>6. DealNet(D, m, o)
           = ((Held(l, o) + (Held(l, v) + (-Held(l, c)))) + (Held(l, c) + (-Held(l, v)))) + 0
    BY <2>4, <2>5, Zenon DEF DealNet, c, v
  <2>7. \A x, y, z \in Int : ((x + (y + (-z))) + (z + (-y))) + 0 = x
    OBVIOUS
  <2> QED
    BY <2>5, <2>6, <2>7
<1> QED
  BY <1>2, <1>3, <1>4 DEF D

\* The account of the trades, task by task.
LEMMA TradeFlowOf ==
    ASSUME NEW d, NEW n, NEW k
    PROVE  LET D == TradeFlow(d, n, k) IN
           /\ D \in [Ops(d, n) -> Int]
           /\ \A t \in Ops(d, n) : t.do # "add_order" => D[t] = 0
<1> DEFINE D == TradeFlow(d, n, k)
<1>1. ASSUME NEW t \in Ops(d, n), t.do = "add_order" PROVE Value(k, t.order) \in Int
  <2>1. t.order \in Orders(d, n)
    BY <1>1 DEF Ops
  <2> QED
    BY <2>1, ValueInt
<1>2. D \in [Ops(d, n) -> Int] /\ \A t \in Ops(d, n) : t.do # "add_order" => D[t] = 0
  BY <1>1 DEF TradeFlow
<1> QED
  BY <1>2

\* What they move in the account of the trades: a deal nothing, since what one
\* part of it sells the other buys.
LEMMA TradeNets ==
    ASSUME NEW d, NEW n \in Nat, NEW k, NEW m \in Orders(d, n), NEW o \in Orders(d, n)
    PROVE  LET D == TradeFlow(d, n, k) IN
           /\ D[AddsOrder(o)] = IF o.closed THEN Value(k, o) ELSE 0
           /\ ~o.closed => CreateNet(D, o) = 0
           /\ DeleteNet(D, o) = 0
           /\ IsReverse(m, o) /\ IsProfit(m, o) => DealNet(D, m, o) = 0
<1> DEFINE D == TradeFlow(d, n, k)
<1>1. D = [t \in Ops(d, n) |-> IF t.do = "add_order" /\ t.order.closed
                            THEN Value(k, t.order) ELSE 0]
  BY DEF TradeFlow
<1>2. \A t \in Ops(d, n) : t.do # "add_order" => D[t] = 0
  BY TradeFlowOf
<1> HIDE DEF D
<1>3. ASSUME NEW x \in Orders(d, n)
      PROVE  /\ D[AddsOrder(x)] = IF x.closed THEN Value(k, x) ELSE 0
             /\ CreateNet(D, x) = IF x.closed THEN Value(k, x) ELSE 0
             /\ ClosedNet(D, x) = IF x.closed THEN Value(k, x) ELSE 0
             /\ DeleteNet(D, x) = 0 /\ Value(k, x) \in Int
  <2>1. /\ x.user \in 1..n /\ x.id \in Nat /\ LockLot(x) \in LotsOf(d) /\ GainLot(x) \in LotsOf(d)
        /\ Locked(x) \in Int /\ Gain(x) \in Int /\ -Locked(x) \in Int /\ x.closed \in BOOLEAN
    BY OrderFields
  <2>2. /\ D[Change(x.user, LockLot(x), -Locked(x))] = 0
        /\ D[Change(x.user, LockLot(x), Locked(x))] = 0
        /\ D[Change(x.user, GainLot(x), Gain(x))] = 0 /\ D[DeletesOrder(x.id)] = 0
    <3>1. \A u \in 1..n, l \in LotsOf(d), s \in Int : D[Change(u, l, s)] = 0
      BY <1>2, TaskFields
    <3>2. \A id \in Nat : D[DeletesOrder(id)] = 0
      BY <1>2, TaskFields
    <3> QED
      BY <2>1, <3>1, <3>2
  <2>3. D[AddsOrder(x)] = IF x.closed THEN Value(k, x) ELSE 0
    <3> DEFINE t == AddsOrder(x)
    <3>1. t \in Ops(d, n) /\ t.do = "add_order" /\ t.order = x
      BY TaskFields
    <3> HIDE DEF t
    <3>2. D[t] = IF x.closed THEN Value(k, x) ELSE 0
      BY <1>1, <3>1
    <3> QED
      BY <3>2 DEF t
  <2>4. Value(k, x) \in Int
    BY ValueInt
  <2>5. CreateNet(D, x) = IF x.closed THEN Value(k, x) ELSE 0
    BY <2>2, <2>3, <2>4 DEF CreateNet
  <2>6. ClosedNet(D, x) = IF x.closed THEN Value(k, x) ELSE 0
    BY <2>2, <2>4, <2>5 DEF ClosedNet
  <2>7. DeleteNet(D, x) = 0
    BY <2>2 DEF DeleteNet
  <2> QED
    BY <2>3, <2>4, <2>5, <2>6, <2>7
<1>4. ASSUME IsReverse(m, o), IsProfit(m, o) PROVE DealNet(D, m, o) = 0
  <2> DEFINE c == ClosedOther(m, o, m.price)
             v == ClosedMine(m, o)
  <2>1. /\ c \in Orders(d, n) /\ c.closed /\ v \in Orders(d, n) /\ v.closed
        /\ c.quantity = v.quantity /\ c.type = o.type /\ v.type = m.type
    BY ClosedFields, OrderFields
  <2>2. Gain(c) = Locked(v) /\ Gain(v) = Locked(c)
    BY <1>4, PartsMeet
  <2>3. o.type \in Types /\ m.type \in Types
    BY OrderFields
  <2> HIDE DEF c, v
  <2>4. /\ c.quantity \in Int /\ v.quantity \in Int /\ Locked(c) \in Int /\ Locked(v) \in Int
    BY <2>1, OrderFields
  <2>5. Value(k, c) + Value(k, v) = 0
    <3>1. CASE k = "traded"
      <4>1. \A x : Value(k, x) = IF x.type = "sell" THEN x.quantity ELSE -x.quantity
        BY <3>1, Measures DEF Value, SaleMeasure, PurchaseMeasure
      <4> QED
        BY <1>4, <2>1, <2>3, <2>4, <4>1 DEF IsReverse
    <3>2. CASE k # "traded"
      <4>1. \A x : Value(k, x) = IF x.type = "sell" THEN Gain(x) ELSE -Locked(x)
        BY <3>2, Measures DEF Value, SaleMeasure, PurchaseMeasure
      <4> QED
        BY <1>4, <2>1, <2>2, <2>3, <2>4, <4>1 DEF IsReverse
    <3> QED
      BY <3>1, <3>2
  <2>6. RestNet(D, m, o) = 0
    <3>1. CASE o.quantity > m.quantity
      <4> DEFINE x == Part(o, o.quantity - m.quantity)
      <4>1. x \in Orders(d, n)
        BY <3>1, RestOps
      <4>2. x.closed = o.closed
        BY DEF Part, Orders
      <4> HIDE DEF x
      <4>3. CreateNet(D, x) = 0
        BY <1>3, <1>4, <4>1, <4>2 DEF IsReverse
      <4> QED
        BY <3>1, <4>3 DEF RestNet, x
    <3>2. CASE ~(o.quantity > m.quantity)
      BY <3>2 DEF RestNet
    <3> QED
      BY <3>1, <3>2
  <2>7. /\ ClosedNet(D, c) = Value(k, c) /\ ClosedNet(D, v) = Value(k, v)
        /\ DeleteNet(D, o) = 0 /\ Value(k, c) \in Int /\ Value(k, v) \in Int
    BY <1>3, <2>1
  <2>8. DealNet(D, m, o) = ((0 + Value(k, c)) + Value(k, v)) + 0
    BY <2>6, <2>7, Zenon DEF DealNet, c, v
  <2> QED
    BY <2>5, <2>7, <2>8
<1> QED
  BY <1>3, <1>4 DEF D

-----------------------------------------------------------------------------
(* Cancelled closed orders: they are deleted, once.                        *)

\* The orders that are to be deleted exist or existed; a closed one among them
\* has been cancelled; a cancelled one that is still there is to be deleted.
UndoneGood(f) ==
    /\ \A id : Has(f, DeletesOrder(id)) => id \in Nat /\ id <= orderPk
    /\ \A o \in orders : o.closed /\ Has(f, DeletesOrder(o.id)) => o \in undone
    /\ \A p \in undone, o \in orders : o.id = p.id => Has(f, DeletesOrder(o.id))

\* Tasks that delete the same orders.
LEMMA UndoneSame ==
    ASSUME NEW f, NEW g, UndoneGood(f), UNCHANGED <<orders, orderPk, undone>>,
           \A id : Has(g, DeletesOrder(id)) <=> Has(f, DeletesOrder(id))
    PROVE  UndoneGood(g)'
<1>1. /\ \A id : Has(g, DeletesOrder(id)) => id \in Nat /\ id <= orderPk
      /\ \A o \in orders : o.closed /\ Has(g, DeletesOrder(o.id)) => o \in undone
      /\ \A p \in undone, o \in orders : o.id = p.id => Has(g, DeletesOrder(o.id))
  BY DEF UndoneGood
<1> QED
  BY <1>1 DEF UndoneGood

\* A deal deletes one order, and so does delete_order.
LEMMA DeletesOne ==
    ASSUME NEW d, NEW n \in Nat, NEW m \in Orders(d, n), NEW o \in Orders(d, n), NEW id
    PROVE  /\ Has(Deal(m, o), DeletesOrder(id)) <=> id = o.id
           /\ Has(DeleteOrder(o), DeletesOrder(id)) <=> id = o.id
<1>1. /\ DeletesOrder(id).do = "del_order" /\ DeletesOrder(id).id = id
      /\ DeletesOrder(o.id).id = o.id /\ \A x : AddsOrder(x).do = "add_order"
      /\ DeletesOrder(id) # Change(o.user, LockLot(o), Locked(o))
      /\ DeletesOrder(id) = DeletesOrder(o.id) <=> id = o.id
  BY DEF DeletesOrder, AddsOrder, Change
<1>2. ASSUME Has(Deal(m, o), DeletesOrder(id)) PROVE id = o.id
  <2>1. \/ DeletesOrder(id).do = "change"
        \/ DeletesOrder(id) = DeletesOrder(o.id)
        \/ DeletesOrder(id) = AddsOrder(ClosedOther(m, o, m.price))
        \/ DeletesOrder(id) = AddsOrder(ClosedMine(m, o))
        \/ o.quantity > m.quantity
              /\ DeletesOrder(id) = AddsOrder(Part(o, o.quantity - m.quantity))
    BY <1>2, DealHas
  <2> QED
    BY <1>1, <2>1
<1>3. Has(Deal(m, o), DeletesOrder(o.id))
  BY DealDeletes
<1>4. Has(DeleteOrder(o), DeletesOrder(id)) <=>
         DeletesOrder(id) \in {Change(o.user, LockLot(o), Locked(o)), DeletesOrder(o.id)}
  BY DeleteOrderHas
<1> QED
  BY <1>1, <1>2, <1>3, <1>4

\* A deal deletes an open order.
LEMMA UndoneAtDeal ==
    ASSUME Data, UndoneGood(<<>>), NEW m \in Orders(odd, Len(users)), NEW o \in Opened,
           UNCHANGED <<orders, orderPk, undone, odd>>
    PROVE  UndoneGood(Deal(m, o))'
<1> DEFINE g == Deal(m, o)
<1>1. /\ Len(users) \in Nat /\ o \in Orders(odd, Len(users)) /\ o \in orders /\ ~o.closed
      /\ \A p \in orders : p.id = o.id => p = o
  BY UsersLength, OpenedOrders
<1>2. o.id \in Nat /\ o.id <= orderPk
  BY <1>1, OrderFields DEF Data, TypeOK
<1>3. \A id : Has(g, DeletesOrder(id)) => id = o.id
  BY <1>1, DeletesOne
<1> HIDE DEF g
<1>4. \A p \in undone, x \in orders : x.id # p.id
  BY NothingComes DEF UndoneGood
<1>5. /\ \A id : Has(g, DeletesOrder(id)) => id \in Nat /\ id <= orderPk
      /\ \A x \in orders : x.closed /\ Has(g, DeletesOrder(x.id)) => x \in undone
      /\ \A p \in undone, x \in orders : x.id = p.id => Has(g, DeletesOrder(x.id))
  BY <1>1, <1>2, <1>3, <1>4
<1>6. UndoneGood(g)'
  BY <1>5 DEF UndoneGood
<1> QED
  BY <1>6 DEF g

\* A cancellation deletes the order that it found.
LEMMA UndoneAtCancel ==
    ASSUME Data, UndoneGood(<<>>), NEW o \in orders, UNCHANGED <<orders, orderPk>>,
           undone' = undone \cup {p \in {o} : p.closed}
    PROVE  UndoneGood(DeleteOrder(o))'
<1> DEFINE g == DeleteOrder(o)
<1>1. /\ Len(users) \in Nat /\ o \in Orders(odd, Len(users)) /\ o.id <= orderPk
      /\ \A p \in orders : p.id = o.id => p = o
  BY UsersLength DEF Data, TypeOK
<1>2. o.id \in Nat
  BY <1>1, OrderFields
<1>3. \A id : Has(g, DeletesOrder(id)) <=> id = o.id
  BY <1>1, DeletesOne
<1> HIDE DEF g
<1>4. \A p \in undone, x \in orders : x.id # p.id
  BY NothingComes DEF UndoneGood
<1>5. /\ \A id : Has(g, DeletesOrder(id)) => id \in Nat /\ id <= orderPk
      /\ \A x \in orders : x.closed /\ Has(g, DeletesOrder(x.id)) => x \in undone'
      /\ \A p \in undone', x \in orders : x.id = p.id => Has(g, DeletesOrder(x.id))
  BY <1>1, <1>2, <1>3, <1>4
<1>6. UndoneGood(g)'
  BY <1>5 DEF UndoneGood
<1> QED
  BY <1>6 DEF g

\* A new order has a key of its own.
LEMMA UndoneAtAddOrder ==
    ASSUME Data, NEW f \in Seq(Ops(odd, Len(users))), f # <<>>, Head(f).do = "add_order",
           UndoneGood(f), NEW id, id = orderPk + 1, orderPk' = id, undone' = undone,
           orders' = orders \cup {WithId(Head(f).order, id)}
    PROVE  UndoneGood(Tail(f))'
<1> DEFINE g == Tail(f)
           x == WithId(Head(f).order, id)
<1>1. orderPk \in Nat /\ Len(users) \in Nat /\ Head(f) \in Ops(odd, Len(users)) /\ id \in Nat
  BY UsersLength DEF Data
<1>2. x.id = id
  <2>1. Head(f).order \in Orders(odd, Len(users))
    BY <1>1, OpsAreOps
  <2> QED
    BY <1>1, <2>1 DEF WithId, Orders
<1>3. \A i : Has(g, DeletesOrder(i)) <=> Has(f, DeletesOrder(i))
  <2>1. \A t : Has(f, t) <=> t = Head(f) \/ Has(g, t)
    BY HasHead
  <2>2. \A i : DeletesOrder(i) # Head(f)
    BY DEF DeletesOrder
  <2> QED
    BY <2>1, <2>2
<1>4. \A p \in undone : p.id \in Nat /\ p.id <= orderPk
  BY UsersLength, OrderFields DEF Data
<1> HIDE DEF g, x
<1>5. /\ \A i : Has(g, DeletesOrder(i)) => i \in Nat /\ i <= orderPk'
      /\ \A o \in orders' : o.closed /\ Has(g, DeletesOrder(o.id)) => o \in undone
      /\ \A p \in undone, o \in orders' : o.id = p.id => Has(g, DeletesOrder(o.id))
  <2>1. \A i : Has(g, DeletesOrder(i)) => i \in Nat /\ i <= orderPk
    BY <1>3 DEF UndoneGood
  <2>2. ~Has(g, DeletesOrder(id)) /\ \A p \in undone : p.id # id
    BY <1>1, <1>4, <2>1
  <2>3. \A o \in orders' : o \in orders \/ o = x
    BY DEF x
  <2>4. \A o \in orders : o.closed /\ Has(g, DeletesOrder(o.id)) => o \in undone
    BY <1>3 DEF UndoneGood
  <2>5. \A p \in undone, o \in orders : o.id = p.id => Has(g, DeletesOrder(o.id))
    BY <1>3 DEF UndoneGood
  <2>6. \A i : Has(g, DeletesOrder(i)) => i \in Nat /\ i <= orderPk'
    BY <1>1, <2>1
  <2> QED
    BY <1>2, <2>2, <2>3, <2>4, <2>5, <2>6
<1>6. UndoneGood(g)'
  BY <1>5 DEF UndoneGood
<1> QED
  BY <1>6 DEF g

\* An order is deleted.
LEMMA UndoneAtDelOrder ==
    ASSUME Data, NEW f \in Seq(Ops(odd, Len(users))), f # <<>>, Head(f).do = "del_order",
           UndoneGood(f), UNCHANGED <<orderPk, undone, odd>>,
           orders' = {o \in orders : o.id # Head(f).id}
    PROVE  UndoneGood(Tail(f))'
<1> DEFINE g == Tail(f)
<1>1. \A t : Has(f, t) <=> t = Head(f) \/ Has(g, t)
  BY HasHead
<1>2. \A i : DeletesOrder(i) = Head(f) <=> i = Head(f).id
  <2>1. Head(f) \in Ops(odd, Len(users))
    BY UsersLength
  <2>2. Head(f) \in [do : {"del_order"}, id : Nat]
    BY <2>1 DEF Ops
  <2> QED
    BY <2>2 DEF DeletesOrder
<1> HIDE DEF g
<1>3. /\ \A i : Has(g, DeletesOrder(i)) => i \in Nat /\ i <= orderPk
      /\ \A o \in orders' : o.closed /\ Has(g, DeletesOrder(o.id)) => o \in undone
      /\ \A p \in undone, o \in orders' : o.id = p.id => Has(g, DeletesOrder(o.id))
  BY <1>1, <1>2 DEF UndoneGood
<1>4. UndoneGood(g)'
  BY <1>3 DEF UndoneGood
<1> QED
  BY <1>4 DEF g

-----------------------------------------------------------------------------
(* Nothing appears or disappears: the value in a lot.                      *)

\* The balances of the lot, what its open orders hold back, and the closed
\* orders that were cancelled.
RowsIn(l, f) == {r \in LiveRows(f) : r.lot = l}
HeldIn(l, f) == {o \in Kept(f) : LockLot(o) = l}
UndoneIn(l)  == {o \in undone : LockLot(o) = l}

LotSum(n, R, K, U) ==
    ((Amount(R, "quantity") + Amount(K, "locked")) - DefaultQuantity * n) - Amount(U, "locked")

LotWorth(l, f) == LotSum(Len(users), RowsIn(l, f), HeldIn(l, f), UndoneIn(l))

\* What is still to be done makes up for the difference.
LotGood(f) ==
    \A l \in Lots : Path(Int, LotFlow(odd, Len(users), l), f, LotWorth(l, f), 0)

\* The sums are sums of numbers.
LEMMA LotMeasured ==
    ASSUME Data, NEW l, NEW f
    PROVE  /\ Measured(RowsIn(l, f), "quantity") /\ Measured(HeldIn(l, f), "locked")
           /\ Measured(UndoneIn(l), "locked") /\ DefaultQuantity * Len(users) \in Int
           /\ LotWorth(l, f) \in Int
<1>1. Len(users) \in Nat /\ DefaultQuantity \in Nat
  BY UsersLength, AmountsAreNumbers
<1>2. /\ RowsIn(l, f) \subseteq userLots /\ HeldIn(l, f) \subseteq orders
      /\ UndoneIn(l) \subseteq undone
  BY DEF RowsIn, HeldIn, UndoneIn, LiveRows, Kept, Opened
<1>3. IsFiniteSet(RowsIn(l, f)) /\ IsFiniteSet(HeldIn(l, f)) /\ IsFiniteSet(UndoneIn(l))
  BY <1>2, FS_Subset DEF Data
<1>4. \A r \in userLots : Measure("quantity", r) \in Int
  BY RowFields, Measures
<1>5. \A o \in orders \cup undone : Measure("locked", o) \in Int
  <2>1. \A o \in orders \cup undone : o \in Orders(odd, Len(users))
    BY UsersLength DEF Data, TypeOK
  <2>2. \A o \in Orders(odd, Len(users)) : Locked(o) \in Int
    BY OrderFields
  <2> QED
    BY <2>1, <2>2, Measures
<1>6. /\ Measured(RowsIn(l, f), "quantity") /\ Measured(HeldIn(l, f), "locked")
      /\ Measured(UndoneIn(l), "locked")
  BY <1>2, <1>3, <1>4, <1>5 DEF Measured
<1>7. /\ Amount(RowsIn(l, f), "quantity") \in Int /\ Amount(HeldIn(l, f), "locked") \in Int
      /\ Amount(UndoneIn(l), "locked") \in Int
  BY <1>6, AmountInt
<1>8. DefaultQuantity * Len(users) \in Int
  BY <1>1
<1>9. LotWorth(l, f) \in Int
  BY <1>7, <1>8 DEF LotWorth, LotSum
<1> QED
  BY <1>6, <1>8, <1>9

\* One sum changes by d, the worth does.
LEMMA LotSums ==
    ASSUME Data, NEW l, NEW f, NEW d \in Int, NEW S
    PROVE  LET n == Len(users)
               R == RowsIn(l, f)
               K == HeldIn(l, f)
               U == UndoneIn(l)
           IN  /\ Amount(S, "quantity") = Amount(R, "quantity") + d
                     => LotSum(n, S, K, U) = LotWorth(l, f) + d
               /\ Amount(S, "locked") = Amount(K, "locked") + d
                     => LotSum(n, R, S, U) = LotWorth(l, f) + d
               /\ Amount(S, "locked") = Amount(U, "locked") + d
                     => LotSum(n, R, K, S) = LotWorth(l, f) - d
<1> DEFINE n == Len(users)
           R == RowsIn(l, f)
           K == HeldIn(l, f)
           U == UndoneIn(l)
<1>1. /\ Amount(R, "quantity") \in Int /\ Amount(K, "locked") \in Int
      /\ Amount(U, "locked") \in Int /\ DefaultQuantity * n \in Int
  BY LotMeasured, AmountInt
<1>2. LotWorth(l, f) = LotSum(n, R, K, U)
  BY DEF LotWorth
<1> HIDE DEF n, R, K, U
<1>3. \A x, y, z, w \in Int : /\ (((x + d) + y) - z) - w = (((x + y) - z) - w) + d
                             /\ ((x + (y + d)) - z) - w = (((x + y) - z) - w) + d
                             /\ ((x + y) - z) - (w + d) = (((x + y) - z) - w) - d
  OBVIOUS
<1>4. /\ Amount(S, "quantity") = Amount(R, "quantity") + d
            => LotSum(n, S, K, U) = LotWorth(l, f) + d
      /\ Amount(S, "locked") = Amount(K, "locked") + d
            => LotSum(n, R, S, U) = LotWorth(l, f) + d
      /\ Amount(S, "locked") = Amount(U, "locked") + d
            => LotSum(n, R, K, S) = LotWorth(l, f) - d
  BY <1>1, <1>2, <1>3 DEF LotSum
<1> QED
  BY <1>4 DEF n, R, K, U

\* The tables are as they were, and so is what is to be deleted.
LEMMA LotSame ==
    ASSUME NEW f, NEW g, NEW l, UNCHANGED <<users, userLots, orders, undone>>,
           \A t : t.do \in {"del_row", "del_order"} => (Has(g, t) <=> Has(f, t))
    PROVE  LotWorth(l, g)' = LotWorth(l, f)
<1>1. \A r : Removes(r).do = "del_row"
  BY DEF Removes
<1>2. \A id : DeletesOrder(id).do = "del_order"
  BY DEF DeletesOrder
<1>3. {r \in userLots : ~Has(g, Removes(r))} = {r \in userLots : ~Has(f, Removes(r))}
  BY <1>1
<1>4. {o \in orders : ~o.closed /\ ~Has(g, DeletesOrder(o.id))}
         = {o \in orders : ~o.closed /\ ~Has(f, DeletesOrder(o.id))}
  BY <1>2
<1>5. LiveRows(g)' = LiveRows(f)
  BY <1>3 DEF LiveRows
<1>6. Kept(g)' = Kept(f)
  BY <1>4 DEF Kept, Opened
<1>7. RowsIn(l, g)' = RowsIn(l, f) /\ HeldIn(l, g)' = HeldIn(l, f) /\ UndoneIn(l)' = UndoneIn(l)
  BY <1>5, <1>6 DEF RowsIn, HeldIn, UndoneIn
<1> QED
  BY <1>7 DEF LotWorth

\* A task is done.
LEMMA LotAtTask ==
    ASSUME Data, NEW f \in Seq(Ops(odd, Len(users))), f # <<>>, LotGood(f),
           UNCHANGED <<users, odd>>,
           \A l \in Lots :
              LotWorth(l, Tail(f))' = LotWorth(l, f) + LotFlow(odd, Len(users), l)[Head(f)]
    PROVE  LotGood(Tail(f))'
<1> DEFINE g == Tail(f)
<1>1. ASSUME NEW l \in Lots
      PROVE  Path(Int, LotFlow(odd', Len(users'), l), g, LotWorth(l, g)', 0)
  <2> DEFINE D == LotFlow(odd, Len(users), l)
             c == LotWorth(l, g)'
  <2>1. Path(Int, D, f, LotWorth(l, f), 0) /\ c = LotWorth(l, f) + D[Head(f)]
    BY DEF LotGood
  <2> HIDE DEF D, c
  <2>2. Path(Int, D, g, c, 0)
    BY <2>1, BalanceAtTask
  <2> QED
    BY <2>2 DEF D, c
<1> HIDE DEF g
<1>2. LotGood(g)'
  BY <1>1 DEF LotGood
<1> QED
  BY <1>2 DEF g

\* A decision: what it expands into moves the worth back to 0.
LEMMA LotAtDecision ==
    ASSUME Data, LotGood(<<>>), NEW g, UNCHANGED <<users, odd>>,
           \A l \in Lots : LotWorth(l, <<>>) = 0 =>
              \E a \in Int : a = LotWorth(l, g)' /\ Path(Int, LotFlow(odd, Len(users), l), g, a, 0)
    PROVE  LotGood(g)'
<1>1. ASSUME NEW l \in Lots PROVE Path(Int, LotFlow(odd, Len(users), l), g, LotWorth(l, g)', 0)
  <2>1. Path(Int, LotFlow(odd, Len(users), l), <<>>, LotWorth(l, <<>>), 0)
    BY DEF LotGood
  <2>2. LotWorth(l, <<>>) = 0
    BY <2>1, PathEnd
  <2> QED
    BY <2>2
<1> QED
  BY <1>1 DEF LotGood

\* The tasks after a change of balance has been expanded.
LEMMA HasAtChange ==
    ASSUME NEW T, NEW f \in Seq(T), f # <<>>, NEW t \in T, NEW v \in T
    PROVE  /\ \A x : Has(<<t, v>> \o Tail(f), x) <=> x = t \/ x = v \/ Has(Tail(f), x)
           /\ \A x : Has(f, x) <=> x = Head(f) \/ Has(Tail(f), x)
<1> DEFINE s == <<t, v>>
           h == Tail(f)
<1>1. s \in Seq(T) /\ h \in Seq(T)
  BY ShortLists
<1>2. \A x : Has(s, x) <=> x = t \/ x = v
  BY HasPair
<1> HIDE DEF s
<1>3. \A x : Has(f, x) <=> x = Head(f) \/ Has(h, x)
  BY HasHead
<1> HIDE DEF h
<1>4. \A x : Has(s \o h, x) <=> Has(s, x) \/ Has(h, x)
  BY <1>1, HasJoined
<1>5. \A x : Has(s \o h, x) <=> x = t \/ x = v \/ Has(h, x)
  BY <1>2, <1>4, Zenon
<1> QED
  BY <1>3, <1>5, Zenon DEF s, h

\* The same orders are kept.
LEMMA KeptSame ==
    ASSUME NEW f, NEW g, orders' = orders,
           \A id : Has(g, DeletesOrder(id)) <=> Has(f, DeletesOrder(id))
    PROVE  Kept(g)' = Kept(f)
<1>1. {o \in orders : ~o.closed /\ ~Has(g, DeletesOrder(o.id))}
         = {o \in orders : ~o.closed /\ ~Has(f, DeletesOrder(o.id))}
  OBVIOUS
<1> QED
  BY <1>1 DEF Kept, Opened

\* The row that a change takes out comes back with the change added.
LEMMA LotAtChange ==
    ASSUME Data, NEW f \in Seq(Ops(odd, Len(users))), f # <<>>, Head(f).do = "change", RowsGood(f),
           LotGood(f), UNCHANGED <<users, userLots, orders, undone, odd>>, NEW r \in userLots,
           BalanceRows(Head(f).user, Head(f).lot) = {r}, NEW q \in Nat,
           q = r.quantity + Head(f).sum
    PROVE  LotGood(<<Removes(r), Adds(r.user, r.lot, q)>> \o Tail(f))'
<1> DEFINE n == Len(users)
           t == Removes(r)
           v == Adds(r.user, r.lot, q)
           g == <<t, v>> \o Tail(f)
<1>1. n \in Nat /\ Head(f) \in Ops(odd, n) /\ r.lot = Head(f).lot /\ Head(f).sum \in Int
  <2>1. n \in Nat /\ Head(f) \in Ops(odd, n)
    BY UsersLength
  <2>2. Head(f).sum \in Int
    BY <2>1, OpsAreOps
  <2>3. r.lot = Head(f).lot
    BY DEF BalanceRows
  <2> QED
    BY <2>1, <2>2, <2>3
<1>2. /\ r.user \in 1..n /\ r.lot \in Lots /\ r.quantity \in Nat
      /\ t \in Ops(odd, n) /\ t.do = "del_row"
  BY RowFields
<1>3. v \in Ops(odd, n) /\ v.do = "add_row" /\ v.lot = r.lot /\ v.quantity = q
  BY <1>1, <1>2, AddsIsOp
<1>4. LiveRows(f) = userLots /\ LiveRows(g)' = userLots \ {r}
  BY LiveAtChange
<1>5. Kept(g)' = Kept(f)
  <2>1. \A id : DeletesOrder(id) # t /\ DeletesOrder(id) # v /\ DeletesOrder(id) # Head(f)
    BY <1>2, <1>3 DEF DeletesOrder
  <2>2. \A x : Has(g, x) <=> x = t \/ x = v \/ Has(Tail(f), x)
    BY <1>2, <1>3, HasAtChange
  <2>3. \A x : Has(f, x) <=> x = Head(f) \/ Has(Tail(f), x)
    BY HasHead
  <2> HIDE DEF g, t, v
  <2>4. \A id : Has(g, DeletesOrder(id)) <=> Has(f, DeletesOrder(id))
    BY <2>1, <2>2, <2>3, Zenon
  <2> QED
    BY <2>4, KeptSame
<1>6. ASSUME NEW l \in Lots PROVE Path(Int, LotFlow(odd, n, l), g, LotWorth(l, g)', 0)
  <2> DEFINE D == LotFlow(odd, n, l)
             a == LotWorth(l, f)
             c == LotWorth(l, g)'
             d == IF r.lot = l THEN -r.quantity ELSE 0
  <2>1. D \in [Ops(odd, n) -> Int]
    BY <1>1, LotFlowOf
  <2>2. /\ D[t] = 0 /\ D[v] = IF r.lot = l THEN q ELSE 0
        /\ D[Head(f)] = IF r.lot = l THEN Head(f).sum ELSE 0
    <3> HIDE DEF t, v, n
    <3> QED
      BY <1>1, <1>2, <1>3 DEF LotFlow
  <2>3. Path(Int, D, f, a, 0) /\ a \in Int
    BY LotMeasured DEF LotGood
  <2>4. c = a + d
    <3> DEFINE R == RowsIn(l, f)
    <3>1. HeldIn(l, g)' = HeldIn(l, f) /\ UndoneIn(l)' = UndoneIn(l)
      BY <1>5 DEF HeldIn, UndoneIn
    <3> HIDE DEF g
    <3>2. CASE r.lot = l
      <4>1. r \in R /\ RowsIn(l, g)' = R \ {r}
        BY <1>4, <3>2 DEF RowsIn
      <4>2. /\ Amount(R \ {r}, "quantity") \in Int
            /\ Amount(R, "quantity") = r.quantity + Amount(R \ {r}, "quantity")
        <5>1. Measured(R, "quantity") /\ Measure("quantity", r) = r.quantity
          BY LotMeasured, Measures
        <5> HIDE DEF R
        <5> QED
          BY <4>1, <5>1, AmountRemove
      <4> HIDE DEF R
      <4>3. Amount(R \ {r}, "quantity") = Amount(R, "quantity") + d /\ d \in Int
        BY <1>2, <3>2, <4>2
      <4>4. LotSum(n, R \ {r}, HeldIn(l, f), UndoneIn(l)) = a + d
        <5> HIDE DEF d
        <5> QED
          BY <4>3, LotSums DEF R
      <4> QED
        BY <3>1, <4>1, <4>4 DEF LotWorth
    <3>3. CASE r.lot # l
      <4>1. RowsIn(l, g)' = R
        BY <1>4, <3>3 DEF RowsIn
      <4>2. c = a
        BY <3>1, <4>1 DEF LotWorth
      <4> QED
        BY <2>3, <3>3, <4>2
    <3> QED
      BY <3>2, <3>3
  <2> HIDE DEF D, a, c
  <2>5. c \in Int /\ (c + D[t]) + D[v] = a + D[Head(f)]
    BY <1>1, <1>2, <2>2, <2>3, <2>4
  <2> HIDE DEF t, v
  <2>6. Path(Int, D, <<t, v>> \o Tail(f), c, 0)
    BY <1>2, <1>3, <2>1, <2>3, <2>5, BalanceAtChange
  <2> QED
    BY <2>6 DEF D, c, t, v
<1> HIDE DEF g
<1>7. LotGood(g)'
  BY <1>6 DEF LotGood
<1> QED
  BY <1>7 DEF g

\* The row that was to be removed is.
LEMMA LotAtDelRow ==
    ASSUME Data, NEW f \in Seq(Ops(odd, Len(users))), f # <<>>, Head(f).do = "del_row", LotGood(f),
           UNCHANGED <<users, orders, undone, odd>>,
           userLots' = {r \in userLots : r.pk # Head(f).pk}
    PROVE  LotGood(Tail(f))'
<1> DEFINE g == Tail(f)
<1>1. Len(users) \in Nat /\ Head(f) \in Ops(odd, Len(users))
  BY UsersLength
<1>2. LiveRows(g)' = LiveRows(f)
  BY LiveAtDelRow
<1>3. Kept(g)' = Kept(f)
  <2>1. \A t : Has(f, t) <=> t = Head(f) \/ Has(g, t)
    BY HasHead
  <2>2. \A id : DeletesOrder(id) # Head(f)
    BY DEF DeletesOrder
  <2> HIDE DEF g
  <2> QED
    BY <2>1, <2>2, KeptSame
<1>4. ASSUME NEW l \in Lots
      PROVE  LotWorth(l, g)' = LotWorth(l, f) + LotFlow(odd, Len(users), l)[Head(f)]
  <2>1. LotFlow(odd, Len(users), l)[Head(f)] = 0
    BY <1>1 DEF LotFlow
  <2>2. RowsIn(l, g)' = RowsIn(l, f) /\ HeldIn(l, g)' = HeldIn(l, f) /\ UndoneIn(l)' = UndoneIn(l)
    BY <1>2, <1>3 DEF RowsIn, HeldIn, UndoneIn
  <2>3. LotWorth(l, g)' = LotWorth(l, f) /\ LotWorth(l, f) \in Int
    BY <2>2, LotMeasured DEF LotWorth
  <2> QED
    BY <2>1, <2>3
<1> QED
  BY <1>4, LotAtTask

\* A row is added.
LEMMA LotAtAddRow ==
    ASSUME Data, NEW f \in Seq(Ops(odd, Len(users))), f # <<>>, Head(f).do = "add_row", RowsGood(f),
           LotGood(f), UNCHANGED <<users, orders, undone, odd>>, NEW pk,
           userLots' = userLots \cup {Row(pk, Head(f))}, Row(pk, Head(f)) \notin userLots
    PROVE  LotGood(Tail(f))'
<1> DEFINE g == Tail(f)
           row == Row(pk, Head(f))
<1>1. /\ Len(users) \in Nat /\ Head(f) \in Ops(odd, Len(users)) /\ Head(f).quantity \in Nat
      /\ row.lot = Head(f).lot /\ row.quantity = Head(f).quantity
  <2>1. Len(users) \in Nat /\ Head(f) \in Ops(odd, Len(users))
    BY UsersLength
  <2> QED
    BY <2>1, OpsAreOps DEF Row
<1> HIDE DEF row
<1>2. LiveRows(f) = userLots /\ LiveRows(g)' = userLots \cup {row}
  BY LiveAtAddRow DEF row
<1>3. Kept(g)' = Kept(f)
  <2>1. \A t : Has(f, t) <=> t = Head(f) \/ Has(g, t)
    BY HasHead
  <2>2. \A id : DeletesOrder(id) # Head(f)
    BY DEF DeletesOrder
  <2> HIDE DEF g
  <2> QED
    BY <2>1, <2>2, KeptSame
<1>4. ASSUME NEW l \in Lots
      PROVE  LotWorth(l, g)' = LotWorth(l, f) + LotFlow(odd, Len(users), l)[Head(f)]
  <2> DEFINE R == RowsIn(l, f)
             d == LotFlow(odd, Len(users), l)[Head(f)]
  <2>1. d = IF Head(f).lot = l THEN Head(f).quantity ELSE 0
    BY <1>1 DEF LotFlow
  <2>2. HeldIn(l, g)' = HeldIn(l, f) /\ UndoneIn(l)' = UndoneIn(l)
    BY <1>3 DEF HeldIn, UndoneIn
  <2>3. LotWorth(l, f) \in Int
    BY LotMeasured
  <2> HIDE DEF d
  <2>4. CASE Head(f).lot = l
    <3>1. row \notin R /\ RowsIn(l, g)' = R \cup {row}
      BY <1>1, <1>2, <2>4 DEF RowsIn, row
    <3>2. Measured(R, "quantity") /\ Measure("quantity", row) = row.quantity
      BY LotMeasured, Measures
    <3> HIDE DEF R
    <3>3. /\ Amount(R, "quantity") \in Int
          /\ Amount(R \cup {row}, "quantity") = row.quantity + Amount(R, "quantity")
      <4>1. Measure("quantity", row) \in Int
        BY <1>1, <3>2
      <4>2. /\ Amount(R, "quantity") \in Int
            /\ Amount(R \cup {row}, "quantity")
                  = Measure("quantity", row) + Amount(R, "quantity")
        BY <3>1, <3>2, <4>1, AmountAdd
      <4> QED
        BY <3>2, <4>2
    <3>4. d \in Int /\ Amount(R \cup {row}, "quantity") = Amount(R, "quantity") + d
      BY <1>1, <2>1, <2>4, <3>3
    <3>5. LotSum(Len(users), R \cup {row}, HeldIn(l, f), UndoneIn(l)) = LotWorth(l, f) + d
      BY <3>4, LotSums DEF R
    <3> QED
      BY <2>2, <3>1, <3>5 DEF LotWorth, d
  <2>5. CASE Head(f).lot # l
    <3>1. RowsIn(l, g)' = R
      BY <1>1, <1>2, <2>5 DEF RowsIn
    <3>2. LotWorth(l, g)' = LotWorth(l, f)
      BY <2>2, <3>1 DEF LotWorth
    <3> QED
      BY <2>1, <2>3, <2>5, <3>2 DEF d
  <2> QED
    BY <2>4, <2>5
<1> QED
  BY <1>4, LotAtTask

\* An order is added: an open one holds back what its task brought.
LEMMA LotAtAddOrder ==
    ASSUME Data, NEW f \in Seq(Ops(odd, Len(users))), f # <<>>, Head(f).do = "add_order", LotGood(f),
           UndoneGood(f), UNCHANGED <<users, userLots, undone, odd>>, NEW id, id = orderPk + 1,
           orders' = orders \cup {WithId(Head(f).order, id)},
           \A o \in orders : o.id # id
    PROVE  LotGood(Tail(f))'
<1> DEFINE n == Len(users)
           g == Tail(f)
           o == Head(f).order
           x == WithId(o, id)
<1>1. /\ n \in Nat /\ Head(f) \in Ops(odd, n) /\ o \in Orders(odd, n) /\ id \in Nat
      /\ Head(f) = AddsOrder(o)
  <2>1. n \in Nat /\ Head(f) \in Ops(odd, n) /\ id \in Nat
    BY UsersLength DEF Data
  <2>2. Head(f) \in [do : {"add_order"}, order : Orders(odd, n)]
    BY <2>1 DEF Ops
  <2> QED
    BY <2>1, <2>2 DEF AddsOrder
<1>2. /\ x.id = id /\ x.closed = o.closed /\ LockLot(x) = LockLot(o) /\ Locked(x) = Locked(o)
      /\ o.closed \in BOOLEAN /\ Locked(o) \in Int
  <2>1. /\ x.id = id /\ x.type = o.type /\ x.price = o.price /\ x.quantity = o.quantity
        /\ x.pair = o.pair /\ x.closed = o.closed /\ o.closed \in BOOLEAN /\ Locked(o) \in Int
    <3> HIDE DEF o, n
    <3>1. o.closed \in BOOLEAN /\ Locked(o) \in Int
      BY <1>1, OrderFields
    <3> QED
      BY <1>1, <3>1 DEF WithId, Orders
  <2> HIDE DEF x, o
  <2> QED
    BY <2>1 DEF LockLot, Locked
<1> HIDE DEF x, o
<1>3. \A t : Has(f, t) <=> t = Head(f) \/ Has(g, t)
  BY HasHead
<1>4. LiveRows(g)' = LiveRows(f)
  BY LiveAtOrder
<1> HIDE DEF g
<1>5. \A i : Has(g, DeletesOrder(i)) <=> Has(f, DeletesOrder(i))
  <2>1. \A i : DeletesOrder(i) # Head(f)
    BY DEF DeletesOrder
  <2> QED
    BY <1>3, <2>1
<1>6. ~Has(f, DeletesOrder(id))
  <2>1. Has(f, DeletesOrder(id)) => id <= orderPk
    BY DEF UndoneGood
  <2> QED
    BY <1>1, <2>1 DEF Data
<1>7. /\ orders' = orders \cup {x} /\ x \notin orders
  BY <1>2 DEF x, o
<1>8. Kept(g)' = IF o.closed THEN Kept(f) ELSE Kept(f) \cup {x}
  <2>1. Kept(g)' = {p \in orders \cup {x} : ~p.closed /\ ~Has(f, DeletesOrder(p.id))}
    BY <1>5, <1>7 DEF Kept, Opened
  <2>2. Kept(f) = {p \in orders : ~p.closed /\ ~Has(f, DeletesOrder(p.id))}
    BY DEF Kept, Opened
  <2>3. ~Has(f, DeletesOrder(x.id))
    BY <1>2, <1>6
  <2> QED
    BY <1>2, <2>1, <2>2, <2>3
<1>9. ASSUME NEW l \in Lots
      PROVE  LotWorth(l, g)' = LotWorth(l, f) + LotFlow(odd, n, l)[Head(f)]
  <2> DEFINE K == HeldIn(l, f)
             d == LotFlow(odd, n, l)[Head(f)]
  <2>1. d = IF o.closed THEN 0 ELSE Held(l, o)
    <3>1. LotFlow(odd, n, l)[AddsOrder(o)] = IF o.closed THEN 0 ELSE Held(l, o)
      BY <1>1, LotFlowOf
    <3> QED
      BY <1>1, <3>1
  <2>2. RowsIn(l, g)' = RowsIn(l, f) /\ UndoneIn(l)' = UndoneIn(l)
    BY <1>4 DEF RowsIn, UndoneIn
  <2>3. LotWorth(l, f) \in Int
    BY LotMeasured
  <2> HIDE DEF d
  <2>4. CASE ~o.closed /\ LockLot(o) = l
    <3>1. x \notin K /\ HeldIn(l, g)' = K \cup {x}
      BY <1>2, <1>7, <1>8, <2>4 DEF HeldIn, Kept, Opened
    <3>2. Measured(K, "locked") /\ Measure("locked", x) = Locked(o)
      BY <1>2, LotMeasured, Measures
    <3> HIDE DEF K
    <3>3. /\ Amount(K, "locked") \in Int
          /\ Amount(K \cup {x}, "locked") = Locked(o) + Amount(K, "locked")
      <4>1. Measure("locked", x) \in Int
        BY <1>2, <3>2
      <4>2. /\ Amount(K, "locked") \in Int
            /\ Amount(K \cup {x}, "locked") = Measure("locked", x) + Amount(K, "locked")
        BY <3>1, <3>2, <4>1, AmountAdd
      <4> QED
        BY <3>2, <4>2
    <3>4. d \in Int /\ Amount(K \cup {x}, "locked") = Amount(K, "locked") + d
      BY <1>2, <2>1, <2>4, <3>3 DEF Held
    <3>5. LotSum(n, RowsIn(l, f), K \cup {x}, UndoneIn(l)) = LotWorth(l, f) + d
      BY <3>4, LotSums DEF K
    <3> QED
      BY <2>2, <3>1, <3>5 DEF LotWorth, d
  <2>5. CASE ~(~o.closed /\ LockLot(o) = l)
    <3>1. d = 0
      BY <2>1, <2>5 DEF Held
    <3>2. HeldIn(l, g)' = K
      BY <1>2, <1>8, <2>5 DEF HeldIn
    <3>3. LotWorth(l, g)' = LotWorth(l, f)
      BY <2>2, <3>2 DEF LotWorth
    <3> QED
      BY <2>3, <3>1, <3>3 DEF d
  <2> QED
    BY <2>4, <2>5
<1> QED
  BY <1>9, LotAtTask DEF g

\* An order is deleted: what it held back has been given back before.
LEMMA LotAtDelOrder ==
    ASSUME Data, NEW f \in Seq(Ops(odd, Len(users))), f # <<>>, Head(f).do = "del_order", LotGood(f),
           UNCHANGED <<users, userLots, undone, odd>>,
           orders' = {o \in orders : o.id # Head(f).id}
    PROVE  LotGood(Tail(f))'
<1> DEFINE g == Tail(f)
<1>1. Len(users) \in Nat /\ Head(f) \in Ops(odd, Len(users))
  BY UsersLength
<1>2. LiveRows(g)' = LiveRows(f)
  BY LiveAtOrder
<1>3. Kept(g)' = Kept(f)
  <2>1. \A t : Has(f, t) <=> t = Head(f) \/ Has(g, t)
    BY HasHead
  <2>2. \A id : DeletesOrder(id) = Head(f) <=> id = Head(f).id
    <3>1. Head(f) \in [do : {"del_order"}, id : Nat]
      BY <1>1 DEF Ops
    <3> QED
      BY <3>1 DEF DeletesOrder
  <2> HIDE DEF g
  <2>3. Kept(g)' = {o \in orders : o.id # Head(f).id /\ ~o.closed /\ ~Has(g, DeletesOrder(o.id))}
    BY DEF Kept, Opened
  <2>4. Kept(f) = {o \in orders : ~o.closed /\ ~Has(f, DeletesOrder(o.id))}
    BY DEF Kept, Opened
  <2> QED
    BY <2>1, <2>2, <2>3, <2>4
<1>4. ASSUME NEW l \in Lots
      PROVE  LotWorth(l, g)' = LotWorth(l, f) + LotFlow(odd, Len(users), l)[Head(f)]
  <2>1. LotFlow(odd, Len(users), l)[Head(f)] = 0
    BY <1>1 DEF LotFlow
  <2>2. RowsIn(l, g)' = RowsIn(l, f) /\ HeldIn(l, g)' = HeldIn(l, f) /\ UndoneIn(l)' = UndoneIn(l)
    BY <1>2, <1>3 DEF RowsIn, HeldIn, UndoneIn
  <2>3. LotWorth(l, g)' = LotWorth(l, f) /\ LotWorth(l, f) \in Int
    BY <2>2, LotMeasured DEF LotWorth
  <2> QED
    BY <2>1, <2>3
<1> QED
  BY <1>4, LotAtTask

\* Nothing is to be done but what moves nothing.
LEMMA LotAtRest ==
    ASSUME Data, LotGood(<<>>), UNCHANGED <<users, userLots, orders, undone>>
    PROVE  LotGood(<<>>)'
<1>1. ASSUME NEW l \in Lots
      PROVE  Path(Int, LotFlow(odd', Len(users'), l), <<>>, LotWorth(l, <<>>)', 0)
  <2>1. LotWorth(l, <<>>)' = LotWorth(l, <<>>)
    BY LotSame
  <2>2. LotWorth(l, <<>>) = 0
    BY PathEnd DEF LotGood
  <2> QED
    BY <2>1, <2>2, PathNone
<1> QED
  BY <1>1 DEF LotGood

\* A new user is given its money by the rows that are to be added.
LEMMA LotAtAddUser ==
    ASSUME Data, LotGood(<<>>), NEW k, k = Len(users) + 1, Len(users') = k,
           UNCHANGED <<userLots, orders, undone, odd>>
    PROVE  LotGood(<<NewRow(k, First), NewRow(k, Second)>>)'
<1> DEFINE n == Len(users)
           t == NewRow(k, First)
           v == NewRow(k, Second)
           g == <<t, v>>
<1>1. n \in Nat /\ k \in Nat /\ k \in 1..k
  BY UsersLength
<1>2. First \in Lots /\ Second \in Lots /\ DefaultQuantity \in Nat /\ First # Second
      /\ Lots = {First, Second}
  BY AmountsAreNumbers DEF Lots, First, Second
<1>3. /\ t \in Ops(odd, k) /\ t.do = "add_row" /\ t.lot = First /\ t.quantity = DefaultQuantity
      /\ v \in Ops(odd, k) /\ v.do = "add_row" /\ v.lot = Second /\ v.quantity = DefaultQuantity
  BY <1>1, <1>2, AddsIsOp DEF NewRow
<1>4. \A x : Has(g, x) => x.do = "add_row"
  <2>1. \A x : Has(g, x) <=> x = t \/ x = v
    BY <1>3, HasPair
  <2> QED
    BY <1>3, <2>1
<1> HIDE DEF t, v
<1> HIDE DEF g
<1>5. ASSUME NEW l \in Lots
      PROVE  /\ RowsIn(l, g)' = RowsIn(l, <<>>) /\ HeldIn(l, g)' = HeldIn(l, <<>>)
             /\ UndoneIn(l)' = UndoneIn(l)
  <2>1. \A x : ~Has(g, Removes(x)) /\ ~Has(<<>>, Removes(x))
    <3>1. \A x : Removes(x).do = "del_row"
      BY DEF Removes
    <3> QED
      BY <1>4, <3>1, NoRowsInNothing DEF NoRows
  <2>2. \A i : ~Has(g, DeletesOrder(i)) /\ ~Has(<<>>, DeletesOrder(i))
    <3>1. \A i : DeletesOrder(i).do = "del_order"
      BY DEF DeletesOrder
    <3> QED
      BY <1>4, <3>1, NothingComes
  <2>3. LiveRows(g)' = userLots
    BY <2>1 DEF LiveRows
  <2>4. LiveRows(<<>>) = userLots
    BY <2>1 DEF LiveRows
  <2>5. Kept(g)' = Kept(<<>>)
    BY <2>2, KeptSame
  <2> QED
    BY <2>3, <2>4, <2>5 DEF RowsIn, HeldIn, UndoneIn
<1>6. ASSUME NEW l \in Lots PROVE Path(Int, LotFlow(odd, k, l), g, LotWorth(l, g)', 0)
  <2> DEFINE D == LotFlow(odd, k, l)
             a == LotWorth(l, g)'
  <2>1. LotWorth(l, <<>>) = 0
    <3>1. Path(Int, LotFlow(odd, n, l), <<>>, LotWorth(l, <<>>), 0)
      BY DEF LotGood
    <3> QED
      BY <3>1, PathEnd
  <2>2. a = LotWorth(l, <<>>) - DefaultQuantity
    <3> DEFINE R == RowsIn(l, <<>>)
               K == HeldIn(l, <<>>)
               U == UndoneIn(l)
    <3>1. a = LotSum(k, R, K, U)
      BY <1>5 DEF LotWorth
    <3>2. LotWorth(l, <<>>) = LotSum(n, R, K, U)
      BY DEF LotWorth
    <3>3. /\ Amount(R, "quantity") \in Int /\ Amount(K, "locked") \in Int
          /\ Amount(U, "locked") \in Int
      BY LotMeasured, AmountInt
    <3>4. /\ DefaultQuantity * n \in Int
          /\ DefaultQuantity * k = DefaultQuantity * n + DefaultQuantity
      BY <1>1, <1>2
    <3> HIDE DEF a, n, R, K, U
    <3>6. LotSum(k, R, K, U)
             = ((Amount(R, "quantity") + Amount(K, "locked"))
                   - (DefaultQuantity * n + DefaultQuantity)) - Amount(U, "locked")
      BY <3>4, Zenon DEF LotSum
    <3>7. LotSum(n, R, K, U)
             = ((Amount(R, "quantity") + Amount(K, "locked")) - DefaultQuantity * n)
                  - Amount(U, "locked")
      BY Zenon DEF LotSum
    <3>8. LotSum(k, R, K, U) = LotSum(n, R, K, U) - DefaultQuantity
      <4> DEFINE p == Amount(R, "quantity")
                 q == Amount(K, "locked")
                 r == DefaultQuantity * n
                 s == Amount(U, "locked")
      <4>1. p \in Int /\ q \in Int /\ r \in Int /\ s \in Int
        BY <3>3, <3>4
      <4>2. /\ LotSum(k, R, K, U) = ((p + q) - (r + DefaultQuantity)) - s
            /\ LotSum(n, R, K, U) = ((p + q) - r) - s
        BY <3>6, <3>7
      <4> HIDE DEF p, q, r, s
      <4> QED
        BY <1>2, <4>1, <4>2
    <3> QED
      BY <3>1, <3>2, <3>8
  <2>3. /\ D[t] = IF l = First THEN DefaultQuantity ELSE 0
        /\ D[v] = IF l = Second THEN DefaultQuantity ELSE 0
    BY <1>3 DEF LotFlow
  <2> HIDE DEF D, a
  <2>4. a \in Int /\ a + D[t] \in Int /\ 0 \in Int /\ (a + D[t]) + D[v] = 0
    BY <1>2, <2>1, <2>2, <2>3
  <2>5. Path(Int, D, <<t, v>>, a, 0)
    BY <1>3, <2>4, PathTwo
  <2> QED
    BY <2>5 DEF D, a, g
<1>7. \A l \in Lots : Path(Int, LotFlow(odd', Len(users'), l), g, LotWorth(l, g)', 0)
  BY <1>6
<1>8. LotGood(g)'
  BY <1>7 DEF LotGood
<1> QED
  BY <1>8 DEF g, t, v

\* The rows and orders after a decision that deletes order o or none.
LEMMA LotTables ==
    ASSUME NEW g, NoRows(g), UNCHANGED <<userLots, orders>>, NEW l, NEW o \in orders,
           \A p \in orders : p.id = o.id => p = o
    PROVE  /\ RowsIn(l, g)' = RowsIn(l, <<>>)
           /\ (\A id : ~Has(g, DeletesOrder(id))) => HeldIn(l, g)' = HeldIn(l, <<>>)
           /\ (\A id : Has(g, DeletesOrder(id)) <=> id = o.id)
                 => HeldIn(l, g)' = HeldIn(l, <<>>) \ {o}
<1>1. LiveRows(<<>>) = userLots
  BY NoRowsInNothing, LiveWithoutRows
<1>2. LiveRows(g)' = userLots
  <2>1. \A r : Removes(r).do = "del_row"
    BY DEF Removes
  <2> QED
    BY <2>1 DEF LiveRows, NoRows
<1>3. Kept(g)' = {p \in orders : ~p.closed /\ ~Has(g, DeletesOrder(p.id))}
  BY DEF Kept, Opened
<1>4. Kept(<<>>) = {p \in orders : ~p.closed}
  BY NothingComes DEF Kept, Opened
<1> QED
  BY <1>1, <1>2, <1>3, <1>4 DEF RowsIn, HeldIn

\* An open order that is no longer kept leaves the worth by what it held back.
LEMMA LotWithout ==
    ASSUME Data, NEW l, NEW o \in Opened
    PROVE  /\ LotSum(Len(users), RowsIn(l, <<>>), HeldIn(l, <<>>) \ {o}, UndoneIn(l))
                 = LotWorth(l, <<>>) - Held(l, o)
           /\ Held(l, o) \in Int
<1> DEFINE K == HeldIn(l, <<>>)
           n == Len(users)
<1>1. o \in orders /\ ~o.closed /\ Locked(o) \in Int
  BY OpenedOrders, OrderFields
<1>2. LotWorth(l, <<>>) \in Int /\ LotWorth(l, <<>>) = LotSum(n, RowsIn(l, <<>>), K, UndoneIn(l))
  BY LotMeasured DEF LotWorth
<1>3. CASE LockLot(o) = l
  <2>1. o \in K
    BY <1>1, <1>3, NothingComes DEF HeldIn, Kept
  <2>2. Measured(K, "locked") /\ Measure("locked", o) = Locked(o)
    BY LotMeasured, Measures
  <2> HIDE DEF K
  <2>3. /\ Amount(K \ {o}, "locked") \in Int
        /\ Amount(K, "locked") = Measure("locked", o) + Amount(K \ {o}, "locked")
    BY <2>1, <2>2, AmountRemove
  <2>4. -Locked(o) \in Int /\ Amount(K \ {o}, "locked") = Amount(K, "locked") + (-Locked(o))
    BY <1>1, <2>2, <2>3
  <2>5. LotSum(n, RowsIn(l, <<>>), K \ {o}, UndoneIn(l)) = LotWorth(l, <<>>) + (-Locked(o))
    <3> DEFINE d == -Locked(o)
    <3>1. d \in Int /\ Amount(K \ {o}, "locked") = Amount(K, "locked") + d
      BY <2>4
    <3> HIDE DEF d
    <3>2. LotSum(n, RowsIn(l, <<>>), K \ {o}, UndoneIn(l)) = LotWorth(l, <<>>) + d
      BY <3>1, LotSums DEF K
    <3> QED
      BY <3>2 DEF d
  <2> QED
    BY <1>1, <1>2, <1>3, <2>5 DEF Held, K
<1>4. CASE LockLot(o) # l
  <2>1. K \ {o} = K
    BY <1>4 DEF HeldIn
  <2>2. Held(l, o) = 0
    BY <1>4 DEF Held
  <2> HIDE DEF K
  <2>3. LotSum(n, RowsIn(l, <<>>), K \ {o}, UndoneIn(l)) = LotWorth(l, <<>>)
    BY <1>2, <2>1
  <2> QED
    BY <1>2, <2>2, <2>3 DEF K
<1> QED
  BY <1>3, <1>4

\* A deal moves the money of the two around, and nothing else.
LEMMA LotAtDeal ==
    ASSUME Data, LotGood(<<>>), NEW m \in Orders(odd, Len(users)), NEW o \in Opened,
           IsReverse(m, o), IsProfit(m, o), UNCHANGED <<users, userLots, orders, undone, odd>>
    PROVE  LotGood(Deal(m, o))'
<1> DEFINE n == Len(users)
           g == Deal(m, o)
<1>1. /\ n \in Nat /\ o \in Orders(odd, n) /\ o \in orders /\ ~o.closed
      /\ \A p \in orders : p.id = o.id => p = o
  BY UsersLength, OpenedOrders
<1>2. \A id : Has(g, DeletesOrder(id)) <=> id = o.id
  BY <1>1, DeletesOne
<1>3. NoRows(g)
  BY <1>1, CallsHaveNoRows
<1>4. ASSUME NEW l \in Lots, LotWorth(l, <<>>) = 0
      PROVE  \E a \in Int : a = LotWorth(l, g)' /\ Path(Int, LotFlow(odd, n, l), g, a, 0)
  <2> DEFINE D == LotFlow(odd, n, l)
             a == -Held(l, o)
  <2>1. DealNet(D, m, o) = Held(l, o) /\ D \in [Ops(odd, n) -> Int]
    BY <1>1, LotNets, LotFlowOf
  <2>2. /\ LotSum(n, RowsIn(l, <<>>), HeldIn(l, <<>>) \ {o}, UndoneIn(l))
              = LotWorth(l, <<>>) - Held(l, o)
        /\ Held(l, o) \in Int
    BY LotWithout
  <2> HIDE DEF D
  <2>3. a \in Int /\ a + DealNet(D, m, o) = 0
    BY <2>1, <2>2
  <2> HIDE DEF a
  <2>4. Path(Int, D, g, a, a + DealNet(D, m, o))
    BY <1>1, <2>1, <2>3, NetDeal
  <2> HIDE DEF g
  <2>5. RowsIn(l, g)' = RowsIn(l, <<>>) /\ HeldIn(l, g)' = HeldIn(l, <<>>) \ {o}
    <3>1. UNCHANGED <<userLots, orders>>
      OBVIOUS
    <3>2. RowsIn(l, g)' = RowsIn(l, <<>>)
      BY <1>1, <1>3, <3>1, LotTables
    <3> QED
      BY <1>1, <1>2, <1>3, <3>1, <3>2, LotTables
  <2>6. UndoneIn(l)' = UndoneIn(l)
    BY DEF UndoneIn
  <2>7. LotWorth(l, g)' = LotSum(n, RowsIn(l, <<>>), HeldIn(l, <<>>) \ {o}, UndoneIn(l))
    BY <2>5, <2>6 DEF LotWorth
  <2>8. LotWorth(l, g)' = a
    BY <1>4, <2>2, <2>7 DEF a
  <2> QED
    BY <2>3, <2>4, <2>8 DEF D
<1> HIDE DEF g
<1>5. LotGood(g)'
  BY <1>4, LotAtDecision
<1> QED
  BY <1>5 DEF g

\* What is left of the client's order comes into the book with its money.
LEMMA LotAtPlace ==
    ASSUME Data, LotGood(<<>>), NEW m \in Orders(odd, Len(users)), ~m.closed,
           UNCHANGED <<users, userLots, orders, undone, odd>>
    PROVE  LotGood(CreateOrder(m))'
<1> DEFINE n == Len(users)
           g == CreateOrder(m)
<1>1. n \in Nat
  BY UsersLength
<1>2. NoRows(g)
  BY <1>1, CallsHaveNoRows
<1>3. \A t : t.do \in {"del_row", "del_order"} => (Has(g, t) <=> Has(<<>>, t))
  <2>1. \A t : Has(g, t) <=> t \in {AddsOrder(m), Change(m.user, LockLot(m), -Locked(m))}
    BY <1>1, CreateOrderHas
  <2>2. \A t : t.do \in {"del_row", "del_order"} => ~Has(g, t)
    BY <2>1 DEF AddsOrder, Change
  <2>3. \A t : ~Has(<<>>, t)
    BY DEF Has
  <2> HIDE DEF g
  <2> QED
    BY <2>2, <2>3
<1>4. ASSUME NEW l \in Lots, LotWorth(l, <<>>) = 0
      PROVE  \E a \in Int : a = LotWorth(l, g)' /\ Path(Int, LotFlow(odd, n, l), g, a, 0)
  <2> DEFINE D == LotFlow(odd, n, l)
  <2>1. CreateNet(D, m) = 0 /\ D \in [Ops(odd, n) -> Int]
    BY <1>1, LotNets, LotFlowOf
  <2> HIDE DEF D
  <2>2. Path(Int, D, g, 0, 0 + CreateNet(D, m))
    BY <1>1, <2>1, NetCreate
  <2> HIDE DEF g
  <2>3. LotWorth(l, g)' = 0
    BY <1>3, <1>4, LotSame
  <2>4. 0 + CreateNet(D, m) = 0
    BY <2>1
  <2> QED
    BY <2>2, <2>3, <2>4 DEF D
<1> HIDE DEF g
<1>5. LotGood(g)'
  BY <1>4, LotAtDecision
<1> QED
  BY <1>5 DEF g

\* A closed order that is cancelled is paid back once more.
LEMMA LotWithUndone ==
    ASSUME Data, NEW l, NEW o \in orders, o \notin undone
    PROVE  /\ LotSum(Len(users), RowsIn(l, <<>>), HeldIn(l, <<>>),
                     {p \in undone \cup {o} : LockLot(p) = l})
                 = LotWorth(l, <<>>) - Held(l, o)
           /\ Held(l, o) \in Int
<1> DEFINE n == Len(users)
           R == RowsIn(l, <<>>)
           K == HeldIn(l, <<>>)
           U == UndoneIn(l)
           S == {p \in undone \cup {o} : LockLot(p) = l}
           h == Held(l, o)
<1>1. Locked(o) \in Int
  <2>1. o \in Orders(odd, n)
    BY DEF Data, TypeOK, Order, Orders
  <2> QED
    BY <2>1, UsersLength, OrderFields
<1>2. /\ Measured(R, "quantity") /\ Measured(K, "locked") /\ Measured(U, "locked")
      /\ DefaultQuantity * n \in Int
  BY LotMeasured
<1>3. Amount(S, "locked") = Amount(U, "locked") + h /\ h \in Int
  <2>1. CASE LockLot(o) = l
    <3>1. S = U \cup {o} /\ o \notin U /\ h = Locked(o)
      BY <2>1 DEF UndoneIn, Held
    <3>2. Measure("locked", o) = Locked(o)
      BY Measures
    <3> HIDE DEF U, S, h
    <3>3. Measure("locked", o) \in Int
      BY <1>1, <3>2
    <3>4. /\ Amount(U, "locked") \in Int
          /\ Amount(U \cup {o}, "locked") = Measure("locked", o) + Amount(U, "locked")
      BY <1>2, <3>1, <3>3, AmountAdd
    <3>5. Amount(U \cup {o}, "locked") = Locked(o) + Amount(U, "locked")
      BY <3>2, <3>4
    <3> QED
      BY <1>1, <3>1, <3>4, <3>5
  <2>2. CASE LockLot(o) # l
    <3>1. S = U /\ h = 0
      BY <2>2 DEF UndoneIn, Held
    <3> HIDE DEF U, S, h
    <3>2. Amount(U, "locked") \in Int
      BY <1>2, AmountInt
    <3> QED
      BY <3>1, <3>2
  <2> QED
    BY <2>1, <2>2
<1>4. LotWorth(l, <<>>) = LotSum(n, R, K, U)
  BY DEF LotWorth
<1> HIDE DEF n, R, K, U, S, h
<1>5. Amount(R, "quantity") \in Int /\ Amount(K, "locked") \in Int /\ Amount(U, "locked") \in Int
  BY <1>2, AmountInt
<1>6. \A x, y, z, w, d \in Int : ((x + y) - z) - (w + d) = (((x + y) - z) - w) - d
  OBVIOUS
<1>7. h \in Int
  BY <1>3
<1>8. LotSum(n, R, K, S) = LotWorth(l, <<>>) - h
  BY <1>2, <1>3, <1>4, <1>5, <1>6, <1>7 DEF LotSum
<1> QED
  BY <1>3, <1>8 DEF n, R, K, S, h

\* A cancelled order is paid back: an open one what it held, a closed one once
\* more, which the set of the cancelled ones accounts for.
LEMMA LotAtCancel ==
    ASSUME Data, LotGood(<<>>), UndoneGood(<<>>), NEW o \in orders,
           UNCHANGED <<users, userLots, orders, odd>>,
           undone' = undone \cup {p \in {o} : p.closed}
    PROVE  LotGood(DeleteOrder(o))'
<1> DEFINE n == Len(users)
           g == DeleteOrder(o)
<1>1. /\ n \in Nat /\ o \in Orders(odd, n) /\ \A p \in orders : p.id = o.id => p = o
  BY UsersLength DEF Data, TypeOK
<1>2. \A id : Has(g, DeletesOrder(id)) <=> id = o.id
  BY <1>1, DeletesOne
<1>3. NoRows(g)
  BY <1>1, CallsHaveNoRows
<1>4. Locked(o) \in Int /\ o.closed \in BOOLEAN
  BY <1>1, OrderFields
<1>5. o \notin undone
  BY NothingComes DEF UndoneGood
<1>6. ASSUME NEW l \in Lots, LotWorth(l, <<>>) = 0
      PROVE  \E a \in Int : a = LotWorth(l, g)' /\ Path(Int, LotFlow(odd, n, l), g, a, 0)
  <2> DEFINE D == LotFlow(odd, n, l)
             a == -Held(l, o)
             R == RowsIn(l, <<>>)
             K == HeldIn(l, <<>>)
             U == UndoneIn(l)
  <2>1. DeleteNet(D, o) = Held(l, o) /\ D \in [Ops(odd, n) -> Int]
    BY <1>1, LotNets, LotFlowOf
  <2>2. Held(l, o) \in Int
    BY <1>4 DEF Held
  <2> HIDE DEF D
  <2>3. a \in Int /\ a + DeleteNet(D, o) = 0
    BY <2>1, <2>2
  <2> HIDE DEF a
  <2>4. Path(Int, D, g, a, a + DeleteNet(D, o))
    BY <1>1, <2>1, <2>3, NetDelete
  <2> HIDE DEF g
  <2>5. RowsIn(l, g)' = R /\ HeldIn(l, g)' = K \ {o}
    BY <1>1, <1>2, <1>3, LotTables
  <2>6. LotWorth(l, g)' = LotSum(n, R, K \ {o}, UndoneIn(l)')
    BY <2>5 DEF LotWorth
  <2>7. LotWorth(l, g)' = a
    <3>1. CASE ~o.closed
      <4>1. UndoneIn(l)' = U
        BY <3>1 DEF UndoneIn
      <4>2. o \in Opened
        BY <3>1 DEF Opened
      <4>3. LotSum(n, R, K \ {o}, U) = LotWorth(l, <<>>) - Held(l, o)
        BY <4>2, LotWithout
      <4> HIDE DEF R, K, U, n
      <4> QED
        BY <1>6, <2>2, <2>6, <4>1, <4>3 DEF a
    <3>2. CASE o.closed
      <4>1. K \ {o} = K
        BY <3>2 DEF HeldIn, Kept, Opened
      <4> DEFINE S == {p \in undone \cup {o} : LockLot(p) = l}
      <4>2. UndoneIn(l)' = S
        BY <3>2 DEF UndoneIn
      <4>3. LotSum(n, R, K, S) = LotWorth(l, <<>>) - Held(l, o)
        BY <1>5, LotWithUndone
      <4>4. LotSum(n, R, K, S) = LotSum(n, R, K \ {o}, UndoneIn(l)')
        BY <4>1, <4>2
      <4> HIDE DEF R, K, U, n, S
      <4>5. LotWorth(l, g)' = LotWorth(l, <<>>) - Held(l, o)
        BY <2>6, <4>3, <4>4
      <4> QED
        BY <1>6, <2>2, <4>5 DEF a
    <3> QED
      BY <1>4, <3>1, <3>2
  <2> QED
    BY <2>3, <2>4, <2>7 DEF D
<1> HIDE DEF g
<1>7. LotGood(g)'
  BY <1>6, LotAtDecision
<1> QED
  BY <1>7 DEF g

-----------------------------------------------------------------------------
(* Every sale has its purchase.                                            *)

\* What is not a sale is treated like a purchase.
Side(o) == IF o.type = "sell" THEN "sell" ELSE "buy"

Closed(side) == {o \in orders \cup undone : o.closed /\ Side(o) = side}

\* What the closed sales are ahead of the closed purchases.
TradeWorth(k) ==
    Amount(Closed("sell"), SaleMeasure(k)) - Amount(Closed("buy"), PurchaseMeasure(k))

\* What is still to be done makes up for the difference.
TradeGood(f) ==
    \A k \in {"traded", "paid"} : Path(Int, TradeFlow(odd, Len(users), k), f, TradeWorth(k), 0)

ClosedSame == \A side \in {"sell", "buy"} : Closed(side)' = Closed(side)

\* The sums are sums of numbers.
LEMMA TradeMeasured ==
    ASSUME Data, NEW side, NEW k \in {"quantity", "locked", "gain"}
    PROVE  Measured(Closed(side), k)
<1>1. IsFiniteSet(orders \cup undone)
  BY FS_Union DEF Data
<1>2. IsFiniteSet(Closed(side))
  BY <1>1, FS_Subset DEF Closed
<1>3. \A o \in orders \cup undone : o \in Orders(odd, Len(users))
  BY UsersLength DEF Data, TypeOK
<1>4. \A o \in Orders(odd, Len(users)) : Measure(k, o) \in Int
  <2>1. ASSUME NEW o \in Orders(odd, Len(users)) PROVE Measure(k, o) \in Int
    <3>1. o.quantity \in Int /\ Locked(o) \in Int /\ Gain(o) \in Int
      BY OrderFields
    <3> QED
      BY <3>1, Measures
  <2> QED
    BY <2>1
<1> QED
  BY <1>2, <1>3, <1>4 DEF Measured, Closed

\* The same orders are closed.
LEMMA TradeSame ==
    ASSUME ClosedSame, NEW k
    PROVE  TradeWorth(k)' = TradeWorth(k)
<1>1. Closed("sell")' = Closed("sell") /\ Closed("buy")' = Closed("buy")
  BY DEF ClosedSame
<1> QED
  BY <1>1 DEF TradeWorth

\* The orders with the cancelled ones are the same: so are the closed ones.
LEMMA ClosedUnchanged ==
    ASSUME orders' \cup undone' = orders \cup undone
    PROVE  ClosedSame
  BY DEF ClosedSame, Closed

\* A task that adds no order is done.
LEMMA TradeAtTask ==
    ASSUME Data, NEW f \in Seq(Ops(odd, Len(users))), f # <<>>, Head(f).do # "add_order",
           TradeGood(f), UNCHANGED <<users, odd>>, ClosedSame
    PROVE  TradeGood(Tail(f))'
<1> DEFINE g == Tail(f)
<1>1. ASSUME NEW k \in {"traded", "paid"}
      PROVE  Path(Int, TradeFlow(odd', Len(users'), k), g, TradeWorth(k)', 0)
  <2> DEFINE D == TradeFlow(odd, Len(users), k)
             a == TradeWorth(k)
  <2>1. Len(users) \in Nat /\ Head(f) \in Ops(odd, Len(users))
    BY UsersLength
  <2>2. D[Head(f)] = 0
    BY <2>1, TradeFlowOf
  <2>3. Path(Int, D, f, a, 0)
    BY DEF TradeGood
  <2>4. TradeWorth(k)' = a
    BY TradeSame
  <2> HIDE DEF D, a
  <2>5. a \in Int
    BY <2>3, PathHead
  <2>6. a = a + D[Head(f)]
    BY <2>2, <2>5
  <2>7. Path(Int, D, g, a, 0)
    BY <2>3, <2>6, BalanceAtTask
  <2> QED
    BY <2>4, <2>7 DEF D
<1> HIDE DEF g
<1>2. TradeGood(g)'
  BY <1>1 DEF TradeGood
<1> QED
  BY <1>2 DEF g

\* A change of balance becomes two tasks on rows.
LEMMA TradeAtChange ==
    ASSUME Data, NEW f \in Seq(Ops(odd, Len(users))), f # <<>>, Head(f).do = "change",
           TradeGood(f), UNCHANGED <<users, odd>>, ClosedSame,
           NEW t \in Ops(odd, Len(users)), NEW v \in Ops(odd, Len(users)),
           t.do # "add_order", v.do # "add_order"
    PROVE  TradeGood(<<t, v>> \o Tail(f))'
<1> DEFINE g == <<t, v>> \o Tail(f)
<1>1. ASSUME NEW k \in {"traded", "paid"}
      PROVE  Path(Int, TradeFlow(odd', Len(users'), k), g, TradeWorth(k)', 0)
  <2> DEFINE n == Len(users)
             D == TradeFlow(odd, n, k)
             a == TradeWorth(k)
  <2>1. n \in Nat /\ Head(f) \in Ops(odd, n)
    BY UsersLength
  <2>2. D \in [Ops(odd, n) -> Int] /\ D[Head(f)] = 0 /\ D[t] = 0 /\ D[v] = 0
    BY <2>1, TradeFlowOf
  <2>3. Path(Int, D, f, a, 0)
    BY DEF TradeGood
  <2>4. TradeWorth(k)' = a
    BY TradeSame
  <2> HIDE DEF D, a
  <2>5. a \in Int
    BY <2>3, PathHead
  <2>6. (a + D[t]) + D[v] = a + D[Head(f)]
    BY <2>2, <2>5
  <2>7. Path(Int, D, g, a, 0)
    BY <2>2, <2>3, <2>5, <2>6, BalanceAtChange
  <2> QED
    BY <2>4, <2>7 DEF D
<1> HIDE DEF g
<1>2. TradeGood(g)'
  BY <1>1 DEF TradeGood
<1> QED
  BY <1>2 DEF g

\* A decision: what it expands into sells what it buys.
LEMMA TradeAtDecision ==
    ASSUME Data, TradeGood(<<>>), NEW g, UNCHANGED <<users, odd>>, ClosedSame,
           \A k \in {"traded", "paid"} : Path(Int, TradeFlow(odd, Len(users), k), g, 0, 0)
    PROVE  TradeGood(g)'
<1>1. ASSUME NEW k \in {"traded", "paid"}
      PROVE  Path(Int, TradeFlow(odd, Len(users), k), g, TradeWorth(k)', 0)
  <2>1. Path(Int, TradeFlow(odd, Len(users), k), <<>>, TradeWorth(k), 0)
    BY DEF TradeGood
  <2>2. TradeWorth(k) = 0
    BY <2>1, PathEnd
  <2>3. TradeWorth(k)' = 0
    BY <2>2, TradeSame
  <2> QED
    BY <2>3
<1> QED
  BY <1>1 DEF TradeGood

\* Nothing, a deal, an order that is placed or deleted.
LEMMA TradePaths ==
    ASSUME NEW d, NEW n \in Nat, NEW k, NEW m \in Orders(d, n), NEW o \in Orders(d, n)
    PROVE  LET D == TradeFlow(d, n, k) IN
           /\ ~o.closed => Path(Int, D, CreateOrder(o), 0, 0)
           /\ Path(Int, D, DeleteOrder(o), 0, 0)
           /\ IsReverse(m, o) /\ IsProfit(m, o) => Path(Int, D, Deal(m, o), 0, 0)
<1> DEFINE D == TradeFlow(d, n, k)
<1>1. /\ D \in [Ops(d, n) -> Int] /\ DeleteNet(D, o) = 0
      /\ ~o.closed => CreateNet(D, o) = 0
      /\ IsReverse(m, o) /\ IsProfit(m, o) => DealNet(D, m, o) = 0
  BY TradeFlowOf, TradeNets
<1> HIDE DEF D
<1>2. /\ Path(Int, D, CreateOrder(o), 0, 0 + CreateNet(D, o))
      /\ Path(Int, D, DeleteOrder(o), 0, 0 + DeleteNet(D, o))
      /\ Path(Int, D, Deal(m, o), 0, 0 + DealNet(D, m, o))
  <2>1. 0 \in Int
    OBVIOUS
  <2>2. Path(Int, D, CreateOrder(o), 0, 0 + CreateNet(D, o))
    BY <1>1, <2>1, NetCreate
  <2>3. Path(Int, D, DeleteOrder(o), 0, 0 + DeleteNet(D, o))
    BY <1>1, <2>1, NetDelete
  <2>4. Path(Int, D, Deal(m, o), 0, 0 + DealNet(D, m, o))
    BY <1>1, <2>1, NetDeal
  <2> QED
    BY <2>2, <2>3, <2>4
<1>3. 0 + 0 = 0
  OBVIOUS
<1>4. /\ ~o.closed => Path(Int, D, CreateOrder(o), 0, 0)
      /\ Path(Int, D, DeleteOrder(o), 0, 0)
      /\ IsReverse(m, o) /\ IsProfit(m, o) => Path(Int, D, Deal(m, o), 0, 0)
  BY <1>1, <1>2, <1>3
<1> QED
  BY <1>4 DEF D

\* A new user trades nothing.
LEMMA TradeAtAddUser ==
    ASSUME Data, TradeGood(<<>>), NEW k, k = Len(users) + 1, Len(users') = k, odd' = odd,
           ClosedSame
    PROVE  TradeGood(<<NewRow(k, First), NewRow(k, Second)>>)'
<1> DEFINE t == NewRow(k, First)
           v == NewRow(k, Second)
           g == <<t, v>>
<1>1. k \in Nat /\ k \in 1..k
  BY UsersLength
<1>2. First \in Lots /\ Second \in Lots /\ DefaultQuantity \in Nat
  BY AmountsAreNumbers DEF Lots, First, Second
<1>3. t \in Ops(odd, k) /\ t.do = "add_row" /\ v \in Ops(odd, k) /\ v.do = "add_row"
  BY <1>1, <1>2, AddsIsOp DEF NewRow
<1> HIDE DEF t, v
<1>4. ASSUME NEW i \in {"traded", "paid"}
      PROVE  Path(Int, TradeFlow(odd, k, i), g, TradeWorth(i)', 0)
  <2> DEFINE D == TradeFlow(odd, k, i)
  <2>1. D[t] = 0 /\ D[v] = 0
    BY <1>3, TradeFlowOf
  <2>2. Path(Int, TradeFlow(odd, Len(users), i), <<>>, TradeWorth(i), 0)
    BY DEF TradeGood
  <2>3. TradeWorth(i)' = 0
    BY <2>2, PathEnd, TradeSame
  <2> HIDE DEF D
  <2>4. 0 = 0 + D[t] /\ 0 = 0 + D[v] /\ 0 \in Int
    BY <2>1
  <2>5. Path(Int, D, g, 0, 0)
    BY <1>3, <2>4, PathTwo
  <2> QED
    BY <2>3, <2>5 DEF D
<1> HIDE DEF g
<1>5. TradeGood(g)'
  BY <1>4 DEF TradeGood
<1> QED
  BY <1>5 DEF g, t, v

\* An order is deleted: a closed one has been cancelled, and still counts.
LEMMA TradeAtDelOrder ==
    ASSUME Data, NEW f \in Seq(Ops(odd, Len(users))), f # <<>>, Head(f).do = "del_order",
           TradeGood(f), UndoneGood(f), UNCHANGED <<users, undone, odd>>,
           orders' = {o \in orders : o.id # Head(f).id}
    PROVE  TradeGood(Tail(f))'
<1>1. Head(f) = DeletesOrder(Head(f).id)
  <2>1. Head(f) \in Ops(odd, Len(users))
    OBVIOUS
  <2>2. Head(f) \in [do : {"del_order"}, id : Nat]
    BY <2>1 DEF Ops
  <2> QED
    BY <2>2 DEF DeletesOrder
<1>2. Has(f, DeletesOrder(Head(f).id))
  BY <1>1, HasHead
<1>3. \A o \in orders : o.closed /\ o.id = Head(f).id => o \in undone
  BY <1>2 DEF UndoneGood
<1>4. ASSUME NEW side PROVE Closed(side)' = Closed(side)
  <2>1. Closed(side)' = {o \in {p \in orders : p.id # Head(f).id} \cup undone :
                           o.closed /\ Side(o) = side}
    BY DEF Closed
  <2>2. Closed(side) = {o \in orders \cup undone : o.closed /\ Side(o) = side}
    BY DEF Closed
  <2> QED
    BY <1>3, <2>1, <2>2
<1>5. ClosedSame
  BY <1>4 DEF ClosedSame
<1> QED
  BY <1>5, TradeAtTask

\* An order is added: a closed one is a sale or a purchase.
LEMMA TradeAtAddOrder ==
    ASSUME Data, NEW f \in Seq(Ops(odd, Len(users))), f # <<>>, Head(f).do = "add_order",
           TradeGood(f), UNCHANGED <<users, undone, odd>>, NEW id, id = orderPk + 1,
           orders' = orders \cup {WithId(Head(f).order, id)},
           \A o \in orders \cup undone : o.id # id
    PROVE  TradeGood(Tail(f))'
<1> DEFINE n == Len(users)
           g == Tail(f)
           o == Head(f).order
           x == WithId(o, id)
<1>1. n \in Nat /\ o \in Orders(odd, n) /\ id \in Nat /\ Head(f) = AddsOrder(o)
  <2>1. n \in Nat /\ Head(f) \in Ops(odd, n) /\ id \in Nat
    BY UsersLength DEF Data
  <2>2. Head(f) \in [do : {"add_order"}, order : Orders(odd, n)]
    BY <2>1 DEF Ops
  <2> QED
    BY <2>1, <2>2 DEF AddsOrder
<1>2. /\ x \in Orders(odd, n) /\ x.id = id /\ x.type = o.type /\ x.price = o.price
      /\ x.quantity = o.quantity /\ x.closed = o.closed /\ x.pair = o.pair
  <2> HIDE DEF o, n
  <2> QED
    BY <1>1 DEF WithId, Orders, Plain
<1>3. orders' = orders \cup {x} /\ x \notin orders \cup undone
  BY <1>2 DEF x, o
<1> HIDE DEF x, o
<1>4. \A k : Measure(k, x) = Measure(k, o)
  BY <1>2 DEF Measure, Locked, Gain
<1>5. ASSUME NEW side
      PROVE  /\ Closed(side)' = IF o.closed /\ Side(o) = side THEN Closed(side) \cup {x}
                                ELSE Closed(side)
             /\ x \notin Closed(side)
  <2>1. Closed(side)' = {p \in orders \cup {x} \cup undone : p.closed /\ Side(p) = side}
    BY <1>3 DEF Closed
  <2>2. Closed(side) = {p \in orders \cup undone : p.closed /\ Side(p) = side}
    BY DEF Closed
  <2>3. Side(x) = Side(o)
    BY <1>2 DEF Side
  <2> QED
    BY <1>2, <1>3, <2>1, <2>2, <2>3
<1>6. ASSUME NEW side, NEW k \in {"quantity", "locked", "gain"}
      PROVE  /\ Amount(Closed(side), k) \in Int /\ Measure(k, o) \in Int
             /\ Amount(Closed(side), k)' = IF o.closed /\ Side(o) = side
                                           THEN Measure(k, o) + Amount(Closed(side), k)
                                           ELSE Amount(Closed(side), k)
  <2> DEFINE S == Closed(side)
  <2>1. Measured(S, k)
    BY TradeMeasured
  <2>2. Measure(k, o) \in Int
    <3>1. o.quantity \in Int /\ Locked(o) \in Int /\ Gain(o) \in Int
      BY <1>1, OrderFields
    <3> QED
      BY <3>1, Measures
  <2>3. Amount(Closed(side), k)' = Amount(Closed(side)', k)
    OBVIOUS
  <2>4. /\ Closed(side)' = IF o.closed /\ Side(o) = side THEN S \cup {x} ELSE S
        /\ x \notin S
    BY <1>5
  <2> HIDE DEF S
  <2>5. Amount(S, k) \in Int /\ Amount(S \cup {x}, k) = Measure(k, o) + Amount(S, k)
    BY <1>4, <2>1, <2>2, <2>4, AmountAdd
  <2>6. Amount(Closed(side)', k) = IF o.closed /\ Side(o) = side
                                   THEN Measure(k, o) + Amount(S, k) ELSE Amount(S, k)
    BY <2>4, <2>5
  <2> QED
    BY <2>2, <2>3, <2>5, <2>6 DEF S
<1> HIDE DEF g
<1>7. ASSUME NEW k \in {"traded", "paid"}
      PROVE  TradeWorth(k)' = TradeWorth(k) + TradeFlow(odd, n, k)[Head(f)]
  <2> DEFINE s == SaleMeasure(k)
             p == PurchaseMeasure(k)
             i == Amount(Closed("sell"), s)
             j == Amount(Closed("buy"), p)
             d == TradeFlow(odd, n, k)[Head(f)]
  <2>1. /\ s \in {"quantity", "locked", "gain"} /\ p \in {"quantity", "locked", "gain"}
    BY DEF SaleMeasure, PurchaseMeasure
  <2>2. d = IF o.closed THEN Value(k, o) ELSE 0
    BY <1>1, TradeNets
  <2>3. Value(k, o) = IF Side(o) = "sell" THEN Measure(s, o) ELSE -Measure(p, o)
    BY DEF Value, Side
  <2>4. /\ i \in Int /\ j \in Int /\ Measure(s, o) \in Int /\ Measure(p, o) \in Int
        /\ Amount(Closed("sell"), s)' = IF o.closed /\ Side(o) = "sell"
                                        THEN Measure(s, o) + i ELSE i
        /\ Amount(Closed("buy"), p)' = IF o.closed /\ Side(o) = "buy"
                                       THEN Measure(p, o) + j ELSE j
    <3> HIDE DEF s, p
    <3> QED
      BY <1>6, <2>1
  <2>5. /\ TradeWorth(k) = i - j
        /\ TradeWorth(k)' = Amount(Closed("sell"), s)' - Amount(Closed("buy"), p)'
    BY DEF TradeWorth
  <2>6. Side(o) \in {"sell", "buy"} /\ o.closed \in BOOLEAN
    BY <1>1, OrderFields DEF Side
  <2> HIDE DEF s, p, d
  <2> DEFINE u == Amount(Closed("sell"), s)'
             v == Amount(Closed("buy"), p)'
             y == Measure(s, o)
             z == Measure(p, o)
  <2>7. /\ u = (IF o.closed /\ Side(o) = "sell" THEN y + i ELSE i)
        /\ v = (IF o.closed /\ Side(o) = "buy" THEN z + j ELSE j)
        /\ d = (IF o.closed THEN IF Side(o) = "sell" THEN y ELSE -z ELSE 0)
        /\ i \in Int /\ j \in Int /\ y \in Int /\ z \in Int
        /\ Side(o) \in {"sell", "buy"} /\ o.closed \in BOOLEAN
    BY <2>2, <2>3, <2>4, <2>6
  <2>8. TradeWorth(k) = i - j /\ TradeWorth(k)' = u - v
    BY <2>5
  <2> HIDE DEF i, j, u, v, y, z
  <2>9. u - v = (i - j) + d
    BY <2>7
  <2> QED
    BY <2>8, <2>9 DEF d
<1>8. ASSUME NEW k \in {"traded", "paid"}
      PROVE  Path(Int, TradeFlow(odd', Len(users'), k), g, TradeWorth(k)', 0)
  <2> DEFINE D == TradeFlow(odd, Len(users), k)
             c == TradeWorth(k)'
  <2>1. Path(Int, D, f, TradeWorth(k), 0) /\ c = TradeWorth(k) + D[Head(f)]
    BY <1>7 DEF TradeGood
  <2> HIDE DEF D, c
  <2>2. Path(Int, D, g, c, 0)
    BY <2>1, BalanceAtTask DEF g
  <2> QED
    BY <2>2 DEF D, c
<1>9. TradeGood(g)'
  BY <1>8 DEF TradeGood
<1> QED
  BY <1>9 DEF g

\* A deal, an order that is placed, one that is cancelled, and nothing.
LEMMA TradeAtDeal ==
    ASSUME Data, TradeGood(<<>>), NEW m \in Orders(odd, Len(users)), NEW o \in Opened,
           IsReverse(m, o), IsProfit(m, o), UNCHANGED <<users, orders, undone, odd>>
    PROVE  TradeGood(Deal(m, o))'
<1>1. Len(users) \in Nat /\ o \in Orders(odd, Len(users)) /\ ~o.closed
  BY UsersLength, OpenedOrders
<1>2. \A k \in {"traded", "paid"} : Path(Int, TradeFlow(odd, Len(users), k), Deal(m, o), 0, 0)
  BY <1>1, TradePaths
<1>3. ClosedSame
  BY ClosedUnchanged
<1> QED
  BY <1>2, <1>3, TradeAtDecision

\* An order that is placed is an open one.
LEMMA TradeAtPlace ==
    ASSUME Data, TradeGood(<<>>), NEW m \in Orders(odd, Len(users)), ~m.closed,
           UNCHANGED <<users, orders, undone, odd>>
    PROVE  TradeGood(CreateOrder(m))'
<1>1. Len(users) \in Nat
  BY UsersLength
<1>2. \A k \in {"traded", "paid"} : Path(Int, TradeFlow(odd, Len(users), k), CreateOrder(m), 0, 0)
  BY <1>1, TradePaths
<1>3. ClosedSame
  BY ClosedUnchanged
<1> QED
  BY <1>2, <1>3, TradeAtDecision

\* A closed order that is cancelled was counted, and is.
LEMMA TradeAtCancel ==
    ASSUME Data, TradeGood(<<>>), NEW o \in orders, UNCHANGED <<users, orders, odd>>,
           undone' = undone \cup {p \in {o} : p.closed}
    PROVE  TradeGood(DeleteOrder(o))'
<1>1. Len(users) \in Nat /\ o \in Orders(odd, Len(users))
  BY UsersLength DEF Data, TypeOK
<1>2. \A k \in {"traded", "paid"} : Path(Int, TradeFlow(odd, Len(users), k), DeleteOrder(o), 0, 0)
  BY <1>1, TradePaths
<1>3. orders' \cup undone' = orders \cup undone
  OBVIOUS
<1>4. ClosedSame
  BY <1>3, ClosedUnchanged
<1> QED
  BY <1>2, <1>4, TradeAtDecision

\* Nothing happens.
LEMMA TradeAtRest ==
    ASSUME Data, TradeGood(<<>>), UNCHANGED <<users, orders, undone>>
    PROVE  TradeGood(<<>>)'
<1>1. ClosedSame
  BY ClosedUnchanged
<1>2. ASSUME NEW k \in {"traded", "paid"}
      PROVE  Path(Int, TradeFlow(odd', Len(users'), k), <<>>, TradeWorth(k)', 0)
  <2>1. TradeWorth(k)' = TradeWorth(k)
    BY <1>1, TradeSame
  <2>2. TradeWorth(k) = 0
    BY PathEnd DEF TradeGood
  <2> QED
    BY <2>1, <2>2, PathNone
<1> QED
  BY <1>2 DEF TradeGood

-----------------------------------------------------------------------------
(* While one connection works at a time: all of it together.               *)

MoneyGood(f) == UndoneGood(f) /\ LotGood(f) /\ TradeGood(f)

\* The sums hold until a change of a balance is refused; the balances cover the
\* changes ahead until an odd order is posted.
Good(f, b, m) ==
    /\ RowsGood(f) /\ BookGood(f, b, m)
    /\ ~refused => MoneyGood(f)
    /\ ~odd => UserGood(f, b, m)

\* Nothing was to be done, and nothing is: only the decisions ahead differ.
LEMMA GoodAtRest ==
    ASSUME Data, NEW b, NEW m, Good(<<>>, b, m), UNCHANGED <<db, undone, odd, refused>>, NEW c, NEW x,
           BookGood(<<>>, c, x)', Placing(c) => Placing(b) /\ x = m
    PROVE  Good(<<>>, c, x)'
<1>1. RowsGood(<<>>)'
  BY NoRowsInNothing, RowsAtDecision DEF Good
<1>u. ASSUME ~odd PROVE UserGood(<<>>, c, x)'
  <2>1. UserGood(<<>>, b, m)
    BY <1>u DEF Good, MoneyGood
  <2>2. UNCHANGED <<users, userLots, orders, orderPk, undone, odd>>
    BY DEF db
  <2> QED
    BY <2>1, <2>2, NoRowsInNothing, UserAtDecision
<1>2. ASSUME ~refused PROVE MoneyGood(<<>>)'
  <2>1. UndoneGood(<<>>) /\ LotGood(<<>>) /\ TradeGood(<<>>)
    BY <1>2 DEF Good, MoneyGood
  <2>2. UNCHANGED <<users, userLots, orders, orderPk, undone, odd, refused>>
    BY DEF db
  <2>3. UndoneGood(<<>>)'
    BY <2>1, <2>2, UndoneSame
  <2>5. LotGood(<<>>)' /\ TradeGood(<<>>)'
    BY <2>1, <2>2, LotAtRest, TradeAtRest
  <2> QED
    BY <2>3, <2>5 DEF MoneyGood
<1> QED
  BY <1>1, <1>2, <1>u DEF Good

\* A decision that is about no order of the client.
LEMMA GoodAside ==
    ASSUME Data, NEW b, NEW m, Good(<<>>, b, m), UNCHANGED <<db, undone, odd, refused>>, NEW c, NEW x,
           ~Placing(c)
    PROVE  Good(<<>>, c, x)'
<1>1. NoneClash(Opened)
  BY BookIsNotCrossed DEF Good
<1>2. ~Listed(c)
  BY ListedIsPlacing
<1>3. orders' = orders
  BY DEF db
<1>4. BookGood(<<>>, c, x)'
  BY <1>1, <1>2, <1>3, NothingComes, BookUnread
<1> QED
  BY <1>4, GoodAtRest

\* A step in which nothing happens.
LEMMA GoodStays ==
    ASSUME NEW f, NEW b, NEW m, Good(f, b, m), UNCHANGED <<db, undone, odd, refused>>
    PROVE  Good(f, b, m)'
<1>1. UNCHANGED <<users, userLots, orders, orderPk, undone, odd, refused>>
  BY DEF db
<1>2. RowsGood(f)'
  <2>1. RowsGood(f)
    BY DEF Good
  <2>2. AllRows' = AllRows /\ \A u, l : BalanceRows(u, l)' = BalanceRows(u, l)
    BY <1>1 DEF AllRows, OneRow, BalanceRows
  <2>3. \A u, l : OneRow(u, l)' <=> OneRow(u, l)
    BY <1>1 DEF OneRow, BalanceRows
  <2>4. RowsThere(f)' <=> RowsThere(f)
    BY <2>2 DEF RowsThere
  <2>5. \A r, q, g : RowReplaced(f, r, q, g)' <=> RowReplaced(f, r, q, g)
    BY <1>1, <2>2 DEF RowReplaced
  <2>6. \A v, k, q, g : RowMissing(f, v, k, q, g)' <=> RowMissing(f, v, k, q, g)
    BY <1>1, <2>2, <2>3 DEF RowMissing
  <2>7. \A v : RowsMissing(f, v)' <=> RowsMissing(f, v)
    BY <1>1, <2>2, <2>3 DEF RowsMissing
  <2> QED
    BY <2>1, <2>4, <2>5, <2>6, <2>7 DEF RowsGood
<1>3. BookGood(f, b, m)'
  BY <1>1, BookSame DEF Good
<1>u. ASSUME ~odd PROVE UserGood(f, b, m)'
  <2>1. UserGood(f, b, m)
    BY <1>u DEF Good, MoneyGood
  <2> QED
    BY <1>1, <2>1 DEF UserGood, Holds, LiveRows
<1>4. ASSUME ~refused PROVE MoneyGood(f)'
  <2>1. UndoneGood(f) /\ LotGood(f) /\ TradeGood(f)
    BY <1>4 DEF Good, MoneyGood
  <2>2. UndoneGood(f)'
    BY <1>1, <2>1, UndoneSame
  <2>4. LotGood(f)'
    <3>1. \A l : LotWorth(l, f)' = LotWorth(l, f)
      BY <1>1, LotSame
    <3> QED
      BY <1>1, <2>1, <3>1 DEF LotGood
  <2>5. TradeGood(f)'
    <3>1. ClosedSame
      BY <1>1, ClosedUnchanged
    <3>2. \A k : TradeWorth(k)' = TradeWorth(k)
      BY <3>1, TradeSame
    <3> QED
      BY <1>1, <2>1, <3>2 DEF TradeGood
  <2> QED
    BY <2>2, <2>4, <2>5 DEF MoneyGood
<1> QED
  BY <1>2, <1>3, <1>4, <1>u DEF Good

\* A connection at work, with what it still has to do.
Working(th) == \E f, b : Plan(todo[th], f, b, my[th], odd, Len(users)) /\ Good(f, b, my[th])

\* One step of a connection that leaves everything in order.  No change of a
\* balance is refused before an odd order was posted.
Serves(th) ==
    /\ \E g, c, x : x = my'[th] /\ Plan(todo'[th], g, c, x, odd', Len(users')) /\ Good(g, c, x)'
    /\ odd' = odd /\ (~odd => refused' = refused)

\* The tasks of registering and of cancelling place no order.
LEMMA AsideEnds ==
    ASSUME NEW d, NEW n \in Nat, NEW b \in Seq(Waits(d, n)), b # <<>>, NEW m, Ends(b, m, d, n),
           b[1].do \in {"check_name", "add_user", "find_order"}
    PROVE  m = NoOrder /\ ~Placing(b) /\ ~Placing(Tail(b))
<1>1. 1 \in 1..Len(b)
  OBVIOUS
<1>2. m = NoOrder
  BY <1>1 DEF Ends
<1>3. ~Placing(b)
  BY <1>2, NoOrderIsNone DEF Ends
<1>4. Placing(Tail(b)) => Placing(b)
  BY EndsOfTail
<1> QED
  BY <1>2, <1>3, <1>4

\* A name is refused before anything is done.
LEMMA CheckNameServes ==
    ASSUME Data, NEW th \in Threads, NEW f, NEW b, NEW m, m = my[th],
           Plan(todo[th], f, b, m, odd, Len(users)), Good(f, b, m), CheckName(th)
    PROVE  Serves(th)
<1> DEFINE n == Len(users)
<1>1. /\ UNCHANGED <<db, undone, odd, refused, my>> /\ f = <<>> /\ b # <<>> /\ b \in Seq(Waits(odd, n))
      /\ Ends(b, m, odd, n) /\ b[1].do = "check_name"
      /\ \/ Plan(todo'[th], <<>>, Tail(b), m, odd, n) /\ failed' = failed
         \/ /\ Plan(todo'[th], <<>>, <<>>, m, odd, n) /\ m = NoOrder
            /\ failed' = failed \cup {th}
  BY CheckNamePlan
<1>2. n \in Nat /\ users' = users
  BY <1>1, UsersLength DEF db
<1>3. m = NoOrder /\ ~Placing(Tail(b)) /\ ~Placing(<<>>)
  BY <1>1, <1>2, AsideEnds, NothingPlanned
<1>4. Good(<<>>, Tail(b), m)' /\ Good(<<>>, <<>>, m)'
  BY <1>1, <1>3, GoodAside
<1> QED
  BY <1>1, <1>2, <1>3, <1>4 DEF Serves

\* A new user.
LEMMA AddUserServes ==
    ASSUME Data, NEW th \in Threads, NEW f, NEW b, NEW m, m = my[th],
           Plan(todo[th], f, b, m, odd, Len(users)), Good(f, b, m), AddUser(th)
    PROVE  Serves(th)
<1>1. PICK k : k = Len(users) + 1
  OBVIOUS
<1> DEFINE t == NewRow(k, First)
           v == NewRow(k, Second)
           g == <<t, v>>
<1>2. /\ Len(users') = k /\ f = <<>> /\ failed' = failed
      /\ UNCHANGED <<userLots, lotPk, orders, orderPk, undone, odd, refused, my>>
      /\ Plan(todo'[th], g, Tail(b), m, odd, k) /\ b # <<>> /\ b \in Seq(Waits(odd, Len(users)))
      /\ Ends(b, m, odd, Len(users)) /\ b[1].do = "add_user"
  BY <1>1, AddUserPlan
<1>3. Len(users) \in Nat /\ k \in Nat /\ k \in 1..k
  BY <1>1, UsersLength
<1>4. m = NoOrder /\ ~Placing(Tail(b))
  BY <1>2, <1>3, AsideEnds
<1>5. t \in Ops(odd, k) /\ t.do = "add_row" /\ v \in Ops(odd, k) /\ v.do = "add_row"
  <2>1. First \in Lots /\ Second \in Lots /\ DefaultQuantity \in Nat
    BY AmountsAreNumbers DEF Lots, First, Second
  <2>2. k \in Nat /\ k \in 1..k
    BY <1>3
  <2>3. \A l \in Lots : /\ Adds(k, l, DefaultQuantity) \in Ops(odd, k)
                        /\ Adds(k, l, DefaultQuantity).do = "add_row"
    BY <2>1, <2>2 DEF Adds, Ops
  <2> QED
    BY <2>1, <2>3 DEF NewRow
<1>6. RowsGood(<<>>) /\ NoneClash(Opened)
  BY <1>2, BookIsNotCrossed DEF Good
<1>7. RowsGood(g)'
  BY <1>1, <1>2, <1>6, RowsAtAddUser
<1>8. /\ ~odd => UserGood(g, Tail(b), m)'
      /\ ~refused => LotGood(g)' /\ TradeGood(g)'
  <2>1. /\ ~odd => UserGood(<<>>, b, m)
        /\ ~refused => LotGood(<<>>) /\ TradeGood(<<>>)
    BY <1>2 DEF Good, MoneyGood
  <2>2. ClosedSame
    BY <1>2, ClosedUnchanged
  <2>3. ASSUME ~odd PROVE UserGood(g, Tail(b), m)'
    BY <1>1, <1>2, <1>4, <2>1, <2>3, UserAtAddUser
  <2>4. ASSUME ~refused PROVE LotGood(g)'
    BY <1>1, <1>2, <2>1, <2>4, LotAtAddUser
  <2>5. ASSUME ~refused PROVE TradeGood(g)'
    BY <1>1, <1>2, <2>1, <2>2, <2>5, TradeAtAddUser
  <2> QED
    BY <2>3, <2>4, <2>5
<1> HIDE DEF t, v
<1>9. \A y : Has(g, y) => y.do = "add_row"
  <2>1. \A y : Has(g, y) <=> y = t \/ y = v
    BY <1>5, HasPair
  <2> QED
    BY <1>5, <2>1
<1> HIDE DEF g
<1>10. /\ \A o : ~Has(g, AddsOrder(o))
       /\ \A id : Has(g, DeletesOrder(id)) <=> Has(<<>>, DeletesOrder(id))
  <2>1. \A o, id : AddsOrder(o).do # "add_row" /\ DeletesOrder(id).do # "add_row"
    BY DEF AddsOrder, DeletesOrder
  <2> QED
    BY <1>9, <2>1, NothingComes
<1>11. BookGood(g, Tail(b), m)'
  <2>1. ~Listed(Tail(b))
    BY <1>4, ListedIsPlacing
  <2> QED
    BY <1>2, <1>6, <1>10, <2>1, BookUnread
<1>12. ~refused => UndoneGood(g)'
  <2>1. ~refused => UndoneGood(<<>>)
    BY <1>2 DEF Good, MoneyGood
  <2> QED
    BY <1>2, <1>10, <2>1, UndoneSame
<1>13. Good(g, Tail(b), m)'
  BY <1>2, <1>7, <1>8, <1>11, <1>12 DEF Good, MoneyGood
<1> QED
  BY <1>2, <1>13 DEF Serves

\* A change of balance: the row that is read will be replaced; it is there and
\* covers the change, until an odd order is posted.
LEMMA ChangeServes ==
    ASSUME Data, NEW th \in Threads, NEW f, NEW b, NEW m, m = my[th],
           Plan(todo[th], f, b, m, odd, Len(users)), Good(f, b, m), ChangeBalance(th)
    PROVE  Serves(th)
<1> DEFINE n == Len(users)
           t == Head(f)
<1>1. /\ UNCHANGED <<db, undone, odd, my>> /\ f # <<>> /\ f \in Seq(Ops(odd, n))
      /\ t \in Ops(odd, n) /\ t.do = "change"
      /\ \/ \E r \in userLots :
               /\ BalanceRows(t.user, t.lot) = {r} /\ t.lot \in Lots /\ refused' = refused
               /\ r.pk \in Nat /\ r.quantity \in Nat /\ r.quantity + t.sum \in Nat
               /\ Plan(todo'[th], <<Removes(r), Adds(t.user, t.lot, r.quantity + t.sum)>>
                                     \o Tail(f), b, m, odd, n)
         \/ /\ Plan(todo'[th], <<>>, <<>>, m, odd, n) /\ refused' = TRUE
            /\ \/ Cardinality(BalanceRows(t.user, t.lot)) # 1
               \/ \E r \in BalanceRows(t.user, t.lot) : t.sum <= 0 /\ -t.sum > r.quantity
  BY ChangePlan
<1>2. UNCHANGED <<users, userLots, orders, orderPk>> /\ n \in Nat
  BY <1>1, UsersLength DEF db
<1>3. RowsGood(f) /\ BookGood(f, b, m)
  BY DEF Good
<1>4. /\ ~refused => UndoneGood(f) /\ LotGood(f) /\ TradeGood(f)
      /\ ~odd => UserGood(f, b, m)
  BY DEF Good, MoneyGood
<1> HIDE DEF t
<1>5. ASSUME NEW r \in userLots, BalanceRows(t.user, t.lot) = {r}, NEW q \in Nat,
             q = r.quantity + t.sum, t.lot \in Lots, refused' = refused
      PROVE  Good(<<Removes(r), Adds(r.user, r.lot, q)>> \o Tail(f), b, m)'
  <2> DEFINE s == Removes(r)
             v == Adds(r.user, r.lot, q)
             g == <<s, v>> \o Tail(f)
  <2>1. /\ s \in Ops(odd, n) /\ s.do = "del_row" /\ v \in Ops(odd, n) /\ v.do = "add_row"
    <3>1. r.user \in 1..n /\ r.lot \in Lots /\ s \in Ops(odd, n) /\ s.do = "del_row"
      BY RowFields
    <3> QED
      BY <1>2, <3>1, AddsIsOp
  <2>2. RowsGood(g)'
    BY <1>1, <1>3, RowsAtChange DEF t
  <2>3. ASSUME ~odd PROVE UserGood(g, b, m)'
    BY <1>1, <1>2, <1>3, <1>4, <1>5, <2>3, UserAtChange DEF t
  <2>4. ASSUME ~refused PROVE LotGood(g)'
    BY <1>1, <1>2, <1>3, <1>4, <1>5, <2>4, LotAtChange DEF t
  <2> HIDE DEF s, v
  <2>5. ASSUME ~refused PROVE TradeGood(g)'
    <3>1. ClosedSame
      BY <1>1, <1>2, ClosedUnchanged
    <3> QED
      BY <1>1, <1>2, <1>4, <2>1, <2>5, <3>1, TradeAtChange DEF t
  <2>6. /\ \A x : Has(g, x) <=> x = s \/ x = v \/ Has(Tail(f), x)
        /\ \A x : Has(f, x) <=> x = t \/ Has(Tail(f), x)
    BY <1>1, <2>1, HasAtChange DEF t
  <2> HIDE DEF g
  <2>7. /\ \A o : Has(g, AddsOrder(o)) <=> Has(f, AddsOrder(o))
        /\ \A id : Has(g, DeletesOrder(id)) <=> Has(f, DeletesOrder(id))
    <3>1. \A o, id : /\ AddsOrder(o) \notin {s, v, t} /\ DeletesOrder(id) \notin {s, v, t}
      BY <1>1, <2>1 DEF AddsOrder, DeletesOrder
    <3> QED
      BY <2>6, <3>1, Zenon
  <2>8. BookGood(g, b, m)'
    BY <1>2, <1>3, <2>7, BookSame
  <2>9. ASSUME ~refused PROVE UndoneGood(g)'
    BY <1>1, <1>2, <1>4, <2>7, <2>9, UndoneSame
  <2>10. Good(g, b, m)'
    BY <1>1, <1>5, <2>2, <2>3, <2>4, <2>5, <2>8, <2>9 DEF Good, MoneyGood
  <2> QED
    BY <2>10 DEF g, s, v
<1>6. CASE \E r \in userLots :
               /\ BalanceRows(t.user, t.lot) = {r} /\ t.lot \in Lots /\ refused' = refused
               /\ r.pk \in Nat /\ r.quantity \in Nat /\ r.quantity + t.sum \in Nat
               /\ Plan(todo'[th], <<Removes(r), Adds(t.user, t.lot, r.quantity + t.sum)>>
                                     \o Tail(f), b, m, odd, n)
  <2>1. PICK r \in userLots :
               /\ BalanceRows(t.user, t.lot) = {r} /\ r.quantity + t.sum \in Nat
               /\ t.lot \in Lots /\ refused' = refused
               /\ Plan(todo'[th], <<Removes(r), Adds(t.user, t.lot, r.quantity + t.sum)>>
                                     \o Tail(f), b, m, odd, n)
    BY <1>6
  <2>2. t.user = r.user /\ t.lot = r.lot
    BY <2>1 DEF BalanceRows
  <2>3. PICK q \in Nat : q = r.quantity + t.sum
    BY <2>1
  <2>4. PICK g : g = <<Removes(r), Adds(r.user, r.lot, q)>> \o Tail(f)
    OBVIOUS
  <2>5. Good(g, b, m)'
    BY <1>5, <2>1, <2>3, <2>4
  <2>6. Plan(todo'[th], g, b, m, odd, n)
    BY <2>1, <2>2, <2>3, <2>4
  <2> QED
    BY <1>1, <1>2, <2>1, <2>5, <2>6 DEF Serves
<1>7. CASE /\ Plan(todo'[th], <<>>, <<>>, m, odd, n) /\ refused' = TRUE
           /\ \/ Cardinality(BalanceRows(t.user, t.lot)) # 1
              \/ \E r \in BalanceRows(t.user, t.lot) : t.sum <= 0 /\ -t.sum > r.quantity
  <2>1. odd
    <3>1. ~odd => /\ Cardinality(BalanceRows(t.user, t.lot)) = 1
                  /\ \A r \in BalanceRows(t.user, t.lot) :
                        ~(t.sum <= 0 /\ -t.sum > r.quantity)
      BY <1>1, <1>3, <1>4, ChangeCovered DEF t
    <3> QED
      BY <1>7, <3>1
  <2>2. RowsGood(<<>>)'
    BY <1>1, <1>3, RowsAtThrow DEF t
  <2>3. BookGood(<<>>, <<>>, m)'
    <3>1. ~Listed(<<>>)
      BY <1>2, NothingPlanned, ListedIsPlacing
    <3>2. NoneClash(Opened)
      BY <1>3, BookIsNotCrossed
    <3> QED
      BY <1>2, <3>1, <3>2, NothingComes, BookUnread
  <2>4. Good(<<>>, <<>>, m)'
    BY <1>1, <1>7, <2>1, <2>2, <2>3 DEF Good
  <2> QED
    BY <1>1, <1>2, <1>7, <2>1, <2>4 DEF Serves
<1> QED
  BY <1>1, <1>6, <1>7 DEF t

\* A task on rows is done: the orders to be added and deleted are the same.
LEMMA RowTask ==
    ASSUME NEW T, NEW f \in Seq(T), f # <<>>, Head(f).do \notin {"add_order", "del_order"}
    PROVE  /\ \A o : Has(Tail(f), AddsOrder(o)) <=> Has(f, AddsOrder(o))
           /\ \A id : Has(Tail(f), DeletesOrder(id)) <=> Has(f, DeletesOrder(id))
<1>1. \A x : Has(f, x) <=> x = Head(f) \/ Has(Tail(f), x)
  BY HasHead
<1>2. \A o, id : AddsOrder(o) # Head(f) /\ DeletesOrder(id) # Head(f)
  BY DEF AddsOrder, DeletesOrder
<1> QED
  BY <1>1, <1>2

\* The row that was read is removed.
LEMMA DelRowServes ==
    ASSUME Data, NEW th \in Threads, NEW f, NEW b, NEW m, m = my[th],
           Plan(todo[th], f, b, m, odd, Len(users)), Good(f, b, m), DelRow(th)
    PROVE  Serves(th)
<1> DEFINE g == Tail(f)
<1>1. /\ UNCHANGED <<users, lotPk, orders, orderPk, undone, odd, refused, my>> /\ failed' = failed
      /\ Plan(todo'[th], g, b, m, odd, Len(users)) /\ f # <<>> /\ f \in Seq(Ops(odd, Len(users)))
      /\ Head(f).do = "del_row" /\ userLots' = {r \in userLots : r.pk # Head(f).pk}
  BY DelRowPlan
<1>2. RowsGood(f) /\ BookGood(f, b, m)
  BY DEF Good
<1>3. /\ ~refused => UndoneGood(f) /\ LotGood(f) /\ TradeGood(f)
      /\ ~odd => UserGood(f, b, m)
  BY DEF Good, MoneyGood
<1>4. /\ \A o : Has(g, AddsOrder(o)) <=> Has(f, AddsOrder(o))
      /\ \A id : Has(g, DeletesOrder(id)) <=> Has(f, DeletesOrder(id))
  BY <1>1, RowTask
<1>5. RowsGood(g)'
  BY <1>1, <1>2, RowsAtDelRow
<1>6. BookGood(g, b, m)'
  BY <1>1, <1>2, <1>4, BookSame
<1>u. ASSUME ~odd PROVE UserGood(g, b, m)'
  <2>1. UserGood(f, b, m)
    BY <1>3, <1>u
  <2> QED
    BY <1>1, <2>1, UserAtDelRow
<1>7. ASSUME ~refused PROVE MoneyGood(g)'
  <2>1. UndoneGood(f) /\ LotGood(f) /\ TradeGood(f)
    BY <1>3, <1>7
  <2>2. UndoneGood(g)'
    BY <1>1, <1>4, <2>1, UndoneSame
  <2>4. LotGood(g)'
    BY <1>1, <2>1, LotAtDelRow
  <2>5. ClosedSame
    BY <1>1, ClosedUnchanged
  <2>6. TradeGood(g)'
    BY <1>1, <2>1, <2>5, TradeAtTask
  <2> QED
    BY <2>2, <2>4, <2>6 DEF MoneyGood
<1>8. Good(g, b, m)'
  BY <1>1, <1>5, <1>6, <1>7, <1>u DEF Good
<1> QED
  BY <1>1, <1>8 DEF Serves

\* A row is added.
LEMMA AddRowServes ==
    ASSUME Data, NEW th \in Threads, NEW f, NEW b, NEW m, m = my[th],
           Plan(todo[th], f, b, m, odd, Len(users)), Good(f, b, m), AddRow(th)
    PROVE  Serves(th)
<1> DEFINE g == Tail(f)
<1>1. PICK pk : pk = lotPk + 1
  OBVIOUS
<1>2. /\ UNCHANGED <<users, orders, orderPk, undone, odd, refused, my>> /\ failed' = failed
      /\ Plan(todo'[th], g, b, m, odd, Len(users)) /\ f # <<>> /\ f \in Seq(Ops(odd, Len(users)))
      /\ Head(f).do = "add_row" /\ userLots' = userLots \cup {Row(pk, Head(f))}
      /\ Row(pk, Head(f)) \notin userLots
  BY <1>1, AddRowPlan
<1>3. pk \notin {r.pk : r \in userLots}
  <2>1. lotPk \in Nat
    BY DEF Data
  <2>2. \A r \in userLots : r.pk \in Nat /\ r.pk <= lotPk
    BY RowFields
  <2> QED
    BY <1>1, <2>1, <2>2
<1>4. RowsGood(f) /\ BookGood(f, b, m)
  BY DEF Good
<1>5. /\ ~refused => UndoneGood(f) /\ LotGood(f) /\ TradeGood(f)
      /\ ~odd => UserGood(f, b, m)
  BY DEF Good, MoneyGood
<1>6. /\ \A o : Has(g, AddsOrder(o)) <=> Has(f, AddsOrder(o))
      /\ \A id : Has(g, DeletesOrder(id)) <=> Has(f, DeletesOrder(id))
  BY <1>2, RowTask
<1>7. RowsGood(g)'
  BY <1>2, <1>4, RowsAtAddRow
<1>8. BookGood(g, b, m)'
  BY <1>2, <1>4, <1>6, BookSame
<1>u. ASSUME ~odd PROVE UserGood(g, b, m)'
  <2>1. UserGood(f, b, m)
    BY <1>5, <1>u
  <2> QED
    BY <1>2, <1>3, <1>4, <2>1, UserAtAddRow
<1>9. ASSUME ~refused PROVE MoneyGood(g)'
  <2>1. UndoneGood(f) /\ LotGood(f) /\ TradeGood(f)
    BY <1>5, <1>9
  <2>2. UndoneGood(g)'
    BY <1>2, <1>6, <2>1, UndoneSame
  <2>4. LotGood(g)'
    BY <1>2, <1>4, <2>1, LotAtAddRow
  <2>5. ClosedSame
    BY <1>2, ClosedUnchanged
  <2>6. TradeGood(g)'
    BY <1>2, <2>1, <2>5, TradeAtTask
  <2> QED
    BY <2>2, <2>4, <2>6 DEF MoneyGood
<1>10. Good(g, b, m)'
  BY <1>2, <1>7, <1>8, <1>9, <1>u DEF Good
<1> QED
  BY <1>2, <1>10 DEF Serves

\* An order is added.
LEMMA AddOrderServes ==
    ASSUME Data, NEW th \in Threads, NEW f, NEW b, NEW m, m = my[th],
           Plan(todo[th], f, b, m, odd, Len(users)), Good(f, b, m), AddOrder(th)
    PROVE  Serves(th)
<1> DEFINE g == Tail(f)
<1>1. PICK id : id = orderPk + 1
  OBVIOUS
<1>2. /\ UNCHANGED <<users, userLots, lotPk, undone, odd, refused, my>> /\ failed' = failed
      /\ Plan(todo'[th], g, b, m, odd, Len(users)) /\ f # <<>> /\ f \in Seq(Ops(odd, Len(users)))
      /\ Head(f).do = "add_order" /\ orderPk' = id
      /\ orders' = orders \cup {WithId(Head(f).order, id)}
      /\ \A o \in orders \cup undone : o.id # id
  BY <1>1, AddOrderPlan
<1>3. id \in Nat
  BY <1>1 DEF Data
<1>4. RowsGood(f) /\ BookGood(f, b, m)
  BY DEF Good
<1>5. /\ ~refused => UndoneGood(f) /\ LotGood(f) /\ TradeGood(f)
      /\ ~odd => UserGood(f, b, m)
  BY DEF Good, MoneyGood
<1>6. RowsGood(g)'
  BY <1>2, <1>4, RowsAtOrder
<1>7. BookGood(g, b, m)'
  BY <1>2, <1>3, <1>4, BookAtAddOrder
<1>u. ASSUME ~odd PROVE UserGood(g, b, m)'
  <2>1. UserGood(f, b, m)
    BY <1>5, <1>u
  <2> QED
    BY <1>2, <2>1, UserAtOrder
<1>8. ASSUME ~refused PROVE MoneyGood(g)'
  <2>1. UndoneGood(f) /\ LotGood(f) /\ TradeGood(f)
    BY <1>5, <1>8
  <2>2. UndoneGood(g)'
    BY <1>1, <1>2, <2>1, UndoneAtAddOrder
  <2>4. LotGood(g)'
    BY <1>1, <1>2, <2>1, LotAtAddOrder
  <2>5. TradeGood(g)'
    BY <1>1, <1>2, <2>1, TradeAtAddOrder
  <2> QED
    BY <2>2, <2>4, <2>5 DEF MoneyGood
<1>9. Good(g, b, m)'
  BY <1>2, <1>6, <1>7, <1>8, <1>u DEF Good
<1> QED
  BY <1>2, <1>9 DEF Serves

\* An order is deleted.
LEMMA DelOrderServes ==
    ASSUME Data, NEW th \in Threads, NEW f, NEW b, NEW m, m = my[th],
           Plan(todo[th], f, b, m, odd, Len(users)), Good(f, b, m), DelOrder(th)
    PROVE  Serves(th)
<1> DEFINE g == Tail(f)
<1>1. /\ UNCHANGED <<users, userLots, lotPk, orderPk, undone, odd, refused, my>> /\ failed' = failed
      /\ Plan(todo'[th], g, b, m, odd, Len(users)) /\ f # <<>> /\ f \in Seq(Ops(odd, Len(users)))
      /\ Head(f).do = "del_order" /\ orders' = {o \in orders : o.id # Head(f).id}
  BY DelOrderPlan
<1>2. RowsGood(f) /\ BookGood(f, b, m)
  BY DEF Good
<1>3. /\ ~refused => UndoneGood(f) /\ LotGood(f) /\ TradeGood(f)
      /\ ~odd => UserGood(f, b, m)
  BY DEF Good, MoneyGood
<1>4. RowsGood(g)'
  BY <1>1, <1>2, RowsAtOrder
<1>5. BookGood(g, b, m)'
  BY <1>1, <1>2, BookAtDelOrder
<1>u. ASSUME ~odd PROVE UserGood(g, b, m)'
  <2>1. UserGood(f, b, m)
    BY <1>3, <1>u
  <2> QED
    BY <1>1, <2>1, UserAtOrder
<1>6. ASSUME ~refused PROVE MoneyGood(g)'
  <2>1. UndoneGood(f) /\ LotGood(f) /\ TradeGood(f)
    BY <1>3, <1>6
  <2>2. UndoneGood(g)'
    BY <1>1, <2>1, UndoneAtDelOrder
  <2>4. LotGood(g)'
    BY <1>1, <2>1, LotAtDelOrder
  <2>5. TradeGood(g)'
    BY <1>1, <2>1, TradeAtDelOrder
  <2> QED
    BY <2>2, <2>4, <2>5 DEF MoneyGood
<1>7. Good(g, b, m)'
  BY <1>1, <1>4, <1>5, <1>6, <1>u DEF Good
<1> QED
  BY <1>1, <1>7 DEF Serves

\* The reverse orders are read.
LEMMA ReadServes ==
    ASSUME Data, NEW th \in Threads, NEW f, NEW b,
           Plan(todo[th], f, b, my[th], odd, Len(users)), Good(f, b, my[th]), ReadReverse(th)
    PROVE  Serves(th)
<1>a. f = <<>>
  <2>1. Doing(th, "match")
    BY DEF ReadReverse, history
  <2>2. "match" \notin OpKinds
    BY DEF OpKinds
  <2> QED
    BY <2>1, <2>2, BackTask
<1>b. UNCHANGED <<db, undone, odd, refused, my, sem>>
  BY ReadReversePlan, Zenon
<1>c. failed' = failed /\ Placing(b)
  BY ReadReversePlan, Zenon
<1>d. \E c : Plan(todo'[th], <<>>, c, my[th], odd, Len(users)) /\ Reads(c, my[th])
  BY ReadReversePlan, Zenon
<1>e. PICK m : m = my[th]
  OBVIOUS
<1>1. /\ UNCHANGED <<db, undone, odd, refused, my>> /\ failed' = failed /\ f = <<>> /\ Placing(b)
      /\ Good(<<>>, b, m) /\ my'[th] = m
      /\ \E c : Plan(todo'[th], <<>>, c, m, odd, Len(users)) /\ Reads(c, m)
  BY <1>a, <1>b, <1>c, <1>d, <1>e
<1>2. PICK c : Plan(todo'[th], <<>>, c, m, odd, Len(users)) /\ Reads(c, m)
  BY <1>1
<1>3. users' = users /\ orders' = orders
  BY <1>1 DEF db
<1>4. BookGood(<<>>, c, m)'
  BY <1>1, <1>2, <1>3, BookAtRead DEF Good
<1>5. Good(<<>>, c, m)'
  BY <1>1, <1>4, GoodAtRest
<1> QED
  BY <1>1, <1>2, <1>3, <1>5 DEF Serves

\* A deal, and what is left of the client's order.
LEMMA DealGood ==
    ASSUME Data, NEW b \in Seq(Waits(odd, Len(users))), b # <<>>, NEW m \in Orders(odd, Len(users)),
           Ends(b, m, odd, Len(users)), b[1].do = "consider", NEW o \in Orders(odd, Len(users)),
           o = b[1].order, Placing(b), ~m.closed, Good(<<>>, b, m), UNCHANGED <<db, undone, odd, refused>>,
           o.user # m.user, IsProfit(m, o), NEW c, NEW x,
           c = <<>> \/ (c = Tail(b) /\ Left(m, o) \in Nat \ {0} /\ x = Part(m, Left(m, o)))
    PROVE  Good(Deal(m, o), c, x)'
<1> DEFINE n == Len(users)
           g == Deal(m, o)
<1>1. n \in Nat /\ UNCHANGED <<users, userLots, orders, orderPk>>
  BY UsersLength DEF db
<1>2. RowsGood(<<>>) /\ BookGood(<<>>, b, m)
  BY DEF Good
<1>3. NoRows(g)
  BY <1>1, CallsHaveNoRows
<1>4. o \in Opened /\ IsReverse(m, o)
  <2>1. 1 \in 1..Len(b) /\ Listed(b)
    <3>1. 1 \in 1..Len(b)
      OBVIOUS
    <3> QED
      BY <3>1 DEF Ends, Listed
  <2>2. o \in Kept(<<>>) /\ IsReverse(m, o)
    BY <1>2, <2>1 DEF BookGood, Faced
  <2> QED
    BY <2>2 DEF Kept
<1>5. \/ c = <<>>
      \/ c = Tail(b) /\ Left(m, o) # 0 /\ x = Part(m, Left(m, o)) /\ x \in Orders(odd, n)
  BY <1>1, PartFields
<1>6. RowsGood(g)'
  BY <1>1, <1>2, <1>3, RowsAtDecision
<1>7. BookGood(g, c, x)'
  BY <1>1, <1>2, <1>5, BookAtDeal
<1>u. ASSUME ~odd PROVE UserGood(g, c, x)'
  <2>1. UserGood(<<>>, b, m)
    BY <1>u DEF Good, MoneyGood
  <2>3. UserGood(g, c, x)'
    <3>1. ASSUME NEW u \in 1..n, NEW l \in Lots, NEW a \in Nat, NEW e \in Nat,
                 Path(Nat, UserFlow(odd, n, u, l), <<>>, a, e), Placing(b) => Debit(u, l, m) <= e
          PROVE  \E i \in Nat : /\ Path(Nat, UserFlow(odd, n, u, l), g, a, i)
                                /\ Placing(c) => Debit(u, l, x) <= i
      <4>1. Debit(u, l, m) <= a
        BY <3>1, PathEnd
      <4>2. \E i \in Nat : /\ Path(Nat, UserFlow(odd, n, u, l), g, a, i)
                           /\ Left(m, o) # 0 => Debit(u, l, Part(m, Left(m, o))) <= i
        BY <1>u, <1>1, <1>4, <4>1, UserDeal
      <4>3. c = <<>> => ~Placing(c)
        BY <1>1, NothingPlanned
      <4> HIDE DEF g
      <4> QED
        BY <1>5, <4>2, <4>3
    <3> HIDE DEF g
    <3> QED
      BY <1>1, <1>3, <2>1, <3>1, NoRowsInNothing, UserAtDecision
  <2> QED
    BY <2>3
<1>8. ASSUME ~refused PROVE MoneyGood(g)'
  <2>1. UndoneGood(<<>>) /\ LotGood(<<>>) /\ TradeGood(<<>>)
    BY <1>8 DEF Good, MoneyGood
  <2>2. UndoneGood(g)'
    BY <1>1, <1>4, <2>1, UndoneAtDeal
  <2>4. LotGood(g)'
    BY <1>1, <1>4, <2>1, LotAtDeal
  <2>5. TradeGood(g)'
    BY <1>1, <1>4, <2>1, TradeAtDeal
  <2> QED
    BY <2>2, <2>4, <2>5 DEF MoneyGood
<1> HIDE DEF g
<1>9. Good(g, c, x)'
  BY <1>6, <1>7, <1>8, <1>u DEF Good
<1> QED
  BY <1>9 DEF g

\* The next reverse order is passed over, or traded with.
LEMMA ConsiderServes ==
    ASSUME Data, NEW th \in Threads, NEW f, NEW b,
           Plan(todo[th], f, b, my[th], odd, Len(users)), Good(f, b, my[th]), Consider(th)
    PROVE  Serves(th)
<1>a. f = <<>>
  <2>1. Doing(th, "consider")
    BY DEF Consider, history
  <2>2. "consider" \notin OpKinds
    BY DEF OpKinds
  <2> QED
    BY <2>1, <2>2, BackTask
<1>b. UNCHANGED <<db, undone, odd, refused, sem>>
  BY ConsiderPlan, Zenon
<1>c. /\ failed' = failed /\ b # <<>> /\ b \in Seq(Waits(odd, Len(users)))
      /\ Ends(b, my[th], odd, Len(users)) /\ b[1].do = "consider"
      /\ b[1].order \in Orders(odd, Len(users)) /\ Placing(b)
      /\ my[th] \in Orders(odd, Len(users)) /\ ~my[th].closed
  BY ConsiderPlan, Zenon
<1>d. \/ /\ b[1].order.user = my[th].user \/ ~IsProfit(my[th], b[1].order)
         /\ my'[th] = my[th] /\ Plan(todo'[th], <<>>, Tail(b), my[th], odd, Len(users))
      \/ /\ b[1].order.user # my[th].user /\ IsProfit(my[th], b[1].order)
         /\ Left(my[th], b[1].order) = 0
         /\ Plan(todo'[th], Deal(my[th], b[1].order), <<>>, my'[th], odd, Len(users))
      \/ /\ b[1].order.user # my[th].user /\ IsProfit(my[th], b[1].order)
         /\ Left(my[th], b[1].order) \in Nat \ {0}
         /\ my'[th] = Part(my[th], Left(my[th], b[1].order))
         /\ Plan(todo'[th], Deal(my[th], b[1].order), Tail(b), my'[th], odd, Len(users))
  BY ConsiderPlan, Zenon
<1>e. PICK m : m = my[th]
  OBVIOUS
<1> DEFINE n == Len(users)
           o == b[1].order
<1>1. /\ UNCHANGED <<db, undone, odd, refused>> /\ failed' = failed /\ f = <<>>
      /\ b # <<>> /\ b \in Seq(Waits(odd, n)) /\ Ends(b, m, odd, n) /\ b[1].do = "consider"
      /\ o \in Orders(odd, n) /\ Placing(b) /\ m \in Orders(odd, n) /\ ~m.closed /\ Good(<<>>, b, m)
      /\ \/ /\ o.user = m.user \/ ~IsProfit(m, o)
            /\ my'[th] = m /\ Plan(todo'[th], <<>>, Tail(b), m, odd, n)
         \/ /\ o.user # m.user /\ IsProfit(m, o) /\ Left(m, o) = 0
            /\ Plan(todo'[th], Deal(m, o), <<>>, my'[th], odd, n)
         \/ /\ o.user # m.user /\ IsProfit(m, o) /\ Left(m, o) \in Nat \ {0}
            /\ my'[th] = Part(m, Left(m, o))
            /\ Plan(todo'[th], Deal(m, o), Tail(b), my'[th], odd, n)
  BY <1>a, <1>b, <1>c, <1>d, <1>e
<1>2. users' = users /\ orders' = orders /\ n \in Nat
  BY <1>1, UsersLength DEF db
<1>3. PICK x : x = my'[th]
  OBVIOUS
<1>4. CASE /\ o.user = m.user \/ ~IsProfit(m, o)
           /\ my'[th] = m /\ Plan(todo'[th], <<>>, Tail(b), m, odd, n)
  <2>1. BookGood(<<>>, Tail(b), m)'
    <3>1. BookGood(<<>>, b, m)
      BY <1>1 DEF Good
    <3> QED
      BY <1>1, <1>2, <1>4, <3>1, BookAtSkip
  <2>2. Good(<<>>, Tail(b), m)'
    BY <1>1, <2>1, GoodAtRest
  <2> QED
    BY <1>1, <1>2, <1>4, <2>2 DEF Serves
<1>5. CASE /\ o.user # m.user /\ IsProfit(m, o) /\ Left(m, o) = 0
           /\ Plan(todo'[th], Deal(m, o), <<>>, my'[th], odd, n)
  <2>1. Good(Deal(m, o), <<>>, x)'
    BY <1>1, <1>5, DealGood
  <2> QED
    BY <1>1, <1>2, <1>3, <1>5, <2>1 DEF Serves
<1>6. CASE /\ o.user # m.user /\ IsProfit(m, o) /\ Left(m, o) \in Nat \ {0}
           /\ my'[th] = Part(m, Left(m, o))
           /\ Plan(todo'[th], Deal(m, o), Tail(b), my'[th], odd, n)
  <2>1. Left(m, o) \in Nat \ {0} /\ x = Part(m, Left(m, o))
    BY <1>3, <1>6
  <2>2. Good(Deal(m, o), Tail(b), x)'
    BY <1>1, <1>6, <2>1, DealGood
  <2> QED
    BY <1>1, <1>2, <1>3, <1>6, <2>2 DEF Serves
<1> QED
  BY <1>1, <1>4, <1>5, <1>6

\* What is left of the client's order is placed.
LEMMA PlaceServes ==
    ASSUME Data, NEW th \in Threads, NEW f, NEW b,
           Plan(todo[th], f, b, my[th], odd, Len(users)), Good(f, b, my[th]), Place(th)
    PROVE  Serves(th)
<1> DEFINE n == Len(users)
<1>a. f = <<>>
  <2>1. Doing(th, "place")
    BY DEF Place, history
  <2>2. "place" \notin OpKinds
    BY DEF OpKinds
  <2> QED
    BY <2>1, <2>2, BackTask
<1>b. UNCHANGED <<db, undone, odd, refused, my, sem>>
  BY PlacePlan, Zenon
<1>c. /\ failed' = failed /\ b[1].do = "place" /\ Placing(b) /\ Len(b) = 1
      /\ my[th] \in Orders(odd, n) /\ ~my[th].closed
  <2>1. failed' = failed /\ Len(b) = 1
    BY PlacePlan, Zenon
  <2>2. b[1].do = "place" /\ Placing(b)
    BY PlacePlan, Zenon
  <2>3. my[th] \in Orders(odd, n) /\ ~my[th].closed
    BY PlacePlan, Zenon
  <2> QED
    BY <2>1, <2>2, <2>3
<1>d. Plan(todo'[th], CreateOrder(my[th]), <<>>, my[th], odd, n)
  BY PlacePlan, Zenon
<1>e. PICK m : m = my[th]
  OBVIOUS
<1> DEFINE g == CreateOrder(m)
<1>1. /\ UNCHANGED <<db, undone, odd, refused, my>> /\ failed' = failed /\ f = <<>>
      /\ b[1].do = "place" /\ Placing(b) /\ Len(b) = 1 /\ m \in Orders(odd, n) /\ ~m.closed
      /\ Plan(todo'[th], g, <<>>, m, odd, n) /\ Good(<<>>, b, m) /\ my'[th] = m
  BY <1>a, <1>b, <1>c, <1>d, <1>e
<1>2. n \in Nat /\ UNCHANGED <<users, userLots, orders, orderPk>>
  BY <1>1, UsersLength DEF db
<1>3. RowsGood(<<>>) /\ BookGood(<<>>, b, m)
  BY <1>1 DEF Good
<1>4. NoRows(g)
  BY <1>1, <1>2, CallsHaveNoRows
<1>5. RowsGood(g)'
  BY <1>1, <1>3, <1>4, RowsAtDecision
<1>6. BookGood(g, <<>>, m)'
  BY <1>1, <1>2, <1>3, BookAtPlace
<1>7. \A id : Has(g, DeletesOrder(id)) <=> Has(<<>>, DeletesOrder(id))
  <2>1. \A t : Has(g, t) <=> t \in {AddsOrder(m), Change(m.user, LockLot(m), -Locked(m))}
    BY <1>1, <1>2, CreateOrderHas
  <2>2. \A id : DeletesOrder(id) \notin {AddsOrder(m), Change(m.user, LockLot(m), -Locked(m))}
    BY DEF AddsOrder, DeletesOrder, Change
  <2> HIDE DEF g
  <2> QED
    BY <2>1, <2>2, NothingComes
<1>u. ASSUME ~odd PROVE UserGood(g, <<>>, m)'
  <2>1. UserGood(<<>>, b, m)
    BY <1>1, <1>u DEF Good, MoneyGood
  <2>3. UserGood(g, <<>>, m)'
    <3>1. ASSUME NEW u \in 1..n, NEW l \in Lots, NEW a \in Nat, NEW e \in Nat,
                 Path(Nat, UserFlow(odd, n, u, l), <<>>, a, e), Placing(b) => Debit(u, l, m) <= e
          PROVE  \E i \in Nat : Path(Nat, UserFlow(odd, n, u, l), g, a, i)
      <4>1. Debit(u, l, m) <= a
        BY <1>1, <3>1, PathEnd
      <4>2. Path(Nat, UserFlow(odd, n, u, l), g, a, a - Debit(u, l, m))
        BY <1>u, <1>1, <1>2, <4>1, UserCreate
      <4>3. a - Debit(u, l, m) \in Nat
        BY <1>u, <1>1, <4>1, DebitsAreNumbers
      <4> QED
        BY <4>2, <4>3
    <3>2. ~Placing(<<>>)
      BY <1>2, NothingPlanned
    <3> HIDE DEF g
    <3> QED
      BY <1>1, <1>2, <1>4, <2>1, <3>1, <3>2, NoRowsInNothing, UserAtDecision
  <2> QED
    BY <2>3
<1>8. ASSUME ~refused PROVE MoneyGood(g)'
  <2>1. UndoneGood(<<>>) /\ LotGood(<<>>) /\ TradeGood(<<>>)
    BY <1>1, <1>8 DEF Good, MoneyGood
  <2>2. UndoneGood(g)'
    BY <1>1, <1>2, <1>7, <2>1, UndoneSame
  <2>4. LotGood(g)'
    BY <1>1, <1>2, <2>1, LotAtPlace
  <2>5. TradeGood(g)'
    BY <1>1, <1>2, <2>1, TradeAtPlace
  <2> QED
    BY <2>2, <2>4, <2>5 DEF MoneyGood
<1> HIDE DEF g
<1>9. Good(g, <<>>, m)'
  BY <1>1, <1>5, <1>6, <1>8, <1>u DEF Good
<1> QED
  BY <1>1, <1>2, <1>9 DEF Serves

\* The order that the client cancels is given back.
LEMMA CancelGood ==
    ASSUME Data, NEW b, NEW m, Good(<<>>, b, m), NEW o \in orders,
           UNCHANGED <<db, odd, refused>>,
           undone' = undone \cup {p \in {o} : p.closed}, NEW c, NEW x, ~Placing(c)
    PROVE  Good(DeleteOrder(o), c, x)'
<1> DEFINE n == Len(users)
           g == DeleteOrder(o)
<1>1. n \in Nat /\ o \in Orders(odd, n) /\ UNCHANGED <<users, userLots, orders, orderPk>>
  BY UsersLength DEF Data, TypeOK, db
<1>2. RowsGood(<<>>) /\ NoneClash(Opened)
  BY BookIsNotCrossed DEF Good
<1>3. NoRows(g)
  BY <1>1, CallsHaveNoRows
<1>4. RowsGood(g)'
  BY <1>2, <1>3, RowsAtDecision
<1>5. BookGood(g, c, x)'
  <2>1. \A t : Has(g, t) <=> t \in {Change(o.user, LockLot(o), Locked(o)), DeletesOrder(o.id)}
    BY <1>1, DeleteOrderHas
  <2>2. \A p : AddsOrder(p) \notin {Change(o.user, LockLot(o), Locked(o)), DeletesOrder(o.id)}
    BY DEF AddsOrder, DeletesOrder, Change
  <2> HIDE DEF g
  <2>3. \A p : ~Has(g, AddsOrder(p))
    BY <2>1, <2>2
  <2>4. ~Listed(c)
    BY ListedIsPlacing
  <2> QED
    BY <1>1, <1>2, <2>3, <2>4, BookUnread
<1>u. ASSUME ~odd PROVE UserGood(g, c, x)'
  <2>1. UserGood(<<>>, b, m)
    BY <1>u DEF Good, MoneyGood
  <2>3. UserGood(g, c, x)'
    <3>1. ASSUME NEW u \in 1..n, NEW l \in Lots, NEW a \in Nat
          PROVE  \E i \in Nat : Path(Nat, UserFlow(odd, n, u, l), g, a, i)
      <4>1. Path(Nat, UserFlow(odd, n, u, l), g, a, a + Debit(u, l, o))
        BY <1>u, <1>1, UserDelete
      <4>2. a + Debit(u, l, o) \in Nat
        BY <1>u, <1>1, DebitsAreNumbers
      <4> QED
        BY <4>1, <4>2
    <3> HIDE DEF g
    <3> QED
      BY <1>1, <1>3, <2>1, <3>1, NoRowsInNothing, UserAtDecision
  <2> QED
    BY <2>3
<1>6. ASSUME ~refused PROVE MoneyGood(g)'
  <2>1. UndoneGood(<<>>) /\ LotGood(<<>>) /\ TradeGood(<<>>)
    BY <1>6 DEF Good, MoneyGood
  <2>2. UndoneGood(g)'
    BY <1>1, <2>1, UndoneAtCancel
  <2>4. LotGood(g)'
    BY <1>1, <2>1, LotAtCancel
  <2>5. TradeGood(g)'
    BY <1>1, <2>1, TradeAtCancel
  <2> QED
    BY <2>2, <2>4, <2>5 DEF MoneyGood
<1> HIDE DEF g
<1>7. Good(g, c, x)'
  BY <1>4, <1>5, <1>6, <1>u DEF Good
<1> QED
  BY <1>7 DEF g

\* The order is found, or the client is refused before anything is done.
LEMMA FindServes ==
    ASSUME Data, NEW th \in Threads, NEW f, NEW b,
           Plan(todo[th], f, b, my[th], odd, Len(users)), Good(f, b, my[th]), FindOrder(th)
    PROVE  Serves(th)
<1>a. f = <<>>
  <2>1. Doing(th, "find_order")
    BY DEF FindOrder, history
  <2>2. "find_order" \notin OpKinds
    BY DEF OpKinds
  <2> QED
    BY <2>1, <2>2, BackTask
<1>b. UNCHANGED <<db, my, odd, refused, sem>>
  BY FindOrderPlan, Zenon
<1>c. my[th] = NoOrder /\ ~Placing(Tail(b))
  BY FindOrderPlan, Zenon
<1>d. \/ \E o \in orders :
            /\ undone' = undone \cup {p \in {o} : p.closed} /\ failed' = failed
            /\ Plan(todo'[th], DeleteOrder(o), Tail(b), my[th], odd, Len(users))
      \/ /\ undone' = undone /\ failed' = failed \cup {th} /\ todo'[th] = <<>>
         /\ Plan(todo'[th], <<>>, <<>>, my[th], odd, Len(users))
  BY FindOrderPlan, Zenon
<1>e. PICK m : m = my[th]
  OBVIOUS
<1>1. /\ UNCHANGED <<db, odd, refused>> /\ my'[th] = m /\ m = NoOrder /\ ~Placing(Tail(b)) /\ Good(<<>>, b, m)
      /\ users' = users
  BY <1>a, <1>b, <1>c, <1>e DEF db
<1>2. ASSUME NEW o \in orders, undone' = undone \cup {p \in {o} : p.closed}, failed' = failed,
             Plan(todo'[th], DeleteOrder(o), Tail(b), my[th], odd, Len(users))
      PROVE  Serves(th)
  <2>1. Good(DeleteOrder(o), Tail(b), m)'
    BY <1>1, <1>2, CancelGood
  <2> QED
    BY <1>1, <1>2, <1>e, <2>1 DEF Serves
<1>3. CASE /\ undone' = undone /\ failed' = failed \cup {th}
           /\ Plan(todo'[th], <<>>, <<>>, my[th], odd, Len(users))
  <2>1. ~Placing(<<>>)
    BY UsersLength, NothingPlanned
  <2>2. Good(<<>>, <<>>, m)'
    BY <1>1, <1>3, <2>1, GoodAside
  <2> QED
    BY <1>1, <1>3, <1>e, <2>2 DEF Serves
<1> QED
  BY <1>2, <1>3, <1>d

\* Whatever the connection does.
LEMMA WorkServes ==
    ASSUME Data, NEW th \in Threads, NEW f, NEW b,
           Plan(todo[th], f, b, my[th], odd, Len(users)), Good(f, b, my[th]), Work(th)
    PROVE  Serves(th)
<1>1. PICK m : m = my[th]
  OBVIOUS
<1>2. Plan(todo[th], f, b, m, odd, Len(users)) /\ Good(f, b, m)
  BY <1>1
<1>3. CASE CheckName(th)
  BY <1>1, <1>2, <1>3, CheckNameServes
<1>4. CASE AddUser(th)
  BY <1>1, <1>2, <1>4, AddUserServes
<1>5. CASE ChangeBalance(th)
  BY <1>1, <1>2, <1>5, ChangeServes
<1>6. CASE DelRow(th)
  BY <1>1, <1>2, <1>6, DelRowServes
<1>7. CASE AddRow(th)
  BY <1>1, <1>2, <1>7, AddRowServes
<1>8. CASE AddOrder(th)
  BY <1>1, <1>2, <1>8, AddOrderServes
<1>9. CASE DelOrder(th)
  BY <1>1, <1>2, <1>9, DelOrderServes
<1>10. CASE ReadReverse(th)
  BY <1>10, ReadServes
<1>11. CASE Consider(th)
  BY <1>11, ConsiderServes
<1>12. CASE Place(th)
  BY <1>12, PlaceServes
<1>13. CASE FindOrder(th)
  BY <1>13, FindServes
<1> QED
  BY <1>3, <1>4, <1>5, <1>6, <1>7, <1>8, <1>9, <1>10, <1>11, <1>12, <1>13 DEF Work

\* Until two connections write at the same time: the one at work leaves all in
\* order, as it is when nobody works, and no change of a balance was refused
\* before an odd order was posted.
SafeInv ==
    ~overlapped =>
        /\ \A th \in Sema!Writers : Working(th)
        /\ Sema!Writers = {} => Good(<<>>, <<>>, NoOrder)
        /\ ~odd => ~refused

\* There is nothing yet, and all is in order.
LEMMA SafeInit == Init => SafeInv
<1> SUFFICES ASSUME Init PROVE SafeInv
  OBVIOUS
<1>1. Data /\ LockInv
  BY TypeInit DEF TypeInv
<1>2. users = <<>> /\ userLots = {} /\ orders = {} /\ orderPk = 0 /\ undone = {} /\ ~refused
  BY DEF Init
<1>3. Len(users) = 0
  BY <1>2
<1>4. RowsGood(<<>>)
  <2>1. AllRows
    BY <1>3 DEF AllRows
  <2> QED
    BY <2>1, NoRowsInNothing DEF RowsGood, RowsThere
<1>5. BookGood(<<>>, <<>>, NoOrder)
  <2>1. Opened \cup Coming(<<>>) = {}
    BY <1>2, NothingComes DEF Opened, Coming
  <2>2. ~Placing(<<>>) /\ ~Listed(<<>>)
    BY DEF Placing, Listed
  <2> QED
    BY <2>1, <2>2 DEF BookGood, NoneClash
<1>6. UndoneGood(<<>>)
  BY <1>2, NothingComes DEF UndoneGood
<1>7. UserGood(<<>>, <<>>, NoOrder)
  BY <1>3 DEF UserGood
<1>8. LotGood(<<>>)
  <2>1. ASSUME NEW l \in Lots PROVE Path(Int, LotFlow(odd, Len(users), l), <<>>, LotWorth(l, <<>>), 0)
    <3>1. RowsIn(l, <<>>) = {} /\ HeldIn(l, <<>>) = {} /\ UndoneIn(l) = {}
      BY <1>2 DEF RowsIn, LiveRows, HeldIn, Kept, Opened, UndoneIn
    <3>2. Amount({}, "quantity") = 0 /\ Amount({}, "locked") = 0
      BY AmountEmpty
    <3>3. DefaultQuantity * Len(users) = 0
      BY <1>3, AmountsAreNumbers
    <3>4. LotWorth(l, <<>>) = LotSum(Len(users), {}, {}, {})
      BY <3>1 DEF LotWorth
    <3>5. LotSum(Len(users), {}, {}, {}) = 0
      BY <3>2, <3>3 DEF LotSum
    <3> QED
      BY <3>4, <3>5, PathNone
  <2> QED
    BY <2>1 DEF LotGood
<1>9. TradeGood(<<>>)
  <2>1. ASSUME NEW k PROVE TradeWorth(k) = 0
    <3>1. \A type : Closed(type) = {}
      BY <1>2 DEF Closed
    <3>2. \A i : Amount({}, i) = 0
      BY AmountEmpty
    <3> QED
      BY <3>1, <3>2 DEF TradeWorth
  <2>2. \A D : Path(Int, D, <<>>, 0, 0)
    BY PathNone
  <2> QED
    BY <2>1, <2>2 DEF TradeGood
<1>10. Good(<<>>, <<>>, NoOrder)
  BY <1>4, <1>5, <1>6, <1>7, <1>8, <1>9 DEF Good, MoneyGood
<1>11. Sema!Writers = {}
  <2>1. \A th \in Threads : phase[th] = "idle"
    BY DEF Init, Sema!Init
  <2> QED
    BY <1>1, <2>1, WritersHold
<1> QED
  BY <1>2, <1>10, <1>11, Zenon DEF SafeInv

\* A request begins while nobody works.
LEMMA SafeAtBegin ==
    ASSUME TypeInv, LockInv, SafeInv, NEW th \in Threads, NEW first, NEW tasks,
           Begins(th, first, tasks)
    PROVE  SafeInv'
<1>1. Data
  BY DEF TypeInv
<1>2. /\ Begin(th, first, tasks) /\ tasks \in Seq(Waits(odd', Len(users)))
      /\ Ends(tasks, first, odd', Len(users)) /\ (odd => odd') /\ odd' \in BOOLEAN
  BY DEF Begins
<1>3. /\ LockInv' /\ UNCHANGED <<db, failed, undone, refused>> /\ my'[th] = first
      /\ Plan(todo'[th], <<>>, tasks, my'[th], odd', Len(users))
      /\ \A o \in Threads \ {th} : todo'[o] = todo[o] /\ my'[o] = my[o]
      /\ th \notin Sema!Writers /\ th \in Sema!Writers'
      /\ overlapped' = (overlapped \/ Sema!Writers # {})
  BY <1>1, <1>2, BeginPlan
<1>4. SUFFICES ASSUME ~overlapped'
               PROVE  /\ \A o \in Sema!Writers' : Working(o)'
                      /\ Sema!Writers' # {}
                      /\ ~odd' => ~refused'
  BY DEF SafeInv
<1>5. ~overlapped /\ Sema!Writers = {} /\ Good(<<>>, <<>>, NoOrder) /\ (~odd => ~refused)
  BY <1>3, <1>4 DEF SafeInv
<1>6. UNCHANGED <<users, userLots, orders, orderPk>>
  BY <1>3 DEF db
<1>7. \A o \in Sema!Writers' : o = th
  BY <1>3, <1>4 DEF LockInv
<1>8. Good(<<>>, tasks, first)'
  <2>1. CASE ~Placing(tasks) /\ odd' = odd
    BY <1>1, <1>3, <1>5, <2>1, GoodAside
  <2>2. CASE /\ tasks = <<[do |-> "match"]>> /\ first \in Orders(odd', Len(users))
             /\ odd' \/ CanPay(first)
    <3>1. RowsGood(<<>>) /\ NoneClash(Opened)
      BY <1>5, BookIsNotCrossed DEF Good
    <3>2. RowsGood(<<>>)'
      BY <1>1, <1>3, <3>1, NoRowsInNothing, RowsAtDecision
    <3>3. ~Listed(tasks)
      BY <2>2 DEF Listed
    <3>4. BookGood(<<>>, tasks, first)'
      BY <1>6, <3>1, <3>3, NothingComes, BookUnread
    <3>5. ASSUME ~refused PROVE MoneyGood(<<>>)'
      <4>1. UndoneGood(<<>>) /\ LotGood(<<>>) /\ TradeGood(<<>>)
        BY <1>5, <3>5 DEF Good, MoneyGood
      <4>2. UndoneGood(<<>>)'
        BY <1>3, <1>6, <4>1, UndoneSame
      <4>3. LotGood(<<>>)' /\ TradeGood(<<>>)'
        BY <1>1, <1>3, <1>6, <4>1, LotAtRest, TradeAtRest
      <4> QED
        BY <4>2, <4>3 DEF MoneyGood
    <3>6. ASSUME ~odd' PROVE UserGood(<<>>, tasks, first)'
      <4>1. ~odd /\ odd' = odd
        BY <1>1, <1>2, <3>6 DEF Data, TypeOK
      <4>2. UserGood(<<>>, <<>>, NoOrder)
        BY <1>5, <4>1 DEF Good
      <4>3. first \in Orders(odd, Len(users)) /\ CanPay(first)
        BY <2>2, <3>6, <4>1
      <4> QED
        BY <1>1, <1>6, <3>1, <4>1, <4>2, <4>3, UserAtPost
    <3> QED
      BY <1>3, <3>2, <3>4, <3>5, <3>6 DEF Good
  <2> QED
    BY <2>1, <2>2 DEF Begins
<1>9. Working(th)'
  BY <1>3, <1>6, <1>8 DEF Working
<1> QED
  BY <1>2, <1>3, <1>5, <1>7, <1>9

\* The connection at work takes a step.
LEMMA SafeAtWork ==
    ASSUME TypeInv, LockInv, SafeInv, NEW th \in Threads, Work(th)
    PROVE  SafeInv'
<1>1. Data
  BY DEF TypeInv
<1>2. PICK f, b : Plan(todo[th], f, b, my[th], odd, Len(users))
  BY DEF TypeInv
<1>3. /\ LockInv' /\ UNCHANGED overlapped /\ th \in Sema!Writers /\ Sema!Writers' = Sema!Writers
      /\ \A o \in Threads \ {th} : my'[o] = my[o]
  BY <1>1, <1>2, WorkPlan
<1>4. SUFFICES ASSUME ~overlapped
               PROVE  /\ \A o \in Sema!Writers : Working(o)'
                      /\ ~odd' => ~refused'
  BY <1>3 DEF SafeInv
<1>5. \A o \in Sema!Writers : o = th
  BY <1>3, <1>4 DEF LockInv
<1>6. PICK g, c : Plan(todo[th], g, c, my[th], odd, Len(users)) /\ Good(g, c, my[th])
  BY <1>3, <1>4 DEF SafeInv, Working
<1>7. Serves(th)
  BY <1>1, <1>6, WorkServes
<1>8. Working(th)'
  BY <1>7 DEF Serves, Working
<1>9. ~odd' => ~refused'
  BY <1>4, <1>7 DEF SafeInv, Serves
<1> QED
  BY <1>5, <1>8, <1>9

\* It is done, and all is in order.
LEMMA SafeAtAnswer ==
    ASSUME TypeInv, LockInv, SafeInv, NEW th \in Threads, Answer(th)
    PROVE  SafeInv'
<1>1. Data
  BY DEF TypeInv
<1>2. PICK f, b : Plan(todo[th], f, b, my[th], odd, Len(users))
  BY DEF TypeInv
<1>3. /\ UNCHANGED <<db, undone, odd, refused, overlapped>> /\ failed' = failed \ {th}
      /\ \A o \in Threads \ {th} : my'[o] = my[o]
      /\ th \in Sema!Writers /\ Sema!Writers' = Sema!Writers \ {th}
  BY <1>1, <1>2, AnswerPlan
<1>4. SUFFICES ASSUME ~overlapped
               PROVE  Sema!Writers' = {} /\ Good(<<>>, <<>>, NoOrder)'
  BY <1>3 DEF SafeInv
<1>5. Sema!Writers' = {}
  BY <1>3, <1>4 DEF LockInv
<1>6. PICK g, c : Plan(todo[th], g, c, my[th], odd, Len(users)) /\ Good(g, c, my[th])
  BY <1>3, <1>4 DEF SafeInv, Working
<1>7. g = <<>>
  BY <1>1, <1>6, LockInv, AnswerPlan
<1>8. ~Placing(<<>>)
  BY DEF Placing
<1>9. Good(<<>>, <<>>, NoOrder)'
  BY <1>1, <1>3, <1>6, <1>7, <1>8, GoodAside
<1> QED
  BY <1>5, <1>9

\* The invariant is inductive.
LEMMA SafeStep == TypeInv /\ LockInv /\ SafeInv /\ [Next]_vars => SafeInv'
<1> SUFFICES ASSUME TypeInv, LockInv, SafeInv, [Next]_vars PROVE SafeInv'
  OBVIOUS
<1>1. ASSUME NEW th \in Threads, ThreadNext(th) PROVE SafeInv'
  <2>1. CASE \/ \E name \in Names : PostUser(th, name)
             \/ \E o \in ClientOrders : PostOrder(th, o)
             \/ \E user \in 1..Len(users) : \E id \in 1..orderPk : CancelOrder(th, user, id)
    <3>1. \E first, tasks : Begins(th, first, tasks)
      BY <2>1, RequestBegins DEF TypeInv
    <3> QED
      BY <3>1, SafeAtBegin
  <2>2. CASE Work(th)
    BY <2>2, SafeAtWork
  <2>3. CASE Answer(th)
    BY <2>3, SafeAtAnswer
  <2> QED
    BY <1>1, <2>1, <2>2, <2>3 DEF ThreadNext
<1>2. CASE UNCHANGED vars
  <2>1. UNCHANGED <<db, undone, odd, refused>> /\ UNCHANGED <<todo, my, failed, users, overlapped, phase, want>>
    BY <1>2 DEF vars, db, local, history, sem
  <2>2. Sema!Writers' = Sema!Writers
    BY <2>1 DEF Sema!Writers, Sema!Holders
  <2>3. \A f, b, m : Good(f, b, m) => Good(f, b, m)'
    BY <2>1, GoodStays
  <2>4. \A th : Working(th) => Working(th)'
    BY <2>1, <2>3 DEF Working
  <2> QED
    BY <2>1, <2>2, <2>3, <2>4 DEF SafeInv
<1> QED
  BY <1>1, <1>2 DEF Next

-----------------------------------------------------------------------------
(* The theorems.                                                           *)

\* Nobody works when nobody holds the semaphore.
LEMMA RestIsQuiet ==
    ASSUME LockInv, AtRest
    PROVE  Sema!Writers = {}
<1>1. \A th \in Threads : phase[th] # "holding"
  BY DEF AtRest
<1> QED
  BY <1>1, WritersHold

\* The row that is looked up is there, once.
LEMMA LookupFindsOne ==
    ASSUME TypeInv, LockInv, SafeInv, ~overlapped
    PROVE  OneBalanceRow
<1>1. Data
  BY DEF TypeInv
<1>2. ASSUME NEW th \in Threads, Doing(th, "change"), Task(th).lot \in Lots
      PROVE  Cardinality(BalanceRows(Task(th).user, Task(th).lot)) = 1
  <2>1. th \in Sema!Writers
    BY <1>2 DEF Doing
  <2>2. PICK f, b : Plan(todo[th], f, b, my[th], odd, Len(users)) /\ Good(f, b, my[th])
    BY <2>1 DEF SafeInv, Working
  <2>3. "change" \in OpKinds
    BY DEF OpKinds
  <2>4. /\ f # <<>> /\ Head(f) \in Ops(odd, Len(users)) /\ Head(f) = Task(th)
        /\ Head(f).do = "change" /\ Len(users) \in Nat /\ f \in Seq(Ops(odd, Len(users)))
    BY <1>1, <1>2, <2>2, <2>3, FrontTask
  <2>5. AllRows
    <3>1. RowsGood(f)
      BY <2>2 DEF Good
    <3> QED
      BY <1>1, <2>4, <3>1, RowCases
  <2>6. Task(th).user \in 1..Len(users) /\ Task(th).lot \in Lots
    BY <1>2, <2>4, OpsAreOps
  <2>7. PICK r : BalanceRows(Task(th).user, Task(th).lot) = {r}
    BY <2>5, <2>6 DEF AllRows, OneRow
  <2> QED
    BY <2>7, FS_Singleton
<1> QED
  BY <1>2 DEF OneBalanceRow

\* The book at rest is not crossed.
LEMMA RestHasNoClash ==
    ASSUME TypeInv, LockInv, SafeInv, ~overlapped
    PROVE  NoCrossedBook
<1>1. ASSUME AtRest PROVE NoneClash(Opened)
  <2>1. Good(<<>>, <<>>, NoOrder)
    BY <1>1, RestIsQuiet DEF SafeInv
  <2> QED
    BY <2>1, BookIsNotCrossed DEF Good
<1>2. ASSUME AtRest, NEW s \in Open("sell"), NEW b \in Open("buy"), s.user # b.user,
             s.pair = b.pair
      PROVE  s.price > b.price
  <2>1. s \in Opened /\ b \in Opened /\ s.type = "sell" /\ b.type = "buy"
    BY DEF Open, Opened
  <2>2. ~(s.price <= b.price)
    BY <1>1, <1>2, <2>1 DEF NoneClash, Clash
  <2>3. s.price \in Int /\ b.price \in Int
    <3>1. Data
      BY DEF TypeInv
    <3> QED
      BY <2>1, <3>1, OpenedOrders, OrderFields
  <2> QED
    BY <2>2, <2>3
<1> QED
  BY <1>2 DEF NoCrossedBook

\* The sums at rest.
LEMMA RestConserves ==
    ASSUME TypeInv, LockInv, SafeInv, ~overlapped, ~refused
    PROVE  Conservation
<1>1. Data
  BY DEF TypeInv
<1>2. ASSUME AtRest, NEW l \in Lots
      PROVE  Total({r \in userLots : r.lot = l}, LAMBDA r : r.quantity)
               + Total({o \in orders : ~o.closed /\ LockLot(o) = l}, Locked)
             = DefaultQuantity * Len(users) + Total({o \in undone : LockLot(o) = l}, Locked)
  <2> DEFINE R == {r \in userLots : r.lot = l}
             K == {o \in orders : ~o.closed /\ LockLot(o) = l}
             U == {o \in undone : LockLot(o) = l}
  <2>1. LotGood(<<>>)
    <3>1. Good(<<>>, <<>>, NoOrder)
      BY <1>2, RestIsQuiet DEF SafeInv
    <3> QED
      BY <3>1 DEF Good, MoneyGood
  <2>2. LotWorth(l, <<>>) = 0
    <3>1. Path(Int, LotFlow(odd, Len(users), l), <<>>, LotWorth(l, <<>>), 0)
      BY <2>1 DEF LotGood
    <3> QED
      BY <3>1, PathEnd
  <2>3. \A t : ~Has(<<>>, t)
    BY DEF Has
  <2>4. RowsIn(l, <<>>) = R /\ HeldIn(l, <<>>) = K /\ UndoneIn(l) = U
    BY <2>3 DEF RowsIn, LiveRows, HeldIn, Kept, Opened, UndoneIn
  <2>5. Measured(R, "quantity") /\ Measured(K, "locked") /\ Measured(U, "locked")
    BY <1>1, <2>4, LotMeasured
  <2>6. DefaultQuantity * Len(users) \in Int
    BY <1>1, LotMeasured
  <2>7. LotSum(Len(users), R, K, U) = 0
    BY <2>2, <2>4 DEF LotWorth
  <2> HIDE DEF R, K, U
  <2>8. /\ Amount(R, "quantity") \in Int /\ Amount(K, "locked") \in Int
        /\ Amount(U, "locked") \in Int
    BY <2>5, AmountInt
  <2>9. Amount(R, "quantity") + Amount(K, "locked")
           = DefaultQuantity * Len(users) + Amount(U, "locked")
    BY <2>6, <2>7, <2>8 DEF LotSum
  <2>10. /\ Total(R, LAMBDA r : r.quantity) = Amount(R, "quantity")
         /\ Total(K, Locked) = Amount(K, "locked")
         /\ Total(U, Locked) = Amount(U, "locked")
    BY <2>5, TotalQuantity, TotalLocked DEF Total, MapThenSumSet, MapThenFoldSet
  <2>11. Total(R, LAMBDA r : r.quantity) + Total(K, Locked)
           = DefaultQuantity * Len(users) + Total(U, Locked)
    BY <2>9, <2>10
  <2> QED
    BY <2>11 DEF R, K, U
<1> QED
  BY <1>2 DEF Conservation

\* The closed orders at rest.
LEMMA RestBalances ==
    ASSUME TypeInv, LockInv, SafeInv, ~overlapped, ~refused
    PROVE  TradesBalance
<1> DEFINE S == Closed("sell")
           B == Closed("buy")
<1>1. Data
  BY DEF TypeInv
<1>2. SUFFICES ASSUME AtRest
               PROVE  /\ Total(S, LAMBDA o : o.quantity) = Total(B, LAMBDA o : o.quantity)
                      /\ Total(S, Gain) = Total(B, Locked)
  <2>1. Sales = S /\ Purchases = B
    BY DEF Sales, Purchases, Closed, Side
  <2> QED
    BY <2>1 DEF TradesBalance
<1>3. /\ Measured(S, "quantity") /\ Measured(B, "quantity")
      /\ Measured(S, "gain") /\ Measured(B, "locked")
  BY <1>1, TradeMeasured
<1>4. \A k \in {"traded", "paid"} : TradeWorth(k) = 0
  <2>1. Good(<<>>, <<>>, NoOrder)
    BY <1>2, RestIsQuiet DEF SafeInv
  <2>2. TradeGood(<<>>)
    BY <2>1 DEF Good, MoneyGood
  <2> QED
    BY <2>2, PathEnd DEF TradeGood
<1>5. /\ Amount(S, "quantity") \in Int /\ Amount(B, "quantity") \in Int
      /\ Amount(S, "gain") \in Int /\ Amount(B, "locked") \in Int
  BY <1>3, AmountInt
<1>6. TradeWorth("traded") = Amount(S, "quantity") - Amount(B, "quantity")
  BY DEF TradeWorth, SaleMeasure, PurchaseMeasure
<1>7. TradeWorth("paid") = Amount(S, "gain") - Amount(B, "locked")
  BY DEF TradeWorth, SaleMeasure, PurchaseMeasure
<1> HIDE DEF S, B
<1>8. Amount(S, "quantity") = Amount(B, "quantity") /\ Amount(S, "gain") = Amount(B, "locked")
  <2>1. TradeWorth("traded") = 0 /\ TradeWorth("paid") = 0
    BY <1>4
  <2> QED
    BY <1>5, <1>6, <1>7, <2>1
<1>9. /\ Total(S, LAMBDA o : o.quantity) = Amount(S, "quantity")
      /\ Total(B, LAMBDA o : o.quantity) = Amount(B, "quantity")
      /\ Total(S, Gain) = Amount(S, "gain") /\ Total(B, Locked) = Amount(B, "locked")
  BY <1>3, TotalQuantity, TotalGain, TotalLocked DEF Total, MapThenSumSet, MapThenFoldSet
<1> QED
  BY <1>8, <1>9

\* The inductive invariant: the types, the semaphore, and that the one
\* connection at work leaves everything in order.
LEMMA AllIsInOrder == Spec => [](TypeInv /\ LockInv /\ SafeInv)
<1>1. Init => TypeInv /\ LockInv /\ SafeInv
  BY TypeInit, SafeInit
<1>2. TypeInv /\ LockInv /\ SafeInv /\ [Next]_vars => TypeInv' /\ LockInv' /\ SafeInv'
  BY TypeStep, SafeStep
<1> QED
  BY <1>1, <1>2, PTL DEF Spec

\* A balance that is looked up for a change is there, once, until two requests
\* that write have overlapped (get_one, crypto.h:95).
THEOREM BalanceRowsUnique == Spec => [](~overlapped => OneBalanceRow)
<1>1. TypeInv /\ LockInv /\ SafeInv => (~overlapped => OneBalanceRow)
  BY LookupFindsOne
<1> QED
  BY <1>1, AllIsInOrder, PTL

\* When nobody works, no two open orders of different users could trade, until
\* two requests that write have overlapped: post_order meets every reverse
\* order it could trade with before it places what is left.
THEOREM BookNeverCrossed == Spec => [](~overlapped => NoCrossedBook)
<1>1. TypeInv /\ LockInv /\ SafeInv => (~overlapped => NoCrossedBook)
  BY RestHasNoClash
<1> QED
  BY <1>1, AllIsInOrder, PTL

\* While every client posts what it can pay for, with no negative number in it,
\* no change of a balance is refused, neither the client's own nor that of the
\* owner of an order it meets, until two requests that write have overlapped.
THEOREM PayingClientsServed == Spec => [](~overlapped => PayingClientServed)
<1>1. TypeInv /\ LockInv /\ SafeInv => (~overlapped => PayingClientServed)
  BY DEF SafeInv, PayingClientServed
<1> QED
  BY <1>1, AllIsInOrder, PTL

\* No value appears or disappears in any lot, but for the cancellation of
\* closed orders, whatever the pairs, types and numbers of the orders, negative
\* ones included, until a change of a balance is refused or two requests that
\* write have overlapped.
THEOREM ValueConserved == Spec => [](~overlapped => Conservation)
<1>1. TypeInv /\ LockInv /\ SafeInv => (~overlapped => Conservation)
  BY RestConserves DEF Conservation
<1> QED
  BY <1>1, AllIsInOrder, PTL

\* Every closed sale has its purchase, in quantity and in money, whatever the
\* pairs, types and numbers of the orders, until a change of a balance is
\* refused or two requests that write have overlapped.
THEOREM SalesMatchPurchases == Spec => [](~overlapped => TradesBalance)
<1>1. TypeInv /\ LockInv /\ SafeInv => (~overlapped => TradesBalance)
  BY RestBalances DEF TradesBalance
<1> QED
  BY <1>1, AllIsInOrder, PTL

\* A server with one connection at a time never overlaps: the five hold there
\* without that condition, as the run crypto_sequential checks them.
THEOREM OneConnectionIsSafe ==
    ASSUME NEW c, Threads = {c}
    PROVE  Spec => [](/\ OneBalanceRow /\ NoCrossedBook
                      /\ PayingClientServed /\ Conservation /\ TradesBalance)
<1> DEFINE Together == TypeInv /\ LockInv /\ SafeInv
           Claim == /\ OneBalanceRow /\ NoCrossedBook
                    /\ PayingClientServed /\ Conservation /\ TradesBalance
<1>1. Init => ~overlapped
  BY DEF Init, Sema!Init
<1>2. Together /\ ~overlapped /\ [Next]_vars => ~overlapped'
  <2> SUFFICES ASSUME Together, ~overlapped, [Next]_vars PROVE ~overlapped'
    OBVIOUS
  <2>1. Data
    BY DEF TypeInv
  <2>2. ASSUME NEW th \in Threads, ThreadNext(th) PROVE ~overlapped'
    <3>1. PICK f, b : Plan(todo[th], f, b, my[th], odd, Len(users))
      BY DEF TypeInv
    <3>2. CASE \/ \E name \in Names : PostUser(th, name)
               \/ \E o \in ClientOrders : PostOrder(th, o)
               \/ \E user \in 1..Len(users) : \E id \in 1..orderPk : CancelOrder(th, user, id)
      <4>1. PICK first, tasks : Begins(th, first, tasks)
        BY <2>1, <3>2, RequestBegins
      <4>2. th \notin Sema!Writers /\ overlapped' = (overlapped \/ Sema!Writers # {})
        BY <2>1, <4>1, BeginPlan DEF Begins
      <4>3. Sema!Writers = {}
        BY <4>2, WritersHold
      <4> QED
        BY <4>2, <4>3
    <3>3. CASE Work(th)
      BY <2>1, <3>1, <3>3, WorkPlan
    <3>4. CASE Answer(th)
      BY <2>1, <3>1, <3>4, AnswerPlan
    <3> QED
      BY <2>2, <3>2, <3>3, <3>4 DEF ThreadNext
  <2>3. CASE UNCHANGED vars
    BY <2>3 DEF vars, sem
  <2> QED
    BY <2>2, <2>3 DEF Next
<1>3. Together /\ ~overlapped => Claim
  BY LookupFindsOne, RestHasNoClash, RestConserves, RestBalances
     DEF SafeInv, PayingClientServed, Conservation, TradesBalance
<1>4. Spec => []Together
  BY AllIsInOrder
<1> HIDE DEF Together, Claim
<1>5. Spec => []Claim
  BY <1>1, <1>2, <1>3, <1>4, PTL DEF Spec
<1> QED
  BY <1>5 DEF Claim

=============================================================================
