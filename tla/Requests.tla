------------------------------ MODULE Requests ------------------------------
(***************************************************************************)
(* Requests that the threads of the database server execute at the same    *)
(* time (database/database.cpp, database/iterators): INSERT, DELETE, ADD   *)
(* TABLE and SELECT over several tables, with a condition, into the answer *)
(* or into another table.                                                  *)
(*                                                                         *)
(* A table is the sequence of its values (TableStore), its lock the two    *)
(* sets of holders (TableLock); INSERT and DELETE, which hold one lock and *)
(* take effect when they give it back, are one step.  A SELECT locks its   *)
(* tables one after the other and keeps them until its iterator is         *)
(* destroyed; a step of it is a step of the iterator.                      *)
(***************************************************************************)
EXTENDS Parser, FiniteSets

CONSTANTS Threads,      \* the threads of the server
          Tables,       \* the tables' names
          Schema,       \* the tables of the schema, which are there at first
          Contents,     \* what is in the tables at first
          Values,       \* the values in the tables
          Requests,     \* what clients may ask as the n-th request, as tokens
          MaxRequests   \* bound: requests altogether

ASSUME TablesFilled == Contents \in [Tables -> Seq(Values)]
ASSUME SchemaTables == Schema \subseteq Tables
ASSUME BoundNat     == MaxRequests \in Nat /\ DOMAIN Requests = 1..MaxRequests

VARIABLES table,    \* the contents of the tables
          width,    \* the catalogue: how many columns each table in it has
          readers,  \* the threads whose guards hold each table for reading
          pc,       \* where each thread stands
          req,      \* its request
          asked,    \* how many requests there were
          at,       \* CrossIterator: the positions of its row iterators
          out,      \* the rows selected so far
          died      \* the process is dead

vars == <<table, width, readers, pc, req, asked, at, out, died>>

Blank   == "blank"     \* the element of a row iterator at its end
Garbage == "garbage"   \* read from a string that is destroyed

NoRequest == [do |-> "nothing"]

Step == {"idle", "refused", "beyond", "lock", "row", "into", "done", "insert", "delete", "add"}

From(th) == req[th].from
Size(th) == Len(From(th))

EndOf(th, i) == Len(table[From(th)[i]]) + 1

TypeOK ==
    /\ table \in [Tables -> Seq(Values \cup {Blank, Garbage})]
    /\ Schema \subseteq DOMAIN width /\ DOMAIN width \subseteq Tables
    /\ readers \in [Tables -> SUBSET Threads]
    /\ pc \in [Threads -> Step]
    /\ asked \in 0..MaxRequests
    /\ died \in BOOLEAN
    /\ \A th \in Threads : pc[th] \in {"row", "into", "done"} =>
          \A i \in 1..Size(th) : at[th][i] \in 1..EndOf(th, i)

-----------------------------------------------------------------------------
(* Locks.                                                                  *)

\* Mutation: a writer does not wait for readers.
MutCanWrite(t) == TRUE

CanWrite(t) == readers[t] = {}

\* Nobody holds a table for writing between two steps.
Read(t, th) == readers' = [readers EXCEPT ![t] = @ \cup {th}]

\* Mutation: the locks are not given back.
MutUnlocked(th) == readers

\* The iterators' guards are destroyed.
Unlocked(th) == [t \in Tables |-> readers[t] \ {th}]

-----------------------------------------------------------------------------
(* CrossIterator and FilterIterator.                                       *)

AtEnd(th, i) == at[th][i] = EndOf(th, i)

\* What the iterator of a table shows; the first one of that name.
Shown(th, t) ==
    IF t \notin ToSet(From(th)) THEN NoValue
    ELSE LET i == CHOOSE i \in 1..Size(th) :
                     From(th)[i] = t /\ \A j \in 1..i - 1 : From(th)[j] # t IN
         IF AtEnd(th, i) THEN Blank ELSE table[t][at[th][i]]

Columns(th) == [i \in DOMAIN req[th].columns |-> TableOf(req[th].columns[i])]

\* get_operand for the words of a condition.
Operands(words, column) ==
    [w \in {v \in ToSet(words) : IsOperand(v)} |->
        IF w[1] = "text" THEN w[2]
        ELSE IF w[1] = "unknown" /\ column[w[2]] # Blank THEN NoValue
        ELSE column[w[2]]]

\* condition_fulfilled: no condition holds for every row.
Fulfilled(th) ==
    IF req[th].tree = Empty THEN "true"
    ELSE Computed(req[th].tree, Operands(req[th].words, [t \in Tables |-> Shown(th, t)]))

\* cross().
Row(th) == [i \in DOMAIN req[th].columns |-> Shown(th, Columns(th)[i])]

\* The iterator operator++ stops at: one that is at its end already, or that
\* has another row.  The ones before it have come to their end.
Stops(th) ==
    {i \in 1..Size(th) : AtEnd(th, i) \/ at[th][i] + 1 # EndOf(th, i)}

StopsAt(th) == CHOOSE i \in Stops(th) : \A j \in Stops(th) : i <= j

\* Mutation: that iterator is not asked whether it is at its end.
MutIsLast(th) == Stops(th) = {}

IsLast(th) == Stops(th) = {} \/ AtEnd(th, StopsAt(th))

NextRow(th) ==
    [i \in 1..Size(th) |-> IF i < StopsAt(th) THEN 1
                           ELSE IF i = StopsAt(th) THEN at[th][i] + 1 ELSE at[th][i]]

\* The request is answered; the locks are free.
Answer(th) ==
    /\ pc' = [pc EXCEPT ![th] = "idle"]
    /\ req' = [req EXCEPT ![th] = NoRequest]
    /\ at' = [at EXCEPT ![th] = <<>>]
    /\ out' = [out EXCEPT ![th] = <<>>]
    /\ readers' = Unlocked(th)

\* CrossIterator's operator++.
Onward(th) ==
    IF IsLast(th) THEN pc' = [pc EXCEPT ![th] = "done"] /\ UNCHANGED at
    ELSE pc' = [pc EXCEPT ![th] = "row"] /\ at' = [at EXCEPT ![th] = NextRow(th)]

-----------------------------------------------------------------------------
(* The threads.                                                            *)

HasColumn(word) == word[1] = "column" /\ width[word[2]] > 0

\* What the parser lets through and has_table and tables_columns_check do too.
Accepted(r) ==
    \/ r.do = "add"
    \/ r.do \in {"insert", "delete"} /\ r.table \in DOMAIN width
    \/ /\ r.do = "select"
       /\ \A c \in ToSet(r.columns) : TableOf(c) \in DOMAIN width /\ HasColumn(c)

FirstStep(r) ==
    IF r.do = "beyond" THEN "beyond"
    ELSE IF ~Accepted(r) THEN "refused"
    ELSE IF r.do = "select" THEN IF r.from = <<>> THEN "row" ELSE "lock" ELSE r.do

\* The parser shares nothing with other threads.
Ask(th) ==
    /\ pc[th] = "idle" /\ asked < MaxRequests
    /\ \E tokens \in Requests[asked + 1] :
          req' = [req EXCEPT ![th] = ("tokens" :> tokens) @@ Understood(tokens)]
    /\ pc' = [pc EXCEPT ![th] = FirstStep(req'[th])]
    /\ asked' = asked + 1
    /\ UNCHANGED <<table, width, readers, at, out, died>>

\* insert_back, as far as it depends on the number of values.
Fits(th) == Len(req[th].values) = width[req[th].table]

Insert(th) ==
    /\ pc[th] = "insert" /\ CanWrite(req[th].table) /\ Fits(th)
    /\ table' = [table EXCEPT ![req[th].table] =
                    Append(@, IF req[th].values = <<>> THEN Blank ELSE req[th].values[1])]
    /\ Answer(th)
    /\ UNCHANGED <<width, asked, died>>

\* add_table: emplace_add leaves a table that is there as it is.
AddTable(th) ==
    /\ pc[th] = "add"
    /\ width' = width @@ (req[th].table :> Len(req[th].columns))
    /\ Answer(th)
    /\ UNCHANGED <<table, asked, died>>

\* condition_fulfilled of DeleteIterator, whose get_operand does not look at
\* the table's name.
Deletes(r, v) ==
    Computed(r.tree, Operands(r.words, [t \in Tables |-> IF width[r.table] = 0 THEN NoValue ELSE v]))

Delete(th) ==
    LET r == req[th] IN
    /\ pc[th] = "delete" /\ CanWrite(r.table)
    /\ \A v \in ToSet(table[r.table]) : Deletes(r, v) \in {"true", "false"}
    /\ table' = [table EXCEPT ![r.table] = SelectSeq(@, LAMBDA v : Deletes(r, v) # "true")]
    /\ Answer(th)
    /\ UNCHANGED <<width, asked, died>>

\* CrossIterator's constructor: a row iterator locks its table and begins at
\* its first row.
Lock(th) ==
    /\ pc[th] = "lock"
    /\ LET i == Len(at[th]) + 1 IN
       /\ Read(From(th)[i], th)
       /\ pc' = [pc EXCEPT ![th] = IF i = Size(th) THEN "row" ELSE "lock"]
    /\ at' = [at EXCEPT ![th] = Append(@, 1)]
    /\ UNCHANGED <<table, width, req, asked, out, died>>

\* validate goes on while the condition does not hold.
Skip(th) ==
    /\ pc[th] = "row" /\ Fulfilled(th) = "false"
    /\ Onward(th)
    /\ UNCHANGED <<table, width, readers, req, asked, out, died>>

\* The row becomes a line of the answer, or is to be inserted.
Select(th) ==
    /\ pc[th] = "row" /\ Fulfilled(th) = "true" /\ NoValue \notin ToSet(Row(th))
    /\ out' = [out EXCEPT ![th] = Append(@, Row(th))]
    /\ IF req[th].into = "" THEN Onward(th)
       ELSE pc' = [pc EXCEPT ![th] = "into"] /\ UNCHANGED at
    /\ UNCHANGED <<table, width, readers, req, asked, died>>

\* sv_split finds one value at least.
Parts(th) == IF req[th].columns = <<>> THEN 1 ELSE Len(req[th].columns)

\* The row is inserted while the iterators keep their locks.  The views of it
\* refer to the string cross() has returned, which is destroyed by now.
InsertInto(th) ==
    /\ pc[th] = "into"
    /\ req[th].into \in DOMAIN width /\ CanWrite(req[th].into)
    /\ Parts(th) = width[req[th].into]
    /\ \E v \in {IF Row(th) = <<>> THEN Blank ELSE Row(th)[1], Garbage} :
          table' = [table EXCEPT ![req[th].into] = Append(@, v)]
    /\ Onward(th)
    /\ UNCHANGED <<width, readers, req, asked, out, died>>

\* An exception: a column of a table that is not in FROM; an INTO without a
\* table, or another number of values than columns, once the table is locked.
Throws(th) ==
    \/ pc[th] = "row" /\ Fulfilled(th) = "throws"
    \/ pc[th] = "row" /\ Fulfilled(th) = "true" /\ NoValue \in ToSet(Row(th))
    \/ pc[th] = "into" /\ req[th].into \notin DOMAIN width
    \/ /\ pc[th] = "into" /\ req[th].into \in DOMAIN width /\ CanWrite(req[th].into)
       /\ Parts(th) # width[req[th].into]
    \/ pc[th] = "insert" /\ CanWrite(req[th].table) /\ ~Fits(th)

Finish(th) ==
    /\ pc[th] \in {"refused", "beyond", "done"} \/ Throws(th)
    /\ Answer(th)
    /\ UNCHANGED <<table, width, asked, died>>

\* The process dies of a null pointer, where an AND or OR has no right or
\* left side, or of an exception that get_operand of DeleteIterator, which is
\* noexcept, lets out; or of a word behind the last one.
Die(th) ==
    /\ \/ pc[th] = "beyond"
       \/ pc[th] = "row" /\ Fulfilled(th) = "dies"
       \/ /\ pc[th] = "delete" /\ CanWrite(req[th].table)
          /\ \E v \in ToSet(table[req[th].table]) : Deletes(req[th], v) \in {"dies", "throws"}
    /\ died' = TRUE
    /\ UNCHANGED <<table, width, readers, pc, req, asked, at, out>>

Init ==
    /\ table = Contents /\ width = [t \in Schema |-> 1]
    /\ readers = [t \in Tables |-> {}]
    /\ pc = [th \in Threads |-> "idle"]
    /\ req = [th \in Threads |-> NoRequest]
    /\ asked = 0
    /\ at = [th \in Threads |-> <<>>] /\ out = [th \in Threads |-> <<>>]
    /\ died = FALSE

Works(th) ==
    /\ ~died
    /\ \/ Insert(th) \/ AddTable(th) \/ Delete(th) \/ Lock(th) \/ Skip(th) \/ Select(th) \/ InsertInto(th)
       \/ Finish(th) \/ Die(th)

Next == \E th \in Threads : (~died /\ Ask(th)) \/ Works(th)

Spec == Init /\ [][Next]_vars

\* Threads that have something to do are run; requests need not come.
FairSpec == Spec /\ \A th \in Threads : WF_vars(Works(th))

-----------------------------------------------------------------------------
(* What SELECT should return: the rows of the product of its tables, the   *)
(* first table's changing fastest, for which the condition holds.          *)

Sizes(th) == [i \in 1..Size(th) |-> Len(table[From(th)[i]])]

\* The positions of the n-th row of the product, counted from 0.
PositionsOf(th, n) ==
    LET below(i) == FoldLeft(LAMBDA a, b : a * b, 1, SubSeq(Sizes(th), 1, i - 1)) IN
    [i \in 1..Size(th) |-> ((n \div below(i)) % Sizes(th)[i]) + 1]

ValueIn(th, pos, t) ==
    IF t \notin ToSet(From(th)) THEN NoValue
    ELSE table[t][pos[CHOOSE i \in 1..Size(th) :
                         From(th)[i] = t /\ \A j \in 1..i - 1 : From(th)[j] # t]]

Product(th) ==
    [n \in 1..FoldLeft(LAMBDA a, b : a * b, 1, Sizes(th)) |-> PositionsOf(th, n - 1)]

Wanted(th) ==
    LET value(pos) == Operands(req[th].words,
                               [t \in Tables |-> ValueIn(th, pos, t)])
        ok == SelectSeq(Product(th), LAMBDA pos : \/ req[th].words = <<>>
                                                  \/ Means(req[th].words, value(pos))) IN
    [n \in DOMAIN ok |-> [i \in DOMAIN req[th].columns |->
                             ValueIn(th, ok[n], Columns(th)[i])]]

\* A SELECT over tables with rows returns what it should, from tables that
\* were all as they are now when it locked the last one, and still are: what
\* others ask for meanwhile does not show.  (Over an empty table the code
\* selects blank rows.)
SelectIsProduct ==
    \A th \in Threads :
        (/\ pc[th] = "done"
         /\ req[th].words = <<>> \/ IsCondition(req[th].words)
         /\ \A i \in 1..Size(th) : Sizes(th)[i] > 0)
            => out[th] = Wanted(th)

\* DELETE removes the rows for which the words of its condition hold, AND
\* before OR, and keeps the others in their order.
DeleteIsExact ==
    [][\A th \in Threads : (Delete(th) /\ IsCondition(req[th].words)) =>
          LET r == req[th] IN
          table'[r.table] = SelectSeq(table[r.table], LAMBDA v :
              ~Means(r.words, Operands(r.words, [t \in Tables |-> v])))]_vars

\* Whoever is refused has asked for something that is no request, or about
\* a table or column that is not there, or for a FROM that does not fit.
RefusedRightly ==
    [][\A th \in Threads : (pc[th] = "idle" /\ pc'[th] = "refused") =>
          LET tokens == req'[th].tokens
              Those(kind) == {w[2] : w \in {v \in ToSet(tokens) : v[1] = kind}}
              FromList == {i \in 4..Len(tokens) : /\ tokens[i][1] = "name"
                                                  /\ tokens[i - 1] # <<"INTO">>} IN
          \/ ~IsRequest(tokens)
          \/ ~(Those("name") \cup Those("column") \subseteq DOMAIN width)
          \/ Those("unknown") # {}
          \/ \E t \in Those("column") : width[t] = 0
          \/ /\ tokens[1] = <<"SELECT">>
             /\ \E i \in FromList : \A j \in 1..i : tokens[j] # <<"column", tokens[i][2]>>]_vars

\* What is executed is what was written: a request is read word for word;
\* where something else is let through, nothing but commas is overlooked, and
\* what follows the values of an INSERT.
UnderstoodAsWritten ==
    [][\A th \in Threads : (pc[th] = "idle" /\ pc'[th] \notin {"idle", "refused", "beyond"}) =>
          LET r == req'[th]
              read == NoCommas(Written(r))
              written == NoCommas(r.tokens) IN
          /\ IsRequest(r.tokens) => Written(r) = r.tokens
          /\ IsPrefix(read, written) /\ (r.do # "insert" => read = written)]_vars

\* SELECTs that wait to insert into tables held by one another, or a SELECT
\* that waits for itself.
IntoCycle ==
    \E ring \in SUBSET Threads \ {{}} : \A x \in ring :
        pc[x] = "into" /\ req[x].into \in DOMAIN width /\ readers[req[x].into] \cap ring # {}

\* Nothing but such a ring of SELECT INTOs keeps a request from its answer,
\* while the process lives: the order in which SELECT takes its locks is safe.
EveryRequestAnswered ==
    [](~IntoCycle /\ ~died) =>
        \A th \in Threads : pc[th] # "idle" ~> pc[th] = "idle"
=============================================================================
