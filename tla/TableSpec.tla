----------------------------- MODULE TableSpec -----------------------------
(***************************************************************************)
(* What a table promises to the requests: it is a sequence of rows in the  *)
(* order of their insertion; INSERT appends one row under a key never used *)
(* before; DELETE removes the rows its condition holds for and no others,  *)
(* and those it leaves stay in their order.  A DELETE that stops half-way, *)
(* on a page that cannot be read, has treated the first rows of the table. *)
(* Columns are data nobody here looks at: a row is its primary key.        *)
(***************************************************************************)
EXTENDS Naturals, Sequences, SequencesExt

VARIABLES rows,    \* the keys of the rows, in the table's order
          lastKey, \* the largest key ever given
          where    \* the rows the running DELETE removes

tableVars == <<rows, lastKey, where>>

TableInit == rows = <<>> /\ lastKey = 0 /\ where = {}

InsertRow ==
    /\ where = {}
    /\ lastKey' = lastKey + 1
    /\ rows' = Append(rows, lastKey')
    /\ UNCHANGED where

AskDelete ==
    /\ where = {}
    /\ where' \in SUBSET {rows[i] : i \in DOMAIN rows}
    /\ UNCHANGED <<rows, lastKey>>

\* A page cannot be read.
StopDelete ==
    /\ \E last \in 0..Len(rows) : where' = where \cap {rows[i] : i \in 1..last}
    /\ UNCHANGED <<rows, lastKey>>

DeleteRows ==
    /\ rows' = FlattenSeq([i \in 1..Len(rows) |->
                             IF rows[i] \in where THEN <<>> ELSE <<rows[i]>>])
    /\ UNCHANGED <<lastKey, where>>

\* A DELETE is over when its rows are gone.
Answer ==
    /\ where \cap {rows[i] : i \in DOMAIN rows} = {}
    /\ where' = {}
    /\ UNCHANGED <<rows, lastKey>>

TableNext == InsertRow \/ AskDelete \/ StopDelete \/ DeleteRows \/ Answer

TableAbstract == TableInit /\ [][TableNext]_tableVars
=============================================================================
