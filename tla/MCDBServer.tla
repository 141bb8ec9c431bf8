----------------------------- MODULE MCDBServer -----------------------------
(***************************************************************************)
(* TLC's runs of DBServer: two connections, one of which goes on after its *)
(* first answer.                                                           *)
(***************************************************************************)
EXTENDS DBServer

TwoClients == {"c1", "c2"}
TwoThenOne == [c \in TwoClients |-> IF c = "c1" THEN 2 ELSE 1]
=============================================================================
