--------------------------- MODULE MCTableStore ---------------------------
(***************************************************************************)
(* TLC's run of TableStore: the process may die at every point.            *)
(***************************************************************************)
EXTENDS TableStore

CrashAnywhere == Op
=============================================================================
