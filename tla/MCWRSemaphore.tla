--------------------------- MODULE MCWRSemaphore ---------------------------
(***************************************************************************)
(* TLC's run of WRSemaphore: four clients, each of which may come as a     *)
(* reader or as a writer every time.                                       *)
(***************************************************************************)
EXTENDS WRSemaphore
=============================================================================
