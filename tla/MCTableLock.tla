---------------------------- MODULE MCTableLock ----------------------------
(***************************************************************************)
(* TLC's run of TableLock.  Guards are interchangeable, but the run checks *)
(* liveness too, for which symmetry would not be sound.                    *)
(***************************************************************************)
EXTENDS TableLock

=============================================================================
