--------------------------- MODULE ReadWriteLock ---------------------------
(***************************************************************************)
(* What the lock of a table promises to its users: any number of readers,  *)
(* or one writer, and never both.  Nothing is said about how a client      *)
(* waits, in which order clients are served, or what is stored on disk:    *)
(* module TableLock implements this specification.                         *)
(***************************************************************************)
CONSTANT Guards      \* the clients of the lock

VARIABLES readers,   \* the guards that hold it for reading
          writers    \* the guards that hold it for writing

rwVars == <<readers, writers>>

RWTypeOK == readers \subseteq Guards /\ writers \subseteq Guards

RWInit == readers = {} /\ writers = {}

AcquireRead(g) ==
    /\ g \notin readers
    /\ writers = {}
    /\ readers' = readers \cup {g}
    /\ UNCHANGED writers

AcquireWrite(g) ==
    /\ readers = {} /\ writers = {}
    /\ writers' = {g}
    /\ UNCHANGED readers

Release(g) ==
    /\ g \in readers \cup writers
    /\ readers' = readers \ {g}
    /\ writers' = writers \ {g}

\* The process dies: whatever was held is gone with its holders.
Vanish == readers' = {} /\ writers' = {}

RWNext ==
    \/ \E g \in Guards : AcquireRead(g) \/ AcquireWrite(g) \/ Release(g)
    \/ Vanish

RWSpec == RWInit /\ [][RWNext]_rwVars

\* A writer is alone: it excludes every reader and every other writer.
RWExclusion ==
    /\ writers # {} => readers = {}
    /\ \A g, h \in writers : g = h
=============================================================================
