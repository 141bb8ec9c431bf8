----------------------------- MODULE TableLock -----------------------------
(***************************************************************************)
(* The lock of one table: class TState (database/table/table_state.cpp), a *)
(* monitor made of a mutex and one condition variable, and TStateGuard,    *)
(* the object whose constructor takes the lock and whose destructor gives  *)
(* it back.  The unit of concurrency is the guard, not the thread: a       *)
(* SELECT that names a table twice owns two guards of it.                  *)
(*                                                                         *)
(* Each monitor function holds the mutex from its first to its last line,  *)
(* except while it sleeps in cv.wait, so a step of the model is what one   *)
(* guard does between taking the mutex and releasing it or sleeping.  The  *)
(* mode is also kept in the table's lock file, from which a restarted      *)
(* server reads it back.                                                   *)
(***************************************************************************)
EXTENDS Naturals, FiniteSets

CONSTANTS Guards,    \* the TStateGuard objects of the table
          Faults     \* the faults considered: "crash", "io"

ASSUME GuardsFinite == IsFiniteSet(Guards)
ASSUME FaultsKnown  == Faults \subseteq {"crash", "io"}

VARIABLES mode,      \* TState::mode_
          readerCnt, \* TState::readerCnt
          lockFile,  \* the mode written in <table>_lock
          phase,     \* what each guard is doing
          want       \* the mode each guard was constructed for

vars == <<mode, readerCnt, lockFile, phase, want>>

Mode  == {"free", "reading", "writing"}

\* "parked": asleep in cv.wait; "woken": notified, the predicate not yet
\* evaluated again; "holding": constructed and not yet destroyed.
Phase == {"idle", "parked", "woken", "holding"}

TypeOK ==
    /\ mode \in Mode
    /\ readerCnt \in 0..Cardinality(Guards)
    /\ lockFile \in Mode
    /\ phase \in [Guards -> Phase]
    /\ want \in [Guards -> {"reading", "writing"}]

Holders(m) == {g \in Guards : phase[g] = "holding" /\ want[g] = m}
Readers    == Holders("reading")
Writers    == Holders("writing")
Parked     == {g \in Guards : phase[g] = "parked"}
Woken      == {g \in Guards : phase[g] = "woken"}

-----------------------------------------------------------------------------
\* Mutations used to test the properties.
MutCanEnterWriters(m) == mode # "writing"
MutCanEnterReaders(m) == IF m = "reading" THEN TRUE ELSE mode = "free"
MutNoNotify(ph)       == phase' = ph
MutRestoredMode       == "free"

\* The predicates of the two cv.wait calls.
CanEnter(m) == IF m = "reading" THEN mode # "writing" ELSE mode = "free"

\* cv.notify_one(): one sleeping guard, if there is one, wakes up.
NotifyOne(ph) ==
    IF \E g \in Guards : ph[g] = "parked"
    THEN \E g \in Guards : ph[g] = "parked" /\ phase' = [ph EXCEPT ![g] = "woken"]
    ELSE phase' = ph

Decremented(n) == n - 1

\* What TState::TState reads back from the lock file of an existing table.
RestoredMode == lockFile

Init ==
    /\ mode = "free"
    /\ readerCnt = 0
    /\ lockFile = "free"
    /\ phase = [g \in Guards |-> "idle"]
    /\ want = [g \in Guards |-> "reading"]

\* The rest of reading_start / writing_start once the predicate holds: only
\* the first reader writes the file.
Enter(g, m) ==
    /\ CanEnter(m)
    /\ mode' = m
    /\ lockFile' = IF m = "reading" /\ mode = "reading" THEN lockFile ELSE m
    /\ readerCnt' = IF m = "reading" THEN readerCnt + 1 ELSE readerCnt
    /\ phase' = [phase EXCEPT ![g] = "holding"]

\* set_mode cannot open the lock file and throws: mode_ is already changed,
\* the reader is not counted, and no guard exists that would undo it.
EnterFails(g, m) ==
    /\ "io" \in Faults
    /\ CanEnter(m) /\ mode = "free"
    /\ mode' = m
    /\ phase' = [phase EXCEPT ![g] = "idle"]
    /\ UNCHANGED <<lockFile, readerCnt>>

Sleep(g, m) ==
    /\ ~CanEnter(m)
    /\ phase' = [phase EXCEPT ![g] = "parked"]
    /\ UNCHANGED <<mode, lockFile, readerCnt>>

\* TStateGuard::TStateGuard: the first pass through the monitor.
Construct(g, m) ==
    /\ phase[g] = "idle"
    /\ want' = [want EXCEPT ![g] = m]
    /\ Enter(g, m) \/ EnterFails(g, m) \/ Sleep(g, m)

\* cv.wait returns to its loop: the predicate is evaluated again.
Recheck(g) ==
    /\ phase[g] = "woken"
    /\ Enter(g, want[g]) \/ EnterFails(g, want[g]) \/ Sleep(g, want[g])
    /\ UNCHANGED want

\* A condition variable may wake a sleeper nobody notified.
SpuriousWakeup(g) ==
    /\ phase[g] = "parked"
    /\ phase' = [phase EXCEPT ![g] = "woken"]
    /\ UNCHANGED <<mode, readerCnt, lockFile, want>>

\* TState::reading_finish: the last reader frees the table.
ReadingFinish(g) ==
    /\ g \in Readers
    /\ readerCnt' = Decremented(readerCnt)
    /\ LET rest == [phase EXCEPT ![g] = "idle"] IN
       IF readerCnt' = 0
       THEN mode' = "free" /\ lockFile' = "free" /\ NotifyOne(rest)
       ELSE phase' = rest /\ UNCHANGED <<mode, lockFile>>
    /\ UNCHANGED want

\* TState::writing_finish; what sync stores is modelled in TableStore.
WritingFinish(g) ==
    /\ g \in Writers
    /\ mode' = "free" /\ lockFile' = "free"
    /\ NotifyOne([phase EXCEPT ![g] = "idle"])
    /\ UNCHANGED <<readerCnt, want>>

\* The server process dies (also: set_mode throws in a guard's destructor,
\* which is std::terminate) and is started again: every guard is gone, the
\* mode is what the file says.
CrashRestart ==
    /\ "crash" \in Faults
    /\ mode' = RestoredMode
    /\ readerCnt' = 0
    /\ phase' = [g \in Guards |-> "idle"]
    /\ UNCHANGED <<lockFile, want>>

GuardNext(g) ==
    \/ \E m \in {"reading", "writing"} : Construct(g, m)
    \/ Recheck(g)
    \/ SpuriousWakeup(g)
    \/ ReadingFinish(g)
    \/ WritingFinish(g)

Next == (\E g \in Guards : GuardNext(g)) \/ CrashRestart

Spec == Init /\ [][Next]_vars

\* A notified thread gets the mutex, and a request that holds the table ends.
\* No fairness of new requests or of spurious wakeups is assumed.
FairSpec ==
    Spec /\ \A g \in Guards : WF_vars(Recheck(g) \/ ReadingFinish(g) \/ WritingFinish(g))

-----------------------------------------------------------------------------
\* The table is never written while somebody else reads or writes it: not by
\* a guard that was woken, not after a failed acquisition, not after a crash.
MutualExclusion ==
    /\ Writers # {} => Readers = {}
    /\ \A g, h \in Writers : g = h

\* reading_finish frees the table exactly when no reader is left: the counter
\* and the set of living reading guards never drift apart.
CountIsReaders == readerCnt = Cardinality(Readers)

\* No wakeup is lost: when the table is free and a guard sleeps, some other
\* guard has been notified and will look at the mode.
NoLostWakeup == (mode = "free" /\ Parked # {}) => Woken # {}

\* The mode is one nobody holds: left by a crash or by a failed set_mode.
OrphanedWriting == mode = "writing" /\ Writers = {}

\* A write mode with no writer is never left again, whatever the clients do:
\* nobody is there to call writing_finish.  Restarting the server helps only
\* when the mode had not reached the lock file.
OrphanIsForever ==
    [][OrphanedWriting => \/ OrphanedWriting'
                          \/ CrashRestart /\ lockFile # "writing"]_vars

\* When no new guard is constructed any more and the mode is never one nobody
\* holds, every sleeping guard gets the table (or dies with the server):
\* notify_one is enough to hand it on.
Orphaned == mode # "free" /\ Readers \cup Writers = {}

EverySleeperServed ==
    (/\ <>[][~ \E g \in Guards : \E m \in {"reading", "writing"} : Construct(g, m)]_vars
     /\ []~Orphaned)
        => \A g \in Guards : (phase[g] = "parked" ~> phase[g] \in {"holding", "idle"})

\* The inductive invariant behind the safety properties: who holds the table
\* determines the mode, also after faults; the converse fails (orphans).
LockInv ==
    /\ TypeOK
    /\ Readers # {} => mode = "reading"
    /\ Writers # {} => mode = "writing"
    /\ \A g, h \in Writers : g = h
    /\ CountIsReaders
    /\ NoLostWakeup

\* The monitor implements the abstract lock.
Abstract == INSTANCE ReadWriteLock WITH readers <- Readers, writers <- Writers
AbstractSpec == Abstract!RWSpec
=============================================================================
