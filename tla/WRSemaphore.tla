---------------------------- MODULE WRSemaphore ----------------------------
(***************************************************************************)
(* The semaphore the exchange's server shares between its threads: class   *)
(* WRSemaphore (crypto_exchange/write_read_semaphore.h) and the RAII       *)
(* objects WriteLock and ReadLock.  As in TableLock a step is what one     *)
(* thread does while it has the mutex.                                     *)
(*                                                                         *)
(* start_writing waits for the readers only, not for another writer, and   *)
(* finish_writing clears the flag even when a second writer is inside.     *)
(* The module says what the semaphore still guarantees.                    *)
(***************************************************************************)
EXTENDS Naturals, FiniteSets

CONSTANT Clients   \* the threads that use the semaphore

ASSUME ClientsFinite == IsFiniteSet(Clients)

VARIABLES writing,    \* WRSemaphore::writing
          readerCnt,  \* WRSemaphore::readerCnt
          phase,      \* what each client is doing
          want,       \* which lock it constructs or holds
          overlapped  \* history: two writers have been inside at once

vars == <<writing, readerCnt, phase, want, overlapped>>

Phase == {"idle", "parked", "woken", "holding"}

TypeOK ==
    /\ writing \in BOOLEAN
    /\ readerCnt \in 0..Cardinality(Clients)
    /\ phase \in [Clients -> Phase]
    /\ want \in [Clients -> {"reading", "writing"}]
    /\ overlapped \in BOOLEAN

Holders(m) == {c \in Clients : phase[c] = "holding" /\ want[c] = m}
Readers    == Holders("reading")
Writers    == Holders("writing")
Parked     == {c \in Clients : phase[c] = "parked"}
Woken      == {c \in Clients : phase[c] = "woken"}

-----------------------------------------------------------------------------
\* Mutations used to test the properties.
MutCanEnterAny(m)   == TRUE
MutWakeOne(ph)      == IF \E c \in Clients : ph[c] = "parked"
                       THEN [ph EXCEPT ![CHOOSE c \in Clients : ph[c] = "parked"] = "woken"]
                       ELSE ph
MutNotifyNobody(ph) == phase' = ph

\* The predicates of the two cv.wait calls.
CanEnter(m) == IF m = "reading" THEN ~writing ELSE readerCnt = 0

\* cv.notify_one() and cv.notify_all().
NotifyOne(ph) ==
    IF \E c \in Clients : ph[c] = "parked"
    THEN \E c \in Clients : ph[c] = "parked" /\ phase' = [ph EXCEPT ![c] = "woken"]
    ELSE phase' = ph

AllWoken(ph) == [c \in Clients |-> IF ph[c] = "parked" THEN "woken" ELSE ph[c]]

Init ==
    /\ writing = FALSE /\ readerCnt = 0 /\ overlapped = FALSE
    /\ phase = [c \in Clients |-> "idle"]
    /\ want = [c \in Clients |-> "reading"]

\* The rest of start_reading / start_writing once the predicate holds.
Enter(c, m) ==
    /\ CanEnter(m)
    /\ writing' = (writing \/ m = "writing")
    /\ readerCnt' = IF m = "reading" THEN readerCnt + 1 ELSE readerCnt
    /\ overlapped' = (overlapped \/ (m = "writing" /\ Writers # {}))
    /\ phase' = [phase EXCEPT ![c] = "holding"]

Sleep(c, m) ==
    /\ ~CanEnter(m)
    /\ phase' = [phase EXCEPT ![c] = "parked"]
    /\ UNCHANGED <<writing, readerCnt, overlapped>>

\* WriteLock::WriteLock and ReadLock::ReadLock.
Construct(c, m) ==
    /\ phase[c] = "idle"
    /\ want' = [want EXCEPT ![c] = m]
    /\ Enter(c, m) \/ Sleep(c, m)

Recheck(c) ==
    /\ phase[c] = "woken"
    /\ Enter(c, want[c]) \/ Sleep(c, want[c])
    /\ UNCHANGED want

SpuriousWakeup(c) ==
    /\ phase[c] = "parked"
    /\ phase' = [phase EXCEPT ![c] = "woken"]
    /\ UNCHANGED <<writing, readerCnt, want, overlapped>>

\* ~ReadLock: finish_reading.
FinishReading(c) ==
    /\ c \in Readers
    /\ readerCnt' = readerCnt - 1
    /\ LET rest == [phase EXCEPT ![c] = "idle"] IN
       IF readerCnt' = 0 THEN NotifyOne(rest) ELSE phase' = rest
    /\ UNCHANGED <<writing, want, overlapped>>

\* ~WriteLock: finish_writing.
FinishWriting(c) ==
    /\ c \in Writers
    /\ writing' = FALSE
    /\ phase' = AllWoken([phase EXCEPT ![c] = "idle"])
    /\ UNCHANGED <<readerCnt, want, overlapped>>

ClientNext(c) ==
    \/ \E m \in {"reading", "writing"} : Construct(c, m)
    \/ Recheck(c)
    \/ SpuriousWakeup(c)
    \/ FinishReading(c)
    \/ FinishWriting(c)

Next == \E c \in Clients : ClientNext(c)

Spec == Init /\ [][Next]_vars

\* A notified thread gets the mutex, and a request that is inside comes out.
FairSpec ==
    Spec /\ \A c \in Clients : WF_vars(Recheck(c) \/ FinishReading(c) \/ FinishWriting(c))

-----------------------------------------------------------------------------
\* A writer is alone.  Not an invariant of this code.
MutualExclusion ==
    /\ Writers # {} => Readers = {}
    /\ \A c, d \in Writers : c = d

\* It holds for as long as no second writer came in: one overlap of writers,
\* which nothing prevents, is what lets readers in beside a writer later.
ExclusionUntilOverlap == ~overlapped => MutualExclusion

\* A client that is inside for reading is not joined by a writer: the one
\* direction of the exclusion that no interleaving breaks.
ReadersKeepWritersOut == [][Readers # {} => Writers' \subseteq Writers]_vars

\* Whoever sleeps, sleeps because of somebody inside, or somebody notified is
\* about to look again; a sleeping reader always faces a set flag.
NoLostWakeup ==
    /\ Parked # {} => Readers \cup Writers \cup Woken # {}
    /\ \A c \in Parked : want[c] = "reading" => writing

\* When no new lock is constructed any more, every sleeping client gets in.
EverySleeperServed ==
    <>[][~ \E c \in Clients : \E m \in {"reading", "writing"} : Construct(c, m)]_vars
        => \A c \in Clients : (phase[c] = "parked" ~> phase[c] = "holding")

\* The inductive invariant: the flag is never set without a writer, never
\* together with a reader, and is exact until writers overlap.
SemInv ==
    /\ TypeOK
    /\ readerCnt = Cardinality(Readers)
    /\ writing => Writers # {} /\ Readers = {}
    /\ ~overlapped => /\ \A c, d \in Writers : c = d
                      /\ Writers # {} => writing
    /\ NoLostWakeup
=============================================================================
