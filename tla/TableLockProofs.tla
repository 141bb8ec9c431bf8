-------------------------- MODULE TableLockProofs --------------------------
(***************************************************************************)
(* Proofs about TableLock for every finite set of guards and every set of  *)
(* faults: type correctness, mutual exclusion, the reader count, the       *)
(* absence of lost wakeups, the permanence of an orphaned write mode, and  *)
(* the refinement of ReadWriteLock.                                        *)
(***************************************************************************)
EXTENDS TableLock, FiniteSetTheorems, TLAPS

\* The sets of holders are finite, so that their cardinalities are numbers.
LEMMA HoldersFinite ==
    /\ IsFiniteSet(Readers) /\ IsFiniteSet(Readers')
    /\ Cardinality(Readers) \in Nat /\ Cardinality(Guards) \in Nat
<1>1. Readers \subseteq Guards /\ Readers' \subseteq Guards
  BY DEF Readers, Holders
<1>2. IsFiniteSet(Readers) /\ IsFiniteSet(Readers')
  BY <1>1, GuardsFinite, FS_Subset
<1> QED
  BY <1>2, GuardsFinite, FS_CardinalityType

\* A count of readers is never above the number of guards.
LEMMA CountInRange ==
    ASSUME readerCnt = Cardinality(Readers)
    PROVE  readerCnt \in 0..Cardinality(Guards)
<1>1. Readers \subseteq Guards
  BY DEF Readers, Holders
<1>2. Cardinality(Readers) <= Cardinality(Guards)
  BY <1>1, GuardsFinite, FS_Subset
<1> QED
  BY <1>2, HoldersFinite

\* The initial state satisfies the invariant: nobody holds the table.
LEMMA InitEstablishes == Init => LockInv
<1> SUFFICES ASSUME Init PROVE LockInv
  OBVIOUS
<1>1. Readers = {} /\ Writers = {} /\ Parked = {}
  BY DEF Init, Readers, Writers, Holders, Parked
<1>2. CountIsReaders
  BY <1>1, FS_EmptySet DEF Init, CountIsReaders
<1>3. TypeOK
  BY <1>2, CountInRange DEF Init, TypeOK, Mode, Phase, CountIsReaders
<1> QED
  BY <1>1, <1>2, <1>3 DEF LockInv, NoLostWakeup

\* Taking the lock, from the constructor or after a wakeup.
LEMMA EnterPreserves ==
    ASSUME NEW g \in Guards, NEW m \in {"reading", "writing"}, LockInv,
           phase[g] # "holding", want' = [want EXCEPT ![g] = m], Enter(g, m)
    PROVE  LockInv'
<1> USE DEF LockInv, TypeOK, Mode, Phase
<1>1. phase' = [phase EXCEPT ![g] = "holding"] /\ mode' = m
  BY DEF Enter
<1>2. g \notin Readers /\ g \notin Writers
  BY DEF Readers, Writers, Holders
<1>3. CASE m = "reading"
  <2>1. Readers' = Readers \cup {g} /\ Writers' = Writers
    BY <1>1, <1>2, <1>3 DEF Readers, Writers, Holders
  <2>2. Writers = {}
    BY <1>3 DEF Enter, CanEnter
  <2>3. CountIsReaders'
    BY <1>2, <1>3, <2>1, HoldersFinite, FS_AddElement DEF Enter, CountIsReaders
  <2>4. readerCnt' \in 0..Cardinality(Guards)
    BY <1>1, <1>2, <1>3, <2>1, <2>3, HoldersFinite, GuardsFinite, FS_Subset
    DEF CountIsReaders, Readers, Holders
  <2> QED
    BY <1>1, <1>3, <2>1, <2>2, <2>3, <2>4 DEF Enter, NoLostWakeup
<1>4. CASE m = "writing"
  <2>1. Readers' = Readers /\ Writers' = Writers \cup {g}
    BY <1>1, <1>2, <1>4 DEF Readers, Writers, Holders
  <2>2. Readers = {} /\ Writers = {}
    BY <1>4 DEF Enter, CanEnter
  <2>3. CountIsReaders' /\ readerCnt' = readerCnt
    BY <1>4, <2>1 DEF Enter, CountIsReaders
  <2> QED
    BY <1>1, <1>4, <2>1, <2>2, <2>3 DEF Enter, NoLostWakeup
<1> QED
  BY <1>3, <1>4

\* A failed acquisition changes the mode of a free table and no holder.
LEMMA EnterFailsPreserves ==
    ASSUME NEW g \in Guards, NEW m \in {"reading", "writing"}, LockInv,
           phase[g] # "holding", want' = [want EXCEPT ![g] = m], EnterFails(g, m)
    PROVE  LockInv'
<1> USE DEF LockInv, TypeOK, Mode, Phase
<1>1. Readers = {} /\ Writers = {}
  BY DEF EnterFails
<1>2. Readers' = {} /\ Writers' = {}
  BY <1>1 DEF EnterFails, Readers, Writers, Holders
<1>3. CountIsReaders'
  BY <1>1, <1>2 DEF EnterFails, CountIsReaders
<1> QED
  BY <1>2, <1>3 DEF EnterFails, NoLostWakeup

\* A guard goes to sleep only while the table is taken.
LEMMA SleepPreserves ==
    ASSUME NEW g \in Guards, NEW m \in {"reading", "writing"}, LockInv,
           phase[g] # "holding", want' = [want EXCEPT ![g] = m], Sleep(g, m)
    PROVE  LockInv'
<1> USE DEF LockInv, TypeOK, Mode, Phase
<1>1. Readers' = Readers /\ Writers' = Writers
  BY DEF Sleep, Readers, Writers, Holders
<1>2. CountIsReaders' /\ mode # "free"
  BY <1>1 DEF Sleep, CountIsReaders, CanEnter
<1> QED
  BY <1>1, <1>2 DEF Sleep, NoLostWakeup

\* What notify_one does to the guards: the holders stay what they are, and
\* either nobody slept or somebody is now awake.
LEMMA NotifyOneEffect ==
    ASSUME NEW ph \in [Guards -> Phase], NotifyOne(ph)
    PROVE  /\ phase' \in [Guards -> Phase]
           /\ \A g \in Guards : (phase'[g] = "holding") <=> (ph[g] = "holding")
           /\ Parked' # {} => Woken' # {}
<1> USE DEF Phase
<1>1. CASE \E g \in Guards : ph[g] = "parked"
  <2>1. PICK g \in Guards : ph[g] = "parked" /\ phase' = [ph EXCEPT ![g] = "woken"]
    BY <1>1 DEF NotifyOne
  <2>2. phase'[g] = "woken"
    BY <2>1
  <2>3. g \in Woken'
    BY <2>2 DEF Woken
  <2> QED
    BY <2>1, <2>3
<1>2. CASE ~ \E g \in Guards : ph[g] = "parked"
  <2>1. phase' = ph
    BY <1>2 DEF NotifyOne
  <2>2. Parked' = {}
    BY <1>2, <2>1 DEF Parked
  <2> QED
    BY <2>1, <2>2
<1> QED
  BY <1>1, <1>2

\* A reader leaves: the last one frees the table and wakes a sleeper.
LEMMA ReadingFinishPreserves ==
    ASSUME NEW g \in Guards, LockInv, ReadingFinish(g)
    PROVE  LockInv'
<1> USE DEF LockInv, TypeOK, Mode, Phase
<1> DEFINE rest == [phase EXCEPT ![g] = "idle"]
<1>1. rest \in [Guards -> Phase]
  OBVIOUS
<1>2. g \in Readers /\ want' = want
  BY DEF ReadingFinish
<1>3. Writers = {} /\ mode = "reading"
  BY <1>2 DEF Readers, Writers, Holders
<1>4. /\ phase' \in [Guards -> Phase]
      /\ \A h \in Guards : (phase'[h] = "holding") <=> (rest[h] = "holding")
  BY <1>1, NotifyOneEffect DEF ReadingFinish
<1>5. Readers' = Readers \ {g} /\ Writers' = {}
  BY <1>2, <1>3, <1>4 DEF Readers, Writers, Holders
<1>6. /\ Cardinality(Readers') = readerCnt - 1 
      /\ readerCnt' = readerCnt - 1
      /\ readerCnt' \in 0..Cardinality(Guards)
  <2>1. Cardinality(Readers \ {g}) = Cardinality(Readers) - 1
    BY <1>2, HoldersFinite, FS_RemoveElement
  <2>2. Cardinality(Readers \ {g}) \in Nat
    BY <1>5, HoldersFinite, FS_CardinalityType
  <2> QED
    BY <1>5, <2>1, <2>2, HoldersFinite DEF ReadingFinish, Decremented, CountIsReaders
<1>7. CASE readerCnt' = 0
  <2>1. mode' = "free" /\ lockFile' = "free" /\ NotifyOne(rest)
    BY <1>7 DEF ReadingFinish
  <2>2. Readers' = {}
    BY <1>6, <1>7, HoldersFinite, FS_EmptySet
  <2>3. NoLostWakeup'
    BY <1>1, <2>1, NotifyOneEffect DEF NoLostWakeup
  <2> QED
    BY <1>2, <1>4, <1>5, <1>6, <2>1, <2>2, <2>3 DEF CountIsReaders
<1>8. CASE readerCnt' # 0
  <2>1. mode' = mode /\ lockFile' = lockFile
    BY <1>8 DEF ReadingFinish
  <2> QED
    BY <1>2, <1>3, <1>4, <1>5, <1>6, <2>1 DEF CountIsReaders, NoLostWakeup
<1> QED
  BY <1>7, <1>8

\* The writer leaves: the table is free and a sleeper is woken.
LEMMA WritingFinishPreserves ==
    ASSUME NEW g \in Guards, LockInv, WritingFinish(g)
    PROVE  LockInv'
<1> USE DEF LockInv, TypeOK, Mode, Phase
<1> DEFINE rest == [phase EXCEPT ![g] = "idle"]
<1>1. rest \in [Guards -> Phase] /\ NotifyOne(rest)
  BY DEF WritingFinish
<1>2. g \in Writers /\ Readers = {} /\ want' = want
  BY DEF WritingFinish, Readers, Writers, Holders
<1>3. /\ phase' \in [Guards -> Phase]
      /\ \A h \in Guards : (phase'[h] = "holding") <=> (rest[h] = "holding")
      /\ Parked' # {} => Woken' # {}
  BY <1>1, NotifyOneEffect
<1>4. Readers' = Readers /\ Writers' = {}
  BY <1>2, <1>3 DEF Readers, Writers, Holders
<1> QED
  BY <1>2, <1>3, <1>4 DEF WritingFinish, CountIsReaders, NoLostWakeup

\* Every step preserves the invariant.
LEMMA StepPreserves == LockInv /\ [Next]_vars => LockInv'
<1> SUFFICES ASSUME LockInv, [Next]_vars PROVE LockInv'
  OBVIOUS
<1> USE DEF LockInv, TypeOK, Mode, Phase
<1>1. ASSUME NEW g \in Guards, NEW m \in {"reading", "writing"}, Construct(g, m)
      PROVE  LockInv'
  BY <1>1, EnterPreserves, EnterFailsPreserves, SleepPreserves DEF Construct
<1>2. ASSUME NEW g \in Guards, Recheck(g)
      PROVE  LockInv'
  <2>1. want' = [want EXCEPT ![g] = want[g]] /\ phase[g] # "holding"
    BY <1>2 DEF Recheck
  <2> QED
    BY <1>2, <2>1, EnterPreserves, EnterFailsPreserves, SleepPreserves DEF Recheck
<1>3. ASSUME NEW g \in Guards, SpuriousWakeup(g)
      PROVE  LockInv'
  <2>1. phase' = [phase EXCEPT ![g] = "woken"] /\ phase[g] = "parked"
    BY <1>3 DEF SpuriousWakeup
  <2>2. Readers' = Readers /\ Writers' = Writers
    BY <1>3, <2>1 DEF SpuriousWakeup, Readers, Writers, Holders
  <2>3. g \in Woken'
    BY <2>1 DEF Woken
  <2> QED
    BY <1>3, <2>1, <2>2, <2>3 DEF SpuriousWakeup, CountIsReaders, NoLostWakeup
<1>4. ASSUME NEW g \in Guards, ReadingFinish(g)
      PROVE  LockInv'
  BY <1>4, ReadingFinishPreserves
<1>5. ASSUME NEW g \in Guards, WritingFinish(g)
      PROVE  LockInv'
  BY <1>5, WritingFinishPreserves
<1>6. CASE CrashRestart
  <2>1. Readers' = {} /\ Writers' = {} /\ Parked' = {}
    BY <1>6 DEF CrashRestart, Readers, Writers, Holders, Parked
  <2>2. CountIsReaders'
    BY <1>6, <2>1, FS_EmptySet DEF CrashRestart, CountIsReaders
  <2>3. 0 \in 0..Cardinality(Guards)
    BY HoldersFinite
  <2> QED
    BY <1>6, <2>1, <2>2, <2>3 DEF CrashRestart, RestoredMode, NoLostWakeup
<1>7. CASE UNCHANGED vars
  BY <1>7 DEF vars, Readers, Writers, Holders, Parked, Woken, CountIsReaders, NoLostWakeup
<1> QED
  BY <1>1, <1>2, <1>3, <1>4, <1>5, <1>6, <1>7 DEF Next, GuardNext

\* The inductive invariant holds in every reachable state.
THEOREM LockInvariant == Spec => []LockInv
BY InitEstablishes, StepPreserves, PTL DEF Spec

\* Every variable of the monitor keeps its type; in particular the unsigned
\* counter readerCnt never goes below zero nor above the number of guards.
THEOREM TypeCorrect == Spec => []TypeOK
<1>1. LockInv => TypeOK
  BY DEF LockInv
<1> QED
  BY <1>1, LockInvariant, PTL

\* A writer is alone, whatever wakeups, failures and restarts happened.
THEOREM Exclusion == Spec => []MutualExclusion
<1>1. LockInv => MutualExclusion
  BY DEF LockInv, MutualExclusion
<1> QED
  BY <1>1, LockInvariant, PTL

\* The counter is the number of living reading guards.
THEOREM CountCorrect == Spec => []CountIsReaders
<1>1. LockInv => CountIsReaders
  BY DEF LockInv
<1> QED
  BY <1>1, LockInvariant, PTL

\* A free table with a sleeping guard has a guard that was notified.
THEOREM WakeupsNotLost == Spec => []NoLostWakeup
<1>1. LockInv => NoLostWakeup
  BY DEF LockInv
<1> QED
  BY <1>1, LockInvariant, PTL

\* In a write mode nobody holds, no guard can enter or leave.
LEMMA OrphanStep ==
    ASSUME LockInv, OrphanedWriting, [Next]_vars
    PROVE  OrphanedWriting' \/ (CrashRestart /\ lockFile # "writing")
<1> USE DEF OrphanedWriting, LockInv
<1>1. Readers = {} /\ Writers = {}
  OBVIOUS
<1>2. ASSUME NEW g \in Guards, NEW m \in {"reading", "writing"},
             Enter(g, m) \/ EnterFails(g, m) \/ Sleep(g, m)
      PROVE  mode' = mode /\ phase' = [phase EXCEPT ![g] = "parked"]
  BY <1>2 DEF Enter, EnterFails, Sleep, CanEnter
<1>3. ASSUME NEW g \in Guards, NEW m \in {"reading", "writing"}, Construct(g, m)
      PROVE  OrphanedWriting'
  BY <1>1, <1>2, <1>3 DEF Construct, Writers, Holders, TypeOK
<1>4. ASSUME NEW g \in Guards, Recheck(g)
      PROVE  OrphanedWriting'
  <2>1. want[g] \in {"reading", "writing"}
    BY DEF TypeOK
  <2> QED
    BY <1>1, <1>2, <1>4, <2>1 DEF Recheck, Writers, Holders, TypeOK
<1>5. ASSUME NEW g \in Guards, SpuriousWakeup(g)
      PROVE  OrphanedWriting'
  BY <1>1, <1>5 DEF SpuriousWakeup, Writers, Holders, TypeOK
<1>6. ASSUME NEW g \in Guards, ReadingFinish(g) \/ WritingFinish(g)
      PROVE  FALSE
  BY <1>1, <1>6 DEF ReadingFinish, WritingFinish
<1>7. CASE CrashRestart
  BY <1>7 DEF CrashRestart, RestoredMode, Writers, Holders
<1>8. CASE UNCHANGED vars
  BY <1>8 DEF vars, Writers, Holders
<1> QED
  BY <1>3, <1>4, <1>5, <1>6, <1>7, <1>8 DEF Next, GuardNext

\* A write mode left behind by a dead writer is permanent: no client can end
\* it, and a restart only if the mode had not been written to the lock file.
THEOREM OrphanPermanent == Spec => OrphanIsForever
<1>1. LockInv /\ [Next]_vars =>
        [OrphanedWriting => \/ OrphanedWriting'
                            \/ CrashRestart /\ lockFile # "writing"]_vars
  BY OrphanStep
<1> QED
  BY <1>1, LockInvariant, PTL DEF Spec, OrphanIsForever

-----------------------------------------------------------------------------
\* One guard's step is an acquisition of the abstract lock, or invisible.
LEMMA AcquisitionRefines ==
    ASSUME LockInv, NEW g \in Guards, NEW m \in {"reading", "writing"},
           phase[g] # "holding", want' = [want EXCEPT ![g] = m],
           Enter(g, m) \/ EnterFails(g, m) \/ Sleep(g, m)
    PROVE  [Abstract!RWNext]_<<Readers, Writers>>
<1> USE DEF LockInv, TypeOK
<1>1. g \notin Readers /\ g \notin Writers
  BY DEF Readers, Writers, Holders
<1>2. CASE Enter(g, m) /\ m = "reading"
  <2>1. Readers' = Readers \cup {g} /\ Writers' = Writers /\ Writers = {}
    BY <1>2 DEF Enter, CanEnter, Readers, Writers, Holders
  <2> QED
    BY <1>1, <2>1 DEF Abstract!RWNext, Abstract!AcquireRead
<1>3. CASE Enter(g, m) /\ m = "writing"
  <2>1. Readers = {} /\ Writers = {}
    BY <1>3 DEF Enter, CanEnter
  <2>2. Readers' = Readers /\ Writers' = {g}
    BY <1>3, <2>1 DEF Enter, Readers, Writers, Holders
  <2> QED
    BY <2>1, <2>2 DEF Abstract!RWNext, Abstract!AcquireWrite
<1>4. CASE EnterFails(g, m) \/ Sleep(g, m)
  <2>1. Readers' = Readers /\ Writers' = Writers
    BY <1>4 DEF EnterFails, Sleep, Readers, Writers, Holders
  <2> QED
    BY <2>1
<1> QED
  BY <1>2, <1>3, <1>4

\* Destroying a guard releases the abstract lock, and nothing else: the guard
\* that notify_one wakes holds nothing yet.
LEMMA FinishRefines ==
    ASSUME LockInv, NEW g \in Guards, ReadingFinish(g) \/ WritingFinish(g)
    PROVE  Abstract!Release(g)
<1> USE DEF LockInv, TypeOK
<1> DEFINE rest == [phase EXCEPT ![g] = "idle"]
<1>1. rest \in [Guards -> Phase] /\ want' = want /\ g \in Readers \cup Writers
  BY DEF ReadingFinish, WritingFinish, Phase
<1>2. NotifyOne(rest) \/ phase' = rest
  BY DEF ReadingFinish, WritingFinish
<1>3. \A h \in Guards : (phase'[h] = "holding") <=> (rest[h] = "holding")
  BY <1>1, <1>2, NotifyOneEffect
<1>4. Readers' = Readers \ {g} /\ Writers' = Writers \ {g}
  BY <1>1, <1>3 DEF Readers, Writers, Holders
<1> QED
  BY <1>1, <1>4 DEF Abstract!Release

\* A step of the monitor is one of the abstract lock, or none.
LEMMA StepRefines == LockInv /\ [Next]_vars => [Abstract!RWNext]_<<Readers, Writers>>
<1> SUFFICES ASSUME LockInv, [Next]_vars
             PROVE  [Abstract!RWNext]_<<Readers, Writers>>
  OBVIOUS
<1>1. ASSUME NEW g \in Guards, NEW m \in {"reading", "writing"}, Construct(g, m)
      PROVE  [Abstract!RWNext]_<<Readers, Writers>>
  BY <1>1, AcquisitionRefines DEF Construct
<1>2. ASSUME NEW g \in Guards, Recheck(g)
      PROVE  [Abstract!RWNext]_<<Readers, Writers>>
  <2>1. /\ want' = [want EXCEPT ![g] = want[g]] /\ phase[g] # "holding"
        /\ want[g] \in {"reading", "writing"}
    BY <1>2 DEF Recheck, LockInv, TypeOK
  <2> QED
    BY <1>2, <2>1, AcquisitionRefines DEF Recheck
<1>3. ASSUME NEW g \in Guards, SpuriousWakeup(g)
      PROVE  Readers' = Readers /\ Writers' = Writers
  BY <1>3 DEF SpuriousWakeup, Readers, Writers, Holders, LockInv, TypeOK
<1>4. ASSUME NEW g \in Guards, ReadingFinish(g) \/ WritingFinish(g)
      PROVE  Abstract!RWNext
  BY <1>4, FinishRefines DEF Abstract!RWNext
<1>5. CASE CrashRestart
  <2>1. Readers' = {} /\ Writers' = {}
    BY <1>5 DEF CrashRestart, Readers, Writers, Holders
  <2> QED
    BY <2>1 DEF Abstract!RWNext, Abstract!Vanish
<1>6. CASE UNCHANGED vars
  BY <1>6 DEF vars, Readers, Writers, Holders
<1> QED
  BY <1>1, <1>2, <1>3, <1>4, <1>5, <1>6 DEF Next, GuardNext

\* TState and TStateGuard implement the abstract readers-writers lock.
THEOREM ImplementsLock == Spec => AbstractSpec
<1>1. Init => Abstract!RWInit
  BY DEF Init, Abstract!RWInit, Readers, Writers, Holders
<1>2. LockInv /\ [Next]_vars => [Abstract!RWNext]_(Abstract!rwVars)
  BY StepRefines DEF Abstract!rwVars
<1> QED
  BY <1>1, <1>2, LockInvariant, PTL DEF Spec, AbstractSpec, Abstract!RWSpec
=============================================================================
