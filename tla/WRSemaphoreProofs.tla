------------------------- MODULE WRSemaphoreProofs -------------------------
(***************************************************************************)
(* Proofs about WRSemaphore for every finite set of clients: its inductive *)
(* invariant, what is left of mutual exclusion, and that no wakeup is lost.*)
(***************************************************************************)
EXTENDS WRSemaphore, FiniteSetTheorems, TLAPS

\* The sets of holders are finite, so that their cardinalities are numbers.
LEMMA HoldersFinite ==
    /\ IsFiniteSet(Readers) /\ IsFiniteSet(Readers')
    /\ Cardinality(Readers) \in Nat /\ Cardinality(Clients) \in Nat
    /\ Cardinality(Readers') \in 0..Cardinality(Clients)
<1>1. Readers \subseteq Clients /\ Readers' \subseteq Clients
  BY DEF Readers, Holders
<1>2. IsFiniteSet(Readers) /\ IsFiniteSet(Readers')
  BY <1>1, ClientsFinite, FS_Subset
<1>3. /\ Cardinality(Readers) \in Nat /\ Cardinality(Readers') \in Nat
      /\ Cardinality(Clients) \in Nat
  BY <1>2, ClientsFinite, FS_CardinalityType
<1>4. Cardinality(Readers') <= Cardinality(Clients)
  BY <1>1, ClientsFinite, FS_Subset
<1> QED
  BY <1>2, <1>3, <1>4

\* Nobody is inside at first.
LEMMA InitEstablishes == Init => SemInv
<1> SUFFICES ASSUME Init PROVE SemInv
  OBVIOUS
<1>1. Readers = {} /\ Writers = {} /\ Parked = {}
  BY DEF Init, Readers, Writers, Holders, Parked
<1>2. readerCnt = Cardinality(Readers)
  BY <1>1, FS_EmptySet DEF Init
<1>3. TypeOK
  <2>1. readerCnt \in 0..Cardinality(Clients)
    BY HoldersFinite DEF Init
  <2>2. writing \in BOOLEAN /\ overlapped \in BOOLEAN
    BY DEF Init
  <2> QED
    BY <2>1, <2>2 DEF Init, TypeOK, Phase
<1> QED
  BY <1>1, <1>2, <1>3 DEF Init, SemInv, NoLostWakeup

\* A count of zero means that nobody reads.
LEMMA ZeroMeansNobody == readerCnt = Cardinality(Readers) /\ readerCnt = 0 => Readers = {}
BY HoldersFinite, FS_EmptySet

\* A reader comes in: the flag is clear.
LEMMA EnterReading ==
    ASSUME NEW c \in Clients, SemInv, phase[c] # "holding",
           want' = [want EXCEPT ![c] = "reading"], Enter(c, "reading")
    PROVE  SemInv'
<1> USE DEF SemInv, TypeOK, Phase
<1>1. c \notin Readers /\ ~writing /\ ~writing' /\ overlapped' = overlapped
  BY DEF Readers, Holders, Enter, CanEnter
<1>2. Readers' = Readers \cup {c} /\ Writers' = Writers
  BY DEF Enter, Readers, Writers, Holders
<1>3. readerCnt' = Cardinality(Readers')
  BY <1>1, <1>2, HoldersFinite, FS_AddElement DEF Enter
<1>4. \A d \in Parked' : d \in Parked /\ want'[d] = want[d]
  BY DEF Enter, Parked
<1>5. NoLostWakeup'
  BY <1>1, <1>2, <1>4 DEF NoLostWakeup
<1> QED
  BY <1>1, <1>2, <1>3, <1>5, HoldersFinite DEF Enter

\* A writer comes in: nobody reads, but another writer may be inside.
LEMMA EnterWriting ==
    ASSUME NEW c \in Clients, SemInv, phase[c] # "holding",
           want' = [want EXCEPT ![c] = "writing"], Enter(c, "writing")
    PROVE  SemInv'
<1> USE DEF SemInv, TypeOK, Phase
<1>1. Readers = {} /\ writing' /\ readerCnt' = readerCnt
  BY ZeroMeansNobody DEF Enter, CanEnter
<1>2. Readers' = Readers /\ Writers' = Writers \cup {c}
  BY DEF Enter, Readers, Writers, Holders
<1>3. ~overlapped' => ~overlapped /\ Writers = {}
  BY DEF Enter
<1>4. NoLostWakeup'
  BY <1>1, <1>2 DEF NoLostWakeup
<1> QED
  BY <1>1, <1>2, <1>3, <1>4 DEF Enter

\* A client goes to sleep in front of a reader or of a set flag.
LEMMA SleepPreserves ==
    ASSUME NEW c \in Clients, NEW m \in {"reading", "writing"}, SemInv,
           phase[c] # "holding", want' = [want EXCEPT ![c] = m], Sleep(c, m)
    PROVE  SemInv'
<1> USE DEF SemInv, TypeOK, Phase
<1>1. Readers' = Readers /\ Writers' = Writers
  BY DEF Sleep, Readers, Writers, Holders
<1>2. Readers # {} \/ writing
  BY HoldersFinite, FS_EmptySet DEF Sleep, CanEnter
<1>3. m = "reading" => writing
  BY DEF Sleep, CanEnter
<1>4. \A d \in Parked' : d # c => d \in Parked /\ want'[d] = want[d]
  BY DEF Sleep, Parked
<1>5. want'[c] = m
  OBVIOUS
<1>6. NoLostWakeup'
  BY <1>1, <1>2, <1>3, <1>4, <1>5 DEF NoLostWakeup, Sleep
<1> QED
  BY <1>1, <1>6 DEF Sleep

\* A reader goes out; the last one wakes a sleeper, which is a writer.
LEMMA FinishReadingPreserves ==
    ASSUME NEW c \in Clients, SemInv, FinishReading(c)
    PROVE  SemInv'
<1> USE DEF SemInv, TypeOK, Phase
<1> DEFINE rest == [phase EXCEPT ![c] = "idle"]
<1>1. c \in Readers /\ want' = want /\ writing' = writing /\ overlapped' = overlapped
  BY DEF FinishReading
<1>2. ~writing
  BY <1>1
<1>3. NotifyOne(rest) \/ (phase' = rest /\ readerCnt' # 0)
  BY DEF FinishReading
<1>4. /\ phase' \in [Clients -> Phase]
      /\ \A d \in Clients : (phase'[d] = "holding") <=> (rest[d] = "holding")
      /\ Parked' \subseteq Parked
      /\ Parked' # {} => Woken' # {} \/ readerCnt' # 0
  <2>1. CASE NotifyOne(rest) /\ \E d \in Clients : rest[d] = "parked"
    <3>1. PICK d \in Clients : rest[d] = "parked" /\ phase' = [rest EXCEPT ![d] = "woken"]
      BY <2>1 DEF NotifyOne
    <3>2. phase'[d] = "woken"
      BY <3>1
    <3>3. d \in Woken'
      BY <3>2 DEF Woken
    <3> QED
      BY <3>1, <3>3 DEF Parked
  <2>2. CASE NotifyOne(rest) /\ ~ \E d \in Clients : rest[d] = "parked"
    <3>1. phase' = rest
      BY <2>2 DEF NotifyOne
    <3>2. Parked' = {}
      BY <2>2, <3>1 DEF Parked
    <3> QED
      BY <3>1, <3>2
  <2>3. CASE phase' = rest /\ readerCnt' # 0
    BY <2>3 DEF Parked
  <2> QED
    BY <1>3, <2>1, <2>2, <2>3
<1>5. Readers' = Readers \ {c} /\ Writers' = Writers
  BY <1>1, <1>4 DEF Readers, Writers, Holders
<1>6. readerCnt' = Cardinality(Readers')
  BY <1>1, <1>5, HoldersFinite, FS_RemoveElement DEF FinishReading
<1>7. readerCnt' # 0 => Readers' # {}
  BY <1>6, FS_EmptySet
<1>8. NoLostWakeup'
  BY <1>1, <1>2, <1>4, <1>5, <1>7 DEF NoLostWakeup, Parked
<1> QED
  BY <1>1, <1>2, <1>4, <1>5, <1>6, <1>8, HoldersFinite

\* A writer goes out: the flag is cleared and nobody sleeps any more.
LEMMA FinishWritingPreserves ==
    ASSUME NEW c \in Clients, SemInv, FinishWriting(c)
    PROVE  SemInv'
<1> USE DEF SemInv, TypeOK, Phase
<1> DEFINE rest == [phase EXCEPT ![c] = "idle"]
<1>1. /\ c \in Writers /\ ~writing' /\ want' = want
      /\ readerCnt' = readerCnt /\ overlapped' = overlapped
  BY DEF FinishWriting
<1>2. phase' = AllWoken(rest)
  BY DEF FinishWriting
<1>3. /\ phase' \in [Clients -> Phase]
      /\ \A d \in Clients : (phase'[d] = "holding") <=> (d # c /\ phase[d] = "holding")
      /\ Parked' = {}
  BY <1>2 DEF AllWoken, Parked
<1>4. Readers' = Readers /\ Writers' = Writers \ {c}
  BY <1>1, <1>3 DEF Readers, Writers, Holders
<1>5. ~overlapped' => Writers' = {}
  BY <1>1, <1>4
<1>6. TypeOK'
  <2>1. writing' \in BOOLEAN /\ overlapped' \in BOOLEAN
    BY <1>1 DEF FinishWriting
  <2> QED
    BY <1>1, <1>3, <2>1
<1>7. NoLostWakeup'
  BY <1>3 DEF NoLostWakeup
<1> QED
  BY <1>1, <1>4, <1>5, <1>6, <1>7

\* Every step preserves the invariant.
LEMMA StepPreserves == SemInv /\ [Next]_vars => SemInv'
<1> SUFFICES ASSUME SemInv, [Next]_vars PROVE SemInv'
  OBVIOUS
<1> USE DEF SemInv, TypeOK, Phase
<1>1. ASSUME NEW c \in Clients, NEW m \in {"reading", "writing"}, phase[c] # "holding",
             want' = [want EXCEPT ![c] = m], Enter(c, m) \/ Sleep(c, m)
      PROVE  SemInv'
  BY <1>1, EnterReading, EnterWriting, SleepPreserves
<1>2. ASSUME NEW c \in Clients, NEW m \in {"reading", "writing"}, Construct(c, m)
      PROVE  SemInv'
  BY <1>1, <1>2 DEF Construct
<1>3. ASSUME NEW c \in Clients, Recheck(c)
      PROVE  SemInv'
  <2>1. want' = [want EXCEPT ![c] = want[c]] /\ phase[c] # "holding"
    BY <1>3 DEF Recheck
  <2> QED
    BY <1>1, <1>3, <2>1 DEF Recheck
<1>4. ASSUME NEW c \in Clients, SpuriousWakeup(c)
      PROVE  SemInv'
  <2>1. phase' = [phase EXCEPT ![c] = "woken"] /\ phase[c] = "parked"
    BY <1>4 DEF SpuriousWakeup
  <2>2. Readers' = Readers /\ Writers' = Writers
    BY <1>4, <2>1 DEF SpuriousWakeup, Readers, Writers, Holders
  <2>3. c \in Woken' /\ Parked' \subseteq Parked
    BY <2>1 DEF Woken, Parked
  <2>4. NoLostWakeup'
    BY <1>4, <2>3 DEF SpuriousWakeup, NoLostWakeup
  <2> QED
    BY <1>4, <2>1, <2>2, <2>4 DEF SpuriousWakeup
<1>5. ASSUME NEW c \in Clients, FinishReading(c) \/ FinishWriting(c)
      PROVE  SemInv'
  BY <1>5, FinishReadingPreserves, FinishWritingPreserves
<1>6. CASE UNCHANGED vars
  BY <1>6 DEF vars, Readers, Writers, Holders, Parked, Woken, NoLostWakeup
<1> QED
  BY <1>2, <1>3, <1>4, <1>5, <1>6 DEF Next, ClientNext

\* The inductive invariant holds in every reachable state.
THEOREM SemInvariant == Spec => []SemInv
BY InitEstablishes, StepPreserves, PTL DEF Spec

\* Every variable of the semaphore keeps its type.
THEOREM TypeCorrect == Spec => []TypeOK
<1>1. SemInv => TypeOK
  BY DEF SemInv
<1> QED
  BY <1>1, SemInvariant, PTL

\* Readers and writers exclude each other until two writers have overlapped.
THEOREM Exclusion == Spec => []ExclusionUntilOverlap
<1>1. SemInv => ExclusionUntilOverlap
  BY DEF SemInv, ExclusionUntilOverlap, MutualExclusion
<1> QED
  BY <1>1, SemInvariant, PTL

\* Nobody sleeps without a reason, and a sleeping reader faces a set flag.
THEOREM WakeupsNotLost == Spec => []NoLostWakeup
<1>1. SemInv => NoLostWakeup
  BY DEF SemInv
<1> QED
  BY <1>1, SemInvariant, PTL

\* While somebody reads no writer comes in, overlap or not.
THEOREM ReadersProtected == Spec => ReadersKeepWritersOut
<1>1. SemInv /\ [Next]_vars => [Readers # {} => Writers' \subseteq Writers]_vars
  <2> SUFFICES ASSUME SemInv, Next, Readers # {}
               PROVE  Writers' \subseteq Writers
    BY DEF vars
  <2> USE DEF SemInv, TypeOK
  <2>1. readerCnt # 0
    BY ZeroMeansNobody
  <2>2. ASSUME NEW c \in Clients, NEW m \in {"reading", "writing"}, phase[c] # "holding",
               want' = [want EXCEPT ![c] = m], Enter(c, m) \/ Sleep(c, m)
        PROVE  Writers' \subseteq Writers
    BY <2>1, <2>2 DEF Enter, Sleep, CanEnter, Writers, Holders
  <2>3. ASSUME NEW c \in Clients, NEW m \in {"reading", "writing"}, Construct(c, m)
        PROVE  Writers' \subseteq Writers
    BY <2>2, <2>3 DEF Construct
  <2>4. ASSUME NEW c \in Clients, Recheck(c)
        PROVE  Writers' \subseteq Writers
    <3>1. want' = [want EXCEPT ![c] = want[c]] /\ phase[c] # "holding"
      BY <2>4 DEF Recheck
    <3> QED
      BY <2>2, <2>4, <3>1 DEF Recheck
  <2>5. ASSUME NEW c \in Clients, SpuriousWakeup(c) \/ FinishWriting(c)
        PROVE  Writers' \subseteq Writers
    BY <2>5 DEF SpuriousWakeup, FinishWriting, AllWoken, Writers, Holders
  <2>6. ASSUME NEW c \in Clients, FinishReading(c)
        PROVE  Writers' \subseteq Writers
    BY <2>6 DEF FinishReading, NotifyOne, Writers, Holders
  <2> QED
    BY <2>3, <2>4, <2>5, <2>6 DEF Next, ClientNext
<1> QED
  BY <1>1, SemInvariant, PTL DEF Spec, ReadersKeepWritersOut
=============================================================================
