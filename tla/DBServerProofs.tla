-------------------------- MODULE DBServerProofs --------------------------
(***************************************************************************)
(* Proofs about DBServer for every finite set of clients and any number of *)
(* requests: the count of clients is right, the exit command waits for the *)
(* requests that are being processed, and a client gets the answer of its  *)
(* own request until one of the four weaknesses of the server shows.       *)
(***************************************************************************)
EXTENDS DBServer, FiniteSetTheorems, TLAPS

ClientAt == {"off", "ready", "size", "answer", "failed", "closed"}

\* A connection is accepted once, and has no thread before.
QueueInv ==
    /\ client \in [Clients -> [at : ClientAt, sent : Nat]]
    /\ pc \in [Clients -> ThreadAt]
    /\ waiting \in Seq(Clients)
    /\ \A i \in DOMAIN waiting : pc[waiting[i]] = "none" /\ client[waiting[i]].at # "off"
    /\ \A i, j \in DOMAIN waiting : waiting[i] = waiting[j] => i = j
    /\ \A c \in Clients : client[c].at = "off" => pc[c] = "none"

\* The count, also in the memory that main gives up.
Counted == clientsCnt = Cardinality(Processing)

\* After wait_loop no thread is started, and one that begins then shows.
LateInv ==
    /\ main.at \in {"waits", "returned", "gone"} /\ main.late \subseteq Clients
    /\ Stopped => /\ Processing \subseteq main.late
                  /\ \A t \in Clients : pc[t] = "started" => t \in main.late
                  /\ "destroyed" \notin flaws => Processing = {}

\* The inductive invariant: StopsIdle needs the count to be right when
\* check_exit reads it, and the count needs no thread to be started twice.
ServerInv == QueueInv /\ Counted /\ LateInv

\* Counting works because there are finitely many threads.
LEMMA ProcessingFinite ==
    IsFiniteSet(Processing) /\ Cardinality(Processing) \in Nat
<1>1. Processing \subseteq Clients
  BY DEF Processing
<1> QED
  BY <1>1, ClientsFinite, FS_Subset, FS_CardinalityType

\* The server has accepted nobody at first.
LEMMA InitEstablishes == Init => ServerInv
<1> SUFFICES ASSUME Init PROVE ServerInv
  OBVIOUS
<1>1. QueueInv
  BY DEF Init, QueueInv, ClientAt, ThreadAt
<1>2. Processing = {}
  BY DEF Init, Processing
<1>3. Counted
  BY <1>2, FS_EmptySet DEF Init, Counted
<1>4. LateInv
  BY <1>2 DEF Init, LateInv, Stopped
<1> QED
  BY <1>1, <1>3, <1>4 DEF ServerInv

\* Weaknesses are not forgotten.
LEMMA FlawsStay ==
    ASSUME [Next]_vars
    PROVE  flaws \subseteq flaws'
<1>1. ASSUME NEW c \in Clients, ClientNext(c) PROVE flaws \subseteq flaws'
  BY <1>1 DEF ClientNext, Connect, SendRequest, ClientReceives, ReceiveSize, ReceiveAnswer,
     ReceiveNothing, Quit, Die
<1>2. ASSUME NEW t \in Clients, ThreadNext(t) PROVE flaws \subseteq flaws'
  BY <1>2 DEF ThreadNext, Start, StartLate, Receive, ReceiveEnd, ReceiveFails, CopyRequest,
     Execute, SendFails, CopyOk
<1>3. CASE Accept \/ TypeExit \/ Stop \/ ProcessEnds \/ UNCHANGED vars
  BY <1>3 DEF Accept, TypeExit, Stop, ProcessEnds, vars
<1> QED
  BY <1>1, <1>2, <1>3 DEF Next

\* A step that leaves the threads, their count and the loop alone.
LEMMA CountElsewhere ==
    ASSUME Counted, LateInv, UNCHANGED <<pc, clientsCnt, main>>, flaws \subseteq flaws'
    PROVE  Counted' /\ LateInv'
BY DEF Counted, LateInv, Stopped, Processing

\* A client that has connected goes on.
LEMMA QueueOfClient ==
    ASSUME QueueInv, NEW c \in Clients, client[c].at # "off",
           client' \in [Clients -> [at : ClientAt, sent : Nat]], client'[c].at # "off",
           \A d \in Clients \ {c} : client'[d] = client[d],
           UNCHANGED <<pc, waiting>>
    PROVE  QueueInv'
<1>1. \A d \in Clients : client'[d].at = "off" <=> client[d].at = "off"
  OBVIOUS
<1>2. \A i \in DOMAIN waiting : waiting[i] \in Clients
  BY DEF QueueInv
<1>3. \A i \in DOMAIN waiting' : pc'[waiting'[i]] = "none" /\ client'[waiting'[i]].at # "off"
  BY <1>1, <1>2 DEF QueueInv
<1> QED
  BY <1>1, <1>3 DEF QueueInv

\* A thread that has been started goes on.
LEMMA QueueOfThread ==
    ASSUME QueueInv, NEW t \in Clients, pc[t] # "none", NEW a \in ThreadAt,
           pc' = [pc EXCEPT ![t] = a], UNCHANGED <<client, waiting>>
    PROVE  QueueInv'
BY DEF QueueInv

\* A thread goes from one of its steps to another.
LEMMA ThreadGoesOn ==
    ASSUME ServerInv, NEW t \in Clients, t \in Processing, flaws \subseteq flaws',
           NEW a \in ThreadAt \ {"none", "started", "ended"}, pc' = [pc EXCEPT ![t] = a],
           UNCHANGED <<client, waiting, clientsCnt, main>>
    PROVE  ServerInv'
<1>1. QueueInv'
  BY QueueOfThread DEF ServerInv, Processing
<1>2. Processing' = Processing
  BY DEF ServerInv, QueueInv, Processing
<1>3. \A u \in Clients : pc'[u] = "started" => pc[u] = "started"
  BY DEF ServerInv, QueueInv
<1> QED
  BY <1>1, <1>2, <1>3 DEF ServerInv, Counted, LateInv, Stopped

\* A thread is counted out when it ends, and only then.
LEMMA LeavePreserves ==
    ASSUME ServerInv, NEW t \in Clients, t \in Processing, Leave(t), flaws \subseteq flaws'
    PROVE  ServerInv'
<1>1. QueueInv'
  BY QueueOfThread DEF ServerInv, Processing, Leave, ThreadAt
<1>2. Processing' = Processing \ {t}
  BY DEF ServerInv, QueueInv, Processing, Leave
<1>3. Cardinality(Processing') = Cardinality(Processing) - 1
  BY <1>2, ProcessingFinite, FS_RemoveElement
<1>4. Counted'
  BY <1>3 DEF ServerInv, Counted, Leave
<1>5. \A u \in Clients : pc'[u] = "started" => pc[u] = "started"
  BY DEF ServerInv, QueueInv, Leave
<1>6. LateInv'
  BY <1>2, <1>5 DEF ServerInv, LateInv, Stopped, Leave
<1> QED
  BY <1>1, <1>4, <1>6 DEF ServerInv

\* PGuard counts a thread in.
LEMMA StartPreserves ==
    ASSUME ServerInv, NEW t \in Clients, Start(t) \/ StartLate(t)
    PROVE  ServerInv'
<1>1. pc[t] = "started" /\ UNCHANGED <<client, waiting, main>> /\ (Stopped => StartLate(t))
  BY DEF Start, StartLate, Runs
<1>2. CASE clientsCnt' = clientsCnt + 1 /\ pc' = [pc EXCEPT ![t] = "receive"]
  <2>1. QueueInv'
    BY <1>1, <1>2, QueueOfThread DEF ServerInv, ThreadAt
  <2>2. t \notin Processing /\ Processing' = Processing \cup {t}
    BY <1>1, <1>2 DEF ServerInv, QueueInv, Processing
  <2>3. Cardinality(Processing') = Cardinality(Processing) + 1
    BY <2>2, ProcessingFinite, FS_AddElement
  <2>4. \A u \in Clients : pc'[u] = "started" => pc[u] = "started"
    BY <1>2 DEF ServerInv, QueueInv
  <2>5. Stopped => "destroyed" \in flaws'
    BY <1>1 DEF StartLate
  <2>6. LateInv'
    BY <1>1, <2>2, <2>4, <2>5 DEF ServerInv, LateInv, Stopped
  <2> QED
    BY <1>2, <2>1, <2>3, <2>6 DEF ServerInv, Counted
<1>3. CASE clientsCnt' = clientsCnt /\ pc' = [pc EXCEPT ![t] = "ended"]
  <2>1. QueueInv'
    BY <1>1, <1>3, QueueOfThread DEF ServerInv, ThreadAt
  <2>2. Processing' = Processing
    BY <1>1, <1>3 DEF ServerInv, QueueInv, Processing
  <2>3. \A u \in Clients : pc'[u] = "started" => pc[u] = "started"
    BY <1>3 DEF ServerInv, QueueInv
  <2>4. flaws \subseteq flaws'
    BY DEF Start, StartLate
  <2> QED
    BY <1>1, <1>3, <2>1, <2>2, <2>3, <2>4 DEF ServerInv, LateInv, Stopped, Counted
<1> QED
  BY <1>2, <1>3 DEF Start, StartLate

\* Receptions and the execution of a request.
LEMMA ProcessPreserves ==
    ASSUME ServerInv, NEW t \in Clients,
           \/ Receive(t) \/ ReceiveEnd(t) \/ ReceiveFails(t)
           \/ CopyRequest(t) \/ Execute(t) \/ SendFails(t) \/ CopyOk(t)
    PROVE  ServerInv'
<1>1. t \in Processing
  BY DEF Receive, ReceiveEnd, ReceiveFails, CopyRequest, Execute, SendFails, CopyOk, Runs,
         Processing
<1>1a. flaws \subseteq flaws'
  BY FlawsStay DEF Next, ThreadNext
<1>2. CASE Leave(t)
  BY <1>1, <1>1a, <1>2, LeavePreserves
<1>3. CASE ~Leave(t)
  <2>1. UNCHANGED <<client, waiting, clientsCnt, main>>
    BY <1>3 DEF Receive, ReceiveEnd, ReceiveFails, CopyRequest, Execute, SendFails, CopyOk,
                server
  <2>2. \E a \in ThreadAt \ {"none", "started", "ended"} : pc' = [pc EXCEPT ![t] = a]
    BY <1>3 DEF Receive, ReceiveEnd, ReceiveFails, CopyRequest, Execute, SendFails, CopyOk,
                Received, ThreadAt
  <2> QED
    BY <1>1, <1>1a, <2>1, <2>2, ThreadGoesOn
<1> QED
  BY <1>2, <1>3

\* A client connects: it waits for the first time.
LEMMA ConnectPreserves ==
    ASSUME ServerInv, NEW c \in Clients, Connect(c)
    PROVE  ServerInv'
<1> USE DEF QueueInv, ClientAt
<1>1. QueueInv
  BY DEF ServerInv
<1>2. /\ client[c].at = "off" /\ pc' = pc /\ waiting' = Append(waiting, c)
      /\ client' = [client EXCEPT ![c].at = "ready"]
  BY DEF Connect, Goes, thread
<1>3. /\ client' \in [Clients -> [at : ClientAt, sent : Nat]]
      /\ client'[c].at = "ready" /\ \A d \in Clients \ {c} : client'[d] = client[d]
  BY <1>1, <1>2
<1>4. /\ waiting' \in Seq(Clients) /\ DOMAIN waiting' = DOMAIN waiting \cup {Len(waiting) + 1}
      /\ waiting'[Len(waiting) + 1] = c
      /\ \A i \in DOMAIN waiting : waiting'[i] = waiting[i] /\ i # Len(waiting) + 1
  BY <1>1, <1>2
<1>5. \A i \in DOMAIN waiting : waiting[i] # c /\ waiting[i] \in Clients
  BY <1>1, <1>2
<1>6. \A i \in DOMAIN waiting' : pc'[waiting'[i]] = "none" /\ client'[waiting'[i]].at # "off"
  BY <1>1, <1>2, <1>3, <1>4, <1>5
<1>7. \A i, j \in DOMAIN waiting' : waiting'[i] = waiting'[j] => i = j
  BY <1>1, <1>4, <1>5
<1>8. QueueInv'
  BY <1>1, <1>2, <1>3, <1>4, <1>6, <1>7
<1>9. UNCHANGED <<pc, clientsCnt, main>> /\ flaws \subseteq flaws'
  BY DEF Connect, thread
<1> QED
  BY <1>8, <1>9, CountElsewhere DEF ServerInv

\* The other steps of a client.
LEMMA ClientPreserves ==
    ASSUME ServerInv, NEW c \in Clients,
           SendRequest(c) \/ ClientReceives(c) \/ Quit(c) \/ Die(c)
    PROVE  ServerInv'
<1>1. client[c].at # "off"
  BY DEF SendRequest, ClientReceives, ReceiveSize, ReceiveAnswer, ReceiveNothing, Quit, Die,
         Connected
<1>2. \/ \E a \in ClientAt \ {"off"} : client' = [client EXCEPT ![c].at = a]
      \/ client' = [client EXCEPT ![c].at = "size", ![c].sent = @ + 1]
  BY DEF SendRequest, ClientReceives, ReceiveSize, ReceiveAnswer, ReceiveNothing, Quit, Die,
         Goes, Vanishes, ClientAt
<1>3. /\ client' \in [Clients -> [at : ClientAt, sent : Nat]] /\ client'[c].at # "off"
      /\ \A d \in Clients \ {c} : client'[d] = client[d]
  <2>1. client \in [Clients -> [at : ClientAt, sent : Nat]]
    BY DEF ServerInv, QueueInv
  <2>2. ASSUME NEW a \in ClientAt \ {"off"}, client' = [client EXCEPT ![c].at = a]
        PROVE  <1>3
    BY <2>1, <2>2
  <2>3. ASSUME client' = [client EXCEPT ![c].at = "size", ![c].sent = @ + 1]
        PROVE  <1>3
    BY <2>1, <2>3 DEF ClientAt
  <2> QED
    BY <1>2, <2>2, <2>3
<1>4. UNCHANGED <<pc, waiting, clientsCnt, main>>
  BY DEF SendRequest, ClientReceives, ReceiveSize, ReceiveAnswer, ReceiveNothing, Quit, Die,
         server, thread
<1>5. QueueInv'
  BY <1>1, <1>3, <1>4, QueueOfClient DEF ServerInv
<1>6. flaws \subseteq flaws'
  BY FlawsStay DEF Next, ClientNext
<1> QED
  BY <1>4, <1>5, <1>6, CountElsewhere DEF ServerInv

\* A thread that has been started is not counted yet.
LEMMA AcceptPreserves ==
    ASSUME ServerInv, Accept
    PROVE  ServerInv'
<1> DEFINE t == waiting[1]
<1>1. QueueInv
  BY DEF ServerInv
<1>2. /\ waiting # <<>> /\ waiting' = Tail(waiting) /\ client' = client
      /\ pc' = [pc EXCEPT ![t] = "started"]
  BY <1>1 DEF Accept, QueueInv
<1>3. 1 \in DOMAIN waiting /\ t \in Clients /\ pc[t] = "none" /\ client[t].at # "off"
  BY <1>1, <1>2 DEF QueueInv
<1>4. /\ waiting' \in Seq(Clients)
      /\ \A i \in DOMAIN waiting' : i + 1 \in DOMAIN waiting /\ waiting'[i] = waiting[i + 1]
      /\ \A i \in DOMAIN waiting' : i \in Nat /\ i + 1 # 1
  BY <1>1, <1>2 DEF QueueInv
<1>5. \A i \in DOMAIN waiting' : waiting'[i] # t
  BY <1>1, <1>3, <1>4 DEF QueueInv
<1>6. \A i \in DOMAIN waiting' : pc'[waiting'[i]] = "none" /\ client'[waiting'[i]].at # "off"
  BY <1>1, <1>2, <1>4, <1>5 DEF QueueInv
<1>7. \A i, j \in DOMAIN waiting' : waiting'[i] = waiting'[j] => i = j
  BY <1>1, <1>4 DEF QueueInv
<1>8. QueueInv'
  BY <1>1, <1>2, <1>3, <1>4, <1>6, <1>7 DEF QueueInv, ThreadAt
<1>9. Processing' = Processing
  BY <1>1, <1>2, <1>3 DEF Processing, QueueInv
<1>10. UNCHANGED <<clientsCnt, main, flaws>> /\ ~Stopped
  BY DEF Accept
<1> QED
  BY <1>8, <1>9, <1>10 DEF ServerInv, Counted, LateInv, Stopped

\* check_exit reads the count.
LEMMA StopPreserves ==
    ASSUME ServerInv, Stop
    PROVE  ServerInv'
<1>1. /\ UNCHANGED <<client, waiting, pc, clientsCnt, flaws>>
      /\ main' = [at |-> "returned", late |-> {t \in Clients : pc[t] = "started"}]
  BY DEF Stop, thread
<1>2. Processing = {}
  BY ProcessingFinite, FS_EmptySet DEF ServerInv, Counted, Stop, CheckExit
<1>3. Processing' = Processing
  BY <1>1 DEF Processing
<1>4. QueueInv'
  BY <1>1 DEF ServerInv, QueueInv
<1> QED
  BY <1>1, <1>2, <1>3, <1>4 DEF ServerInv, Counted, LateInv

\* The process ends.
LEMMA EndPreserves ==
    ASSUME ServerInv, ProcessEnds
    PROVE  ServerInv'
<1>1. /\ UNCHANGED <<client, waiting, pc, clientsCnt, flaws>> /\ Stopped
      /\ main' = [main EXCEPT !.at = "gone"]
  BY DEF ProcessEnds, thread, Stopped
<1>2. Processing' = Processing
  BY <1>1 DEF Processing
<1>3. main' = [at |-> "gone", late |-> main.late] \/ main'.late = main.late
  BY <1>1
<1>4. QueueInv'
  BY <1>1 DEF ServerInv, QueueInv
<1> QED
  BY <1>1, <1>2, <1>3, <1>4 DEF ServerInv, Counted, LateInv

\* Every step preserves the invariant.
LEMMA StepPreserves == ServerInv /\ [Next]_vars => ServerInv'
<1> SUFFICES ASSUME ServerInv, [Next]_vars PROVE ServerInv'
  OBVIOUS
<1>1. ASSUME NEW c \in Clients, ClientNext(c)
      PROVE  ServerInv'
  BY <1>1, ConnectPreserves, ClientPreserves DEF ClientNext
<1>2. ASSUME NEW t \in Clients, ThreadNext(t)
      PROVE  ServerInv'
  BY <1>2, StartPreserves, ProcessPreserves DEF ThreadNext
<1>3. CASE TypeExit \/ UNCHANGED vars
  <2>1. UNCHANGED <<client, waiting, pc, clientsCnt, main, flaws>>
    BY <1>3 DEF TypeExit, vars, server, thread
  <2>2. QueueInv'
    BY <2>1 DEF ServerInv, QueueInv
  <2> QED
    BY <2>1, <2>2, CountElsewhere DEF ServerInv
<1> QED
  BY <1>1, <1>2, <1>3, AcceptPreserves, StopPreserves, EndPreserves DEF Next

\* The inductive invariant holds in every reachable state.
THEOREM ServerInvariant == Spec => []ServerInv
BY InitEstablishes, StepPreserves, PTL DEF Spec

\* clientsCnt is the number of threads between PGuard's constructor and its
\* destructor, whatever ends a connection.
THEOREM CountCorrect == Spec => []CountIsThreads
<1>1. ServerInv => CountIsThreads
  BY DEF ServerInv, Counted, CountIsThreads
<1> QED
  BY <1>1, ServerInvariant, PTL

\* The exit command waits for every request that is processed when check_exit
\* reads the count: what is still processed while main destroys the server, or is
\* cut off by the end of the process, belongs to connections that had been
\* accepted by then and were not counted yet.
THEOREM ExitWaits == Spec => []StopsIdle
<1>1. ServerInv => StopsIdle
  BY DEF ServerInv, LateInv, StopsIdle
<1> QED
  BY <1>1, ServerInvariant, PTL
\* What the fields of the server and the sockets of the threads hold: a
\* thread takes its socket from clientSock, which is set by then.
FieldsInv ==
    /\ sock \in [Clients -> Clients \cup {Nobody}]
    /\ clientSock \in Clients \cup {Nobody}
    /\ \A t \in Clients : pc[t] # "none" => clientSock \in Clients
    /\ \A t \in Processing : sock[t] \in Clients
    /\ \A c \in Clients : client[c].sent <= MaxRequests[c]
    /\ exit \in BOOLEAN
    /\ shut \subseteq Clients
    /\ flaws \subseteq {"mixed", "wrong_socket", "partial", "destroyed"}

\* The fields at first.
LEMMA InitFields == Init => FieldsInv
<1> SUFFICES ASSUME Init PROVE FieldsInv
  OBVIOUS
<1>1. \A c \in Clients : client[c].sent <= MaxRequests[c]
  <2> SUFFICES ASSUME NEW c \in Clients PROVE client[c].sent <= MaxRequests[c]
    OBVIOUS
  <2>1. client[c].sent = 0
    BY DEF Init
  <2>2. MaxRequests[c] \in Nat
    BY RequestsBounded
  <2> QED
    BY <2>1, <2>2
<1>2. \A c \in Clients : pc[c] = "none" /\ sock[c] = Nobody
  BY DEF Init
<1> QED
  BY <1>1, <1>2 DEF Init, FieldsInv, Processing

\* The steps of a client change only how many requests it has sent.
LEMMA FieldsOfClient ==
    ASSUME ServerInv, FieldsInv, NEW c \in Clients, ClientNext(c)
    PROVE  FieldsInv'
<1>1. UNCHANGED <<pc, sock, clientSock, exit, shut>>
  BY DEF ClientNext, Connect, SendRequest, ClientReceives, ReceiveSize, ReceiveAnswer,
         ReceiveNothing, Quit, Die, server, thread
<1>2. flaws' \in {flaws, flaws \cup {"partial"}}
  BY DEF ClientNext, Connect, SendRequest, ClientReceives, ReceiveSize, ReceiveAnswer,
         ReceiveNothing, Quit, Die
<1>3. \A d \in Clients : client'[d].sent <= MaxRequests[d]
  <2>0. client \in [Clients -> [at : ClientAt, sent : Nat]]
    BY DEF ServerInv, QueueInv
  <2>1. CASE SendRequest(c)
    <3>1. /\ client[c].sent < MaxRequests[c]
          /\ client' = [client EXCEPT ![c].at = "size", ![c].sent = @ + 1]
      BY <2>1 DEF SendRequest
    <3>2. client'[c].sent = client[c].sent + 1
      BY <2>0, <3>1
    <3>3. \A d \in Clients \ {c} : client'[d] = client[d]
      BY <2>0, <3>1
    <3> QED
      BY <2>0, <3>1, <3>2, <3>3, RequestsBounded DEF FieldsInv
  <2>2. CASE ~SendRequest(c)
    <3>1. \E a : client' = [client EXCEPT ![c].at = a]
      BY <2>2 DEF ClientNext, Connect, ClientReceives, ReceiveSize, ReceiveAnswer,
                  ReceiveNothing, Quit, Die, Goes, Vanishes
    <3>2. \A d \in Clients : client'[d].sent = client[d].sent
      BY <2>0, <3>1
    <3> QED
      BY <3>2 DEF FieldsInv
  <2> QED
    BY <2>1, <2>2
<1> QED
  BY <1>1, <1>2, <1>3 DEF FieldsInv, Processing

\* The thread of a connection reads clientSock once; later it may close the
\* socket it got.
LEMMA FieldsOfThread ==
    ASSUME ServerInv, FieldsInv, NEW t \in Clients, ThreadNext(t)
    PROVE  FieldsInv'
<1>1. UNCHANGED <<client, clientSock, exit>>
  BY DEF ThreadNext, Start, StartLate, Receive, ReceiveEnd, ReceiveFails, CopyRequest, Execute,
         SendFails, CopyOk, Leave, server
<1>2. flaws' \in {flaws, flaws \cup {"mixed"}, flaws \cup {"wrong_socket"},
                 flaws \cup {"destroyed"}}
  BY DEF ThreadNext, Start, StartLate, Receive, ReceiveEnd, ReceiveFails, CopyRequest, Execute,
         SendFails, CopyOk
<1>3. pc \in [Clients -> ThreadAt] /\ pc[t] # "none"
  BY DEF ServerInv, QueueInv, ThreadNext, Start, StartLate, Receive, ReceiveEnd, ReceiveFails,
         CopyRequest, Execute, SendFails, CopyOk, Runs
<1>4. CASE Start(t) \/ StartLate(t)
  <2>1. clientSock \in Clients /\ shut' = shut
    BY <1>3, <1>4 DEF Start, StartLate, FieldsInv
  <2>2. \/ /\ pc' = [pc EXCEPT ![t] = "receive"]
           /\ \E c \in Clients : sock' = [sock EXCEPT ![t] = c]
        \/ pc' = [pc EXCEPT ![t] = "ended"] /\ sock' = sock
    BY <1>4, <2>1 DEF Start, StartLate
  <2>3. /\ sock' \in [Clients -> Clients \cup {Nobody}]
        /\ \A u \in Processing' : sock'[u] \in Clients
    BY <1>3, <2>2 DEF FieldsInv, Processing
  <2>4. \A u \in Clients : pc'[u] # "none" => pc[u] # "none"
    BY <1>3, <2>2
  <2> QED
    BY <1>1, <1>2, <2>1, <2>3, <2>4 DEF FieldsInv
<1>5. CASE ~Start(t) /\ ~StartLate(t)
  <2>1. t \in Processing
    BY <1>5 DEF ThreadNext, Receive, ReceiveEnd, ReceiveFails, CopyRequest, Execute, SendFails,
                CopyOk, Runs, Processing
  <2>2. sock[t] \in Clients /\ sock' = sock
    BY <1>5, <2>1 DEF ThreadNext, Receive, ReceiveEnd, ReceiveFails, CopyRequest, Execute,
                SendFails, CopyOk, Leave, Received, FieldsInv
  <2>3. \E a : pc' = [pc EXCEPT ![t] = a]
    BY <1>5 DEF ThreadNext, Receive, ReceiveEnd, ReceiveFails, CopyRequest, Execute,
                SendFails, CopyOk, Leave, Received
  <2>4. shut' \in {shut, shut \cup {sock[t]}}
    BY <1>5 DEF ThreadNext, Receive, ReceiveEnd, ReceiveFails, CopyRequest, Execute,
                SendFails, CopyOk, Leave, Closed, server
  <2>5. /\ \A u \in Clients : pc'[u] # "none" => pc[u] # "none"
        /\ Processing' \subseteq Processing
    BY <1>3, <2>1, <2>3 DEF Processing
  <2> QED
    BY <1>1, <1>2, <2>2, <2>4, <2>5 DEF FieldsInv
<1> QED
  BY <1>4, <1>5

\* Every step keeps the fields what they are.
LEMMA FieldsPreserved == ServerInv /\ FieldsInv /\ [Next]_vars => FieldsInv'
<1> SUFFICES ASSUME ServerInv, FieldsInv, [Next]_vars PROVE FieldsInv'
  OBVIOUS
<1>1. CASE Accept
  <2>1. waiting # <<>> /\ waiting \in Seq(Clients) /\ pc \in [Clients -> ThreadAt]
    BY <1>1 DEF Accept, ServerInv, QueueInv
  <2>2. Head(waiting) \in Clients
    BY <2>1
  <2> QED
    BY <1>1, <2>1, <2>2 DEF Accept, FieldsInv, Processing
<1>2. CASE TypeExit \/ Stop \/ ProcessEnds \/ UNCHANGED vars
  BY <1>2 DEF TypeExit, Stop, ProcessEnds, vars, server, thread, FieldsInv, Processing
<1> QED
  BY <1>1, <1>2, FieldsOfClient, FieldsOfThread DEF Next

\* Every field stays within its type: in particular a thread that serves has
\* the socket of some connection, and the count is at most that of the clients.
THEOREM TypeCorrect == Spec => []TypeOK
<1>1. ServerInv /\ FieldsInv => TypeOK
  <2> SUFFICES ASSUME ServerInv, FieldsInv PROVE TypeOK
    OBVIOUS
  <2>1. Processing \subseteq Clients /\ clientsCnt = Cardinality(Processing)
    BY DEF Processing, ServerInv, Counted
  <2>2. Cardinality(Processing) \in Nat /\ Cardinality(Clients) \in Nat
    BY ProcessingFinite, ClientsFinite, FS_CardinalityType
  <2>3. clientsCnt \in 0..Cardinality(Clients)
    BY <2>1, <2>2, ClientsFinite, FS_Subset
  <2>4. \A c \in Clients : client[c].at \in ClientAt /\ client[c].sent \in 0..MaxRequests[c]
    BY RequestsBounded DEF ServerInv, QueueInv, FieldsInv
  <2> QED
    BY <2>3, <2>4 DEF TypeOK, ServerInv, QueueInv, LateInv, FieldsInv, ClientAt
<1> QED
  BY <1>1, InitFields, FieldsPreserved, ServerInvariant, PTL DEF Spec

-----------------------------------------------------------------------------
(***************************************************************************)
(* The exchange of messages. OwnAnswers says what a client that waits for  *)
(* nothing has got; that it gets this, every stage on the way has to say.  *)
(***************************************************************************)

\* Where the exchange of messages with a client stands: nothing is asked, ...
LastRequest(c) == Request(c, client[c].sent)
Silent(c)  == toServer[c] = <<>> /\ toClient[c] = <<>>
Free(c) ==
    /\ client[c].at \in {"off", "ready"} /\ Silent(c) /\ pc[c] \in {"none", "started", "receive"}
    /\ client[c].at = "off" => client[c].sent = 0
    /\ client[c].at = "ready" /\ client[c].sent > 0 => got[c] = Answer(LastRequest(c))
\* ... the request is under way, received, executed, ...
Asked(c) ==
    /\ client[c].at = "size" /\ toServer[c] = <<LastRequest(c)>> /\ toClient[c] = <<>>
    /\ pc[c] \in {"none", "started", "receive"}
Taken(c) ==
    client[c].at = "size" /\ Silent(c) /\ pc[c] = "copy" /\ mine[c] = LastRequest(c)
Executed(c) ==
    client[c].at = "size" /\ Silent(c) /\ pc[c] = "execute" /\ request[c] = LastRequest(c)
\* ... the size is under way, the Ok, the Ok is received, ...
Sized(c) ==
    /\ client[c].at = "size" /\ toServer[c] = <<>> /\ toClient[c] = <<Size(LastRequest(c))>>
    /\ pc[c] = "receive_ok" /\ request[c] = LastRequest(c)
Confirmed(c) ==
    /\ client[c].at = "answer" /\ toServer[c] = <<Ok>> /\ toClient[c] = <<>>
    /\ pc[c] = "receive_ok" /\ request[c] = LastRequest(c)
TakenOk(c) ==
    /\ client[c].at = "answer" /\ Silent(c)
    /\ pc[c] = "copy_ok" /\ mine[c] = Ok /\ request[c] = LastRequest(c)
\* ... and the answer is.
Given(c) ==
    /\ client[c].at = "answer" /\ toServer[c] = <<>> /\ toClient[c] = <<Answer(LastRequest(c))>>
    /\ pc[c] = "receive"

Stage(c) ==
    \/ Free(c) \/ Asked(c) \/ Taken(c) \/ Executed(c) \/ Sized(c) \/ Confirmed(c) \/ TakenOk(c)
    \/ Given(c)

Talk(c) ==
    /\ pc[c] \notin {"none", "started"} => sock[c] = c
    /\ client[c].at \in {"off", "ready", "size", "answer"} => c \notin shut /\ Stage(c)
    /\ client[c].at = "failed" => Gone

\* A thread that has received finds its message in the buffer.
BufferInv == \A t \in Copying : mine[t] \in {Nothing, buff}

Maps ==
    /\ got = [c \in Clients |-> got[c]] /\ mine = [c \in Clients |-> mine[c]]
    /\ request = [c \in Clients |-> request[c]]
    /\ toServer = [c \in Clients |-> toServer[c]] /\ toClient = [c \in Clients |-> toClient[c]]

\* Until one of the four weaknesses shows, every connection is served by its
\* own thread, which does what the client expects next.
TalkInv == Maps /\ (flaws = {} => BufferInv /\ \A c \in Clients : Talk(c))

\* One message at a time.
LEMMA OneMessage ==
    \A m : /\ Append(<<>>, m) = <<m>> /\ Head(<<m>>) = m /\ Tail(<<m>>) = <<>> /\ <<m>> # <<>>
<1> TAKE m
<1>1. <<>> \in Seq({m}) /\ <<m>> \in Seq({m}) /\ Len(<<m>>) = 1 /\ <<m>>[1] = m
  OBVIOUS
<1>2. Append(<<>>, m) = <<m>>
  OBVIOUS
<1>3. Head(<<m>>) = m
  BY <1>1
<1>4. Tail(<<m>>) = <<>>
  BY <1>1
<1> QED
  BY <1>1, <1>2, <1>3, <1>4

\* Messages of different kinds differ.
LEMMA Kinds ==
    /\ \A c, n : Request(c, n) # Exit
    /\ \A m : IsNumber(Size(m)) = {TRUE}
<1>1. ASSUME NEW c, NEW n PROVE Request(c, n) # Exit
  BY DEF Request, Exit
<1>2. ASSUME NEW m PROVE IsNumber(Size(m)) = {TRUE}
  <2>1. Size(m) # Part /\ Size(m)[1] = "size"
    BY DEF Size, Part
  <2> QED
    BY <2>1 DEF IsNumber
<1> QED
  BY <1>1, <1>2

\* No client has connected yet.
LEMMA InitTalk == Init => TalkInv
<1> SUFFICES ASSUME Init PROVE TalkInv
  OBVIOUS
<1>1. Maps
  BY DEF Init, Maps
<1>2. BufferInv
  BY DEF Init, BufferInv, Copying
<1>3. ASSUME NEW c \in Clients PROVE Talk(c)
  <2>1. /\ client[c].at = "off" /\ client[c].sent = 0 /\ pc[c] = "none"
        /\ Silent(c) /\ c \notin shut
    BY DEF Init, Silent
  <2> QED
    BY <2>1 DEF Talk, Stage, Free
<1> QED
  BY <1>1, <1>2, <1>3 DEF TalkInv

\* What is asked of a connection is about nothing else.
LEMMA TalkElsewhere ==
    ASSUME NEW d \in Clients, Talk(d), client'[d] = client[d], pc'[d] = pc[d],
           sock'[d] = sock[d], mine'[d] = mine[d], request'[d] = request[d], got'[d] = got[d],
           toServer'[d] = toServer[d], toClient'[d] = toClient[d],
           d \in shut' => d \in shut, Gone => Gone'
    PROVE  Talk(d)'
BY DEF Talk, Stage, Free, Asked, Taken, Executed, Sized, Confirmed, TakenOk, Given, Silent,
       LastRequest

\* The steps of a client are about its connection.
LEMMA ClientElsewhere ==
    ASSUME QueueInv, Maps, NEW c \in Clients, ClientNext(c), \A d \in Clients : Talk(d)
    PROVE  /\ Maps' /\ \A d \in Clients \ {c} : Talk(d)'
           /\ flaws' = {} => flaws = {}
           /\ UNCHANGED <<pc, sock, mine, request, buff, shut, main>>
<1>1. UNCHANGED <<pc, sock, mine, request, buff, shut, main>>
  BY DEF ClientNext, Connect, SendRequest, ClientReceives, ReceiveSize, ReceiveAnswer,
         ReceiveNothing, Quit, Die, thread, server
<1>2. \/ \E a : client' = [client EXCEPT ![c].at = a]
      \/ client' = [client EXCEPT ![c].at = "size", ![c].sent = @ + 1]
  BY DEF ClientNext, Connect, SendRequest, ClientReceives, ReceiveSize, ReceiveAnswer,
         ReceiveNothing, Quit, Die, Goes, Vanishes
<1>3. \A d \in Clients \ {c} : client'[d] = client[d]
  BY <1>2 DEF QueueInv
<1>4. \/ toServer' = toServer
      \/ \E m : toServer' = [toServer EXCEPT ![c] = Append(@, m)]
  BY DEF ClientNext, Connect, SendRequest, ClientReceives, ReceiveSize, ReceiveAnswer,
         ReceiveNothing, Quit, Die, Sends, net
<1>5. \/ toClient' = toClient
      \/ \E m : toClient' = [toClient EXCEPT ![c] = m]
  BY DEF ClientNext, Connect, SendRequest, ClientReceives, ReceiveSize, ReceiveAnswer,
         ReceiveNothing, Quit, Die, Vanishes, net
<1>6. got' = got \/ \E m : got' = [got EXCEPT ![c] = m]
  BY DEF ClientNext, Connect, SendRequest, ClientReceives, ReceiveSize, ReceiveAnswer,
         ReceiveNothing, Quit, Die, Vanishes
<1>7. Maps'
  BY <1>1, <1>4, <1>5, <1>6 DEF Maps
<1>8. \A d \in Clients \ {c} : /\ toServer'[d] = toServer[d] /\ toClient'[d] = toClient[d]
                               /\ got'[d] = got[d]
  BY <1>4, <1>5, <1>6 DEF Maps
<1>9. \A d \in Clients \ {c} : Talk(d)'
  BY <1>1, <1>3, <1>8, TalkElsewhere DEF Gone
<1>10. flaws' = {} => flaws = {}
  BY DEF ClientNext, Connect, SendRequest, ClientReceives, ReceiveSize, ReceiveAnswer,
         ReceiveNothing, Quit, Die
<1> QED
  BY <1>1, <1>7, <1>9, <1>10

\* A client connects.
LEMMA ConnectTalk ==
    ASSUME QueueInv, Maps, NEW c \in Clients, Talk(c), Connect(c)
    PROVE  Talk(c)'
<1>1. /\ client[c].at = "off" /\ client' = [client EXCEPT ![c].at = "ready"]
      /\ UNCHANGED <<got, toServer, toClient, shut, pc, sock>>
  BY DEF Connect, Goes, net, thread
<1>2. Free(c) /\ c \notin shut
  BY <1>1 DEF Talk, Stage, Free, Asked, Taken, Executed, Sized, Confirmed, TakenOk, Given
<1>3. client'[c].at = "ready" /\ client'[c].sent = 0
  BY <1>1, <1>2 DEF QueueInv, Free
<1>4. pc[c] = "none"
  BY <1>1 DEF QueueInv
<1>5. Free(c)'
  BY <1>1, <1>2, <1>3, <1>4 DEF Free, Silent
<1> QED
  BY <1>1, <1>2, <1>3, <1>4, <1>5 DEF Talk, Stage

\* A client asks when nothing is under way.
LEMMA SendRequestTalk ==
    ASSUME QueueInv, Maps, NEW c \in Clients, Talk(c), SendRequest(c)
    PROVE  Talk(c)'
<1>1. /\ client[c].at = "ready"
      /\ client' = [client EXCEPT ![c].at = "size", ![c].sent = @ + 1]
      /\ UNCHANGED <<got, toClient, shut, pc, sock>>
  BY DEF SendRequest, server, thread
<1>2. Free(c) /\ c \notin shut
  BY <1>1 DEF Talk, Stage, Free, Asked, Taken, Executed, Sized, Confirmed, TakenOk, Given
<1>3. client'[c].at = "size" /\ LastRequest(c)' = Request(c, client'[c].sent)
  BY <1>1 DEF QueueInv, LastRequest
<1>4. toServer' = [toServer EXCEPT ![c] = Append(@, LastRequest(c)')]
  BY <1>2, <1>3 DEF SendRequest, Sends
<1>5. toServer'[c] = <<LastRequest(c)'>>
  BY <1>2, <1>4, OneMessage DEF Maps, Free, Silent
<1>6. Asked(c)'
  BY <1>1, <1>2, <1>3, <1>5 DEF Free, Silent, Asked
<1> QED
  BY <1>1, <1>2, <1>3, <1>6 DEF Talk, Stage

\* A client that takes the size agrees to it.
LEMMA ReceiveSizeTalk ==
    ASSUME QueueInv, Maps, NEW c \in Clients, Talk(c), ReceiveSize(c)
    PROVE  Talk(c)'
<1>1. /\ client[c].at = "size" /\ toClient[c] # <<>>
      /\ toClient' = [toClient EXCEPT ![c] = Tail(@)]
      /\ UNCHANGED <<got, shut, pc, sock, request>>
  BY DEF ReceiveSize, server, thread
<1>2. Sized(c) /\ c \notin shut
  BY <1>1 DEF Talk, Stage, Free, Asked, Taken, Executed, Sized, Confirmed, TakenOk, Given, Silent
<1>3. Head(toClient[c]) = Size(LastRequest(c)) /\ toClient'[c] = <<>>
  BY <1>1, <1>2, OneMessage DEF Maps, Sized
<1>4. Goes(c, "answer") /\ Sends(c, Ok)
  <2>1. IsNumber(Head(toClient[c])) = {TRUE}
    BY <1>3, Kinds
  <2>2. PICK number \in IsNumber(Head(toClient[c])) :
             IF number THEN Goes(c, "answer") /\ Sends(c, Ok)
             ELSE Goes(c, "failed") /\ UNCHANGED toServer
    BY DEF ReceiveSize
  <2>3. number = TRUE
    BY <2>1, <2>2
  <2> QED
    BY <2>2, <2>3
<1>5. client'[c].at = "answer" /\ LastRequest(c)' = LastRequest(c)
  BY <1>4 DEF QueueInv, Goes, LastRequest
<1>6. toServer'[c] = <<Ok>>
  BY <1>2, <1>4, OneMessage DEF Maps, Sends, Sized
<1>7. Confirmed(c)'
  BY <1>1, <1>2, <1>3, <1>5, <1>6 DEF Sized, Confirmed
<1> QED
  BY <1>1, <1>2, <1>5, <1>7 DEF Talk, Stage

\* What a client takes for its answer is the answer, if it is in one part.
LEMMA ReceiveAnswerTalk ==
    ASSUME QueueInv, Maps, NEW c \in Clients, Talk(c), ReceiveAnswer(c), flaws' = {}
    PROVE  Talk(c)'
<1>1. /\ client[c].at = "answer" /\ toClient[c] # <<>>
      /\ client' = [client EXCEPT ![c].at = "ready"]
      /\ got' = [got EXCEPT ![c] = Head(toClient[c])]
      /\ toClient' = [toClient EXCEPT ![c] = Tail(@)]
      /\ UNCHANGED <<toServer, shut, pc, sock>>
  BY DEF ReceiveAnswer, Goes, server, thread
<1>2. Given(c) /\ c \notin shut
  BY <1>1 DEF Talk, Stage, Free, Asked, Taken, Executed, Sized, Confirmed, TakenOk, Given, Silent
<1>3. Head(toClient[c]) = Answer(LastRequest(c)) /\ toClient'[c] = <<>>
  BY <1>1, <1>2, OneMessage DEF Maps, Given
<1>4. client'[c].at = "ready" /\ LastRequest(c)' = LastRequest(c)
  BY <1>1 DEF QueueInv, LastRequest
<1>5. got'[c] = Answer(LastRequest(c)')
  BY <1>1, <1>3, <1>4 DEF Maps
<1>6. Free(c)'
  BY <1>1, <1>2, <1>3, <1>4, <1>5 DEF Given, Free, Silent
<1> QED
  BY <1>1, <1>2, <1>4, <1>6 DEF Talk, Stage

\* A client is left without an answer only when the process has ended, and it does
\* not end while the request of a thread that began before the exit is processed.
LEMMA ReceiveNothingTalk ==
    ASSUME ServerInv, Maps, NEW c \in Clients, Talk(c), ReceiveNothing(c), flaws = {}
    PROVE  Talk(c)'
<1>1. /\ toClient[c] = <<>> /\ client[c].at \in {"size", "answer"}
      /\ UNCHANGED <<shut, main, pc, sock>>
  BY DEF ReceiveNothing, server, thread
<1>2. Stage(c) /\ c \notin shut
  BY <1>1 DEF Talk
<1>3. Gone /\ c \notin Processing
  BY <1>2 DEF ReceiveNothing, ServerInv, LateInv, Stopped, Gone
<1>4. client[c].at # "answer"
  BY <1>1, <1>2, <1>3, OneMessage DEF Stage, Free, Asked, Taken, Executed, Sized, Confirmed,
     TakenOk, Given, Processing
<1>5. client' = [client EXCEPT ![c].at = "failed"]
  BY <1>1, <1>4 DEF ReceiveNothing, Goes
<1>6. client'[c].at = "failed"
  BY <1>5 DEF ServerInv, QueueInv
<1> QED
  BY <1>1, <1>2, <1>3, <1>6 DEF Talk, Gone

\* Of a client that is gone nothing is asked.
LEMMA GoneTalk ==
    ASSUME QueueInv, NEW c \in Clients, Talk(c), Quit(c) \/ Die(c)
    PROVE  Talk(c)'
<1>1. client' = [client EXCEPT ![c].at = "closed"] /\ UNCHANGED <<pc, sock>>
  BY DEF Quit, Die, Vanishes, Goes, thread
<1>2. client'[c].at = "closed"
  BY <1>1 DEF QueueInv
<1> QED
  BY <1>1, <1>2 DEF Talk

\* The steps of the clients.
LEMMA ClientTalk ==
    ASSUME ServerInv, TalkInv, NEW c \in Clients, ClientNext(c)
    PROVE  TalkInv'
<1>1. QueueInv /\ Maps
  BY DEF ServerInv, TalkInv
<1>2. CASE flaws = {}
  <2>1. BufferInv /\ \A d \in Clients : Talk(d)
    BY <1>2 DEF TalkInv
  <2>2. /\ Maps' /\ \A d \in Clients \ {c} : Talk(d)'
        /\ UNCHANGED <<pc, sock, mine, request, buff, shut, main>>
    BY <1>1, <2>1, ClientElsewhere
  <2>3. BufferInv'
    BY <2>1, <2>2 DEF BufferInv, Copying
  <2>4. flaws' = {} => Talk(c)'
    BY <1>1, <1>2, <2>1, ConnectTalk, SendRequestTalk, ReceiveSizeTalk, ReceiveAnswerTalk,
       ReceiveNothingTalk, GoneTalk DEF ClientNext, ClientReceives
  <2> QED
    BY <2>2, <2>3, <2>4 DEF TalkInv
<1>3. CASE flaws # {}
  <2>1. Maps' /\ flaws' # {}
    BY <1>1, <1>3 DEF ClientNext, Connect, SendRequest, ClientReceives, ReceiveSize,
       ReceiveAnswer, ReceiveNothing, Quit, Die, Vanishes, Sends, net, thread, Maps
  <2> QED
    BY <2>1 DEF TalkInv
<1> QED
  BY <1>2, <1>3

\* The steps of a thread are about its connection.
LEMMA ThreadElsewhere ==
    ASSUME QueueInv, FieldsInv, Maps, NEW t \in Clients, ThreadNext(t),
           \A d \in Clients : Talk(d), flaws' = {}
    PROVE  /\ Maps' /\ \A d \in Clients \ {t} : Talk(d)'
           /\ flaws = {} /\ ~Gone /\ UNCHANGED <<client, got, main>>
           /\ \A d \in Clients \ {t} : pc'[d] = pc[d] /\ mine'[d] = mine[d]
<1>1. flaws = {} /\ ~Gone /\ UNCHANGED <<client, got, main>>
  BY DEF ThreadNext, Start, StartLate, Receive, ReceiveEnd, ReceiveFails, CopyRequest, Execute, SendFails,
         CopyOk, Leave, Runs, server
<1>2. Start(t) \/ sock[t] = t
  BY DEF ThreadNext, StartLate, Receive, ReceiveEnd, ReceiveFails, CopyRequest, Execute, SendFails,
         CopyOk, Runs, Talk
<1>3. /\ \E a : pc' = [pc EXCEPT ![t] = a]
      /\ sock' = sock \/ \E a : sock' = [sock EXCEPT ![t] = a]
      /\ mine' = mine \/ \E a : mine' = [mine EXCEPT ![t] = a]
      /\ request' = request \/ \E a : request' = [request EXCEPT ![t] = a]
  BY DEF ThreadNext, Start, StartLate, Receive, ReceiveEnd, ReceiveFails, CopyRequest, Execute, SendFails,
         CopyOk, Leave, Received
<1>4. /\ toServer' = toServer \/ \E m : toServer' = [toServer EXCEPT ![t] = m]
      /\ toClient' = toClient \/ \E m : toClient' = [toClient EXCEPT ![t] = m]
      /\ shut' = shut \/ shut' = shut \cup {t}
  BY <1>2 DEF ThreadNext, Start, StartLate, Receive, ReceiveEnd, ReceiveFails, CopyRequest, Execute,
     SendFails, CopyOk, Leave, Closed, Delivered, net, server
<1>5. Maps'
  BY <1>1, <1>3, <1>4 DEF Maps
<1>6. \A d \in Clients \ {t} :
          /\ pc'[d] = pc[d] /\ sock'[d] = sock[d] /\ mine'[d] = mine[d]
          /\ request'[d] = request[d] /\ toServer'[d] = toServer[d]
          /\ toClient'[d] = toClient[d] /\ (d \in shut' => d \in shut)
  BY <1>3, <1>4 DEF Maps, QueueInv, FieldsInv
<1>7. \A d \in Clients \ {t} : Talk(d)'
  BY <1>1, <1>6, TalkElsewhere
<1> QED
  BY <1>1, <1>5, <1>6, <1>7

\* The buffer is nobody else's while a thread makes a string of it.
LEMMA ThreadBuffer ==
    ASSUME QueueInv, Maps, NEW t \in Clients, ThreadNext(t), BufferInv, flaws' = {},
           \A d \in Clients \ {t} : pc'[d] = pc[d] /\ mine'[d] = mine[d]
    PROVE  BufferInv'
<1>1. CASE Receive(t)
  <2>1. Copying = {}
    BY <1>1 DEF Receive
  <2>2. \A d \in Copying' : d = t
    BY <2>1 DEF Copying
  <2>3. mine'[t] = buff'
    BY <1>1 DEF Receive, Received, Maps
  <2> QED
    BY <2>2, <2>3 DEF BufferInv
<1>2. CASE ~Receive(t)
  <2>1. buff' = buff
    BY <1>2 DEF ThreadNext, Start, StartLate, ReceiveEnd, ReceiveFails, CopyRequest, Execute, SendFails,
           CopyOk
  <2>2. t \in Copying' => mine'[t] = Nothing
    BY <1>2 DEF ThreadNext, Start, StartLate, ReceiveEnd, ReceiveFails, CopyRequest, Execute, SendFails,
           CopyOk, Leave, Received, Copying, QueueInv, Maps
  <2>3. \A d \in Copying' \ {t} : d \in Copying /\ mine'[d] = mine[d]
    BY DEF Copying
  <2> QED
    BY <2>1, <2>2, <2>3 DEF BufferInv
<1> QED
  BY <1>1, <1>2

\* A thread begins to serve its own connection.
LEMMA StartTalk ==
    ASSUME QueueInv, FieldsInv, Maps, NEW t \in Clients, Talk(t), Start(t), flaws' = {}
    PROVE  Talk(t)'
<1>1. /\ pc[t] = "started" /\ pc' = [pc EXCEPT ![t] = "receive"] /\ clientSock = t
      /\ sock' = [sock EXCEPT ![t] = clientSock]
      /\ UNCHANGED <<client, got, toServer, toClient, shut, main>>
  BY DEF Start, Runs, net
<1>2. pc'[t] = "receive" /\ sock'[t] = t /\ client' = client
  BY <1>1 DEF QueueInv, FieldsInv
<1>3. CASE Stage(t)
  <2>1. Free(t) \/ Asked(t)
    BY <1>1, <1>3 DEF Stage, Taken, Executed, Sized, Confirmed, TakenOk, Given
  <2>2. Stage(t)'
    BY <1>1, <1>2, <2>1 DEF Stage, Free, Asked, Silent, LastRequest
  <2> QED
    BY <1>1, <1>2, <2>2 DEF Talk, Gone
<1>4. CASE ~Stage(t)
  BY <1>1, <1>2, <1>4 DEF Talk, Gone
<1> QED
  BY <1>3, <1>4

\* A thread goes on while its client is there, and ends when it is gone.
LEMMA LeaveTalk ==
    ASSUME QueueInv, NEW t \in Clients, Talk(t), ~Gone, pc[t] \notin {"none", "started"},
           ~Stage(t) \/ t \in shut, Leave(t)
    PROVE  Talk(t)'
<1>1. client[t].at \notin {"off", "ready", "size", "answer", "failed"}
  BY DEF Talk
<1>2. sock[t] = t /\ UNCHANGED <<client, sock>>
  BY DEF Talk, Leave
<1> QED
  BY <1>1, <1>2 DEF Talk

\* For a client that is gone a thread may do anything with its own socket.
LEMMA GoesOnAlone ==
    ASSUME NEW t \in Clients, ~Gone, Talk(t), ~Stage(t), pc[t] \notin {"none", "started"},
           UNCHANGED <<client, sock>>
    PROVE  Talk(t)'
<1>1. client[t].at \notin {"off", "ready", "size", "answer", "failed"} /\ sock[t] = t
  BY DEF Talk
<1> QED
  BY <1>1 DEF Talk

\* recv() returns what the client has sent.
LEMMA ReceiveTalk ==
    ASSUME QueueInv, Maps, NEW t \in Clients, Talk(t), Receive(t)
    PROVE  Talk(t)'
<1>1. /\ ~Gone /\ pc[t] \in {"receive", "receive_ok"} /\ sock[t] = t
      /\ toServer[t] # <<>> /\ toServer' = [toServer EXCEPT ![t] = Tail(@)]
      /\ pc' = [pc EXCEPT ![t] = IF @ = "receive" THEN "copy" ELSE "copy_ok"]
      /\ mine' = [mine EXCEPT ![t] = Head(toServer[t])]
      /\ UNCHANGED <<client, got, toClient, shut, main, sock, request>>
  BY DEF Receive, Received, Runs, Talk, server
<1>2. CASE Stage(t)
  <2>1. Asked(t) \/ Confirmed(t)
    BY <1>1, <1>2 DEF Stage, Free, Taken, Executed, Sized, TakenOk, Given, Silent
  <2>2. toServer'[t] = <<>> /\ <<mine'[t]>> = toServer[t]
    BY <1>1, <2>1, OneMessage DEF Maps, Asked, Confirmed
  <2>3. CASE Asked(t)
    <3>1. pc'[t] = "copy"
      BY <1>1, <2>3 DEF QueueInv, Asked
    <3>2. mine'[t] = LastRequest(t)
      BY <2>2, <2>3, OneMessage DEF Asked
    <3>3. Taken(t)'
      BY <1>1, <2>2, <2>3, <3>1, <3>2 DEF Asked, Taken, Silent, LastRequest
    <3> QED
      BY <1>1, <3>3, <1>2, <2>3 DEF Talk, Stage, Asked
  <2>4. CASE Confirmed(t)
    <3>1. pc'[t] = "copy_ok"
      BY <1>1, <2>4 DEF QueueInv, Confirmed
    <3>2. mine'[t] = Ok
      BY <2>2, <2>4, OneMessage DEF Confirmed
    <3>3. TakenOk(t)'
      BY <1>1, <2>2, <2>4, <3>1, <3>2 DEF Confirmed, TakenOk, Silent, LastRequest
    <3> QED
      BY <1>1, <3>3, <1>2, <2>4 DEF Talk, Stage, Confirmed
  <2> QED
    BY <2>1, <2>3, <2>4
<1>3. CASE ~Stage(t)
  BY <1>1, <1>3, GoesOnAlone
<1> QED
  BY <1>2, <1>3

\* recv() returns nothing only when the client is gone.
LEMMA ReceiveEndTalk ==
    ASSUME NEW t \in Clients, Talk(t), ReceiveEnd(t)
    PROVE  Talk(t)'
<1>1. sock[t] = t /\ client[t].at = "closed" /\ UNCHANGED <<client, sock>>
  BY DEF ReceiveEnd, Received, Runs, Talk
<1> QED
  BY <1>1 DEF Talk

\* A socket is closed only when the client is gone.
LEMMA FailsTalk ==
    ASSUME QueueInv, NEW t \in Clients, Talk(t), ReceiveFails(t) \/ SendFails(t)
    PROVE  Talk(t)'
<1>1. ~Gone /\ pc[t] \notin {"none", "started"} /\ sock[t] \in shut /\ Leave(t)
  BY DEF ReceiveFails, SendFails, Runs
<1>2. t \in shut
  BY <1>1 DEF Talk
<1> QED
  BY <1>1, <1>2, LeaveTalk

\* The text a thread makes is the message it received.
LEMMA OwnText ==
    ASSUME BufferInv, ~Stopped, NEW t \in Clients, pc[t] \in {"copy", "copy_ok"}
    PROVE  Texts(t) = {mine[t]}
BY DEF BufferInv, Copying, Texts

\* The request is executed as it was sent.
LEMMA CopyRequestTalk ==
    ASSUME QueueInv, Maps, BufferInv, ~Stopped, NEW t \in Clients, Talk(t), CopyRequest(t)
    PROVE  Talk(t)'
<1>1. ~Gone /\ pc[t] = "copy"
  BY DEF CopyRequest, Runs
<1>2. Texts(t) = {mine[t]}
  BY <1>1, OwnText
<1>3. IF mine[t] = Exit THEN Leave(t)
      ELSE /\ pc' = [pc EXCEPT ![t] = "execute"]
           /\ request' = [request EXCEPT ![t] = mine[t]]
           /\ UNCHANGED <<client, got, net, server, sock, mine>>
  BY <1>2 DEF CopyRequest
<1>4. CASE Stage(t)
  <2>1. Taken(t)
    BY <1>1, <1>4 DEF Stage, Free, Asked, Executed, Sized, Confirmed, TakenOk, Given
  <2>2. mine[t] # Exit
    BY <2>1, Kinds DEF Taken, LastRequest
  <2>3. Executed(t)'
    BY <1>3, <2>1, <2>2 DEF Taken, Executed, Silent, LastRequest, QueueInv, Maps, net
  <2>4. UNCHANGED <<client, shut, main, sock>>
    BY <1>3, <2>2 DEF server
  <2> QED
    BY <1>1, <2>1, <2>3, <2>4 DEF Talk, Stage, Taken
<1>5. CASE ~Stage(t)
  <2>1. CASE Leave(t)
    BY <1>1, <1>5, <2>1, LeaveTalk
  <2>2. CASE ~Leave(t)
    BY <1>1, <1>3, <1>5, <2>2, GoesOnAlone
  <2> QED
    BY <2>1, <2>2
<1> QED
  BY <1>4, <1>5

\* The size is sent.
LEMMA ExecuteTalk ==
    ASSUME QueueInv, Maps, NEW t \in Clients, Talk(t), Execute(t)
    PROVE  Talk(t)'
<1>1. /\ ~Gone /\ pc[t] = "execute" /\ sock[t] = t
      /\ toClient' = Delivered(sock[t], Size(request[t]))
      /\ pc' = [pc EXCEPT ![t] = "receive_ok"]
      /\ UNCHANGED <<client, got, toServer, shut, main, sock, request>>
  BY DEF Execute, Runs, Talk, server
<1>2. CASE Stage(t)
  <2>1. Executed(t)
    BY <1>1, <1>2 DEF Stage, Free, Asked, Taken, Sized, Confirmed, TakenOk, Given
  <2>2. toClient'[t] = <<Size(LastRequest(t))>>
    BY <1>1, <2>1, OneMessage DEF Delivered, Executed, Silent, Maps
  <2>3. Sized(t)'
    BY <1>1, <2>1, <2>2 DEF Executed, Sized, Silent, LastRequest, QueueInv
  <2> QED
    BY <1>1, <1>2, <2>1, <2>3 DEF Talk, Stage, Executed
<1>3. CASE ~Stage(t)
  BY <1>1, <1>3, GoesOnAlone
<1> QED
  BY <1>2, <1>3

\* The answer follows the client's Ok.
LEMMA CopyOkTalk ==
    ASSUME QueueInv, Maps, BufferInv, ~Stopped, NEW t \in Clients, Talk(t), CopyOk(t)
    PROVE  Talk(t)'
<1>1. ~Gone /\ pc[t] = "copy_ok" /\ sock[t] = t
  BY DEF CopyOk, Runs, Talk
<1>2. Texts(t) = {mine[t]}
  BY <1>1, OwnText
<1>3. IF mine[t] # Ok \/ sock[t] \in shut THEN Leave(t)
      ELSE /\ toClient' = Delivered(sock[t], Answer(request[t]))
           /\ pc' = [pc EXCEPT ![t] = "receive"]
           /\ request' = [request EXCEPT ![t] = Nothing]
           /\ UNCHANGED <<client, got, toServer, server, sock, mine>>
  BY <1>2 DEF CopyOk
<1>4. CASE Stage(t) /\ t \notin shut
  <2>1. TakenOk(t)
    BY <1>1, <1>4 DEF Stage, Free, Asked, Taken, Executed, Sized, Confirmed, Given
  <2>2. /\ toClient' = Delivered(t, Answer(request[t])) /\ pc' = [pc EXCEPT ![t] = "receive"]
        /\ UNCHANGED <<client, toServer, shut, main, sock>>
    BY <1>1, <1>3, <1>4, <2>1 DEF TakenOk, server
  <2>3. toClient'[t] = <<Answer(LastRequest(t))>>
    BY <2>1, <2>2, OneMessage DEF Delivered, TakenOk, Silent, Maps
  <2>4. Given(t)'
    BY <2>1, <2>2, <2>3 DEF TakenOk, Given, Silent, LastRequest, QueueInv
  <2> QED
    BY <1>1, <1>4, <2>1, <2>2, <2>4 DEF Talk, Stage, TakenOk
<1>5. CASE ~Stage(t) \/ t \in shut
  <2>1. CASE Leave(t)
    BY <1>1, <1>5, <2>1, LeaveTalk
  <2>2. CASE ~Leave(t)
    <3>1. ~Stage(t) /\ UNCHANGED <<client, sock>>
      BY <1>1, <1>3, <1>5, <2>2
    <3> QED
      BY <1>1, <3>1, GoesOnAlone
  <2> QED
    BY <2>1, <2>2
<1> QED
  BY <1>4, <1>5

\* The steps of the threads.
LEMMA ThreadTalk ==
    ASSUME ServerInv, FieldsInv, TalkInv, NEW t \in Clients, ThreadNext(t)
    PROVE  TalkInv'
<1>1. QueueInv /\ Maps
  BY DEF ServerInv, TalkInv
<1>2. Maps'
  BY <1>1 DEF ThreadNext, Start, StartLate, Receive, ReceiveEnd, ReceiveFails, CopyRequest, Execute,
     SendFails, CopyOk, Leave, Received, Delivered, net, Maps
<1>3. ASSUME flaws' = {} PROVE BufferInv' /\ \A d \in Clients : Talk(d)'
  <2>1. flaws = {}
    BY <1>3 DEF ThreadNext, Start, StartLate, Receive, ReceiveEnd, ReceiveFails, CopyRequest, Execute,
       SendFails, CopyOk
  <2>2. BufferInv /\ \A d \in Clients : Talk(d)
    BY <2>1 DEF TalkInv
  <2>3. /\ \A d \in Clients \ {t} : Talk(d)'
        /\ \A d \in Clients \ {t} : pc'[d] = pc[d] /\ mine'[d] = mine[d]
    BY <1>1, <1>3, <2>2, ThreadElsewhere
  <2>4. BufferInv'
    BY <1>1, <1>3, <2>2, <2>3, ThreadBuffer
  <2>4a. CopyRequest(t) \/ CopyOk(t) => ~Stopped
    BY <2>1 DEF ServerInv, LateInv, CopyRequest, CopyOk, Runs, Processing
  <2>4b. ~StartLate(t)
    BY <1>3 DEF StartLate
  <2>5. Talk(t)'
    BY <1>1, <1>3, <2>2, <2>4a, <2>4b, StartTalk, ReceiveTalk, ReceiveEndTalk, FailsTalk, CopyRequestTalk,
       ExecuteTalk, CopyOkTalk DEF ThreadNext
  <2> QED
    BY <2>3, <2>4, <2>5
<1> QED
  BY <1>2, <1>3 DEF TalkInv

\* The main thread makes threads and stops.
LEMMA MainTalk ==
    ASSUME ServerInv, TalkInv, Accept \/ TypeExit \/ Stop \/ ProcessEnds
    PROVE  TalkInv'
<1>1. QueueInv /\ Maps
  BY DEF ServerInv, TalkInv
<1>2. UNCHANGED <<client, got, toServer, toClient, sock, mine, request, buff, shut, flaws>>
  BY DEF Accept, TypeExit, Stop, ProcessEnds, net, thread
<1>3. Maps'
  BY <1>1, <1>2 DEF Maps
<1>4. CASE Accept
  <2>0. Head(waiting) \in Clients /\ pc[Head(waiting)] = "none"
    BY <1>1, <1>4 DEF QueueInv, Accept
  <2> PICK t \in Clients : t = Head(waiting)
    BY <2>0
  <2>1. pc[t] = "none"
    BY <2>0
  <2>2. main' = main /\ pc' = [pc EXCEPT ![t] = "started"]
    BY <1>4 DEF Accept
  <2>3. pc'[t] = "started" /\ \A d \in Clients \ {t} : pc'[d] = pc[d]
    BY <1>1, <2>1, <2>2 DEF QueueInv
  <2>4. BufferInv => BufferInv'
    BY <1>2, <2>1, <2>3 DEF BufferInv, Copying
  <2>5. \A d \in Clients \ {t} : Talk(d) => Talk(d)'
    BY <1>2, <2>2, <2>3, TalkElsewhere DEF Gone
  <2>6. Stage(t) => Stage(t)'
    BY <1>2, <2>1, <2>3 DEF Stage, Free, Asked, Taken, Executed, Sized, Confirmed, TakenOk,
       Given, Silent, LastRequest
  <2>7. Talk(t) => Talk(t)'
    BY <1>2, <2>2, <2>3, <2>6 DEF Talk, Gone
  <2> QED
    BY <1>2, <1>3, <2>1, <2>4, <2>5, <2>7 DEF TalkInv
<1>5. CASE TypeExit \/ Stop \/ ProcessEnds
  <2>1. pc' = pc /\ (Gone => Gone')
    BY <1>5 DEF TypeExit, Stop, ProcessEnds, thread, Stopped, Gone
  <2>2. \A d \in Clients : Talk(d) => Talk(d)'
    BY <1>2, <2>1, TalkElsewhere
  <2>3. BufferInv => BufferInv'
    BY <1>2, <2>1 DEF BufferInv, Copying
  <2> QED
    BY <1>2, <1>3, <2>2, <2>3 DEF TalkInv
<1> QED
  BY <1>4, <1>5

\* Every step keeps the exchange of messages in order.
LEMMA TalkPreserved == ServerInv /\ FieldsInv /\ TalkInv /\ [Next]_vars => TalkInv'
<1> SUFFICES ASSUME ServerInv, FieldsInv, TalkInv, [Next]_vars PROVE TalkInv'
  OBVIOUS
<1>1. CASE UNCHANGED vars
  <2>1. UNCHANGED <<client, got, toServer, toClient, sock, mine, request, buff, shut, flaws,
                    pc, main>>
    BY <1>1 DEF vars, net, server, thread
  <2>2. \A d \in Clients : Talk(d) => Talk(d)'
    BY <2>1, TalkElsewhere DEF Gone
  <2> QED
    BY <2>1, <2>2 DEF TalkInv, Maps, BufferInv, Copying
<1> QED
  BY <1>1, ClientTalk, ThreadTalk, MainTalk DEF Next

\* A client takes nothing for an answer but the answer of its last request:
\* the two halves of a reception by other threads, dying clients and the exit
\* command do not come in between, as long as no two threads use the buffer at
\* once, no thread reads the next connection's socket, none begins after the exit
\* and no answer is parted.
THEOREM AnswersAreOwn == Spec => []OwnAnswers
<1>1. TalkInv => OwnAnswers
  <2> SUFFICES ASSUME TalkInv, flaws = {}, NEW c \in Clients, client[c].at = "ready",
                      client[c].sent > 0
               PROVE  got[c] = Answer(Request(c, client[c].sent))
    BY DEF OwnAnswers
  <2>1. Stage(c)
    BY DEF TalkInv, Talk
  <2>2. Free(c)
    BY <2>1 DEF Stage, Asked, Taken, Executed, Sized, Confirmed, TakenOk, Given
  <2> QED
    BY <2>2 DEF Free, LastRequest
<1> QED
  BY <1>1, InitFields, FieldsPreserved, InitTalk, TalkPreserved, ServerInvariant, PTL DEF Spec

=============================================================================
