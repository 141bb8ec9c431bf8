------------------------------ MODULE DBServer ------------------------------
(***************************************************************************)
(* The connection between the database and its clients: class DBServer,    *)
(* its base ClientServerBase, and class DBClient (database/client_server). *)
(* The main thread accepts connections and gives each a thread; a request  *)
(* is answered in four messages: the request, the size of the answer, the  *)
(* client's Ok, the answer.                                                *)
(*                                                                         *)
(* A connection is named after its client.  A message is one send() and is *)
(* received by one recv(), except a long answer, of which recv() may       *)
(* return a part.  All threads of the server receive into the one buffer   *)
(* of the object, without a lock, so a reception is two steps: recv()      *)
(* fills the buffer, and a string is made of it.  What a request does to   *)
(* the tables is modelled elsewhere (TableLock, TableStore).               *)
(***************************************************************************)
EXTENDS Naturals, Sequences, FiniteSets

CONSTANTS Clients,      \* DBClient objects; each connects once
          MaxRequests   \* bound: requests of each client

ASSUME ClientsFinite  == IsFiniteSet(Clients)
ASSUME RequestsBounded == MaxRequests \in [Clients -> Nat]

VARIABLES client,     \* where each client stands and how many requests it sent
          got,        \* the last answer of each client
          toServer,   \* the messages under way to the server, per connection
          toClient,   \* the messages under way to each client
          waiting,    \* the connections nobody has accepted yet
          clientSock, \* the variable of wait_loop the threads refer to
          pc,         \* where the server's thread of each connection stands
          sock,       \* the socket it serves
          mine,       \* the message its last recv() returned
          request,    \* the request it executes
          buff,       \* ClientServerBase::buff of the server
          clientsCnt, exit, \* DBServer's fields
          shut,       \* the sockets the server has closed
          main,       \* where the main thread stands; history: the connections that
                      \* were accepted and not counted when wait_loop returned
          flaws       \* history: which of the four weaknesses showed

net    == <<toServer, toClient>>
server == <<waiting, clientSock, clientsCnt, exit, shut, main>>
thread == <<pc, sock, mine, request>>
vars   == <<client, got, net, server, thread, buff, flaws>>

ThreadAt == {"none", "started", "receive", "copy", "execute", "receive_ok", "copy_ok",
             "ended"}

Nobody == "nobody"

\* Texts, as far as somebody looks at them.
Request(c, n) == <<"request", c, n>>
Size(text)    == <<"size", text>>
Answer(text)  == <<"answer", text>>
Ok      == <<"Ok">>
Exit    == <<"exit">>
Nothing == <<"">>        \* recv() returned 0: the connection is closed
Mixed   == <<"mixed">>   \* a text with bytes of several messages
Part    == <<"part">>    \* the beginning or the end of an answer

\* The threads between the constructor and the destructor of their PGuard.
Processing == {t \in Clients : pc[t] \notin {"none", "started", "ended"}}

\* wait_loop has returned: main destroys the server and the database.
Stopped == main.at # "waits"
\* The process has ended, and with it its threads.
Gone    == main.at = "gone"

TypeOK ==
    /\ main.at \in {"waits", "returned", "gone"} /\ main.late \subseteq Clients
    /\ \A c \in Clients :
          /\ client[c].at \in {"off", "ready", "size", "answer", "failed", "closed"}
          /\ client[c].sent \in 0..MaxRequests[c]
          /\ c \in Processing => sock[c] \in Clients
    /\ pc \in [Clients -> ThreadAt]
    /\ clientSock \in Clients \cup {Nobody}
    /\ clientsCnt \in 0..Cardinality(Clients)
    /\ exit \in BOOLEAN
    /\ shut \subseteq Clients
    /\ flaws \subseteq {"mixed", "wrong_socket", "partial", "destroyed"}

Connected == {c \in Clients : client[c].at \notin {"off", "closed"}}

-----------------------------------------------------------------------------
(* The client.                                                             *)

Goes(c, at) == client' = [client EXCEPT ![c].at = at]
Sends(c, m) == toServer' = IF c \in shut THEN toServer ELSE [toServer EXCEPT ![c] = Append(@, m)]

\* The client is gone, with what it has not received.
Vanishes(c) ==
    /\ Goes(c, "closed")
    /\ got' = [got EXCEPT ![c] = Nothing]
    /\ toClient' = [toClient EXCEPT ![c] = <<>>]

\* DBClient::DBClient: the connection waits in the server's backlog.
Connect(c) ==
    /\ client[c].at = "off" /\ ~Gone
    /\ Goes(c, "ready")
    /\ waiting' = Append(waiting, c)
    /\ UNCHANGED <<got, net, clientSock, clientsCnt, exit, shut, main, thread, buff, flaws>>

\* send_request.
SendRequest(c) ==
    /\ client[c].at = "ready" /\ client[c].sent < MaxRequests[c]
    /\ client' = [client EXCEPT ![c].at = "size", ![c].sent = @ + 1]
    /\ Sends(c, Request(c, client'[c].sent))
    /\ UNCHANGED <<got, toClient, server, thread, buff, flaws>>

\* Of a message that should be the answer's size, whether stoll reads a
\* number; the end of an answer may begin with one.
IsNumber(m) == IF m = Part THEN BOOLEAN ELSE {m[1] = "size"}

ReceiveSize(c) ==
    /\ client[c].at = "size" /\ toClient[c] # <<>>
    /\ toClient' = [toClient EXCEPT ![c] = Tail(@)]
    /\ \E number \in IsNumber(Head(toClient[c])) :
          IF number THEN Goes(c, "answer") /\ Sends(c, Ok)
          ELSE Goes(c, "failed") /\ UNCHANGED toServer
    /\ UNCHANGED <<got, server, thread, buff, flaws>>

\* Whatever comes next is taken for the answer; what recv() did not return
\* of it stays in the socket.
ReceiveAnswer(c) ==
    /\ client[c].at = "answer" /\ toClient[c] # <<>>
    /\ Goes(c, "ready")
    /\ \/ /\ got' = [got EXCEPT ![c] = Head(toClient[c])]
          /\ toClient' = [toClient EXCEPT ![c] = Tail(@)]
          /\ UNCHANGED flaws
       \/ /\ Head(toClient[c])[1] = "answer"
          /\ got' = [got EXCEPT ![c] = Part]
          /\ toClient' = [toClient EXCEPT ![c][1] = Part]
          /\ flaws' = flaws \cup {"partial"}
    /\ UNCHANGED <<toServer, server, thread, buff>>

\* The server has closed the connection and recv() returns 0: no size, which
\* throws, or an empty answer.
ReceiveNothing(c) ==
    /\ toClient[c] = <<>> /\ (c \in shut \/ Gone)
    /\ \/ client[c].at = "size" /\ Goes(c, "failed") /\ UNCHANGED got
       \/ /\ client[c].at = "answer" /\ Goes(c, "ready")
          /\ got' = [got EXCEPT ![c] = Nothing]
    /\ UNCHANGED <<net, server, thread, buff, flaws>>

\* ~DBClient, in the course of things or of an exception.
Quit(c) ==
    /\ client[c].at \in {"ready", "failed"}
    /\ Vanishes(c)
    /\ Sends(c, Exit)
    /\ UNCHANGED <<server, thread, buff, flaws>>

\* The client's process dies; no exit is sent.
Die(c) ==
    /\ c \in Connected
    /\ Vanishes(c)
    /\ UNCHANGED <<toServer, server, thread, buff, flaws>>

-----------------------------------------------------------------------------
(* The main thread of the server.                                          *)

\* accept, and a thread that keeps a reference to clientSock.
Accept ==
    /\ ~Stopped /\ waiting # <<>>
    /\ clientSock' = Head(waiting)
    /\ waiting' = Tail(waiting)
    /\ pc' = [pc EXCEPT ![Head(waiting)] = "started"]
    /\ UNCHANGED <<client, got, net, clientsCnt, exit, shut, main, sock, mine, request,
                   buff, flaws>>

\* wait_command, in its own thread.
TypeExit ==
    /\ ~exit
    /\ exit' = TRUE
    /\ UNCHANGED <<client, got, net, waiting, clientSock, clientsCnt, shut, main, thread,
                   buff, flaws>>

\* Mutation: the clients are not counted.
MutCheckExit == exit

CheckExit == clientsCnt = 0 /\ exit

\* select has timed out and check_exit holds: wait_loop returns.  A connection
\* may have come in since the timeout, and accepted threads may not be counted.
Stop ==
    /\ ~Stopped /\ CheckExit
    /\ main' = [at |-> "returned", late |-> {t \in Clients : pc[t] = "started"}]
    /\ UNCHANGED <<client, got, net, waiting, clientSock, clientsCnt, exit, shut, thread, buff,
                   flaws>>

\* main has destroyed its objects and returns, or dies of what its threads do to
\* them: the threads, which are detached, end wherever they are.
ProcessEnds ==
    /\ main.at = "returned"
    /\ main' = [main EXCEPT !.at = "gone"]
    /\ UNCHANGED <<client, got, net, waiting, clientSock, clientsCnt, exit, shut, thread, buff,
                   flaws>>

-----------------------------------------------------------------------------
(* The thread of a connection: request_processing.                         *)

\* send(): a message to a client that is gone is lost.
Delivered(s, m) ==
    IF client[s].at = "closed" THEN toClient ELSE [toClient EXCEPT ![s] = Append(@, m)]

Runs(t, at) == ~Gone /\ pc[t] = at

\* The thread reads clientSock, which may be a later connection's by now,
\* and PGuard counts it.
Start(t) ==
    /\ Runs(t, "started") /\ ~Stopped
    /\ pc' = [pc EXCEPT ![t] = "receive"]
    /\ sock' = [sock EXCEPT ![t] = clientSock]
    /\ clientsCnt' = clientsCnt + 1
    /\ flaws' = IF clientSock = t THEN flaws ELSE flaws \cup {"wrong_socket"}
    /\ UNCHANGED <<client, got, net, waiting, clientSock, exit, shut, main, mine, request, buff>>

\* After wait_loop there is no clientSock, and what the thread counts in is
\* being destroyed: it finds any number, and serves it if it is a socket's.
StartLate(t) ==
    /\ Runs(t, "started") /\ Stopped
    /\ \/ /\ pc' = [pc EXCEPT ![t] = "receive"]
          /\ \E s \in Clients : sock' = [sock EXCEPT ![t] = s]
          /\ clientsCnt' = clientsCnt + 1
       \/ /\ pc' = [pc EXCEPT ![t] = "ended"]
          /\ UNCHANGED <<sock, clientsCnt>>
    /\ flaws' = flaws \cup {"destroyed"}
    /\ UNCHANGED <<client, got, net, waiting, clientSock, exit, shut, main, mine, request, buff>>

\* Mutation: the socket is not closed.
MutClosed(s) == shut

Closed(s) == shut \cup {s}

\* Mutation: the client stays counted.
MutLeave(t) ==
    /\ pc' = [pc EXCEPT ![t] = "ended"]
    /\ mine' = [mine EXCEPT ![t] = Nothing]
    /\ request' = [request EXCEPT ![t] = Nothing]
    /\ shut' = Closed(sock[t])
    /\ toServer' = [toServer EXCEPT ![sock[t]] = <<>>]
    /\ UNCHANGED <<client, got, toClient, waiting, clientSock, clientsCnt, exit, main,
                   sock>>

\* ~PGuard, after exit or an exception.
Leave(t) ==
    /\ pc' = [pc EXCEPT ![t] = "ended"]
    /\ mine' = [mine EXCEPT ![t] = Nothing]
    /\ request' = [request EXCEPT ![t] = Nothing]
    /\ clientsCnt' = clientsCnt - 1
    /\ shut' = Closed(sock[t])
    /\ toServer' = [toServer EXCEPT ![sock[t]] = <<>>]
    /\ UNCHANGED <<client, got, toClient, waiting, clientSock, exit, main, sock>>

Copying == {t \in Clients : pc[t] \in {"copy", "copy_ok"}}

\* What recv() returned is to be made a string.
Received(t, m) ==
    /\ pc' = [pc EXCEPT ![t] = IF @ = "receive" THEN "copy" ELSE "copy_ok"]
    /\ mine' = [mine EXCEPT ![t] = m]
    /\ UNCHANGED <<sock, request>>

\* receive, first half: recv() writes to buff.
Receive(t) ==
    LET s == sock[t] IN
    /\ Runs(t, "receive") \/ Runs(t, "receive_ok")
    /\ s \notin shut /\ toServer[s] # <<>>
    /\ buff' = Head(toServer[s])
    /\ toServer' = [toServer EXCEPT ![s] = Tail(@)]
    /\ Received(t, Head(toServer[s]))
    /\ flaws' = IF Copying = {} THEN flaws ELSE flaws \cup {"mixed"}
    /\ UNCHANGED <<client, got, toClient, server>>

\* recv() returns 0 when the client is gone.
ReceiveEnd(t) ==
    LET s == sock[t] IN
    /\ Runs(t, "receive") \/ Runs(t, "receive_ok")
    /\ s \notin shut /\ toServer[s] = <<>> /\ client[s].at = "closed"
    /\ Received(t, Nothing)
    /\ UNCHANGED <<client, got, net, server, buff, flaws>>

\* Another thread has closed the socket: recv() fails and receive throws.
ReceiveFails(t) ==
    /\ Runs(t, "receive") \/ Runs(t, "receive_ok")
    /\ sock[t] \in shut
    /\ Leave(t)
    /\ UNCHANGED <<buff, flaws>>

\* The text that receive makes of the buffer: as many bytes as recv()
\* returned.  If another message has come in between, they are bytes of both,
\* or, of a request as long, that request.  A buffer that is destroyed may hold
\* anything.
Texts(t) ==
    IF mine[t] = Nothing \/ (mine[t] = buff /\ ~Stopped) THEN {mine[t]}
    ELSE {Mixed} \cup {text \in {buff} : mine[t][1] = "request" /\ text[1] = "request"}

\* receive, second half, of a request.
CopyRequest(t) ==
    /\ Runs(t, "copy")
    /\ \E text \in Texts(t) :
          IF text = Exit THEN Leave(t)
          ELSE /\ pc' = [pc EXCEPT ![t] = "execute"]
               /\ request' = [request EXCEPT ![t] = text]
               /\ UNCHANGED <<client, got, net, server, sock, mine>>
    /\ UNCHANGED <<buff, flaws>>

\* Mutation: the answer does not wait for the client's Ok.
MutExecute(t) ==
    /\ Runs(t, "execute") /\ sock[t] \notin shut
    /\ toClient' = [toClient EXCEPT ![sock[t]] =
                        @ \o <<Size(request[t]), Answer(request[t])>>]
    /\ pc' = [pc EXCEPT ![t] = "receive"]
    /\ UNCHANGED <<client, got, toServer, server, sock, mine, request, buff, flaws>>

\* execute_request answers every text, if only with Err; the size is sent.
Execute(t) ==
    /\ Runs(t, "execute") /\ sock[t] \notin shut
    /\ toClient' = Delivered(sock[t], Size(request[t]))
    /\ pc' = [pc EXCEPT ![t] = "receive_ok"]
    /\ UNCHANGED <<client, got, toServer, server, sock, mine, request, buff, flaws>>

SendFails(t) ==
    /\ Runs(t, "execute") /\ sock[t] \in shut
    /\ Leave(t)
    /\ UNCHANGED <<buff, flaws>>

\* receive, second half, of the Ok: the answer, or an exception that blames
\* the client.
CopyOk(t) ==
    /\ Runs(t, "copy_ok")
    /\ \E text \in Texts(t) :
          IF text # Ok \/ sock[t] \in shut THEN Leave(t)
          ELSE /\ toClient' = Delivered(sock[t], Answer(request[t]))
               /\ pc' = [pc EXCEPT ![t] = "receive"]
               /\ request' = [request EXCEPT ![t] = Nothing]
               /\ UNCHANGED <<client, got, toServer, server, sock, mine>>
    /\ UNCHANGED <<buff, flaws>>

-----------------------------------------------------------------------------
Init ==
    /\ client = [c \in Clients |-> [at |-> "off", sent |-> 0]]
    /\ got = [c \in Clients |-> Nothing]
    /\ toServer = [c \in Clients |-> <<>>] /\ toClient = [c \in Clients |-> <<>>]
    /\ waiting = <<>> /\ clientSock = Nobody
    /\ pc = [c \in Clients |-> "none"] /\ sock = [c \in Clients |-> Nobody]
    /\ mine = [c \in Clients |-> Nothing] /\ request = [c \in Clients |-> Nothing]
    /\ buff = Nothing
    /\ clientsCnt = 0 /\ exit = FALSE /\ shut = {} /\ main = [at |-> "waits", late |-> {}]
    /\ flaws = {}

ClientReceives(c) == ReceiveSize(c) \/ ReceiveAnswer(c) \/ ReceiveNothing(c)

ClientNext(c) ==
    \/ Connect(c) \/ SendRequest(c) \/ ClientReceives(c) \/ Quit(c) \/ Die(c)

ThreadNext(t) ==
    \/ Start(t) \/ StartLate(t) \/ Receive(t) \/ ReceiveEnd(t) \/ ReceiveFails(t) \/ CopyRequest(t)
    \/ Execute(t) \/ SendFails(t) \/ CopyOk(t)

Next ==
    \/ \E c \in Clients : ClientNext(c) \/ ThreadNext(c)
    \/ Accept \/ TypeExit \/ Stop \/ ProcessEnds

Spec == Init /\ [][Next]_vars

\* Accepted connections get their threads run, a client that waits for a message
\* takes it, and main, once out of its loop, comes to its end.  Nothing is
\* assumed of new requests or of the command.
FairSpec ==
    /\ Spec
    /\ WF_vars(Accept) /\ WF_vars(Stop) /\ WF_vars(ProcessEnds)
    /\ \A c \in Clients : WF_vars(ThreadNext(c)) /\ WF_vars(ClientReceives(c))

-----------------------------------------------------------------------------
\* clientsCnt is the number of living PGuards, whatever ends a connection, as
\* long as there is a server to count in.
CountIsThreads == ~Stopped => clientsCnt = Cardinality(Processing)

\* The exit command cuts off no request that was being processed: whatever is
\* processed while main destroys the server and the database, and when the
\* process ends, is of a connection that had been accepted and whose thread had
\* not been counted yet when check_exit read the count.
StopsIdle == Stopped => Processing \subseteq main.late

\* A client takes nothing for an answer but the answer of its last request,
\* as long as no two threads used the buffer at once, no thread got another's
\* socket, no answer came in parts and no thread began after the exit.
OwnAnswers ==
    flaws = {} =>
        \A c \in Clients : (client[c].at = "ready" /\ client[c].sent > 0)
                               => got[c] = Answer(Request(c, client[c].sent))

\* A client that waits gets its answer or an error, also when its messages
\* were mixed with others': only a thread that serves another's socket leaves
\* a client alone.
Answered ==
    [](  "wrong_socket" \notin flaws) =>
        \A c \in Clients : client[c].at \in {"size", "answer"}
                               ~> client[c].at \notin {"size", "answer"}

\* When the server blames the client (server.cpp:151), the client did not
\* send Ok.
BlamesRightly ==
    \A t \in Clients :
        (~Stopped /\ pc[t] = "copy_ok" /\ mine[t] = Ok) => Texts(t) = {Ok}
=============================================================================
