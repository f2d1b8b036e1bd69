----------------------------- MODULE MainWorker -----------------------------
(***************************************************************************)
(* The accept loop and the worker threads of runtime/main_worker.c, with   *)
(* the clients at the other end of the sockets (client_connect.c).         *)
(*                                                                         *)
(* MainWorkerStart accepts into one variable, clnt_sock, and starts each   *)
(* thread with the address of that variable, so a thread serves whoever is *)
(* in it when it gets to read it.  Descriptors are small numbers that the  *)
(* kernel gives out again, the lowest first.                               *)
(*                                                                         *)
(* The kernel's part is external.  A connection is established as soon as  *)
(* it is in the backlog.  A peer that closed reads as 0 bytes; one that    *)
(* closed over an answer it had not read has reset the connection, which a *)
(* read reports once as an error; a write after a reset raises SIGPIPE,    *)
(* which ends the process, since nothing here ignores that signal.         *)
(* A request and an answer travel whole.  What the server makes of a       *)
(* request (RTProcessMain) is left out: the answer is named after it.      *)
(***************************************************************************)
EXTENDS Integers, Sequences

CONSTANTS
  Client,
  MaxFd,      \* descriptors the process may have open for clients, at most
  MaxWorker,  \* bound: worker threads alive at a time
  Mode,       \* the modes to check; each behaviour keeps to one of them
  Nobody,     \* no connection behind a descriptor
  Blank,      \* a message of zeros: its opCode is 0, which is answered too
  Nothing,    \* what KVCRecv copies out when it has read 0 bytes
  Failed      \* GMERR_CLIENT_RECV_FAILED

\* hasty: clients may connect while another is still being handed over.
\* rough: clients may die between request and answer, servers may be stopped.
\* fds: descriptors the process may have open for clients.
Modes == [hasty : BOOLEAN, rough : BOOLEAN, fds : 1 .. MaxFd]

ASSUME MainWorkerAssumption ==
  /\ MaxFd \in Nat \ {0} /\ MaxWorker \in Nat \ {0}
  /\ Mode \subseteq Modes
  /\ Nobody \notin Client

Fd == 1 .. MaxFd
Worker == 1 .. MaxWorker
NoFd == 0

\* A request of a client, and the answer to it.  The tag alternates, so that an
\* answer to the request before is told from one to the last request.
Message == [from : Client, tag : {0, 1}]

VARIABLES
  mode,       \* the choice from Mode, for good
  server,     \* "running", "returned" from main, "killed" by a signal, "stopped"
  acceptPc,   \* "accept", or "create" with a new socket in clnt_sock
  clnt_sock,
  backlog,    \* connections that nobody accepted yet
  fdTable,    \* the client behind each open descriptor
  worker,     \* the threads: pc, their copy of the socket, their message
  client,     \* pc, tag of its last request, what it took for the answer
  conn        \* of a client's connection: its own end, and what is under way

vars == <<mode, server, acceptPc, clnt_sock, backlog, fdTable, worker, client, conn>>

serverVars == <<mode, server, acceptPc, clnt_sock, backlog>>

NoWorker == [pc |-> "none", sock |-> NoFd, message |-> Blank]

NewConn == [peer |-> "open", toServer |-> <<>>, toClient |-> <<>>]

Fresh ==
  /\ server = "running" /\ acceptPc = "accept" /\ clnt_sock = NoFd
  /\ backlog = <<>>
  /\ fdTable = [fd \in Fd |-> Nobody]
  /\ worker = [w \in Worker |-> NoWorker]

Init ==
  /\ mode \in Mode
  /\ Fresh
  /\ client = [c \in Client |-> [pc |-> "off", tag |-> 0, answer |-> Nothing]]
  /\ conn = [c \in Client |-> NewConn]

-----------------------------------------------------------------------------
(* The end of the process: the kernel closes all of its descriptors.       *)

EndServer(how) ==
  /\ server' = how
  /\ backlog' = <<>>
  /\ fdTable' = [fd \in Fd |-> Nobody]
  /\ worker' = [w \in Worker |-> NoWorker]
  /\ UNCHANGED <<mode, acceptPc, clnt_sock, client, conn>>

KVCSrvStop ==
  /\ mode.rough
  /\ server = "running"
  /\ EndServer("stopped")

KVCSrvStart ==
  /\ server # "running"
  /\ server' = "running"
  /\ acceptPc' = "accept"
  /\ clnt_sock' = NoFd
  /\ UNCHANGED <<mode, backlog, fdTable, worker, client, conn>>

-----------------------------------------------------------------------------
(* MainWorkerStart                                                         *)

FreeFd == {fd \in 1 .. mode.fds : fdTable[fd] = Nobody}

Lowest(S) == CHOOSE i \in S : \A j \in S : i <= j

Accept ==
  /\ server = "running" /\ acceptPc = "accept" /\ backlog # <<>>
  /\ FreeFd # {}
  /\ clnt_sock' = Lowest(FreeFd)
  /\ fdTable' = [fdTable EXCEPT ![Lowest(FreeFd)] = Head(backlog)]
  /\ backlog' = Tail(backlog)
  /\ acceptPc' = "create"
  /\ UNCHANGED <<mode, server, worker, client, conn>>

\* Mutant: the -1 is taken for a socket.
AcceptFailsUnnoticed ==
  /\ server = "running" /\ acceptPc = "accept" /\ backlog # <<>>
  /\ FreeFd = {}
  /\ clnt_sock' = -1
  /\ acceptPc' = "create"
  /\ UNCHANGED <<mode, server, backlog, fdTable, worker, client, conn>>

\* accept returns -1, MainWorkerStart returns, and with it main.
AcceptFails ==
  /\ server = "running" /\ acceptPc = "accept" /\ backlog # <<>>
  /\ FreeFd = {}
  /\ EndServer("returned")

\* The thread is given the address of clnt_sock, not its value.
PthreadCreate ==
  /\ server = "running" /\ acceptPc = "create"
  /\ \E w \in Worker :
       /\ worker[w].pc = "none"
       /\ \A v \in Worker : v < w => worker[v].pc # "none"
       /\ worker' = [worker EXCEPT ![w].pc = "start"]
  /\ acceptPc' = "accept"
  /\ UNCHANGED <<mode, server, clnt_sock, backlog, fdTable, client, conn>>

-----------------------------------------------------------------------------
(* client_handler, thread w                                                *)

Goes(w, pc) == worker' = [worker EXCEPT ![w].pc = pc]

Takes(w, message) ==
  worker' = [worker EXCEPT ![w].pc = "write", ![w].message = message]

\* The connection that the thread's descriptor stands for now.
Peer(w) == fdTable[worker[w].sock]

ReadSock(w) ==
  /\ worker[w].pc = "start"
  /\ worker' = [worker EXCEPT ![w].pc = "read", ![w].sock = clnt_sock]
  /\ UNCHANGED <<serverVars, fdTable, client, conn>>

\* Mutant: the request stays in the socket.
ReadRequestPeek(w) ==
  /\ worker[w].pc = "read" /\ Peer(w) # Nobody
  /\ conn[Peer(w)].toServer # <<>>
  /\ Takes(w, Head(conn[Peer(w)].toServer))
  /\ UNCHANGED <<serverVars, fdTable, client, conn>>

ReadRequest(w) ==
  /\ worker[w].pc = "read" /\ Peer(w) # Nobody
  /\ conn[Peer(w)].toServer # <<>>
  /\ Takes(w, Head(conn[Peer(w)].toServer))
  /\ conn' = [conn EXCEPT ![Peer(w)].toServer = Tail(@)]
  /\ UNCHANGED <<serverVars, fdTable, client>>

\* Mutant: the end is taken for an empty request that needs no answer.
ReadEndGoesOn(w) ==
  /\ worker[w].pc = "read" /\ Peer(w) # Nobody
  /\ conn[Peer(w)].toServer = <<>>
  /\ conn[Peer(w)].peer \in {"closed", "closed, reset"}
  /\ Goes(w, "read")
  /\ UNCHANGED <<serverVars, fdTable, client, conn>>

\* str_len is 0: the client has closed its end.
ReadEnd(w) ==
  /\ worker[w].pc = "read" /\ Peer(w) # Nobody
  /\ conn[Peer(w)].toServer = <<>>
  /\ conn[Peer(w)].peer \in {"closed", "closed, reset"}
  /\ Goes(w, "close")
  /\ UNCHANGED <<serverVars, fdTable, client, conn>>

\* str_len is -1, on a reset or a descriptor that is closed.  Only 0 is tested
\* for: the message, all zeros, is processed like a request.
ReadFails(w) ==
  /\ worker[w].pc = "read"
  /\ Peer(w) # Nobody =>
       conn[Peer(w)].toServer = <<>> /\ conn[Peer(w)].peer = "reset"
  /\ Takes(w, Blank)
  /\ UNCHANGED <<serverVars, fdTable, client, conn>>

\* Mutant: the answer goes to the socket that was accepted last.
WriteAnswerToLast(w) ==
  /\ worker[w].pc = "write" /\ clnt_sock # NoFd /\ fdTable[clnt_sock] # Nobody
  /\ conn[fdTable[clnt_sock]].peer = "open"
  /\ conn' = [conn EXCEPT ![fdTable[clnt_sock]].toClient =
                Append(@, worker[w].message)]
  /\ Goes(w, "read")
  /\ UNCHANGED <<serverVars, fdTable, client>>

\* Mutant: no loop, the thread serves one request.
WriteAnswerOnce(w) ==
  /\ worker[w].pc = "write" /\ Peer(w) # Nobody
  /\ conn[Peer(w)].peer = "open"
  /\ conn' = [conn EXCEPT ![Peer(w)].toClient = Append(@, worker[w].message)]
  /\ Goes(w, "close")
  /\ UNCHANGED <<serverVars, fdTable, client>>

\* RTProcessMain, then write.
WriteAnswer(w) ==
  /\ worker[w].pc = "write" /\ Peer(w) # Nobody
  /\ conn[Peer(w)].peer = "open"
  /\ conn' = [conn EXCEPT ![Peer(w)].toClient = Append(@, worker[w].message)]
  /\ Goes(w, "read")
  /\ UNCHANGED <<serverVars, fdTable, client>>

\* The first write to a client that has closed succeeds, and is answered with a
\* reset.
WriteTooLate(w) ==
  /\ worker[w].pc = "write" /\ Peer(w) # Nobody
  /\ conn[Peer(w)].peer = "closed"
  /\ conn' = [conn EXCEPT ![Peer(w)].peer = "closed, reset"]
  /\ Goes(w, "read")
  /\ UNCHANGED <<serverVars, fdTable, client>>

\* Mutant: the thread goes on reading.
WriteFailsGoesOn(w) ==
  /\ worker[w].pc = "write" /\ Peer(w) = Nobody
  /\ Goes(w, "read")
  /\ UNCHANGED <<serverVars, fdTable, client, conn>>

\* write returns -1 because the descriptor is closed.
WriteFails(w) ==
  /\ worker[w].pc = "write" /\ Peer(w) = Nobody
  /\ Goes(w, "close")
  /\ UNCHANGED <<serverVars, fdTable, client, conn>>

WriteRaisesSigpipe(w) ==
  /\ worker[w].pc = "write" /\ Peer(w) # Nobody
  /\ conn[Peer(w)].peer \in {"reset", "closed, reset"}
  /\ EndServer("killed")

\* Mutant: the thread ends without closing its socket.
CloseNothing(w) ==
  /\ worker[w].pc = "close"
  /\ worker' = [worker EXCEPT ![w] = NoWorker]
  /\ UNCHANGED <<serverVars, fdTable, client, conn>>

Close(w) ==
  /\ worker[w].pc = "close"
  /\ fdTable' = [fdTable EXCEPT ![worker[w].sock] = Nobody]
  /\ worker' = [worker EXCEPT ![w] = NoWorker]
  /\ UNCHANGED <<serverVars, client, conn>>

-----------------------------------------------------------------------------
(* Clients                                                                 *)

\* The server has an end of the connection.
IsOpen(c) ==
  \/ \E fd \in Fd : fdTable[fd] = c
  \/ \E i \in 1 .. Len(backlog) : backlog[i] = c

\* A socket is on its way from accept to the thread that will serve it.
HandingOver ==
  \/ backlog # <<>>
  \/ acceptPc = "create"
  \/ \E w \in Worker : worker[w].pc = "start"

\* A client connects again only when its former connection is gone, so that one
\* connection record is enough for it.
KVCConnect(c) ==
  /\ server = "running"
  /\ client[c].pc = "off" /\ ~ IsOpen(c)
  /\ mode.hasty \/ ~ HandingOver
  /\ client' = [client EXCEPT ![c].pc = "connected", ![c].answer = Nothing]
  /\ conn' = [conn EXCEPT ![c] = NewConn]
  /\ backlog' = Append(backlog, c)
  /\ UNCHANGED <<mode, server, acceptPc, clnt_sock, fdTable, worker>>

KVCSend(c) ==
  /\ client[c].pc = "connected"
  /\ client' = [client EXCEPT ![c].pc = "waiting", ![c].tag = 1 - @]
  /\ conn' = [conn EXCEPT ![c].toServer =
                IF IsOpen(c) THEN Append(@, [from |-> c, tag |-> 1 - client[c].tag])
                             ELSE @]
  /\ UNCHANGED <<serverVars, fdTable, worker>>

Got(c, answer) ==
  client' = [client EXCEPT ![c].pc = "connected", ![c].answer = answer]

KVCRecv(c) ==
  /\ client[c].pc = "waiting" /\ conn[c].toClient # <<>>
  /\ Got(c, Head(conn[c].toClient))
  /\ conn' = [conn EXCEPT ![c].toClient = Tail(@)]
  /\ UNCHANGED <<serverVars, fdTable, worker>>

\* The server has closed: read returns -1, or 0, which KVCRecv takes for an
\* answer.
KVCRecvEnd(c) ==
  /\ client[c].pc = "waiting" /\ conn[c].toClient = <<>> /\ ~ IsOpen(c)
  /\ \E answer \in {Nothing, Failed} : Got(c, answer)
  /\ UNCHANGED <<serverVars, fdTable, worker, conn>>

Leaves(c) ==
  /\ client' = [client EXCEPT ![c].pc = "off"]
  /\ conn' = [conn EXCEPT ![c].peer = IF conn[c].toClient = <<>> THEN "closed"
                                                                 ELSE "reset"]
  /\ UNCHANGED <<serverVars, fdTable, worker>>

KVCDisconnect(c) == client[c].pc = "connected" /\ Leaves(c)

\* The client's process ends while it waits for the answer.
Die(c) == mode.rough /\ client[c].pc = "waiting" /\ Leaves(c)

-----------------------------------------------------------------------------

AcceptLoop == Accept \/ AcceptFails \/ PthreadCreate

ClientHandler(w) ==
  \/ ReadSock(w)
  \/ ReadRequest(w) \/ ReadEnd(w) \/ ReadFails(w)
  \/ WriteAnswer(w) \/ WriteTooLate(w) \/ WriteFails(w) \/ WriteRaisesSigpipe(w)
  \/ Close(w)

Next ==
  \/ AcceptLoop
  \/ \E w \in Worker : ClientHandler(w)
  \/ \E c \in Client : \/ KVCConnect(c) \/ KVCSend(c) \/ KVCRecv(c)
                       \/ KVCRecvEnd(c) \/ KVCDisconnect(c) \/ Die(c)
  \/ KVCSrvStop
  \/ KVCSrvStart

Spec == Init /\ [][Next]_vars

\* Every thread of the server runs, and a client that waits reads its answer.
FairSpec ==
  /\ Spec
  /\ WF_vars(AcceptLoop)
  /\ \A w \in Worker : WF_vars(ClientHandler(w))
  /\ \A c \in Client : WF_vars(KVCRecv(c) \/ KVCRecvEnd(c))

-----------------------------------------------------------------------------
(* Properties                                                              *)

TypeOK ==
  /\ mode \in Mode
  /\ server \in {"running", "returned", "killed", "stopped"}
  /\ acceptPc \in {"accept", "create"}
  /\ clnt_sock \in Fd \cup {NoFd}
  /\ backlog \in Seq(Client)
  /\ fdTable \in [Fd -> Client \cup {Nobody}]
  /\ worker \in [Worker -> [pc      : {"none", "start", "read", "write", "close"},
                            sock    : Fd \cup {NoFd},
                            message : Message \cup {Blank}]]
  /\ client \in [Client -> [pc     : {"off", "connected", "waiting"},
                            tag    : {0, 1},
                            answer : Message \cup {Blank, Nothing, Failed}]]
  /\ conn \in [Client -> [peer     : {"open", "closed", "reset", "closed, reset"},
                          toServer : Seq(Message),
                          toClient : Seq(Message \cup {Blank})]]

\* The threads that serve a descriptor, or are about to.
Servers(fd) ==
  {w \in Worker : \/ worker[w].pc \in {"read", "write", "close"} /\ worker[w].sock = fd
                  \/ worker[w].pc = "start" /\ clnt_sock = fd}

BeingCreated(fd) == acceptPc = "create" /\ clnt_sock = fd

\* Each client that was accepted has a thread of its own, as the comment at
\* pthread_create says: no descriptor is served by two threads, none is left
\* without a thread, and no thread holds a descriptor that is closed.
EachClientHasItsWorker ==
  server = "running" =>
    \A fd \in Fd :
      IF fdTable[fd] = Nobody
        THEN Servers(fd) = {}
        ELSE \/ \E w \in Worker : Servers(fd) = {w} /\ ~ BeingCreated(fd)
             \/ Servers(fd) = {} /\ BeingCreated(fd)

\* So it is, whoever dies and whatever is stopped, if clients connect one after
\* the other.
OneByOneEachHasItsWorker == ~ mode.hasty => EachClientHasItsWorker

\* No client is ever sent an answer to a request of another client, or to an
\* earlier request of its own, though descriptors are given out again, if
\* clients connect one after the other.
AnswersToAsker ==
  ~ mode.hasty => \A c \in Client : \A i \in 1 .. Len(conn[c].toClient) :
    conn[c].toClient[i] = [from |-> c, tag |-> client[c].tag]

\* What a client took for the answer is the answer to its last request, unless
\* its connection has ended, if clients connect one after the other.
AnswersMatchRequests ==
  ~ mode.hasty => \A c \in Client :
    client[c].pc = "connected" /\ client[c].answer \notin {Nothing, Failed} =>
      client[c].answer = [from |-> c, tag |-> client[c].tag]

\* A client whose connection is closed is noticed by a failing write, which
\* ends its thread, as the comment in client_handler says, and nothing else.
ServerSurvivesClients == server # "killed"

\* Every request is answered, with its own answer, if clients connect one after
\* the other, nobody dies, and there are descriptors enough.
RequestsAnswered ==
  ~ mode.hasty /\ ~ mode.rough /\ mode.fds = MaxFd => \A c \in Client :
    client[c].pc = "waiting" ~>
      client[c].pc = "connected"
        /\ client[c].answer = [from |-> c, tag |-> client[c].tag]

\* When a client has left or died, its end of the connection is closed on the
\* server in the end, if clients connect one after the other.
SocketsReclaimed ==
  ~ mode.hasty => \A c \in Client : client[c].pc = "off" ~> ~ IsOpen(c)

\* When the last client has left, every thread ends, even after a hasty start and
\* when another thread has closed its descriptor.
ThreadsEnd ==
  <>[](\A c \in Client : client[c].pc = "off")
    => <>[](\A w \in Worker : worker[w].pc = "none")

=============================================================================
