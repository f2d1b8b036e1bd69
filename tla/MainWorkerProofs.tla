-------------------------- MODULE MainWorkerProofs --------------------------
(***************************************************************************)
(* Proofs about the accept loop and the worker threads of                  *)
(* runtime/main_worker.c, for all sets of clients, any number of           *)
(* descriptors and threads, and all modes.                                 *)
(*                                                                         *)
(* The first part is types.  The second shows who holds which descriptor   *)
(* while clients connect one after the other (Held), the third what is     *)
(* under way between a client and its thread (AsksInv).                    *)
(***************************************************************************)
EXTENDS MainWorker, SequenceTheorems, WellFoundedInduction, TLAPS

-----------------------------------------------------------------------------
(* Types.                                                                  *)

WorkerT == [pc      : {"none", "start", "read", "write", "close"},
            sock    : Fd \cup {NoFd},
            message : Message \cup {Blank}]

ClientT == [pc     : {"off", "connected", "waiting"},
            tag    : {0, 1},
            answer : Message \cup {Blank, Nothing, Failed}]

ConnT == [peer     : {"open", "closed", "reset", "closed, reset"},
          toServer : Seq(Message),
          toClient : Seq(Message \cup {Blank})]

Down ==
  /\ backlog = <<>>
  /\ \A fd \in Fd : fdTable[fd] = Nobody
  /\ \A w \in Worker : worker[w].pc = "none"

\* A thread that serves a socket, or is to be given one, has one to serve.
TypeInv ==
  /\ TypeOK
  /\ \A w \in Worker : worker[w].pc \in {"read", "write", "close"} => worker[w].sock \in Fd
  /\ \A w \in Worker : worker[w].pc = "start" => clnt_sock \in Fd
  /\ acceptPc = "create" => clnt_sock \in Fd
  /\ server # "running" => Down

\* A descriptor is free exactly if it can be taken, and the lowest is one.
LEMMA LowestIsFree ==
  ASSUME NEW n \in Nat, NEW S, S \subseteq 1 .. n, S # {}
  PROVE  Lowest(S) \in S
<1>0. S \subseteq Nat
  OBVIOUS
<1>1. PICK i \in S : \A j \in S : <<j, i>> \notin OpToRel(<, Nat)
  BY <1>0, NatLessThanWellFounded, WFMin
<1>2. \A j \in S : ~ (j < i)
  BY <1>0, <1>1 DEF OpToRel
<1>3. \A j \in S : i <= j
  <2> TAKE j \in S
  <2>1. i \in Nat /\ j \in Nat /\ ~ (j < i)
    BY <1>2
  <2> QED BY <2>1
<1>4. \E k \in S : \A j \in S : k <= j
  BY <1>3
<1> QED BY <1>4 DEF Lowest

LEMMA FreeFdTyped ==
  ASSUME TypeInv, FreeFd # {}
  PROVE  Lowest(FreeFd) \in Fd /\ fdTable[Lowest(FreeFd)] = Nobody
<1>1. mode.fds \in 1 .. MaxFd
  BY MainWorkerAssumption DEF TypeInv, TypeOK, Modes
<1>2. mode.fds \in Nat /\ MaxFd \in Nat /\ mode.fds <= MaxFd
  BY <1>1, MainWorkerAssumption
<1>3. Lowest(FreeFd) \in FreeFd
  BY <1>2, LowestIsFree DEF FreeFd
<1> QED BY <1>2, <1>3 DEF FreeFd, Fd

LEMMA InitTyped == Init => TypeInv
<1> SUFFICES ASSUME Init PROVE TypeInv
  OBVIOUS
<1>1. worker \in [Worker -> WorkerT] /\ \A w \in Worker : worker[w].pc = "none"
  BY DEF Init, Fresh, NoWorker, WorkerT
<1>2. client \in [Client -> ClientT]
  BY DEF Init, ClientT
<1>3. conn \in [Client -> ConnT]
  BY DEF Init, NewConn, ConnT
<1>4. fdTable \in [Fd -> Client \cup {Nobody}] /\ backlog \in Seq(Client)
  BY DEF Init, Fresh
<1> QED BY <1>1, <1>2, <1>3, <1>4
        DEF Init, Fresh, TypeInv, TypeOK, WorkerT, ClientT, ConnT, NoFd

LEMMA EndTyped ==
  ASSUME TypeInv, NEW how \in {"returned", "killed", "stopped"}, EndServer(how)
  PROVE  TypeInv'
<1>1. worker' \in [Worker -> WorkerT] /\ \A w \in Worker : worker'[w].pc = "none"
  BY DEF EndServer, NoWorker, WorkerT
<1>2. fdTable' \in [Fd -> Client \cup {Nobody}] /\ backlog' \in Seq(Client)
  BY DEF EndServer
<1>3. Down'
  BY <1>1 DEF EndServer, Down
<1> QED BY <1>1, <1>2, <1>3 DEF EndServer, TypeInv, TypeOK, WorkerT

\* A step of one thread that gives it the next state new.
LEMMA WorkerStepTyped ==
  ASSUME TypeInv, NEW w \in Worker, NEW new \in WorkerT,
         server = "running", UNCHANGED serverVars,
         worker' = [worker EXCEPT ![w] = new],
         new.pc \in {"read", "write", "close"} => new.sock \in Fd,
         new.pc = "start" => worker[w].pc = "start",
         fdTable' \in [Fd -> Client \cup {Nobody}],
         conn' \in [Client -> ConnT],
         client' \in [Client -> ClientT]
  PROVE  TypeInv'
<1>1. worker \in [Worker -> WorkerT]
  BY DEF TypeInv, TypeOK, WorkerT
<1>2. /\ worker' \in [Worker -> WorkerT]
      /\ \A v \in Worker : worker'[v] = IF v = w THEN new ELSE worker[v]
  BY <1>1
<1>3. \A v \in Worker : worker'[v].pc \in {"read", "write", "close"} => worker'[v].sock \in Fd
  BY <1>2 DEF TypeInv
<1>4. \A v \in Worker : worker'[v].pc = "start" => clnt_sock' \in Fd
  BY <1>2 DEF TypeInv, serverVars
<1> QED BY <1>2, <1>3, <1>4 DEF TypeInv, TypeOK, WorkerT, ClientT, ConnT, serverVars

\* One part of what is under way on one connection changes.
LEMMA ToServerChanged ==
  ASSUME conn \in [Client -> ConnT], NEW c \in Client, NEW new \in Seq(Message),
         conn' = [conn EXCEPT ![c].toServer = new]
  PROVE  /\ conn' \in [Client -> ConnT]
         /\ conn'[c].toServer = new
         /\ conn'[c].peer = conn[c].peer
         /\ conn'[c].toClient = conn[c].toClient
         /\ \A d \in Client : d # c => conn'[d] = conn[d]
<1>1. conn[c] \in ConnT
  OBVIOUS
<1>2. [conn[c] EXCEPT !.toServer = new] \in ConnT
  BY <1>1 DEF ConnT
<1>3. conn' = [conn EXCEPT ![c] = [conn[c] EXCEPT !.toServer = new]]
  OBVIOUS
<1> QED BY <1>1, <1>2, <1>3 DEF ConnT

LEMMA ToClientChanged ==
  ASSUME conn \in [Client -> ConnT], NEW c \in Client, NEW new \in Seq(Message \cup {Blank}),
         conn' = [conn EXCEPT ![c].toClient = new]
  PROVE  /\ conn' \in [Client -> ConnT]
         /\ conn'[c].toClient = new
         /\ conn'[c].peer = conn[c].peer
         /\ conn'[c].toServer = conn[c].toServer
         /\ \A d \in Client : d # c => conn'[d] = conn[d]
<1>1. conn[c] \in ConnT
  OBVIOUS
<1>2. [conn[c] EXCEPT !.toClient = new] \in ConnT
  BY <1>1 DEF ConnT
<1>3. conn' = [conn EXCEPT ![c] = [conn[c] EXCEPT !.toClient = new]]
  OBVIOUS
<1> QED BY <1>1, <1>2, <1>3 DEF ConnT

LEMMA PeerChanged ==
  ASSUME conn \in [Client -> ConnT], NEW c \in Client, NEW new \in {"open", "closed", "reset", "closed, reset"},
         conn' = [conn EXCEPT ![c].peer = new]
  PROVE  /\ conn' \in [Client -> ConnT]
         /\ conn'[c].peer = new
         /\ conn'[c].toServer = conn[c].toServer
         /\ conn'[c].toClient = conn[c].toClient
         /\ \A d \in Client : d # c => conn'[d] = conn[d]
<1>1. conn[c] \in ConnT
  OBVIOUS
<1>2. [conn[c] EXCEPT !.peer = new] \in ConnT
  BY <1>1 DEF ConnT
<1>3. conn' = [conn EXCEPT ![c] = [conn[c] EXCEPT !.peer = new]]
  OBVIOUS
<1> QED BY <1>1, <1>2, <1>3 DEF ConnT

LEMMA HandlerTyped ==
  ASSUME TypeInv, NEW w \in Worker, ClientHandler(w)
  PROVE  TypeInv'
<1>1. /\ worker \in [Worker -> WorkerT] /\ conn \in [Client -> ConnT]
      /\ client \in [Client -> ClientT] /\ fdTable \in [Fd -> Client \cup {Nobody}]
  BY DEF TypeInv, TypeOK, WorkerT, ConnT, ClientT
<1>2. worker[w].pc # "none"
  BY DEF ClientHandler, ReadSock, ReadRequest, ReadEnd, ReadFails, WriteAnswer,
         WriteTooLate, WriteFails, WriteRaisesSigpipe, Close
<1>3. server = "running"
  BY <1>2 DEF TypeInv, Down
<1>4. worker[w] \in WorkerT /\ worker[w].pc # "none"
  BY <1>1, <1>2
<1>5. Peer(w) # Nobody /\ worker[w].pc \in {"read", "write"} =>
        Peer(w) \in Client /\ conn[Peer(w)] \in ConnT
  BY <1>1 DEF Peer, TypeInv
<1> DEFINE Step(new) == worker' = [worker EXCEPT ![w] = new]
           Same == fdTable' = fdTable /\ client' = client /\ UNCHANGED serverVars
<1>6. ASSUME ReadSock(w) PROVE TypeInv'
  <2> DEFINE new == [worker[w] EXCEPT !.pc = "read", !.sock = clnt_sock]
  <2>1. new \in WorkerT /\ new.pc = "read" /\ new.sock \in Fd
    BY <1>4, <1>6 DEF ReadSock, WorkerT, TypeInv
  <2>2. Step(new) /\ Same /\ conn' = conn
    BY <1>1, <1>6 DEF ReadSock, WorkerT
  <2> QED BY <1>1, <1>3, <2>1, <2>2, WorkerStepTyped
<1>7. ASSUME NEW pc \in {"read", "close"}, Goes(w, pc), Same,
             worker[w].pc \in {"read", "write"}, conn' \in [Client -> ConnT]
      PROVE  TypeInv'
  <2> DEFINE new == [worker[w] EXCEPT !.pc = pc]
  <2>1. new \in WorkerT /\ new.pc = pc /\ new.sock \in Fd
    BY <1>4, <1>7 DEF WorkerT, TypeInv
  <2>2. Step(new)
    BY <1>1, <1>7 DEF Goes, WorkerT
  <2> QED BY <1>1, <1>3, <1>7, <2>1, <2>2, WorkerStepTyped
<1>8. ASSUME NEW message \in Message \cup {Blank}, Takes(w, message), Same,
             worker[w].pc = "read", conn' \in [Client -> ConnT]
      PROVE  TypeInv'
  <2> DEFINE new == [worker[w] EXCEPT !.pc = "write", !.message = message]
  <2>1. new \in WorkerT /\ new.pc = "write" /\ new.sock \in Fd
    BY <1>4, <1>8 DEF WorkerT, TypeInv
  <2>2. Step(new)
    BY <1>1, <1>8 DEF Takes, WorkerT
  <2> QED BY <1>1, <1>3, <1>8, <2>1, <2>2, WorkerStepTyped
<1>9. ASSUME ReadRequest(w) PROVE TypeInv'
  <2>1. Peer(w) \in Client /\ conn[Peer(w)] \in ConnT
    BY <1>5, <1>9 DEF ReadRequest
  <2>2. /\ conn[Peer(w)].toServer \in Seq(Message) /\ conn[Peer(w)].toServer # <<>>
    BY <1>9, <2>1 DEF ReadRequest, ConnT
  <2>3. /\ Head(conn[Peer(w)].toServer) \in Message
        /\ Tail(conn[Peer(w)].toServer) \in Seq(Message)
    BY <2>2, HeadTailProperties
  <2>4. conn' \in [Client -> ConnT]
    BY <1>1, <1>9, <2>1, <2>3, ToServerChanged DEF ReadRequest
  <2> QED BY <1>8, <1>9, <2>3, <2>4 DEF ReadRequest
<1>10. ASSUME ReadEnd(w) PROVE TypeInv'
  BY <1>1, <1>7, <1>10 DEF ReadEnd
<1>11. ASSUME ReadFails(w) PROVE TypeInv'
  BY <1>1, <1>8, <1>11 DEF ReadFails
<1>12. ASSUME WriteAnswer(w) PROVE TypeInv'
  <2>1. Peer(w) \in Client /\ conn[Peer(w)] \in ConnT
    BY <1>5, <1>12 DEF WriteAnswer
  <2>2. worker[w].message \in Message \cup {Blank}
    BY <1>4 DEF WorkerT
  <2>3. Append(conn[Peer(w)].toClient, worker[w].message) \in Seq(Message \cup {Blank})
    <3>1. conn[Peer(w)].toClient \in Seq(Message \cup {Blank})
      BY <2>1 DEF ConnT
    <3> QED BY <2>2, <3>1
  <2>4. conn' \in [Client -> ConnT]
    BY <1>1, <1>12, <2>1, <2>3, ToClientChanged DEF WriteAnswer
  <2> QED BY <1>7, <1>12, <2>4 DEF WriteAnswer
<1>13. ASSUME WriteTooLate(w) PROVE TypeInv'
  <2>1. Peer(w) \in Client
    BY <1>5, <1>13 DEF WriteTooLate
  <2>2. conn' \in [Client -> ConnT]
    BY <1>1, <1>13, <2>1, PeerChanged DEF WriteTooLate
  <2> QED BY <1>7, <1>13, <2>2 DEF WriteTooLate
<1>14. ASSUME WriteFails(w) PROVE TypeInv'
  BY <1>1, <1>7, <1>14 DEF WriteFails
<1>15. ASSUME WriteRaisesSigpipe(w) PROVE TypeInv'
  BY <1>15, EndTyped DEF WriteRaisesSigpipe
<1>16. ASSUME Close(w) PROVE TypeInv'
  <2>1. NoWorker \in WorkerT /\ NoWorker.pc = "none"
    BY DEF NoWorker, WorkerT
  <2>2. fdTable' \in [Fd -> Client \cup {Nobody}]
    BY <1>1, <1>16 DEF Close
  <2> QED BY <1>1, <1>3, <1>16, <2>1, <2>2, WorkerStepTyped DEF Close
<1> QED BY <1>6, <1>9, <1>10, <1>11, <1>12, <1>13, <1>14, <1>15, <1>16 DEF ClientHandler

LEMMA AcceptTyped ==
  ASSUME TypeInv, AcceptLoop
  PROVE  TypeInv'
<1>1. ASSUME Accept PROVE TypeInv'
  <2>1. Lowest(FreeFd) \in Fd
    BY <1>1, FreeFdTyped DEF Accept
  <2>2. backlog \in Seq(Client) /\ backlog # <<>>
    BY <1>1 DEF Accept, TypeInv, TypeOK
  <2>3. Head(backlog) \in Client /\ backlog' \in Seq(Client)
    BY <1>1, <2>2, HeadTailProperties DEF Accept
  <2>4. fdTable' \in [Fd -> Client \cup {Nobody}]
    BY <1>1, <2>1, <2>3 DEF Accept, TypeInv, TypeOK
  <2> QED BY <1>1, <2>1, <2>3, <2>4 DEF Accept, TypeInv, TypeOK
<1>2. ASSUME AcceptFails PROVE TypeInv'
  BY <1>2, EndTyped DEF AcceptFails
<1>3. ASSUME PthreadCreate PROVE TypeInv'
  <2>1. PICK w \in Worker : worker' = [worker EXCEPT ![w].pc = "start"]
    BY <1>3 DEF PthreadCreate
  <2>2. worker \in [Worker -> WorkerT] /\ worker[w] \in WorkerT
    BY DEF TypeInv, TypeOK, WorkerT
  <2>3. [worker[w] EXCEPT !.pc = "start"] \in WorkerT
    BY <2>2 DEF WorkerT
  <2>4. /\ worker' \in [Worker -> WorkerT]
        /\ \A v \in Worker : v # w => worker'[v] = worker[v]
        /\ worker'[w].pc = "start"
    BY <2>1, <2>2, <2>3 DEF WorkerT
  <2>5. \A v \in Worker : worker'[v].pc \in {"read", "write", "close"} => worker'[v].sock \in Fd
    BY <2>4 DEF TypeInv
  <2>6. clnt_sock' \in Fd /\ server' = "running"
    BY <1>3 DEF PthreadCreate, TypeInv
  <2> QED BY <1>3, <2>4, <2>5, <2>6 DEF PthreadCreate, TypeInv, TypeOK, WorkerT
<1> QED BY <1>1, <1>2, <1>3 DEF AcceptLoop

\* A step of a client: the server's own variables are as before, but for one
\* connection more in the backlog.
LEMMA ClientStepTyped ==
  ASSUME TypeInv, UNCHANGED <<mode, server, acceptPc, clnt_sock, fdTable, worker>>,
         backlog' \in Seq(Client), server = "running" \/ backlog' = backlog,
         client' \in [Client -> ClientT], conn' \in [Client -> ConnT]
  PROVE  TypeInv'
BY DEF TypeInv, TypeOK, ClientT, ConnT, Down

LEMMA ClientTyped ==
  ASSUME TypeInv, NEW c \in Client,
         \/ KVCConnect(c) \/ KVCSend(c) \/ KVCRecv(c)
         \/ KVCRecvEnd(c) \/ KVCDisconnect(c) \/ Die(c)
  PROVE  TypeInv'
<1>1. /\ client \in [Client -> ClientT] /\ client[c] \in ClientT
      /\ conn \in [Client -> ConnT] /\ conn[c] \in ConnT /\ backlog \in Seq(Client)
  BY DEF TypeInv, TypeOK, ClientT, ConnT
<1>2. ASSUME KVCConnect(c) PROVE TypeInv'
  <2>1. NewConn \in ConnT
    BY DEF NewConn, ConnT
  <2>2. [client[c] EXCEPT !.pc = "connected", !.answer = Nothing] \in ClientT
    BY <1>1 DEF ClientT
  <2>3. client' \in [Client -> ClientT] /\ conn' \in [Client -> ConnT]
    BY <1>1, <1>2, <2>1, <2>2 DEF KVCConnect, ClientT
  <2> QED BY <1>1, <1>2, <2>3, ClientStepTyped DEF KVCConnect
<1>3. ASSUME KVCSend(c) PROVE TypeInv'
  <2> DEFINE request == [from |-> c, tag |-> 1 - client[c].tag]
             new == IF IsOpen(c) THEN Append(conn[c].toServer, request)
                                 ELSE conn[c].toServer
  <2>1. request \in Message /\ 1 - client[c].tag \in {0, 1}
    BY <1>1 DEF Message, ClientT
  <2>2. [client[c] EXCEPT !.pc = "waiting", !.tag = 1 - @] \in ClientT
    BY <1>1, <2>1 DEF ClientT
  <2>3. client' \in [Client -> ClientT]
    BY <1>1, <1>3, <2>2 DEF KVCSend, ClientT
  <2>4. new \in Seq(Message)
    <3>1. conn[c].toServer \in Seq(Message)
      BY <1>1 DEF ConnT
    <3> QED BY <2>1, <3>1
  <2>5. conn' = [conn EXCEPT ![c].toServer = new]
    BY <1>3 DEF KVCSend
  <2> HIDE DEF new
  <2>6. conn' \in [Client -> ConnT]
    BY <1>1, <2>4, <2>5, ToServerChanged
  <2> QED BY <1>1, <1>3, <2>3, <2>6, ClientStepTyped DEF KVCSend, serverVars
<1>4. ASSUME NEW answer \in Message \cup {Blank, Nothing, Failed}, Got(c, answer)
      PROVE  client' \in [Client -> ClientT]
  <2>1. [client[c] EXCEPT !.pc = "connected", !.answer = answer] \in ClientT
    BY <1>1 DEF ClientT
  <2> QED BY <1>1, <1>4, <2>1 DEF Got, ClientT
<1>5. ASSUME KVCRecv(c) PROVE TypeInv'
  <2>1. conn[c].toClient \in Seq(Message \cup {Blank}) /\ conn[c].toClient # <<>>
    BY <1>1, <1>5 DEF KVCRecv, ConnT
  <2>2. /\ Head(conn[c].toClient) \in Message \cup {Blank}
        /\ Tail(conn[c].toClient) \in Seq(Message \cup {Blank})
    BY <2>1, HeadTailProperties
  <2>3. conn' \in [Client -> ConnT]
    BY <1>1, <1>5, <2>2, ToClientChanged DEF KVCRecv
  <2> QED BY <1>1, <1>4, <1>5, <2>2, <2>3, ClientStepTyped DEF KVCRecv, serverVars
<1>6. ASSUME KVCRecvEnd(c) PROVE TypeInv'
  BY <1>1, <1>4, <1>6, ClientStepTyped DEF KVCRecvEnd, serverVars
<1>7. ASSUME Leaves(c) PROVE TypeInv'
  <2>1. PICK peer \in {"closed", "reset"} : conn' = [conn EXCEPT ![c].peer = peer]
    BY <1>7 DEF Leaves
  <2>2. conn' \in [Client -> ConnT]
    BY <1>1, <2>1, PeerChanged
  <2>3. [client[c] EXCEPT !.pc = "off"] \in ClientT
    BY <1>1 DEF ClientT
  <2>4. client' \in [Client -> ClientT]
    BY <1>1, <1>7, <2>3 DEF Leaves, ClientT
  <2> QED BY <1>1, <1>7, <2>2, <2>4, ClientStepTyped DEF Leaves, serverVars
<1> QED BY <1>2, <1>3, <1>5, <1>6, <1>7 DEF KVCDisconnect, Die

LEMMA StepTyped ==
  ASSUME TypeInv, [Next]_vars
  PROVE  TypeInv'
<1>1. ASSUME KVCSrvStop PROVE TypeInv'
  BY <1>1, EndTyped DEF KVCSrvStop
<1>2. ASSUME KVCSrvStart PROVE TypeInv'
  BY <1>2 DEF KVCSrvStart, TypeInv, TypeOK, Down
<1>3. ASSUME UNCHANGED vars PROVE TypeInv'
  BY <1>3 DEF vars, TypeInv, TypeOK, Down
<1> QED BY <1>1, <1>2, <1>3, AcceptTyped, HandlerTyped, ClientTyped DEF Next

\* The accept loop, the threads and the clients keep to their states, a thread
\* reads and writes only descriptors it was given, and a server that has ended
\* has none of them open.
THEOREM TypeCorrect == Spec => []TypeOK
<1>1. Spec => []TypeInv
  BY InitTyped, StepTyped, PTL DEF Spec
<1>2. TypeInv => TypeOK
  BY DEF TypeInv
<1> QED BY <1>1, <1>2, PTL

-----------------------------------------------------------------------------
(* Who holds which descriptor, when clients connect one after the other.   *)

Alive(w) == worker[w].pc # "none"

Holds(w) == IF worker[w].pc = "start" THEN clnt_sock ELSE worker[w].sock

\* Between accept and the thread's reading of clnt_sock nobody else is accepted.
OneAtATime ==
  /\ Len(backlog) <= 1
  /\ backlog # <<>> => acceptPc = "accept"
  /\ backlog # <<>> \/ acceptPc = "create" => \A w \in Worker : worker[w].pc # "start"

\* A descriptor is open exactly if it is being handed over or one thread holds it.
HolderOpen ==
  \A w \in Worker : Alive(w) => Holds(w) \in Fd /\ fdTable[Holds(w)] # Nobody

HoldersDiffer ==
  \A v, w \in Worker : Alive(v) /\ Alive(w) /\ Holds(v) = Holds(w) => v = w

NewOneUnheld ==
  server = "running" /\ acceptPc = "create" =>
    /\ fdTable[clnt_sock] # Nobody
    /\ \A w \in Worker : Alive(w) => Holds(w) # clnt_sock

OpenHeld ==
  \A fd \in Fd : fdTable[fd] # Nobody =>
    \/ acceptPc = "create" /\ clnt_sock = fd
    \/ \E w \in Worker : Alive(w) /\ Holds(w) = fd

Held == OneAtATime /\ HolderOpen /\ HoldersDiffer /\ NewOneUnheld /\ OpenHeld

LEMMA DownHeld ==
  ASSUME Down
  PROVE  HolderOpen /\ HoldersDiffer /\ OpenHeld
BY DEF Down, Alive, HolderOpen, HoldersDiffer, OpenHeld

LEMMA EndHeld ==
  ASSUME NEW how \in {"returned", "killed", "stopped"}, EndServer(how)
  PROVE  Held'
<1>1. Down' /\ server' # "running"
  BY DEF EndServer, Down, NoWorker
<1>2. HolderOpen' /\ HoldersDiffer' /\ OpenHeld'
  BY <1>1 DEF Down, Alive, HolderOpen, HoldersDiffer, OpenHeld
<1>3. OneAtATime'
  BY <1>1 DEF OneAtATime, Down
<1> QED BY <1>1, <1>2, <1>3 DEF Held, NewOneUnheld

\* A step after which everyone holds what it held.
LEMMA SameHolders ==
  ASSUME Held, UNCHANGED <<server, acceptPc, clnt_sock, fdTable>>,
         \A w \in Worker : /\ Alive(w)' = Alive(w) /\ Holds(w)' = Holds(w)
                           /\ worker'[w].pc = "start" => worker[w].pc = "start",
         backlog' = backlog
  PROVE  Held'
<1>1. OneAtATime'
  BY DEF Held, OneAtATime
<1>2. HolderOpen'
  BY DEF Held, HolderOpen
<1>3. HoldersDiffer'
  BY DEF Held, HoldersDiffer
<1>4. NewOneUnheld'
  BY DEF Held, NewOneUnheld
<1>5. OpenHeld'
  BY DEF Held, OpenHeld
<1> QED BY <1>1, <1>2, <1>3, <1>4, <1>5 DEF Held

LEMMA WorkerChanged ==
  ASSUME TypeInv, NEW w \in Worker, NEW new, worker' = [worker EXCEPT ![w] = new]
  PROVE  /\ worker'[w] = new
         /\ \A v \in Worker : v # w => worker'[v] = worker[v]
<1>1. DOMAIN worker = Worker
  BY DEF TypeInv, TypeOK
<1> QED BY <1>1

LEMMA HandlerHeld ==
  ASSUME TypeInv, Held, NEW w \in Worker, ClientHandler(w)
  PROVE  Held'
<1>1. worker \in [Worker -> WorkerT] /\ worker[w] \in WorkerT
  BY DEF TypeInv, TypeOK, WorkerT
<1>2. ASSUME NEW pc \in {"read", "write", "close"}, worker[w].pc \in {"read", "write"},
             worker'[w].pc = pc, worker'[w].sock = worker[w].sock,
             \A v \in Worker : v # w => worker'[v] = worker[v],
             UNCHANGED serverVars, fdTable' = fdTable
      PROVE  Held'
  <2>1. \A v \in Worker : /\ Alive(v)' = Alive(v) /\ Holds(v)' = Holds(v)
                          /\ worker'[v].pc = "start" => worker[v].pc = "start"
    BY <1>2 DEF Alive, Holds, serverVars
  <2> QED BY <1>2, <2>1, SameHolders DEF serverVars
<1>3. ASSUME NEW pc \in {"read", "close"}, worker[w].pc \in {"read", "write"},
             Goes(w, pc), UNCHANGED serverVars, fdTable' = fdTable
      PROVE  Held'
  <2>1. /\ worker'[w].pc = pc /\ worker'[w].sock = worker[w].sock
        /\ \A v \in Worker : v # w => worker'[v] = worker[v]
    BY <1>1, <1>3 DEF Goes, WorkerT
  <2> QED BY <1>2, <1>3, <2>1
<1>4. ASSUME NEW message, worker[w].pc = "read",
             Takes(w, message), UNCHANGED serverVars, fdTable' = fdTable
      PROVE  Held'
  <2>1. /\ worker'[w].pc = "write" /\ worker'[w].sock = worker[w].sock
        /\ \A v \in Worker : v # w => worker'[v] = worker[v]
    BY <1>1, <1>4 DEF Takes, WorkerT
  <2> QED BY <1>2, <1>4, <2>1
<1>5. ASSUME ReadSock(w) PROVE Held'
  <2>1. /\ worker'[w].pc = "read" /\ worker'[w].sock = clnt_sock /\ worker[w].pc = "start"
        /\ \A v \in Worker : v # w => worker'[v] = worker[v]
        /\ clnt_sock' = clnt_sock
    BY <1>1, <1>5 DEF ReadSock, WorkerT, serverVars
  <2>2. \A v \in Worker : /\ Alive(v)' = Alive(v) /\ Holds(v)' = Holds(v)
                          /\ worker'[v].pc = "start" => worker[v].pc = "start"
    BY <2>1 DEF Alive, Holds
  <2> QED BY <1>5, <2>2, SameHolders DEF ReadSock, serverVars
<1>6. ASSUME ReadRequest(w) \/ ReadFails(w) PROVE Held'
  BY <1>4, <1>6 DEF ReadRequest, ReadFails
<1>7. ASSUME ReadEnd(w) \/ WriteAnswer(w) \/ WriteTooLate(w) \/ WriteFails(w) PROVE Held'
  BY <1>3, <1>7 DEF ReadEnd, WriteAnswer, WriteTooLate, WriteFails
<1>8. ASSUME WriteRaisesSigpipe(w) PROVE Held'
  BY <1>8, EndHeld DEF WriteRaisesSigpipe
<1>9. ASSUME Close(w) PROVE Held'
  <2> DEFINE fd == worker[w].sock
  <2>1. /\ fd \in Fd /\ Alive(w) /\ Holds(w) = fd
        /\ UNCHANGED <<server, acceptPc, clnt_sock, backlog>>
    BY <1>9 DEF Close, TypeInv, Alive, Holds, serverVars
  <2>2. /\ ~ Alive(w)'
        /\ \A v \in Worker : v # w => Alive(v)' = Alive(v) /\ Holds(v)' = Holds(v)
        /\ \A v \in Worker : worker'[v].pc = "start" => worker[v].pc = "start"
    BY <1>1, <1>9, <2>1 DEF Close, NoWorker, Alive, Holds
  <2>3. fdTable'[fd] = Nobody /\ \A i \in Fd : i # fd => fdTable'[i] = fdTable[i]
    BY <1>9, <2>1 DEF Close, TypeInv, TypeOK
  <2>4. \A v \in Worker : Alive(v)' => v # w /\ Alive(v) /\ Holds(v)' = Holds(v) /\ Holds(v) # fd
    BY <2>1, <2>2 DEF Held, HoldersDiffer
  <2>5. OneAtATime'
    BY <2>1, <2>2 DEF Held, OneAtATime
  <2>6. HolderOpen'
    BY <2>3, <2>4 DEF Held, HolderOpen
  <2>7. HoldersDiffer'
    BY <2>4 DEF Held, HoldersDiffer
  <2>8. NewOneUnheld'
    <3> SUFFICES ASSUME server = "running", acceptPc = "create"
                 PROVE  /\ fdTable'[clnt_sock] # Nobody
                        /\ \A v \in Worker : Alive(v)' => Holds(v)' # clnt_sock
      BY <2>1 DEF NewOneUnheld
    <3>1. clnt_sock # fd /\ clnt_sock \in Fd
      BY <2>1 DEF Held, NewOneUnheld, TypeInv
    <3> QED BY <2>3, <2>4, <3>1 DEF Held, NewOneUnheld
  <2>9. OpenHeld'
    <3> SUFFICES ASSUME NEW i \in Fd, fdTable'[i] # Nobody
                 PROVE  \/ acceptPc = "create" /\ clnt_sock = i
                        \/ \E v \in Worker : Alive(v)' /\ Holds(v)' = i
      BY <2>1 DEF OpenHeld
    <3>1. i # fd /\ fdTable[i] # Nobody
      BY <2>3
    <3> QED BY <2>1, <2>2, <3>1 DEF Held, OpenHeld
  <2> QED BY <2>5, <2>6, <2>7, <2>8, <2>9 DEF Held
<1> QED BY <1>5, <1>6, <1>7, <1>8, <1>9 DEF ClientHandler

\* A sequence of at most one item.
LEMMA OneLeft ==
  ASSUME NEW S, NEW s \in Seq(S), s # <<>>, Len(s) <= 1
  PROVE  Tail(s) = <<>> /\ Head(s) \in S /\ Head(s) = s[1] /\ 1 \in 1 .. Len(s)
<1>1. PICK n \in Nat \ {0} : n = Len(s)
  BY EmptySeq
<1>2. n <= 1
  BY <1>1
<1>3. Tail(s) \in Seq(S) /\ Len(Tail(s)) = 0
  BY <1>1, <1>2, HeadTailProperties
<1> QED BY <1>1, <1>3, HeadTailProperties

LEMMA AcceptHeld ==
  ASSUME TypeInv, Held, AcceptLoop
  PROVE  Held'
<1>1. ASSUME Accept PROVE Held'
  <2> DEFINE new == Lowest(FreeFd)
  <2>1. new \in Fd /\ fdTable[new] = Nobody
    BY <1>1, FreeFdTyped DEF Accept
  <2>2. /\ backlog \in Seq(Client) /\ backlog # <<>> /\ Len(backlog) <= 1
        /\ \A w \in Worker : worker[w].pc # "start"
    BY <1>1 DEF Accept, TypeInv, TypeOK, Held, OneAtATime
  <2>3. Tail(backlog) = <<>> /\ Head(backlog) \in Client
    BY <2>2, OneLeft
  <2>4. Head(backlog) # Nobody /\ backlog' = <<>>
    BY <1>1, <2>3, MainWorkerAssumption DEF Accept
  <2>5. /\ fdTable'[new] # Nobody /\ clnt_sock' = new /\ acceptPc' = "create"
        /\ \A i \in Fd : i # new => fdTable'[i] = fdTable[i]
    BY <1>1, <2>1, <2>4 DEF Accept, TypeInv, TypeOK
  <2> HIDE DEF new
  <2>6. \A w \in Worker : /\ worker'[w] = worker[w] /\ Alive(w)' = Alive(w)
                          /\ Holds(w)' = Holds(w)
    BY <1>1, <2>2 DEF Accept, Alive, Holds
  <2>7. \A w \in Worker : Alive(w) => Holds(w) # new /\ fdTable'[Holds(w)] = fdTable[Holds(w)]
    BY <2>1, <2>5 DEF Held, HolderOpen
  <2>8. OneAtATime'
    BY <2>2, <2>4, <2>6 DEF OneAtATime
  <2>9. HolderOpen' /\ HoldersDiffer'
    BY <2>6, <2>7 DEF Held, HolderOpen, HoldersDiffer
  <2>10. NewOneUnheld'
    BY <2>5, <2>6, <2>7 DEF NewOneUnheld
  <2>11. OpenHeld'
    <3> SUFFICES ASSUME NEW i \in Fd, i # new, fdTable[i] # Nobody
                 PROVE  \E v \in Worker : Alive(v)' /\ Holds(v)' = i
      BY <2>5 DEF OpenHeld
    <3>1. acceptPc # "create"
      BY <1>1 DEF Accept
    <3> QED BY <2>6, <3>1 DEF Held, OpenHeld
  <2> QED BY <2>8, <2>9, <2>10, <2>11 DEF Held
<1>2. ASSUME AcceptFails PROVE Held'
  BY <1>2, EndHeld DEF AcceptFails
<1>3. ASSUME PthreadCreate PROVE Held'
  <2>1. PICK w \in Worker : /\ worker[w].pc = "none"
                            /\ worker' = [worker EXCEPT ![w].pc = "start"]
    BY <1>3 DEF PthreadCreate
  <2>2. /\ worker'[w].pc = "start"
        /\ \A v \in Worker : v # w => worker'[v] = worker[v]
    BY <2>1 DEF TypeInv, TypeOK
  <2>3. /\ server = "running" /\ acceptPc = "create" /\ acceptPc' = "accept"
        /\ clnt_sock' = clnt_sock /\ fdTable' = fdTable /\ backlog' = backlog
        /\ backlog = <<>>
    BY <1>3 DEF PthreadCreate, Held, OneAtATime
  <2>4. Alive(w)' /\ Holds(w)' = clnt_sock /\ ~ Alive(w)
    BY <2>1, <2>2, <2>3 DEF Alive, Holds
  <2>5. \A v \in Worker : v # w => Alive(v)' = Alive(v) /\ Holds(v)' = Holds(v)
    BY <2>2, <2>3 DEF Alive, Holds
  <2>6. OneAtATime'
    BY <2>3 DEF Held, OneAtATime
  <2>7. HolderOpen'
    BY <2>3, <2>4, <2>5 DEF Held, HolderOpen, NewOneUnheld, TypeInv
  <2>8. HoldersDiffer'
    BY <2>3, <2>4, <2>5 DEF Held, HoldersDiffer, NewOneUnheld
  <2>9. NewOneUnheld'
    BY <2>3 DEF NewOneUnheld
  <2>10. OpenHeld'
    <3> SUFFICES ASSUME NEW i \in Fd, fdTable[i] # Nobody
                 PROVE  \E v \in Worker : Alive(v)' /\ Holds(v)' = i
      BY <2>3 DEF OpenHeld
    <3>1. CASE clnt_sock = i
      BY <2>4, <3>1
    <3>2. CASE clnt_sock # i
      <4>1. PICK v \in Worker : Alive(v) /\ Holds(v) = i
        BY <3>2 DEF Held, OpenHeld
      <4> QED BY <2>4, <2>5, <4>1
    <3> QED BY <3>1, <3>2
  <2> QED BY <2>6, <2>7, <2>8, <2>9, <2>10 DEF Held
<1> QED BY <1>1, <1>2, <1>3 DEF AcceptLoop

\* Clients leave the descriptors alone, and connect when none is handed over.
LEMMA ClientHeld ==
  ASSUME TypeInv, Held, ~ mode.hasty, NEW c \in Client,
         \/ KVCConnect(c) \/ KVCSend(c) \/ KVCRecv(c)
         \/ KVCRecvEnd(c) \/ KVCDisconnect(c) \/ Die(c)
  PROVE  Held'
<1>1. ASSUME UNCHANGED <<serverVars, fdTable, worker>> PROVE Held'
  <2>1. \A w \in Worker : /\ Alive(w)' = Alive(w) /\ Holds(w)' = Holds(w)
                          /\ worker'[w].pc = "start" => worker[w].pc = "start"
    BY <1>1 DEF Alive, Holds, serverVars
  <2> QED BY <1>1, <2>1, SameHolders DEF serverVars
<1>2. ASSUME KVCConnect(c) PROVE Held'
  <2>1. /\ backlog = <<>> /\ acceptPc # "create"
        /\ \A w \in Worker : worker[w].pc # "start"
    BY <1>2 DEF KVCConnect, HandingOver
  <2>2. backlog' = <<c>>
    BY <1>2, <2>1 DEF KVCConnect
  <2>3. acceptPc = "accept"
    BY <2>1 DEF TypeInv, TypeOK
  <2>4. OneAtATime'
    BY <1>2, <2>1, <2>2, <2>3 DEF KVCConnect, OneAtATime
  <2>5. \A w \in Worker : Alive(w)' = Alive(w) /\ Holds(w)' = Holds(w)
    BY <1>2 DEF KVCConnect, Alive, Holds
  <2>6. UNCHANGED <<server, acceptPc, clnt_sock, fdTable>>
    BY <1>2 DEF KVCConnect
  <2>7. HolderOpen' /\ HoldersDiffer'
    BY <2>5, <2>6 DEF Held, HolderOpen, HoldersDiffer
  <2>8. NewOneUnheld' /\ OpenHeld'
    BY <2>5, <2>6 DEF Held, NewOneUnheld, OpenHeld
  <2> QED BY <2>4, <2>7, <2>8 DEF Held
<1> QED BY <1>1, <1>2 DEF KVCSend, KVCRecv, KVCRecvEnd, KVCDisconnect, Die, Leaves

HeldInv == TypeInv /\ (~ mode.hasty => Held)

LEMMA ModeKept ==
  ASSUME [Next]_vars PROVE mode' = mode
BY DEF Next, AcceptLoop, ClientHandler, vars, serverVars, EndServer, KVCSrvStop,
       KVCSrvStart, Accept, AcceptFails, PthreadCreate, ReadSock, ReadRequest, ReadEnd,
       ReadFails, WriteAnswer, WriteTooLate, WriteFails, WriteRaisesSigpipe, Close,
       KVCConnect, KVCSend, KVCRecv, KVCRecvEnd, KVCDisconnect, Die, Leaves

LEMMA StepHeld ==
  ASSUME TypeInv, ~ mode.hasty, Held, [Next]_vars
  PROVE  Held'
<1>1. ASSUME KVCSrvStop PROVE Held'
  BY <1>1, EndHeld DEF KVCSrvStop
<1>2. ASSUME KVCSrvStart PROVE Held'
  <2>1. Down /\ Down'
    BY <1>2 DEF KVCSrvStart, TypeInv, Down
  <2>2. HolderOpen' /\ HoldersDiffer' /\ OpenHeld'
    BY <2>1 DEF Down, Alive, HolderOpen, HoldersDiffer, OpenHeld
  <2>3. OneAtATime' /\ NewOneUnheld'
    BY <1>2, <2>1 DEF KVCSrvStart, Down, OneAtATime, NewOneUnheld
  <2> QED BY <2>2, <2>3 DEF Held
<1>3. ASSUME UNCHANGED vars PROVE Held'
  <2>1. \A w \in Worker : /\ Alive(w)' = Alive(w) /\ Holds(w)' = Holds(w)
                          /\ worker'[w].pc = "start" => worker[w].pc = "start"
    BY <1>3 DEF Alive, Holds, vars
  <2> QED BY <1>3, <2>1, SameHolders DEF vars
<1> QED BY <1>1, <1>2, <1>3, AcceptHeld, HandlerHeld, ClientHeld DEF Next

LEMMA InitHeld == Init => Held
<1> SUFFICES ASSUME Init PROVE Held
  OBVIOUS
<1>1. Down /\ acceptPc = "accept" /\ server = "running"
  BY DEF Init, Fresh, Down, NoWorker
<1> QED BY <1>1, DownHeld DEF Held, OneAtATime, NewOneUnheld, Down

THEOREM HeldInvariant == Spec => []HeldInv
<1>1. Init => HeldInv
  BY InitTyped, InitHeld DEF HeldInv
<1>2. HeldInv /\ [Next]_vars => HeldInv'
  BY StepTyped, StepHeld, ModeKept DEF HeldInv
<1> QED BY <1>1, <1>2, PTL DEF Spec

LEMMA HeldMeansServed == HeldInv => OneByOneEachHasItsWorker
<1> SUFFICES ASSUME TypeInv, Held, server = "running", NEW fd \in Fd
             PROVE  IF fdTable[fd] = Nobody
                      THEN Servers(fd) = {}
                      ELSE \/ \E w \in Worker : Servers(fd) = {w} /\ ~ BeingCreated(fd)
                           \/ Servers(fd) = {} /\ BeingCreated(fd)
  BY DEF HeldInv, OneByOneEachHasItsWorker, EachClientHasItsWorker
<1>1. \A w \in Worker : w \in Servers(fd) <=> Alive(w) /\ Holds(w) = fd
  BY DEF Servers, Alive, Holds, TypeInv, TypeOK
<1>2. CASE fdTable[fd] = Nobody
  BY <1>1, <1>2 DEF Servers, Held, HolderOpen
<1>3. CASE fdTable[fd] # Nobody /\ BeingCreated(fd)
  BY <1>1, <1>3 DEF Servers, BeingCreated, Held, NewOneUnheld
<1>4. CASE fdTable[fd] # Nobody /\ ~ BeingCreated(fd)
  <2>1. PICK w \in Worker : Alive(w) /\ Holds(w) = fd
    BY <1>4 DEF BeingCreated, Held, OpenHeld
  <2>2. \A v \in Servers(fd) : v = w
    BY <1>1, <2>1 DEF Servers, Held, HoldersDiffer
  <2>3. Servers(fd) = {w}
    BY <1>1, <2>1, <2>2
  <2> QED BY <1>4, <2>3
<1> QED BY <1>2, <1>3, <1>4

\* When clients connect one after the other, every client that was accepted has
\* one thread to itself, every thread an open descriptor: however many clients
\* and descriptors there are, whoever dies, and across restarts.
THEOREM EachIsServed == Spec => []OneByOneEachHasItsWorker
BY HeldInvariant, HeldMeansServed, PTL

-----------------------------------------------------------------------------
(* What is under way between a client and its thread.                      *)

Right(c) == [from |-> c, tag |-> client[c].tag]

WritesTo(w, c) == worker[w].pc = "write" /\ Peer(w) = c

\* No two descriptors stand for one client, nor is one accepted twice.
ConnsDiffer ==
  /\ \A f, g \in Fd : fdTable[f] = fdTable[g] /\ fdTable[f] # Nobody => f = g
  /\ \A i \in 1 .. Len(backlog) : \A fd \in Fd : fdTable[fd] # backlog[i]

\* There is at most one message under way: the client's last request, the copy
\* a thread has of it, or the answer to it.
PeerAgrees(c) ==
  /\ client[c].pc # "off" => conn[c].peer = "open"
  /\ client[c].pc = "off" /\ IsOpen(c) => conn[c].peer # "open"

AnswersRight(c) ==
  /\ conn[c].toClient \in {<<>>, <<Right(c)>>}
  /\ client[c].pc = "connected" =>
       /\ conn[c].toClient = <<>>
       /\ client[c].answer \notin {Nothing, Failed} => client[c].answer = Right(c)

RequestsRight(c) ==
  IsOpen(c) =>
    /\ conn[c].toServer \in {<<>>, <<Right(c)>>}
    /\ client[c].pc = "connected" =>
         conn[c].toServer = <<>> /\ \A w \in Worker : ~ WritesTo(w, c)
    /\ client[c].pc = "waiting" /\ conn[c].toServer # <<>> =>
         conn[c].toClient = <<>> /\ \A w \in Worker : ~ WritesTo(w, c)
    /\ client[c].pc = "waiting" =>
         \A w \in Worker : WritesTo(w, c) => conn[c].toClient = <<>>

WritersRight(c) ==
  \A w \in Worker : WritesTo(w, c) /\ conn[c].peer = "open" => worker[w].message = Right(c)

Asks(c) == PeerAgrees(c) /\ AnswersRight(c) /\ RequestsRight(c) /\ WritersRight(c)

AsksInv == ConnsDiffer /\ \A c \in Client : Asks(c)

LEMMA OneItem ==
  ASSUME NEW x
  PROVE  /\ Head(<<x>>) = x /\ Tail(<<x>>) = <<>> /\ <<x>> # <<>>
         /\ Append(<<>>, x) = <<x>>
OBVIOUS

LEMMA OneWriter ==
  ASSUME TypeInv, Held, ConnsDiffer, NEW c \in Client,
         NEW v \in Worker, NEW w \in Worker, WritesTo(v, c), WritesTo(w, c)
  PROVE  v = w
<1>1. /\ Alive(v) /\ Alive(w) /\ Holds(v) = worker[v].sock /\ Holds(w) = worker[w].sock
      /\ worker[v].sock \in Fd /\ worker[w].sock \in Fd
  BY DEF WritesTo, Alive, Holds, TypeInv
<1>2. worker[v].sock = worker[w].sock
  BY <1>1, MainWorkerAssumption DEF WritesTo, Peer, ConnsDiffer
<1> QED BY <1>1, <1>2 DEF Held, HoldersDiffer

\* A writer's connection is open.
LEMMA WriterOpen ==
  ASSUME TypeInv, NEW c \in Client, NEW w \in Worker,
         worker[w].pc \in {"read", "write", "close"}, Peer(w) = c
  PROVE  IsOpen(c)
BY DEF Peer, IsOpen, TypeInv

\* A step that neither moves c nor gives it another thread or connection.
LEMMA Unaffected ==
  ASSUME NEW c \in Client, Asks(c), client'[c] = client[c], conn'[c] = conn[c],
         IsOpen(c)' => IsOpen(c),
         \A w \in Worker : WritesTo(w, c)' =>
           WritesTo(w, c) /\ worker'[w].message = worker[w].message
  PROVE  Asks(c)'
<1>1. Right(c)' = Right(c)
  BY DEF Right
<1>2. PeerAgrees(c)'
  BY DEF Asks, PeerAgrees
<1>3. AnswersRight(c)'
  BY <1>1 DEF Asks, AnswersRight
<1>4. RequestsRight(c)'
  BY <1>1 DEF Asks, RequestsRight
<1>5. WritersRight(c)'
  BY <1>1 DEF Asks, WritersRight
<1> QED BY <1>2, <1>3, <1>4, <1>5 DEF Asks

LEMMA EndAsks ==
  ASSUME TypeInv, AsksInv, NEW how \in {"returned", "killed", "stopped"}, EndServer(how)
  PROVE  AsksInv'
<1>1. /\ backlog' = <<>> /\ client' = client /\ conn' = conn
      /\ \A fd \in Fd : fdTable'[fd] = Nobody
      /\ \A w \in Worker : worker'[w].pc = "none"
  BY DEF EndServer, NoWorker
<1>2. ConnsDiffer'
  BY <1>1 DEF ConnsDiffer
<1>3. ASSUME NEW c \in Client PROVE Asks(c)'
  <2>1. ~ IsOpen(c)' /\ \A w \in Worker : ~ WritesTo(w, c)'
    BY <1>1, MainWorkerAssumption DEF IsOpen, WritesTo
  <2> QED BY <1>1, <2>1, Unaffected DEF AsksInv
<1> QED BY <1>2, <1>3 DEF AsksInv

\* A step of thread w that changes no connection, and after which it writes to
\* nobody.
LEMMA IdleStep ==
  ASSUME TypeInv, AsksInv, NEW w \in Worker, worker'[w].pc # "write",
         \A v \in Worker : v # w => worker'[v] = worker[v],
         UNCHANGED <<fdTable, backlog, client, conn>>
  PROVE  AsksInv'
<1>1. ConnsDiffer'
  BY DEF AsksInv, ConnsDiffer
<1>2. ASSUME NEW c \in Client PROVE Asks(c)'
  <2>1. IsOpen(c)' = IsOpen(c)
    BY DEF IsOpen
  <2>2. \A v \in Worker : WritesTo(v, c)' =>
          WritesTo(v, c) /\ worker'[v].message = worker[v].message
    BY DEF WritesTo, Peer
  <2> QED BY <2>1, <2>2, Unaffected DEF AsksInv
<1> QED BY <1>1, <1>2 DEF AsksInv

\* A step of thread w, which may change its client's connection: nothing
\* happens to the others.
LEMMA OthersUnaffected ==
  ASSUME TypeInv, AsksInv, NEW c \in Client, NEW w \in Worker,
         worker[w].pc \in {"read", "write"}, Peer(w) = c,
         worker'[w].sock = worker[w].sock,
         \A v \in Worker : v # w => worker'[v] = worker[v],
         UNCHANGED <<fdTable, backlog, client>>,
         \A d \in Client : d # c => conn'[d] = conn[d],
         Asks(c)'
  PROVE  AsksInv'
<1>1. ConnsDiffer'
  BY DEF AsksInv, ConnsDiffer
<1>2. ASSUME NEW d \in Client, d # c PROVE Asks(d)'
  <2>1. IsOpen(d)' = IsOpen(d)
    BY DEF IsOpen
  <2>2. \A v \in Worker : WritesTo(v, d)' =>
          WritesTo(v, d) /\ worker'[v].message = worker[v].message
    BY <1>2 DEF WritesTo, Peer
  <2> QED BY <1>2, <2>1, <2>2, Unaffected DEF AsksInv
<1>3. ASSUME NEW d \in Client PROVE Asks(d)'
  BY <1>2
<1> QED BY <1>1, <1>3 DEF AsksInv

\* The four steps of a thread that change a connection, or what is written to it.
LEMMA ReadRequestAsks ==
  ASSUME TypeInv, Held, AsksInv, NEW w \in Worker, ReadRequest(w)
  PROVE  AsksInv'
<1>1. PICK c \in Client : Peer(w) = c
  BY DEF ReadRequest, TypeInv, TypeOK, Peer
<1>2. /\ worker \in [Worker -> WorkerT] /\ conn \in [Client -> ConnT]
      /\ worker[w].pc = "read" /\ Asks(c) /\ IsOpen(c)
  BY <1>1, WriterOpen DEF ReadRequest, AsksInv, TypeInv, TypeOK, WorkerT, ConnT
<1>3. conn[c].toServer = <<Right(c)>>
  BY <1>1, <1>2 DEF ReadRequest, Asks, RequestsRight
<1>4. conn' = [conn EXCEPT ![c].toServer = <<>>]
  BY <1>1, <1>3, OneItem DEF ReadRequest
<1>5. /\ conn'[c].toServer = <<>> /\ conn'[c].peer = conn[c].peer
      /\ conn'[c].toClient = conn[c].toClient
      /\ \A d \in Client : d # c => conn'[d] = conn[d]
  BY <1>2, <1>4, ToServerChanged
<1>6. /\ worker'[w].pc = "write" /\ worker'[w].sock = worker[w].sock
      /\ worker'[w].message = Right(c)
      /\ \A v \in Worker : v # w => worker'[v] = worker[v]
  BY <1>1, <1>2, <1>3, OneItem DEF ReadRequest, Takes, WorkerT
<1>7. UNCHANGED <<fdTable, backlog, client>> /\ Right(c)' = Right(c) /\ IsOpen(c)' = IsOpen(c)
  BY DEF ReadRequest, serverVars, Right, IsOpen
<1>8. client[c].pc # "connected"
  BY <1>2, <1>3, OneItem DEF Asks, RequestsRight
<1>9. client[c].pc = "waiting" =>
        conn[c].toClient = <<>> /\ \A v \in Worker : ~ WritesTo(v, c)
  BY <1>2, <1>3, OneItem DEF Asks, RequestsRight
<1>10. PeerAgrees(c)' /\ AnswersRight(c)'
  BY <1>2, <1>5, <1>7 DEF Asks, PeerAgrees, AnswersRight
<1>11. RequestsRight(c)'
  BY <1>5, <1>7, <1>8, <1>9 DEF RequestsRight
<1>12. WritersRight(c)'
  <2>1. \A v \in Worker : v # w /\ WritesTo(v, c)' => WritesTo(v, c)
    BY <1>6, <1>7 DEF WritesTo, Peer
  <2> QED BY <1>2, <1>5, <1>6, <1>7, <2>1 DEF Asks, WritersRight
<1> QED BY <1>1, <1>2, <1>5, <1>6, <1>7, <1>10, <1>11, <1>12, OthersUnaffected DEF Asks

LEMMA ReadFailsAsks ==
  ASSUME TypeInv, Held, AsksInv, NEW w \in Worker, ReadFails(w)
  PROVE  AsksInv'
<1>1. Peer(w) # Nobody
  BY DEF ReadFails, Held, HolderOpen, Alive, Holds, Peer
<1>2. PICK c \in Client : Peer(w) = c
  BY <1>1 DEF ReadFails, TypeInv, TypeOK, Peer
<1>3. /\ worker \in [Worker -> WorkerT] /\ Asks(c) /\ worker[w].pc = "read"
      /\ conn[c].peer = "reset"
  BY <1>1, <1>2 DEF ReadFails, AsksInv, TypeInv, TypeOK, WorkerT
<1>4. /\ worker'[w].pc = "write" /\ worker'[w].sock = worker[w].sock
      /\ \A v \in Worker : v # w => worker'[v] = worker[v]
  BY <1>3 DEF ReadFails, Takes, WorkerT
<1>5. /\ UNCHANGED <<fdTable, backlog, client, conn>>
      /\ Right(c)' = Right(c) /\ IsOpen(c)' = IsOpen(c)
  BY DEF ReadFails, serverVars, Right, IsOpen
<1>6. client[c].pc = "off"
  BY <1>3 DEF Asks, PeerAgrees
<1>7. PeerAgrees(c)' /\ AnswersRight(c)'
  BY <1>3, <1>5 DEF Asks, PeerAgrees, AnswersRight
<1>8. RequestsRight(c)'
  BY <1>3, <1>5, <1>6 DEF Asks, RequestsRight
<1>9. WritersRight(c)'
  BY <1>3, <1>5 DEF WritersRight
<1> QED BY <1>2, <1>3, <1>4, <1>5, <1>7, <1>8, <1>9, OthersUnaffected DEF Asks

LEMMA WriteAnswerAsks ==
  ASSUME TypeInv, Held, AsksInv, NEW w \in Worker, WriteAnswer(w)
  PROVE  AsksInv'
<1>1. PICK c \in Client : Peer(w) = c
  BY DEF WriteAnswer, TypeInv, TypeOK, Peer
<1>2. /\ worker \in [Worker -> WorkerT] /\ conn \in [Client -> ConnT]
      /\ client \in [Client -> ClientT]
      /\ worker[w].pc = "write" /\ Asks(c) /\ IsOpen(c) /\ WritesTo(w, c)
      /\ conn[c].peer = "open" /\ ConnsDiffer
  BY <1>1, WriterOpen
     DEF WriteAnswer, AsksInv, TypeInv, TypeOK, WorkerT, ConnT, ClientT, WritesTo
<1>3. worker[w].message = Right(c)
  BY <1>2 DEF Asks, WritersRight
<1>4. client[c].pc = "waiting"
  <2>1. client[c].pc # "off" /\ client[c].pc # "connected"
    BY <1>2 DEF Asks, PeerAgrees, RequestsRight
  <2> QED BY <1>2, <2>1 DEF ClientT
<1>5. conn[c].toClient = <<>> /\ conn[c].toServer = <<>>
  BY <1>2, <1>4 DEF Asks, RequestsRight
<1>6. conn' = [conn EXCEPT ![c].toClient = <<Right(c)>>]
  BY <1>1, <1>3, <1>5, OneItem DEF WriteAnswer
<1>7. <<Right(c)>> \in Seq(Message \cup {Blank})
  BY <1>2 DEF Right, Message, ClientT
<1>8. /\ conn'[c].toClient = <<Right(c)>> /\ conn'[c].peer = conn[c].peer
      /\ conn'[c].toServer = conn[c].toServer
      /\ \A d \in Client : d # c => conn'[d] = conn[d]
  BY <1>2, <1>6, <1>7, ToClientChanged
<1>9. /\ worker'[w].pc = "read" /\ worker'[w].sock = worker[w].sock
      /\ \A v \in Worker : v # w => worker'[v] = worker[v]
  BY <1>2 DEF WriteAnswer, Goes, WorkerT
<1>10. UNCHANGED <<fdTable, backlog, client>> /\ Right(c)' = Right(c)
  BY DEF WriteAnswer, serverVars, Right
<1>11. \A v \in Worker : ~ WritesTo(v, c)'
  <2> SUFFICES ASSUME NEW v \in Worker, WritesTo(v, c)' PROVE FALSE
    OBVIOUS
  <2>1. v # w
    BY <1>9 DEF WritesTo
  <2>2. WritesTo(v, c)
    BY <1>9, <1>10, <2>1 DEF WritesTo, Peer
  <2> QED BY <1>2, <2>1, <2>2, OneWriter
<1>12. PeerAgrees(c)' /\ AnswersRight(c)'
  BY <1>2, <1>4, <1>8, <1>10 DEF PeerAgrees, AnswersRight
<1>13. RequestsRight(c)' /\ WritersRight(c)'
  BY <1>4, <1>5, <1>8, <1>10, <1>11 DEF RequestsRight, WritersRight
<1> QED BY <1>1, <1>2, <1>8, <1>9, <1>10, <1>12, <1>13, OthersUnaffected DEF Asks

LEMMA WriteTooLateAsks ==
  ASSUME TypeInv, Held, AsksInv, NEW w \in Worker, WriteTooLate(w)
  PROVE  AsksInv'
<1>1. PICK c \in Client : Peer(w) = c
  BY DEF WriteTooLate, TypeInv, TypeOK, Peer
<1>2. /\ worker \in [Worker -> WorkerT] /\ conn \in [Client -> ConnT]
      /\ worker[w].pc = "write" /\ Asks(c) /\ conn[c].peer = "closed"
  BY <1>1 DEF WriteTooLate, AsksInv, TypeInv, TypeOK, WorkerT, ConnT
<1>3. /\ conn'[c].peer = "closed, reset"
      /\ conn'[c].toClient = conn[c].toClient /\ conn'[c].toServer = conn[c].toServer
      /\ \A d \in Client : d # c => conn'[d] = conn[d]
  BY <1>1, <1>2, PeerChanged DEF WriteTooLate
<1>4. /\ worker'[w].pc = "read" /\ worker'[w].sock = worker[w].sock
      /\ \A v \in Worker : v # w => worker'[v] = worker[v]
  BY <1>2 DEF WriteTooLate, Goes, WorkerT
<1>5. /\ UNCHANGED <<fdTable, backlog, client>>
      /\ Right(c)' = Right(c) /\ IsOpen(c)' = IsOpen(c)
  BY DEF WriteTooLate, serverVars, Right, IsOpen
<1>6. client[c].pc = "off"
  BY <1>2 DEF Asks, PeerAgrees
<1>7. PeerAgrees(c)' /\ AnswersRight(c)'
  BY <1>2, <1>3, <1>5, <1>6 DEF Asks, PeerAgrees, AnswersRight
<1>8. RequestsRight(c)' /\ WritersRight(c)'
  BY <1>2, <1>3, <1>5, <1>6 DEF Asks, RequestsRight, WritersRight
<1> QED BY <1>1, <1>2, <1>3, <1>4, <1>5, <1>7, <1>8, OthersUnaffected DEF Asks

LEMMA HandlerAsks ==
  ASSUME TypeInv, Held, AsksInv, NEW w \in Worker, ClientHandler(w)
  PROVE  AsksInv'
<1>1. worker \in [Worker -> WorkerT]
  BY DEF TypeInv, TypeOK, WorkerT
<1>2. ASSUME ReadSock(w) PROVE AsksInv'
  <2>1. /\ worker'[w].pc = "read" /\ \A v \in Worker : v # w => worker'[v] = worker[v]
        /\ UNCHANGED <<fdTable, backlog, client, conn>>
    BY <1>1, <1>2 DEF ReadSock, WorkerT, serverVars
  <2> QED BY <2>1, IdleStep
<1>3. ASSUME ReadEnd(w) \/ WriteFails(w) PROVE AsksInv'
  <2>1. /\ worker'[w].pc = "close" /\ \A v \in Worker : v # w => worker'[v] = worker[v]
        /\ UNCHANGED <<fdTable, backlog, client, conn>>
    BY <1>1, <1>3 DEF ReadEnd, WriteFails, Goes, WorkerT, serverVars
  <2> QED BY <2>1, IdleStep
<1>4. ASSUME WriteRaisesSigpipe(w) PROVE AsksInv'
  BY <1>4, EndAsks DEF WriteRaisesSigpipe
<1>5. ASSUME Close(w) PROVE AsksInv'
  <2> DEFINE fd == worker[w].sock
  <2>1. /\ fd \in Fd /\ UNCHANGED <<backlog, client, conn>>
        /\ fdTable'[fd] = Nobody /\ \A i \in Fd : i # fd => fdTable'[i] = fdTable[i]
    BY <1>5 DEF Close, TypeInv, TypeOK, serverVars
  <2>2. /\ worker'[w].pc = "none"
        /\ \A v \in Worker : v # w => worker'[v] = worker[v]
    BY <1>1, <1>5 DEF Close, NoWorker
  <2> HIDE DEF fd
  <2>3. ConnsDiffer'
    <3>1. \A i \in 1 .. Len(backlog) : backlog[i] \in Client
      <4>1. backlog \in Seq(Client)
        BY DEF TypeInv, TypeOK
      <4> QED BY <4>1, ElementOfSeq
    <3>2. \A i \in 1 .. Len(backlog) : backlog[i] # Nobody
      BY <3>1, MainWorkerAssumption
    <3> QED BY <2>1, <3>2 DEF AsksInv, ConnsDiffer
  <2>4. ASSUME NEW c \in Client PROVE Asks(c)'
    <3>1. IsOpen(c)' => IsOpen(c)
      BY <2>1, MainWorkerAssumption DEF IsOpen
    <3>2. ASSUME NEW v \in Worker, WritesTo(v, c)'
          PROVE  WritesTo(v, c) /\ worker'[v].message = worker[v].message
      <4>1. v # w /\ worker'[v] = worker[v]
        BY <2>2, <3>2 DEF WritesTo
      <4>2. worker[v].sock \in Fd /\ worker[v].pc = "write"
        BY <3>2, <4>1 DEF WritesTo, TypeInv
      <4>3. worker[v].sock # fd
        BY <2>1, <3>2, <4>1, MainWorkerAssumption DEF WritesTo, Peer
      <4> QED BY <2>1, <3>2, <4>1, <4>2, <4>3 DEF WritesTo, Peer
    <3> QED BY <2>1, <3>1, <3>2, Unaffected DEF AsksInv
  <2> QED BY <2>3, <2>4 DEF AsksInv
<1> QED BY <1>2, <1>3, <1>4, <1>5, ReadRequestAsks, ReadFailsAsks, WriteAnswerAsks,
           WriteTooLateAsks DEF ClientHandler

LEMMA AcceptAsks ==
  ASSUME TypeInv, Held, AsksInv, AcceptLoop
  PROVE  AsksInv'
<1>1. ASSUME Accept PROVE AsksInv'
  <2> DEFINE new == Lowest(FreeFd)
  <2>1. new \in Fd /\ fdTable[new] = Nobody
    BY <1>1, FreeFdTyped DEF Accept
  <2>2. backlog \in Seq(Client) /\ backlog # <<>> /\ Len(backlog) <= 1
    BY <1>1 DEF Accept, TypeInv, TypeOK, Held, OneAtATime
  <2>3. /\ Tail(backlog) = <<>> /\ 1 \in 1 .. Len(backlog)
        /\ Head(backlog) \in Client /\ Head(backlog) = backlog[1]
    BY <2>2, OneLeft
  <2>4. backlog' = <<>>
    BY <1>1, <2>3 DEF Accept
  <2>7. /\ fdTable'[new] = backlog[1]
        /\ \A i \in Fd : i # new => fdTable'[i] = fdTable[i]
        /\ client' = client /\ conn' = conn /\ worker' = worker
    BY <1>1, <2>1, <2>3 DEF Accept, TypeInv, TypeOK
  <2> HIDE DEF new
  <2>8. \A i \in Fd : fdTable[i] # backlog[1]
    BY <2>3 DEF AsksInv, ConnsDiffer
  <2>9. ConnsDiffer'
    <3>1. \A f, g \in Fd : fdTable'[f] = fdTable'[g] /\ fdTable'[f] # Nobody => f = g
      BY <2>1, <2>7, <2>8 DEF AsksInv, ConnsDiffer
    <3> QED BY <2>4, <3>1 DEF ConnsDiffer
  <2>10. ASSUME NEW c \in Client PROVE Asks(c)'
    <3>1. IsOpen(c)' => IsOpen(c)
      BY <2>1, <2>3, <2>4, <2>7 DEF IsOpen
    <3>2. ASSUME NEW v \in Worker, WritesTo(v, c)' PROVE WritesTo(v, c)
      <4>1. worker[v].pc = "write" /\ worker[v].sock \in Fd
        BY <2>7, <3>2 DEF WritesTo, TypeInv
      <4>2. worker[v].sock # new
        BY <2>1, <4>1 DEF Held, HolderOpen, Alive, Holds
      <4> QED BY <2>7, <3>2, <4>1, <4>2 DEF WritesTo, Peer
    <3> QED BY <2>7, <3>1, <3>2, Unaffected DEF AsksInv
  <2> QED BY <2>9, <2>10 DEF AsksInv
<1>2. ASSUME AcceptFails PROVE AsksInv'
  BY <1>2, EndAsks DEF AcceptFails
<1>3. ASSUME PthreadCreate PROVE AsksInv'
  <2>1. PICK w \in Worker : worker' = [worker EXCEPT ![w].pc = "start"]
    BY <1>3 DEF PthreadCreate
  <2>2. worker \in [Worker -> WorkerT]
    BY DEF TypeInv, TypeOK, WorkerT
  <2>3. worker'[w].pc = "start" /\ \A v \in Worker : v # w => worker'[v] = worker[v]
    BY <2>1, <2>2 DEF WorkerT
  <2>4. UNCHANGED <<fdTable, backlog, client, conn>>
    BY <1>3 DEF PthreadCreate
  <2> QED BY <2>3, <2>4, IdleStep
<1> QED BY <1>1, <1>2, <1>3 DEF AcceptLoop

\* A step of client c: nothing happens to the others.
LEMMA OtherClients ==
  ASSUME TypeInv, AsksInv, NEW c \in Client, UNCHANGED <<fdTable, worker, backlog>>,
         \A d \in Client : d # c => client'[d] = client[d] /\ conn'[d] = conn[d],
         Asks(c)'
  PROVE  AsksInv'
<1>1. ConnsDiffer'
  BY DEF AsksInv, ConnsDiffer
<1>2. ASSUME NEW d \in Client, d # c PROVE Asks(d)'
  <2>1. IsOpen(d)' = IsOpen(d) /\ \A v \in Worker : WritesTo(v, d)' = WritesTo(v, d)
    BY DEF IsOpen, WritesTo, Peer
  <2> QED BY <1>2, <2>1, Unaffected DEF AsksInv
<1>3. ASSUME NEW d \in Client PROVE Asks(d)'
  BY <1>2
<1> QED BY <1>1, <1>3 DEF AsksInv

LEMMA ConnectAsks ==
  ASSUME TypeInv, Held, AsksInv, ~ mode.hasty, NEW c \in Client, KVCConnect(c)
  PROVE  AsksInv'
<1>1. /\ backlog = <<>> /\ ~ IsOpen(c) /\ client[c].pc = "off"
      /\ fdTable' = fdTable /\ worker' = worker
      /\ client \in [Client -> ClientT] /\ conn \in [Client -> ConnT]
  BY DEF KVCConnect, HandingOver, TypeInv, TypeOK, ClientT, ConnT
<1>2. backlog' = <<c>>
  BY <1>1 DEF KVCConnect
<1>3. \A fd \in Fd : fdTable[fd] # c
  BY <1>1 DEF IsOpen
<1>4. ConnsDiffer'
  BY <1>1, <1>2, <1>3 DEF AsksInv, ConnsDiffer
<1>5. /\ client'[c].pc = "connected" /\ client'[c].answer = Nothing
      /\ \A d \in Client : d # c => client'[d] = client[d] /\ conn'[d] = conn[d]
  BY <1>1 DEF KVCConnect, ClientT
<1>6. conn'[c].peer = "open" /\ conn'[c].toServer = <<>> /\ conn'[c].toClient = <<>>
  BY <1>1 DEF KVCConnect, NewConn
<1>7. \A w \in Worker : ~ WritesTo(w, c)'
  BY <1>1, <1>3 DEF WritesTo, Peer, TypeInv
<1>8. PeerAgrees(c)' /\ AnswersRight(c)'
  BY <1>5, <1>6 DEF PeerAgrees, AnswersRight
<1>9. RequestsRight(c)' /\ WritersRight(c)'
  BY <1>5, <1>6, <1>7 DEF RequestsRight, WritersRight
<1>10. ASSUME NEW d \in Client, d # c PROVE Asks(d)'
  <2>1. IsOpen(d)' => IsOpen(d)
    BY <1>1, <1>2, <1>10 DEF IsOpen
  <2>2. \A v \in Worker : WritesTo(v, d)' = WritesTo(v, d)
    BY <1>1 DEF WritesTo, Peer
  <2> QED BY <1>1, <1>5, <1>10, <2>1, <2>2, Unaffected DEF AsksInv
<1>11. ASSUME NEW d \in Client PROVE Asks(d)'
  BY <1>8, <1>9, <1>10 DEF Asks
<1> QED BY <1>4, <1>11 DEF AsksInv

LEMMA SendAsks ==
  ASSUME TypeInv, AsksInv, NEW c \in Client, KVCSend(c)
  PROVE  AsksInv'
<1> DEFINE request == [from |-> c, tag |-> 1 - client[c].tag]
           new == IF IsOpen(c) THEN Append(conn[c].toServer, request)
                               ELSE conn[c].toServer
<1>1. /\ UNCHANGED <<fdTable, worker, backlog>> /\ client[c].pc = "connected"
      /\ client \in [Client -> ClientT] /\ conn \in [Client -> ConnT] /\ Asks(c)
  BY DEF KVCSend, serverVars, TypeInv, TypeOK, ClientT, ConnT, AsksInv
<1>2. /\ client'[c].pc = "waiting" /\ client'[c].tag = 1 - client[c].tag
      /\ \A d \in Client : d # c => client'[d] = client[d]
  BY <1>1 DEF KVCSend, ClientT
<1>3. Right(c)' = request
  BY <1>2 DEF Right
<1>4. /\ conn[c].toClient = <<>> /\ conn[c].peer = "open"
      /\ IsOpen(c) => conn[c].toServer = <<>> /\ \A w \in Worker : ~ WritesTo(w, c)
  BY <1>1 DEF Asks, PeerAgrees, AnswersRight, RequestsRight
<1>5. IsOpen(c) => new = <<request>>
  BY <1>4, OneItem
<1>6. request \in Message
  BY <1>1 DEF Message, ClientT
<1>7. new \in Seq(Message)
  <2>1. conn[c].toServer \in Seq(Message)
    BY <1>1 DEF ConnT
  <2> QED BY <1>6, <2>1
<1>8. conn' = [conn EXCEPT ![c].toServer = new]
  BY DEF KVCSend
<1> HIDE DEF new, request
<1>9. /\ conn'[c].toServer = new /\ conn'[c].peer = "open" /\ conn'[c].toClient = <<>>
      /\ \A d \in Client : d # c => conn'[d] = conn[d]
  BY <1>1, <1>4, <1>7, <1>8, ToServerChanged
<1>10. \A w \in Worker : ~ WritesTo(w, c)'
  <2>1. \A w \in Worker : ~ WritesTo(w, c)
    BY <1>1, <1>4, WriterOpen DEF WritesTo
  <2> QED BY <1>1, <2>1 DEF WritesTo, Peer
<1>11. IsOpen(c)' = IsOpen(c)
  BY <1>1 DEF IsOpen
<1>12. PeerAgrees(c)' /\ AnswersRight(c)'
  BY <1>2, <1>9 DEF PeerAgrees, AnswersRight
<1>13. RequestsRight(c)' /\ WritersRight(c)'
  BY <1>2, <1>3, <1>5, <1>9, <1>10, <1>11 DEF RequestsRight, WritersRight
<1> QED BY <1>1, <1>2, <1>9, <1>12, <1>13, OtherClients DEF Asks

LEMMA RecvAsks ==
  ASSUME TypeInv, AsksInv, NEW c \in Client, KVCRecv(c)
  PROVE  AsksInv'
<1>1. /\ UNCHANGED <<fdTable, worker, backlog>> /\ client[c].pc = "waiting"
      /\ client \in [Client -> ClientT] /\ conn \in [Client -> ConnT] /\ Asks(c)
      /\ conn[c].toClient # <<>>
  BY DEF KVCRecv, serverVars, TypeInv, TypeOK, ClientT, ConnT, AsksInv
<1>2. conn[c].toClient = <<Right(c)>>
  BY <1>1 DEF Asks, AnswersRight
<1>3. /\ conn' = [conn EXCEPT ![c].toClient = <<>>] /\ Got(c, Right(c))
  BY <1>2, OneItem DEF KVCRecv
<1>4. /\ conn'[c].toClient = <<>> /\ conn'[c].toServer = conn[c].toServer
      /\ conn'[c].peer = conn[c].peer
      /\ \A d \in Client : d # c => conn'[d] = conn[d]
  BY <1>1, <1>3, ToClientChanged
<1>5. /\ client'[c].pc = "connected" /\ client'[c].answer = Right(c)
      /\ client'[c].tag = client[c].tag
      /\ \A d \in Client : d # c => client'[d] = client[d]
  BY <1>1, <1>3 DEF Got, ClientT
<1>6. Right(c)' = Right(c)
  BY <1>5 DEF Right
<1>7. IsOpen(c)' = IsOpen(c) /\ \A w \in Worker : WritesTo(w, c)' = WritesTo(w, c)
  BY <1>1 DEF IsOpen, WritesTo, Peer
<1>8. IsOpen(c) => conn[c].toServer = <<>> /\ \A w \in Worker : ~ WritesTo(w, c)
  <2>1. conn[c].toClient # <<>>
    BY <1>1
  <2> QED BY <1>1, <2>1 DEF Asks, RequestsRight
<1>9. PeerAgrees(c)' /\ AnswersRight(c)'
  BY <1>1, <1>4, <1>5, <1>6 DEF Asks, PeerAgrees, AnswersRight
<1>10. RequestsRight(c)'
  BY <1>4, <1>5, <1>7, <1>8 DEF RequestsRight
<1>11. WritersRight(c)'
  BY <1>1, <1>4, <1>6, <1>7 DEF Asks, WritersRight
<1> QED BY <1>1, <1>4, <1>5, <1>9, <1>10, <1>11, OtherClients DEF Asks

LEMMA RecvEndAsks ==
  ASSUME TypeInv, AsksInv, NEW c \in Client, KVCRecvEnd(c)
  PROVE  AsksInv'
<1>1. /\ UNCHANGED <<fdTable, worker, backlog, conn>> /\ client[c].pc = "waiting"
      /\ client \in [Client -> ClientT] /\ Asks(c)
      /\ conn[c].toClient = <<>> /\ ~ IsOpen(c)
  BY DEF KVCRecvEnd, serverVars, TypeInv, TypeOK, ClientT, AsksInv
<1>2. PICK answer \in {Nothing, Failed} : Got(c, answer)
  BY DEF KVCRecvEnd
<1>3. /\ client'[c].pc = "connected" /\ client'[c].answer = answer
      /\ client'[c].tag = client[c].tag
      /\ \A d \in Client : d # c => client'[d] = client[d]
  BY <1>1, <1>2 DEF Got, ClientT
<1>4. Right(c)' = Right(c) /\ ~ IsOpen(c)'
  BY <1>1, <1>3 DEF Right, IsOpen
<1>5. \A w \in Worker : WritesTo(w, c)' = WritesTo(w, c)
  BY <1>1 DEF WritesTo, Peer
<1>6. PeerAgrees(c)' /\ AnswersRight(c)'
  BY <1>1, <1>3, <1>4 DEF Asks, PeerAgrees, AnswersRight
<1>7. RequestsRight(c)' /\ WritersRight(c)'
  BY <1>1, <1>4, <1>5 DEF Asks, RequestsRight, WritersRight
<1> QED BY <1>1, <1>3, <1>6, <1>7, OtherClients DEF Asks

LEMMA LeavesAsks ==
  ASSUME TypeInv, AsksInv, NEW c \in Client, client[c].pc # "off", Leaves(c)
  PROVE  AsksInv'
<1>1. /\ UNCHANGED <<fdTable, worker, backlog>>
      /\ client \in [Client -> ClientT] /\ conn \in [Client -> ConnT] /\ Asks(c)
  BY DEF Leaves, serverVars, TypeInv, TypeOK, ClientT, ConnT, AsksInv
<1>2. PICK peer \in {"closed", "reset"} : conn' = [conn EXCEPT ![c].peer = peer]
  BY DEF Leaves
<1>3. /\ conn'[c].peer = peer /\ conn'[c].toClient = conn[c].toClient
      /\ conn'[c].toServer = conn[c].toServer
      /\ \A d \in Client : d # c => conn'[d] = conn[d]
  BY <1>1, <1>2, PeerChanged
<1>4. /\ client'[c].pc = "off" /\ client'[c].tag = client[c].tag
      /\ \A d \in Client : d # c => client'[d] = client[d]
  BY <1>1 DEF Leaves, ClientT
<1>5. Right(c)' = Right(c) /\ IsOpen(c)' = IsOpen(c)
  BY <1>1, <1>4 DEF Right, IsOpen
<1>6. PeerAgrees(c)' /\ AnswersRight(c)'
  BY <1>1, <1>3, <1>4, <1>5 DEF Asks, PeerAgrees, AnswersRight
<1>7. RequestsRight(c)' /\ WritersRight(c)'
  BY <1>1, <1>3, <1>4, <1>5 DEF Asks, RequestsRight, WritersRight
<1> QED BY <1>1, <1>3, <1>4, <1>6, <1>7, OtherClients DEF Asks

LEMMA StepAsks ==
  ASSUME TypeInv, ~ mode.hasty, Held, AsksInv, [Next]_vars
  PROVE  AsksInv'
<1>1. ASSUME KVCSrvStop PROVE AsksInv'
  BY <1>1, EndAsks DEF KVCSrvStop
<1>2. ASSUME UNCHANGED <<backlog, fdTable, worker, client, conn>> PROVE AsksInv'
  <2>1. ConnsDiffer'
    BY <1>2 DEF AsksInv, ConnsDiffer
  <2>2. ASSUME NEW c \in Client PROVE Asks(c)'
    <3>1. IsOpen(c)' = IsOpen(c) /\ \A w \in Worker : WritesTo(w, c)' = WritesTo(w, c)
      BY <1>2 DEF IsOpen, WritesTo, Peer
    <3> QED BY <1>2, <3>1, Unaffected DEF AsksInv
  <2> QED BY <2>1, <2>2 DEF AsksInv
<1>3. ASSUME NEW c \in Client,
             \/ KVCConnect(c) \/ KVCSend(c) \/ KVCRecv(c)
             \/ KVCRecvEnd(c) \/ KVCDisconnect(c) \/ Die(c)
      PROVE  AsksInv'
  BY <1>3, ConnectAsks, SendAsks, RecvAsks, RecvEndAsks, LeavesAsks DEF KVCDisconnect, Die
<1> QED BY <1>1, <1>2, <1>3, AcceptAsks, HandlerAsks DEF Next, KVCSrvStart, vars

LEMMA InitAsks == Init => AsksInv
<1> SUFFICES ASSUME Init PROVE AsksInv
  OBVIOUS
<1>1. /\ backlog = <<>> /\ \A fd \in Fd : fdTable[fd] = Nobody
      /\ \A w \in Worker : worker[w].pc = "none"
      /\ \A c \in Client : /\ client[c].pc = "off" /\ conn[c].toClient = <<>>
                           /\ ~ IsOpen(c)
  BY MainWorkerAssumption DEF Init, Fresh, NoWorker, NewConn, IsOpen
<1>2. ConnsDiffer
  BY <1>1 DEF ConnsDiffer
<1>3. ASSUME NEW c \in Client PROVE Asks(c)
  BY <1>1 DEF Asks, PeerAgrees, AnswersRight, RequestsRight, WritersRight, WritesTo
<1> QED BY <1>2, <1>3 DEF AsksInv

ServiceInv == TypeInv /\ (~ mode.hasty => Held /\ AsksInv)

LEMMA ServiceInvariant == Spec => []ServiceInv
<1>1. Init => ServiceInv
  BY InitTyped, InitHeld, InitAsks DEF ServiceInv
<1>2. ServiceInv /\ [Next]_vars => ServiceInv'
  BY StepTyped, StepHeld, StepAsks, ModeKept DEF ServiceInv
<1> QED BY <1>1, <1>2, PTL DEF Spec

\* No client is ever sent an answer to another's request or to an earlier one of
\* its own, for any number of clients, descriptors and threads, when clients
\* connect one after the other.
THEOREM AnswersGoToAsker == Spec => []AnswersToAsker
<1>1. ServiceInv => AnswersToAsker
  <2> SUFFICES ASSUME AsksInv, NEW c \in Client, NEW i \in 1 .. Len(conn[c].toClient)
               PROVE  conn[c].toClient[i] = [from |-> c, tag |-> client[c].tag]
    BY DEF ServiceInv, AnswersToAsker
  <2>1. conn[c].toClient \in {<<>>, <<Right(c)>>}
    BY DEF AsksInv, Asks, AnswersRight
  <2> QED BY <2>1 DEF Right
<1> QED BY <1>1, ServiceInvariant, PTL

\* What a client takes for its answer answers its last request, or tells it that
\* the connection has ended, when clients connect one after the other.
THEOREM AnswersAreRight == Spec => []AnswersMatchRequests
<1>1. ServiceInv => AnswersMatchRequests
  BY DEF ServiceInv, AnswersMatchRequests, AsksInv, Asks, AnswersRight, Right
<1> QED BY <1>1, ServiceInvariant, PTL

=============================================================================
