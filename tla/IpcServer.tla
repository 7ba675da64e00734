------------------------------- MODULE IpcServer -------------------------------
(*****************************************************************************)
(* The threads of an ipc_server process around one IpcContext: the main loop *)
(* of ipc_server.c (IpcPollAccept, IpcAccept, finally IpcDestroy), the       *)
(* ReceiveThread and the HeartbeatThread, and the descriptors they share.    *)
(*                                                                           *)
(* A step is one critical section of ctx->lock, one access outside it, or one *)
(* system call.  The clients are the environment: they connect, send frames, *)
(* close or stay silent.  A frame is a header ("H") and the payload it         *)
(* announces ("P"), or a header that announces none ("N"), such as DISCONNECT; *)
(* its other bytes do not matter.                                             *)
(*                                                                           *)
(* Of what goes back to the clients only the time it takes is kept: SendAll    *)
(* has no limit, and retries under ctx->lock for as long as the client is      *)
(* open and takes nothing.  A client is "hung" when it reads no more and its   *)
(* buffer is full.                                                            *)
(*                                                                           *)
(* A descriptor is a number: the kernel hands out the lowest free one, so a  *)
(* number a thread has loaded may mean another connection when it is used.   *)
(* IpcAccept's descriptor is blocking (only CreateSocket sets O_NONBLOCK, and *)
(* accept() does not hand it on), so the receive thread really sleeps.       *)
(*****************************************************************************)
EXTENDS Integers, Sequences

CONSTANTS
    Clients,    \* connections clients may make
    None,       \* no connection
    MaxPieces   \* bound: a client with so much in the socket sends no more

ASSUME NoneAssumption == None \notin Clients
ASSUME BoundAssumption == MaxPieces \in Nat

VARIABLES
    running, state, connFd, \* of the context; state: is it STATE_CONNECTED?
    sock,       \* the connection behind each descriptor number
    badClose,   \* close() was called on a number that is not open
    listening,  \* listenFd is open
    backlog,    \* clients connect() has queued
    client,     \* the client's end: "none", "open", "hung", "shut"
    inq,        \* headers and payloads on the way to the server
    mpc, newFd, \* main thread, and the descriptor IpcAccept just got
    rpc, rfd,   \* receive thread, and the descriptor RecvAll is called with
    asleepOn,   \* the connection its recv() holds
    head,       \* the connection of the header whose payload it reads
    hand,       \* the frame it handles
    hpc,        \* heartbeat thread
    sending,    \* the threads in SendMessageInternal, past its test
    lock        \* the one of them that retries in SendAll under ctx->lock

ctxVars  == <<running, state, connFd>>
fdVars   == <<sock, badClose>>
mainVars == <<listening, mpc, newFd>>
recvVars == <<rpc, rfd, asleepOn, head, hand>>
sockVars == <<backlog, client, inq>>
sendVars == <<sending, lock>>
vars == <<ctxVars, fdVars, mainVars, recvVars, sockVars, hpc, sendVars>>

Threads == {"main", "recv", "hb"}

NoFd == -1
Fds == 0 .. 1   \* at most connFd and newFd are open at once

TypeOK ==
    /\ running \in BOOLEAN /\ state \in BOOLEAN /\ connFd \in Fds \cup {NoFd}
    /\ sock \in [Fds -> Clients \cup {None}] /\ badClose \in BOOLEAN
    /\ listening \in BOOLEAN /\ backlog \in Seq(Clients)
    /\ client \in [Clients -> {"none", "open", "hung", "shut"}]
    /\ inq \in [Clients -> Seq({"H", "P", "N"})]
    /\ mpc \in {"loop", "install", "resp", "bye",
                "disconnect", "join_recv", "join_hb", "cleanup", "gone"}
    /\ newFd \in Fds \cup {NoFd}
    /\ rpc \in {"top", "call", "enter", "asleep", "handle", "disconnect", "end"}
    /\ rfd \in Fds \cup {NoFd} /\ asleepOn \in Clients \cup {None}
    /\ head \in Clients \cup {None} /\ hand \in {"none", "MSG", "DISC"}
    /\ mpc = "install" <=> newFd # NoFd
    /\ rpc = "asleep" <=> asleepOn # None
    /\ rpc = "handle" <=> hand # "none"
    /\ rpc \in {"top", "handle", "end"} => head = None
    /\ state => connFd # NoFd
    /\ hpc \in {"sleep", "expired", "end"}
    /\ sending \subseteq Threads /\ lock \in Threads \cup {"free"}
    /\ lock # "free" => lock \in sending /\ connFd # NoFd
    /\ "main" \in sending => mpc \in {"loop", "disconnect"}
    /\ "recv" \in sending => rpc = "top"
    /\ "hb" \in sending => hpc = "sleep"

\* After IpcInit and IpcListen: both threads run, nobody has connected.
Init ==
    /\ running = TRUE /\ state = FALSE /\ connFd = NoFd
    /\ sock = [n \in Fds |-> None] /\ badClose = FALSE
    /\ listening = TRUE /\ backlog = <<>>
    /\ client = [c \in Clients |-> "none"] /\ inq = [c \in Clients |-> <<>>]
    /\ mpc = "loop" /\ newFd = NoFd
    /\ rpc = "top" /\ rfd = NoFd /\ asleepOn = None
    /\ head = None /\ hand = "none" /\ hpc = "sleep"
    /\ sending = {} /\ lock = "free"

\* if (ctx->connFd >= 0) close(ctx->connFd)
CloseConn ==
    IF connFd = NoFd THEN UNCHANGED fdVars
    ELSE /\ sock' = [sock EXCEPT ![connFd] = None]
         /\ badClose' = (badClose \/ sock[connFd] = None)

\* Mutant: connFd keeps the number that was closed.
DropConnKeepFd == lock = "free" /\ CloseConn /\ state' = FALSE /\ UNCHANGED <<running, connFd>>

\* Mutant: the state stays CONNECTED.
DropConnKeepState ==
    lock = "free" /\ CloseConn /\ connFd' = NoFd /\ UNCHANGED <<running, state>>

\* The critical section that ends a connection, the same at three places.
DropConn ==
    lock = "free" /\ CloseConn /\ connFd' = NoFd /\ state' = FALSE /\ UNCHANGED running

-----------------------------------------------------------------------------
(* SendMessageInternal                                                       *)

\* Its test, outside the lock: without a connection nothing is sent.
Sends(t) ==
    /\ sending' = IF state /\ connFd # NoFd THEN sending \cup {t} ELSE sending
    /\ UNCHANGED lock

\* The client of the connection takes nothing more.
Hung == connFd # NoFd /\ sock[connFd] # None /\ client[sock[connFd]] = "hung"

\* The frame is written, or the write fails: connFd may be -1 or its client gone.
Send(t) ==
    /\ t \in sending /\ lock = "free" /\ ~Hung
    /\ sending' = sending \ {t}
    /\ UNCHANGED <<ctxVars, fdVars, mainVars, recvVars, sockVars, hpc, lock>>

\* SendAll finds the buffer full: it retries, the lock in hand.
SendBlocks(t) ==
    /\ t \in sending /\ lock = "free" /\ Hung
    /\ lock' = t
    /\ UNCHANGED <<ctxVars, fdVars, mainVars, recvVars, sockVars, hpc, sending>>

\* Mutant: the error path forgets the lock.
SendFailsLocked(t) ==
    /\ lock = t /\ ~Hung
    /\ sending' = sending \ {t}
    /\ UNCHANGED <<ctxVars, fdVars, mainVars, recvVars, sockVars, hpc, lock>>

\* The client has closed its end: EPIPE ends SendAll.
SendFails(t) ==
    /\ lock = t /\ ~Hung
    /\ sending' = sending \ {t} /\ lock' = "free"
    /\ UNCHANGED <<ctxVars, fdVars, mainVars, recvVars, sockVars, hpc>>

SendStep(t) == Send(t) \/ SendBlocks(t) \/ SendFails(t)

-----------------------------------------------------------------------------
(* The main thread (its next step when it is not in SendMessageInternal)     *)

\* IpcPollAccept has seen a connection and accept() returns a descriptor.
MainAccept ==
    /\ mpc = "loop" /\ backlog # <<>>
    /\ \E n \in Fds :
         /\ sock[n] = None /\ \A m \in Fds : sock[m] = None => n =< m
         /\ newFd' = n /\ sock' = [sock EXCEPT ![n] = Head(backlog)]
    /\ backlog' = Tail(backlog)
    /\ mpc' = "install"
    /\ UNCHANGED <<ctxVars, badClose, listening, recvVars, client, inq, hpc, sendVars>>

\* Mutant: the old connection is not closed.
MainInstallNoClose ==
    /\ mpc = "install" /\ lock = "free"
    /\ connFd' = newFd /\ state' = TRUE /\ newFd' = NoFd
    /\ mpc' = "resp"
    /\ UNCHANGED <<running, fdVars, listening, recvVars, sockVars, hpc, sendVars>>

\* IpcAccept's critical section: the old connection is closed and replaced.
MainInstall ==
    /\ mpc = "install" /\ lock = "free"
    /\ CloseConn
    /\ connFd' = newFd /\ state' = TRUE /\ newFd' = NoFd
    /\ mpc' = "resp"
    /\ UNCHANGED <<running, listening, recvVars, sockVars, hpc, sendVars>>

\* CONNECT_RESP, the end of IpcAccept.
MainRespond ==
    /\ mpc = "resp"
    /\ Sends("main")
    /\ mpc' = "loop"
    /\ UNCHANGED <<ctxVars, fdVars, listening, newFd, recvVars, sockVars, hpc>>

\* The message of every tenth round, after a poll that found nobody.  (The wait for
\* its ACK ends by itself.)
MainTalk ==
    /\ mpc = "loop" /\ backlog = <<>> /\ state /\ connFd # NoFd
    /\ Sends("main")
    /\ UNCHANGED <<ctxVars, fdVars, mainVars, recvVars, sockVars, hpc>>

\* SIGINT ends the loop; IpcDestroy clears running first.
MainShutdown ==
    /\ mpc = "loop"
    /\ running' = FALSE /\ mpc' = "bye"
    /\ UNCHANGED <<state, connFd, fdVars, listening, newFd, recvVars, sockVars, hpc, sendVars>>

\* IpcDisconnect tells the client, if there is one.
MainBye ==
    /\ mpc = "bye"
    /\ Sends("main")
    /\ mpc' = "disconnect"
    /\ UNCHANGED <<ctxVars, fdVars, listening, newFd, recvVars, sockVars, hpc>>

\* Its critical section.
MainDisconnect ==
    /\ mpc = "disconnect"
    /\ DropConn
    /\ mpc' = "join_recv"
    /\ UNCHANGED <<listening, newFd, recvVars, sockVars, hpc, sendVars>>

\* pthread_join of both threads, in this order.
MainJoin ==
    /\ \/ mpc = "join_recv" /\ rpc = "end" /\ mpc' = "join_hb"
       \/ mpc = "join_hb" /\ hpc = "end" /\ mpc' = "cleanup"
    /\ UNCHANGED <<ctxVars, fdVars, listening, newFd, recvVars, sockVars, hpc, sendVars>>

\* The listening socket is closed, which also ends what it still queued, and
\* the context is freed.
MainCleanup ==
    /\ mpc = "cleanup"
    /\ listening' = FALSE /\ backlog' = <<>> /\ mpc' = "gone"
    /\ UNCHANGED <<ctxVars, fdVars, newFd, recvVars, client, inq, hpc, sendVars>>

-----------------------------------------------------------------------------
(* ReceiveThread                                                             *)

\* Mutant: the receive thread does not look at running.
RecvTopForever ==
    /\ rpc = "top" /\ state /\ connFd # NoFd /\ rpc' = "call"
    /\ UNCHANGED <<ctxVars, fdVars, mainVars, rfd, asleepOn, head, hand, sockVars, hpc, sendVars>>

\* while (ctx->running): it waits until there is a connection.
RecvTop ==
    /\ rpc = "top"
    /\ \/ ~running /\ rpc' = "end"
       \/ running /\ state /\ connFd # NoFd /\ rpc' = "call"
    /\ UNCHANGED <<ctxVars, fdVars, mainVars, rfd, asleepOn, head, hand, sockVars, hpc, sendVars>>

\* ctx->connFd is loaded again for each RecvAll, that of the header and that of
\* the payload; by now it can be -1 or another one.
RecvCall ==
    /\ rpc = "call"
    /\ rfd' = connFd
    /\ rpc' = IF connFd = NoFd THEN "disconnect" ELSE "enter"
    /\ UNCHANGED <<ctxVars, fdVars, mainVars, asleepOn, head, hand, sockVars, hpc, sendVars>>

\* recv() holds the socket the number stands for by now, or fails on none.
RecvEnter ==
    /\ rpc = "enter"
    /\ asleepOn' = sock[rfd] /\ rfd' = NoFd
    /\ rpc' = IF sock[rfd] = None THEN "disconnect" ELSE "asleep"
    /\ UNCHANGED <<ctxVars, fdVars, mainVars, head, hand, sockVars, hpc, sendVars>>

\* Something has arrived on the socket it sleeps on.
Recv ==
    /\ rpc = "asleep" /\ inq[asleepOn] # <<>>
    /\ inq' = [inq EXCEPT ![asleepOn] = Tail(@)]
    /\ asleepOn' = None
    /\ UNCHANGED <<ctxVars, fdVars, mainVars, rfd, backlog, client, hpc, sendVars>>

\* It is read as a header: anything else fails in DeserializeHeader.
RecvHeader ==
    /\ Recv /\ head = None
    /\ LET piece == Head(inq[asleepOn]) IN
         /\ rpc' = CASE piece = "H" -> "call" [] piece = "N" -> "handle" [] OTHER -> "disconnect"
         /\ head' = IF piece = "H" THEN asleepOn ELSE None
         /\ hand' \in IF piece = "N" THEN {"MSG", "DISC"} ELSE {"none"}

\* What the comparison of the checksums can come to: equal for a header and its own
\* payload, either way for a header and the bytes of another client or frame (most
\* of crc32Table is zero, and the sum often that of other bytes too).
ChecksumOK(piece) == IF asleepOn = head /\ piece = "P" THEN {TRUE} ELSE BOOLEAN

\* It is read as the payload of the last header; with the wrong checksum the
\* frame is skipped and the next header is read.
RecvPayload ==
    /\ Recv /\ head # None
    /\ \E equal \in ChecksumOK(Head(inq[asleepOn])) :
         /\ rpc' = IF equal THEN "handle" ELSE "top"
         /\ hand' = IF equal THEN "MSG" ELSE "none"
    /\ head' = None

\* The client has closed the socket.  Nothing else wakes the thread: not its own
\* process closing the descriptor, and no timeout.
RecvEof ==
    /\ rpc = "asleep" /\ inq[asleepOn] = <<>> /\ client[asleepOn] = "shut"
    /\ rpc' = "disconnect" /\ asleepOn' = None
    /\ UNCHANGED <<ctxVars, fdVars, mainVars, rfd, head, hand, sockVars, hpc, sendVars>>

\* HandleMessage: only DISCONNECT touches the state, and it closes nothing.  DATA
\* that wants an ACK, HEARTBEAT and CONNECT_REQ are answered.
RecvHandle ==
    /\ rpc = "handle"
    /\ state' = (state /\ hand # "DISC")
    /\ hand' = "none" /\ rpc' = "top"
    /\ \/ hand = "MSG" /\ Sends("recv")
       \/ UNCHANGED sendVars
    /\ UNCHANGED <<running, connFd, fdVars, mainVars, rfd, asleepOn, head, sockVars, hpc>>

\* disconnect: (enableReconnect is false in a server)
RecvDisconnect ==
    /\ rpc = "disconnect"
    /\ DropConn
    /\ rpc' = "top" /\ head' = None
    /\ UNCHANGED <<mainVars, rfd, asleepOn, hand, sockVars, hpc, sendVars>>

-----------------------------------------------------------------------------
(* HeartbeatThread: wakes, and either stops, or finds the last frame received *)
(* too old, or the last one sent, and then sends one.  (Finding both recent,   *)
(* or not being connected, changes nothing.)                                  *)

HeartbeatWake ==
    /\ hpc = "sleep"
    /\ \/ ~running /\ hpc' = "end" /\ UNCHANGED sendVars
       \/ state /\ hpc' = "expired" /\ UNCHANGED sendVars
       \/ state /\ Sends("hb") /\ UNCHANGED hpc
    /\ UNCHANGED <<ctxVars, fdVars, mainVars, recvVars, sockVars>>

HeartbeatDrop ==
    /\ hpc = "expired"
    /\ DropConn
    /\ hpc' = "sleep"
    /\ UNCHANGED <<mainVars, recvVars, sockVars, sendVars>>

-----------------------------------------------------------------------------
(* The clients                                                               *)

\* The server's end of c's connection: accept() has yet to return it, or it is open,
\* or recv() still holds it.
Queued(c) == \E i \in DOMAIN backlog : backlog[i] = c
Linked(c) == Queued(c) \/ asleepOn = c \/ \E n \in Fds : sock[n] = c

ClientConnect(c) ==
    /\ client[c] = "none" /\ listening
    /\ client' = [client EXCEPT ![c] = "open"] /\ backlog' = Append(backlog, c)
    /\ UNCHANGED <<ctxVars, fdVars, mainVars, recvVars, inq, hpc, sendVars>>

\* (Without the server's end send() fails.)
ClientSend(c) ==
    /\ client[c] \in {"open", "hung"} /\ Linked(c) /\ Len(inq[c]) < MaxPieces
    /\ \E frame \in {<<"H", "P">>, <<"N">>} : inq' = [inq EXCEPT ![c] = @ \o frame]
    /\ UNCHANGED <<ctxVars, fdVars, mainVars, recvVars, backlog, client, hpc, sendVars>>

\* It stops reading, and what it was sent fills its buffer.
ClientHang(c) ==
    /\ client[c] = "open" /\ Linked(c)
    /\ client' = [client EXCEPT ![c] = "hung"]
    /\ UNCHANGED <<ctxVars, fdVars, mainVars, recvVars, backlog, inq, hpc, sendVars>>

ClientClose(c) ==
    /\ client[c] \in {"open", "hung"}
    /\ client' = [client EXCEPT ![c] = "shut"]
    /\ UNCHANGED <<ctxVars, fdVars, mainVars, recvVars, backlog, inq, hpc, sendVars>>

MainStep ==
    /\ "main" \notin sending
    /\ \/ MainAccept \/ MainInstall \/ MainRespond
       \/ MainBye \/ MainDisconnect \/ MainJoin \/ MainCleanup
RecvStep ==
    /\ "recv" \notin sending
    /\ \/ RecvTop \/ RecvCall \/ RecvEnter \/ RecvHeader \/ RecvPayload \/ RecvEof
       \/ RecvHandle \/ RecvDisconnect
HeartbeatStep == "hb" \notin sending /\ (HeartbeatWake \/ HeartbeatDrop)

Next ==
    \/ MainStep \/ RecvStep \/ HeartbeatStep
    \/ "main" \notin sending /\ (MainTalk \/ MainShutdown)
    \/ \E t \in Threads : SendStep(t)
    \/ \E c \in Clients : ClientConnect(c) \/ ClientSend(c) \/ ClientHang(c) \/ ClientClose(c)

Spec == Init /\ [][Next]_vars

\* The three threads are scheduled.  A message or a shutdown need not come; a client
\* need not send, read or close.
FairSpec ==
    /\ Spec
    /\ WF_vars(MainStep \/ SendStep("main"))
    /\ WF_vars(RecvStep \/ SendStep("recv"))
    /\ WF_vars(HeartbeatStep \/ SendStep("hb"))

-----------------------------------------------------------------------------
(* Properties                                                                *)

\* However accept, receive failure, heartbeat timeout and shutdown interleave,
\* only an open descriptor is closed: every close is under the lock and
\* followed by -1, so a number the kernel has handed out again is not hit.
ClosedOnce == ~badClose

\* A descriptor is open only while the context, or the IpcAccept under way,
\* holds it, so none is forgotten when clients come and go, and none is left when
\* IpcDestroy frees the context.
NoFdLeak ==
    \A n \in Fds : sock[n] # None => mpc # "gone" /\ (connFd = n \/ newFd = n)

\* A client holds a writer: it is open and reads no more, and SendAll waits for it with
\* ctx->lock in hand.
WriterHeld == lock # "free" /\ Hung

\* A client holds the receive thread: it is open, silent, and recv() has no timeout.
ReaderHeld ==
    rpc = "asleep" /\ inq[asleepOn] = <<>> /\ client[asleepOn] \in {"open", "hung"}

\* Nothing but a client that stops reading keeps the main loop from accepting: not
\* the three threads' use of the lock, not the replaced connections, and not the
\* receive thread that sleeps on one of them.
ClientsAccepted ==
    []<>~WriterHeld => \A c \in Clients : Queued(c) ~> ~Queued(c) \/ ~running

\* Nothing but such a client, or a silent one, keeps IpcDestroy from returning.
DestroyReturns == []<>~(WriterHeld \/ ReaderHeld) => ((mpc = "bye") ~> (mpc = "gone"))

\* It returns whatever the clients do (it does not).
DestroyAlwaysReturns == (mpc = "bye") ~> (mpc = "gone")
=============================================================================
