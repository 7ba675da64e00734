------------------------------- MODULE IpcClient -------------------------------
(*****************************************************************************)
(* The threads of an ipc_client process around one IpcContext: the main loop *)
(* of ipc_client.c (IpcConnect, then the commands, of which 'd', 'r' and 'q' *)
(* touch the connection), the ReceiveThread and the HeartbeatThread.  All     *)
(* three can be inside IpcReconnect at once, which takes no lock.            *)
(*                                                                           *)
(* A step is one system call with the tests before it, or the assignments    *)
(* after it.  A descriptor is a number and the kernel hands out the lowest   *)
(* free one.  The server is the environment: it listens or not, it stops     *)
(* reading and may go on, and it goes away with a DISCONNECT frame            *)
(* (IpcDestroy) or without (killed).  Of a frame that is sent only the time    *)
(* it takes is kept: while the server does not read and its buffer is full,    *)
(* SendAll retries, with ctx->lock in hand and without a limit.               *)
(*****************************************************************************)
EXTENDS Integers, FiniteSets

CONSTANTS
    MaxAttempts,    \* config.maxReconnectAttempts
    MaxFd           \* the process has the descriptors 0 .. MaxFd for sockets

ASSUME AttemptsAssumption == MaxAttempts \in Nat \ {0}
ASSUME FdAssumption == MaxFd \in Nat

VARIABLES
    running, state, connFd, reconnectCount, \* of the context
    sock,       \* what each number stands for: no socket, one not connected yet,
                \* a connection, one that takes no more, one with a DISCONNECT
                \* frame to read, a dead one
    listening,  \* the server listens
    pc,         \* where each thread stands
    rfd,        \* the descriptor RecvAll works on
    lock,       \* who has ctx->lock over more than one step
    wfd         \* the descriptor on which the holder retries in SendAll

ctxVars == <<running, state, connFd, reconnectCount>>
lockVars == <<lock, wfd>>
vars == <<ctxVars, sock, listening, pc, rfd, lockVars>>

Threads == {"main", "recv", "hb"}
Fds == 0 .. MaxFd
NoFd == -1
Free == {n \in Fds : sock[n] = "none"}

\* Where the loop of each thread begins.
Home == [main |-> "loop", recv |-> "top", hb |-> "sleep"]

\* Where a thread goes on after a frame or after IpcReconnect: the heartbeat thread
\* tests running before it sleeps again.
NextRound(t) == IF t = "hb" /\ ~running THEN "end" ELSE Home[t]

InReconnect == {"begin", "attempt", "clear", "socket", "connect", "connected", "req",
                "failed", "unset"}

\* In SendMessageInternal, with data, a heartbeat or an answer; with DISCONNECT; with
\* CONNECT_REQ.
InSend == {"send", "bye", "req"}

Sockets == {"none", "fresh", "live", "full", "bye", "dead"}

TypeOK ==
    /\ running \in BOOLEAN
    /\ state \in {"IDLE", "CONNECTING", "CONNECTED", "DISCONNECTED", "RECONNECTING",
                  "ERROR"}
    /\ connFd \in Fds \cup {NoFd} /\ rfd \in Fds \cup {NoFd}
    /\ reconnectCount \in Nat
    /\ sock \in [Fds -> Sockets]
    /\ listening \in BOOLEAN
    /\ pc \in [Threads -> InReconnect \cup InSend \cup
                  {"start", "loop", "drop", "dropped", "join_recv", "join_hb", "gone",
                   "top", "recv", "sleep", "end"}]
    /\ pc["recv"] = "recv" <=> rfd # NoFd
    /\ lock \in Threads \cup {"free"} /\ wfd \in Fds \cup {NoFd}
    /\ \A t \in Threads : pc[t] = "dropped" <=> lock = t /\ wfd = NoFd
    /\ wfd # NoFd => lock # "free" /\ pc[lock] \in InSend

\* IpcInit; the threads exist once IpcConnect has succeeded.
Init ==
    /\ running = TRUE /\ state = "IDLE" /\ connFd = NoFd /\ reconnectCount = 0
    /\ sock = [n \in Fds |-> "none"] /\ listening \in BOOLEAN
    /\ pc = [main |-> "start", recv |-> "end", hb |-> "end"] /\ rfd = NoFd
    /\ lock = "free" /\ wfd = NoFd

Goto(t, l) == pc' = [pc EXCEPT ![t] = l]

Close(n) == sock' = IF n = NoFd THEN sock ELSE [sock EXCEPT ![n] = "none"]

-----------------------------------------------------------------------------
(* SendMessageInternal                                                       *)

\* Nothing makes a frame wait: there is room for it, or its write fails.
Goes == connFd \notin {n \in Fds : sock[n] = "full"}

\* The server does not read and the buffer is full, or becomes so before the frame is
\* out; the first frame of a connection finds room.
Retry(t, l) ==
    /\ lock = "free" /\ connFd # NoFd
    /\ sock[connFd] \in {"full"} \cup (IF l = "req" THEN {} ELSE {"live"})
    /\ lock' = t /\ wfd' = connFd /\ sock' = [sock EXCEPT ![connFd] = "full"]

\* Thread t sends the frame of l and is at k: it is out, or its write fails, in one step
\* when nobody has the lock and nothing makes it wait.  Otherwise t is at l, waiting
\* for the lock or retrying with it.
Sends(t, l, k) ==
    \/ /\ connFd = NoFd \/ (lock = "free" /\ Goes)
       /\ Goto(t, k) /\ UNCHANGED <<sock, lockVars>>
    \/ /\ connFd # NoFd /\ lock # "free"
       /\ Goto(t, l) /\ UNCHANGED <<sock, lockVars>>
    \/ Retry(t, l) /\ Goto(t, l)

\* After "req" IpcReconnect returns, after "bye" IpcDisconnect goes on.
AfterSend(t) ==
    /\ Goto(t, IF pc[t] = "bye" THEN "drop" ELSE NextRound(t))
    /\ reconnectCount' = IF pc[t] = "req" THEN 0 ELSE reconnectCount
    /\ UNCHANGED <<running, state, connFd, sock, listening, rfd>>

\* The wait for the lock is over; connFd is loaded now.
SendLocked(t) ==
    /\ pc[t] \in InSend /\ lock = "free"
    /\ \/ Goes /\ AfterSend(t) /\ UNCHANGED lockVars
       \/ Retry(t, pc[t]) /\ UNCHANGED <<ctxVars, listening, pc, rfd>>

\* The retry gets through, or finds the connection gone: send() fails.
SendEnds(t) ==
    /\ lock = t /\ pc[t] \in InSend /\ sock[wfd] # "full"
    /\ lock' = "free" /\ wfd' = NoFd
    /\ AfterSend(t)

SendStep(t) == SendLocked(t) \/ SendEnds(t)

-----------------------------------------------------------------------------
(* Ending a connection: IpcDisconnect, "disconnect:" of ReceiveThread, and    *)
(* the timeout of HeartbeatThread share this section of ctx->lock.           *)

Drop(t) ==
    /\ pc[t] = "drop" /\ lock = "free"
    /\ Close(connFd)
    /\ lock' = t
    /\ Goto(t, "dropped")
    /\ UNCHANGED <<ctxVars, listening, rfd, wfd>>

\* The two threads then reconnect (enableReconnect is true in ipc_client); the
\* main thread returns to its loop, or to the joins of IpcDestroy.
Dropped(t) ==
    /\ pc[t] = "dropped"
    /\ connFd' = NoFd /\ state' = "DISCONNECTED"
    /\ lock' = "free"
    /\ Goto(t, IF t # "main" THEN "begin" ELSE IF running THEN "loop" ELSE "join_recv")
    /\ UNCHANGED <<running, reconnectCount, sock, listening, rfd, wfd>>

-----------------------------------------------------------------------------
(* IpcReconnect, in any thread and without a lock                            *)

\* (The main thread's is the command 'r'.)
ReconnectBegin(t) ==
    /\ pc[t] = "begin" \/ (t = "main" /\ pc[t] = "loop")
    /\ state' = "RECONNECTING" /\ reconnectCount' = 0
    /\ Goto(t, "attempt")
    /\ UNCHANGED <<running, connFd, sock, listening, rfd, lockVars>>


\* Another attempt: what the context holds by now is closed first.
ReconnectAttempt(t) ==
    /\ pc[t] = "attempt" /\ running /\ reconnectCount < MaxAttempts
    /\ reconnectCount' = reconnectCount + 1
    /\ Close(connFd)
    /\ Goto(t, IF connFd = NoFd THEN "socket" ELSE "clear")
    /\ UNCHANGED <<running, state, connFd, listening, rfd, lockVars>>

ReconnectClear(t) ==
    /\ pc[t] = "clear"
    /\ connFd' = NoFd
    /\ Goto(t, "socket")
    /\ UNCHANGED <<running, state, reconnectCount, sock, listening, rfd, lockVars>>

\* CreateSocket, which fails when the process is out of descriptors, and the
\* state DoConnect starts with.
ReconnectSocket(t) ==
    /\ pc[t] = "socket"
    /\ IF Free = {}
       THEN connFd' = NoFd /\ Goto(t, "attempt") /\ UNCHANGED <<state, sock>>
       ELSE \E n \in Free :
              /\ \A m \in Free : n =< m
              /\ connFd' = n /\ sock' = [sock EXCEPT ![n] = "fresh"]
              /\ state' = "CONNECTING"
              /\ Goto(t, "connect")
    /\ UNCHANGED <<running, reconnectCount, listening, rfd, lockVars>>

\* connect() on the descriptor the context holds by now.
ReconnectConnect(t) ==
    /\ pc[t] = "connect"
    /\ IF connFd # NoFd /\ sock[connFd] = "fresh" /\ listening
       THEN sock' = [sock EXCEPT ![connFd] = "live"] /\ Goto(t, "connected")
            /\ UNCHANGED state
       ELSE state' = "DISCONNECTED" /\ Goto(t, "failed") /\ UNCHANGED sock
    /\ UNCHANGED <<running, connFd, reconnectCount, listening, rfd, lockVars>>

\* The state DoConnect ends with; then CONNECT_REQ is sent.
ReconnectConnected(t) ==
    /\ pc[t] = "connected"
    /\ state' = "CONNECTED"
    /\ Sends(t, "req", NextRound(t))
    /\ reconnectCount' = IF pc'[t] = "req" THEN reconnectCount ELSE 0
    /\ UNCHANGED <<running, connFd, listening, rfd>>

ReconnectFailed(t) ==
    /\ pc[t] = "failed"
    /\ Close(connFd)
    /\ Goto(t, "unset")
    /\ UNCHANGED <<ctxVars, listening, rfd, lockVars>>

ReconnectUnset(t) ==
    /\ pc[t] = "unset"
    /\ connFd' = NoFd
    /\ Goto(t, "attempt")
    /\ UNCHANGED <<running, state, reconnectCount, sock, listening, rfd, lockVars>>

\* Out of attempts, or the context is being destroyed.
ReconnectGiveUp(t) ==
    /\ pc[t] = "attempt" /\ ~(running /\ reconnectCount < MaxAttempts)
    /\ state' = "ERROR"
    /\ Goto(t, NextRound(t))
    /\ UNCHANGED <<running, connFd, reconnectCount, sock, listening, rfd, lockVars>>

Reconnect(t) ==
    \/ ReconnectBegin(t) \/ ReconnectAttempt(t) \/ ReconnectClear(t) \/ ReconnectSocket(t)
    \/ ReconnectConnect(t) \/ ReconnectConnected(t) \/ ReconnectFailed(t)
    \/ ReconnectUnset(t) \/ ReconnectGiveUp(t)

-----------------------------------------------------------------------------
(* The main thread                                                           *)

\* IpcConnect with its CONNECT_REQ, alone in the process.  When it fails the program
\* goes on, with no threads.
MainConnect ==
    /\ pc["main"] = "start"
    /\ IF listening
       THEN /\ connFd' = 0 /\ sock' = [sock EXCEPT ![0] = "live"] /\ state' = "CONNECTED"
            /\ pc' = Home
       ELSE /\ state' = "DISCONNECTED" /\ Goto("main", "loop") /\ UNCHANGED <<connFd, sock>>
    /\ UNCHANGED <<running, reconnectCount, listening, rfd, lockVars>>

\* IpcDisconnect as far as its critical section: DISCONNECT is sent over a connection.
Disconnect ==
    \/ state = "CONNECTED" /\ Sends("main", "bye", "drop")
    \/ state # "CONNECTED" /\ Goto("main", "drop") /\ UNCHANGED <<sock, lockVars>>

\* 'd' calls IpcDisconnect; '1' to '3' send a message.  (The wait for its ACK
\* ends by itself.)
MainCommand ==
    /\ pc["main"] = "loop"
    /\ \/ Disconnect
       \/ state = "CONNECTED" /\ Sends("main", "send", "loop")
    /\ UNCHANGED <<ctxVars, listening, rfd>>

\* 'q': IpcDestroy clears running and calls IpcDisconnect.
MainQuit ==
    /\ pc["main"] = "loop"
    /\ running' = FALSE /\ Disconnect
    /\ UNCHANGED <<state, connFd, reconnectCount, listening, rfd>>

\* Both joins, then the context is freed; connFd is not looked at again.
MainJoin ==
    /\ \/ pc["main"] = "join_recv" /\ pc["recv"] = "end" /\ Goto("main", "join_hb")
       \/ pc["main"] = "join_hb" /\ pc["hb"] = "end" /\ Goto("main", "gone")
    /\ UNCHANGED <<ctxVars, sock, listening, rfd, lockVars>>

-----------------------------------------------------------------------------
(* ReceiveThread                                                             *)

\* Mutant: the receive thread does not look at running.
RecvTopForever ==
    /\ pc["recv"] = "top" /\ state = "CONNECTED" /\ connFd # NoFd
    /\ rfd' = connFd /\ Goto("recv", "recv")
    /\ UNCHANGED <<ctxVars, sock, listening, lockVars>>

\* Mutant: connFd is not tested before it is read from.
RecvTopUnchecked ==
    /\ pc["recv"] = "top"
    /\ \/ ~running /\ Goto("recv", "end") /\ UNCHANGED rfd
       \/ running /\ state = "CONNECTED" /\ rfd' = connFd /\ Goto("recv", "recv")
    /\ UNCHANGED <<ctxVars, sock, listening, lockVars>>

\* while (ctx->running): it waits until there is a connection.  RecvAll loads
\* connFd once more right after the test; the two are one step here.
RecvTop ==
    /\ pc["recv"] = "top"
    /\ \/ ~running /\ Goto("recv", "end") /\ UNCHANGED rfd
       \/ running /\ state = "CONNECTED" /\ connFd # NoFd
          /\ rfd' = connFd /\ Goto("recv", "recv")
    /\ UNCHANGED <<ctxVars, sock, listening, lockVars>>

\* RecvAll, by what the number stands for now: nothing arrives for 100 ms, or a frame
\* does and perhaps is answered; DISCONNECT; or an error, end of file, a header that is
\* none or a payload that does not come in 5 s.
RecvFrame ==
    /\ pc["recv"] = "recv" /\ sock[rfd] \in {"live", "full"}
    /\ \/ Goto("recv", "top") /\ UNCHANGED <<sock, lockVars>>
       \/ state = "CONNECTED" /\ Sends("recv", "send", "top")
    /\ rfd' = NoFd
    /\ UNCHANGED <<ctxVars, listening>>

RecvDisconnectFrame ==
    /\ pc["recv"] = "recv" /\ sock[rfd] = "bye"
    /\ sock' = [sock EXCEPT ![rfd] = "dead"] /\ state' = "DISCONNECTED"
    /\ rfd' = NoFd /\ Goto("recv", "top")
    /\ UNCHANGED <<running, connFd, reconnectCount, listening, lockVars>>

RecvFails ==
    /\ pc["recv"] = "recv"
    /\ rfd' = NoFd /\ Goto("recv", "drop")
    /\ UNCHANGED <<ctxVars, sock, listening, lockVars>>

-----------------------------------------------------------------------------
(* HeartbeatThread                                                           *)

HeartbeatEnd ==
    /\ pc["hb"] = "sleep" /\ ~running
    /\ Goto("hb", "end")
    /\ UNCHANGED <<ctxVars, sock, listening, rfd, lockVars>>

\* Mutant: the timeout needs a descriptor.
HeartbeatExpiresOnSocket ==
    /\ pc["hb"] = "sleep" /\ state = "CONNECTED" /\ connFd # NoFd
    /\ Goto("hb", "drop")
    /\ UNCHANGED <<ctxVars, sock, listening, rfd, lockVars>>

\* Awake, connected, and the last frame received is too old.
HeartbeatExpires ==
    /\ pc["hb"] = "sleep" /\ state = "CONNECTED"
    /\ Goto("hb", "drop")
    /\ UNCHANGED <<ctxVars, sock, listening, rfd, lockVars>>

\* Or the last one sent.
HeartbeatSends ==
    /\ pc["hb"] = "sleep" /\ state = "CONNECTED"
    /\ Sends("hb", "send", NextRound("hb"))
    /\ UNCHANGED <<ctxVars, listening, rfd>>

-----------------------------------------------------------------------------
(* The server                                                                *)

ServerStart ==
    /\ ~listening /\ listening' = TRUE
    /\ UNCHANGED <<ctxVars, sock, pc, rfd, lockVars>>

\* It reads again.
ServerReads ==
    /\ \E n \in Fds : sock[n] = "full" /\ sock' = [sock EXCEPT ![n] = "live"]
    /\ UNCHANGED <<ctxVars, listening, pc, rfd, lockVars>>

\* The server's sockets go with it; IpcDestroy says DISCONNECT on the way.
ServerStop ==
    /\ listening /\ listening' = FALSE
    /\ \E last \in {"bye", "dead"} :
         sock' = [n \in Fds |-> IF sock[n] \in {"live", "full"} THEN last ELSE sock[n]]
    /\ UNCHANGED <<ctxVars, pc, rfd, lockVars>>

ThreadStep(t) == SendStep(t) \/ Drop(t) \/ Dropped(t) \/ Reconnect(t)
RecvStep == RecvTop \/ RecvFrame \/ RecvDisconnectFrame \/ RecvFails

Next ==
    \/ \E t \in Threads : ThreadStep(t)
    \/ MainConnect \/ MainCommand \/ MainQuit \/ MainJoin
    \/ RecvStep \/ HeartbeatEnd \/ HeartbeatExpires \/ HeartbeatSends
    \/ ServerStart \/ ServerReads \/ ServerStop

Spec == Init /\ [][Next]_vars

\* No frame can arrive on what the context takes for its connection.
Silent == connFd \notin {n \in Fds : sock[n] \in {"live", "full"}}

\* The threads run; no command need come and the server need not behave.  The
\* heartbeat timeout elapses when nothing can arrive any more.
FairSpec ==
    /\ Spec
    /\ WF_vars((pc["main"] # "loop" /\ ThreadStep("main")) \/ MainJoin)
    /\ WF_vars(ThreadStep("recv") \/ RecvStep)
    /\ WF_vars(ThreadStep("hb") \/ HeartbeatEnd \/ (Silent /\ HeartbeatExpires))

-----------------------------------------------------------------------------
(* Properties                                                                *)

\* A thread retries in SendAll, the lock in hand, on a connection that takes no more.
Stuck == wfd # NoFd /\ sock[wfd] = "full"

\* IpcDestroy returns, also from the middle of reconnections, unless a server that is
\* there and does not read holds a writer, DISCONNECT's among them.
DestroyReturns == []<>~Stuck => (~running ~> pc["main"] = "gone")

\* A context that takes itself for connected without a live connection does not
\* stay so: the receive thread or, if there is no descriptor, the heartbeat finds out.
\* (A thread that writes to another connection can keep it from the lock.)
StaleConnectionNoticed ==
    []<>~Stuck =>
        ((state = "CONNECTED" /\ Silent /\ pc["hb"] # "end" /\ running)
            ~> (state # "CONNECTED" \/ ~Silent \/ ~running))


(* What the documentation promises and the code does not keep                *)

\* IpcDestroy returns.
DestroyAlwaysReturns == ~running ~> pc["main"] = "gone"

\* The client starts to reconnect by itself when the server has gone, unless its
\* user gets ahead of it with a command.
RecoversByItself ==
    (state = "DISCONNECTED" /\ connFd # NoFd /\ pc["main"] = "loop")
        ~> (state # "DISCONNECTED" \/ pc["main"] # "loop")
=============================================================================
