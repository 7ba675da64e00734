------------------------------ MODULE IpcSession ------------------------------
(*****************************************************************************)
(* Sequence numbers and acknowledgements across connections: one ipc_server  *)
(* and one ipc_client process, each with its IpcContext of ipc_reliable.c,   *)
(* through losses of the connection, reconnections and process restarts.     *)
(*                                                                           *)
(* A connection is a number; chan[c][e] holds the frames on connection c that *)
(* travel to end e.  Every context is used by one sending thread (the main    *)
(* loop of the program), so of its window only the entry being waited for    *)
(* matters (module SendWindow has the whole window); both programs send with *)
(* needAck = true.  How fast a thread gets from one step to the next is open, *)
(* so the receive thread may hold a frame while the main loop accepts a new  *)
(* connection: reading a frame and handling it are two steps.                *)
(*                                                                           *)
(* CONNECT_REQ, CONNECT_RESP and the heartbeat frames change no number and no *)
(* state of the contexts and are left out.                                   *)
(*****************************************************************************)
EXTENDS Integers, Sequences

CONSTANTS
    MaxConn,        \* bound: connections in a behaviour
    MaxMsgs,        \* bound: messages sent, for each end
    MaxRestarts,    \* bound: starts of the server after the first
    MaxReplaced     \* bound: client processes after the first

ASSUME BoundAssumption == /\ MaxConn \in Nat /\ MaxRestarts \in Nat
                          /\ MaxReplaced \in Nat
                          /\ MaxMsgs \in [{"server", "client"} -> Nat]

VARIABLES
    epoch,      \* connections made so far
    backlog,    \* connections waiting in the listen queue
    listening,  \* the server process runs and listens
    restarts,   \* starts of the server after the first
    replaced,   \* client processes after the first
    chan,       \* frames in each connection, by the end they travel to
    link,       \* ctx->connFd of each end, 0 for -1
    up,         \* ctx->state = STATE_CONNECTED
    nextSeq, expectedSeq,
    reading,    \* the connection its receive thread is in RecvAll on, 0 if none
    hand,       \* the frame its receive thread has read and not handled
    failed,     \* its receive thread is on the way to "disconnect:"
    pend,       \* the message IpcSendData waits for
    count,      \* history: messages sent, which also names them
    delivered,  \* history: names passed to onMessage at this end
    confirmed   \* history: names for which IpcSendData returned IPC_OK

sockVars == <<epoch, backlog, listening, restarts, replaced, chan>>
ctxVars  == <<link, up, nextSeq, expectedSeq>>
recvVars == <<reading, hand, failed>>
sendVars == <<pend, count, confirmed>>
vars == <<sockVars, ctxVars, recvVars, sendVars, delivered>>

Ends == {"server", "client"}
Peer(e) == IF e = "server" THEN "client" ELSE "server"
Conns == 1 .. MaxConn

Frame == [type : {"DATA", "ACK", "DISC"}, seq : Nat, id : Nat]
Control(t, s) == [type |-> t, seq |-> s, id |-> 0]
NoFrame == [type |-> "none", seq |-> 0, id |-> 0]
NoWait == [seq |-> 0, id |-> 0, acked |-> FALSE]

Elems(s) == {s[i] : i \in DOMAIN s}

\* Mutant: numbers start at 0.
ZeroSeq == 0

\* The number IpcInit and IpcAccept start from.
FirstSeq == 1

TypeOK ==
    /\ epoch \in 0 .. MaxConn /\ backlog \in Seq(Conns)
    /\ listening \in BOOLEAN /\ restarts \in 0 .. MaxRestarts
    /\ replaced \in 0 .. MaxReplaced
    /\ chan \in [Conns -> [Ends -> Seq(Frame)]]
    /\ link \in [Ends -> 0 .. MaxConn] /\ up \in [Ends -> BOOLEAN]
    /\ nextSeq \in [Ends -> Nat \ {0}] /\ expectedSeq \in [Ends -> Nat \ {0}]
    /\ reading \in [Ends -> 0 .. MaxConn] /\ hand \in [Ends -> Frame \cup {NoFrame}]
    /\ failed \in [Ends -> BOOLEAN]
    /\ pend \in [Ends -> [seq : Nat, id : Nat, acked : BOOLEAN]]
    /\ count \in [Ends -> Nat] /\ delivered \in [Ends -> Seq(Nat)]
    /\ confirmed \in [Ends -> SUBSET Nat]

\* IpcInit at both ends, IpcListen at the server.
Init ==
    /\ epoch = 0 /\ backlog = <<>> /\ listening = TRUE /\ restarts = 0
    /\ replaced = 0
    /\ chan = [c \in Conns |-> [e \in Ends |-> <<>>]]
    /\ link = [e \in Ends |-> 0] /\ up = [e \in Ends |-> FALSE]
    /\ nextSeq = [e \in Ends |-> FirstSeq]
    /\ expectedSeq = [e \in Ends |-> FirstSeq]
    /\ reading = [e \in Ends |-> 0] /\ hand = [e \in Ends |-> NoFrame]
    /\ failed = [e \in Ends |-> FALSE] /\ pend = [e \in Ends |-> NoWait]
    /\ count = [e \in Ends |-> 0] /\ delivered = [e \in Ends |-> <<>>]
    /\ confirmed = [e \in Ends |-> {}]

\* End e of connection c still exists: its context has it, the listen queue
\* has it, or the server's receive thread sleeps in recv() on it.
EndOpen(c, e) ==
    \/ link[e] = c
    \/ e = "server" /\ (reading[e] = c \/ c \in Elems(backlog))

\* SendMessageInternal: the frame goes to whatever connection the context has
\* now; send() fails when the other end is gone.
CanSend(e) == up[e] /\ link[e] # 0 /\ EndOpen(link[e], Peer(e))

Post(c, e, f) == [chan EXCEPT ![c][e] = Append(@, f)]
Reply(e, f) == chan' = IF CanSend(e) THEN Post(link[e], Peer(e), f) ELSE chan

-----------------------------------------------------------------------------
(* Connections                                                               *)

\* IpcConnect, or a successful attempt of IpcReconnect from any thread of the
\* client: the old socket is closed, the numbers of the context stay.
ClientConnect ==
    /\ listening /\ epoch < MaxConn
    /\ LET c == epoch + 1 IN
         /\ epoch' = c
         /\ link' = [link EXCEPT !["client"] = c]
         /\ backlog' = Append(backlog, c)
    /\ up' = [up EXCEPT !["client"] = TRUE]
    /\ UNCHANGED <<chan, listening, restarts, replaced, nextSeq, expectedSeq, recvVars,
                   sendVars, delivered>>

\* IpcAccept, called by the main loop between two sends: the new connection
\* replaces the old one and the numbers restart.
ServerAccept ==
    /\ listening /\ backlog # <<>> /\ pend["server"] = NoWait
    /\ link' = [link EXCEPT !["server"] = Head(backlog)]
    /\ backlog' = Tail(backlog)
    /\ up' = [up EXCEPT !["server"] = TRUE]
    /\ nextSeq' = [nextSeq EXCEPT !["server"] = FirstSeq]
    /\ expectedSeq' = [expectedSeq EXCEPT !["server"] = FirstSeq]
    /\ UNCHANGED <<epoch, chan, listening, restarts, replaced, recvVars, sendVars, delivered>>

\* IpcDisconnect, the client's 'd' command: a DISCONNECT frame, then close.
ClientDisconnect ==
    /\ link["client"] # 0 /\ pend["client"] = NoWait
    /\ Reply("client", Control("DISC", 0))
    /\ link' = [link EXCEPT !["client"] = 0]
    /\ up' = [up EXCEPT !["client"] = FALSE]
    /\ UNCHANGED <<epoch, backlog, listening, restarts, replaced, nextSeq, expectedSeq,
                   recvVars, sendVars, delivered>>

\* HeartbeatThread has seen no frame for heartbeatTimeoutMs, or thinks so.  (The
\* client goes on to IpcReconnect: ClientConnect.)
HeartbeatTimeout(e) ==
    /\ up[e]
    /\ link' = [link EXCEPT ![e] = 0] /\ up' = [up EXCEPT ![e] = FALSE]
    /\ UNCHANGED <<sockVars, nextSeq, expectedSeq, recvVars, sendVars, delivered>>

\* The context of e ceases to exist with its process.
Forget(e) ==
    /\ link' = [link EXCEPT ![e] = 0] /\ up' = [up EXCEPT ![e] = FALSE]
    /\ nextSeq' = [nextSeq EXCEPT ![e] = FirstSeq]
    /\ expectedSeq' = [expectedSeq EXCEPT ![e] = FirstSeq]
    /\ reading' = [reading EXCEPT ![e] = 0] /\ hand' = [hand EXCEPT ![e] = NoFrame]
    /\ failed' = [failed EXCEPT ![e] = FALSE] /\ pend' = [pend EXCEPT ![e] = NoWait]

\* The server process ends: killed at any point, or between two sends by
\* IpcDestroy, which says goodbye first.
ServerStop ==
    /\ listening /\ listening' = FALSE /\ backlog' = <<>>
    /\ \/ UNCHANGED chan
       \/ pend["server"] = NoWait /\ Reply("server", Control("DISC", 0))
    /\ Forget("server")
    /\ UNCHANGED <<epoch, restarts, replaced, count, confirmed, delivered>>

\* A new server process: IpcInit and IpcListen.
ServerStart ==
    /\ ~listening /\ listening' = TRUE
    /\ restarts < MaxRestarts /\ restarts' = restarts + 1
    /\ UNCHANGED <<epoch, backlog, replaced, chan, ctxVars, recvVars, sendVars, delivered>>

\* Another client process takes the place of the first.
ClientRestart ==
    /\ replaced < MaxReplaced /\ replaced' = replaced + 1
    /\ Forget("client")
    /\ UNCHANGED <<epoch, backlog, listening, restarts, chan, count, confirmed, delivered>>

-----------------------------------------------------------------------------
(* IpcSendData                                                               *)

Send(e) ==
    /\ up[e] /\ pend[e] = NoWait /\ count[e] < MaxMsgs[e]
    /\ LET f == [type |-> "DATA", seq |-> nextSeq[e], id |-> count[e] + 1] IN
         IF CanSend(e)
         THEN /\ chan' = Post(link[e], Peer(e), f)
              /\ pend' = [pend EXCEPT ![e] = [seq |-> f.seq, id |-> f.id, acked |-> FALSE]]
         ELSE UNCHANGED <<chan, pend>>
    /\ nextSeq' = [nextSeq EXCEPT ![e] = @ + 1]
    /\ count' = [count EXCEPT ![e] = @ + 1]
    /\ UNCHANGED <<epoch, backlog, listening, restarts, replaced, link, up, expectedSeq,
                   recvVars, confirmed, delivered>>

\* Mutant: the sender sends the frame again as long as there is no ACK.
SendReturnOrRetry(e) ==
    /\ pend[e] # NoWait
    /\ \/ /\ pend[e].acked /\ pend' = [pend EXCEPT ![e] = NoWait]
          /\ confirmed' = [confirmed EXCEPT ![e] = @ \cup {pend[e].id}]
          /\ UNCHANGED chan
       \/ /\ ~pend[e].acked
          /\ Reply(e, [type |-> "DATA", seq |-> pend[e].seq, id |-> pend[e].id])
          /\ UNCHANGED <<pend, confirmed>>
    /\ UNCHANGED <<epoch, backlog, listening, restarts, replaced, ctxVars, recvVars, count,
                   delivered>>

\* The wait ends: acknowledged (IPC_OK), or ackTimeoutMs later.
SendReturn(e) ==
    /\ pend[e] # NoWait
    /\ confirmed' = [confirmed EXCEPT ![e] = IF pend[e].acked THEN @ \cup {pend[e].id} ELSE @]
    /\ pend' = [pend EXCEPT ![e] = NoWait]
    /\ UNCHANGED <<sockVars, ctxVars, recvVars, count, delivered>>

-----------------------------------------------------------------------------
(* ReceiveThread                                                             *)

\* It loads ctx->connFd and enters RecvAll.
RecvEnter(e) ==
    /\ reading[e] = 0 /\ hand[e] = NoFrame /\ ~failed[e]
    /\ up[e] /\ link[e] # 0
    /\ reading' = [reading EXCEPT ![e] = link[e]]
    /\ UNCHANGED <<sockVars, ctxVars, hand, failed, sendVars, delivered>>

\* A frame is there.  The server's accepted socket is blocking: a thread asleep
\* in recv() gets the frame even after the descriptor was closed under it.
RecvFrame(e) ==
    LET c == reading[e] IN
    /\ c # 0 /\ chan[c][e] # <<>>
    /\ e = "server" \/ link[e] = c
    /\ hand' = [hand EXCEPT ![e] = Head(chan[c][e])]
    /\ chan' = [chan EXCEPT ![c][e] = Tail(@)]
    /\ reading' = [reading EXCEPT ![e] = 0]
    /\ UNCHANGED <<epoch, backlog, listening, restarts, replaced, ctxVars, failed, sendVars,
                   delivered>>

\* The client's socket is non-blocking: after 100 ms RecvAll gives up.
RecvTimeout ==
    /\ reading["client"] # 0
    /\ reading' = [reading EXCEPT !["client"] = 0]
    /\ UNCHANGED <<sockVars, ctxVars, hand, failed, sendVars, delivered>>

\* End of file, or the descriptor was closed before recv() got to it.
RecvFails(e) ==
    LET c == reading[e] IN
    /\ c # 0
    /\ link[e] # c \/ (chan[c][e] = <<>> /\ ~EndOpen(c, Peer(e)))
    /\ reading' = [reading EXCEPT ![e] = 0]
    /\ failed' = [failed EXCEPT ![e] = TRUE]
    /\ UNCHANGED <<sockVars, ctxVars, hand, sendVars, delivered>>

\* The "disconnect:" section closes the connection the context has by now.
\* (The client goes on to IpcReconnect: ClientConnect.)
RecvDisconnect(e) ==
    /\ failed[e] /\ failed' = [failed EXCEPT ![e] = FALSE]
    /\ link' = [link EXCEPT ![e] = 0] /\ up' = [up EXCEPT ![e] = FALSE]
    /\ UNCHANGED <<sockVars, nextSeq, expectedSeq, reading, hand, sendVars, delivered>>

\* Mutant: off by one in the test for a duplicate.
DuplicateOrNext(e) == hand[e].seq =< expectedSeq[e]

\* HandleMessage takes a number below expectedSeq for one it has had.
Duplicate(e) == hand[e].seq < expectedSeq[e]

HandleData(e) ==
    /\ hand[e].type = "DATA"
    /\ IF Duplicate(e)
       THEN UNCHANGED <<expectedSeq, delivered>>
       ELSE /\ expectedSeq' = [expectedSeq EXCEPT ![e] = hand[e].seq + 1]
            /\ delivered' = [delivered EXCEPT ![e] = Append(@, hand[e].id)]
    /\ Reply(e, Control("ACK", hand[e].seq))
    /\ UNCHANGED <<up, pend>>

\* Mutant: an ACK is taken for the message waited for, whatever its number.
HandleAnyAck(e) ==
    /\ hand[e].type = "ACK"
    /\ pend' = [pend EXCEPT ![e].acked = @ \/ pend[e] # NoWait]
    /\ UNCHANGED <<expectedSeq, delivered, chan, up>>

HandleAck(e) ==
    /\ hand[e].type = "ACK"
    /\ pend' = [pend EXCEPT ![e].acked = @ \/ pend[e].seq = hand[e].seq]
    /\ UNCHANGED <<expectedSeq, delivered, chan, up>>

\* DISCONNECT only changes the state: the descriptor stays open.
HandleDisconnect(e) ==
    /\ hand[e].type = "DISC"
    /\ up' = [up EXCEPT ![e] = FALSE]
    /\ UNCHANGED <<expectedSeq, delivered, chan, pend>>

HandleMessage(e) ==
    /\ HandleData(e) \/ HandleAck(e) \/ HandleDisconnect(e)
    /\ hand' = [hand EXCEPT ![e] = NoFrame]
    /\ UNCHANGED <<epoch, backlog, listening, restarts, replaced, link, nextSeq, reading,
                   failed, count, confirmed>>

Next ==
    \/ ClientConnect \/ ServerAccept \/ ClientDisconnect
    \/ ServerStop \/ ServerStart \/ ClientRestart
    \/ RecvTimeout
    \/ \E e \in Ends : \/ HeartbeatTimeout(e) \/ Send(e) \/ SendReturn(e)
                       \/ RecvEnter(e) \/ RecvFrame(e) \/ RecvFails(e)
                       \/ RecvDisconnect(e) \/ HandleMessage(e)

Spec == Init /\ [][Next]_vars

-----------------------------------------------------------------------------
(* Properties                                                                *)

\* IPC_OK from the IpcSendData of a client means the server's onMessage got the
\* message, over any number of reconnections and server restarts, as long as the
\* client process is the first.
ClientOkDelivered ==
    replaced = 0 => confirmed["client"] \subseteq Elems(delivered["server"])

\* The server's duplicate test never drops a message of that client that is
\* none: the reset of IpcAccept and the client's running numbers go together.
NoFalseDuplicate ==
    [][replaced = 0 /\ hand["server"].type = "DATA" /\ HandleMessage("server")
          => delivered'["server"] # delivered["server"]]_vars

\* Neither onMessage sees a message twice or out of order, even across
\* connections and processes.
AtMostOnceInOrder ==
    \A e \in Ends : \A i, j \in DOMAIN delivered[e] :
        i < j => delivered[e][i] < delivered[e][j]

\* The messages of the first client process to the server keep the promise of
\* AckedDelivery as a whole, as if there were a single connection that is never
\* lost: reconnections, server restarts and the numbers that start again are not
\* seen by the two programs.
Promise == INSTANCE AckedDelivery WITH
    issued <- count["client"], delivered <- delivered["server"],
    confirmed <- confirmed["client"]

ImplementsPromise ==
    Promise!Init /\ [][replaced = 0 => Promise!Next]_(Promise!avars)

(* What the documentation promises and the code does not keep                *)

\* What the client drops as a duplicate is a message its onMessage has had:
\* after a reconnection communication goes on.  IpcAccept lets the server's
\* numbers start again and IpcReconnect keeps the client's expectedSeq, so the
\* first message over the new connection is dropped, and acknowledged.
ServerStillHeard ==
    hand["client"].type = "DATA" /\ Duplicate("client")
        => hand["client"].id \in Elems(delivered["client"])

\* IPC_OK means delivered for the server's own messages too.  Besides that drop
\* there is a shorter way to violate it: the ACK of a message of the old
\* connection, read there by the receive thread and handled after IpcAccept has
\* let nextSeq start again, confirms the new message of the same number, which
\* may not have been read yet.
ServerOkDelivered == confirmed["server"] \subseteq Elems(delivered["client"])
=============================================================================
