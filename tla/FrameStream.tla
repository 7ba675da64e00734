------------------------------ MODULE FrameStream ------------------------------
(*****************************************************************************)
(* The byte streams under one connection of ipc_reliable.c: frames cut into   *)
(* pieces by SendAll and put together again by RecvAll, at both ends at once. *)
(*                                                                           *)
(* Every end has threads that call SendMessageInternal (the application, the  *)
(* heartbeat) and a receive thread, which answers some frames itself.  Whoever *)
(* writes holds ctx->lock for the whole frame, also while the socket buffer is *)
(* full; the receive thread needs the same lock to answer and to disconnect.  *)
(*                                                                           *)
(* A piece stands for some bytes of a frame: HeaderLen pieces of header, then *)
(* the payload.  The first piece has the magic, and no other is taken for it. *)
(* What a frame says matters only so far as it is answered ("ask": DATA with  *)
(* NEED_ACK, HEARTBEAT, CONNECT_REQ), is an answer ("answer": ACK,            *)
(* HEARTBEAT_ACK, CONNECT_RESP), ends the reading ("bye": DISCONNECT) or none   *)
(* of these ("tell").                                                         *)
(*                                                                           *)
(* The client's socket is non-blocking, so its RecvAll times out; the one     *)
(* accept() made blocks, and poll() after EAGAIN in SendAll does the same.    *)
(*****************************************************************************)
EXTENDS Integers, Sequences

CONSTANTS
    Senders,    \* threads of an end that send, beside the receive thread
    HeaderLen,  \* pieces of a header
    PayloadLen, \* pieces of the payload of a frame that has one
    SockBuf,    \* pieces the socket buffer of a direction holds
    ClientFrames, ServerFrames  \* bound: frames the senders of each end begin

ASSUME SendersAssumption == "recv" \notin Senders /\ "free" \notin Senders
ASSUME LengthAssumption == HeaderLen \in Nat \ {0} /\ PayloadLen \in Nat \ {0}
ASSUME SizeAssumption == SockBuf \in Nat \ {0} /\ ClientFrames \in Nat /\ ServerFrames \in Nat

VARIABLES
    open,       \* the end has not closed its socket
    up,         \* state is CONNECTED
    running,    \* IpcDestroy has not been called
    want,       \* the frame each thread wants to send, "close" in IpcDisconnect, or "none"
    lock,       \* who holds ctx->lock
    left,       \* pieces of the frame being written that are still to be sent
    begun,      \* frames whose writing began
    pipe,       \* pieces on their way from each end
    part,       \* pieces the receive thread has read of the next frame
    rpc,        \* where the receive thread is
    handled     \* frames given to HandleMessage

ctxVars == <<open, up, running>>
sendVars == <<want, lock, left, begun>>
recvVars == <<part, rpc, handled>>
vars == <<ctxVars, sendVars, pipe, recvVars>>

Ends == {"client", "server"}
Peer(e) == IF e = "client" THEN "server" ELSE "client"
Threads == Senders \cup {"recv"}
MaxFrames(e) == IF e = "client" THEN ClientFrames ELSE ServerFrames
Kinds == {"ask", "tell", "answer", "bye"}
Frames == [no : Nat, kind : Kinds]
NoFrame == [no |-> 0, kind |-> "none"]

\* An answer has no payload, nor has DISCONNECT.
Size(kind) == IF kind \in {"answer", "bye"} THEN HeaderLen ELSE HeaderLen + PayloadLen
Pieces(f) == [i \in 1 .. Size(f.kind) |-> [frame |-> f, no |-> i]]
SomePiece == [frame : Frames, no : 1 .. HeaderLen + PayloadLen]

TypeOK ==
    /\ open \in [Ends -> BOOLEAN] /\ up \in [Ends -> BOOLEAN]
    /\ running \in [Ends -> BOOLEAN]
    /\ want \in [Ends -> [Threads -> Kinds \cup {"none", "close"}]]
    /\ lock \in [Ends -> Threads \cup {"free"}]
    /\ left \in [Ends -> Seq(SomePiece)] /\ pipe \in [Ends -> Seq(SomePiece)]
    /\ part \in [Ends -> Seq(SomePiece)]
    /\ begun \in [Ends -> Seq(Frames)] /\ handled \in [Ends -> Seq(Frames \cup {NoFrame})]
    /\ rpc \in [Ends -> {"top", "header", "payload", "drop", "end"}]
    /\ \A e \in Ends : Len(pipe[e]) =< SockBuf
    /\ \A e \in Ends : (left[e] # <<>> => lock[e] # "free") /\ (up[e] => open[e])

\* Just connected.
Init ==
    /\ open = [e \in Ends |-> TRUE] /\ up = [e \in Ends |-> TRUE]
    /\ running = [e \in Ends |-> TRUE]
    /\ want = [e \in Ends |-> [t \in Threads |-> "none"]]
    /\ lock = [e \in Ends |-> "free"]
    /\ left = [e \in Ends |-> <<>>] /\ begun = [e \in Ends |-> <<>>]
    /\ pipe = [e \in Ends |-> <<>>] /\ part = [e \in Ends |-> <<>>]
    /\ rpc = [e \in Ends |-> "top"] /\ handled = [e \in Ends |-> <<>>]

-----------------------------------------------------------------------------
(* SendMessageInternal and SendAll                                           *)

\* A call by the application or the heartbeat: the state is tested first.
SendBegin(e, t) ==
    /\ want[e][t] = "none" /\ up[e]
    /\ Len(SelectSeq(begun[e], LAMBDA f : f.kind \in {"ask", "tell"})) < MaxFrames(e)
    /\ \E k \in {"ask", "tell"} : want' = [want EXCEPT ![e][t] = k]
    /\ UNCHANGED <<ctxVars, lock, left, begun, pipe, recvVars>>

\* IpcDisconnect, from the program or from IpcDestroy, which clears running before:
\* while the state is CONNECTED DISCONNECT is sent, and then the socket closed.
DisconnectBegin(e, t) ==
    /\ want[e][t] = "none" /\ open[e]
    /\ want' = [want EXCEPT ![e][t] = IF up[e] THEN "bye" ELSE "close"]
    /\ running' \in {running, [running EXCEPT ![e] = FALSE]}
    /\ UNCHANGED <<open, up, lock, left, begun, pipe, recvVars>>

\* The lock is taken for the whole frame.
SendLock(e, t) ==
    /\ want[e][t] \in Kinds /\ lock[e] = "free"
    /\ lock' = [lock EXCEPT ![e] = t]
    /\ LET f == [no |-> Len(begun[e]) + 1, kind |-> want[e][t]] IN
         /\ begun' = [begun EXCEPT ![e] = Append(@, f)]
         /\ left' = [left EXCEPT ![e] = Pieces(f)]
    /\ UNCHANGED <<ctxVars, want, pipe, recvVars>>

\* What the thread is at when its frame is sent or has failed.
Then(kind) == IF kind = "bye" THEN "close" ELSE "none"

\* The end of SendMessageInternal.
Unlock(e, t) ==
    /\ lock' = [lock EXCEPT ![e] = "free"]
    /\ want' = [want EXCEPT ![e][t] = Then(@)]

\* Mutant: header and payload are sent under the lock one after the other.
SendPieceUnlocked(e, t) ==
    /\ lock[e] = t /\ open[e] /\ open[Peer(e)]
    /\ Len(pipe[e]) < SockBuf
    /\ pipe' = [pipe EXCEPT ![e] = Append(@, Head(left[e]))]
    /\ left' = [left EXCEPT ![e] = Tail(@)]
    /\ lock' = [lock EXCEPT ![e] = IF Len(left[e]) \in {1, PayloadLen + 1} THEN "free" ELSE t]
    /\ want' = [want EXCEPT ![e][t] = IF Len(left[e]) = 1 THEN Then(@) ELSE @]
    /\ UNCHANGED <<ctxVars, begun, recvVars>>

\* send() takes a piece when there is room; after the last one the lock is
\* released.
SendPiece(e, t) ==
    /\ lock[e] = t /\ open[e] /\ open[Peer(e)]
    /\ Len(pipe[e]) < SockBuf
    /\ pipe' = [pipe EXCEPT ![e] = Append(@, Head(left[e]))]
    /\ left' = [left EXCEPT ![e] = Tail(@)]
    /\ IF Len(left[e]) = 1 THEN Unlock(e, t) ELSE UNCHANGED <<lock, want>>
    /\ UNCHANGED <<ctxVars, begun, recvVars>>

\* Mutant: the error path forgets the lock.
SendFailsLocked(e, t) ==
    /\ lock[e] = t /\ ~(open[e] /\ open[Peer(e)])
    /\ want' = [want EXCEPT ![e][t] = Then(@)] /\ left' = [left EXCEPT ![e] = <<>>]
    /\ UNCHANGED <<ctxVars, lock, begun, pipe, recvVars>>

\* The socket is closed here (EBADF) or there (EPIPE): the rest is not sent.
SendFails(e, t) ==
    /\ lock[e] = t /\ ~(open[e] /\ open[Peer(e)])
    /\ Unlock(e, t) /\ left' = [left EXCEPT ![e] = <<>>]
    /\ UNCHANGED <<ctxVars, begun, pipe, recvVars>>

\* The section of the lock that closes the socket and sets the state.
CloseSocket(e) ==
    /\ lock[e] = "free"
    /\ open' = [open EXCEPT ![e] = FALSE] /\ up' = [up EXCEPT ![e] = FALSE]

\* IpcDisconnect goes on.
Disconnect(e, t) ==
    /\ want[e][t] = "close" /\ CloseSocket(e)
    /\ want' = [want EXCEPT ![e][t] = "none"]
    /\ UNCHANGED <<running, lock, left, begun, pipe, recvVars>>

-----------------------------------------------------------------------------
(* ReceiveThread and RecvAll                                                 *)

\* while (ctx->running): without a connection the thread waits for one.
RecvTop(e) ==
    /\ rpc[e] = "top" /\ want[e]["recv"] = "none"
    /\ \/ ~running[e] /\ rpc' = [rpc EXCEPT ![e] = "end"]
       \/ running[e] /\ up[e] /\ rpc' = [rpc EXCEPT ![e] = "header"]
    /\ UNCHANGED <<ctxVars, sendVars, pipe, part, handled>>

\* The receive thread is in recv().
Reading(e) == open[e] /\ rpc[e] \in {"header", "payload"}

\* What it has read, with the next piece.
Next1(e) == Append(part[e], Head(pipe[Peer(e)]))

\* The pieces put together are a frame of the peer, or a mixture.
FrameOf(ps) == IF ps = Pieces(ps[1].frame) THEN ps[1].frame ELSE NoFrame

\* Mutant: the header is not looked at.
NoMagicTest(ps) == TRUE

\* DeserializeHeader: the magic.
HeaderValid(ps) == ps[1].no = 1

\* Mutant: the receiver takes the checksum over another range than the sender.
ChecksumOther(ps) ==
    \A i \in HeaderLen + 1 .. Len(ps) : ps[i] = [frame |-> ps[HeaderLen].frame, no |-> i + 1]

\* The checksum covers the payload, not the header.
ChecksumOK(ps) ==
    \A i \in HeaderLen + 1 .. Len(ps) : ps[i] = [frame |-> ps[HeaderLen].frame, no |-> i]

\* The length the header announces.
Announced(ps) == Size(ps[HeaderLen].frame.kind)

\* HandleMessage: some frames are answered before the next is read; after DISCONNECT
\* none is read, but the socket stays open.
Handle(e, ps) ==
    /\ handled' = [handled EXCEPT ![e] = Append(@, FrameOf(ps))]
    /\ LET kind == ps[HeaderLen].frame.kind IN
         /\ want' = IF kind = "ask" THEN [want EXCEPT ![e]["recv"] = "answer"] ELSE want
         /\ up' = IF kind = "bye" THEN [up EXCEPT ![e] = FALSE] ELSE up
    /\ rpc' = [rpc EXCEPT ![e] = "top"] /\ part' = [part EXCEPT ![e] = <<>>]

TakePiece(e) ==
    /\ Reading(e) /\ pipe[Peer(e)] # <<>>
    /\ pipe' = [pipe EXCEPT ![Peer(e)] = Tail(@)]

\* recv() has some of what is needed.
RecvSome(e) ==
    /\ TakePiece(e)
    /\ Len(Next1(e)) < (IF rpc[e] = "header" THEN HeaderLen ELSE Announced(part[e]))
    /\ part' = [part EXCEPT ![e] = Next1(e)]
    /\ UNCHANGED <<ctxVars, sendVars, rpc, handled>>

\* The header is complete: refused, or all there is, or followed by a payload.
RecvHeader(e) ==
    /\ TakePiece(e)
    /\ rpc[e] = "header" /\ Len(Next1(e)) = HeaderLen
    /\ CASE ~HeaderValid(Next1(e)) ->
              /\ rpc' = [rpc EXCEPT ![e] = "drop"]
              /\ UNCHANGED <<up, want, part, handled>>
         [] HeaderValid(Next1(e)) /\ Announced(Next1(e)) = HeaderLen ->
              Handle(e, Next1(e))
         [] OTHER ->
              /\ rpc' = [rpc EXCEPT ![e] = "payload"]
              /\ part' = [part EXCEPT ![e] = Next1(e)]
              /\ UNCHANGED <<up, want, handled>>
    /\ UNCHANGED <<open, running, lock, left, begun>>

\* The payload is complete: a wrong checksum skips the frame.
RecvPayload(e) ==
    /\ TakePiece(e)
    /\ rpc[e] = "payload" /\ Len(Next1(e)) = Announced(part[e])
    /\ IF ChecksumOK(Next1(e)) THEN Handle(e, Next1(e))
       ELSE /\ rpc' = [rpc EXCEPT ![e] = "top"] /\ part' = [part EXCEPT ![e] = <<>>]
            /\ UNCHANGED <<up, want, handled>>
    /\ UNCHANGED <<open, running, lock, left, begun>>

\* 100 ms without a header or the rest of it: what was read of it is forgotten.
HeaderTimeout(e) ==
    /\ e = "client" /\ Reading(e) /\ rpc[e] = "header"
    /\ pipe[Peer(e)] = <<>>
    /\ part' = [part EXCEPT ![e] = <<>>] /\ rpc' = [rpc EXCEPT ![e] = "top"]
    /\ UNCHANGED <<ctxVars, sendVars, pipe, handled>>

\* 5 s without the rest of a payload, the end of the stream, or the own socket
\* closed by another thread: the connection is given up.
RecvFails(e) ==
    /\ rpc[e] \in {"header", "payload"}
    /\ \/ ~open[e]
       \/ pipe[Peer(e)] = <<>> /\ ~open[Peer(e)]
       \/ pipe[Peer(e)] = <<>> /\ e = "client" /\ rpc[e] = "payload"
    /\ rpc' = [rpc EXCEPT ![e] = "drop"]
    /\ UNCHANGED <<ctxVars, sendVars, pipe, part, handled>>

\* disconnect: needs the lock, too.
RecvDrop(e) ==
    /\ rpc[e] = "drop" /\ CloseSocket(e)
    /\ rpc' = [rpc EXCEPT ![e] = "end"]
    /\ UNCHANGED <<running, sendVars, pipe, part, handled>>

RecvStep(e) ==
    RecvTop(e) \/ RecvSome(e) \/ RecvHeader(e) \/ RecvPayload(e) \/ RecvFails(e) \/ RecvDrop(e)

Next ==
    \E e \in Ends :
        \/ \E t \in Senders : SendBegin(e, t) \/ DisconnectBegin(e, t) \/ Disconnect(e, t)
        \/ \E t \in Threads : SendLock(e, t) \/ SendPiece(e, t) \/ SendFails(e, t)
        \/ RecvStep(e) \/ HeaderTimeout(e)

Spec == Init /\ [][Next]_vars

\* Every thread that can go on goes on; a free lock is given to those that wait
\* in turn, as there are only finitely many calls that can come before.
FairSpec ==
    /\ Spec
    /\ \A e \in Ends :
         /\ WF_vars(RecvStep(e))
         /\ \A t \in Threads :
              /\ WF_vars(SendLock(e, t) \/ Disconnect(e, t))
              /\ WF_vars(SendPiece(e, t) \/ SendFails(e, t))

-----------------------------------------------------------------------------
(* Properties                                                                *)

\* The number of the last frame an end has handled.
LastHandled(e) == IF handled[e] = <<>> THEN 0 ELSE handled[e][Len(handled[e])].no

\* What is handled is what was sent: whole frames in the order the peer began
\* them, however they are cut.  The server misses none; the client may, as it
\* forgets the part of a header it waited 100 ms for, but never mixes two.
WholeFrames ==
    INSTANCE FrameQueue WITH
        Impatient <- {"client"},
        wire <- [e \in Ends |-> SubSeq(begun[e], LastHandled(Peer(e)) + 1, Len(begun[e]))]

HandledAsSent == WholeFrames!Spec

\* Both sockets of the connection are open.
Live == \A e \in Ends : open[e]

\* As long as that is so the receive thread of the server reads on, until the server
\* itself is told to end, and when nothing is on its way it has handled all that the
\* client began: no frame is refused for its header or skipped for its checksum.
NothingMissed ==
    Live =>
      /\ running["server"] => rpc["server"] \in {"top", "header", "payload"}
      /\ left["client"] = <<>> /\ pipe["client"] = <<>> /\ part["server"] = <<>>
           => handled["server"] = begun["client"]

\* Both ends write into full buffers, holding their locks, and both receive
\* threads wait for those locks instead of reading.
Gridlock ==
    \A e \in Ends :
        /\ lock[e] # "free" /\ Len(pipe[e]) = SockBuf
        /\ want[e]["recv"] # "none" \/ rpc[e] = "drop"

\* The receive thread has stopped, because DISCONNECT was handled or IpcDestroy called,
\* and the socket is open.
Deaf(e) == open[e] /\ rpc[e] \in {"top", "end"} /\ ~(running[e] /\ up[e])

\* A writer, with the lock, waits for room that nobody makes.
Hang ==
    \/ Gridlock
    \/ \E e \in Ends : lock[e] # "free" /\ Len(pipe[e]) = SockBuf /\ Deaf(Peer(e))

\* A call that sends or disconnects comes back, with the frame sent or an error, unless
\* there is a hang for ever: nothing else makes writers and readers wait for each other.
SendEnds ==
    []<>~Hang =>
        \A e \in Ends : \A t \in Threads : (want[e][t] # "none") ~> (want[e][t] = "none")
=============================================================================
