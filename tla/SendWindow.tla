------------------------------ MODULE SendWindow ------------------------------
(*****************************************************************************)
(* The acknowledged send path of src/src/ipc_reliable.c on one connection.   *)
(*                                                                           *)
(* Any number of application threads (Senders) are inside IpcSendData of one *)
(* context.  They share nextSeq (under ctx->lock) and the send window (under *)
(* ctx->windowLock).  The receive thread of the same context runs the        *)
(* MSG_TYPE_ACK case of HandleMessage; the receive thread of the peer runs   *)
(* the MSG_TYPE_DATA case and answers with MSG_TYPE_ACK.                     *)
(*                                                                           *)
(* A step is one critical section, or one access made outside any lock.  The *)
(* payload is abstracted to the sequence number it travels under; the copy   *)
(* IpcSendData mallocs for it is named by that number too, and 0 is NULL.    *)
(*****************************************************************************)
EXTENDS Integers, Sequences

CONSTANTS
    Senders,      \* threads calling IpcSendData on this context
    WINDOW_SIZE,  \* IPC_WINDOW_SIZE, 16 in the code
    SockBuf,      \* frames the kernel buffers in each direction of the socket
    MaxSeq        \* bound: messages sent in a behaviour

ASSUME WindowAssumption == WINDOW_SIZE \in Nat \ {0}
ASSUME BoundAssumption == MaxSeq \in Nat /\ SockBuf \in Nat \ {0}

VARIABLES
    connected,    \* state = STATE_CONNECTED and the socket is open at both ends
    running,      \* ctx->running of the sending context
    nextSeq,      \* ctx->nextSeq of the sending context
    sendWindow,   \* ctx->sendWindow: [seq, data, acked] per slot
    heap,         \* payload copies malloc has handed out and nobody freed
    doubleFree,   \* free() was called on a copy that was already freed
    pc,           \* where each sender stands in IpcSendData
    seq,          \* its currentSeq
    needAck,      \* its needAck argument
    ptr,          \* the pointer its unlocked cleanup has loaded
    dataChan,     \* DATA frames in the socket, oldest first
    ackChan,      \* ACK frames in the opposite direction
    expectedSeq,  \* ctx->expectedSeq of the peer
    owed,         \* the ACK the peer's receive thread is about to send, 0 if none
    delivered,    \* history: sequence numbers passed to the peer's onMessage
    written,      \* history: sequence numbers whose frame entered the socket
    acksSeen,     \* history: ACKs HandleMessage has processed
    confirmed     \* history: IpcSendData(needAck = true) returned IPC_OK

senderVars == <<nextSeq, pc, seq, needAck, ptr>>
windowVars == <<sendWindow, heap, doubleFree>>
chanVars   == <<dataChan, ackChan>>
peerVars   == <<expectedSeq, owed, delivered>>
histVars   == <<written, acksSeen, confirmed>>
linkVars   == <<connected, running>>
vars == <<senderVars, windowVars, chanVars, peerVars, histVars, linkVars>>

NULL == 0
Slots == 0 .. (WINDOW_SIZE - 1)
Entry == [seq : Nat, data : Nat, acked : BOOLEAN]
Frame == [seq : Nat, needAck : BOOLEAN]

\* Mutant: numbers start at 0.
ZeroSeq == 0

\* The number IpcInit starts from; 0 is left to the entries of an empty window.
FirstSeq == 1

\* The slot a sequence number is filed under.
SlotOf(s) == s % WINDOW_SIZE

TypeOK ==
    /\ connected \in BOOLEAN /\ running \in BOOLEAN
    /\ nextSeq \in Nat \ {0} /\ expectedSeq \in Nat /\ owed \in Nat
    /\ sendWindow \in [Slots -> Entry]
    /\ heap \in SUBSET Nat /\ doubleFree \in BOOLEAN
    /\ pc \in [Senders -> {"idle", "fill", "send", "unwind", "wait",
                           "test", "free", "clear"}]
    /\ seq \in [Senders -> Nat] /\ ptr \in [Senders -> Nat]
    /\ needAck \in [Senders -> BOOLEAN]
    /\ dataChan \in Seq(Frame) /\ ackChan \in Seq(Nat)
    /\ delivered \in Seq(Nat)
    /\ written \in SUBSET Nat /\ acksSeen \in SUBSET Nat
    /\ confirmed \in SUBSET Nat

(* IpcInit, then a connection: nothing sent, an all-zero window (calloc).    *)
Init ==
    /\ connected = TRUE /\ running = TRUE
    /\ nextSeq = FirstSeq /\ expectedSeq = FirstSeq /\ owed = 0
    /\ sendWindow = [i \in Slots |-> [seq |-> 0, data |-> NULL, acked |-> FALSE]]
    /\ heap = {} /\ doubleFree = FALSE
    /\ pc = [t \in Senders |-> "idle"]
    /\ seq = [t \in Senders |-> 0] /\ ptr = [t \in Senders |-> NULL]
    /\ needAck = [t \in Senders |-> FALSE]
    /\ dataChan = <<>> /\ ackChan = <<>> /\ delivered = <<>>
    /\ written = {} /\ acksSeen = {} /\ confirmed = {}

-----------------------------------------------------------------------------
(* The heap: free(NULL) does nothing, a second free of a copy is recorded.   *)

FreeAndAlloc(p, new) ==
    /\ heap' = (heap \ {p}) \cup new
    /\ doubleFree' = (doubleFree \/ (p # NULL /\ p \notin heap))

Goto(t, l) == pc' = [pc EXCEPT ![t] = l]

-----------------------------------------------------------------------------
(* IpcSendData                                                               *)

\* Entry: the state check, then nextSeq++ under ctx->lock.  (When the context
\* is not connected the call returns IPC_ERR_NOT_CONNECTED and changes nothing.)
TakeSeq(t) ==
    /\ pc[t] = "idle" /\ connected /\ nextSeq =< MaxSeq
    /\ \E ack \in BOOLEAN :
         /\ needAck' = [needAck EXCEPT ![t] = ack]
         /\ Goto(t, IF ack THEN "fill" ELSE "send")
    /\ seq' = [seq EXCEPT ![t] = nextSeq]
    /\ nextSeq' = nextSeq + 1
    /\ UNCHANGED <<ptr, windowVars, chanVars, peerVars, histVars, linkVars>>

\* Under windowLock: whatever the slot held is freed and overwritten, and the
\* malloc of the copy may return NULL without failing the call.
FillSlot(t) ==
    /\ pc[t] = "fill"
    /\ \E copy \in {NULL, seq[t]} :
         LET i == SlotOf(seq[t]) IN
         /\ FreeAndAlloc(sendWindow[i].data, {copy} \ {NULL})
         /\ sendWindow' = [sendWindow EXCEPT
                ![i] = [seq |-> seq[t], data |-> copy, acked |-> FALSE]]
    /\ Goto(t, "send")
    /\ UNCHANGED <<nextSeq, seq, needAck, ptr, chanVars, peerVars, histVars, linkVars>>

\* SendMessageInternal(MSG_TYPE_DATA): the frame enters the socket whole, since
\* ctx->lock is held across both SendAll calls; SendAll retries for as long as
\* the socket buffer is full.
Transmit(t) ==
    /\ pc[t] = "send" /\ connected /\ Len(dataChan) < SockBuf
    /\ dataChan' = Append(dataChan, [seq |-> seq[t], needAck |-> needAck[t]])
    /\ written' = written \cup {seq[t]}
    /\ Goto(t, IF needAck[t] THEN "wait" ELSE "idle")
    /\ UNCHANGED <<nextSeq, seq, needAck, ptr, windowVars, ackChan, peerVars,
                   acksSeen, confirmed, linkVars>>

\* The send fails.  Only a needAck call looks at the error; the other one
\* falls through to "return IPC_OK".
TransmitFails(t) ==
    /\ pc[t] = "send" /\ ~connected
    /\ Goto(t, IF needAck[t] THEN "unwind" ELSE "idle")
    /\ UNCHANGED <<nextSeq, seq, needAck, ptr, windowVars, chanVars, peerVars,
                   histVars, linkVars>>

\* Mutant: a failed send keeps its copy of the payload.
UnwindNoFree(t) ==
    /\ pc[t] = "unwind"
    /\ sendWindow' = [sendWindow EXCEPT ![SlotOf(seq[t])].data = NULL]
    /\ Goto(t, "idle")
    /\ UNCHANGED <<nextSeq, seq, needAck, ptr, heap, doubleFree, chanVars, peerVars,
                   histVars, linkVars>>

\* Removal from the window after a failed send, under windowLock.
Unwind(t) ==
    /\ pc[t] = "unwind"
    /\ LET i == SlotOf(seq[t]) IN
         /\ FreeAndAlloc(sendWindow[i].data, {})
         /\ sendWindow' = [sendWindow EXCEPT ![i].data = NULL]
    /\ Goto(t, "idle")
    /\ UNCHANGED <<nextSeq, seq, needAck, ptr, chanVars, peerVars, histVars, linkVars>>

\* The wait loop finds its slot acknowledged: IPC_OK.
WaitAcked(t) ==
    /\ pc[t] = "wait" /\ sendWindow[SlotOf(seq[t])].acked
    /\ confirmed' = confirmed \cup {seq[t]}
    /\ Goto(t, "idle")
    /\ UNCHANGED <<nextSeq, seq, needAck, ptr, windowVars, chanVars, peerVars,
                   written, acksSeen, linkVars>>

\* Mutant: a wait times out only while connected.
WaitTimeoutConnected(t) ==
    /\ pc[t] = "wait" /\ ~sendWindow[SlotOf(seq[t])].acked /\ running /\ connected
    /\ Goto(t, "test")
    /\ UNCHANGED <<nextSeq, seq, needAck, ptr, windowVars, chanVars, peerVars,
                   histVars, linkVars>>

\* ackTimeoutMs have elapsed: windowLock is released, the cleanup comes after.
WaitTimeout(t) ==
    /\ pc[t] = "wait" /\ ~sendWindow[SlotOf(seq[t])].acked /\ running
    /\ Goto(t, "test")
    /\ UNCHANGED <<nextSeq, seq, needAck, ptr, windowVars, chanVars, peerVars,
                   histVars, linkVars>>

\* The context is being destroyed: IPC_ERR_ACK_FAILED, the slot stays as it is.
WaitStopped(t) ==
    /\ pc[t] = "wait" /\ ~sendWindow[SlotOf(seq[t])].acked /\ ~running
    /\ Goto(t, "idle")
    /\ UNCHANGED <<nextSeq, seq, needAck, ptr, windowVars, chanVars, peerVars,
                   histVars, linkVars>>

\* The cleanup after the timeout runs without windowLock.  It tests the slot's
\* pointer ...
CleanupTest(t) ==
    /\ pc[t] = "test"
    /\ LET p == sendWindow[SlotOf(seq[t])].data IN
         /\ ptr' = [ptr EXCEPT ![t] = p]
         /\ Goto(t, IF p = NULL THEN "idle" ELSE "free")
    /\ UNCHANGED <<nextSeq, seq, needAck, windowVars, chanVars, peerVars,
                   histVars, linkVars>>

\* ... frees it (the compiler may keep the pointer it tested or load the slot
\* again: the access is a data race) ...
CleanupFree(t) ==
    /\ pc[t] = "free"
    /\ \E p \in {ptr[t], sendWindow[SlotOf(seq[t])].data} : FreeAndAlloc(p, {})
    /\ Goto(t, "clear")
    /\ UNCHANGED <<nextSeq, seq, needAck, ptr, sendWindow, chanVars, peerVars,
                   histVars, linkVars>>

\* ... and clears the slot, whoever's it is by now: IPC_ERR_ACK_FAILED.
CleanupClear(t) ==
    /\ pc[t] = "clear"
    /\ sendWindow' = [sendWindow EXCEPT ![SlotOf(seq[t])].data = NULL]
    /\ ptr' = [ptr EXCEPT ![t] = NULL]
    /\ Goto(t, "idle")
    /\ UNCHANGED <<nextSeq, seq, needAck, heap, doubleFree, chanVars, peerVars,
                   histVars, linkVars>>

-----------------------------------------------------------------------------
(* The receive thread of the sending context: HandleMessage(MSG_TYPE_ACK).    *)

\* Mutant: an ACK is matched by its slot alone.
SameSlot(s) == {SlotOf(s)}

\* Mutant: an ACK is taken for all numbers up to it.
CumulativeMatch(s) ==
    {i \in Slots : /\ sendWindow[i].seq =< s
                   /\ \A j \in Slots : sendWindow[j].seq =< s => i =< j}

\* Mutant: only an entry that still has its payload is matched.
MatchWithCopy(s) == {i \in Slots : sendWindow[i].seq = s /\ sendWindow[i].data # NULL}

\* The slots the ACK loop would stop at: it scans upwards and breaks.
FirstMatch(s) ==
    {i \in Slots : /\ sendWindow[i].seq = s
                   /\ \A j \in Slots : sendWindow[j].seq = s => i =< j}

RecvAck ==
    /\ ackChan # <<>>
    /\ LET a == Head(ackChan) IN
         /\ acksSeen' = acksSeen \cup {a}
         /\ \/ FirstMatch(a) = {} /\ UNCHANGED windowVars
            \/ \E i \in FirstMatch(a) :
                 /\ FreeAndAlloc(sendWindow[i].data, {})
                 /\ sendWindow' = [sendWindow EXCEPT
                        ![i] = [@ EXCEPT !.acked = TRUE, !.data = NULL]]
    /\ ackChan' = Tail(ackChan)
    /\ UNCHANGED <<senderVars, dataChan, peerVars, written, confirmed, linkVars>>

-----------------------------------------------------------------------------
(* The peer                                                                  *)

\* Mutant: the receiver does not look for duplicates.
PeerHandleAnyData ==
    /\ owed = 0 /\ dataChan # <<>>
    /\ LET f == Head(dataChan) IN
         /\ expectedSeq' = f.seq + 1
         /\ delivered' = Append(delivered, f.seq)
         /\ owed' = IF f.needAck THEN f.seq ELSE 0
    /\ dataChan' = Tail(dataChan)
    /\ UNCHANGED <<senderVars, windowVars, ackChan, histVars, linkVars>>

\* HandleMessage(MSG_TYPE_DATA): an old number is dropped, any other one is
\* delivered and moves expectedSeq past itself.
PeerHandleData ==
    /\ owed = 0 /\ dataChan # <<>>
    /\ LET f == Head(dataChan) IN
         /\ IF f.seq < expectedSeq
            THEN UNCHANGED <<expectedSeq, delivered>>
            ELSE /\ expectedSeq' = f.seq + 1
                 /\ delivered' = Append(delivered, f.seq)
         /\ owed' = IF f.needAck THEN f.seq ELSE 0
    /\ dataChan' = Tail(dataChan)
    /\ UNCHANGED <<senderVars, windowVars, ackChan, histVars, linkVars>>

\* ReceiveThread drops a frame whose payload fails the checksum: no delivery,
\* no ACK.
PeerChecksumMismatch ==
    /\ owed = 0 /\ dataChan # <<>>
    /\ dataChan' = Tail(dataChan)
    /\ UNCHANGED <<senderVars, windowVars, ackChan, peerVars, histVars, linkVars>>

\* The ACK that ends the DATA case; on a dead connection it is not sent.
PeerAnswer ==
    /\ owed # 0
    /\ \/ ~connected /\ UNCHANGED ackChan
       \/ connected /\ Len(ackChan) < SockBuf /\ ackChan' = Append(ackChan, owed)
    /\ owed' = 0
    /\ UNCHANGED <<senderVars, windowVars, dataChan, expectedSeq, delivered,
                   histVars, linkVars>>

\* IpcSendAck, called by the peer's application for a message it was given.
PeerSendAck ==
    /\ connected /\ Len(ackChan) < SockBuf
    /\ \E i \in DOMAIN delivered : ackChan' = Append(ackChan, delivered[i])
    /\ UNCHANGED <<senderVars, windowVars, dataChan, peerVars, histVars, linkVars>>

-----------------------------------------------------------------------------
(* The connection is lost; frames already buffered may still be read or not. *)
Break ==
    /\ connected /\ connected' = FALSE
    /\ UNCHANGED <<senderVars, windowVars, chanVars, peerVars, histVars, running>>

\* IpcDestroy: running is cleared before the connection is closed.
Stop ==
    /\ running /\ running' = FALSE
    /\ UNCHANGED <<senderVars, windowVars, chanVars, peerVars, histVars, connected>>

\* One step of a call to IpcSendData that has taken its number.
SenderStep(t) ==
    \/ FillSlot(t) \/ Transmit(t) \/ TransmitFails(t) \/ Unwind(t)
    \/ WaitAcked(t) \/ WaitTimeout(t) \/ WaitStopped(t)
    \/ CleanupTest(t) \/ CleanupFree(t) \/ CleanupClear(t)

PeerStep == PeerHandleData \/ PeerAnswer

Next ==
    \/ \E t \in Senders : TakeSeq(t) \/ SenderStep(t)
    \/ RecvAck
    \/ PeerStep \/ PeerChecksumMismatch \/ PeerSendAck
    \/ Break \/ Stop

Spec == Init /\ [][Next]_vars

(* A thread inside IpcSendData is scheduled and its timeout elapses; both     *)
(* receive threads keep reading.  No call has to be made, no connection lost.*)
FairSpec ==
    /\ Spec
    /\ \A t \in Senders : WF_vars(SenderStep(t))
    /\ WF_vars(RecvAck) /\ WF_vars(PeerStep)

-----------------------------------------------------------------------------
(* Properties that hold for any number of senders                            *)

\* The peer's onMessage is called with strictly increasing sequence numbers,
\* however sends interleave: the duplicate test of the DATA case.
DeliveredInOrder ==
    \A i, j \in DOMAIN delivered : i < j => delivered[i] < delivered[j]

\* An ACK that HandleMessage has processed is not lost on the call waiting for
\* it: unless another message took the slot over, the slot is marked.
AckNotLost ==
    \A t \in Senders :
        pc[t] = "wait" /\ seq[t] \in acksSeen =>
            LET e == sendWindow[SlotOf(seq[t])] IN e.acked \/ e.seq # seq[t]

\* IpcSendData reports IPC_OK for an acknowledged message only after an ACK of
\* a message of the same slot: its own, or that of one that overran the slot.
OkMeansAckedOrOverrun ==
    \A s \in confirmed : \E a \in acksSeen : SlotOf(a) = SlotOf(s)

(* Properties that need the senders to be a single thread                    *)

SingleSender == \A t, u \in Senders : t = u

\* The promise of the ACK mechanism: IPC_OK means the peer's ACK of this very
\* message was received ...
OkMeansAcked == confirmed \subseteq acksSeen

\* ... and the message was passed to the peer's onMessage.
OkMeansDelivered == \A s \in confirmed : \E i \in DOMAIN delivered : delivered[i] = s

\* Every payload copy not yet freed is still reachable, through the slot the
\* clean-up of IpcDestroy walks over: nothing leaks on the way.
NoLeak == \A p \in heap : \E i \in Slots : sendWindow[i].data = p

\* A call to IpcSendData ends, acknowledged or not, also when the connection is
\* lost or the context is stopped under it.
SendReturns == \A t \in Senders : pc[t] # "idle" ~> pc[t] = "idle"

(* What the documentation promises and the code does not keep                *)

\* The cleanup of an unacknowledged message frees its copy exactly once.
NoDoubleFree == ~doubleFree

-----------------------------------------------------------------------------
(* With one sender the path implements the promise of AckedDelivery.         *)
Promise == INSTANCE AckedDelivery WITH
    issued <- nextSeq - 1, delivered <- delivered, confirmed <- confirmed

ImplementsPromise == Promise!Spec
=============================================================================
