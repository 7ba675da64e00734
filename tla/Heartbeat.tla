------------------------------- MODULE Heartbeat -------------------------------
(*****************************************************************************)
(* How the two ends of a connection of ipc_reliable.c watch each other: the  *)
(* HeartbeatThread of each end, the times it looks at, and the frames that   *)
(* set them.                                                                 *)
(*                                                                           *)
(* The program keeps points in time (lastRecvTime, lastSendTime, now); the   *)
(* model keeps how long ago they are, which is all their differences tell,   *)
(* so the clock needs no bound; an age stops growing past every threshold.   *)
(* Tick is the clock; it waits for steps that are due: a thread runs at most *)
(* Lag late, a frame takes at most Delay to be handled.  Neither is a        *)
(* promise of the code: the properties say what follows if the machine       *)
(* keeps them.                                                               *)
(*                                                                           *)
(* An end may stop without closing its socket (hung, or stopped by a         *)
(* debugger); noticing that is what the heartbeat is for.  What is sent to a *)
(* stopped end stays in its socket until the buffer is full: from then on    *)
(* SendAll retries for ever, with ctx->lock in hand, and whoever needs the    *)
(* lock waits behind it.  An end that runs reads in time (Delay), so only a  *)
(* stopped one lets a buffer fill; that may take any number of frames.       *)
(*****************************************************************************)
EXTENDS Integers, Sequences

CONSTANTS
    Interval,   \* heartbeatIntervalMs
    Timeout,    \* heartbeatTimeoutMs
    Lag,        \* a thread that is due runs within this time
    Delay,      \* a frame sent is handled within this time
    Flight      \* bound: the applications send while fewer frames are on their way

ASSUME TimesAssumption ==
    /\ Interval \in Nat \ {0} /\ Timeout \in Nat \ {0} /\ Lag \in Nat /\ Delay \in Nat
    /\ Flight \in Nat

VARIABLES
    alive,      \* the end runs
    up,         \* state is STATE_CONNECTED
    fresh,      \* lastRecvTime and lastSendTime are those of this connection
    sinceRecv,  \* age of lastRecvTime
    sinceSend,  \* age of lastSendTime
    hpc,        \* heartbeat thread: asleep, before each of its tests, or about to
                \* drop the connection, rightly ("late") or not ("raced")
    slept,      \* how long it has slept
    sinceNow,   \* age of the time in now
    why,        \* history: why the end gave the connection up
    wire,       \* frames on the way from each end, with their ages
    hung        \* the threads of the end that are in a send that does not end, one
                \* of them with the lock, the others waiting for it

thread == <<hpc, slept, sinceNow>>
vars == <<alive, up, fresh, sinceRecv, sinceSend, thread, why, wire, hung>>

Ends == {"client", "server"}
Peer(e) == IF e = "client" THEN "server" ELSE "client"

\* Who sends: the program (and IpcAccept or DoConnect for it), the two threads.
Senders == {"app", "heartbeat", "recv"}

\* Ages past every threshold, however far the reading of now lies back.
OldRecv == Timeout + Interval + 3 * Lag + 1
OldSend == Interval + Lag + 1

\* HEARTBEAT and CONNECT_REQ are answered, HEARTBEAT_ACK, CONNECT_RESP and the
\* application's frames are not.
Frames == {"ask", "tell"}

TypeOK ==
    /\ alive \in [Ends -> BOOLEAN] /\ up \in [Ends -> BOOLEAN] /\ fresh \in [Ends -> BOOLEAN]
    /\ sinceRecv \in [Ends -> 0 .. OldRecv] /\ sinceSend \in [Ends -> 0 .. OldSend]
    /\ hpc \in [Ends -> {"asleep", "test_recv", "test_send", "late", "raced"}]
    /\ slept \in [Ends -> 0 .. Interval + Lag] /\ sinceNow \in [Ends -> 0 .. Lag]
    /\ why \in [Ends -> {"none", "late", "raced", "closed"}]
    /\ wire \in [Ends -> Seq([frame : Frames, age : 0 .. Delay])]
    /\ \A e \in Ends : up[e] <=> why[e] = "none"
    /\ hung \in [Ends -> SUBSET Senders]
    /\ \A e \in Ends : hung[e] # {} => up[e] /\ fresh[e] /\ up[Peer(e)] /\ ~alive[Peer(e)]

\* DoConnect and IpcAccept have just set the state: the times are still those of
\* the connection before, or 0; the heartbeat thread is somewhere in its sleep.
Init ==
    /\ alive = [e \in Ends |-> TRUE] /\ up = [e \in Ends |-> TRUE]
    /\ fresh = [e \in Ends |-> FALSE]
    /\ sinceRecv = [e \in Ends |-> OldRecv] /\ sinceSend = [e \in Ends |-> OldSend]
    /\ hpc = [e \in Ends |-> "asleep"] /\ slept \in [Ends -> 0 .. Interval]
    /\ sinceNow = [e \in Ends |-> 0]
    /\ why = [e \in Ends |-> "none"] /\ wire = [e \in Ends |-> <<>>]
    /\ hung = [e \in Ends |-> {}]

\* SendMessageInternal by thread t, frames being those on the way: lastSendTime is set
\* and the frame is on its way if the peer still reads; or t hangs, because it waits
\* behind one that does or because the peer has stopped and its buffer is full.  (The
\* first frame of a connection finds room.)
Send(e, t, frame, frames) ==
    \/ /\ hung[e] = {}
       /\ sinceSend' = [sinceSend EXCEPT ![e] = 0]
       /\ wire' = [frames EXCEPT ![e] = IF up[Peer(e)] /\ alive[Peer(e)]
                                        THEN Append(@, [frame |-> frame, age |-> 0]) ELSE @]
       /\ UNCHANGED hung
    \/ /\ hung[e] # {} \/ (fresh[e] /\ up[Peer(e)] /\ ~alive[Peer(e)])
       /\ hung' = [hung EXCEPT ![e] = @ \cup {t}]
       /\ wire' = frames /\ UNCHANGED sinceSend

\* DoConnect and IpcAccept go on: lastRecvTime and lastSendTime; then CONNECT_REQ
\* or CONNECT_RESP is sent.
SetTimes(e) ==
    /\ alive[e] /\ up[e] /\ ~fresh[e]
    /\ fresh' = [fresh EXCEPT ![e] = TRUE]
    /\ sinceRecv' = [sinceRecv EXCEPT ![e] = 0]
    /\ Send(e, "app", IF e = "client" THEN "ask" ELSE "tell", wire)
    /\ UNCHANGED <<alive, up, thread, why>>

\* The application sends something that is not answered.
SendData(e) ==
    /\ alive[e] /\ up[e] /\ fresh[e] /\ "app" \notin hung[e] /\ Len(wire[e]) < Flight
    /\ Send(e, "app", "tell", wire)
    /\ UNCHANGED <<alive, up, fresh, sinceRecv, thread, why>>

-----------------------------------------------------------------------------
(* HeartbeatThread                                                           *)

\* usleep returns, the state is tested, and now is read.
Wake(e) ==
    /\ alive[e] /\ up[e] /\ hpc[e] = "asleep" /\ slept[e] >= Interval
    /\ hpc' = [hpc EXCEPT ![e] = "test_recv"] /\ slept' = [slept EXCEPT ![e] = 0]
    /\ sinceNow' = [sinceNow EXCEPT ![e] = 0]
    /\ UNCHANGED <<alive, up, fresh, sinceRecv, sinceSend, why, wire, hung>>

\* now - last, with the age of last and unsigned: negative is huge.
Exceeds(e, age, limit) == age < sinceNow[e] \/ age - sinceNow[e] > limit

Advance(e, next) ==
    /\ hpc' = [hpc EXCEPT ![e] = next]
    /\ UNCHANGED <<alive, up, fresh, sinceRecv, sinceSend, slept, sinceNow, why, wire, hung>>

\* Mutant: lastSendTime is tested twice.
TestRecvBySend(e) ==
    /\ alive[e] /\ hpc[e] = "test_recv"
    /\ IF Exceeds(e, sinceSend[e], Timeout) THEN Advance(e, "late") ELSE Advance(e, "test_send")

\* Is lastRecvTime too long ago?  A frame handled after now was read, or times
\* that are not yet those of this connection, make it look so.
TestRecv(e) ==
    /\ alive[e] /\ hpc[e] = "test_recv"
    /\ IF ~Exceeds(e, sinceRecv[e], Timeout) THEN Advance(e, "test_send")
       ELSE Advance(e, IF ~fresh[e] \/ sinceRecv[e] < sinceNow[e] THEN "raced" ELSE "late")

\* The heartbeat thread goes back to sleep when it is not held up.
Sleep(e) ==
    /\ hpc' = [hpc EXCEPT ![e] = IF "heartbeat" \in hung'[e] THEN @ ELSE "asleep"]
    /\ UNCHANGED <<alive, up, fresh, sinceRecv, slept, sinceNow, why>>

\* Mutant: the time is taken for sent although the test fails.
TestSendAlwaysTimed(e) ==
    /\ alive[e] /\ hpc[e] = "test_send" /\ "heartbeat" \notin hung[e]
    /\ IF up[e] /\ Exceeds(e, sinceSend[e], Interval) THEN Send(e, "heartbeat", "ask", wire)
       ELSE sinceSend' = [sinceSend EXCEPT ![e] = 0] /\ UNCHANGED <<wire, hung>>
    /\ Sleep(e)

\* A heartbeat unless something was sent within the interval.  (On a socket that
\* another thread has closed SendMessageInternal fails.)
TestSend(e) ==
    /\ alive[e] /\ hpc[e] = "test_send" /\ "heartbeat" \notin hung[e]
    /\ IF up[e] /\ Exceeds(e, sinceSend[e], Interval) THEN Send(e, "heartbeat", "ask", wire)
       ELSE UNCHANGED <<sinceSend, wire, hung>>
    /\ Sleep(e)

\* Mutant: the state stays CONNECTED.
DropKeepState(e) ==
    /\ alive[e] /\ hpc[e] \in {"late", "raced"} /\ hung[e] = {}
    /\ why' = [why EXCEPT ![e] = IF up[e] THEN hpc[e] ELSE @]
    /\ hpc' = [hpc EXCEPT ![e] = "asleep"]
    /\ UNCHANGED <<alive, up, fresh, sinceRecv, sinceSend, slept, sinceNow, wire, hung>>

\* The section of the lock that closes the connection.  What IpcReconnect does then is
\* another connection.
Drop(e) ==
    /\ alive[e] /\ hpc[e] \in {"late", "raced"} /\ hung[e] = {}
    /\ why' = [why EXCEPT ![e] = IF up[e] THEN hpc[e] ELSE @]
    /\ up' = [up EXCEPT ![e] = FALSE]
    /\ hpc' = [hpc EXCEPT ![e] = "asleep"]
    /\ UNCHANGED <<alive, fresh, sinceRecv, sinceSend, slept, sinceNow, wire, hung>>

-----------------------------------------------------------------------------
(* ReceiveThread                                                             *)

\* HandleMessage
Receive(e) ==
    /\ alive[e] /\ up[e] /\ "recv" \notin hung[e] /\ wire[Peer(e)] # <<>>
    /\ sinceRecv' = [sinceRecv EXCEPT ![e] = 0]
    /\ LET rest == [wire EXCEPT ![Peer(e)] = Tail(@)] IN
         IF Head(wire[Peer(e)]).frame = "ask" THEN Send(e, "recv", "tell", rest)
         ELSE wire' = rest /\ UNCHANGED <<sinceSend, hung>>
    /\ UNCHANGED <<alive, up, fresh, thread, why>>

\* recv() returns 0: the peer has closed the connection.
PeerClosed(e) ==
    /\ alive[e] /\ up[e] /\ ~up[Peer(e)] /\ wire[Peer(e)] = <<>>
    /\ up' = [up EXCEPT ![e] = FALSE] /\ why' = [why EXCEPT ![e] = "closed"]
    /\ UNCHANGED <<alive, fresh, sinceRecv, sinceSend, thread, wire, hung>>

-----------------------------------------------------------------------------
(* The machine                                                               *)

\* The process stops where it is.
Stop(e) ==
    /\ alive[e]
    /\ alive' = [alive EXCEPT ![e] = FALSE]
    /\ UNCHANGED <<up, fresh, sinceRecv, sinceSend, thread, why, wire, hung>>

\* Nothing of an end is due: no thread, no frame or close to be noticed.  What is held
\* up by a send is not due.
MayWait(e) ==
    alive[e] /\ up[e] /\ hung[e] = {} =>
        /\ IF hpc[e] = "asleep" THEN slept[e] < Interval + Lag ELSE sinceNow[e] < Lag
        /\ \A i \in DOMAIN wire[Peer(e)] : wire[Peer(e)][i].age < Delay
        /\ up[Peer(e)] \/ wire[Peer(e)] # <<>>
        /\ fresh[e]

Older(age, limit) == IF age < limit THEN age + 1 ELSE age

Tick ==
    /\ \A e \in Ends : MayWait(e)
    /\ sinceRecv' = [e \in Ends |-> Older(sinceRecv[e], OldRecv)]
    /\ sinceSend' = [e \in Ends |-> Older(sinceSend[e], OldSend)]
    /\ slept' = [e \in Ends |-> IF hpc[e] = "asleep" THEN Older(slept[e], Interval + Lag) ELSE slept[e]]
    /\ sinceNow' = [e \in Ends |-> IF hpc[e] = "asleep" THEN sinceNow[e] ELSE Older(sinceNow[e], Lag)]
    /\ wire' = [e \in Ends |-> [i \in DOMAIN wire[e] |-> [wire[e][i] EXCEPT !.age = Older(@, Delay)]]]
    /\ UNCHANGED <<alive, up, fresh, hpc, why, hung>>

Next ==
    \/ Tick
    \/ \E e \in Ends :
          \/ SetTimes(e) \/ SendData(e) \/ Receive(e) \/ PeerClosed(e) \/ Stop(e)
          \/ Wake(e) \/ TestRecv(e) \/ TestSend(e) \/ Drop(e)

Spec == Init /\ [][Next]_vars

-----------------------------------------------------------------------------
(* Properties                                                                *)

\* The time-out leaves room for two intervals (a heartbeat is sent at the first
\* wake-up more than one interval after the last frame), for the threads being
\* late, and for the frame.
RoomForHeartbeats == Timeout >= 2 * Interval + 3 * Lag + Delay

\* While both ends run, neither gives the other up as silent, also if it sends
\* nothing but heartbeats or its heartbeats are replaced by data: unless the
\* heartbeat thread raced with a frame or with the start of the connection.
LiveConnectionStays ==
    RoomForHeartbeats /\ (\A e \in Ends : alive[e]) => \A e \in Ends : why[e] # "late"

\* A peer that has stopped is noticed: no end that runs stays connected longer than
\* this without having received a frame, whatever it sends itself, as long as what it
\* sends has not filled the peer's buffer.  From then on nothing is noticed any more.
SilenceNoticed ==
    \A e \in Ends :
        alive[e] /\ up[e] /\ fresh[e] /\ hung[e] = {} =>
            sinceRecv[e] =< Timeout + Interval + 3 * Lag
=============================================================================
