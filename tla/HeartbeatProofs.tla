---------------------------- MODULE HeartbeatProofs ----------------------------
(* Proofs about Heartbeat, for all intervals, time-outs and delays.           *)
EXTENDS Heartbeat, SequenceTheorems, TLAPS

-----------------------------------------------------------------------------
(* Frames on the way                                                         *)

Flying == [frame : Frames, age : 0 .. Delay]

LEMMA EndFacts ==
  /\ \A e \in Ends : Peer(e) \in Ends /\ Peer(e) # e /\ Peer(Peer(e)) = e
  /\ \A e \in Ends, d \in Ends : d = e \/ d = Peer(e)
BY DEF Ends, Peer

\* A frame that was added comes last; the oldest one stays the oldest.
Added(old, new) ==
  /\ new # <<>>
  /\ old # <<>> => new[1] = old[1]
  /\ old = <<>> => new[1].age = 0

LEMMA AppendAdds ==
  ASSUME NEW s \in Seq(Flying), NEW frame \in Frames
  PROVE  LET t == Append(s, [frame |-> frame, age |-> 0]) IN t \in Seq(Flying) /\ Added(s, t)
<1> DEFINE f == [frame |-> frame, age |-> 0]
<1>1. f \in Flying /\ f.age = 0
  BY TimesAssumption DEF Flying
<1> HIDE DEF f
<1>2. Append(s, f) \in Seq(Flying) /\ Append(s, f) # <<>>
  <2>1. Append(s, f) \in Seq(Flying) /\ Len(Append(s, f)) = Len(s) + 1 /\ Len(s) \in Nat
    BY <1>1
  <2>2. Append(s, f) # <<>>
    BY <2>1
  <2> QED
    BY <2>1, <2>2
<1>3. s # <<>> => Append(s, f)[1] = s[1]
  BY <1>1
<1>4. s = <<>> => Append(s, f)[1] = f
  BY <1>1
<1> QED
  BY <1>1, <1>2, <1>3, <1>4 DEF Added, f

\* What a send does that hangs, and what makes it.
Hangs(e) ==
  /\ UNCHANGED sinceSend /\ hung'[e] # {}
  /\ hung[e] # {} \/ (fresh[e] /\ up[Peer(e)] /\ ~alive[Peer(e)])

LEMMA HungType ==
  ASSUME TypeOK, NEW e \in Ends, NEW t \in Senders, NEW frame, NEW frames, Send(e, t, frame, frames)
  PROVE  /\ hung' \in [Ends -> SUBSET Senders] /\ \A d \in Ends : d # e => hung'[d] = hung[d]
         /\ hung'[e] \in {hung[e], hung[e] \cup {t}}
         /\ hung'[e] # {} => hung[e] # {} \/ (fresh[e] /\ up[Peer(e)] /\ ~alive[Peer(e)])
<1>1. hung \in [Ends -> SUBSET Senders]
  BY DEF TypeOK
<1>2. \/ hung[e] = {} /\ hung' = hung
      \/ /\ hung[e] # {} \/ (fresh[e] /\ up[Peer(e)] /\ ~alive[Peer(e)])
         /\ hung' = [hung EXCEPT ![e] = hung[e] \cup {t}]
  BY DEF Send
<1> QED
  BY <1>1, <1>2

\* What SendMessageInternal does to the frames.
LEMMA Sent ==
  ASSUME TypeOK, NEW e \in Ends, NEW t \in Senders, NEW frame \in Frames,
         NEW frames \in [Ends -> Seq(Flying)], Send(e, t, frame, frames)
  PROVE  /\ sinceSend' \in [Ends -> 0 .. OldSend] /\ sinceSend'[Peer(e)] = sinceSend[Peer(e)]
         /\ wire' \in [Ends -> Seq(Flying)] /\ wire'[Peer(e)] = frames[Peer(e)]
         /\ \/ Hangs(e) /\ wire' = frames
            \/ /\ hung[e] = {} /\ UNCHANGED hung /\ sinceSend'[e] = 0
               /\ IF up[Peer(e)] /\ alive[Peer(e)] THEN Added(frames[e], wire'[e])
                  ELSE wire'[e] = frames[e]
<1>1. /\ sinceSend \in [Ends -> 0 .. OldSend] /\ hung \in [Ends -> SUBSET Senders]
      /\ 0 \in 0 .. OldSend
  <2>1. 0 \in 0 .. OldSend
    BY TimesAssumption DEF OldSend
  <2> QED
    BY <2>1 DEF TypeOK
<1>2. CASE /\ hung[e] # {} \/ (fresh[e] /\ up[Peer(e)] /\ ~alive[Peer(e)])
           /\ hung' = [hung EXCEPT ![e] = @ \cup {t}]
           /\ wire' = frames /\ UNCHANGED sinceSend
  <2>1. hung'[e] # {}
    BY <1>1, <1>2
  <2> QED
    BY <1>1, <1>2, <2>1, EndFacts DEF Hangs
<1>3. CASE /\ hung[e] = {} /\ sinceSend' = [sinceSend EXCEPT ![e] = 0] /\ UNCHANGED hung
           /\ wire' = [frames EXCEPT ![e] = IF up[Peer(e)] /\ alive[Peer(e)]
                                            THEN Append(@, [frame |-> frame, age |-> 0]) ELSE @]
  <2>1. /\ sinceSend'[e] = 0 /\ sinceSend'[Peer(e)] = sinceSend[Peer(e)]
        /\ sinceSend' \in [Ends -> 0 .. OldSend]
    BY <1>1, <1>3, EndFacts
  <2>2. CASE up[Peer(e)] /\ alive[Peer(e)]
    <3>1. PICK s : s = Append(frames[e], [frame |-> frame, age |-> 0])
      OBVIOUS
    <3>2. s \in Seq(Flying) /\ Added(frames[e], s)
      BY <3>1, AppendAdds
    <3>3. wire' = [frames EXCEPT ![e] = s]
      BY <1>3, <2>2, <3>1
    <3>4. /\ wire' \in [Ends -> Seq(Flying)] /\ wire'[Peer(e)] = frames[Peer(e)]
          /\ wire'[e] = s
      BY <3>2, <3>3, EndFacts
    <3> QED
      BY <1>3, <2>1, <2>2, <3>2, <3>4
  <2>3. CASE ~(up[Peer(e)] /\ alive[Peer(e)])
    <3>1. wire' = frames
      BY <1>3, <2>3
    <3> QED
      BY <1>3, <2>1, <2>3, <3>1
  <2> QED
    BY <2>2, <2>3
<1> QED
  BY <1>2, <1>3 DEF Send

\* What HandleMessage does to them.
LEMMA Received ==
  ASSUME TypeOK, NEW e \in Ends, Receive(e)
  PROVE  /\ sinceSend' \in [Ends -> 0 .. OldSend] /\ sinceSend'[Peer(e)] = sinceSend[Peer(e)]
         /\ wire' \in [Ends -> Seq(Flying)] /\ wire'[Peer(e)] = Tail(wire[Peer(e)])
         /\ \/ UNCHANGED hung \/ \E frames : Send(e, "recv", "tell", frames)
         /\ \/ wire'[e] = wire[e] /\ sinceSend'[e] = sinceSend[e]
            \/ wire'[e] = wire[e] /\ ~(up[Peer(e)] /\ alive[Peer(e)])
            \/ Added(wire[e], wire'[e]) /\ sinceSend'[e] = 0
<1> DEFINE p == Peer(e)
           rest == [wire EXCEPT ![p] = Tail(@)]
<1>1. /\ wire \in [Ends -> Seq(Flying)] /\ sinceSend \in [Ends -> 0 .. OldSend]
      /\ "tell" \in Frames /\ "recv" \in Senders
  BY DEF TypeOK, Flying, Frames, Senders
<1>2. p \in Ends /\ p # e /\ wire[p] # <<>>
  BY EndFacts DEF Receive
<1>3. Tail(wire[p]) \in Seq(Flying)
  BY <1>1, <1>2
<1>4. rest \in [Ends -> Seq(Flying)] /\ rest[p] = Tail(wire[p]) /\ rest[e] = wire[e]
  BY <1>1, <1>2, <1>3
<1>5. \/ Send(e, "recv", "tell", rest)
      \/ wire' = rest /\ UNCHANGED <<sinceSend, hung>>
  BY DEF Receive
<1> HIDE DEF rest, p
<1>6. CASE Send(e, "recv", "tell", rest)
  <2>1. PICK w \in [Ends -> Seq(Flying)] : w = rest
    BY <1>4
  <2>2. Send(e, "recv", "tell", w)
    BY <1>6, <2>1
  <2>3. /\ sinceSend' \in [Ends -> 0 .. OldSend] /\ sinceSend'[p] = sinceSend[p]
        /\ wire' \in [Ends -> Seq(Flying)] /\ wire'[p] = w[p]
        /\ \/ Hangs(e) /\ wire' = w
           \/ /\ sinceSend'[e] = 0
              /\ IF up[p] /\ alive[p] THEN Added(w[e], wire'[e]) ELSE wire'[e] = w[e]
    <3>1. /\ sinceSend' \in [Ends -> 0 .. OldSend] /\ sinceSend'[Peer(e)] = sinceSend[Peer(e)]
          /\ wire' \in [Ends -> Seq(Flying)] /\ wire'[Peer(e)] = w[Peer(e)]
          /\ \/ Hangs(e) /\ wire' = w
             \/ /\ hung[e] = {} /\ UNCHANGED hung /\ sinceSend'[e] = 0
                /\ IF up[Peer(e)] /\ alive[Peer(e)] THEN Added(w[e], wire'[e])
                   ELSE wire'[e] = w[e]
      <4>1. "recv" \in Senders /\ "tell" \in Frames
        BY <1>1
      <4> QED
        BY <2>2, <4>1, Sent, SMTT(30)
    <3> QED
      BY <3>1, Zenon DEF p
  <2> QED
    BY <1>4, <2>1, <2>2, <2>3 DEF p, Hangs
<1>7. CASE wire' = rest /\ UNCHANGED <<sinceSend, hung>>
  BY <1>1, <1>4, <1>7 DEF p
<1> QED
  BY <1>5, <1>6, <1>7

\* What the clock does to them.
LEMMA Aged ==
  ASSUME TypeOK, Tick
  PROVE  /\ wire' \in [Ends -> Seq(Flying)]
         /\ \A e \in Ends : /\ wire'[e] = <<>> <=> wire[e] = <<>>
                            /\ wire[e] # <<>> => wire'[e][1].age = Older(wire[e][1].age, Delay)
<1>1. ASSUME NEW e \in Ends
      PROVE  /\ wire'[e] \in Seq(Flying) /\ (wire'[e] = <<>> <=> wire[e] = <<>>)
             /\ wire[e] # <<>> => wire'[e][1].age = Older(wire[e][1].age, Delay)
  <2> DEFINE s == wire[e]
             g(f) == [f EXCEPT !.age = Older(@, Delay)]
  <2>1. s \in Seq(Flying)
    BY DEF TypeOK, Flying
  <2>2. wire'[e] = [i \in DOMAIN s |-> g(s[i])]
    BY DEF Tick
  <2>3. \A f \in Flying : g(f) \in Flying /\ g(f).age = Older(f.age, Delay)
    BY TimesAssumption DEF Flying, Older
  <2> HIDE DEF s, g
  <2>4. PICK n \in Nat : s \in [1 .. n -> Flying]
    BY <2>1, SeqDef
  <2>5. wire'[e] \in [1 .. n -> Flying]
    BY <2>2, <2>3, <2>4
  <2>6. wire'[e] \in Seq(Flying)
    BY <2>5, SeqDef
  <2>7. Len(s) = n /\ Len(wire'[e]) = n
    BY <2>1, <2>4, <2>5, <2>6
  <2>8. s # <<>> => n # 0 /\ wire'[e][1].age = Older(s[1].age, Delay)
    BY <2>1, <2>2, <2>3, <2>4, <2>7
  <2> QED
    BY <2>1, <2>6, <2>7, <2>8 DEF s
<1>2. wire' = [e \in Ends |-> wire'[e]]
  BY DEF Tick
<1> QED
  BY <1>1, <1>2

-----------------------------------------------------------------------------
(* Types                                                                     *)

\* The type invariant in parts: the state of each end, the times, the heartbeat
\* thread and the frames.
FlagTypes ==
  /\ alive \in [Ends -> BOOLEAN] /\ up \in [Ends -> BOOLEAN] /\ fresh \in [Ends -> BOOLEAN]
  /\ why \in [Ends -> {"none", "late", "raced", "closed"}]
  /\ \A e \in Ends : up[e] <=> why[e] = "none"
HungTypes ==
  /\ hung \in [Ends -> SUBSET Senders]
  /\ \A e \in Ends : hung[e] # {} => up[e] /\ fresh[e] /\ up[Peer(e)] /\ ~alive[Peer(e)]
RecvType == sinceRecv \in [Ends -> 0 .. OldRecv]
SendType == sinceSend \in [Ends -> 0 .. OldSend]
ThreadTypes ==
  /\ hpc \in [Ends -> {"asleep", "test_recv", "test_send", "late", "raced"}]
  /\ slept \in [Ends -> 0 .. Interval + Lag] /\ sinceNow \in [Ends -> 0 .. Lag]
WireType == wire \in [Ends -> Seq(Flying)]

LEMMA TypeParts ==
  /\ TypeOK <=> FlagTypes /\ RecvType /\ SendType /\ ThreadTypes /\ WireType /\ HungTypes
  /\ TypeOK' <=> FlagTypes' /\ RecvType' /\ SendType' /\ ThreadTypes' /\ WireType' /\ HungTypes'
BY DEF TypeOK, FlagTypes, RecvType, SendType, ThreadTypes, WireType, HungTypes, Flying

LEMMA TypesKept ==
  /\ FlagTypes /\ UNCHANGED <<alive, up, fresh, why>> => FlagTypes'
  /\ RecvType /\ UNCHANGED sinceRecv => RecvType'
  /\ SendType /\ UNCHANGED sinceSend => SendType'
  /\ ThreadTypes /\ UNCHANGED <<hpc, slept, sinceNow>> => ThreadTypes'
  /\ WireType /\ UNCHANGED wire => WireType'
  /\ HungTypes /\ UNCHANGED <<alive, up, fresh, hung>> => HungTypes'
BY DEF FlagTypes, RecvType, SendType, ThreadTypes, WireType, HungTypes

\* A send keeps its part of the types; so does a thread that is held up by one.
LEMMA SendKeepsHung ==
  ASSUME TypeOK, NEW e \in Ends, NEW t \in Senders, NEW frame, NEW frames,
         Send(e, t, frame, frames), up[e], UNCHANGED <<alive, up>>,
         fresh' \in {fresh, [fresh EXCEPT ![e] = TRUE]}
  PROVE  HungTypes'
<1>1. /\ hung' \in [Ends -> SUBSET Senders] /\ \A d \in Ends : d # e => hung'[d] = hung[d]
      /\ hung'[e] # {} => hung[e] # {} \/ (fresh[e] /\ up[Peer(e)] /\ ~alive[Peer(e)])
  BY HungType
<1>2. \A d \in Ends : fresh[d] => fresh'[d]
  <2>1. fresh \in [Ends -> BOOLEAN]
    BY DEF TypeOK
  <2>2. CASE fresh' = fresh
    BY <2>2
  <2>3. CASE fresh' = [fresh EXCEPT ![e] = TRUE]
    <3>1. \A d \in Ends : d # e => fresh'[d] = fresh[d]
      BY <2>1, <2>3
    <3>2. fresh'[e]
      BY <2>1, <2>3
    <3> QED
      BY <3>1, <3>2
  <2> QED
    BY <2>2, <2>3
<1>3. ASSUME NEW d \in Ends, hung'[d] # {}
      PROVE  up'[d] /\ fresh'[d] /\ up'[Peer(d)] /\ ~alive'[Peer(d)]
  <2>1. hung[d] # {} => up[d] /\ fresh[d] /\ up[Peer(d)] /\ ~alive[Peer(d)]
    BY DEF TypeOK
  <2> QED
    BY <1>1, <1>2, <1>3, <2>1
<1> QED
  BY <1>1, <1>3 DEF HungTypes

\* The bounds of the types, in numbers.
LEMMA Bounds ==
  /\ Interval \in Nat \ {0} /\ Timeout \in Nat \ {0} /\ Lag \in Nat /\ Delay \in Nat
  /\ OldRecv \in Nat /\ OldSend \in Nat
  /\ OldRecv = Timeout + Interval + 3 * Lag + 1 /\ OldSend = Interval + Lag + 1
BY TimesAssumption DEF OldRecv, OldSend

\* Every variable keeps its type.
THEOREM HeartbeatTypeCorrect == Spec => []TypeOK
<1>1. Init => TypeOK
  <2> SUFFICES ASSUME Init PROVE TypeOK
    OBVIOUS
  <2>1. FlagTypes /\ WireType /\ HungTypes
    BY DEF Init, FlagTypes, WireType, HungTypes
  <2>2. RecvType /\ SendType
    BY Bounds DEF Init, RecvType, SendType
  <2>3. ThreadTypes
    <3>1. 0 .. Interval \subseteq 0 .. Interval + Lag /\ 0 \in 0 .. Lag
      BY Bounds
    <3>2. slept \in [Ends -> 0 .. Interval + Lag]
      BY <3>1 DEF Init
    <3> QED
      BY <3>1, <3>2 DEF Init, ThreadTypes
  <2> QED
    BY <2>1, <2>2, <2>3, TypeParts
<1>2. TypeOK /\ [Next]_vars => TypeOK'
  <2> SUFFICES ASSUME TypeOK, [Next]_vars PROVE TypeOK'
    OBVIOUS
  <2> USE TypeParts, TypesKept DEF thread
  <2>1. CASE Tick
    <3>1. RecvType' /\ SendType'
      BY <2>1, Bounds DEF Tick, Older, RecvType, SendType
    <3>2. ThreadTypes'
      BY <2>1, Bounds DEF Tick, Older, ThreadTypes
    <3> QED
      BY <2>1, <3>1, <3>2, Aged DEF Tick, WireType
  <2>2. ASSUME NEW e \in Ends, SetTimes(e) PROVE TypeOK'
    <3>1. FlagTypes' /\ RecvType'
      BY <2>2, Bounds DEF SetTimes, FlagTypes, RecvType
    <3>2. PICK frame \in Frames : Send(e, "app", frame, wire)
      BY <2>2 DEF SetTimes, Frames
    <3>3. HungTypes'
      BY <2>2, <3>2, SendKeepsHung DEF SetTimes, Senders
    <3> QED
      BY <2>2, <3>1, <3>2, <3>3, Sent DEF SetTimes, SendType, WireType, Senders
  <2>3. ASSUME NEW e \in Ends, SendData(e) PROVE TypeOK'
    <3>1. Send(e, "app", "tell", wire) /\ "tell" \in Frames /\ "app" \in Senders
      BY <2>3 DEF SendData, Frames, Senders
    <3>2. HungTypes'
      BY <2>3, <3>1, SendKeepsHung DEF SendData
    <3> QED
      BY <2>3, <3>1, <3>2, Sent DEF SendData, SendType, WireType
  <2>4. ASSUME NEW e \in Ends, Receive(e) PROVE TypeOK'
    <3>1. RecvType'
      BY <2>4, Bounds DEF Receive, RecvType
    <3>2. HungTypes'
      BY <2>4, Received, SendKeepsHung DEF Receive, Senders
    <3> QED
      BY <2>4, <3>1, <3>2, Received DEF Receive, SendType, WireType
  <2>5. ASSUME NEW e \in Ends, PeerClosed(e) PROVE TypeOK'
    <3>1. FlagTypes' /\ HungTypes'
      BY <2>5, EndFacts DEF PeerClosed, FlagTypes, HungTypes
    <3> QED
      BY <2>5, <3>1 DEF PeerClosed
  <2>6. ASSUME NEW e \in Ends, Stop(e) PROVE TypeOK'
    <3>1. FlagTypes' /\ HungTypes'
      BY <2>6 DEF Stop, FlagTypes, HungTypes
    <3> QED
      BY <2>6, <3>1 DEF Stop
  <2>7. ASSUME NEW e \in Ends, Wake(e) PROVE TypeOK'
    <3>1. ThreadTypes'
      BY <2>7, Bounds DEF Wake, ThreadTypes
    <3> QED
      BY <2>7, <3>1 DEF Wake
  <2>8. ASSUME NEW e \in Ends, TestRecv(e) PROVE TypeOK'
    <3>1. ThreadTypes'
      BY <2>8 DEF TestRecv, Advance, ThreadTypes
    <3> QED
      BY <2>8, <3>1 DEF TestRecv, Advance
  <2>9. ASSUME NEW e \in Ends, TestSend(e) PROVE TypeOK'
    <3>1. ThreadTypes'
      BY <2>9 DEF TestSend, Sleep, ThreadTypes
    <3>2. \/ UNCHANGED <<sinceSend, wire, hung>>
          \/ up[e] /\ Send(e, "heartbeat", "ask", wire)
      BY <2>9 DEF TestSend
    <3>3. SendType' /\ WireType' /\ HungTypes'
      <4>1. CASE UNCHANGED <<sinceSend, wire, hung>>
        BY <2>9, <4>1 DEF TestSend, Sleep
      <4>2. CASE up[e] /\ Send(e, "heartbeat", "ask", wire)
        BY <2>9, <4>2, Sent, SendKeepsHung
           DEF TestSend, Sleep, SendType, WireType, Frames, Senders
      <4> QED
        BY <3>2, <4>1, <4>2
    <3> QED
      BY <2>9, <3>1, <3>3 DEF TestSend, Sleep
  <2>10. ASSUME NEW e \in Ends, Drop(e) PROVE TypeOK'
    <3>1. FlagTypes' /\ ThreadTypes'
      BY <2>10 DEF Drop, FlagTypes, ThreadTypes
    <3>2. HungTypes'
      BY <2>10, EndFacts DEF Drop, HungTypes, FlagTypes
    <3> QED
      BY <2>10, <3>1, <3>2 DEF Drop
  <2>11. CASE UNCHANGED vars
    BY <2>11 DEF vars
  <2> QED
    BY <2>1, <2>2, <2>3, <2>4, <2>5, <2>6, <2>7, <2>8, <2>9, <2>10, <2>11 DEF Next
<1> QED
  BY <1>1, <1>2, PTL DEF Spec

-----------------------------------------------------------------------------
(* The invariants                                                            *)

\* An end that watches its peer: how old lastRecvTime can be, by the place of the
\* heartbeat thread.  The last test passed when it was at most Timeout.
Watching(e) ==
  alive[e] /\ up[e] /\ fresh[e] /\ hung[e] = {} =>
    /\ hpc[e] = "asleep" => sinceRecv[e] =< Timeout + Lag + slept[e]
    /\ hpc[e] = "test_send" => sinceRecv[e] =< Timeout + sinceNow[e]
    /\ hpc[e] \in {"test_recv", "late", "raced"}
         => sinceRecv[e] =< Timeout + Interval + 2 * Lag + sinceNow[e]

\* The longest time between two frames of an end that runs.
Gap == 2 * Interval + 3 * Lag

\* How long an end that runs can have been silent, by the place of its heartbeat
\* thread: at the last test of lastSendTime it was at most Interval.
Silent(p) == IF hpc[p] = "asleep" THEN Interval + Lag + slept[p]
             ELSE 2 * Interval + 2 * Lag + sinceNow[p]

\* What a running end has heard of a running peer: the last frame came before the
\* oldest one on the way, or else it is the last one that was sent.
Heard(e) ==
  LET p == Peer(e) IN
  (\A d \in Ends : alive[d]) /\ up[e] /\ fresh[e] =>
    /\ wire[p] # <<>> => sinceRecv[e] =< Gap + wire[p][1].age
    /\ wire[p] = <<>> => /\ sinceRecv[e] =< IF up[p] THEN Silent(p) ELSE Gap
                         /\ sinceSend[p] < OldSend => sinceRecv[e] =< sinceSend[p]

\* No heartbeat thread is about to give up a connection that lives.
NotLate(e) ==
  RoomForHeartbeats /\ (\A d \in Ends : alive[d]) =>
    why[e] # "late" /\ (hpc[e] = "late" => ~up[e])

-----------------------------------------------------------------------------
(* Silence is noticed                                                        *)

\* The types, value by value.
LEMMA EndTypes ==
  ASSUME TypeOK, NEW e \in Ends
  PROVE  /\ sinceRecv[e] \in Nat /\ sinceSend[e] \in Nat /\ sinceSend[e] =< OldSend
         /\ slept[e] \in Nat /\ slept[e] =< Interval + Lag
         /\ sinceNow[e] \in Nat /\ sinceNow[e] =< Lag
         /\ hpc[e] \in {"asleep", "test_recv", "test_send", "late", "raced"}
         /\ wire[e] \in Seq(Flying)
         /\ wire[e] # <<>> => wire[e][1].age \in Nat /\ wire[e][1].age =< Delay
<1>1. /\ sinceRecv[e] \in 0 .. OldRecv /\ sinceSend[e] \in 0 .. OldSend
      /\ slept[e] \in 0 .. Interval + Lag /\ sinceNow[e] \in 0 .. Lag
      /\ hpc[e] \in {"asleep", "test_recv", "test_send", "late", "raced"}
      /\ wire[e] \in Seq(Flying)
  BY TypeParts DEF RecvType, SendType, ThreadTypes, WireType
<1>2. wire[e] # <<>> => wire[e][1] \in Flying
  BY <1>1
<1> QED
  BY <1>1, <1>2, Bounds DEF Flying

\* The steps of one end, and what they leave alone of the other.
EndStep(e) ==
  \/ SetTimes(e) \/ SendData(e) \/ Receive(e) \/ PeerClosed(e) \/ Stop(e)
  \/ Wake(e) \/ TestRecv(e) \/ TestSend(e) \/ Drop(e)

Same(e) ==
  UNCHANGED <<alive[e], up[e], fresh[e], sinceRecv[e], hpc[e], slept[e], sinceNow[e], why[e]>>

LEMMA OtherSame ==
  ASSUME TypeOK, NEW a \in Ends, NEW e \in Ends, e # a, EndStep(a)
  PROVE  Same(e)
<1> USE TypeParts DEF FlagTypes, RecvType, ThreadTypes, thread
<1>1. UNCHANGED <<alive[e], up[e], fresh[e], why[e]>>
  BY DEF EndStep, SetTimes, SendData, Receive, PeerClosed, Stop, Wake, TestRecv, TestSend, Drop,
         Advance, Sleep
<1>2. UNCHANGED <<sinceRecv[e], hpc[e], slept[e], sinceNow[e]>>
  BY DEF EndStep, SetTimes, SendData, Receive, PeerClosed, Stop, Wake, TestRecv, TestSend, Drop,
         Advance, Sleep
<1> QED
  BY <1>1, <1>2 DEF Same

\* A thread that hangs does not come back; while both ends run none does.
LEMMA HungStays ==
  ASSUME TypeOK, NEW e \in Ends, hung'[e] = {},
         Tick \/ (\E a \in Ends : EndStep(a)) \/ UNCHANGED vars
  PROVE  hung[e] = {}
<1>1. ASSUME NEW a \in Ends, EndStep(a) PROVE hung[e] = {}
  <2>1. \/ UNCHANGED hung
        \/ \E t \in Senders, frame \in Frames : Send(a, t, frame, wire)
        \/ Receive(a)
    BY <1>1 DEF EndStep, SetTimes, SendData, PeerClosed, Stop, Wake, TestRecv, TestSend, Drop,
                Advance, Senders, Frames
  <2>2. \/ UNCHANGED hung
        \/ \E t \in Senders : \E frame, frames : Send(a, t, frame, frames)
    BY <2>1, Received DEF Senders
  <2>3. CASE \E t \in Senders : \E frame, frames : Send(a, t, frame, frames)
    <3>1. PICK t \in Senders : \E frame, frames : Send(a, t, frame, frames)
      BY <2>3
    <3>2. (\A d \in Ends : d # a => hung'[d] = hung[d]) /\ hung'[a] \in {hung[a], hung[a] \cup {t}}
      BY <3>1, HungType
    <3> QED
      BY <3>2
  <2> QED
    BY <2>2, <2>3
<1> QED
  BY <1>1 DEF Tick, vars

LEMMA NoneHangs ==
  ASSUME TypeOK, \A d \in Ends : alive[d]
  PROVE  \A e \in Ends : hung[e] = {}
BY EndFacts, TypeParts DEF HungTypes

\* Every step keeps it.
LEMMA WatchStep ==
  ASSUME TypeOK, TypeOK', [Next]_vars, NEW e \in Ends, Watching(e)
  PROVE  Watching(e)'
<1> USE Bounds
<1> SUFFICES ASSUME hung'[e] = {} PROVE Watching(e)'
  BY DEF Watching
<1>0. hung[e] = {}
  BY HungStays DEF Next, EndStep
<1>1. /\ sinceRecv[e] \in Nat /\ slept[e] \in Nat /\ slept[e] =< Interval + Lag
      /\ sinceNow[e] \in Nat /\ sinceNow[e] =< Lag
      /\ hpc[e] \in {"asleep", "test_recv", "test_send", "late", "raced"}
  BY EndTypes
<1>2. slept'[e] \in Nat /\ sinceNow'[e] \in Nat
  BY EndTypes, TypeParts DEF ThreadTypes
<1>3. CASE Tick
  <2>1. /\ UNCHANGED <<alive, up, fresh, hpc>> /\ MayWait(e)
        /\ sinceRecv'[e] = Older(sinceRecv[e], OldRecv)
        /\ slept'[e] = IF hpc[e] = "asleep" THEN Older(slept[e], Interval + Lag) ELSE slept[e]
        /\ sinceNow'[e] = IF hpc[e] = "asleep" THEN sinceNow[e] ELSE Older(sinceNow[e], Lag)
    BY <1>3 DEF Tick
  <2> SUFFICES ASSUME alive[e], up[e], fresh[e] PROVE Watching(e)'
    BY <2>1 DEF Watching
  <2>2. sinceRecv'[e] =< sinceRecv[e] + 1
    BY <1>1, <2>1 DEF Older
  <2>3. CASE hpc[e] = "asleep"
    <3>1. slept'[e] = slept[e] + 1
      BY <1>0, <1>1, <2>1, <2>3 DEF MayWait, Older
    <3>2. sinceRecv[e] =< Timeout + Lag + slept[e]
      BY <1>0, <2>3 DEF Watching
    <3>3. sinceRecv'[e] =< Timeout + Lag + slept'[e]
      BY <1>1, <2>1, <2>2, <3>1, <3>2 DEF Older
    <3> QED
      BY <2>1, <2>3, <3>3 DEF Watching
  <2>4. CASE hpc[e] # "asleep"
    <3>1. sinceNow'[e] = sinceNow[e] + 1
      BY <1>0, <2>1, <2>4 DEF MayWait, Older
    <3>2. hpc'[e] = hpc[e] /\ sinceRecv'[e] \in Nat
      BY <1>1, <2>1 DEF Older
    <3> QED
      BY <1>0, <1>1, <2>2, <2>4, <3>1, <3>2 DEF Watching
  <2> QED
    BY <2>3, <2>4
<1>4. CASE Same(e)
  BY <1>0, <1>4 DEF Same, Watching
<1>5. ASSUME SetTimes(e) \/ Receive(e) PROVE Watching(e)'
  <2>1. sinceRecv'[e] = 0
    BY <1>5, TypeParts DEF SetTimes, Receive, RecvType
  <2> QED
    BY <1>2, <2>1 DEF Watching
<1>6. ASSUME SendData(e) PROVE Watching(e)'
  BY <1>0, <1>6 DEF SendData, thread, Watching
<1>7. ASSUME PeerClosed(e) \/ Stop(e) \/ Drop(e) PROVE Watching(e)'
  <2>1. ~(alive'[e] /\ up'[e])
    BY <1>7, TypeParts DEF PeerClosed, Stop, Drop, FlagTypes
  <2> QED
    BY <2>1 DEF Watching
<1>8. ASSUME Wake(e) PROVE Watching(e)'
  <2>1. /\ hpc[e] = "asleep" /\ hpc'[e] = "test_recv" /\ sinceNow'[e] = 0
        /\ UNCHANGED <<alive, up, fresh, sinceRecv>>
    BY <1>8, TypeParts DEF Wake, ThreadTypes
  <2> QED
    BY <1>0, <1>1, <2>1 DEF Watching
<1>9. ASSUME TestRecv(e) PROVE Watching(e)'
  <2>1. UNCHANGED <<alive, up, fresh, sinceRecv, slept, sinceNow>> /\ hpc[e] = "test_recv"
    BY <1>9 DEF TestRecv, Advance
  <2>2. CASE ~Exceeds(e, sinceRecv[e], Timeout)
    <3>1. hpc'[e] = "test_send"
      BY <1>9, <2>2, TypeParts DEF TestRecv, Advance, ThreadTypes
    <3>2. sinceRecv[e] - sinceNow[e] =< Timeout
      BY <1>1, <2>2 DEF Exceeds
    <3> QED
      BY <1>0, <1>1, <2>1, <3>1, <3>2 DEF Watching
  <2>3. CASE Exceeds(e, sinceRecv[e], Timeout)
    <3>1. hpc'[e] \in {"late", "raced"}
      BY <1>9, <2>3, TypeParts DEF TestRecv, Advance, ThreadTypes
    <3> QED
      BY <1>0, <2>1, <3>1 DEF Watching
  <2> QED
    BY <2>2, <2>3
<1>10. ASSUME TestSend(e) PROVE Watching(e)'
  <2>1. /\ UNCHANGED <<alive, up, fresh, sinceRecv, slept, sinceNow>>
        /\ hpc[e] = "test_send" /\ hpc'[e] = "asleep"
    BY <1>10, TypeParts DEF TestSend, Sleep, ThreadTypes
  <2> QED
    BY <1>0, <1>1, <2>1 DEF Watching
<1>11. CASE UNCHANGED vars
  BY <1>0, <1>11 DEF vars, thread, Watching
<1>12. ASSUME NEW a \in Ends, EndStep(a) PROVE Watching(e)'
  BY <1>4, <1>5, <1>6, <1>7, <1>8, <1>9, <1>10, <1>12, OtherSame DEF EndStep
<1> QED
  BY <1>3, <1>11, <1>12 DEF Next, EndStep

\* A peer that has stopped is noticed: an end that runs, is connected and is held up by
\* no send has had a frame within the time-out, one interval and the lateness of its
\* threads.
THEOREM HeartbeatSilenceNoticed == Spec => []SilenceNoticed
<1>1. Init => \A e \in Ends : Watching(e)
  BY DEF Init, Watching
<1>2. TypeOK /\ TypeOK' /\ (\A e \in Ends : Watching(e)) /\ [Next]_vars
        => (\A e \in Ends : Watching(e))'
  BY WatchStep
<1>3. TypeOK /\ (\A e \in Ends : Watching(e)) => SilenceNoticed
  <2> SUFFICES ASSUME TypeOK, NEW e \in Ends, Watching(e), alive[e], up[e], fresh[e],
                      hung[e] = {}
               PROVE  sinceRecv[e] =< Timeout + Interval + 3 * Lag
    BY DEF SilenceNoticed
  <2>1. CASE hpc[e] = "asleep"
    BY <2>1, Bounds, EndTypes DEF Watching
  <2>2. CASE hpc[e] = "test_send"
    BY <2>2, Bounds, EndTypes DEF Watching
  <2>3. CASE hpc[e] \in {"test_recv", "late", "raced"}
    BY <2>3, Bounds, EndTypes DEF Watching
  <2> QED
    BY <2>1, <2>2, <2>3, EndTypes
<1> QED
  BY <1>1, <1>2, <1>3, HeartbeatTypeCorrect, PTL DEF Spec

-----------------------------------------------------------------------------
(* A connection that lives stays                                             *)

\* EndTypes, in the next state too.
Typed(e) ==
  /\ sinceRecv[e] \in Nat /\ sinceSend[e] \in Nat /\ sinceSend[e] =< OldSend
  /\ slept[e] \in Nat /\ slept[e] =< Interval + Lag
  /\ sinceNow[e] \in Nat /\ sinceNow[e] =< Lag
  /\ hpc[e] \in {"asleep", "test_recv", "test_send", "late", "raced"}
  /\ wire[e] # <<>> => wire[e][1].age \in Nat /\ wire[e][1].age =< Delay

LEMMA TypedNext ==
  /\ TypeOK => \A e \in Ends : Typed(e)
  /\ TypeOK' => \A e \in Ends : Typed(e)'
<1>1. TypeOK => \A e \in Ends : Typed(e)
  BY EndTypes DEF Typed
<1>2. TypeOK' => (\A e \in Ends : Typed(e))'
  BY <1>1, PTL
<1> QED
  BY <1>1, <1>2

\* A running end is never silent for longer than Gap.
LEMMA SilentGap ==
  ASSUME NEW p \in Ends
  PROVE  /\ Typed(p) => Silent(p) \in Nat /\ Silent(p) =< Gap
         /\ Typed(p)' => Silent(p)' \in Nat /\ Silent(p)' =< Gap
<1>1. /\ \A n \in Nat : n =< Interval + Lag => Interval + Lag + n \in Nat /\ Interval + Lag + n =< Gap
      /\ \A n \in Nat : n =< Lag => /\ 2 * Interval + 2 * Lag + n \in Nat
                                    /\ 2 * Interval + 2 * Lag + n =< Gap
  BY Bounds DEF Gap
<1>2. Typed(p) => Silent(p) \in Nat /\ Silent(p) =< Gap
  BY <1>1 DEF Typed, Silent
<1>3. Typed(p)' => slept'[p] \in Nat /\ slept'[p] =< Interval + Lag
                   /\ sinceNow'[p] \in Nat /\ sinceNow'[p] =< Lag
  BY DEF Typed
<1>4. Typed(p)' => Silent(p)' \in Nat /\ Silent(p)' =< Gap
  BY <1>1, <1>3 DEF Silent
<1> QED
  BY <1>2, <1>4

\* e has just received a frame.
LEMMA HeardNow ==
  ASSUME TypeOK', NEW e \in Ends, sinceRecv'[e] = 0
  PROVE  Heard(e)'
<1>1. Peer(e) \in Ends /\ Typed(Peer(e))'
  BY EndFacts, TypedNext
<1>2. Silent(Peer(e))' \in Nat /\ Gap \in Nat
  BY <1>1, Bounds, SilentGap DEF Gap
<1>3. wire'[Peer(e)] # <<>> => wire'[Peer(e)][1].age \in Nat
  BY <1>1 DEF Typed
<1>4. sinceSend'[Peer(e)] \in Nat
  BY <1>1 DEF Typed
<1> QED
  BY <1>2, <1>3, <1>4 DEF Heard

\* Neither end sends or receives.
LEMMA HeardKept ==
  ASSUME TypeOK, NEW e \in Ends, NEW p \in Ends, p = Peer(e), Heard(e),
         (\A d \in Ends : alive'[d]) => \A d \in Ends : alive[d],
         up'[e] => up[e], fresh'[e] => fresh[e], sinceRecv'[e] = sinceRecv[e],
         wire'[p] = wire[p], sinceSend'[p] = sinceSend[p],
         up'[p] /\ sinceRecv[e] =< Silent(p)
             /\ (sinceSend[p] < OldSend => sinceRecv[e] =< sinceSend[p])
           => sinceRecv[e] =< Silent(p)',
         up'[p] => up[p]
  PROVE  Heard(e)'
<1>1. sinceRecv[e] \in Nat /\ Silent(p) \in Nat /\ Silent(p) =< Gap /\ Gap \in Nat
  BY Bounds, TypedNext, SilentGap DEF Typed, Gap
<1> SUFFICES ASSUME \A d \in Ends : alive'[d], up'[e], fresh'[e] PROVE Heard(e)'
  BY DEF Heard
<1>2. /\ wire[p] # <<>> => sinceRecv[e] =< Gap + wire[p][1].age
      /\ wire[p] = <<>> => /\ sinceRecv[e] =< IF up[p] THEN Silent(p) ELSE Gap
                           /\ sinceSend[p] < OldSend => sinceRecv[e] =< sinceSend[p]
  BY DEF Heard
<1>3. wire[p] = <<>> => sinceRecv[e] =< Gap
  BY <1>1, <1>2
<1>4. wire[p] = <<>> => sinceRecv[e] =< IF up'[p] THEN Silent(p)' ELSE Gap
  BY <1>2, <1>3
<1> QED
  BY <1>2, <1>4 DEF Heard

\* The peer sends.
LEMMA HeardSent ==
  ASSUME TypeOK, TypeOK', NEW e \in Ends, NEW p \in Ends, p = Peer(e), Heard(e),
         (\A d \in Ends : alive'[d]) => \A d \in Ends : alive[d],
         up'[e] => up[e], fresh'[e] => fresh[e], sinceRecv'[e] = sinceRecv[e],
         up[e] /\ alive[e] => Added(wire[p], wire'[p])
  PROVE  Heard(e)'
<1>1. /\ sinceRecv[e] \in Nat /\ Silent(p) \in Nat /\ Silent(p) =< Gap /\ Gap \in Nat
      /\ wire'[p] # <<>> => wire'[p][1].age \in Nat
  BY Bounds, TypedNext, SilentGap DEF Typed, Gap
<1> QED
  BY <1>1 DEF Heard, Added

\* Time passes.
LEMMA HeardTick ==
  ASSUME TypeOK, TypeOK', NEW e \in Ends, Heard(e), Tick
  PROVE  Heard(e)'
<1> DEFINE p == Peer(e)
<1>1. p \in Ends /\ Typed(e) /\ Typed(p) /\ Silent(p) \in Nat /\ Silent(p) =< Gap /\ Gap \in Nat
  BY Bounds, EndFacts, TypedNext, SilentGap DEF Gap
<1>2. /\ UNCHANGED <<alive, up, fresh, hpc>> /\ MayWait(e) /\ MayWait(p)
      /\ sinceRecv'[e] = Older(sinceRecv[e], OldRecv)
      /\ sinceSend'[p] = Older(sinceSend[p], OldSend)
      /\ slept'[p] = IF hpc[p] = "asleep" THEN Older(slept[p], Interval + Lag) ELSE slept[p]
      /\ sinceNow'[p] = IF hpc[p] = "asleep" THEN sinceNow[p] ELSE Older(sinceNow[p], Lag)
  BY <1>1 DEF Tick
<1>3. /\ wire'[p] = <<>> <=> wire[p] = <<>>
      /\ wire[p] # <<>> => wire'[p][1].age = Older(wire[p][1].age, Delay)
  BY <1>1, Aged
<1>4. 1 \in DOMAIN wire[p] \/ wire[p] = <<>>
  BY <1>1, EndTypes
<1>5. sinceRecv'[e] \in Nat /\ sinceRecv'[e] =< sinceRecv[e] + 1 /\ sinceRecv[e] \in Nat
  <2>1. sinceRecv[e] \in Nat
    BY <1>1 DEF Typed
  <2>2. OldRecv \in Nat
    BY Bounds
  <2>3. sinceRecv'[e] \in {sinceRecv[e], sinceRecv[e] + 1, OldRecv}
        /\ sinceRecv'[e] =< sinceRecv[e] + 1
    BY <1>2, <2>1, <2>2 DEF Older
  <2> QED
    BY <2>1, <2>2, <2>3
<1> SUFFICES ASSUME \A d \in Ends : alive[d], up[e], fresh[e] PROVE Heard(e)'
  BY <1>2 DEF Heard
<1>8. hung[e] = {} /\ hung[p] = {}
  BY <1>1, NoneHangs
<1>6. CASE wire[p] # <<>>
  <2>1. wire'[p][1].age = wire[p][1].age + 1 /\ wire[p][1].age \in Nat
    BY <1>1, <1>8, <1>2, <1>3, <1>4, <1>6 DEF MayWait, Older, Typed
  <2>2. sinceRecv[e] =< Gap + wire[p][1].age
    BY <1>6 DEF Heard
  <2>3. sinceRecv'[e] =< Gap + wire'[p][1].age
    BY <1>1, <1>5, <2>1, <2>2
  <2> QED
    BY <1>3, <1>6, <2>3 DEF Heard
<1>7. CASE wire[p] = <<>>
  <2>1. up[p]
    BY <1>2, <1>7, <1>8 DEF MayWait
  <2>2. Silent(p)' = Silent(p) + 1
    <3>1. alive[p] /\ hpc'[p] = hpc[p]
      BY <1>1, <1>2
    <3>2. CASE hpc[p] = "asleep"
      <4>1. slept'[p] = slept[p] + 1 /\ slept[p] \in Nat
        BY <1>1, <1>2, <1>8, <2>1, <3>1, <3>2 DEF MayWait, Older, Typed
      <4> QED
        BY <3>1, <3>2, <4>1, Bounds DEF Silent
    <3>3. CASE hpc[p] # "asleep"
      <4>1. sinceNow'[p] = sinceNow[p] + 1 /\ sinceNow[p] \in Nat
        BY <1>1, <1>2, <1>8, <2>1, <3>1, <3>3 DEF MayWait, Older, Typed
      <4> QED
        BY <3>1, <3>3, <4>1, Bounds DEF Silent
    <3> QED
      BY <3>2, <3>3
  <2>3. /\ sinceRecv[e] =< Silent(p)
        /\ sinceSend[p] < OldSend => sinceRecv[e] =< sinceSend[p]
    BY <1>7, <2>1 DEF Heard
  <2>4. sinceRecv'[e] =< Silent(p)'
    BY <1>1, <1>5, <2>2, <2>3
  <2>5. sinceSend'[p] < OldSend => sinceRecv'[e] =< sinceSend'[p]
    BY <1>1, <1>2, <1>5, <2>3, Bounds DEF Older, Typed
  <2> QED
    BY <1>2, <1>3, <1>7, <2>1, <2>4, <2>5 DEF Heard
<1> QED
  BY <1>6, <1>7

\* An end takes a step of its own: e itself, or its peer.
LEMMA HeardOwn ==
  ASSUME TypeOK, TypeOK', NEW e \in Ends, Heard(e), EndStep(e)
  PROVE  Heard(e)'
<1> USE DEF thread
<1>1. PICK p \in Ends : p = Peer(e) /\ p # e
  BY EndFacts
<1>2. CASE SetTimes(e) \/ Receive(e)
  <2>1. sinceRecv'[e] = 0
    BY <1>2, TypeParts DEF SetTimes, Receive, RecvType
  <2> QED
    BY <2>1, HeardNow
<1>3. CASE PeerClosed(e) \/ Stop(e) \/ Drop(e)
  <2>1. ~(alive'[e] /\ up'[e])
    BY <1>3, TypeParts DEF PeerClosed, Stop, Drop, FlagTypes
  <2> QED
    BY <2>1 DEF Heard
<1>4. CASE SendData(e) \/ Wake(e) \/ TestRecv(e) \/ TestSend(e)
  <2>1. UNCHANGED <<alive, up, fresh, sinceRecv>>
    BY <1>4 DEF SendData, Wake, TestRecv, TestSend, Advance, Sleep
  <2>2. \/ UNCHANGED <<sinceSend, wire>>
        \/ \E t \in Senders, frame \in Frames : Send(e, t, frame, wire)
    BY <1>4 DEF SendData, Wake, TestRecv, TestSend, Advance, Senders, Frames
  <2>3. wire'[p] = wire[p] /\ sinceSend'[p] = sinceSend[p]
    BY <1>1, <2>2, Sent, TypeParts DEF WireType
  <2>4. Silent(p)' = Silent(p)
    <3>1. Same(p)
      BY <1>1, <1>4, OtherSame DEF EndStep
    <3> QED
      BY <3>1 DEF Same, Silent
  <2> QED
    BY <1>1, <2>1, <2>3, <2>4, HeardKept
<1> QED
  BY <1>2, <1>3, <1>4 DEF EndStep

LEMMA HeardPeer ==
  ASSUME TypeOK, TypeOK', NEW e \in Ends, NEW p \in Ends, p = Peer(e), Heard(e), EndStep(p)
  PROVE  Heard(e)'
<1> USE DEF thread
<1>1. p # e /\ e = Peer(p) /\ Same(e)
  BY EndFacts, OtherSame
<1>2. Typed(p) /\ Typed(e) /\ Silent(p) \in Nat
  BY TypedNext, SilentGap
<1>3. /\ up'[e] = up[e] /\ fresh'[e] = fresh[e] /\ sinceRecv'[e] = sinceRecv[e]
      /\ alive'[e] = alive[e]
  BY <1>1 DEF Same
<1>4. (\A d \in Ends : alive'[d]) => \A d \in Ends : alive[d]
  BY TypeParts DEF EndStep, SetTimes, SendData, Receive, PeerClosed, Stop, Wake, TestRecv,
                   TestSend, Drop, Advance, Sleep, FlagTypes
<1>5. ASSUME NEW t \in Senders, NEW frame \in Frames, Send(p, t, frame, wire)
      PROVE  Heard(e)'
  <2>1. Hangs(p) => ~alive[e]
    BY <1>1 DEF Hangs, TypeOK
  <2>2. up[e] /\ alive[e] => Added(wire[p], wire'[p])
    BY <1>1, <1>5, <2>1, Sent, TypeParts DEF WireType
  <2> QED
    BY <1>3, <1>4, <2>2, HeardSent
<1>6. CASE SetTimes(p) \/ SendData(p)
  <2>1. PICK frame \in Frames : Send(p, "app", frame, wire) /\ "app" \in Senders
    BY <1>6 DEF SetTimes, SendData, Frames, Senders
  <2> QED
    BY <1>5, <2>1
<1>7. CASE Receive(p)
  <2>1. Silent(p)' = Silent(p) /\ up' = up
    BY <1>7 DEF Receive, Silent
  <2>2. CASE wire'[p] = wire[p] /\ sinceSend'[p] = sinceSend[p]
    BY <1>3, <1>4, <2>1, <2>2, HeardKept
  <2>3. CASE ~(up[e] /\ alive[e])
    BY <1>3, <2>3 DEF Heard
  <2>4. CASE Added(wire[p], wire'[p])
    BY <1>3, <1>4, <2>4, HeardSent
  <2> QED
    BY <1>1, <1>7, <2>2, <2>3, <2>4, Received
<1>8. CASE PeerClosed(p) \/ Stop(p) \/ Drop(p)
  <2>1. UNCHANGED <<wire, sinceSend>>
    BY <1>8 DEF PeerClosed, Stop, Drop
  <2>2. CASE Stop(p)
    <3>1. ~alive'[p]
      BY <2>2, TypeParts DEF Stop, FlagTypes
    <3> QED
      BY <3>1 DEF Heard
  <2>3. CASE PeerClosed(p) \/ Drop(p)
    <3>1. ~up'[p]
      BY <2>3, TypeParts DEF PeerClosed, Drop, FlagTypes
    <3> QED
      BY <1>3, <1>4, <2>1, <3>1, HeardKept
  <2> QED
    BY <1>8, <2>2, <2>3
<1>9. CASE Wake(p) \/ TestRecv(p)
  <2>1. UNCHANGED <<wire, sinceSend, up>>
    BY <1>9 DEF Wake, TestRecv, Advance
  <2>2. Silent(p)' >= Silent(p)
    <3>1. CASE Wake(p)
      <4>1. hpc[p] = "asleep" /\ hpc'[p] = "test_recv" /\ sinceNow'[p] = 0
        BY <3>1, TypeParts DEF Wake, ThreadTypes
      <4> QED
        BY <1>2, <4>1, Bounds DEF Silent, Typed
    <3>2. CASE TestRecv(p)
      <4>1. hpc[p] # "asleep" /\ hpc'[p] # "asleep" /\ sinceNow' = sinceNow
        BY <3>2, TypeParts DEF TestRecv, Advance, ThreadTypes
      <4> QED
        BY <1>2, <4>1, Bounds DEF Silent, Typed
    <3> QED
      BY <1>9, <3>1, <3>2
  <2>3. sinceRecv[e] =< Silent(p) => sinceRecv[e] =< Silent(p)'
    <3>1. Silent(p)' \in Nat
      BY TypedNext, SilentGap
    <3> QED
      BY <1>2, <2>2, <3>1 DEF Typed
  <2> QED
    BY <1>3, <1>4, <2>1, <2>3, HeardKept
<1>10. CASE TestSend(p)
  <2>1. UNCHANGED <<up, alive, slept>>
    BY <1>10 DEF TestSend, Sleep
  <2>2. CASE up[p] /\ Exceeds(p, sinceSend[p], Interval)
    BY <1>5, <1>10, <2>2 DEF TestSend, Frames, Senders
  <2>3. CASE ~(up[p] /\ Exceeds(p, sinceSend[p], Interval))
    <3>1. UNCHANGED <<sinceSend, wire>> /\ hpc'[p] = "asleep"
      BY <1>10, <2>3, TypeParts DEF TestSend, Sleep, ThreadTypes
    <3>2. up'[p] => sinceSend[p] =< Interval + Lag /\ sinceSend[p] < OldSend
      <4>1. /\ sinceSend[p] \in Nat /\ sinceNow[p] \in Nat /\ sinceNow[p] =< Lag
            /\ up'[p] => ~Exceeds(p, sinceSend[p], Interval)
        BY <1>2, <2>1, <2>3 DEF Typed
      <4> QED
        BY <4>1, Bounds DEF Exceeds
    <3>3. Silent(p)' = Interval + Lag + slept[p]
      BY <2>1, <3>1 DEF Silent
    <3>4. up'[p] /\ (sinceSend[p] < OldSend => sinceRecv[e] =< sinceSend[p])
            => sinceRecv[e] =< Silent(p)'
      <4>1. slept[p] \in Nat /\ sinceRecv[e] \in Nat /\ sinceSend[p] \in Nat
        BY <1>2 DEF Typed
      <4> QED
        BY <3>2, <3>3, <4>1, Bounds
    <3> QED
      BY <1>3, <1>4, <2>1, <3>1, <3>4, HeardKept
  <2> QED
    BY <2>2, <2>3
<1> QED
  BY <1>6, <1>7, <1>8, <1>9, <1>10 DEF EndStep

LEMMA HeardStep ==
  ASSUME TypeOK, TypeOK', [Next]_vars, NEW e \in Ends, Heard(e)
  PROVE  Heard(e)'
<1>1. CASE UNCHANGED vars
  BY <1>1 DEF vars, thread, Heard, Silent
<1>2. ASSUME NEW a \in Ends, EndStep(a) PROVE Heard(e)'
  BY <1>2, EndFacts, HeardOwn, HeardPeer
<1> QED
  BY <1>1, <1>2, HeardTick DEF Next, EndStep

\* A test of lastRecvTime at a time all ends have run never fails for silence.
LEMMA NotLateStep ==
  ASSUME TypeOK, TypeOK', [Next]_vars, NEW e \in Ends, Heard(e), NotLate(e)
  PROVE  NotLate(e)'
<1> SUFFICES ASSUME RoomForHeartbeats, \A d \in Ends : alive'[d]
             PROVE  why'[e] # "late" /\ (hpc'[e] = "late" => ~up'[e])
  BY DEF NotLate, RoomForHeartbeats
<1> USE DEF thread
<1>1. CASE Tick \/ UNCHANGED vars
  BY <1>1 DEF Tick, vars, NotLate
<1>2. ASSUME NEW a \in Ends, EndStep(a)
      PROVE  why'[e] # "late" /\ (hpc'[e] = "late" => ~up'[e])
  <2>1. \A d \in Ends : alive[d]
    BY <1>2, TypeParts DEF EndStep, SetTimes, SendData, Receive, PeerClosed, Stop, Wake, TestRecv,
                           TestSend, Drop, Advance, Sleep, FlagTypes
  <2>2. why[e] # "late" /\ (hpc[e] = "late" => ~up[e])
    BY <2>1 DEF NotLate
  <2>3. CASE a # e
    <3>1. Same(e)
      BY <1>2, <2>3, OtherSame
    <3> QED
      BY <2>2, <3>1 DEF Same
  <2>4. CASE SetTimes(e) \/ SendData(e) \/ Receive(e) \/ Stop(e)
    BY <2>2, <2>4 DEF SetTimes, SendData, Receive, Stop
  <2>5. CASE PeerClosed(e)
    BY <2>5, TypeParts DEF PeerClosed, FlagTypes
  <2>6. CASE Wake(e) \/ TestSend(e)
    <3>1. UNCHANGED <<why, up>> /\ hpc'[e] \in {"test_recv", "test_send", "asleep"}
      BY <2>6, TypeParts DEF Wake, TestSend, Sleep, ThreadTypes
    <3> QED
      BY <2>2, <3>1
  <2>7. CASE Drop(e)
    <3>1. hpc'[e] = "asleep" /\ why'[e] = IF up[e] THEN hpc[e] ELSE why[e]
      BY <2>7, TypeParts DEF Drop, ThreadTypes, FlagTypes
    <3> QED
      BY <2>2, <3>1
  <2>8. CASE TestRecv(e)
    <3>1. UNCHANGED <<why, up>>
      BY <2>8 DEF TestRecv, Advance
    <3>2. ASSUME hpc'[e] = "late", up[e] PROVE FALSE
      <4>1. /\ Exceeds(e, sinceRecv[e], Timeout) /\ fresh[e]
            /\ ~(sinceRecv[e] < sinceNow[e])
        BY <2>8, <3>2, TypeParts DEF TestRecv, Advance, ThreadTypes
      <4>2. PICK p \in Ends : p = Peer(e)
        BY EndFacts
      <4>3. /\ Typed(e) /\ Typed(p) /\ Silent(p) \in Nat /\ Silent(p) =< Gap
            /\ Gap \in Nat
        BY Bounds, TypedNext, SilentGap DEF Gap
      <4>4. sinceRecv[e] =< Gap + Delay
        <5>1. CASE wire[p] = <<>>
          <6>1. sinceRecv[e] =< IF up[p] THEN Silent(p) ELSE Gap
            BY <2>1, <3>2, <4>1, <4>2, <5>1 DEF Heard
          <6>2. sinceRecv[e] \in Nat
            BY <4>3 DEF Typed
          <6> QED
            BY <4>3, <6>1, <6>2, Bounds
        <5>2. CASE wire[p] # <<>>
          <6>1. sinceRecv[e] =< Gap + wire[p][1].age
            BY <2>1, <3>2, <4>1, <4>2, <5>2 DEF Heard
          <6>2. wire[p][1].age \in Nat /\ wire[p][1].age =< Delay
            BY <4>3, <5>2 DEF Typed
          <6>3. sinceRecv[e] \in Nat
            BY <4>3 DEF Typed
          <6> QED
            BY <4>3, <6>1, <6>2, <6>3, Bounds
        <5> QED
          BY <5>1, <5>2
      <4>5. sinceRecv[e] \in Nat /\ sinceNow[e] \in Nat /\ sinceNow[e] =< Lag
        BY <4>3 DEF Typed
      <4>6. sinceRecv[e] - sinceNow[e] > Timeout
        BY <4>1, <4>5 DEF Exceeds
      <4>7. Timeout >= 2 * Interval + 3 * Lag + Delay
        BY DEF RoomForHeartbeats
      <4> QED
        BY <4>4, <4>5, <4>6, <4>7, Bounds DEF Gap
    <3> QED
      BY <2>2, <3>1, <3>2
  <2> QED
    BY <1>2, <2>3, <2>4, <2>5, <2>6, <2>7, <2>8 DEF EndStep
<1> QED
  BY <1>1, <1>2 DEF Next, EndStep

\* With room for two heartbeats in the time-out, an end that runs is given up as
\* silent by no end that runs: what is not noticed late is sent in time.
THEOREM HeartbeatLiveConnectionStays == Spec => []LiveConnectionStays
<1> DEFINE Inv == \A e \in Ends : Heard(e) /\ NotLate(e)
<1>1. Init => Inv
  BY DEF Init, Heard, NotLate
<1>2. TypeOK /\ TypeOK' /\ Inv /\ [Next]_vars => Inv'
  BY HeardStep, NotLateStep
<1>3. Inv => LiveConnectionStays
  BY DEF NotLate, LiveConnectionStays
<1> HIDE DEF Inv
<1> QED
  BY <1>1, <1>2, <1>3, HeartbeatTypeCorrect, PTL DEF Spec
=============================================================================
