---------------------------- MODULE IpcSessionProofs ----------------------------
(* Proofs about IpcSession, for any number of connections, messages, server   *)
(* restarts and client processes.                                             *)
EXTENDS IpcSession, TLAPS

-----------------------------------------------------------------------------
(* Frames in the connections                                                 *)

\* The frames and the ends, spelled out once.
LEMMA EndFacts ==
  /\ "server" \in Ends /\ "client" \in Ends
  /\ \A e \in Ends : Peer(e) \in Ends /\ Peer(e) # e /\ Peer(Peer(e)) = e
  /\ \A e \in Ends : e = "server" \/ e = "client"
BY DEF Ends, Peer

LEMMA ControlTypes ==
  /\ \A n \in Nat : Control("ACK", n) \in Frame /\ Control("DISC", n) \in Frame
  /\ NoFrame.type = "none"
BY DEF Control, Frame, NoFrame

\* A frame that is written comes last in one connection, and all else stays.
LEMMA Posted ==
  ASSUME TypeOK, NEW c \in Conns, NEW e \in Ends, NEW f \in Frame, chan' = Post(c, e, f)
  PROVE  /\ chan' \in [Conns -> [Ends -> Seq(Frame)]]
         /\ chan'[c][e] # <<>>
         /\ \A d \in Conns, g \in Ends : d # c \/ g # e => chan'[d][g] = chan[d][g]
         /\ \A i \in DOMAIN chan'[c][e] :
               \/ i \in DOMAIN chan[c][e] /\ chan'[c][e][i] = chan[c][e][i]
               \/ chan'[c][e][i] = f /\ \A j \in DOMAIN chan'[c][e] : j =< i
<1>1. chan \in [Conns -> [Ends -> Seq(Frame)]]
  BY DEF TypeOK
<1>2. chan' = [chan EXCEPT ![c] = [chan[c] EXCEPT ![e] = Append(chan[c][e], f)]]
  BY DEF Post
<1> DEFINE s == chan[c][e]
<1>3. s \in Seq(Frame)
  BY <1>1
<1>4. /\ Append(s, f) \in Seq(Frame) /\ Append(s, f) # <<>>
      /\ \A i \in DOMAIN Append(s, f) :
           \/ i \in DOMAIN s /\ Append(s, f)[i] = s[i]
           \/ Append(s, f)[i] = f /\ \A j \in DOMAIN Append(s, f) : j =< i
  <2> HIDE DEF s
  <2> QED
    BY <1>3
<1>5. chan'[c][e] = Append(s, f)
  BY <1>1, <1>2
<1>6. chan' \in [Conns -> [Ends -> Seq(Frame)]]
  BY <1>1, <1>2, <1>4
<1>7. \A d \in Conns, g \in Ends : d # c \/ g # e => chan'[d][g] = chan[d][g]
  BY <1>1, <1>2
<1> QED
  BY <1>4, <1>5, <1>6, <1>7

\* The first frame of one connection was taken, and all else stays.
Shifted(c, e) ==
  /\ 1 \in DOMAIN chan[c][e] /\ Head(chan[c][e]) = chan[c][e][1]
  /\ \A d \in Conns, g \in Ends : d # c \/ g # e => chan'[d][g] = chan[d][g]
  /\ \A i \in DOMAIN chan'[c][e] :
        i \in Nat \ {0} /\ i + 1 \in DOMAIN chan[c][e]
        /\ chan'[c][e][i] = chan[c][e][i + 1]

\* That is what reading does.
LEMMA Taken ==
  ASSUME TypeOK, NEW c \in Conns, NEW e \in Ends, chan[c][e] # <<>>,
         chan' = [chan EXCEPT ![c][e] = Tail(@)]
  PROVE  /\ chan' \in [Conns -> [Ends -> Seq(Frame)]]
         /\ Head(chan[c][e]) \in Frame
         /\ Shifted(c, e)
<1>1. chan \in [Conns -> [Ends -> Seq(Frame)]]
  BY DEF TypeOK
<1>2. chan' = [chan EXCEPT ![c] = [chan[c] EXCEPT ![e] = Tail(chan[c][e])]]
  OBVIOUS
<1> DEFINE s == chan[c][e]
<1>3. s \in Seq(Frame) /\ s # <<>>
  BY <1>1
<1>4. /\ Tail(s) \in Seq(Frame) /\ 1 \in DOMAIN s /\ Head(s) = s[1] /\ Head(s) \in Frame
      /\ \A i \in DOMAIN Tail(s) :
            i \in Nat \ {0} /\ i + 1 \in DOMAIN s /\ Tail(s)[i] = s[i + 1]
  <2> HIDE DEF s
  <2> QED
    BY <1>3
<1>5. chan'[c][e] = Tail(s)
  BY <1>1, <1>2
<1>6. chan' \in [Conns -> [Ends -> Seq(Frame)]]
  BY <1>1, <1>2, <1>4
<1>7. \A d \in Conns, g \in Ends : d # c \/ g # e => chan'[d][g] = chan[d][g]
  BY <1>1, <1>2
<1> QED
  BY <1>4, <1>5, <1>6, <1>7 DEF Shifted

\* SendMessageInternal writes to the connection of the context, or not at all.
LEMMA Replied ==
  ASSUME TypeOK, NEW e \in Ends, NEW f \in Frame, Reply(e, f)
  PROVE  \/ chan' = chan
         \/ /\ link[e] \in Conns /\ Peer(e) \in Ends
            /\ EndOpen(link[e], Peer(e)) /\ chan' = Post(link[e], Peer(e), f)
<1>1. CASE ~CanSend(e)
  BY <1>1 DEF Reply
<1>2. CASE CanSend(e)
  <2>1. link[e] \in 0 .. MaxConn /\ link[e] # 0 /\ EndOpen(link[e], Peer(e))
    BY <1>2 DEF CanSend, TypeOK
  <2>2. link[e] \in Conns
    BY <2>1, BoundAssumption DEF Conns
  <2> QED
    BY <1>2, <2>1, <2>2, EndFacts DEF Reply
<1> QED
  BY <1>1, <1>2

\* The listen queue, when it grows and when a connection is accepted.
LEMMA Backlog ==
  ASSUME NEW s \in Seq(Conns)
  PROVE  /\ \A i \in DOMAIN s : s[i] \in Conns /\ s[i] \in Nat
         /\ \A c \in Conns :
              /\ Append(s, c) \in Seq(Conns)
              /\ \A i \in DOMAIN Append(s, c) :
                   \/ i \in DOMAIN s /\ Append(s, c)[i] = s[i]
                   \/ Append(s, c)[i] = c /\ \A j \in DOMAIN Append(s, c) : j =< i
         /\ s # <<>> => /\ Head(s) \in Conns /\ Tail(s) \in Seq(Conns)
                        /\ 1 \in DOMAIN s /\ Head(s) = s[1]
                        /\ \A i \in DOMAIN Tail(s) :
                             i \in Nat \ {0} /\ i + 1 \in DOMAIN s /\ Tail(s)[i] = s[i + 1]
<1>1. \A i \in DOMAIN s : s[i] \in Conns
  OBVIOUS
<1>2. Conns \subseteq Nat
  BY DEF Conns
<1>3. \A c \in Conns :
         /\ Append(s, c) \in Seq(Conns)
         /\ \A i \in DOMAIN Append(s, c) :
              \/ i \in DOMAIN s /\ Append(s, c)[i] = s[i]
              \/ Append(s, c)[i] = c /\ \A j \in DOMAIN Append(s, c) : j =< i
  OBVIOUS
<1>4. s # <<>> => /\ Head(s) \in Conns /\ Tail(s) \in Seq(Conns)
                  /\ 1 \in DOMAIN s /\ Head(s) = s[1]
                  /\ \A i \in DOMAIN Tail(s) :
                       i \in Nat \ {0} /\ i + 1 \in DOMAIN s /\ Tail(s)[i] = s[i + 1]
  OBVIOUS
<1> QED
  BY <1>1, <1>2, <1>3, <1>4

-----------------------------------------------------------------------------
(* Types                                                                     *)

\* The type invariant in parts: the sockets, the context, the receive thread and
\* the calls of each end.
SockTypes ==
  /\ epoch \in 0 .. MaxConn /\ backlog \in Seq(Conns) /\ listening \in BOOLEAN
  /\ restarts \in 0 .. MaxRestarts /\ replaced \in 0 .. MaxReplaced
ChanType == chan \in [Conns -> [Ends -> Seq(Frame)]]
LinkTypes == link \in [Ends -> 0 .. MaxConn] /\ up \in [Ends -> BOOLEAN]
SeqTypes == nextSeq \in [Ends -> Nat \ {0}] /\ expectedSeq \in [Ends -> Nat \ {0}]
RecvTypes ==
  /\ reading \in [Ends -> 0 .. MaxConn] /\ hand \in [Ends -> Frame \cup {NoFrame}]
  /\ failed \in [Ends -> BOOLEAN]
PendType == pend \in [Ends -> [seq : Nat, id : Nat, acked : BOOLEAN]]
HistTypes ==
  /\ count \in [Ends -> Nat] /\ delivered \in [Ends -> Seq(Nat)]
  /\ confirmed \in [Ends -> SUBSET Nat]

\* ... in a state and in the next.
LEMMA TypeParts ==
  /\ TypeOK <=> /\ SockTypes /\ ChanType /\ LinkTypes /\ SeqTypes
                /\ RecvTypes /\ PendType /\ HistTypes
  /\ TypeOK' <=> /\ SockTypes' /\ ChanType' /\ LinkTypes' /\ SeqTypes'
                 /\ RecvTypes' /\ PendType' /\ HistTypes'
BY DEF TypeOK, SockTypes, ChanType, LinkTypes, SeqTypes, RecvTypes, PendType, HistTypes

\* What an action leaves alone keeps its type.
LEMMA TypesKept ==
  /\ SockTypes /\ UNCHANGED <<epoch, backlog, listening, restarts, replaced>> => SockTypes'
  /\ ChanType /\ UNCHANGED chan => ChanType'
  /\ LinkTypes /\ UNCHANGED <<link, up>> => LinkTypes'
  /\ SeqTypes /\ UNCHANGED <<nextSeq, expectedSeq>> => SeqTypes'
  /\ RecvTypes /\ UNCHANGED <<reading, hand, failed>> => RecvTypes'
  /\ PendType /\ UNCHANGED pend => PendType'
  /\ HistTypes /\ UNCHANGED <<count, delivered, confirmed>> => HistTypes'
BY DEF SockTypes, ChanType, LinkTypes, SeqTypes, RecvTypes, PendType, HistTypes

\* An end without a connection.
LEMMA Unlinked ==
  ASSUME LinkTypes, NEW e \in Ends,
         link' = [link EXCEPT ![e] = 0], up' = [up EXCEPT ![e] = FALSE]
  PROVE  LinkTypes'
<1>1. 0 \in 0 .. MaxConn
  BY BoundAssumption
<1> QED
  BY <1>1 DEF LinkTypes

\* The end of a process keeps the types of its context.
LEMMA ForgetTypes ==
  ASSUME TypeOK, NEW e \in Ends, Forget(e)
  PROVE  LinkTypes' /\ SeqTypes' /\ RecvTypes' /\ PendType'
<1>1. 0 \in 0 .. MaxConn
  BY BoundAssumption
<1>2. LinkTypes'
  BY TypeParts, Unlinked DEF Forget
<1>3. SeqTypes'
  BY TypeParts DEF Forget, FirstSeq, SeqTypes
<1>4. RecvTypes'
  BY <1>1, TypeParts DEF Forget, RecvTypes
<1>5. NoWait \in [seq : Nat, id : Nat, acked : BOOLEAN]
  BY DEF NoWait
<1>6. PendType'
  BY <1>5, TypeParts DEF Forget, PendType
<1> QED
  BY <1>2, <1>3, <1>4, <1>6

\* A frame that is answered or announced keeps the type of the connections.
LEMMA ReplyTypes ==
  ASSUME TypeOK, NEW e \in Ends, NEW f \in Frame, Reply(e, f)
  PROVE  ChanType'
<1>1. CASE chan' = chan
  BY <1>1, TypeParts, TypesKept
<1>2. CASE link[e] \in Conns /\ Peer(e) \in Ends /\ chan' = Post(link[e], Peer(e), f)
  BY <1>2, Posted DEF ChanType
<1> QED
  BY <1>1, <1>2, Replied

\* What is handled is a frame.
LEMMA InHand ==
  ASSUME TypeOK, NEW e \in Ends, hand[e].type \in {"DATA", "ACK", "DISC"}
  PROVE  hand[e] \in Frame /\ hand[e].seq \in Nat /\ hand[e].id \in Nat
<1>1. hand[e] \in Frame \cup {NoFrame}
  BY TypeParts DEF RecvTypes
<1>2. hand[e] # NoFrame
  BY ControlTypes
<1> QED
  BY <1>1, <1>2 DEF Frame

\* Every variable keeps its type.
THEOREM SessionTypeCorrect == Spec => []TypeOK
<1>1. Init => TypeOK
  <2> SUFFICES ASSUME Init PROVE TypeOK
    OBVIOUS
  <2>1. 0 \in 0 .. MaxConn /\ 0 \in 0 .. MaxRestarts /\ 0 \in 0 .. MaxReplaced
    BY BoundAssumption
  <2>2. SockTypes /\ LinkTypes /\ SeqTypes /\ RecvTypes
    BY <2>1 DEF Init, SockTypes, LinkTypes, SeqTypes, RecvTypes, FirstSeq
  <2>3. ChanType /\ HistTypes
    BY DEF Init, ChanType, HistTypes
  <2>4. PendType
    BY DEF Init, PendType, NoWait
  <2> QED
    BY <2>2, <2>3, <2>4, TypeParts
<1>2. TypeOK /\ [Next]_vars => TypeOK'
  <2> SUFFICES ASSUME TypeOK, [Next]_vars PROVE TypeOK'
    OBVIOUS
  <2> USE TypeParts, TypesKept DEF sockVars, ctxVars, recvVars, sendVars
  <2>1. CASE ClientConnect
    <3>1. epoch + 1 \in Conns /\ epoch + 1 \in 0 .. MaxConn
      BY <2>1, BoundAssumption DEF ClientConnect, SockTypes, Conns
    <3>2. SockTypes'
      BY <2>1, <3>1, Backlog DEF ClientConnect, SockTypes
    <3>3. LinkTypes'
      BY <2>1, <3>1 DEF ClientConnect, LinkTypes
    <3> QED
      BY <2>1, <3>2, <3>3 DEF ClientConnect
  <2>2. CASE ServerAccept
    <3>1. Head(backlog) \in Conns /\ backlog' \in Seq(Conns)
      BY <2>2, Backlog DEF ServerAccept, SockTypes
    <3>2. Head(backlog) \in 0 .. MaxConn
      BY <3>1 DEF Conns
    <3>3. SockTypes'
      BY <2>2, <3>1 DEF ServerAccept, SockTypes
    <3>4. LinkTypes'
      BY <2>2, <3>2 DEF ServerAccept, LinkTypes
    <3>5. SeqTypes'
      BY <2>2 DEF ServerAccept, SeqTypes, FirstSeq
    <3> QED
      BY <2>2, <3>3, <3>4, <3>5 DEF ServerAccept
  <2>3. CASE ClientDisconnect
    <3>1. ChanType'
      BY <2>3, ControlTypes, EndFacts, ReplyTypes DEF ClientDisconnect
    <3>2. LinkTypes'
      BY <2>3, EndFacts, Unlinked DEF ClientDisconnect
    <3> QED
      BY <2>3, <3>1, <3>2 DEF ClientDisconnect
  <2>4. CASE ServerStop
    <3>1. ChanType'
      BY <2>4, ControlTypes, EndFacts, ReplyTypes DEF ServerStop
    <3>2. SockTypes'
      <4>1. backlog' = <<>> /\ ~listening' /\ listening' \in BOOLEAN
        BY <2>4 DEF ServerStop
      <4>2. UNCHANGED <<epoch, restarts, replaced>>
        BY <2>4 DEF ServerStop
      <4> QED
        BY <4>1, <4>2 DEF SockTypes
    <3> QED
      BY <2>4, <3>1, <3>2, EndFacts, ForgetTypes DEF ServerStop
  <2>5. CASE ServerStart
    <3>1. SockTypes'
      BY <2>5, BoundAssumption DEF ServerStart, SockTypes
    <3> QED
      BY <2>5, <3>1 DEF ServerStart
  <2>6. CASE ClientRestart
    <3>1. SockTypes'
      BY <2>6, BoundAssumption DEF ClientRestart, SockTypes
    <3> QED
      BY <2>6, <3>1, EndFacts, ForgetTypes DEF ClientRestart
  <2>7. CASE RecvTimeout
    <3>1. RecvTypes'
      BY <2>7, BoundAssumption DEF RecvTimeout, RecvTypes
    <3> QED
      BY <2>7, <3>1 DEF RecvTimeout
  <2>8. ASSUME NEW e \in Ends, HeartbeatTimeout(e) PROVE TypeOK'
    <3>1. LinkTypes'
      BY <2>8, Unlinked DEF HeartbeatTimeout
    <3> QED
      BY <2>8, <3>1 DEF HeartbeatTimeout
  <2>9. ASSUME NEW e \in Ends, Send(e) PROVE TypeOK'
    <3> DEFINE f == [type |-> "DATA", seq |-> nextSeq[e], id |-> count[e] + 1]
    <3>1. nextSeq[e] \in Nat /\ count[e] \in Nat /\ count[e] + 1 \in Nat
      <4>1. count \in [Ends -> Nat] /\ nextSeq \in [Ends -> Nat \ {0}]
        BY DEF SeqTypes, HistTypes
      <4> QED
        BY <4>1
    <3>2. f \in Frame /\ f.seq \in Nat /\ f.id \in Nat
      BY <3>1 DEF Frame
    <3>3. \/ UNCHANGED <<chan, pend>>
          \/ /\ Reply(e, f)
             /\ pend' = [pend EXCEPT ![e] = [seq |-> f.seq, id |-> f.id, acked |-> FALSE]]
      BY <2>9 DEF Send, Reply
    <3> HIDE DEF f
    <3>4. ChanType'
      BY <3>2, <3>3, ReplyTypes
    <3>5. PendType'
      <4>1. [seq |-> f.seq, id |-> f.id, acked |-> FALSE] \in [seq : Nat, id : Nat, acked : BOOLEAN]
        BY <3>2
      <4> QED
        BY <3>3, <4>1 DEF PendType
    <3>6. SeqTypes'
      BY <2>9 DEF Send, SeqTypes
    <3>7. HistTypes'
      BY <2>9 DEF Send, HistTypes
    <3> QED
      BY <2>9, <3>4, <3>5, <3>6, <3>7 DEF Send
  <2>10. ASSUME NEW e \in Ends, SendReturn(e) PROVE TypeOK'
    <3>1. PendType'
      BY <2>10 DEF SendReturn, PendType, NoWait
    <3>2. HistTypes'
      <4>1. pend[e].id \in Nat
        BY DEF PendType
      <4> QED
        BY <2>10, <4>1 DEF SendReturn, HistTypes
    <3> QED
      BY <2>10, <3>1, <3>2 DEF SendReturn
  <2>11. ASSUME NEW e \in Ends, RecvEnter(e) PROVE TypeOK'
    <3>1. RecvTypes'
      BY <2>11 DEF RecvEnter, RecvTypes, LinkTypes
    <3> QED
      BY <2>11, <3>1 DEF RecvEnter
  <2>12. ASSUME NEW e \in Ends, RecvFrame(e) PROVE TypeOK'
    <3>1. reading[e] \in Conns
      BY <2>12 DEF RecvFrame, RecvTypes, Conns
    <3>2. ChanType' /\ Head(chan[reading[e]][e]) \in Frame
      BY <2>12, <3>1, Taken DEF RecvFrame, ChanType
    <3>3. RecvTypes'
      BY <2>12, <3>2, BoundAssumption DEF RecvFrame, RecvTypes
    <3> QED
      BY <2>12, <3>2, <3>3 DEF RecvFrame
  <2>13. ASSUME NEW e \in Ends, RecvFails(e) PROVE TypeOK'
    <3>1. RecvTypes'
      BY <2>13, BoundAssumption DEF RecvFails, RecvTypes
    <3> QED
      BY <2>13, <3>1 DEF RecvFails
  <2>14. ASSUME NEW e \in Ends, RecvDisconnect(e) PROVE TypeOK'
    <3>1. RecvTypes'
      BY <2>14 DEF RecvDisconnect, RecvTypes
    <3>2. LinkTypes'
      BY <2>14, Unlinked DEF RecvDisconnect
    <3> QED
      BY <2>14, <3>1, <3>2 DEF RecvDisconnect
  <2>15. ASSUME NEW e \in Ends, HandleMessage(e) PROVE TypeOK'
    <3>1. RecvTypes'
      BY <2>15 DEF HandleMessage, RecvTypes
    <3>2. CASE HandleData(e)
      <4>1. hand[e].seq \in Nat /\ hand[e].id \in Nat
        BY <3>2, InHand DEF HandleData
      <4>2. ChanType'
        BY <3>2, <4>1, ControlTypes, ReplyTypes DEF HandleData
      <4>3. HistTypes' /\ SeqTypes'
        <5>1. UNCHANGED <<nextSeq, count, confirmed>>
          BY <2>15 DEF HandleMessage
        <5>2. CASE Duplicate(e)
          BY <3>2, <5>1, <5>2 DEF HandleData
        <5>3. CASE ~Duplicate(e)
          <6>1. /\ expectedSeq' = [expectedSeq EXCEPT ![e] = hand[e].seq + 1]
                /\ delivered' = [delivered EXCEPT ![e] = Append(@, hand[e].id)]
            BY <3>2, <5>3 DEF HandleData
          <6>2. delivered[e] \in Seq(Nat)
            BY DEF HistTypes
          <6>3. Append(delivered[e], hand[e].id) \in Seq(Nat)
            BY <4>1, <6>2
          <6>4. HistTypes'
            BY <5>1, <6>1, <6>3 DEF HistTypes
          <6>5. SeqTypes'
            BY <4>1, <5>1, <6>1 DEF SeqTypes
          <6> QED
            BY <6>4, <6>5
        <5> QED
          BY <5>2, <5>3
      <4> QED
        BY <2>15, <3>1, <3>2, <4>2, <4>3 DEF HandleMessage, HandleData
    <3>3. CASE HandleAck(e)
      <4>1. pend[e] \in [seq : Nat, id : Nat, acked : BOOLEAN]
        BY DEF PendType
      <4>2. PendType'
        BY <3>3, <4>1 DEF HandleAck, PendType
      <4> QED
        BY <2>15, <3>1, <3>3, <4>2 DEF HandleMessage, HandleAck
    <3>4. CASE HandleDisconnect(e)
      <4>1. LinkTypes'
        BY <2>15, <3>4 DEF HandleMessage, HandleDisconnect, LinkTypes
      <4> QED
        BY <2>15, <3>1, <3>4, <4>1 DEF HandleMessage, HandleDisconnect
    <3> QED
      BY <2>15, <3>2, <3>3, <3>4 DEF HandleMessage
  <2>16. CASE UNCHANGED vars
    BY <2>16 DEF vars
  <2> QED
    BY <2>1, <2>2, <2>3, <2>4, <2>5, <2>6, <2>7, <2>8, <2>9, <2>10, <2>11, <2>12, <2>13,
       <2>14, <2>15, <2>16 DEF Next
<1> QED
  BY <1>1, <1>2, PTL DEF Spec

-----------------------------------------------------------------------------
(* The invariants                                                            *)

\* Connections are accepted in the order they are made, and the receive thread
\* of the server never has a newer one than the context.
Links ==
  /\ link["client"] \in {0, epoch} /\ link["server"] =< epoch
  /\ reading["server"] =< epoch
  /\ reading["server"] # 0 /\ link["server"] # 0 => reading["server"] =< link["server"]
  /\ \A i \in DOMAIN backlog :
       backlog[i] =< epoch /\ link["server"] < backlog[i] /\ reading["server"] < backlog[i]
  /\ \A i, j \in DOMAIN backlog : i < j => backlog[i] < backlog[j]

\* Nothing was written to a connection newer than the one an end has.
Unwritten ==
  \A c \in Conns :
     /\ c > epoch => chan[c]["server"] = <<>> /\ chan[c]["client"] = <<>>
     /\ link["server"] # 0 /\ c > link["server"] => chan[c]["client"] = <<>>
     /\ \A i \in DOMAIN backlog : c >= backlog[i] => chan[c]["client"] = <<>>

\* What is on the way to e, in its hands or delivered was sent by the peer.
Sent(e) ==
  /\ \A c \in Conns : \A i \in DOMAIN chan[c][e] :
       chan[c][e][i].type = "DATA" => chan[c][e][i].id \in 1 .. count[Peer(e)]
  /\ hand[e].type = "DATA" => hand[e].id \in 1 .. count[Peer(e)]
  /\ \A k \in DOMAIN delivered[e] : delivered[e][k] \in 1 .. count[Peer(e)]

\* The messages on the way to e are in the order they were sent in, over all
\* connections.
Sorted(e) ==
  \A c, d \in Conns : \A i \in DOMAIN chan[c][e], j \in DOMAIN chan[d][e] :
     /\ chan[c][e][i].type = "DATA" /\ chan[d][e][j].type = "DATA"
     /\ c < d \/ (c = d /\ i < j)
     => chan[c][e][i].id < chan[d][e][j].id

\* What e can still read is newer than what it has in its hands, and that is
\* newer than what was delivered.
Ahead(e) ==
  /\ \A c \in Conns : EndOpen(c, e) =>
       \A i \in DOMAIN chan[c][e] : chan[c][e][i].type = "DATA" =>
          /\ \A k \in DOMAIN delivered[e] : delivered[e][k] < chan[c][e][i].id
          /\ hand[e].type = "DATA" => hand[e].id < chan[c][e][i].id
  /\ hand[e].type = "DATA" => \A k \in DOMAIN delivered[e] : delivered[e][k] < hand[e].id

\* The deliveries at one end.
InOrder(e) == \A i, j \in DOMAIN delivered[e] : i < j => delivered[e][i] < delivered[e][j]

\* All of it at one end, and the invariant behind AtMostOnceInOrder.
EndInv(e) == Sent(e) /\ Sorted(e) /\ Ahead(e) /\ InOrder(e)
OrderInv == Links /\ Unwritten /\ \A e \in Ends : EndInv(e)

\* The frames on the way to e and in its hands.
InFlight(e) == {hand[e]} \cup UNION {Elems(chan[c][e]) : c \in Conns}

\* As long as the client process is the first, its numbers name its messages, the
\* server expects at most the number after one it delivered, and only what it
\* delivered is acknowledged.
FirstClient ==
  replaced = 0 =>
    /\ nextSeq["client"] = count["client"] + 1
    /\ \A f \in InFlight("server") : f.type = "DATA" => f.seq = f.id
    /\ pend["client"].seq = pend["client"].id
    /\ \/ expectedSeq["server"] = FirstSeq
       \/ \E n \in Elems(delivered["server"]) : expectedSeq["server"] = n + 1
    /\ \A f \in InFlight("client") : f.type = "ACK" => f.seq \in Elems(delivered["server"])
    /\ pend["client"].acked => pend["client"].id \in Elems(delivered["server"])
    /\ confirmed["client"] \subseteq Elems(delivered["server"])

-----------------------------------------------------------------------------
(* Order                                                                     *)

\* A step adds no DATA frame on the way to e, and opens no connection of e that
\* has one.
DataKept(e) ==
  \A c \in Conns : \A i \in DOMAIN chan'[c][e] :
     chan'[c][e][i].type = "DATA"
       => i \in DOMAIN chan[c][e] /\ chan'[c][e][i] = chan[c][e][i]
OpenKept(e) == \A c \in Conns : EndOpen(c, e)' => EndOpen(c, e) \/ chan[c][e] = <<>>

\* What such a step leaves of the invariant at e, if nothing is delivered or
\* taken in hand there.
LEMMA QuietEnd ==
  ASSUME NEW e \in Ends, EndInv(e), TypeOK, TypeOK', DataKept(e), OpenKept(e),
         count'[Peer(e)] >= count[Peer(e)], delivered'[e] = delivered[e],
         hand'[e].type = "DATA" => hand'[e] = hand[e]
  PROVE  EndInv(e)'
<1> count[Peer(e)] \in Nat /\ count'[Peer(e)] \in Nat
  BY EndFacts DEF TypeOK
<1>1. Sent(e)'
  BY DEF EndInv, Sent, DataKept
<1>2. Sorted(e)'
  BY DEF EndInv, Sorted, DataKept
<1>3. Ahead(e)'
  BY DEF EndInv, Ahead, DataKept, OpenKept
<1>4. InOrder(e)'
  BY DEF EndInv, InOrder
<1> QED
  BY <1>1, <1>2, <1>3, <1>4 DEF EndInv

\* Control frames and silence add no DATA frame.
LEMMA ControlKept ==
  ASSUME TypeOK, NEW g \in Ends, NEW f \in Frame, f.type # "DATA",
         UNCHANGED chan \/ Reply(g, f), NEW e \in Ends
  PROVE  DataKept(e)
<1>1. CASE UNCHANGED chan
  BY <1>1 DEF DataKept
<1>2. CASE link[g] \in Conns /\ Peer(g) \in Ends /\ chan' = Post(link[g], Peer(g), f)
  <2>1. \A d \in Conns, h \in Ends : d # link[g] \/ h # Peer(g) => chan'[d][h] = chan[d][h]
    BY <1>2, Posted
  <2>2. \A i \in DOMAIN chan'[link[g]][Peer(g)] :
           \/ /\ i \in DOMAIN chan[link[g]][Peer(g)]
              /\ chan'[link[g]][Peer(g)][i] = chan[link[g]][Peer(g)][i]
           \/ chan'[link[g]][Peer(g)][i] = f
    BY <1>2, Posted
  <2>3. ASSUME NEW d \in Conns, NEW i \in DOMAIN chan'[d][e], chan'[d][e][i].type = "DATA"
        PROVE  i \in DOMAIN chan[d][e] /\ chan'[d][e][i] = chan[d][e][i]
    <3>1. CASE d = link[g] /\ e = Peer(g)
      BY <2>2, <2>3, <3>1
    <3>2. CASE d # link[g] \/ e # Peer(g)
      BY <2>1, <2>3, <3>2
    <3> QED
      BY <3>1, <3>2
  <2> QED
    BY <2>3 DEF DataKept
<1> QED
  BY <1>1, <1>2, Replied

\* Whatever is written goes to the newest connection an end has had.
LEMMA WrittenOld ==
  ASSUME TypeOK, Links, Unwritten, NEW g \in Ends, NEW f \in Frame,
         UNCHANGED chan \/ Reply(g, f)
  PROVE  \A c \in Conns :
           /\ c > epoch => chan'[c]["server"] = <<>> /\ chan'[c]["client"] = <<>>
           /\ link["server"] # 0 /\ c > link["server"] => chan'[c]["client"] = <<>>
           /\ \A i \in DOMAIN backlog : c >= backlog[i] => chan'[c]["client"] = <<>>
<1>1. CASE UNCHANGED chan
  BY <1>1 DEF Unwritten
<1>2. CASE /\ link[g] \in Conns /\ Peer(g) \in Ends
           /\ chan' = Post(link[g], Peer(g), f)
  <2>1. \A d \in Conns, h \in Ends : d # link[g] \/ h # Peer(g) => chan'[d][h] = chan[d][h]
    BY <1>2, Posted
  <2>2. link[g] =< epoch /\ link[g] \in Nat \ {0} /\ epoch \in Nat
    <3>1. epoch \in Nat /\ link[g] \in Nat \ {0}
      BY <1>2, BoundAssumption DEF Conns, TypeOK
    <3>2. link["client"] =< epoch \/ link["client"] = 0
      BY <3>1 DEF Links
    <3>3. link["server"] =< epoch
      BY DEF Links
    <3> QED
      BY <3>1, <3>2, <3>3, EndFacts
  <2>3. ASSUME NEW c \in Conns, c > epoch
        PROVE  chan'[c]["server"] = <<>> /\ chan'[c]["client"] = <<>>
    BY <2>1, <2>2, <2>3, EndFacts DEF Unwritten, Conns
  <2>4. ASSUME NEW c \in Conns, link["server"] # 0, c > link["server"]
        PROVE  chan'[c]["client"] = <<>>
    <3>1. c # link[g] \/ Peer(g) # "client"
      BY <2>2, <2>4, EndFacts DEF Peer
    <3> QED
      BY <2>1, <2>4, <3>1, EndFacts DEF Unwritten
  <2>5. ASSUME NEW c \in Conns, NEW i \in DOMAIN backlog, c >= backlog[i]
        PROVE  chan'[c]["client"] = <<>>
    <3>1. c # link[g] \/ Peer(g) # "client"
      <4>1. backlog[i] \in Nat /\ c \in Nat
        BY Backlog DEF TypeOK, Conns
      <4> QED
        BY <2>2, <2>5, <4>1, EndFacts DEF Peer, Links
    <3> QED
      BY <2>1, <2>5, <3>1, EndFacts DEF Unwritten
  <2> QED
    BY <2>3, <2>4, <2>5
<1> QED
  BY <1>1, <1>2, Replied

\* A connection is made.
LEMMA ConnectOrder ==
  ASSUME TypeOK, TypeOK', OrderInv, ClientConnect
  PROVE  OrderInv'
<1> DEFINE c == epoch + 1
<1>1. /\ c \in Conns /\ c \in Nat /\ epoch \in Nat /\ epoch' = c /\ c > epoch
      /\ backlog' = Append(backlog, c) /\ backlog \in Seq(Conns)
      /\ link' = [link EXCEPT !["client"] = c] /\ UNCHANGED <<chan, reading>>
      /\ link["server"] \in Nat /\ reading["server"] \in Nat
  BY EndFacts, BoundAssumption DEF ClientConnect, recvVars, TypeOK, Conns
<1> HIDE DEF c
<1>2. link'["client"] = c /\ link'["server"] = link["server"]
  BY <1>1, EndFacts DEF TypeOK
<1>3. \A i \in DOMAIN backlog : backlog[i] \in Nat
  BY <1>1, Backlog
<1>4. \A i \in DOMAIN backlog' :
         \/ i \in DOMAIN backlog /\ backlog'[i] = backlog[i]
         \/ backlog'[i] = c /\ \A j \in DOMAIN backlog' : j =< i
  BY <1>1, Backlog
<1>5. DOMAIN backlog' \subseteq Nat
  BY <1>1
<1>6. Links'
  <2>1. \A i \in DOMAIN backlog' :
          backlog'[i] =< epoch' /\ link'["server"] < backlog'[i] /\ reading'["server"] < backlog'[i]
    BY <1>1, <1>2, <1>3, <1>4 DEF OrderInv, Links
  <2>2. \A i, j \in DOMAIN backlog' : i < j => backlog'[i] < backlog'[j]
    BY <1>1, <1>3, <1>4, <1>5 DEF OrderInv, Links
  <2> QED
    BY <1>1, <1>2, <2>1, <2>2 DEF OrderInv, Links
<1>7. Unwritten'
  <2> USE DEF Conns
  <2> QED
    BY <1>1, <1>2, <1>4 DEF OrderInv, Unwritten
<1>8. ASSUME NEW e \in Ends PROVE EndInv(e)'
  <2>1. DataKept(e) /\ UNCHANGED <<count, delivered, hand>> /\ count[Peer(e)] \in Nat
    BY <1>1, EndFacts DEF ClientConnect, recvVars, sendVars, DataKept, TypeOK
  <2>2. OpenKept(e)
    <3>1. chan[c]["server"] = <<>> /\ chan[c]["client"] = <<>>
      BY <1>1 DEF OrderInv, Unwritten
    <3>2. ASSUME NEW d \in Conns, EndOpen(d, e)' PROVE d = c \/ EndOpen(d, e)
      <4>1. CASE e = "client"
        BY <1>2, <3>2, <4>1 DEF EndOpen
      <4>2. CASE e = "server"
        <5>1. d \in Elems(backlog') => d = c \/ d \in Elems(backlog)
          BY <1>4 DEF Elems
        <5> QED
          BY <1>1, <1>2, <3>2, <4>2, <5>1 DEF EndOpen
      <4> QED
        BY <4>1, <4>2, EndFacts
    <3> QED
      BY <3>1, <3>2, EndFacts DEF OpenKept
  <2> QED
    BY <2>1, <2>2, QuietEnd DEF OrderInv
<1> QED
  BY <1>6, <1>7, <1>8 DEF OrderInv

\* A connection is accepted.
LEMMA AcceptOrder ==
  ASSUME TypeOK, TypeOK', OrderInv, ServerAccept
  PROVE  OrderInv'
<1>1. /\ backlog \in Seq(Conns) /\ backlog # <<>> /\ backlog' = Tail(backlog)
      /\ link' = [link EXCEPT !["server"] = Head(backlog)] /\ UNCHANGED <<chan, reading, epoch>>
  BY DEF ServerAccept, recvVars, TypeOK
<1>2. PICK b \in Conns : b = Head(backlog) /\ b = backlog[1] /\ b \in Nat /\ 1 \in DOMAIN backlog
  BY <1>1, Backlog
<1>3. link'["client"] = link["client"] /\ link'["server"] = b
  BY <1>1, <1>2, EndFacts DEF TypeOK
<1>4. \A i \in DOMAIN backlog' :
         i \in Nat \ {0} /\ i + 1 \in DOMAIN backlog /\ backlog'[i] = backlog[i + 1]
  BY <1>1, Backlog
<1>5. Links'
  <2>1. \A i \in DOMAIN backlog' : b < backlog'[i]
    BY <1>2, <1>4 DEF OrderInv, Links
  <2>2. \A i, j \in DOMAIN backlog' : i < j => backlog'[i] < backlog'[j]
    BY <1>4 DEF OrderInv, Links
  <2>3. reading["server"] < b /\ b =< epoch
    BY <1>2 DEF OrderInv, Links
  <2>4. reading["server"] \in Nat
    BY EndFacts, BoundAssumption DEF TypeOK
  <2> QED
    BY <1>1, <1>2, <1>3, <1>4, <2>1, <2>2, <2>3, <2>4 DEF OrderInv, Links
<1>6. Unwritten'
  <2>1. \A c \in Conns : c > b => chan[c]["client"] = <<>>
    BY <1>2 DEF OrderInv, Unwritten, Conns
  <2> QED
    BY <1>1, <1>3, <1>4, <2>1 DEF OrderInv, Unwritten
<1>7. ASSUME NEW e \in Ends PROVE EndInv(e)'
  <2>1. DataKept(e) /\ UNCHANGED <<count, delivered, hand>> /\ count[Peer(e)] \in Nat
    BY <1>1, EndFacts DEF ServerAccept, recvVars, sendVars, DataKept, TypeOK
  <2>2. OpenKept(e)
    <3>1. b \in Elems(backlog) /\ Elems(backlog') \subseteq Elems(backlog)
      BY <1>2, <1>4 DEF Elems
    <3> QED
      BY <1>1, <1>3, <3>1, EndFacts DEF OpenKept, EndOpen
  <2> QED
    BY <2>1, <2>2, QuietEnd DEF OrderInv
<1> QED
  BY <1>5, <1>6, <1>7 DEF OrderInv

\* Whatever else happens to connections and receive threads leaves the order
\* alone: connections are dropped or entered, frames in hand are dropped, and
\* control frames are written.
LEMMA LooseOrder ==
  ASSUME TypeOK, TypeOK', OrderInv, NEW g \in Ends, NEW f \in Frame, f.type # "DATA",
         UNCHANGED chan \/ Reply(g, f), UNCHANGED <<epoch, count, delivered>>,
         backlog' \in {backlog, <<>>},
         \A e \in Ends : /\ link'[e] \in {link[e], 0}
                         /\ reading'[e] \in {reading[e], link[e], 0}
                         /\ hand'[e].type = "DATA" => hand'[e] = hand[e]
  PROVE  OrderInv'
<1>1. /\ link["server"] \in Nat /\ reading["server"] \in Nat /\ epoch \in Nat
      /\ backlog \in Seq(Conns)
  BY EndFacts, BoundAssumption DEF TypeOK
<1>2. \A i \in DOMAIN backlog' : i \in DOMAIN backlog /\ backlog'[i] = backlog[i]
  OBVIOUS
<1>3. \A i \in DOMAIN backlog : backlog[i] \in Nat /\ backlog[i] # 0
  BY <1>1, Backlog DEF Conns
<1>4. Links'
  <2>1. \A i \in DOMAIN backlog' :
          backlog'[i] =< epoch' /\ link'["server"] < backlog'[i] /\ reading'["server"] < backlog'[i]
    BY <1>1, <1>2, <1>3, EndFacts DEF OrderInv, Links
  <2>2. /\ link'["client"] \in {0, epoch'} /\ link'["server"] =< epoch'
        /\ reading'["server"] =< epoch'
    BY <1>1, EndFacts DEF OrderInv, Links
  <2>3. reading'["server"] # 0 /\ link'["server"] # 0 => reading'["server"] =< link'["server"]
    BY <1>1, EndFacts DEF OrderInv, Links
  <2>4. \A i, j \in DOMAIN backlog' : i < j => backlog'[i] < backlog'[j]
    BY <1>2 DEF OrderInv, Links
  <2> QED
    BY <2>1, <2>2, <2>3, <2>4 DEF Links
<1>5. Unwritten'
  <2>1. \A c \in Conns :
           /\ c > epoch => chan'[c]["server"] = <<>> /\ chan'[c]["client"] = <<>>
           /\ link["server"] # 0 /\ c > link["server"] => chan'[c]["client"] = <<>>
           /\ \A i \in DOMAIN backlog : c >= backlog[i] => chan'[c]["client"] = <<>>
    BY WrittenOld DEF OrderInv
  <2> QED
    BY <1>2, <2>1, EndFacts DEF Unwritten
<1>6. ASSUME NEW e \in Ends PROVE EndInv(e)'
  <2>1. DataKept(e)
    BY ControlKept
  <2>2. OpenKept(e)
    <3>1. Elems(backlog') \subseteq Elems(backlog) /\ 0 \notin Conns
      BY <1>2 DEF Elems, Conns
    <3> QED
      BY <3>1, EndFacts DEF OpenKept, EndOpen
  <2>3. count[Peer(e)] \in Nat
    BY EndFacts DEF TypeOK
  <2> QED
    BY <2>1, <2>2, <2>3, QuietEnd DEF OrderInv
<1> QED
  BY <1>4, <1>5, <1>6 DEF OrderInv

\* A message is sent: its name is higher than all names so far.
LEMMA SendOrder ==
  ASSUME TypeOK, TypeOK', OrderInv, NEW g \in Ends, Send(g)
  PROVE  OrderInv'
<1> DEFINE f == [type |-> "DATA", seq |-> nextSeq[g], id |-> count[g] + 1]
<1>1. /\ f \in Frame /\ f.id = count[g] + 1 /\ count[g] \in Nat
      /\ UNCHANGED chan \/ Reply(g, f)
  <2>1. nextSeq[g] \in Nat /\ count[g] \in Nat
    BY DEF TypeOK
  <2> QED
    BY <2>1 DEF Send, Reply, Frame
<1> HIDE DEF f
<1>2. /\ UNCHANGED <<epoch, backlog, link, reading, hand, delivered>>
      /\ count' = [count EXCEPT ![g] = @ + 1]
  BY DEF Send, recvVars
<1>3. Links' /\ Unwritten'
  BY <1>1, <1>2, WrittenOld DEF OrderInv, Links, Unwritten
<1>4. \A e \in Ends : /\ count'[e] >= count[e] /\ count[e] \in Nat
                      /\ \A c \in Conns : EndOpen(c, e)' <=> EndOpen(c, e)
  <2>1. \A e \in Ends : count'[e] >= count[e] /\ count[e] \in Nat
    <3>1. count \in [Ends -> Nat]
      BY DEF TypeOK
    <3> QED
      BY <1>2, <3>1
  <2>2. \A e \in Ends, c \in Conns : EndOpen(c, e)' <=> EndOpen(c, e)
    BY <1>2 DEF EndOpen, Elems
  <2> QED
    BY <2>1, <2>2
<1>5. CASE UNCHANGED chan
  <2>1. ASSUME NEW e \in Ends PROVE EndInv(e)'
    BY <1>2, <1>4, <1>5, EndFacts, QuietEnd DEF OrderInv, DataKept, OpenKept
  <2> QED
    BY <1>3, <2>1 DEF OrderInv
<1>6. CASE /\ link[g] \in Conns /\ Peer(g) \in Ends
           /\ chan' = Post(link[g], Peer(g), f)
  <2> DEFINE e == Peer(g)
             l == link[g]
  <2>1. /\ \A d \in Conns, h \in Ends : d # l \/ h # e => chan'[d][h] = chan[d][h]
        /\ \A i \in DOMAIN chan'[l][e] :
             \/ i \in DOMAIN chan[l][e] /\ chan'[l][e][i] = chan[l][e][i]
             \/ chan'[l][e][i] = f /\ \A j \in DOMAIN chan'[l][e] : j =< i
        /\ DOMAIN chan'[l][e] \subseteq Nat
    BY <1>1, <1>6, Posted
  <2>2. e \in Ends /\ e # g /\ l \in Conns /\ Peer(e) = g
    BY <1>6, EndFacts
  <2>3. EndInv(g)'
    <3>1. DataKept(g) /\ OpenKept(g)
      BY <1>4, <2>1, <2>2 DEF DataKept, OpenKept
    <3> QED
      BY <1>2, <1>4, <2>2, <3>1, QuietEnd DEF OrderInv
  <2>4. \A c \in Conns : c > l => chan[c][e] = <<>>
    <3>1. CASE g = "server"
      <4>1. e = "client" /\ l # 0
        BY <1>6, <3>1 DEF Conns, Peer
      <4> QED
        BY <3>1, <4>1 DEF OrderInv, Unwritten
    <3>2. CASE g = "client"
      <4>1. e = "server" /\ l = epoch
        BY <1>6, <3>2 DEF Conns, OrderInv, Links, Peer
      <4> QED
        BY <4>1 DEF OrderInv, Unwritten
    <3> QED
      BY <3>1, <3>2, EndFacts
  <2> HIDE DEF e, l
  <2>5. EndInv(e)
    BY <2>2 DEF OrderInv
  <2>6. /\ count'[g] = count[g] + 1 /\ UNCHANGED <<delivered, hand>>
        /\ delivered[e] \in Seq(Nat) /\ chan'[l][e] \in Seq(Frame)
    BY <1>2, <2>2 DEF TypeOK
  <2>7. Sent(e)'
    <3>1. ASSUME NEW c \in Conns, NEW i \in DOMAIN chan'[c][e], chan'[c][e][i].type = "DATA"
          PROVE  chan'[c][e][i].id \in 1 .. count'[g]
      <4>1. CASE c = l /\ chan'[c][e][i] = f
        BY <1>1, <2>6, <4>1
      <4>2. CASE i \in DOMAIN chan[c][e] /\ chan'[c][e][i] = chan[c][e][i]
        BY <1>1, <2>2, <2>5, <2>6, <3>1, <4>2 DEF EndInv, Sent
      <4> QED
        BY <2>1, <2>2, <4>1, <4>2
    <3> QED
      BY <1>1, <2>2, <2>5, <2>6, <3>1 DEF EndInv, Sent
  <2>8. Sorted(e)'
    <3>1. ASSUME NEW c \in Conns, NEW d \in Conns, NEW i \in DOMAIN chan'[c][e],
                 NEW j \in DOMAIN chan'[d][e],
                 chan'[c][e][i].type = "DATA", chan'[d][e][j].type = "DATA",
                 c < d \/ (c = d /\ i < j)
          PROVE  chan'[c][e][i].id < chan'[d][e][j].id
      <4>1. CASE c = l /\ chan'[c][e][i] = f /\ \A k \in DOMAIN chan'[l][e] : k =< i
        <5>1. ~(c = d /\ i < j)
          BY <2>1, <3>1, <4>1
        <5>2. chan[d][e] = <<>> /\ d # l
          BY <2>4, <3>1, <4>1, <5>1 DEF Conns
        <5> QED
          BY <2>1, <2>2, <5>2
      <4>2. CASE i \in DOMAIN chan[c][e] /\ chan'[c][e][i] = chan[c][e][i]
        <5>1. CASE d = l /\ chan'[d][e][j] = f
          BY <1>1, <2>2, <2>5, <3>1, <4>2, <5>1 DEF EndInv, Sent
        <5>2. CASE j \in DOMAIN chan[d][e] /\ chan'[d][e][j] = chan[d][e][j]
          BY <2>5, <3>1, <4>2, <5>2 DEF EndInv, Sorted
        <5> QED
          BY <2>1, <2>2, <5>1, <5>2
      <4> QED
        BY <2>1, <2>2, <4>1, <4>2
    <3> QED
      BY <3>1 DEF Sorted
  <2>9. Ahead(e)'
    <3>1. ASSUME NEW c \in Conns, EndOpen(c, e)', NEW i \in DOMAIN chan'[c][e],
                 chan'[c][e][i].type = "DATA"
          PROVE  /\ \A k \in DOMAIN delivered[e] : delivered[e][k] < chan'[c][e][i].id
                 /\ hand[e].type = "DATA" => hand[e].id < chan'[c][e][i].id
      <4>1. CASE c = l /\ chan'[c][e][i] = f
        BY <1>1, <2>2, <2>5, <4>1 DEF EndInv, Sent
      <4>2. CASE i \in DOMAIN chan[c][e] /\ chan'[c][e][i] = chan[c][e][i]
        BY <1>4, <2>2, <2>5, <3>1, <4>2 DEF EndInv, Ahead
      <4> QED
        BY <2>1, <2>2, <4>1, <4>2
    <3> QED
      BY <2>5, <2>6, <3>1 DEF EndInv, Ahead
  <2>10. InOrder(e)'
    BY <2>5, <2>6 DEF EndInv, InOrder
  <2>11. \A h \in Ends : EndInv(h)'
    BY <2>2, <2>3, <2>7, <2>8, <2>9, <2>10, EndFacts DEF EndInv
  <2> QED
    BY <1>3, <2>11 DEF OrderInv
<1> QED
  BY <1>1, <1>5, <1>6, Replied

\* A frame is read: it is the oldest of those that can be.
LEMMA ReadOrder ==
  ASSUME TypeOK, TypeOK', OrderInv, NEW g \in Ends, RecvFrame(g)
  PROVE  OrderInv'
<1>1. PICK c \in Conns : c = reading[g] /\ c \in Nat \ {0}
  BY BoundAssumption DEF RecvFrame, TypeOK, Conns
<1>2. /\ chan[c][g] # <<>> /\ chan' = [chan EXCEPT ![c][g] = Tail(@)]
      /\ g = "server" \/ link[g] = c
      /\ hand' = [hand EXCEPT ![g] = Head(chan[c][g])]
      /\ reading' = [reading EXCEPT ![g] = 0]
      /\ UNCHANGED <<epoch, backlog, link, count, delivered>>
  BY <1>1 DEF RecvFrame, ctxVars, sendVars
<1>3. /\ 1 \in DOMAIN chan[c][g] /\ Head(chan[c][g]) = chan[c][g][1]
      /\ \A d \in Conns, h \in Ends : d # c \/ h # g => chan'[d][h] = chan[d][h]
      /\ \A i \in DOMAIN chan'[c][g] :
            i \in Nat \ {0} /\ i + 1 \in DOMAIN chan[c][g]
            /\ chan'[c][g][i] = chan[c][g][i + 1]
  <2>1. Shifted(c, g)
    BY <1>1, <1>2, Taken
  <2> QED
    BY <2>1 DEF Shifted
<1> DEFINE f == chan[c][g][1]
<1>4. /\ hand'[g] = f /\ reading'[g] = 0
      /\ \A h \in Ends : h # g => hand'[h] = hand[h] /\ reading'[h] = reading[h]
  BY <1>2, <1>3 DEF TypeOK
<1>5. /\ \A h \in Ends : EndInv(h) /\ count[Peer(h)] \in Nat
      /\ Links /\ Unwritten
  BY EndFacts DEF OrderInv, TypeOK
<1>6. /\ link["server"] \in Nat /\ backlog \in Seq(Conns)
      /\ \A i \in DOMAIN backlog : backlog[i] \in Nat /\ backlog[i] # 0
  <2>1. link["server"] \in Nat /\ backlog \in Seq(Conns)
    BY EndFacts, BoundAssumption DEF TypeOK
  <2> QED
    BY <2>1, Backlog DEF Conns
<1>7. Links'
  <2>1. \/ reading'["server"] = 0
        \/ reading'["server"] = reading["server"] /\ reading["server"] # 0
    BY <1>4, EndFacts
  <2>2. epoch \in Nat
    BY BoundAssumption DEF TypeOK
  <2>3. UNCHANGED <<epoch, backlog, link>>
    BY <1>2
  <2>4. CASE reading'["server"] = 0
    BY <1>5, <1>6, <2>2, <2>3, <2>4 DEF Links
  <2>5. CASE reading'["server"] = reading["server"]
    BY <1>5, <2>3, <2>5 DEF Links
  <2> QED
    BY <2>1, <2>4, <2>5
<1>8. Unwritten'
  <2>1. \A d \in Conns, h \in Ends : chan[d][h] = <<>> => chan'[d][h] = <<>>
    BY <1>1, <1>2, <1>3
  <2> QED
    BY <1>2, <1>5, <2>1, EndFacts DEF Unwritten
<1>9. ASSUME NEW d \in Conns, NEW e \in Ends, EndOpen(d, e)' PROVE EndOpen(d, e)
  BY <1>2, <1>4, <1>9, EndFacts DEF EndOpen, Elems, Conns
<1>10. ASSUME NEW e \in Ends, e # g PROVE EndInv(e)'
  <2>1. DataKept(e) /\ OpenKept(e)
    BY <1>3, <1>9, <1>10 DEF DataKept, OpenKept
  <2> QED
    BY <1>2, <1>4, <1>5, <1>10, <2>1, QuietEnd
<1>11. \A d \in Conns : \A i \in DOMAIN chan'[d][g] :
          \E j \in DOMAIN chan[d][g] : /\ chan'[d][g][i] = chan[d][g][j]
                                       /\ j = IF d = c THEN i + 1 ELSE i
                                       /\ d = c => j > 1 /\ i \in Nat
  BY <1>3
<1>12. EndOpen(c, g)
  BY <1>1, <1>2, EndFacts DEF EndOpen
<1>13. \A d \in Conns : EndOpen(d, g)' => c =< d
  <2>1. CASE g = "client"
    BY <1>1, <1>2, <2>1 DEF EndOpen, Conns
  <2>2. CASE g = "server"
    BY <1>1, <1>2, <1>4, <1>5, <1>6, <2>2 DEF EndOpen, Elems, Links, Conns
  <2> QED
    BY <2>1, <2>2, EndFacts
<1> HIDE DEF f
<1>14. Sent(g)'
  <2>1. UNCHANGED <<count, delivered>> /\ hand'[g] = f
    BY <1>2, <1>4
  <2>2. \A d \in Conns : \A i \in DOMAIN chan'[d][g] :
          chan'[d][g][i].type = "DATA" => chan'[d][g][i].id \in 1 .. count[Peer(g)]
    BY <1>5, <1>11 DEF EndInv, Sent
  <2>3. f.type = "DATA" => f.id \in 1 .. count[Peer(g)]
    BY <1>1, <1>3, <1>5 DEF EndInv, Sent, f
  <2>4. \A k \in DOMAIN delivered[g] : delivered[g][k] \in 1 .. count[Peer(g)]
    BY <1>5 DEF EndInv, Sent
  <2> QED
    BY <2>1, <2>2, <2>3, <2>4 DEF Sent
<1>15. Sorted(g)'
  <2>1. ASSUME NEW d \in Conns, NEW h \in Conns, NEW i \in DOMAIN chan'[d][g],
               NEW j \in DOMAIN chan'[h][g],
               chan'[d][g][i].type = "DATA", chan'[h][g][j].type = "DATA",
               d < h \/ (d = h /\ i < j)
        PROVE  chan'[d][g][i].id < chan'[h][g][j].id
    <3>1. PICK k \in DOMAIN chan[d][g] : /\ chan'[d][g][i] = chan[d][g][k]
                                         /\ k = IF d = c THEN i + 1 ELSE i
                                         /\ d = c => i \in Nat
      BY <1>11
    <3>2. PICK l \in DOMAIN chan[h][g] : /\ chan'[h][g][j] = chan[h][g][l]
                                         /\ l = IF h = c THEN j + 1 ELSE j
                                         /\ h = c => j \in Nat
      BY <1>11
    <3>3. d < h \/ (d = h /\ k < l)
      BY <2>1, <3>1, <3>2
    <3> QED
      BY <1>5, <2>1, <3>1, <3>2, <3>3 DEF EndInv, Sorted
  <2> QED
    BY <2>1 DEF Sorted
<1>16. Ahead(g)'
  <2>1. ASSUME NEW d \in Conns, EndOpen(d, g)', NEW i \in DOMAIN chan'[d][g],
               chan'[d][g][i].type = "DATA"
        PROVE  /\ \A k \in DOMAIN delivered[g] : delivered[g][k] < chan'[d][g][i].id
               /\ f.type = "DATA" => f.id < chan'[d][g][i].id
    <3>1. PICK j \in DOMAIN chan[d][g] : /\ chan'[d][g][i] = chan[d][g][j]
                                         /\ d = c => j > 1
      BY <1>11
    <3>2. \A k \in DOMAIN delivered[g] : delivered[g][k] < chan'[d][g][i].id
      BY <1>5, <1>9, <2>1, <3>1 DEF EndInv, Ahead
    <3>3. c < d \/ (c = d /\ 1 < j)
      BY <1>1, <1>13, <2>1, <3>1 DEF Conns
    <3>4. f.type = "DATA" => f.id < chan'[d][g][i].id
      BY <1>1, <1>3, <1>5, <2>1, <3>1, <3>3 DEF EndInv, Sorted, f
    <3> QED
      BY <3>2, <3>4
  <2>2. f.type = "DATA" => \A k \in DOMAIN delivered[g] : delivered[g][k] < f.id
    BY <1>1, <1>3, <1>5, <1>12 DEF EndInv, Ahead, f
  <2> QED
    BY <1>2, <1>4, <2>1, <2>2 DEF Ahead
<1>17. InOrder(g)'
  BY <1>2, <1>5 DEF EndInv, InOrder
<1> QED
  BY <1>7, <1>8, <1>10, <1>14, <1>15, <1>16, <1>17 DEF OrderInv, EndInv

\* A message is delivered: it is newer than all before and older than what can
\* still be read.
LEMMA DeliverOrder ==
  ASSUME TypeOK, TypeOK', OrderInv, NEW g \in Ends, HandleMessage(g), HandleData(g),
         ~Duplicate(g)
  PROVE  OrderInv'
<1> DEFINE f == Control("ACK", hand[g].seq)
<1>1. f \in Frame /\ f.type # "DATA" /\ Reply(g, f) /\ hand[g].type = "DATA"
  <2>1. hand[g].type = "DATA" /\ Reply(g, f)
    BY DEF HandleData
  <2>2. hand[g].seq \in Nat
    BY <2>1, InHand
  <2> QED
    BY <2>1, <2>2, ControlTypes DEF Control
<1> HIDE DEF f
<1>2. /\ delivered' = [delivered EXCEPT ![g] = Append(@, hand[g].id)]
      /\ hand' = [hand EXCEPT ![g] = NoFrame]
      /\ UNCHANGED <<epoch, backlog, link, reading, count>>
  BY DEF HandleData, HandleMessage
<1>3. /\ \A h \in Ends : EndInv(h) /\ count[Peer(h)] \in Nat
      /\ Links /\ Unwritten
  BY EndFacts DEF OrderInv, TypeOK
<1>4. Links' /\ Unwritten'
  BY <1>1, <1>2, <1>3, WrittenOld DEF Links, Unwritten
<1>5. \A e \in Ends : DataKept(e) /\ OpenKept(e)
  <2>1. \A e \in Ends, d \in Conns : EndOpen(d, e)' => EndOpen(d, e)
    BY <1>2 DEF EndOpen, Elems
  <2> QED
    BY <1>1, <2>1, ControlKept DEF OpenKept
<1>6. hand'[g].type # "DATA" /\ \A h \in Ends : h # g => hand'[h] = hand[h]
  BY <1>2, ControlTypes DEF TypeOK
<1>7. ASSUME NEW e \in Ends, e # g PROVE EndInv(e)'
  <2>1. delivered'[e] = delivered[e]
    BY <1>2, <1>7 DEF TypeOK
  <2> QED
    BY <1>2, <1>3, <1>5, <1>6, <1>7, <2>1, QuietEnd
<1>8. /\ \A k \in DOMAIN delivered'[g] :
            \/ k \in DOMAIN delivered[g] /\ delivered'[g][k] = delivered[g][k]
            \/ delivered'[g][k] = hand[g].id /\ \A j \in DOMAIN delivered'[g] : j =< k
      /\ DOMAIN delivered'[g] \subseteq Nat
  <2>1. delivered[g] \in Seq(Nat) /\ hand[g].id \in Nat
    BY <1>1, InHand DEF TypeOK
  <2>2. delivered'[g] = Append(delivered[g], hand[g].id)
    BY <1>2 DEF TypeOK
  <2> QED
    BY <2>1, <2>2
<1>9. /\ hand[g].id \in 1 .. count[Peer(g)]
      /\ \A k \in DOMAIN delivered[g] : /\ delivered[g][k] < hand[g].id
                                        /\ delivered[g][k] \in 1 .. count[Peer(g)]
  BY <1>1, <1>3 DEF EndInv, Ahead, Sent
<1>10. Sent(g)'
  BY <1>2, <1>3, <1>5, <1>6, <1>8, <1>9 DEF EndInv, Sent, DataKept
<1>11. Sorted(g)'
  BY <1>3, <1>5 DEF EndInv, Sorted, DataKept
<1>12. Ahead(g)'
  <2>1. ASSUME NEW c \in Conns, EndOpen(c, g)', NEW i \in DOMAIN chan'[c][g],
               chan'[c][g][i].type = "DATA", NEW k \in DOMAIN delivered'[g]
        PROVE  delivered'[g][k] < chan'[c][g][i].id
    <3>1. i \in DOMAIN chan[c][g] /\ chan'[c][g][i] = chan[c][g][i] /\ EndOpen(c, g)
      BY <1>5, <2>1 DEF DataKept, OpenKept
    <3> QED
      BY <1>1, <1>3, <1>8, <2>1, <3>1 DEF EndInv, Ahead
  <2> QED
    BY <1>6, <2>1 DEF Ahead
<1>13. InOrder(g)'
  BY <1>3, <1>8, <1>9 DEF EndInv, InOrder
<1> QED
  BY <1>4, <1>7, <1>10, <1>11, <1>12, <1>13 DEF OrderInv, EndInv

\* Every step keeps the order.
LEMMA OrderStep == TypeOK /\ TypeOK' /\ OrderInv /\ [Next]_vars => OrderInv'
<1> SUFFICES ASSUME TypeOK, TypeOK', OrderInv, [Next]_vars PROVE OrderInv'
  OBVIOUS
<1> DEFINE disc == Control("DISC", 0)
<1>1. disc \in Frame /\ disc.type # "DATA"
  BY DEF Control, Frame
<1>2. NoFrame.type # "DATA"
  BY DEF NoFrame
<1> HIDE DEF disc
<1> USE DEF sockVars, ctxVars, recvVars, sendVars
<1>3. CASE ServerStop
  <2>1. UNCHANGED chan \/ Reply("server", disc)
    BY <1>3 DEF ServerStop, disc
  <2>2. UNCHANGED <<epoch, count, delivered>> /\ backlog' \in {backlog, <<>>}
    BY <1>3 DEF ServerStop
  <2>3. \A e \in Ends : /\ link'[e] \in {link[e], 0}
                        /\ reading'[e] \in {reading[e], link[e], 0}
                        /\ hand'[e].type = "DATA" => hand'[e] = hand[e]
    <3>1. /\ link' = [link EXCEPT !["server"] = 0] /\ reading' = [reading EXCEPT !["server"] = 0]
          /\ hand' = [hand EXCEPT !["server"] = NoFrame]
      BY <1>3 DEF ServerStop, Forget
    <3> QED
      BY <1>2, <3>1 DEF TypeOK
  <2> QED
    BY <1>1, <2>1, <2>2, <2>3, EndFacts, LooseOrder
<1>4. CASE ClientRestart
  <2>1. UNCHANGED <<chan, backlog, epoch, count, delivered>>
    BY <1>4 DEF ClientRestart
  <2>2. \A e \in Ends : /\ link'[e] \in {link[e], 0}
                        /\ reading'[e] \in {reading[e], link[e], 0}
                        /\ hand'[e].type = "DATA" => hand'[e] = hand[e]
    <3>1. /\ link' = [link EXCEPT !["client"] = 0] /\ reading' = [reading EXCEPT !["client"] = 0]
          /\ hand' = [hand EXCEPT !["client"] = NoFrame]
      BY <1>4 DEF ClientRestart, Forget
    <3> QED
      BY <1>2, <3>1 DEF TypeOK
  <2> QED
    BY <1>1, <2>1, <2>2, EndFacts, LooseOrder
<1>5. CASE ClientDisconnect
  <2>1. Reply("client", disc) /\ UNCHANGED <<epoch, backlog, count, delivered, reading, hand>>
    BY <1>5 DEF ClientDisconnect, disc
  <2>2. \A e \in Ends : link'[e] \in {link[e], 0}
    <3>1. link' = [link EXCEPT !["client"] = 0]
      BY <1>5 DEF ClientDisconnect
    <3> QED
      BY <3>1, EndFacts DEF TypeOK
  <2> QED
    BY <1>1, <2>1, <2>2, EndFacts, LooseOrder
<1>6. CASE ServerStart \/ UNCHANGED vars
  <2>1. UNCHANGED <<chan, epoch, backlog, count, delivered, link, reading, hand>>
    BY <1>6 DEF ServerStart, vars
  <2> QED
    BY <1>1, <2>1, EndFacts, LooseOrder
<1>7. CASE RecvTimeout
  <2>1. UNCHANGED <<chan, epoch, backlog, count, delivered, link, hand>>
    BY <1>7 DEF RecvTimeout
  <2>2. \A e \in Ends : reading'[e] \in {reading[e], 0}
    BY <1>7 DEF RecvTimeout, TypeOK
  <2> QED
    BY <1>1, <2>1, <2>2, EndFacts, LooseOrder
<1>8. ASSUME NEW g \in Ends,
             HeartbeatTimeout(g) \/ SendReturn(g) \/ RecvEnter(g) \/ RecvFails(g)
             \/ RecvDisconnect(g)
      PROVE  OrderInv'
  <2>1. UNCHANGED <<chan, epoch, backlog, count, delivered, hand>>
    BY <1>8 DEF HeartbeatTimeout, SendReturn, RecvEnter, RecvFails, RecvDisconnect
  <2>2. \A e \in Ends : link'[e] \in {link[e], 0}
    BY <1>8 DEF HeartbeatTimeout, SendReturn, RecvEnter, RecvFails, RecvDisconnect, TypeOK
  <2>3. \A e \in Ends : reading'[e] \in {reading[e], link[e], 0}
    <3>1. reading' = reading \/ \E d \in {link[g], 0} : reading' = [reading EXCEPT ![g] = d]
      BY <1>8 DEF HeartbeatTimeout, SendReturn, RecvEnter, RecvFails, RecvDisconnect
    <3> QED
      BY <3>1 DEF TypeOK
  <2> QED
    BY <1>1, <2>1, <2>2, <2>3, LooseOrder
<1>9. ASSUME NEW g \in Ends, HandleMessage(g) PROVE OrderInv'
  <2>1. /\ UNCHANGED <<epoch, backlog, count, link, reading>>
        /\ \A e \in Ends : hand'[e].type = "DATA" => hand'[e] = hand[e]
    BY <1>2, <1>9 DEF HandleMessage, TypeOK
  <2>2. CASE HandleAck(g) \/ HandleDisconnect(g)
    <3>1. UNCHANGED <<chan, delivered>>
      BY <2>2 DEF HandleAck, HandleDisconnect
    <3> QED
      BY <1>1, <2>1, <3>1, LooseOrder
  <2>3. CASE HandleData(g) /\ Duplicate(g)
    <3>1. PICK n \in Nat : Reply(g, Control("ACK", n))
      BY <2>3, InHand DEF HandleData
    <3>2. Control("ACK", n) \in Frame /\ Control("ACK", n).type # "DATA"
      BY <3>1, ControlTypes DEF Control
    <3>3. UNCHANGED delivered
      BY <2>3 DEF HandleData
    <3> QED
      BY <2>1, <3>1, <3>2, <3>3, LooseOrder
  <2> QED
    BY <1>9, <2>2, <2>3, DeliverOrder DEF HandleMessage
<1> QED
  BY <1>3, <1>4, <1>5, <1>6, <1>7, <1>8, <1>9, ConnectOrder, AcceptOrder, SendOrder, ReadOrder
     DEF Next

\* OrderInv holds in every behaviour.
LEMMA OrderInvariant == Spec => [](TypeOK /\ OrderInv)
<1>1. Init => OrderInv
  <2> SUFFICES ASSUME Init PROVE OrderInv
    OBVIOUS
  <2>1. \A c \in Conns, e \in Ends : chan[c][e] = <<>>
    BY DEF Init
  <2>2. \A e \in Ends : delivered[e] = <<>> /\ hand[e].type # "DATA"
    BY ControlTypes DEF Init
  <2>3. Links /\ Unwritten
    BY <2>1, EndFacts DEF Init, Links, Unwritten
  <2>4. \A e \in Ends : EndInv(e)
    BY <2>1, <2>2 DEF EndInv, Sent, Sorted, Ahead, InOrder
  <2> QED
    BY <2>3, <2>4 DEF OrderInv
<1> QED
  BY <1>1, OrderStep, SessionTypeCorrect, PTL DEF Spec

\* Neither onMessage sees a message twice or out of order: the duplicate test of
\* HandleMessage drops every repetition, and a connection that replaces another
\* carries only newer messages.
THEOREM SessionAtMostOnceInOrder == Spec => []AtMostOnceInOrder
<1>1. OrderInv => AtMostOnceInOrder
  BY DEF OrderInv, EndInv, InOrder, AtMostOnceInOrder
<1> QED
  BY <1>1, OrderInvariant, PTL

-----------------------------------------------------------------------------
(* The first client                                                          *)

\* The members of InFlight.
LEMMA FlightMembers ==
  ASSUME NEW e
  PROVE  /\ \A f : f \in InFlight(e) <=>
              f = hand[e] \/ \E c \in Conns : \E i \in DOMAIN chan[c][e] : f = chan[c][e][i]
         /\ \A f : f \in InFlight(e)' <=>
              f = hand'[e] \/ \E c \in Conns : \E i \in DOMAIN chan'[c][e] : f = chan'[c][e][i]
BY DEF InFlight, Elems

\* What is written is in flight to the peer, and nothing else comes in flight.
LEMMA Flight ==
  ASSUME TypeOK, NEW g \in Ends, NEW f \in Frame, UNCHANGED chan \/ Reply(g, f), NEW e \in Ends,
         hand'[e] \in InFlight(e) \cup {NoFrame}
  PROVE  InFlight(e)' \subseteq InFlight(e) \cup {NoFrame} \cup (IF e = Peer(g) THEN {f} ELSE {})
<1>1. ASSUME NEW c \in Conns, NEW i \in DOMAIN chan'[c][e]
      PROVE  \/ i \in DOMAIN chan[c][e] /\ chan'[c][e][i] = chan[c][e][i]
             \/ e = Peer(g) /\ chan'[c][e][i] = f
  <2>1. CASE UNCHANGED chan
    BY <1>1, <2>1
  <2>2. CASE link[g] \in Conns /\ Peer(g) \in Ends /\ chan' = Post(link[g], Peer(g), f)
    <3>1. /\ \A d \in Conns, h \in Ends : d # link[g] \/ h # Peer(g) => chan'[d][h] = chan[d][h]
          /\ \A k \in DOMAIN chan'[link[g]][Peer(g)] :
               \/ /\ k \in DOMAIN chan[link[g]][Peer(g)]
                  /\ chan'[link[g]][Peer(g)][k] = chan[link[g]][Peer(g)][k]
               \/ chan'[link[g]][Peer(g)][k] = f
      BY <2>2, Posted
    <3>2. CASE c = link[g] /\ e = Peer(g)
      BY <1>1, <3>1, <3>2
    <3>3. CASE c # link[g] \/ e # Peer(g)
      BY <1>1, <3>1, <3>3
    <3> QED
      BY <3>2, <3>3
  <2> QED
    BY <2>1, <2>2, Replied
<1>2. hand'[e] \in InFlight(e) \cup {NoFrame}
  OBVIOUS
<1>3. ASSUME NEW x, x \in InFlight(e)'
      PROVE  x \in InFlight(e) \cup {NoFrame} \cup (IF e = Peer(g) THEN {f} ELSE {})
  BY <1>1, <1>2, <1>3, FlightMembers
<1> QED
  BY <1>3

\* What is read was in flight.
LEMMA FlightRead ==
  ASSUME TypeOK, NEW g \in Ends, RecvFrame(g), NEW e \in Ends
  PROVE  InFlight(e)' \subseteq InFlight(e)
<1>1. reading[g] \in Conns
  <2>1. reading[g] \in 0 .. MaxConn /\ reading[g] # 0
    BY DEF RecvFrame, TypeOK
  <2> QED
    BY <2>1, BoundAssumption DEF Conns
<1>2. Shifted(reading[g], g) /\ hand' = [hand EXCEPT ![g] = Head(chan[reading[g]][g])]
  BY <1>1, Taken DEF RecvFrame
<1>3. hand'[e] \in InFlight(e)
  <2>1. CASE e = g
    <3>1. hand'[e] = chan[reading[g]][g][1] /\ 1 \in DOMAIN chan[reading[g]][g]
      BY <1>2, <2>1 DEF TypeOK, Shifted
    <3> QED
      BY <1>1, <2>1, <3>1, FlightMembers
  <2>2. CASE e # g
    <3>1. hand'[e] = hand[e]
      BY <1>2, <2>2 DEF TypeOK
    <3> QED
      BY <3>1, FlightMembers
  <2> QED
    BY <2>1, <2>2
<1>4. ASSUME NEW c \in Conns, NEW i \in DOMAIN chan'[c][e]
      PROVE  chan'[c][e][i] \in InFlight(e)
  <2>1. CASE c = reading[g] /\ e = g
    <3>1. i + 1 \in DOMAIN chan[c][e] /\ chan'[c][e][i] = chan[c][e][i + 1]
      BY <1>2, <1>4, <2>1 DEF Shifted
    <3> QED
      BY <3>1, FlightMembers
  <2>2. CASE c # reading[g] \/ e # g
    <3>1. chan'[c][e] = chan[c][e]
      BY <1>2, <2>2 DEF Shifted
    <3> QED
      BY <1>4, <3>1, FlightMembers
  <2> QED
    BY <2>1, <2>2
<1>5. ASSUME NEW x, x \in InFlight(e)' PROVE x \in InFlight(e)
  BY <1>3, <1>4, <1>5, FlightMembers
<1> QED
  BY <1>5

\* Deliveries are not taken back.
LEMMA Appended ==
  ASSUME NEW s \in Seq(Nat), NEW n \in Nat
  PROVE  /\ Elems(s) \subseteq Elems(Append(s, n)) /\ n \in Elems(Append(s, n))
         /\ Append(s, n) # s
<1>1. /\ \A i \in DOMAIN s : i \in DOMAIN Append(s, n) /\ Append(s, n)[i] = s[i]
      /\ Len(s) + 1 \in DOMAIN Append(s, n) /\ Append(s, n)[Len(s) + 1] = n
      /\ Len(Append(s, n)) = Len(s) + 1 /\ Len(s) \in Nat
  OBVIOUS
<1> QED
  BY <1>1 DEF Elems

\* A message of the first client is never taken for a duplicate.
LEMMA NoDuplicate ==
  ASSUME TypeOK, OrderInv, FirstClient, replaced = 0, hand["server"].type = "DATA"
  PROVE  ~Duplicate("server") /\ hand["server"].seq = hand["server"].id
<1>1. hand["server"].seq \in Nat /\ hand["server"].id \in Nat
  BY EndFacts, InHand
<1>2. hand["server"].seq = hand["server"].id
  <2>1. hand["server"] \in InFlight("server")
    BY FlightMembers
  <2> QED
    BY <2>1 DEF FirstClient
<1>3. /\ hand["server"].id \in 1 .. count["client"] /\ count["client"] \in Nat
      /\ \A k \in DOMAIN delivered["server"] : delivered["server"][k] < hand["server"].id
  BY EndFacts DEF OrderInv, EndInv, Sent, Ahead, Peer, TypeOK
<1>4. \A n \in Elems(delivered["server"]) : n \in Nat /\ n < hand["server"].id
  <2>1. delivered["server"] \in Seq(Nat)
    BY EndFacts DEF TypeOK
  <2> QED
    BY <1>3, <2>1 DEF Elems
<1>5. expectedSeq["server"] =< hand["server"].seq
  BY <1>1, <1>2, <1>3, <1>4 DEF FirstClient, FirstSeq
<1>6. expectedSeq["server"] \in Nat
  BY EndFacts DEF TypeOK
<1> QED
  BY <1>1, <1>2, <1>5, <1>6 DEF Duplicate

\* A step that sends and confirms nothing, and writes at most a DISCONNECT frame.
LEMMA QuietFirst ==
  ASSUME TypeOK, FirstClient, NEW g \in Ends, NEW f \in Frame, f.type = "DISC",
         UNCHANGED chan \/ Reply(g, f), replaced' = 0 => replaced = 0,
         UNCHANGED <<delivered, confirmed>>,
         nextSeq'["client"] = nextSeq["client"], count'["client"] = count["client"],
         expectedSeq'["server"] \in {expectedSeq["server"], FirstSeq},
         \A e \in Ends : hand'[e] \in InFlight(e) \cup {NoFrame},
         pend'["client"] \in {pend["client"], NoWait}
  PROVE  FirstClient'
<1> SUFFICES ASSUME replaced' = 0 PROVE FirstClient'
  BY DEF FirstClient
<1>1. \A e \in Ends : InFlight(e)' \subseteq InFlight(e) \cup {NoFrame, f}
  BY Flight
<1>2. NoFrame.type = "none" /\ ~NoWait.acked /\ NoWait.seq = NoWait.id
  BY DEF NoFrame, NoWait
<1>3. UNCHANGED Elems(delivered["server"])
  OBVIOUS
<1> QED
  BY <1>1, <1>2, <1>3, EndFacts DEF FirstClient

\* The first client sends a message, or the server does.
LEMMA SendFirst ==
  ASSUME TypeOK, FirstClient, NEW g \in Ends, Send(g)
  PROVE  FirstClient'
<1> SUFFICES ASSUME replaced' = 0 PROVE FirstClient'
  BY DEF FirstClient
<1> DEFINE f == [type |-> "DATA", seq |-> nextSeq[g], id |-> count[g] + 1]
<1>1. /\ f \in Frame /\ f.type = "DATA" /\ f.seq = nextSeq[g] /\ f.id = count[g] + 1
      /\ \/ UNCHANGED <<chan, pend>>
         \/ /\ Reply(g, f)
            /\ pend' = [pend EXCEPT ![g] = [seq |-> f.seq, id |-> f.id, acked |-> FALSE]]
  <2>1. nextSeq[g] \in Nat /\ count[g] \in Nat
    BY DEF TypeOK
  <2> QED
    BY <2>1 DEF Send, Reply, Frame
<1> HIDE DEF f
<1>2. /\ UNCHANGED <<replaced, hand, expectedSeq, delivered, confirmed>>
      /\ nextSeq' = [nextSeq EXCEPT ![g] = @ + 1] /\ count' = [count EXCEPT ![g] = @ + 1]
  BY DEF Send, recvVars
<1>3. /\ InFlight("server")' \subseteq InFlight("server")
                                        \cup {NoFrame} \cup (IF g = "client" THEN {f} ELSE {})
      /\ InFlight("client")' \subseteq InFlight("client") \cup {NoFrame, f}
  <2>1. \A e \in Ends : hand'[e] \in InFlight(e) \cup {NoFrame}
    BY <1>2, FlightMembers
  <2>2. \A e \in Ends : InFlight(e)' \subseteq
                          InFlight(e) \cup {NoFrame} \cup (IF e = Peer(g) THEN {f} ELSE {})
    BY <1>1, <2>1, Flight
  <2> QED
    BY <2>2, EndFacts DEF Peer
<1>4. NoFrame.type = "none" /\ UNCHANGED Elems(delivered["server"])
  BY <1>2 DEF NoFrame
<1>5. CASE g = "server"
  <2>1. UNCHANGED <<nextSeq["client"], count["client"], pend["client"]>>
    <3>1. /\ nextSeq \in [Ends -> Nat \ {0}] /\ count \in [Ends -> Nat]
          /\ pend \in [Ends -> [seq : Nat, id : Nat, acked : BOOLEAN]]
      BY DEF TypeOK
    <3>2. nextSeq'["client"] = nextSeq["client"] /\ count'["client"] = count["client"]
      BY <1>2, <1>5, <3>1, EndFacts
    <3>3. pend'["client"] = pend["client"]
      BY <1>1, <1>5, <3>1, EndFacts
    <3> QED
      BY <3>2, <3>3
  <2> QED
    BY <1>1, <1>2, <1>3, <1>4, <1>5, <2>1 DEF FirstClient
<1>6. CASE g = "client"
  <2>1. /\ nextSeq'["client"] = nextSeq["client"] + 1 /\ count'["client"] = count["client"] + 1
        /\ nextSeq["client"] \in Nat /\ count["client"] \in Nat
        /\ \/ pend'["client"] = pend["client"]
           \/ pend'["client"].seq = f.seq /\ pend'["client"].id = f.id /\ ~pend'["client"].acked
    <3>1. /\ nextSeq \in [Ends -> Nat \ {0}] /\ count \in [Ends -> Nat]
          /\ pend \in [Ends -> [seq : Nat, id : Nat, acked : BOOLEAN]]
      BY DEF TypeOK
    <3>2. /\ nextSeq'["client"] = nextSeq["client"] + 1 /\ count'["client"] = count["client"] + 1
          /\ nextSeq["client"] \in Nat /\ count["client"] \in Nat
      BY <1>2, <1>6, <3>1, EndFacts
    <3>3. \/ pend'["client"] = pend["client"]
          \/ pend'["client"] = [seq |-> f.seq, id |-> f.id, acked |-> FALSE]
      BY <1>1, <1>6, <3>1, EndFacts
    <3> QED
      BY <3>2, <3>3
  <2>2. f.seq = f.id
    BY <1>1, <1>2, <1>6 DEF FirstClient
  <2> QED
    BY <1>1, <1>2, <1>3, <1>4, <2>1, <2>2 DEF FirstClient
<1> QED
  BY <1>5, <1>6, EndFacts

\* The server takes a message of the first client and acknowledges it, or the
\* client one of the server.
LEMMA DataFirst ==
  ASSUME TypeOK, OrderInv, FirstClient, NEW g \in Ends, HandleMessage(g), HandleData(g)
  PROVE  FirstClient'
<1> SUFFICES ASSUME replaced' = 0 PROVE FirstClient'
  BY DEF FirstClient
<1> DEFINE f == Control("ACK", hand[g].seq)
<1>1. /\ f \in Frame /\ f.type = "ACK" /\ f.seq = hand[g].seq /\ Reply(g, f)
      /\ hand[g].type = "DATA" /\ hand[g].seq \in Nat /\ hand[g].id \in Nat
  <2>1. hand[g].type = "DATA" /\ Reply(g, f)
    BY DEF HandleData
  <2>2. hand[g].seq \in Nat /\ hand[g].id \in Nat
    BY <2>1, InHand
  <2> QED
    BY <2>1, <2>2, ControlTypes DEF Control
<1> HIDE DEF f
<1>2. /\ UNCHANGED <<replaced, nextSeq, count, confirmed, pend>>
      /\ hand' = [hand EXCEPT ![g] = NoFrame]
  BY DEF HandleMessage, HandleData
<1>3. /\ InFlight("client")' \subseteq InFlight("client")
                                        \cup {NoFrame} \cup (IF g = "server" THEN {f} ELSE {})
      /\ InFlight("server")' \subseteq InFlight("server") \cup {NoFrame, f}
  <2>1. \A e \in Ends : hand'[e] \in InFlight(e) \cup {NoFrame}
    BY <1>2, FlightMembers DEF TypeOK
  <2>2. \A e \in Ends : InFlight(e)' \subseteq
                          InFlight(e) \cup {NoFrame} \cup (IF e = Peer(g) THEN {f} ELSE {})
    BY <1>1, <2>1, Flight
  <2> QED
    BY <2>2, EndFacts DEF Peer
<1>4. NoFrame.type = "none"
  BY DEF NoFrame
<1>5. CASE g = "client"
  <2>1. UNCHANGED <<expectedSeq["server"], delivered["server"]>>
    <3>1. expectedSeq' = expectedSeq \/ \E n : expectedSeq' = [expectedSeq EXCEPT ![g] = n]
      BY DEF HandleData
    <3>2. delivered' = delivered \/ \E s : delivered' = [delivered EXCEPT ![g] = s]
      BY DEF HandleData
    <3> QED
      BY <1>5, <3>1, <3>2 DEF TypeOK, Ends
  <2>2. UNCHANGED Elems(delivered["server"])
    BY <2>1
  <2> QED
    BY <1>1, <1>2, <1>3, <1>4, <1>5, <2>1, <2>2 DEF FirstClient
<1>6. CASE g = "server"
  <2>1. ~Duplicate("server") /\ hand["server"].seq = hand["server"].id
    BY <1>1, <1>2, <1>6, NoDuplicate
  <2>2. /\ expectedSeq'["server"] = hand["server"].seq + 1
        /\ delivered'["server"] = Append(delivered["server"], hand["server"].id)
    BY <1>6, <2>1, EndFacts DEF HandleData, TypeOK
  <2>3. delivered["server"] \in Seq(Nat)
    BY EndFacts DEF TypeOK
  <2>4. /\ Elems(delivered["server"]) \subseteq Elems(delivered["server"])'
        /\ hand["server"].id \in Elems(delivered["server"])'
    <3>1. Elems(delivered["server"])' = Elems(Append(delivered["server"], hand["server"].id))
      BY <2>2
    <3> QED
      BY <1>1, <1>6, <2>3, <3>1, Appended
  <2> QED
    BY <1>1, <1>2, <1>3, <1>4, <1>6, <2>1, <2>2, <2>4 DEF FirstClient
<1> QED
  BY <1>5, <1>6, EndFacts

\* An acknowledgement is taken.
LEMMA AckFirst ==
  ASSUME TypeOK, FirstClient, NEW g \in Ends, HandleMessage(g), HandleAck(g)
  PROVE  FirstClient'
<1> SUFFICES ASSUME replaced' = 0 PROVE FirstClient'
  BY DEF FirstClient
<1>1. /\ UNCHANGED <<replaced, chan, nextSeq, expectedSeq, count, delivered, confirmed>>
      /\ hand' = [hand EXCEPT ![g] = NoFrame] /\ hand[g].type = "ACK"
      /\ pend' = [pend EXCEPT ![g].acked = @ \/ pend[g].seq = hand[g].seq]
  BY DEF HandleMessage, HandleAck
<1>2. \A e \in Ends : InFlight(e)' \subseteq InFlight(e) \cup {NoFrame}
  <2>1. \A e \in Ends : hand'[e] \in {hand[e], NoFrame}
    BY <1>1 DEF TypeOK
  <2> QED
    BY <1>1, <2>1, FlightMembers
<1>3. NoFrame.type = "none" /\ UNCHANGED Elems(delivered["server"])
  BY <1>1 DEF NoFrame
<1>4. \/ pend'["client"] = pend["client"]
      \/ /\ pend'["client"].seq = pend["client"].seq /\ pend'["client"].id = pend["client"].id
         /\ pend'["client"].acked
              => pend["client"].acked
                 \/ /\ hand["client"].type = "ACK"
                    /\ pend["client"].seq = hand["client"].seq
  <2>1. CASE g = "client"
    <3>1. pend["client"] \in [seq : Nat, id : Nat, acked : BOOLEAN]
      BY EndFacts DEF TypeOK
    <3>2. pend'["client"] = [pend["client"] EXCEPT
                               !.acked = @ \/ pend["client"].seq = hand["client"].seq]
      BY <1>1, <2>1, EndFacts DEF TypeOK
    <3> QED
      BY <1>1, <2>1, <3>1, <3>2
  <2>2. CASE g # "client"
    BY <1>1, <2>2, EndFacts DEF TypeOK
  <2> QED
    BY <2>1, <2>2
<1>5. hand["client"] \in InFlight("client")
  BY FlightMembers
<1> QED
  BY <1>1, <1>2, <1>3, <1>4, <1>5, EndFacts DEF FirstClient

\* Every step keeps FirstClient.
LEMMA FirstStep == TypeOK /\ TypeOK' /\ OrderInv /\ FirstClient /\ [Next]_vars => FirstClient'
<1> SUFFICES ASSUME TypeOK, TypeOK', OrderInv, FirstClient, [Next]_vars PROVE FirstClient'
  OBVIOUS
<1> DEFINE disc == Control("DISC", 0)
<1>1. disc \in Frame /\ disc.type = "DISC"
  BY DEF Control, Frame
<1>2. \A e \in Ends : hand[e] \in InFlight(e)
  BY FlightMembers
<1> HIDE DEF disc
<1> USE DEF sockVars, ctxVars, recvVars, sendVars
<1>3. CASE ServerStop
  <2>1. UNCHANGED chan \/ Reply("server", disc)
    BY <1>3 DEF ServerStop, disc
  <2>2. /\ UNCHANGED <<replaced, delivered, confirmed, count>>
        /\ nextSeq'["client"] = nextSeq["client"] /\ pend'["client"] = pend["client"]
        /\ expectedSeq'["server"] = FirstSeq
        /\ \A e \in Ends : hand'[e] \in {hand[e], NoFrame}
    BY <1>3, EndFacts DEF ServerStop, Forget, TypeOK
  <2> QED
    BY <1>1, <1>2, <2>1, <2>2, EndFacts, QuietFirst
<1>4. CASE ClientRestart
  <2>1. replaced' # 0
    BY <1>4, BoundAssumption DEF ClientRestart, TypeOK
  <2> QED
    BY <2>1 DEF FirstClient
<1>5. CASE ClientDisconnect
  <2>1. /\ Reply("client", disc)
        /\ UNCHANGED <<replaced, delivered, confirmed, count, nextSeq, expectedSeq, hand, pend>>
    BY <1>5 DEF ClientDisconnect, disc
  <2> QED
    BY <1>1, <1>2, <2>1, EndFacts, QuietFirst
<1>6. CASE ServerAccept
  <2>1. UNCHANGED <<replaced, chan, delivered, confirmed, count, hand, pend>>
    BY <1>6 DEF ServerAccept
  <2>2. nextSeq'["client"] = nextSeq["client"] /\ expectedSeq'["server"] = FirstSeq
    BY <1>6, EndFacts DEF ServerAccept, TypeOK
  <2> QED
    BY <1>1, <1>2, <2>1, <2>2, EndFacts, QuietFirst
<1>7. CASE ClientConnect \/ ServerStart \/ RecvTimeout \/ UNCHANGED vars
  <2>1. UNCHANGED <<replaced, chan, delivered, confirmed, count, nextSeq, expectedSeq, hand, pend>>
    BY <1>7 DEF ClientConnect, ServerStart, RecvTimeout, vars
  <2> QED
    BY <1>1, <1>2, <2>1, EndFacts, QuietFirst
<1>8. ASSUME NEW g \in Ends,
             HeartbeatTimeout(g) \/ RecvEnter(g) \/ RecvFails(g) \/ RecvDisconnect(g)
      PROVE  FirstClient'
  <2>1. UNCHANGED <<replaced, chan, delivered, confirmed, count, nextSeq, expectedSeq, hand, pend>>
    BY <1>8 DEF HeartbeatTimeout, RecvEnter, RecvFails, RecvDisconnect
  <2> QED
    BY <1>1, <1>2, <2>1, EndFacts, QuietFirst
<1>9. ASSUME NEW g \in Ends, SendReturn(g) PROVE FirstClient'
  <2>1. UNCHANGED <<replaced, chan, delivered, count, nextSeq, expectedSeq, hand>>
    BY <1>9 DEF SendReturn
  <2>2. \A e \in Ends : InFlight(e)' = InFlight(e)
    BY <2>1 DEF InFlight, Elems
  <2>3. pend'["client"] \in {pend["client"], NoWait}
    BY <1>9, EndFacts DEF SendReturn, TypeOK
  <2>4. confirmed'["client"] \subseteq
           confirmed["client"] \cup (IF pend["client"].acked THEN {pend["client"].id} ELSE {})
    BY <1>9, EndFacts DEF SendReturn, TypeOK
  <2>5. ~NoWait.acked /\ NoWait.seq = NoWait.id /\ UNCHANGED Elems(delivered["server"])
    BY <2>1 DEF NoWait
  <2> QED
    BY <2>1, <2>2, <2>3, <2>4, <2>5, EndFacts DEF FirstClient
<1>10. ASSUME NEW g \in Ends, RecvFrame(g) PROVE FirstClient'
  <2>1. \A e \in Ends : InFlight(e)' \subseteq InFlight(e)
    BY <1>10, FlightRead
  <2>2. UNCHANGED <<replaced, delivered, confirmed, count, nextSeq, expectedSeq, pend>>
    BY <1>10 DEF RecvFrame
  <2>3. UNCHANGED Elems(delivered["server"])
    BY <2>2
  <2> QED
    BY <2>1, <2>2, <2>3, EndFacts DEF FirstClient
<1>11. ASSUME NEW g \in Ends, HandleMessage(g), HandleDisconnect(g) PROVE FirstClient'
  <2>1. UNCHANGED <<replaced, chan, delivered, confirmed, count, nextSeq, expectedSeq, pend>>
    BY <1>11 DEF HandleMessage, HandleDisconnect
  <2>2. \A e \in Ends : hand'[e] \in {hand[e], NoFrame}
    BY <1>11 DEF HandleMessage, TypeOK
  <2> QED
    BY <1>1, <1>2, <2>1, <2>2, EndFacts, QuietFirst
<1> QED
  BY <1>3, <1>4, <1>5, <1>6, <1>7, <1>8, <1>9, <1>10, <1>11, SendFirst, DataFirst, AckFirst
     DEF Next, HandleMessage

\* FirstClient holds in every behaviour.
LEMMA FirstInvariant == Spec => [](TypeOK /\ OrderInv /\ FirstClient)
<1>1. Init => FirstClient
  <2> SUFFICES ASSUME Init PROVE FirstClient
    OBVIOUS
  <2>1. \A e \in Ends : \A f \in InFlight(e) : f.type = "none"
    <3>1. (\A c \in Conns, e \in Ends : chan[c][e] = <<>>) /\ \A e \in Ends : hand[e] = NoFrame
      BY DEF Init
    <3> QED
      BY <3>1, FlightMembers DEF NoFrame
  <2>2. /\ nextSeq["client"] = count["client"] + 1 /\ expectedSeq["server"] = FirstSeq
        /\ pend["client"] = NoWait /\ confirmed["client"] = {}
    BY EndFacts DEF Init, FirstSeq
  <2> QED
    BY <2>1, <2>2, EndFacts DEF FirstClient, NoWait
<1> QED
  BY <1>1, FirstStep, OrderInvariant, PTL DEF Spec

\* IPC_OK from IpcSendData of the first client process means the server's
\* onMessage had the message, whatever became of connections and servers since.
THEOREM SessionClientOkDelivered == Spec => []ClientOkDelivered
<1>1. FirstClient => ClientOkDelivered
  BY DEF FirstClient, ClientOkDelivered
<1> QED
  BY <1>1, FirstInvariant, PTL

\* The duplicate test of HandleMessage drops no message of that client.
THEOREM SessionNoFalseDuplicate == Spec => NoFalseDuplicate
<1>1. TypeOK /\ OrderInv /\ FirstClient /\ [Next]_vars
        => [replaced = 0 /\ hand["server"].type = "DATA" /\ HandleMessage("server")
              => delivered'["server"] # delivered["server"]]_vars
  <2> SUFFICES ASSUME TypeOK, OrderInv, FirstClient, replaced = 0,
                      hand["server"].type = "DATA", HandleMessage("server")
               PROVE  delivered'["server"] # delivered["server"]
    OBVIOUS
  <2>1. ~Duplicate("server")
    BY NoDuplicate
  <2>2. HandleData("server")
    BY DEF HandleMessage, HandleAck, HandleDisconnect
  <2>3. delivered["server"] \in Seq(Nat) /\ hand["server"].id \in Nat
    BY EndFacts, InHand DEF TypeOK
  <2>4. delivered'["server"] = Append(delivered["server"], hand["server"].id)
    BY <2>1, <2>2, EndFacts DEF HandleData, TypeOK
  <2> QED
    BY <2>3, <2>4, Appended
<1> QED
  BY <1>1, FirstInvariant, PTL DEF Spec, NoFalseDuplicate

-----------------------------------------------------------------------------
(* Refinement: what the server's onMessage is given and what the client is    *)
(* told keep the promise of AckedDelivery, over all connections and servers.  *)

\* The steps that neither send, deliver nor confirm a message of the client.
LEMMA PromiseQuiet ==
  ASSUME TypeOK, [Next]_vars
  PROVE  \/ Send("client") \/ SendReturn("client") \/ HandleMessage("server")
         \/ UNCHANGED Promise!avars
<1> USE DEF Promise!avars
<1>1. CASE \/ ClientConnect \/ ServerAccept \/ ClientDisconnect \/ ServerStop \/ ServerStart
           \/ ClientRestart \/ RecvTimeout \/ UNCHANGED vars
  BY <1>1 DEF ClientConnect, ServerAccept, ClientDisconnect, ServerStop, ServerStart,
     ClientRestart, RecvTimeout, vars, sendVars
<1>2. ASSUME NEW e \in Ends,
             \/ HeartbeatTimeout(e) \/ RecvEnter(e) \/ RecvFrame(e) \/ RecvFails(e)
             \/ RecvDisconnect(e)
      PROVE  UNCHANGED Promise!avars
  BY <1>2 DEF HeartbeatTimeout, RecvEnter, RecvFrame, RecvFails, RecvDisconnect, sendVars
<1>3. Send("server") => UNCHANGED Promise!avars
  BY EndFacts DEF Send, TypeOK
<1>4. SendReturn("server") => UNCHANGED Promise!avars
  BY EndFacts DEF SendReturn, TypeOK
<1>5. HandleMessage("client") => UNCHANGED Promise!avars
  <2> SUFFICES ASSUME HandleMessage("client") PROVE UNCHANGED Promise!avars
    OBVIOUS
  <2>1. UNCHANGED <<count, confirmed>>
    BY DEF HandleMessage
  <2>2. delivered'["server"] = delivered["server"]
    BY EndFacts DEF HandleMessage, HandleData, HandleAck, HandleDisconnect, TypeOK
  <2> QED
    BY <2>1, <2>2
<1> QED
  BY <1>1, <1>2, <1>3, <1>4, <1>5 DEF Next, Ends

\* A message of the first client that is handled is delivered, after all that
\* were before it.
LEMMA PromiseDelivers ==
  ASSUME TypeOK, OrderInv, FirstClient, replaced = 0, HandleMessage("server")
  PROVE  Promise!Deliver \/ UNCHANGED Promise!avars
<1>1. UNCHANGED <<count, confirmed>>
  BY DEF HandleMessage
<1>2. CASE HandleAck("server") \/ HandleDisconnect("server")
  BY <1>1, <1>2 DEF HandleAck, HandleDisconnect, Promise!avars
<1>3. CASE HandleData("server")
  <2>1. hand["server"].type = "DATA" /\ hand["server"].id \in Nat
    BY <1>3, EndFacts, InHand DEF HandleData
  <2>2. delivered'["server"] = Append(delivered["server"], hand["server"].id)
    BY <1>3, <2>1, NoDuplicate, EndFacts DEF HandleData, TypeOK
  <2>3. hand["server"].id \in 1 .. count["client"]
    BY <2>1, EndFacts DEF OrderInv, EndInv, Sent, Peer
  <2>4. \A i \in DOMAIN delivered["server"] : delivered["server"][i] < hand["server"].id
    BY <2>1, EndFacts DEF OrderInv, EndInv, Ahead
  <2> QED
    BY <1>1, <2>2, <2>3, <2>4 DEF Promise!Deliver
<1> QED
  BY <1>2, <1>3 DEF HandleMessage

\* The messages of the first client process keep the promise of ipc_reliable.h as a
\* whole: numbered one after the other, delivered in order and at most once, and
\* reported as acknowledged only when delivered.  (A second client process breaks
\* it: its numbers start again while the server may still have the old context.)
THEOREM SessionImplements == Spec => ImplementsPromise
<1>1. Init => Promise!Init
  BY EndFacts DEF Init, Promise!Init
<1>2. TypeOK /\ OrderInv /\ FirstClient /\ [Next]_vars => [replaced = 0 => Promise!Next]_(Promise!avars)
  <2> SUFFICES ASSUME TypeOK, OrderInv, FirstClient, [Next]_vars, replaced = 0
               PROVE  Promise!Next \/ UNCHANGED Promise!avars
    OBVIOUS
  <2>1. CASE Send("client")
    <3>1. count'["client"] = count["client"] + 1 /\ UNCHANGED <<delivered, confirmed>>
      BY <2>1, EndFacts DEF Send, TypeOK
    <3> QED
      BY <3>1 DEF Promise!Next, Promise!Issue
  <2>2. CASE SendReturn("client")
    <3>1. UNCHANGED <<count, delivered>>
      BY <2>2 DEF SendReturn
    <3>2. CASE pend["client"].acked
      <4>1. confirmed'["client"] = confirmed["client"] \cup {pend["client"].id}
        BY <2>2, <3>2, EndFacts DEF SendReturn, TypeOK
      <4>2. pend["client"].id \in Elems(delivered["server"])
        BY <3>2 DEF FirstClient
      <4> QED
        BY <3>1, <4>1, <4>2 DEF Elems, Promise!Next, Promise!Confirm
    <3>3. CASE ~pend["client"].acked
      <4>1. confirmed'["client"] = confirmed["client"]
        BY <2>2, <3>3, EndFacts DEF SendReturn, TypeOK
      <4> QED
        BY <3>1, <4>1 DEF Promise!avars
    <3> QED
      BY <3>2, <3>3
  <2>3. CASE HandleMessage("server")
    BY <2>3, PromiseDelivers DEF Promise!Next
  <2> QED
    BY <2>1, <2>2, <2>3, PromiseQuiet
<1> QED
  BY <1>1, <1>2, FirstInvariant, PTL DEF Spec, ImplementsPromise
=============================================================================
