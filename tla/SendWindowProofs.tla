--------------------------- MODULE SendWindowProofs ---------------------------
(* Proofs about SendWindow, for every set of senders, window size and bound. *)
EXTENDS SendWindow, TLAPS

-----------------------------------------------------------------------------
(* Sequences                                                                 *)

\* What Append leaves in place and adds; the channels grow by it.
LEMMA AppendIndex ==
  ASSUME NEW S, NEW s \in Seq(S), NEW e \in S
  PROVE  /\ Append(s, e) \in Seq(S)
         /\ DOMAIN Append(s, e) = 1 .. (Len(s) + 1)
         /\ DOMAIN s = 1 .. Len(s) /\ Len(s) \in Nat
         /\ \A i \in DOMAIN s : Append(s, e)[i] = s[i]
         /\ Append(s, e)[Len(s) + 1] = e
OBVIOUS

\* What Head and Tail return; the channels are read by them.
LEMMA TailIndex ==
  ASSUME NEW S, NEW s \in Seq(S), s # <<>>
  PROVE  /\ Tail(s) \in Seq(S)
         /\ 1 \in DOMAIN s /\ Head(s) = s[1] /\ Head(s) \in S
         /\ \A i \in DOMAIN Tail(s) : i \in Nat /\ i + 1 \in DOMAIN s
                                      /\ Tail(s)[i] = s[i + 1]
OBVIOUS

\* Growing by an element of W, or shrinking, keeps a sequence inside W.
LEMMA AppendWithin ==
  ASSUME NEW S, NEW s \in Seq(S), NEW e \in S, NEW W, e \in W,
         \A i \in DOMAIN s : s[i] \in W
  PROVE  \A i \in DOMAIN Append(s, e) : Append(s, e)[i] \in W
BY AppendIndex

LEMMA TailWithin ==
  ASSUME NEW S, NEW s \in Seq(S), s # <<>>, NEW W,
         \A i \in DOMAIN s : s[i] \in W
  PROVE  Head(s) \in W /\ \A i \in DOMAIN Tail(s) : Tail(s)[i] \in W
BY TailIndex

\* The slot of a number is a slot.
LEMMA SlotOfInSlots == \A s \in Nat : SlotOf(s) \in Slots
BY WindowAssumption DEF SlotOf, Slots

-----------------------------------------------------------------------------
(* Types                                                                     *)

\* Every variable keeps its type.
THEOREM TypeCorrect == Spec => []TypeOK
<1>1. Init => TypeOK
  <2> SUFFICES ASSUME Init PROVE TypeOK
    OBVIOUS
  <2>1. sendWindow \in [Slots -> Entry]
    BY DEF Init, FirstSeq, Entry, NULL
  <2>2. dataChan \in Seq(Frame) /\ ackChan \in Seq(Nat) /\ delivered \in Seq(Nat)
    BY DEF Init, FirstSeq
  <2>3. pc \in [Senders -> {"idle", "fill", "send", "unwind", "wait",
                           "test", "free", "clear"}]
    BY DEF Init, FirstSeq
  <2>4. seq \in [Senders -> Nat] /\ ptr \in [Senders -> Nat] /\ needAck \in [Senders -> BOOLEAN]
    BY DEF Init, FirstSeq, NULL
  <2>5. connected \in BOOLEAN /\ running \in BOOLEAN /\ doubleFree \in BOOLEAN
    BY Zenon DEF Init, FirstSeq
  <2>6. nextSeq \in Nat \ {0} /\ expectedSeq \in Nat /\ owed \in Nat
    BY DEF Init, FirstSeq
  <2>7. /\ heap \in SUBSET Nat /\ written \in SUBSET Nat /\ acksSeen \in SUBSET Nat
        /\ confirmed \in SUBSET Nat
    BY DEF Init, FirstSeq
  <2> QED BY <2>1, <2>2, <2>3, <2>4, <2>5, <2>6, <2>7 DEF TypeOK
<1>2. TypeOK /\ [Next]_vars => TypeOK'
  <2> SUFFICES ASSUME TypeOK, [Next]_vars PROVE TypeOK'
    OBVIOUS
  <2> USE DEF TypeOK, Goto, FreeAndAlloc, NULL, senderVars, windowVars, chanVars,
              peerVars, histVars, linkVars
  <2>1. ASSUME NEW t \in Senders, TakeSeq(t) PROVE TypeOK'
    BY <2>1 DEF TakeSeq
  <2>2. ASSUME NEW t \in Senders, FillSlot(t) PROVE TypeOK'
    <3>1. PICK copy \in {NULL, seq[t]} :
            LET i == SlotOf(seq[t]) IN
            /\ FreeAndAlloc(sendWindow[i].data, {copy} \ {NULL})
            /\ sendWindow' = [sendWindow EXCEPT
                   ![i] = [seq |-> seq[t], data |-> copy, acked |-> FALSE]]
      BY <2>2 DEF FillSlot
    <3>a. copy \in Nat /\ seq[t] \in Nat
      OBVIOUS
    <3>b. [seq |-> seq[t], data |-> copy, acked |-> FALSE] \in Entry
      BY <3>a DEF Entry
    <3>2. sendWindow' \in [Slots -> Entry]
      BY <3>1, <3>b, SlotOfInSlots
    <3>3. heap' \in SUBSET Nat /\ doubleFree' \in BOOLEAN
      BY <3>1
    <3> QED BY <2>2, <3>2, <3>3 DEF FillSlot
  <2>3. ASSUME NEW t \in Senders, Transmit(t) PROVE TypeOK'
    <3>1. dataChan' \in Seq(Frame)
      BY <2>3, AppendIndex DEF Transmit, Frame
    <3>2. pc' \in [Senders -> {"idle", "fill", "send", "unwind", "wait",
                               "test", "free", "clear"}]
      BY <2>3 DEF Transmit
    <3>3. written' \in SUBSET Nat
      BY <2>3 DEF Transmit
    <3>4. UNCHANGED <<nextSeq, seq, needAck, ptr, windowVars, ackChan, peerVars,
                      acksSeen, confirmed, linkVars>>
      BY <2>3 DEF Transmit
    <3> QED BY <3>1, <3>2, <3>3, <3>4
  <2>4. ASSUME NEW t \in Senders, TransmitFails(t) PROVE TypeOK'
    BY <2>4 DEF TransmitFails
  <2>5. ASSUME NEW t \in Senders, Unwind(t) PROVE TypeOK'
    <3>1. sendWindow' \in [Slots -> Entry]
      BY <2>5, SlotOfInSlots DEF Unwind, Entry
    <3>2. heap' \in SUBSET Nat /\ doubleFree' \in BOOLEAN
      BY <2>5 DEF Unwind
    <3> QED BY <2>5, <3>1, <3>2 DEF Unwind
  <2>6. ASSUME NEW t \in Senders, WaitAcked(t) PROVE TypeOK'
    BY <2>6 DEF WaitAcked
  <2>7. ASSUME NEW t \in Senders, WaitTimeout(t) PROVE TypeOK'
    BY <2>7 DEF WaitTimeout
  <2>8. ASSUME NEW t \in Senders, WaitStopped(t) PROVE TypeOK'
    BY <2>8 DEF WaitStopped
  <2>9. ASSUME NEW t \in Senders, CleanupTest(t) PROVE TypeOK'
    <3>1. sendWindow[SlotOf(seq[t])].data \in Nat
      BY SlotOfInSlots DEF Entry
    <3> QED BY <2>9, <3>1 DEF CleanupTest
  <2>10. ASSUME NEW t \in Senders, CleanupFree(t) PROVE TypeOK'
    <3>1. heap' \in SUBSET Nat /\ doubleFree' \in BOOLEAN
      BY <2>10 DEF CleanupFree
    <3> QED BY <2>10, <3>1 DEF CleanupFree
  <2>11. ASSUME NEW t \in Senders, CleanupClear(t) PROVE TypeOK'
    BY <2>11, SlotOfInSlots DEF CleanupClear, Entry
  <2>12. ASSUME RecvAck PROVE TypeOK'
    <3>1. Head(ackChan) \in Nat /\ Tail(ackChan) \in Seq(Nat)
      BY <2>12, TailIndex DEF RecvAck
    <3>2. CASE UNCHANGED windowVars
      BY <2>12, <3>1, <3>2 DEF RecvAck
    <3>3. ASSUME NEW i \in Slots, FreeAndAlloc(sendWindow[i].data, {}),
                 sendWindow' = [sendWindow EXCEPT
                     ![i] = [@ EXCEPT !.acked = TRUE, !.data = NULL]]
          PROVE TypeOK'
      <4>1. [sendWindow[i] EXCEPT !.acked = TRUE, !.data = NULL] \in Entry
        BY DEF Entry
      <4>2. sendWindow' \in [Slots -> Entry]
        BY <3>3, <4>1
      <4>3. heap' \in SUBSET Nat /\ doubleFree' \in BOOLEAN
        BY <3>3
      <4> QED BY <2>12, <3>1, <4>2, <4>3 DEF RecvAck
    <3> QED BY <2>12, <3>2, <3>3 DEF RecvAck, FirstMatch
  <2>13. ASSUME PeerHandleData PROVE TypeOK'
    <3>1. Head(dataChan) \in Frame /\ Tail(dataChan) \in Seq(Frame)
      BY <2>13, TailIndex DEF PeerHandleData
    <3>2. Append(delivered, Head(dataChan).seq) \in Seq(Nat)
      BY <3>1, AppendIndex DEF Frame
    <3>3. /\ expectedSeq' = expectedSeq \/ expectedSeq' = Head(dataChan).seq + 1
          /\ delivered' = delivered \/ delivered' = Append(delivered, Head(dataChan).seq)
      BY <2>13 DEF PeerHandleData
    <3>4. owed' \in Nat
      BY <2>13, <3>1 DEF PeerHandleData, Frame
    <3>5. expectedSeq' \in Nat
      BY <3>1, <3>3 DEF Frame
    <3>6. delivered' \in Seq(Nat)
      BY <3>2, <3>3
    <3> QED BY <2>13, <3>1, <3>4, <3>5, <3>6 DEF PeerHandleData
  <2>14. ASSUME PeerChecksumMismatch PROVE TypeOK'
    <3>1. Tail(dataChan) \in Seq(Frame)
      BY <2>14, TailIndex DEF PeerChecksumMismatch
    <3> QED BY <2>14, <3>1 DEF PeerChecksumMismatch
  <2>15. ASSUME PeerAnswer PROVE TypeOK'
    <3>1. Append(ackChan, owed) \in Seq(Nat)
      BY AppendIndex
    <3>2. ackChan' \in Seq(Nat)
      BY <2>15, <3>1 DEF PeerAnswer
    <3> QED BY <2>15, <3>2 DEF PeerAnswer
  <2>16. ASSUME PeerSendAck PROVE TypeOK'
    <3>1. \A i \in DOMAIN delivered : delivered[i] \in Nat
      OBVIOUS
    <3>2. ackChan' \in Seq(Nat)
      BY <2>16, <3>1, AppendIndex DEF PeerSendAck
    <3> QED BY <2>16, <3>2 DEF PeerSendAck
  <2>17. ASSUME Break PROVE TypeOK'
    BY <2>17 DEF Break
  <2>18. ASSUME Stop PROVE TypeOK'
    BY <2>18 DEF Stop
  <2>19. CASE UNCHANGED vars
    BY <2>19 DEF vars
  <2> QED
    BY <2>1, <2>2, <2>3, <2>4, <2>5, <2>6, <2>7, <2>8, <2>9, <2>10, <2>11, <2>12,
       <2>13, <2>14, <2>15, <2>16, <2>17, <2>18, <2>19 DEF Next, SenderStep, PeerStep
<1> QED
  BY <1>1, <1>2, PTL DEF Spec

-----------------------------------------------------------------------------
(* In-order delivery                                                         *)

\* What was delivered lies below the number the peer expects next.
DeliveredBelow == \A i \in DOMAIN delivered : delivered[i] < expectedSeq

\* The peer's onMessage never sees a number twice, nor one out of order,
\* whatever the senders, the losses and the moment the connection ends.
THEOREM InOrder == Spec => [](DeliveredInOrder /\ DeliveredBelow)
<1> DEFINE Inv == DeliveredInOrder /\ DeliveredBelow
<1>1. Init => Inv
  BY DEF Init, FirstSeq, DeliveredInOrder, DeliveredBelow
<1>2. TypeOK /\ Inv /\ [Next]_vars => Inv'
  <2> SUFFICES ASSUME TypeOK, Inv, [Next]_vars PROVE Inv'
    OBVIOUS
  <2>1. \/ UNCHANGED <<expectedSeq, delivered>>
        \/ /\ dataChan # <<>> /\ ~(Head(dataChan).seq < expectedSeq)
           /\ expectedSeq' = Head(dataChan).seq + 1
           /\ delivered' = Append(delivered, Head(dataChan).seq)
    BY DEF Next, vars, SenderStep, PeerStep, TakeSeq, FillSlot, Transmit, TransmitFails,
           Unwind, WaitAcked, WaitTimeout, WaitStopped, CleanupTest, CleanupFree,
           CleanupClear, RecvAck, PeerHandleData, PeerChecksumMismatch, PeerAnswer,
           PeerSendAck, Break, Stop, peerVars
  <2>2. CASE UNCHANGED <<expectedSeq, delivered>>
    BY <2>2 DEF DeliveredInOrder, DeliveredBelow
  <2>3. CASE /\ dataChan # <<>> /\ ~(Head(dataChan).seq < expectedSeq)
             /\ expectedSeq' = Head(dataChan).seq + 1
             /\ delivered' = Append(delivered, Head(dataChan).seq)
    <3> DEFINE s == Head(dataChan).seq
    <3>1. s \in Nat /\ expectedSeq \in Nat
      <4>1. dataChan \in Seq(Frame)
        BY DEF TypeOK
      <4>2. Head(dataChan) \in Frame
        BY <2>3, <4>1, TailIndex
      <4> QED BY <4>2 DEF TypeOK, Frame
    <3>2. \A i \in DOMAIN delivered : delivered[i] \in Nat /\ delivered[i] < s
      BY <2>3, <3>1 DEF TypeOK, DeliveredBelow
    <3>3. /\ DOMAIN delivered' = 1 .. (Len(delivered) + 1)
          /\ DOMAIN delivered = 1 .. Len(delivered) /\ Len(delivered) \in Nat
          /\ \A i \in DOMAIN delivered : delivered'[i] = delivered[i]
          /\ delivered'[Len(delivered) + 1] = s
      <4>1. delivered \in Seq(Nat) /\ delivered' = Append(delivered, s)
        BY <2>3 DEF TypeOK
      <4> QED BY <3>1, <4>1, AppendIndex
    <3>4. expectedSeq' = s + 1
      BY <2>3
    <3> HIDE DEF s
    <3>5. DeliveredInOrder'
      BY <3>2, <3>3 DEF DeliveredInOrder
    <3>6. DeliveredBelow'
      BY <3>1, <3>2, <3>3, <3>4 DEF DeliveredBelow
    <3> QED BY <3>5, <3>6
  <2> QED BY <2>1, <2>2, <2>3
<1> QED
  BY <1>1, <1>2, TypeCorrect, PTL DEF Spec

-----------------------------------------------------------------------------
(* Where a number can be                                                     *)

\* A call that has not sent its frame yet holds a number nobody else holds or
\* has sent; every number met on the way was sent.
Numbers ==
    /\ \A t \in Senders : seq[t] < nextSeq
    /\ \A t \in Senders : pc[t] # "idle" => seq[t] # 0
    /\ \A t, u \in Senders : t # u => seq[t] = 0 \/ seq[t] # seq[u]
    /\ \A t \in Senders : pc[t] \in {"fill", "send"} => seq[t] \notin written

Causal ==
    /\ \A s \in written : s # 0 /\ s < nextSeq
    /\ \A i \in DOMAIN dataChan : dataChan[i].seq \in written
    /\ owed # 0 => owed \in written
    /\ \A i \in DOMAIN delivered : delivered[i] \in written
    /\ \A i \in DOMAIN ackChan : ackChan[i] \in written
    /\ acksSeen \subseteq written

\* A slot holds a number of its own residue (or none yet), and is marked only
\* after that number's ACK.
Filed ==
    \A i \in Slots :
        /\ sendWindow[i].seq # 0 => SlotOf(sendWindow[i].seq) = i
        /\ sendWindow[i].acked => sendWindow[i].seq \in acksSeen

\* Numbers and Causal are preserved together: a fresh number is above all sent
\* ones, a sent one stays below nextSeq.
LEMMA NumbersCausal == Spec => [](Numbers /\ Causal)
<1> DEFINE Inv == Numbers /\ Causal
<1>1. Init => Inv
  BY DEF Init, FirstSeq, Numbers, Causal
<1>2. TypeOK /\ Inv /\ [Next]_vars => Inv'
  <2> SUFFICES ASSUME TypeOK, Inv, [Next]_vars PROVE Inv'
    OBVIOUS
  <2> USE DEF senderVars, windowVars, chanVars, peerVars, histVars, linkVars, Goto
  <2>t. /\ nextSeq \in Nat /\ \A t \in Senders : seq[t] \in Nat
        /\ dataChan \in Seq(Frame) /\ ackChan \in Seq(Nat) /\ delivered \in Seq(Nat)
        /\ written \subseteq Nat /\ owed \in Nat
    BY DEF TypeOK
  <2>1. ASSUME NEW t \in Senders, TakeSeq(t) PROVE Inv'
    <3>1. /\ pc[t] = "idle" /\ nextSeq' = nextSeq + 1
          /\ seq' = [seq EXCEPT ![t] = nextSeq]
          /\ \A u \in Senders : u # t => pc'[u] = pc[u]
          /\ UNCHANGED <<written, dataChan, owed, delivered, ackChan, acksSeen>>
      BY <2>1 DEF TakeSeq, TypeOK
    <3>2. Numbers'
      BY <2>t, <3>1 DEF Numbers, Causal, TypeOK
    <3>3. Causal'
      BY <2>t, <3>1 DEF Causal
    <3> QED BY <3>2, <3>3
  <2>2. ASSUME NEW t \in Senders, Transmit(t) PROVE Inv'
    <3>1. /\ pc[t] = "send" /\ written' = written \cup {seq[t]}
          /\ pc'[t] \in {"wait", "idle"}
          /\ \A u \in Senders : u # t => pc'[u] = pc[u]
          /\ UNCHANGED <<nextSeq, seq, owed, delivered, ackChan, acksSeen>>
      BY <2>2 DEF Transmit, TypeOK
    <3>2. Numbers'
      BY <2>t, <3>1 DEF Numbers
    <3>3. \A i \in DOMAIN dataChan' : dataChan'[i].seq \in written'
      <4>1. [seq |-> seq[t], needAck |-> needAck[t]] \in Frame
        BY DEF TypeOK, Frame
      <4>2. dataChan' = Append(dataChan, [seq |-> seq[t], needAck |-> needAck[t]])
        BY <2>2 DEF Transmit
      <4> QED BY <2>t, <3>1, <4>1, <4>2, AppendIndex DEF Causal
    <3>4. Causal'
      BY <2>t, <3>1, <3>3 DEF Causal, Numbers
    <3> QED BY <3>2, <3>4
  <2>3. ASSUME NEW t \in Senders,
               \/ FillSlot(t) \/ TransmitFails(t) \/ Unwind(t) \/ WaitAcked(t)
               \/ WaitTimeout(t) \/ WaitStopped(t) \/ CleanupTest(t)
               \/ CleanupFree(t) \/ CleanupClear(t)
        PROVE  Inv'
    <3>1. /\ pc[t] # "idle"
          /\ pc'[t] \in {"fill", "send"} => pc[t] \in {"fill", "send"}
          /\ \A u \in Senders : u # t => pc'[u] = pc[u]
          /\ UNCHANGED <<nextSeq, seq, written, dataChan, owed, delivered, ackChan, acksSeen>>
      BY <2>3 DEF FillSlot, TransmitFails, Unwind, WaitAcked, WaitTimeout, WaitStopped,
                  CleanupTest, CleanupFree, CleanupClear, TypeOK
    <3>2. Numbers'
      BY <3>1 DEF Numbers
    <3>3. Causal'
      BY <3>1 DEF Causal
    <3> QED BY <3>2, <3>3
  <2>4. ASSUME RecvAck PROVE Inv'
    <3>1. /\ ackChan # <<>> /\ acksSeen' = acksSeen \cup {Head(ackChan)}
          /\ ackChan' = Tail(ackChan)
          /\ UNCHANGED <<nextSeq, seq, pc, written, dataChan, owed, delivered>>
      BY <2>4 DEF RecvAck
    <3>2. Numbers'
      BY <3>1 DEF Numbers
    <3>3. \A i \in DOMAIN ackChan : ackChan[i] \in written
      BY DEF Causal
    <3>4. Head(ackChan) \in written /\ \A i \in DOMAIN ackChan' : ackChan'[i] \in written
      BY <2>t, <3>1, <3>3, TailWithin
    <3>5. Causal'
      BY <3>1, <3>4 DEF Causal
    <3> QED BY <3>2, <3>5
  <2>5. ASSUME PeerHandleData \/ PeerChecksumMismatch PROVE Inv'
    <3>1. /\ dataChan # <<>> /\ dataChan' = Tail(dataChan)
          /\ owed' \in {owed, Head(dataChan).seq, 0}
          /\ delivered' = delivered \/ delivered' = Append(delivered, Head(dataChan).seq)
          /\ UNCHANGED <<nextSeq, seq, pc, written, ackChan, acksSeen>>
      BY <2>5 DEF PeerHandleData, PeerChecksumMismatch
    <3>2. Numbers'
      BY <3>1 DEF Numbers
    <3>3. /\ Head(dataChan) = dataChan[1] /\ 1 \in DOMAIN dataChan
          /\ Head(dataChan).seq \in written /\ Head(dataChan).seq \in Nat
      BY <2>t, <3>1, TailIndex DEF Causal, Frame
    <3>4. \A i \in DOMAIN dataChan' : dataChan'[i].seq \in written'
      BY <2>t, <3>1, TailIndex DEF Causal
    <3>5. \A i \in DOMAIN delivered' : delivered'[i] \in written'
      <4>1. \A i \in DOMAIN delivered : delivered[i] \in written
        BY DEF Causal
      <4>2. \A i \in DOMAIN Append(delivered, Head(dataChan).seq) :
                Append(delivered, Head(dataChan).seq)[i] \in written
        BY <2>t, <3>3, <4>1, AppendWithin
      <4> QED BY <3>1, <4>1, <4>2
    <3>6. Causal'
      BY <3>1, <3>3, <3>4, <3>5 DEF Causal
    <3> QED BY <3>2, <3>6
  <2>6. ASSUME PeerAnswer \/ PeerSendAck PROVE Inv'
    <3>1. /\ \/ ackChan' = ackChan
             \/ owed # 0 /\ ackChan' = Append(ackChan, owed)
             \/ \E i \in DOMAIN delivered : ackChan' = Append(ackChan, delivered[i])
          /\ owed' \in {owed, 0}
          /\ UNCHANGED <<nextSeq, seq, pc, written, dataChan, delivered, acksSeen>>
      BY <2>6 DEF PeerAnswer, PeerSendAck
    <3>2. Numbers'
      BY <3>1 DEF Numbers
    <3>3. ackChan' = ackChan \/ \E s \in written : ackChan' = Append(ackChan, s)
      BY <3>1 DEF Causal
    <3>4. \A i \in DOMAIN ackChan' : ackChan'[i] \in written'
      <4>1. \A i \in DOMAIN ackChan : ackChan[i] \in written
        BY DEF Causal
      <4>2. ASSUME NEW s \in written
            PROVE  \A i \in DOMAIN Append(ackChan, s) : Append(ackChan, s)[i] \in written
        <5>1. s \in Nat
          BY <2>t
        <5> QED BY <2>t, <4>1, <5>1, AppendWithin
      <4> QED BY <3>1, <3>3, <4>1, <4>2
    <3>5. Causal'
      BY <3>1, <3>4 DEF Causal
    <3> QED BY <3>2, <3>5
  <2>7. CASE UNCHANGED <<nextSeq, seq, pc, written, dataChan, owed, delivered, ackChan, acksSeen>>
    BY <2>7 DEF Numbers, Causal
  <2>8. Break \/ Stop \/ UNCHANGED vars =>
            UNCHANGED <<nextSeq, seq, pc, written, dataChan, owed, delivered, ackChan, acksSeen>>
    BY DEF Break, Stop, vars
  <2> QED
    BY <2>1, <2>2, <2>3, <2>4, <2>5, <2>6, <2>7, <2>8 DEF Next, SenderStep, PeerStep
<1> QED
  BY <1>1, <1>2, TypeCorrect, PTL DEF Spec

-----------------------------------------------------------------------------
(* The window                                                                *)

\* How a step can touch the slots: FillSlot files a message, RecvAck marks the
\* slots that match the ACK, and anything else writes data fields only.
LEMMA SlotSteps ==
  ASSUME TypeOK, [Next]_vars
  PROVE  \/ \E t \in Senders : FillSlot(t)
         \/ RecvAck
         \/ /\ \A i \in Slots : /\ sendWindow'[i].seq = sendWindow[i].seq
                                /\ sendWindow'[i].acked = sendWindow[i].acked
            /\ acksSeen' = acksSeen
<1> USE DEF senderVars, windowVars, chanVars, peerVars, histVars, linkVars
<1> DEFINE Data == \A i \in Slots : /\ sendWindow'[i].seq = sendWindow[i].seq
                                    /\ sendWindow'[i].acked = sendWindow[i].acked
<1>1. ASSUME NEW t \in Senders, Unwind(t) \/ CleanupClear(t) PROVE Data /\ acksSeen' = acksSeen
  <2>1. \E j \in Slots : sendWindow' = [sendWindow EXCEPT ![j].data = NULL]
    BY <1>1, SlotOfInSlots DEF Unwind, CleanupClear, TypeOK
  <2>2. acksSeen' = acksSeen
    BY <1>1 DEF Unwind, CleanupClear
  <2> QED BY <2>1, <2>2 DEF TypeOK, Entry
<1>2. \/ \E t \in Senders : FillSlot(t) \/ Unwind(t) \/ CleanupClear(t)
      \/ RecvAck
      \/ UNCHANGED <<sendWindow, acksSeen>>
  BY DEF Next, vars, SenderStep, PeerStep, TakeSeq, Transmit, TransmitFails, WaitAcked,
         WaitTimeout, WaitStopped, CleanupTest, CleanupFree, PeerHandleData,
         PeerChecksumMismatch, PeerAnswer, PeerSendAck, Break, Stop
<1> QED BY <1>1, <1>2

\* What RecvAck does to the slots, whether or not one matches.
LEMMA RecvAckSlots ==
  ASSUME TypeOK, Filed, RecvAck, Head(ackChan) # 0
  PROVE  /\ acksSeen' = acksSeen \cup {Head(ackChan)}
         /\ \A i \in Slots :
              /\ sendWindow'[i].seq = sendWindow[i].seq
              /\ sendWindow'[i].acked =
                    (sendWindow[i].acked \/ sendWindow[i].seq = Head(ackChan))
<1> DEFINE a == Head(ackChan)
<1>1. acksSeen' = acksSeen \cup {a}
  BY DEF RecvAck
<1>2. \A i, j \in Slots : sendWindow[i].seq = a /\ sendWindow[j].seq = a => i = j
  BY DEF Filed
<1>3. CASE \A i \in Slots : sendWindow[i].seq # a
  <2>1. sendWindow' = sendWindow
    BY <1>3 DEF RecvAck, FirstMatch, windowVars
  <2> QED BY <1>1, <1>3, <2>1 DEF TypeOK, Entry
<1>4. ASSUME NEW i \in Slots, sendWindow[i].seq = a
      PROVE  /\ \A j \in Slots :
                   /\ sendWindow'[j].seq = sendWindow[j].seq
                   /\ sendWindow'[j].acked = (sendWindow[j].acked \/ sendWindow[j].seq = a)
  <2>1. FirstMatch(a) = {i}
    BY <1>2, <1>4 DEF FirstMatch, Slots
  <2>2. sendWindow' = [sendWindow EXCEPT ![i] = [@ EXCEPT !.acked = TRUE, !.data = NULL]]
    BY <2>1 DEF RecvAck
  <2>3. ASSUME NEW j \in Slots, j # i
        PROVE  sendWindow'[j] = sendWindow[j] /\ sendWindow[j].seq # a
                 /\ sendWindow[j].acked \in BOOLEAN
    BY <1>2, <1>4, <2>2, <2>3 DEF TypeOK, Entry
  <2>4. sendWindow'[i].seq = sendWindow[i].seq /\ sendWindow'[i].acked = TRUE
    BY <2>2 DEF TypeOK, Entry
  <2> QED BY <1>4, <2>3, <2>4
<1> QED BY <1>1, <1>3, <1>4

\* What FillSlot does to the slots.
LEMMA FillSlotSlots ==
  ASSUME TypeOK, NEW t \in Senders, FillSlot(t)
  PROVE  /\ seq[t] \in Nat /\ SlotOf(seq[t]) \in Slots
         /\ sendWindow'[SlotOf(seq[t])].seq = seq[t]
         /\ sendWindow'[SlotOf(seq[t])].acked = FALSE
         /\ \A i \in Slots : i # SlotOf(seq[t]) => sendWindow'[i] = sendWindow[i]
         /\ UNCHANGED <<seq, acksSeen, confirmed>>
<1>1. seq[t] \in Nat /\ SlotOf(seq[t]) \in Slots
  BY SlotOfInSlots DEF TypeOK
<1>2. \E copy : sendWindow' = [sendWindow EXCEPT
          ![SlotOf(seq[t])] = [seq |-> seq[t], data |-> copy, acked |-> FALSE]]
  BY DEF FillSlot
<1> QED BY <1>1, <1>2 DEF FillSlot, TypeOK, histVars

\* Slots are filed under their residue, and marked only by their ACK.
LEMMA FiledInv == Spec => []Filed
<1>1. Init => Filed
  BY DEF Init, FirstSeq, Filed
<1>2. TypeOK /\ Causal /\ Filed /\ [Next]_vars => Filed'
  <2> SUFFICES ASSUME TypeOK, Causal, Filed, [Next]_vars PROVE Filed'
    OBVIOUS
  <2>1. ASSUME NEW t \in Senders, FillSlot(t) PROVE Filed'
    BY <2>1, FillSlotSlots DEF Filed
  <2>2. ASSUME RecvAck PROVE Filed'
    <3>1. ackChan \in Seq(Nat) /\ ackChan # <<>>
      BY <2>2 DEF RecvAck, TypeOK
    <3>2. 1 \in DOMAIN ackChan /\ Head(ackChan) = ackChan[1]
      BY <3>1, TailIndex
    <3>3. ackChan[1] \in written /\ \A s \in written : s # 0
      BY <3>2 DEF Causal
    <3> QED BY <2>2, <3>2, <3>3, RecvAckSlots DEF Filed
  <2>3. CASE /\ \A i \in Slots : /\ sendWindow'[i].seq = sendWindow[i].seq
                                /\ sendWindow'[i].acked = sendWindow[i].acked
             /\ acksSeen' = acksSeen
    BY <2>3 DEF Filed
  <2> QED BY <2>1, <2>2, <2>3, SlotSteps
<1> QED BY <1>1, <1>2, TypeCorrect, NumbersCausal, PTL DEF Spec

\* An ACK the receive thread has processed reaches the call that waits for it,
\* unless another message took the slot: broadcast, timeouts, late ACKs of
\* earlier users of the slot and unlocked cleanups notwithstanding.
THEOREM AckKept == Spec => []AckNotLost
<1>1. Init => AckNotLost
  BY DEF Init, FirstSeq, AckNotLost
<1>2. TypeOK /\ Numbers /\ Causal /\ Filed /\ AckNotLost /\ [Next]_vars => AckNotLost'
  <2> SUFFICES ASSUME TypeOK, Numbers, Causal, Filed, AckNotLost, [Next]_vars,
                      NEW t \in Senders, pc'[t] = "wait", seq'[t] \in acksSeen'
               PROVE  LET e == sendWindow'[SlotOf(seq'[t])] IN e.acked \/ e.seq # seq'[t]
    BY DEF AckNotLost
  <2> DEFINE i == SlotOf(seq[t])
  <2>t. i \in Slots /\ seq[t] \in Nat
    BY SlotOfInSlots DEF TypeOK
  <2>1. seq'[t] = seq[t] /\ (pc[t] = "wait" \/ (pc[t] = "send" /\ acksSeen' = acksSeen))
    <3>1. ASSUME NEW u \in Senders, SenderStep(u)
          PROVE  /\ seq' = seq /\ acksSeen' = acksSeen
                 /\ \E l : pc' = [pc EXCEPT ![u] = l] /\ (l = "wait" => pc[u] = "send")
      BY <3>1 DEF SenderStep, FillSlot, Transmit, TransmitFails, Unwind, WaitAcked,
                  WaitTimeout, WaitStopped, CleanupTest, CleanupFree, CleanupClear, Goto,
                  histVars
    <3>2. ASSUME NEW u \in Senders, SenderStep(u)
          PROVE  pc[t] = "wait" \/ pc[t] = "send"
      BY <3>1, <3>2 DEF TypeOK
    <3>3. ASSUME NEW u \in Senders, TakeSeq(u) PROVE seq'[t] = seq[t] /\ pc[t] = "wait"
      BY <3>3 DEF TakeSeq, Goto, TypeOK
    <3>4. CASE UNCHANGED senderVars
      BY <3>4 DEF senderVars
    <3> QED
      BY <3>1, <3>2, <3>3, <3>4
         DEF Next, PeerStep, RecvAck, PeerHandleData, PeerChecksumMismatch, PeerAnswer,
             PeerSendAck, Break, Stop, vars
  <2>2. pc[t] = "wait"
    BY <2>1 DEF Numbers, Causal
  <2>3. ASSUME NEW u \in Senders, FillSlot(u)
        PROVE  sendWindow'[i].acked \/ sendWindow'[i].seq # seq[t]
    <3>1. u # t /\ seq[u] # seq[t] /\ acksSeen' = acksSeen
      BY <2>2, <2>3, FillSlotSlots DEF FillSlot, Numbers
    <3>2. CASE i = SlotOf(seq[u])
      BY <2>3, <3>1, <3>2, FillSlotSlots
    <3>3. CASE i # SlotOf(seq[u])
      BY <2>t, <2>1, <2>2, <2>3, <3>1, <3>3, FillSlotSlots DEF AckNotLost
    <3> QED BY <3>2, <3>3
  <2>4. ASSUME RecvAck PROVE sendWindow'[i].acked \/ sendWindow'[i].seq # seq[t]
    <3>1. Head(ackChan) # 0
      <4>1. ackChan \in Seq(Nat) /\ ackChan # <<>>
        BY <2>4 DEF RecvAck, TypeOK
      <4>2. Head(ackChan) \in written
        BY <4>1, TailIndex DEF Causal
      <4> QED BY <4>2 DEF Causal
    <3>2. /\ acksSeen' = acksSeen \cup {Head(ackChan)}
          /\ sendWindow'[i].seq = sendWindow[i].seq
          /\ sendWindow'[i].acked =
                (sendWindow[i].acked \/ sendWindow[i].seq = Head(ackChan))
      BY <2>t, <2>4, <3>1, RecvAckSlots
    <3>3. seq[t] \in acksSeen \/ seq[t] = Head(ackChan)
      BY <2>1, <3>2
    <3> QED BY <2>2, <3>2, <3>3 DEF AckNotLost
  <2>5. ASSUME /\ \A j \in Slots : /\ sendWindow'[j].seq = sendWindow[j].seq
                                  /\ sendWindow'[j].acked = sendWindow[j].acked
               /\ acksSeen' = acksSeen
        PROVE  sendWindow'[i].acked \/ sendWindow'[i].seq # seq[t]
    <3>1. seq[t] \in acksSeen
      BY <2>1, <2>5
    <3>2. sendWindow[i].acked \/ sendWindow[i].seq # seq[t]
      BY <2>2, <3>1 DEF AckNotLost
    <3>3. /\ sendWindow'[i].seq = sendWindow[i].seq
          /\ sendWindow'[i].acked = sendWindow[i].acked
      BY <2>t, <2>5
    <3> QED BY <3>2, <3>3
  <2>6. sendWindow'[i].acked \/ sendWindow'[i].seq # seq[t]
    BY <2>3, <2>4, <2>5, SlotSteps
  <2>7. SlotOf(seq'[t]) = i
    BY <2>1
  <2> QED BY <2>1, <2>6, <2>7
<1> QED BY <1>1, <1>2, TypeCorrect, NumbersCausal, FiledInv, PTL DEF Spec

\* IPC_OK for an acknowledged message is backed by an ACK of the same slot.
THEOREM OkBacked == Spec => []OkMeansAckedOrOverrun
<1>1. Init => OkMeansAckedOrOverrun
  BY DEF Init, FirstSeq, OkMeansAckedOrOverrun
<1>2. TypeOK /\ Causal /\ Filed /\ OkMeansAckedOrOverrun /\ [Next]_vars
        => OkMeansAckedOrOverrun'
  <2> SUFFICES ASSUME TypeOK, Causal, Filed, OkMeansAckedOrOverrun, [Next]_vars
               PROVE  OkMeansAckedOrOverrun'
    OBVIOUS
  <2>1. /\ acksSeen \subseteq acksSeen'
        /\ \/ confirmed' = confirmed
           \/ \E t \in Senders : /\ sendWindow[SlotOf(seq[t])].acked
                                 /\ confirmed' = confirmed \cup {seq[t]}
    BY DEF Next, vars, SenderStep, PeerStep, TakeSeq, FillSlot, Transmit, TransmitFails,
           Unwind, WaitAcked, WaitTimeout, WaitStopped, CleanupTest, CleanupFree,
           CleanupClear, RecvAck, PeerHandleData, PeerChecksumMismatch, PeerAnswer,
           PeerSendAck, Break, Stop, histVars
  <2>2. ASSUME NEW t \in Senders, sendWindow[SlotOf(seq[t])].acked
        PROVE  \E a \in acksSeen : SlotOf(a) = SlotOf(seq[t])
    <3>1. SlotOf(seq[t]) \in Slots
      BY SlotOfInSlots DEF TypeOK
    <3>2. sendWindow[SlotOf(seq[t])].seq \in acksSeen
      BY <2>2, <3>1 DEF Filed
    <3>3. sendWindow[SlotOf(seq[t])].seq # 0
      BY <3>2 DEF Causal
    <3> QED BY <3>1, <3>2, <3>3 DEF Filed
  <2> QED BY <2>1, <2>2 DEF OkMeansAckedOrOverrun
<1> QED BY <1>1, <1>2, TypeCorrect, NumbersCausal, FiledInv, PTL DEF Spec

-----------------------------------------------------------------------------
(* A single thread sends: IPC_OK then means what the documentation says, and  *)
(* the path implements AckedDelivery.                                        *)

\* The slot of an acknowledged call in progress is still its own.
Owner ==
    \A t \in Senders :
        pc[t] = "wait" \/ (pc[t] = "send" /\ needAck[t]) =>
            sendWindow[SlotOf(seq[t])].seq = seq[t]

\* Frames travel in the order of their numbers, and none is behind the peer.
Ordered ==
    /\ \A i, j \in DOMAIN dataChan : i < j => dataChan[i].seq < dataChan[j].seq
    /\ \A i \in DOMAIN dataChan : expectedSeq =< dataChan[i].seq
    /\ \A t \in Senders : pc[t] \in {"fill", "send"} =>
           expectedSeq =< seq[t] /\ \A s \in written : s < seq[t]
    /\ expectedSeq =< nextSeq

Got(s) == \E i \in DOMAIN delivered : delivered[i] = s

\* Only what the peer's onMessage was given is acknowledged.
Received ==
    /\ owed # 0 => Got(owed)
    /\ \A i \in DOMAIN ackChan : Got(ackChan[i])
    /\ \A s \in acksSeen : Got(s)

-----------------------------------------------------------------------------

\* The owner of a slot keeps it until its call returns.
LEMMA OwnerInv == ASSUME SingleSender PROVE Spec => []Owner
<1>1. Init => Owner
  BY DEF Init, FirstSeq, Owner
<1>2. TypeOK /\ Owner /\ [Next]_vars => Owner'
  <2> SUFFICES ASSUME TypeOK, Owner, [Next]_vars, NEW t \in Senders,
                      pc'[t] = "wait" \/ (pc'[t] = "send" /\ needAck'[t])
               PROVE  sendWindow'[SlotOf(seq'[t])].seq = seq'[t]
    BY DEF Owner
  <2>1. SlotOf(seq[t]) \in Slots
    BY SlotOfInSlots DEF TypeOK
  <2>2. \/ FillSlot(t)
        \/ /\ UNCHANGED seq
           /\ pc[t] = "wait" \/ (pc[t] = "send" /\ needAck[t])
    <3>1. ASSUME NEW u \in Senders, TakeSeq(u) \/ SenderStep(u)
          PROVE  TakeSeq(t) \/ SenderStep(t)
      BY <3>1 DEF SingleSender
    <3>2. ~TakeSeq(t)
      BY DEF TakeSeq, Goto, TypeOK
    <3>3. SenderStep(t) => \/ FillSlot(t)
                           \/ /\ UNCHANGED seq
                              /\ pc[t] = "wait" \/ (pc[t] = "send" /\ needAck[t])
      BY DEF SenderStep, Transmit, TransmitFails, Unwind, WaitAcked, WaitTimeout,
             WaitStopped, CleanupTest, CleanupFree, CleanupClear, Goto, TypeOK
    <3>4. (\E u \in Senders : TakeSeq(u) \/ SenderStep(u)) \/ UNCHANGED <<seq, pc, needAck>>
      BY DEF Next, vars, PeerStep, RecvAck, PeerHandleData, PeerChecksumMismatch,
             PeerAnswer, PeerSendAck, Break, Stop, senderVars
    <3> QED BY <3>1, <3>2, <3>3, <3>4
  <2>3. CASE FillSlot(t)
    BY <2>3, FillSlotSlots
  <2>4. CASE /\ UNCHANGED seq
             /\ pc[t] = "wait" \/ (pc[t] = "send" /\ needAck[t])
    <3>1. sendWindow[SlotOf(seq[t])].seq = seq[t]
      BY <2>4 DEF Owner
    <3>2. ASSUME NEW u \in Senders, FillSlot(u) PROVE FALSE
      BY <2>4, <3>2 DEF SingleSender, FillSlot
    <3>3. RecvAck => sendWindow'[SlotOf(seq[t])].seq = sendWindow[SlotOf(seq[t])].seq
      <4> SUFFICES ASSUME RecvAck
                   PROVE  sendWindow'[SlotOf(seq[t])].seq = sendWindow[SlotOf(seq[t])].seq
        OBVIOUS
      <4>1. \/ sendWindow' = sendWindow
            \/ \E i \in Slots : sendWindow' = [sendWindow EXCEPT
                                   ![i] = [@ EXCEPT !.acked = TRUE, !.data = NULL]]
        BY DEF RecvAck, FirstMatch, windowVars
      <4>2. ASSUME NEW i \in Slots, sendWindow' = [sendWindow EXCEPT
                                   ![i] = [@ EXCEPT !.acked = TRUE, !.data = NULL]]
            PROVE  \A j \in Slots : sendWindow'[j].seq = sendWindow[j].seq
        BY <4>2 DEF TypeOK, Entry
      <4> QED BY <2>1, <4>1, <4>2
    <3> QED BY <2>1, <2>4, <3>1, <3>2, <3>3, SlotSteps
  <2> QED BY <2>2, <2>3, <2>4
<1> QED BY <1>1, <1>2, TypeCorrect, PTL DEF Spec

\* With one sender IPC_OK means the ACK of this very message was processed.
THEOREM OneOkAcked == ASSUME SingleSender PROVE Spec => []OkMeansAcked
<1>1. Init => OkMeansAcked
  BY DEF Init, FirstSeq, OkMeansAcked
<1>2. TypeOK /\ Filed /\ Owner /\ OkMeansAcked /\ [Next]_vars => OkMeansAcked'
  <2> SUFFICES ASSUME TypeOK, Filed, Owner, OkMeansAcked, [Next]_vars PROVE OkMeansAcked'
    OBVIOUS
  <2>1. /\ acksSeen \subseteq acksSeen'
        /\ \/ confirmed' = confirmed
           \/ \E t \in Senders : /\ sendWindow[SlotOf(seq[t])].acked /\ pc[t] = "wait"
                                 /\ confirmed' = confirmed \cup {seq[t]}
    BY DEF Next, vars, SenderStep, PeerStep, TakeSeq, FillSlot, Transmit, TransmitFails,
           Unwind, WaitAcked, WaitTimeout, WaitStopped, CleanupTest, CleanupFree,
           CleanupClear, RecvAck, PeerHandleData, PeerChecksumMismatch, PeerAnswer,
           PeerSendAck, Break, Stop, histVars
  <2>2. ASSUME NEW t \in Senders, sendWindow[SlotOf(seq[t])].acked, pc[t] = "wait"
        PROVE  seq[t] \in acksSeen
    <3>1. SlotOf(seq[t]) \in Slots
      BY SlotOfInSlots DEF TypeOK
    <3> QED BY <2>2, <3>1 DEF Filed, Owner
  <2> QED BY <2>1, <2>2 DEF OkMeansAcked
<1> QED BY <1>1, <1>2, TypeCorrect, FiledInv, OwnerInv, PTL DEF Spec

-----------------------------------------------------------------------------

\* One thread takes a number and sends it before it takes the next, so frames
\* are in order and each one read is delivered, never dropped as a duplicate.
LEMMA OrderedReceived == ASSUME SingleSender PROVE Spec => [](Ordered /\ Received)
<1> DEFINE Inv == Ordered /\ Received
<1>1. Init => Inv
  BY DEF Init, FirstSeq, Ordered, Received, Got
<1>2. TypeOK /\ Numbers /\ Causal /\ Inv /\ [Next]_vars => Inv'
  <2> SUFFICES ASSUME TypeOK, Numbers, Causal, Inv, [Next]_vars PROVE Inv'
    OBVIOUS
  <2> USE DEF senderVars, windowVars, chanVars, peerVars, histVars, linkVars, Goto
  <2>t. /\ nextSeq \in Nat /\ expectedSeq \in Nat /\ \A t \in Senders : seq[t] \in Nat
        /\ dataChan \in Seq(Frame) /\ ackChan \in Seq(Nat) /\ delivered \in Seq(Nat)
        /\ written \subseteq Nat /\ owed \in Nat
        /\ \A i \in DOMAIN dataChan : dataChan[i].seq \in written /\ dataChan[i].seq \in Nat
    BY DEF TypeOK, Causal
  <2>1. ASSUME NEW t \in Senders, TakeSeq(t) PROVE Inv'
    <3>1. /\ nextSeq' = nextSeq + 1 /\ seq' = [seq EXCEPT ![t] = nextSeq]
          /\ UNCHANGED <<written, dataChan, expectedSeq, owed, delivered, ackChan, acksSeen>>
      BY <2>1 DEF TakeSeq
    <3>2. \A u \in Senders : u = t
      BY DEF SingleSender
    <3>3. Ordered'
      BY <2>t, <3>1, <3>2 DEF Ordered, Causal, TypeOK
    <3>4. Received'
      BY <3>1 DEF Received, Got
    <3> QED BY <3>3, <3>4
  <2>2. ASSUME NEW t \in Senders, Transmit(t) PROVE Inv'
    <3> DEFINE f == [seq |-> seq[t], needAck |-> needAck[t]]
    <3>1. /\ pc[t] = "send" /\ pc'[t] \in {"wait", "idle"}
          /\ UNCHANGED <<nextSeq, seq, expectedSeq, owed, delivered, ackChan, acksSeen>>
      BY <2>2 DEF Transmit, TypeOK
    <3>2. \A u \in Senders : pc'[u] \notin {"fill", "send"}
      BY <3>1 DEF SingleSender
    <3>3. f \in Frame /\ f.seq = seq[t] /\ expectedSeq =< seq[t]
            /\ \A s \in written : s < seq[t]
      BY <2>t, <3>1 DEF Ordered, TypeOK, Frame
    <3>4. /\ DOMAIN dataChan' = 1 .. (Len(dataChan) + 1)
          /\ DOMAIN dataChan = 1 .. Len(dataChan) /\ Len(dataChan) \in Nat
          /\ \A i \in DOMAIN dataChan : dataChan'[i] = dataChan[i]
          /\ dataChan'[Len(dataChan) + 1].seq = seq[t]
      BY <2>2, <2>t, <3>3, AppendIndex DEF Transmit
    <3>5. \A i \in DOMAIN dataChan : dataChan[i].seq < seq[t]
      BY <2>t, <3>3
    <3>6. \A i, j \in DOMAIN dataChan' : i < j => dataChan'[i].seq < dataChan'[j].seq
      <4> SUFFICES ASSUME NEW i \in DOMAIN dataChan', NEW j \in DOMAIN dataChan', i < j
                   PROVE  dataChan'[i].seq < dataChan'[j].seq
        OBVIOUS
      <4>1. i \in DOMAIN dataChan
        BY <3>4
      <4>2. CASE j \in DOMAIN dataChan
        BY <3>4, <4>1, <4>2 DEF Ordered
      <4>3. CASE j = Len(dataChan) + 1
        BY <3>4, <3>5, <4>1, <4>3
      <4> QED BY <3>4, <4>2, <4>3
    <3>7. \A i \in DOMAIN dataChan' : expectedSeq' =< dataChan'[i].seq
      BY <3>1, <3>3, <3>4 DEF Ordered
    <3>8. Ordered'
      BY <3>1, <3>2, <3>6, <3>7 DEF Ordered
    <3>9. Received'
      BY <3>1 DEF Received, Got
    <3> QED BY <3>8, <3>9
  <2>3. ASSUME NEW t \in Senders,
               \/ FillSlot(t) \/ TransmitFails(t) \/ Unwind(t) \/ WaitAcked(t)
               \/ WaitTimeout(t) \/ WaitStopped(t) \/ CleanupTest(t)
               \/ CleanupFree(t) \/ CleanupClear(t)
        PROVE  Inv'
    <3>1. /\ pc'[t] \in {"fill", "send"} => pc[t] \in {"fill", "send"}
          /\ \A u \in Senders : u # t => pc'[u] = pc[u]
          /\ UNCHANGED <<nextSeq, seq, written, dataChan, expectedSeq, owed, delivered,
                         ackChan, acksSeen>>
      BY <2>3 DEF FillSlot, TransmitFails, Unwind, WaitAcked, WaitTimeout, WaitStopped,
                  CleanupTest, CleanupFree, CleanupClear, TypeOK
    <3> QED BY <3>1 DEF Ordered, Received, Got
  <2>4. ASSUME RecvAck PROVE Inv'
    <3>1. /\ ackChan # <<>> /\ acksSeen' = acksSeen \cup {Head(ackChan)}
          /\ ackChan' = Tail(ackChan)
          /\ UNCHANGED <<nextSeq, seq, pc, written, dataChan, expectedSeq, owed, delivered>>
      BY <2>4 DEF RecvAck
    <3>2. Ordered'
      BY <3>1 DEF Ordered
    <3> DEFINE W == {s \in Nat : Got(s)}
    <3>3. \A i \in DOMAIN ackChan : ackChan[i] \in W
      BY <2>t DEF Received
    <3>4. Head(ackChan) \in W /\ \A i \in DOMAIN ackChan' : ackChan'[i] \in W
      <4> HIDE DEF W
      <4> QED BY <2>t, <3>1, <3>3, TailWithin
    <3>5. Received'
      BY <3>1, <3>4 DEF Received, Got
    <3> QED BY <3>2, <3>5
  <2>5. ASSUME PeerHandleData \/ PeerChecksumMismatch PROVE Inv'
    <3> DEFINE h == Head(dataChan).seq
    <3>1. /\ dataChan # <<>> /\ dataChan' = Tail(dataChan)
          /\ UNCHANGED <<nextSeq, seq, pc, written, ackChan, acksSeen>>
      BY <2>5 DEF PeerHandleData, PeerChecksumMismatch
    <3>2. /\ 1 \in DOMAIN dataChan /\ h = dataChan[1].seq
          /\ \A i \in DOMAIN dataChan' : i \in Nat /\ i + 1 \in DOMAIN dataChan
                                       /\ dataChan'[i] = dataChan[i + 1]
      BY <2>t, <3>1, TailIndex
    <3>3. /\ h \in written /\ h \in Nat /\ expectedSeq =< h /\ h < nextSeq
          /\ \A i \in DOMAIN dataChan' : h < dataChan'[i].seq /\ dataChan'[i].seq \in Nat
      <4>1. h \in written /\ h \in Nat /\ expectedSeq =< h /\ h < nextSeq
        BY <2>t, <3>2 DEF Ordered, Causal
      <4>2. ASSUME NEW i \in DOMAIN dataChan' PROVE h < dataChan'[i].seq /\ dataChan'[i].seq \in Nat
        <5>1. i \in Nat /\ i + 1 \in DOMAIN dataChan /\ dataChan'[i] = dataChan[i + 1]
          BY <3>2
        <5>2. 1 < i + 1
          <6>1. DOMAIN dataChan' = 1 .. Len(dataChan') /\ Len(dataChan') \in Nat
            BY <2>t, <3>1
          <6> QED BY <6>1
        <5> QED BY <2>t, <3>2, <5>1, <5>2 DEF Ordered
      <4> QED BY <4>1, <4>2
    <3>4. \/ /\ expectedSeq' = h + 1 /\ delivered' = Append(delivered, h)
             /\ owed' \in {h, 0}
          \/ UNCHANGED <<expectedSeq, owed, delivered>>
      <4>1. ~(h < expectedSeq)
        BY <2>t, <3>3
      <4> QED BY <2>5, <4>1 DEF PeerHandleData, PeerChecksumMismatch
    <3> HIDE DEF h
    <3>5. expectedSeq' \in {expectedSeq, h + 1}
      BY <3>4
    <3>6. \A i, j \in DOMAIN dataChan' : i < j => dataChan'[i].seq < dataChan'[j].seq
      BY <3>2 DEF Ordered
    <3>7. \A i \in DOMAIN dataChan' : expectedSeq' =< dataChan'[i].seq
      BY <2>t, <3>2, <3>3, <3>5 DEF Ordered
    <3>8. \A t \in Senders : pc[t] \in {"fill", "send"} => expectedSeq' =< seq[t]
      BY <2>t, <3>3, <3>5 DEF Ordered
    <3>9. Ordered'
      BY <2>t, <3>1, <3>3, <3>5, <3>6, <3>7, <3>8 DEF Ordered
    <3>10. /\ \A i \in DOMAIN Append(delivered, h) :
                 i \in DOMAIN delivered => Append(delivered, h)[i] = delivered[i]
           /\ DOMAIN delivered \subseteq DOMAIN Append(delivered, h)
           /\ \E i \in DOMAIN Append(delivered, h) : Append(delivered, h)[i] = h
      <4>1. /\ DOMAIN Append(delivered, h) = 1 .. (Len(delivered) + 1)
            /\ DOMAIN delivered = 1 .. Len(delivered) /\ Len(delivered) \in Nat
            /\ \A i \in DOMAIN delivered : Append(delivered, h)[i] = delivered[i]
            /\ Append(delivered, h)[Len(delivered) + 1] = h
        BY <2>t, <3>3, AppendIndex
      <4> QED BY <4>1
    <3>11. \A s : Got(s) => \E i \in DOMAIN delivered' : delivered'[i] = s
      BY <3>4, <3>10 DEF Got
    <3>12. delivered' = Append(delivered, h) => \E i \in DOMAIN delivered' : delivered'[i] = h
      BY <3>10
    <3>13. owed' # 0 => \E i \in DOMAIN delivered' : delivered'[i] = owed'
      BY <3>4, <3>11, <3>12 DEF Received
    <3>14. Received'
      BY <3>1, <3>11, <3>13 DEF Received, Got
    <3> QED BY <3>9, <3>14
  <2>6. ASSUME PeerAnswer \/ PeerSendAck PROVE Inv'
    <3>1. /\ \/ ackChan' = ackChan
             \/ owed # 0 /\ ackChan' = Append(ackChan, owed)
             \/ \E i \in DOMAIN delivered : ackChan' = Append(ackChan, delivered[i])
          /\ owed' \in {owed, 0}
          /\ UNCHANGED <<nextSeq, seq, pc, written, dataChan, expectedSeq, delivered, acksSeen>>
      BY <2>6 DEF PeerAnswer, PeerSendAck
    <3>2. Ordered'
      BY <3>1 DEF Ordered
    <3> DEFINE W == {s \in Nat : Got(s)}
    <3>3. /\ \A i \in DOMAIN ackChan : ackChan[i] \in W
          /\ \A i \in DOMAIN delivered : delivered[i] \in W
          /\ owed # 0 => owed \in W
      BY <2>t DEF Received, Got
    <3>4. ackChan' = ackChan \/ \E s \in W : ackChan' = Append(ackChan, s)
      BY <3>1, <3>3
    <3>5. ASSUME NEW s \in W
          PROVE  \A i \in DOMAIN Append(ackChan, s) : Append(ackChan, s)[i] \in W
      <4>1. s \in Nat
        OBVIOUS
      <4> HIDE DEF W
      <4> QED BY <2>t, <3>3, <4>1, AppendWithin
    <3>6. \A i \in DOMAIN ackChan' : ackChan'[i] \in W
      BY <3>3, <3>4, <3>5
    <3>7. Received'
      BY <3>1, <3>6 DEF Received, Got
    <3> QED BY <3>2, <3>7
  <2>7. ASSUME Break \/ Stop \/ UNCHANGED vars PROVE Inv'
    <3>1. UNCHANGED <<nextSeq, seq, pc, written, dataChan, expectedSeq, owed, delivered,
                      ackChan, acksSeen>>
      BY <2>7 DEF Break, Stop, vars
    <3> QED BY <3>1 DEF Ordered, Received, Got
  <2> QED
    BY <2>1, <2>2, <2>3, <2>4, <2>5, <2>6, <2>7 DEF Next, SenderStep, PeerStep
<1> QED
  BY <1>1, <1>2, TypeCorrect, NumbersCausal, PTL DEF Spec

\* With one sender IPC_OK means the message was passed to the peer's onMessage.
THEOREM OneOkDelivered == ASSUME SingleSender PROVE Spec => []OkMeansDelivered
<1>1. OkMeansAcked /\ Received => OkMeansDelivered
  BY DEF OkMeansAcked, Received, Got, OkMeansDelivered
<1> QED BY <1>1, OneOkAcked, OrderedReceived, PTL

-----------------------------------------------------------------------------
(* Refinement                                                                *)

\* With one sender, every step of the code's path is a step of the promise (a
\* number is issued, a message delivered above all earlier ones, a delivered
\* message confirmed) or none of the user's business.
THEOREM OneImplements == ASSUME SingleSender PROVE Spec => ImplementsPromise
<1> USE DEF senderVars, windowVars, chanVars, peerVars, histVars, linkVars
<1>1. Init => Promise!Init
  BY DEF Init, FirstSeq, Promise!Init
<1>2. TypeOK /\ Causal /\ DeliveredBelow /\ Filed /\ Owner /\ Received
        /\ [Next]_vars => [Promise!Next]_Promise!avars
  <2> SUFFICES ASSUME TypeOK, Causal, DeliveredBelow, Filed, Owner, Received, [Next]_vars
               PROVE  [Promise!Next]_Promise!avars
    OBVIOUS
  <2> USE DEF Promise!Next, Promise!avars
  <2>1. ASSUME NEW t \in Senders, TakeSeq(t) PROVE Promise!Issue
    <3>1. nextSeq' = nextSeq + 1 /\ nextSeq \in Nat /\ UNCHANGED <<delivered, confirmed>>
      BY <2>1 DEF TakeSeq, TypeOK
    <3>2. nextSeq' - 1 = (nextSeq - 1) + 1
      BY <3>1
    <3> QED BY <3>1, <3>2 DEF Promise!Issue
  <2>2. ASSUME NEW t \in Senders, WaitAcked(t) PROVE Promise!Confirm
    <3>1. SlotOf(seq[t]) \in Slots
      BY SlotOfInSlots DEF TypeOK
    <3>2. seq[t] \in acksSeen
      BY <2>2, <3>1 DEF WaitAcked, Filed, Owner
    <3>3. PICK i \in DOMAIN delivered : delivered[i] = seq[t]
      BY <3>2 DEF Received, Got
    <3>4. /\ confirmed' = confirmed \cup {delivered[i]}
          /\ UNCHANGED <<nextSeq, delivered>>
      BY <2>2, <3>3 DEF WaitAcked
    <3> QED BY <3>4 DEF Promise!Confirm
  <2>3. ASSUME PeerHandleData PROVE Promise!Deliver \/ UNCHANGED Promise!avars
    <3> DEFINE s == Head(dataChan).seq
    <3>1. CASE s < expectedSeq
      BY <2>3, <3>1 DEF PeerHandleData
    <3>2. CASE ~(s < expectedSeq)
      <4>1. dataChan # <<>> /\ dataChan \in Seq(Frame)
        BY <2>3 DEF PeerHandleData, TypeOK
      <4>2. Head(dataChan) = dataChan[1] /\ 1 \in DOMAIN dataChan
        BY <4>1, TailIndex
      <4>3. s \in written /\ s \in Nat
        BY <4>2 DEF Causal, TypeOK
      <4>4. s \in 1 .. (nextSeq - 1)
        BY <4>3 DEF Causal, TypeOK
      <4>5. \A i \in DOMAIN delivered : delivered[i] < s
        <5>1. \A i \in DOMAIN delivered : delivered[i] \in Nat /\ delivered[i] < expectedSeq
          BY DEF TypeOK, DeliveredBelow
        <5> QED BY <3>2, <4>3, <5>1 DEF TypeOK
      <4>6. delivered' = Append(delivered, s) /\ UNCHANGED <<nextSeq, confirmed>>
        BY <2>3, <3>2 DEF PeerHandleData
      <4> HIDE DEF s
      <4> QED BY <4>4, <4>5, <4>6 DEF Promise!Deliver
    <3> QED BY <3>1, <3>2
  <2>4. \/ \E t \in Senders : TakeSeq(t) \/ WaitAcked(t)
        \/ PeerHandleData
        \/ UNCHANGED <<nextSeq, delivered, confirmed>>
    BY DEF Next, vars, SenderStep, PeerStep, FillSlot, Transmit, TransmitFails,
           Unwind, WaitTimeout, WaitStopped, CleanupTest, CleanupFree, CleanupClear,
           RecvAck, PeerChecksumMismatch, PeerAnswer, PeerSendAck, Break, Stop
  <2> QED BY <2>1, <2>2, <2>3, <2>4
<1>3. Spec => []DeliveredBelow
  BY InOrder, PTL
<1> QED
  BY <1>1, <1>2, <1>3, TypeCorrect, NumbersCausal, FiledInv, OwnerInv, OrderedReceived,
     PTL DEF Spec, ImplementsPromise, Promise!Spec

-----------------------------------------------------------------------------
(* Memory                                                                    *)

\* What the unlocked cleanup of the only sender knows about its slot: between
\* its test and its free the receive thread may free the copy first, but no
\* new copy can appear.
Cleaning ==
    /\ NULL \notin heap
    /\ \A t \in Senders : LET d == sendWindow[SlotOf(seq[t])].data IN
         /\ pc[t] = "free" => d \in {NULL, ptr[t]}
         /\ pc[t] = "clear" => d \notin heap

\* Replacing what a slot holds by c (a new copy or nothing) leaks nothing if the
\* old copy is freed, or was not in the heap.
LEMMA Replace ==
  ASSUME NoLeak, NEW i \in Slots, NEW c, c = sendWindow'[i].data,
         heap' \subseteq heap \cup {c},
         sendWindow[i].data \in heap' => sendWindow[i].data = c,
         \A j \in Slots : j # i => sendWindow'[j].data = sendWindow[j].data
  PROVE  NoLeak'
BY DEF NoLeak

\* With one sender no payload copy becomes unreachable, timeouts and the race
\* with the receive thread included: IpcDestroy finds all that is left.
THEOREM OneNoLeak == ASSUME SingleSender PROVE Spec => []NoLeak
<1> DEFINE Inv == NoLeak /\ Cleaning
<1> USE DEF senderVars, windowVars, chanVars, peerVars, histVars, linkVars
<1>1. Init => Inv
  BY DEF Init, FirstSeq, NoLeak, Cleaning
<1>2. TypeOK /\ Inv /\ [Next]_vars => Inv'
  <2> SUFFICES ASSUME TypeOK, Inv, [Next]_vars PROVE Inv'
    OBVIOUS
  <2>t. /\ \A t \in Senders : SlotOf(seq[t]) \in Slots /\ seq[t] \in Nat
        /\ \A t, u \in Senders : t = u
        /\ NULL \notin heap /\ NULL = 0
    BY SlotOfInSlots DEF TypeOK, SingleSender, Cleaning, NULL
  <2>1. ASSUME NEW t \in Senders, FillSlot(t) PROVE Inv'
    <3> DEFINE i == SlotOf(seq[t])
               d == sendWindow[i].data
    <3>1. PICK copy \in {NULL, seq[t]} :
            /\ heap' = (heap \ {d}) \cup ({copy} \ {NULL})
            /\ sendWindow' = [sendWindow EXCEPT
                   ![i] = [seq |-> seq[t], data |-> copy, acked |-> FALSE]]
      BY <2>1 DEF FillSlot, FreeAndAlloc
    <3>2. sendWindow'[i].data = copy /\ \A j \in Slots : j # i => sendWindow'[j] = sendWindow[j]
      BY <2>t, <3>1 DEF TypeOK
    <3>3. NoLeak'
      BY <2>t, <3>1, <3>2, Replace
    <3>4. \A u \in Senders : pc'[u] = "send"
      BY <2>t, <2>1 DEF FillSlot, Goto, TypeOK
    <3>5. Cleaning'
      BY <2>t, <3>1, <3>4 DEF Cleaning
    <3> QED BY <3>3, <3>5
  <2>2. ASSUME NEW t \in Senders, Unwind(t) PROVE Inv'
    <3> DEFINE i == SlotOf(seq[t])
    <3>1. /\ heap' = heap \ {sendWindow[i].data}
          /\ sendWindow' = [sendWindow EXCEPT ![i].data = NULL]
      BY <2>2 DEF Unwind, FreeAndAlloc
    <3>2. sendWindow'[i].data = NULL /\ \A j \in Slots : j # i => sendWindow'[j] = sendWindow[j]
      BY <2>t, <3>1 DEF TypeOK, Entry
    <3>3. NoLeak'
      BY <2>t, <3>1, <3>2, Replace
    <3>4. \A u \in Senders : pc'[u] = "idle"
      BY <2>t, <2>2 DEF Unwind, Goto, TypeOK
    <3>5. Cleaning'
      BY <2>t, <3>1, <3>4 DEF Cleaning
    <3> QED BY <3>3, <3>5
  <2>3. ASSUME NEW t \in Senders, CleanupTest(t) PROVE Inv'
    <3>1. /\ UNCHANGED <<sendWindow, heap, seq>>
          /\ \A u \in Senders : /\ ptr'[u] = sendWindow[SlotOf(seq[u])].data
                               /\ pc'[u] # "clear"
      BY <2>t, <2>3 DEF CleanupTest, Goto, TypeOK
    <3> QED BY <3>1 DEF NoLeak, Cleaning
  <2>4. ASSUME NEW t \in Senders, CleanupFree(t) PROVE Inv'
    <3> DEFINE d == sendWindow[SlotOf(seq[t])].data
    <3>1. /\ pc[t] = "free" /\ UNCHANGED <<sendWindow, seq>>
          /\ \E p \in {ptr[t], d} : heap' = heap \ {p}
          /\ \A u \in Senders : pc'[u] = "clear"
      BY <2>t, <2>4 DEF CleanupFree, FreeAndAlloc, Goto, TypeOK
    <3>2. d \in {NULL, ptr[t]}
      BY <3>1 DEF Cleaning
    <3>3. d \notin heap'
      BY <2>t, <3>1, <3>2
    <3>4. Cleaning'
      BY <2>t, <3>1, <3>3 DEF Cleaning
    <3>5. NoLeak'
      BY <3>1 DEF NoLeak
    <3> QED BY <3>4, <3>5
  <2>5. ASSUME NEW t \in Senders, CleanupClear(t) PROVE Inv'
    <3> DEFINE i == SlotOf(seq[t])
    <3>1. /\ pc[t] = "clear" /\ heap' = heap
          /\ sendWindow' = [sendWindow EXCEPT ![i].data = NULL]
      BY <2>5 DEF CleanupClear
    <3>2. sendWindow'[i].data = NULL /\ \A j \in Slots : j # i => sendWindow'[j] = sendWindow[j]
      BY <2>t, <3>1 DEF TypeOK, Entry
    <3>3. sendWindow[i].data \notin heap
      BY <3>1 DEF Cleaning
    <3>4. NoLeak'
      BY <2>t, <3>1, <3>2, <3>3, Replace
    <3>5. \A u \in Senders : pc'[u] = "idle"
      BY <2>t, <2>5 DEF CleanupClear, Goto, TypeOK
    <3>6. Cleaning'
      BY <2>t, <3>1, <3>5 DEF Cleaning
    <3> QED BY <3>4, <3>6
  <2>6. ASSUME RecvAck PROVE Inv'
    <3>1. UNCHANGED <<seq, pc, ptr>>
      BY <2>6 DEF RecvAck
    <3>2. CASE UNCHANGED windowVars
      BY <3>1, <3>2 DEF NoLeak, Cleaning
    <3>3. ASSUME NEW i \in Slots, heap' = heap \ {sendWindow[i].data},
                 sendWindow' = [sendWindow EXCEPT
                     ![i] = [@ EXCEPT !.acked = TRUE, !.data = NULL]]
          PROVE Inv'
      <4>1. sendWindow'[i].data = NULL /\ \A j \in Slots : j # i => sendWindow'[j] = sendWindow[j]
        BY <3>3 DEF TypeOK, Entry
      <4>2. NoLeak'
        BY <2>t, <3>3, <4>1, Replace
      <4>3. \A j \in Slots : sendWindow'[j].data \in {NULL, sendWindow[j].data}
        BY <4>1
      <4>4. Cleaning'
        BY <2>t, <3>1, <3>3, <4>3 DEF Cleaning
      <4> QED BY <4>2, <4>4
    <3> QED BY <2>6, <3>2, <3>3 DEF RecvAck, FirstMatch, FreeAndAlloc
  <2>7. ASSUME NEW t \in Senders,
               \/ TakeSeq(t) \/ Transmit(t) \/ TransmitFails(t) \/ WaitAcked(t)
               \/ WaitTimeout(t) \/ WaitStopped(t)
        PROVE  Inv'
    <3>1. /\ UNCHANGED <<sendWindow, heap>>
          /\ \A u \in Senders : pc'[u] \notin {"free", "clear"}
      BY <2>t, <2>7 DEF TakeSeq, Transmit, TransmitFails, WaitAcked, WaitTimeout,
                        WaitStopped, Goto, TypeOK
    <3> QED BY <3>1 DEF NoLeak, Cleaning
  <2>8. ASSUME \/ PeerHandleData \/ PeerAnswer \/ PeerChecksumMismatch \/ PeerSendAck
               \/ Break \/ Stop \/ UNCHANGED vars
        PROVE  Inv'
    <3>1. UNCHANGED <<sendWindow, heap, pc, seq, ptr>>
      BY <2>8 DEF PeerHandleData, PeerAnswer, PeerChecksumMismatch, PeerSendAck, Break,
                  Stop, vars
    <3> QED BY <3>1 DEF NoLeak, Cleaning
  <2> QED
    BY <2>1, <2>2, <2>3, <2>4, <2>5, <2>6, <2>7, <2>8 DEF Next, SenderStep, PeerStep
<1> QED
  BY <1>1, <1>2, TypeCorrect, PTL DEF Spec
=============================================================================
