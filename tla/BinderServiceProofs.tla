-------------------------- MODULE BinderServiceProofs --------------------------
(* Proofs about BinderService, for any services, clients, names and numbers. *)
EXTENDS BinderService, TLAPS

-----------------------------------------------------------------------------
(* Calls                                                                     *)

\* A queue of calls keeps its type when it grows and when it is read.
LEMMA InboxTypes ==
  ASSUME NEW s \in Seq(Calls)
  PROVE  /\ \A c \in Calls : Append(s, c) \in Seq(Calls)
         /\ s # <<>> => Head(s) \in Calls /\ Tail(s) \in Seq(Calls)
OBVIOUS

\* A call is not the absence of one: it has a type.
LEMMA NoCallIsNone == NoCall \notin Calls
BY DEF NoCall, Calls

\* The service a client asks for has a number.
LEMMA IdInIds == \A p \in Services \cup Clients : Id(p) \in Ids
BY SaIdAssumption DEF Id, Ids

\* A request adds a call to one queue and touches nothing else but the caller.
LEMMA RequestTypes ==
  ASSUME TypeOK, NEW c \in Clients, NEW s \in Services,
         NEW type \in {"DATA", "REGISTER_CB", "HEARTBEAT"}, NEW sync \in BOOLEAN,
         Request(c, s, type, sync)
  PROVE  /\ inbox' \in [Services -> Seq(Calls)] /\ waiting' \in [Clients -> BOOLEAN]
         /\ \A r \in Services \ {s} : inbox'[r] = inbox[r]
<1>1. [from |-> c, type |-> type, sync |-> sync] \in Calls
  BY DEF Calls
<1>2. Append(inbox[s], [from |-> c, type |-> type, sync |-> sync]) \in Seq(Calls)
  BY <1>1, InboxTypes DEF TypeOK
<1> QED
  BY <1>2 DEF Request, TypeOK

-----------------------------------------------------------------------------
(* Types                                                                     *)

\* A proxy of a service that lives is one of a service that runs, and so is what
\* SAMgr hands out.
Reachable ==
  /\ \A i \in Ids : registry[i] # None => pc[registry[i]] # "off"
  /\ \A c \in Clients : proxy[c] \in Services => pc[proxy[c]] # "off"

\* What the end of a process leaves behind.
LEMMA GoneTypes ==
  ASSUME TypeOK, Reachable, NEW s \in Services, Gone(s)
  PROVE  TypeOK' /\ Reachable'
<1>1. /\ registry' \in [Ids -> Services \cup {None}]
      /\ proxy' \in [Clients -> Services \cup {None, Dead}] /\ waiting' \in [Clients -> BOOLEAN]
  BY DEF TypeOK, Gone
<1>2. inbox' \in [Services -> Seq(Calls)]
  BY DEF TypeOK, Gone
<1>3. /\ pc' = [pc EXCEPT ![s] = "off"] /\ hpc' = [hpc EXCEPT ![s] = "none"]
      /\ lock' = [lock EXCEPT ![s] = "free"]
      /\ running' = [running EXCEPT ![s] = FALSE]
      /\ registered' = [registered EXCEPT ![s] = FALSE]
      /\ work' = [work EXCEPT ![s] = "none"] /\ call' = [call EXCEPT ![s] = NoCall]
      /\ starts' = starts /\ inbox' = [inbox EXCEPT ![s] = <<>>]
  BY DEF Gone
<1>4. TypeOK'
  BY <1>1, <1>2, <1>3 DEF TypeOK
<1>5. \A i \in Ids : registry'[i] # None => registry'[i] # s /\ registry'[i] = registry[i]
  BY DEF Gone, TypeOK
<1>6. \A c \in Clients : proxy'[c] \in Services => proxy'[c] # s /\ proxy'[c] = proxy[c]
  BY NoneAssumption DEF Gone, TypeOK
<1>7. Reachable'
  BY <1>1, <1>3, <1>5, <1>6 DEF Reachable, TypeOK
<1> QED
  BY <1>4, <1>7

\* The types and what they rest on hold at first and every step keeps them.
LEMMA TypedReachable == Spec => [](TypeOK /\ Reachable)
<1>1. Init => TypeOK /\ Reachable
  <2> SUFFICES ASSUME Init PROVE TypeOK /\ Reachable
    OBVIOUS
  <2>1. inbox \in [Services -> Seq(Calls)] /\ \A s \in Services : inbox[s] = <<>>
    BY DEF Init
  <2>2. starts \in 0 .. MaxStarts
    BY BoundsAssumption DEF Init
  <2> QED
    BY <2>1, <2>2, NoneAssumption DEF Init, TypeOK, Reachable
<1>2. TypeOK /\ Reachable /\ [Next]_vars => TypeOK' /\ Reachable'
  <2> SUFFICES ASSUME TypeOK, Reachable, [Next]_vars PROVE TypeOK' /\ Reachable'
    OBVIOUS
  <2> USE DEF samgr, context, threads, handler, client
  <2>1. ASSUME NEW s \in Services, Start(s) PROVE TypeOK' /\ Reachable'
    <3>1. starts' \in 0 .. MaxStarts
      BY <2>1, BoundsAssumption DEF Start, TypeOK
    <3>2. registry' \in [Ids -> Services \cup {None}]
      BY <2>1, IdInIds DEF Start, TypeOK
    <3>3. TypeOK'
      BY <2>1, <3>1, <3>2 DEF Start, TypeOK
    <3>4. Reachable'
      BY <2>1, IdInIds DEF Start, TypeOK, Reachable
    <3> QED
      BY <3>3, <3>4
  <2>2. ASSUME NEW s \in Services, StartRefused(s) PROVE TypeOK' /\ Reachable'
    <3>1. starts' \in 0 .. MaxStarts
      BY <2>2, BoundsAssumption DEF StartRefused, TypeOK
    <3> QED
      BY <2>2, <3>1 DEF StartRefused, TypeOK, Reachable
  <2>3. ASSUME NEW s \in Services, Signal(s) PROVE TypeOK' /\ Reachable'
    BY <2>3 DEF Signal, TypeOK, Reachable
  <2>4. ASSUME NEW s \in Services, Kill(s) PROVE TypeOK' /\ Reachable'
    BY <2>4, GoneTypes DEF Kill
  <2>5. ASSUME NEW s \in Services, StopWork(s) PROVE TypeOK' /\ Reachable'
    BY <2>5 DEF StopWork, TypeOK, Reachable
  <2>6. ASSUME NEW s \in Services, Unregister(s) PROVE TypeOK' /\ Reachable'
    <3>1. registry' \in [Ids -> Services \cup {None}]
      BY <2>6, IdInIds DEF Unregister, TypeOK
    <3>2. TypeOK'
      BY <2>6, <3>1 DEF Unregister, TypeOK
    <3>3. Reachable'
      BY <2>6, NoneAssumption, IdInIds DEF Unregister, TypeOK, Reachable
    <3> QED
      BY <3>2, <3>3
  <2>7. ASSUME NEW s \in Services, Unlock(s) PROVE TypeOK' /\ Reachable'
    BY <2>7 DEF Unlock, TypeOK, Reachable
  <2>8. ASSUME NEW s \in Services, HeartbeatEnd(s) PROVE TypeOK' /\ Reachable'
    BY <2>8 DEF HeartbeatEnd, TypeOK, Reachable
  <2>9. ASSUME NEW s \in Services, JoinHeartbeat(s) PROVE TypeOK' /\ Reachable'
    BY <2>9 DEF JoinHeartbeat, TypeOK, Reachable
  <2>10. ASSUME NEW s \in Services, HandleRequest(s) PROVE TypeOK' /\ Reachable'
    <3>1. Head(inbox[s]) \in Calls /\ inbox' \in [Services -> Seq(Calls)]
      BY <2>10, InboxTypes DEF HandleRequest, TypeOK
    <3>2. Head(inbox[s]).from \in Clients /\ Head(inbox[s]).sync \in BOOLEAN
      BY <3>1 DEF Calls
    <3>3. waiting' \in [Clients -> BOOLEAN] /\ proxy' = proxy
      <4>1. Return(Head(inbox[s])) \/ UNCHANGED client
        BY <2>10 DEF HandleRequest
      <4> QED
        BY <3>2, <4>1 DEF Return, TypeOK
    <3>4. pc[s] # "off"
      BY <2>10 DEF HandleRequest, TypeOK
    <3>5. /\ call' \in [Services -> Calls \cup {NoCall}]
          /\ work' \in [Services -> {"none", "idle", "stats", "message"}]
          /\ \A r \in Services : call'[r] # NoCall <=> work'[r] \in {"stats", "message"}
          /\ \A r \in Services \ {s} : work'[r] = work[r] /\ inbox'[r] = inbox[r]
      <4>1. \/ UNCHANGED <<work, call>>
            \/ /\ work' = [work EXCEPT ![s] = "stats"]
               /\ call' = [call EXCEPT ![s] = Head(inbox[s])]
        BY <2>10 DEF HandleRequest
      <4>2. inbox' = [inbox EXCEPT ![s] = Tail(@)] /\ Head(inbox[s]) # NoCall
        BY <2>10, <3>1, NoCallIsNone DEF HandleRequest
      <4>3. CASE UNCHANGED <<work, call>>
        BY <4>2, <4>3 DEF TypeOK
      <4>4. CASE /\ work' = [work EXCEPT ![s] = "stats"]
                 /\ call' = [call EXCEPT ![s] = Head(inbox[s])]
        BY <3>1, <4>2, <4>4 DEF TypeOK
      <4> QED
        BY <4>1, <4>3, <4>4
    <3>6. UNCHANGED <<samgr, context, threads>>
      BY <2>10 DEF HandleRequest
    <3> QED
      BY <3>1, <3>3, <3>4, <3>5, <3>6 DEF TypeOK, Reachable
  <2>11. ASSUME NEW s \in Services, HandleStats(s) PROVE TypeOK' /\ Reachable'
    BY <2>11 DEF HandleStats, TypeOK, Reachable
  <2>12. ASSUME NEW s \in Services, HandleMessage(s) PROVE TypeOK' /\ Reachable'
    <3>1. call[s] \in Calls
      BY <2>12 DEF HandleMessage, TypeOK
    <3>2. call[s].from \in Clients /\ call[s].sync \in BOOLEAN
      BY <3>1 DEF Calls
    <3>3. waiting' \in [Clients -> BOOLEAN] /\ proxy' = proxy
      BY <2>12, <3>2 DEF HandleMessage, Return, TypeOK
    <3>4. /\ work' = [work EXCEPT ![s] = "idle"] /\ call' = [call EXCEPT ![s] = NoCall]
          /\ UNCHANGED <<samgr, context, threads, inbox>>
      BY <2>12 DEF HandleMessage
    <3>5. pc[s] # "off"
      BY <2>12 DEF HandleMessage, TypeOK
    <3> QED
      BY <3>3, <3>4, <3>5 DEF TypeOK, Reachable
  <2>13. ASSUME NEW c \in Clients, Connect(c) PROVE TypeOK' /\ Reachable'
    <3>1. Id(c) \in Ids /\ registry[Id(c)] \in Services /\ pc[registry[Id(c)]] # "off"
      BY <2>13, IdInIds DEF Connect, TypeOK, Reachable
    <3>2. /\ proxy' = [proxy EXCEPT ![c] = registry[Id(c)]]
          /\ Request(c, registry[Id(c)], "REGISTER_CB", TRUE)
      BY <2>13 DEF Connect
    <3>3. /\ inbox' \in [Services -> Seq(Calls)] /\ waiting' \in [Clients -> BOOLEAN]
          /\ \A r \in Services \ {registry[Id(c)]} : inbox'[r] = inbox[r]
      BY <3>1, <3>2, RequestTypes
    <3>4. UNCHANGED <<samgr, context, threads, work, call>>
      BY <3>2 DEF Request
    <3>5. proxy' \in [Clients -> Services \cup {None, Dead}]
      BY <3>1, <3>2 DEF TypeOK
    <3>6. TypeOK'
      BY <3>1, <3>3, <3>4, <3>5 DEF TypeOK
    <3>7. \A d \in Clients : proxy'[d] \in Services => pc[proxy'[d]] # "off"
      BY <3>1, <3>2 DEF TypeOK, Reachable
    <3> QED
      BY <3>4, <3>6, <3>7 DEF Reachable
  <2>14. ASSUME NEW c \in Clients, Call(c) PROVE TypeOK' /\ Reachable'
    <3>1. proxy[c] \in Services /\ pc[proxy[c]] # "off" /\ proxy' = proxy
      BY <2>14 DEF Call, TypeOK, Reachable
    <3>2. PICK type \in {"DATA", "HEARTBEAT"}, sync \in BOOLEAN : Request(c, proxy[c], type, sync)
      BY <2>14 DEF Call
    <3>3. /\ inbox' \in [Services -> Seq(Calls)] /\ waiting' \in [Clients -> BOOLEAN]
          /\ \A r \in Services \ {proxy[c]} : inbox'[r] = inbox[r]
      BY <3>1, <3>2, RequestTypes
    <3>4. UNCHANGED <<samgr, context, threads, work, call>>
      BY <3>2 DEF Request
    <3> QED
      BY <3>1, <3>3, <3>4 DEF TypeOK, Reachable
  <2>15. ASSUME NEW c \in Clients, Disconnect(c) PROVE TypeOK' /\ Reachable'
    BY <2>15, NoneAssumption DEF Disconnect, TypeOK, Reachable
  <2>16. CASE UNCHANGED vars
    BY <2>16 DEF vars, TypeOK, Reachable
  <2> QED
    BY <2>1, <2>2, <2>3, <2>4, <2>5, <2>6, <2>7, <2>8, <2>9, <2>10, <2>11, <2>12, <2>13,
       <2>14, <2>15, <2>16 DEF Next, MainStep, WorkStep
<1> QED
  BY <1>1, <1>2, PTL DEF Spec

\* Every variable keeps its type; among the parts: what has ended holds no call,
\* and a call is in hand exactly while the work thread handles one.
THEOREM ServiceTypeCorrect == Spec => []TypeOK
BY TypedReachable, PTL

-----------------------------------------------------------------------------
(* Who waits                                                                 *)

\* What a request by c or d to s does to the calls held for c.
LEMMA RequestHolds ==
  ASSUME TypeOK, NEW d \in Clients, NEW s \in Services,
         NEW type \in {"DATA", "REGISTER_CB", "HEARTBEAT"}, NEW sync \in BOOLEAN,
         Request(d, s, type, sync)
  PROVE  /\ sync => Holds(s, d)'
         /\ \A r \in Services, c \in Clients : Holds(r, c) => Holds(r, c)'
<1> DEFINE new == [from |-> d, type |-> type, sync |-> sync]
<1>1. /\ inbox' = [inbox EXCEPT ![s] = Append(inbox[s], new)] /\ UNCHANGED <<work, call>>
      /\ inbox[s] \in Seq(Calls) /\ new.from = d /\ new.sync = sync
  BY DEF Request, TypeOK
<1> HIDE DEF new
<1>2. /\ \A i \in DOMAIN inbox[s] : i \in DOMAIN inbox'[s] /\ inbox'[s][i] = inbox[s][i]
      /\ Len(inbox[s]) + 1 \in DOMAIN inbox'[s] /\ inbox'[s][Len(inbox[s]) + 1] = new
  BY <1>1 DEF TypeOK
<1>3. \A r \in Services : r # s => inbox'[r] = inbox[r]
  BY <1>1 DEF TypeOK
<1> QED
  BY <1>1, <1>2, <1>3 DEF Holds

\* A client that waits for the answer to a synchronous call does so for a process
\* that runs and has its call, however services start, replace each other under a
\* number, stop and are killed.
THEOREM ServiceWaitBacked == Spec => []WaitBacked
<1>1. Init => WaitBacked
  BY DEF Init, WaitBacked
<1>2. TypeOK /\ Reachable /\ WaitBacked /\ [Next]_vars => WaitBacked'
  <2> SUFFICES ASSUME TypeOK, Reachable, WaitBacked, [Next]_vars PROVE WaitBacked'
    OBVIOUS
  <2> USE DEF samgr, context, threads, handler, client
  <2>1. ASSUME NEW s \in Services, Start(s) PROVE WaitBacked'
    <3>1. /\ UNCHANGED <<call, inbox, client>> /\ pc' = [pc EXCEPT ![s] = "loop"]
          /\ work' = [work EXCEPT ![s] = "idle"] /\ pc[s] = "off"
      BY <2>1 DEF Start
    <3> QED
      BY <3>1 DEF TypeOK, WaitBacked, Holds
  <2>2. ASSUME NEW s \in Services, Gone(s) PROVE WaitBacked'
    <3>1. \A c \in Clients : waiting'[c] => waiting[c] /\ proxy[c] # s /\ proxy'[c] = proxy[c]
      BY <2>2 DEF Gone
    <3>2. \A r \in Services : r # s => UNCHANGED <<pc[r], inbox[r], work[r], call[r]>>
      BY <2>2 DEF Gone, TypeOK
    <3> QED
      BY <3>1, <3>2 DEF WaitBacked, Holds
  <2>3. ASSUME NEW s \in Services, HandleRequest(s) PROVE WaitBacked'
    <3> DEFINE h == Head(inbox[s])
    <3>1. /\ h \in Calls /\ inbox[s] # <<>> /\ inbox' = [inbox EXCEPT ![s] = Tail(inbox[s])]
          /\ inbox[s] \in Seq(Calls) /\ work[s] = "idle" /\ UNCHANGED <<pc, proxy>>
      BY <2>3, InboxTypes DEF HandleRequest, Return, TypeOK
    <3>2. \A i \in DOMAIN inbox[s] :
            inbox[s][i] = h \/ \E j \in DOMAIN inbox'[s] : inbox'[s][j] = inbox[s][i]
      <4>1. ASSUME NEW i \in DOMAIN inbox[s], i # 1
            PROVE  i - 1 \in DOMAIN Tail(inbox[s]) /\ Tail(inbox[s])[i - 1] = inbox[s][i]
        BY <3>1, <4>1
      <4>2. h = inbox[s][1]
        BY <3>1
      <4> QED
        BY <3>1, <4>1, <4>2 DEF TypeOK
    <3>3. \A r \in Services : r # s => inbox'[r] = inbox[r]
      BY <3>1
    <3>4. CASE /\ call' = [call EXCEPT ![s] = h] /\ work' = [work EXCEPT ![s] = "stats"]
               /\ UNCHANGED client
      <4>1. ASSUME NEW c \in Clients, Holds(s, c) PROVE Holds(s, c)'
        BY <3>1, <3>2, <3>4, <4>1 DEF Holds, TypeOK
      <4>2. ASSUME NEW r \in Services, r # s, NEW c \in Clients, Holds(r, c) PROVE Holds(r, c)'
        <5>1. inbox'[r] = inbox[r] /\ call'[r] = call[r] /\ work'[r] = work[r]
          BY <3>3, <3>4, <4>2 DEF TypeOK
        <5> QED
          BY <4>2, <5>1 DEF Holds
      <4>3. UNCHANGED <<pc, proxy, waiting>>
        BY <3>1, <3>4
      <4> QED
        BY <4>1, <4>2, <4>3 DEF WaitBacked
    <3>5. CASE Return(h) /\ UNCHANGED <<work, call>>
      <4>1. \A c \in Clients : waiting'[c] => waiting[c] /\ ~(h.from = c /\ h.sync)
        BY <3>1, <3>5 DEF Return, TypeOK, Calls
      <4>2. ASSUME NEW c \in Clients, Holds(s, c), ~(h.from = c /\ h.sync) PROVE Holds(s, c)'
        BY <3>2, <3>5, <4>2 DEF Holds
      <4> QED
        BY <3>1, <3>3, <3>5, <4>1, <4>2 DEF WaitBacked, Holds
    <3> QED
      BY <2>3, <3>4, <3>5 DEF HandleRequest
  <2>4. ASSUME NEW s \in Services, HandleStats(s) PROVE WaitBacked'
    <3>1. /\ work[s] = "stats" /\ work' = [work EXCEPT ![s] = "message"]
          /\ UNCHANGED <<pc, call, inbox, client>>
      BY <2>4 DEF HandleStats
    <3> QED
      BY <3>1 DEF WaitBacked, Holds, TypeOK
  <2>5. ASSUME NEW s \in Services, HandleMessage(s) PROVE WaitBacked'
    <3>1. /\ work[s] = "message" /\ work' = [work EXCEPT ![s] = "idle"]
          /\ call' = [call EXCEPT ![s] = NoCall] /\ UNCHANGED <<pc, inbox, proxy>>
          /\ call[s] \in Calls
      BY <2>5 DEF HandleMessage, Return, TypeOK
    <3>2. \A c \in Clients : waiting'[c] => waiting[c] /\ ~(call[s].from = c /\ call[s].sync)
      <4>1. waiting' = [waiting EXCEPT ![call[s].from] = @ /\ ~call[s].sync]
        BY <2>5 DEF HandleMessage, Return
      <4> QED
        BY <4>1 DEF TypeOK
    <3> QED
      BY <3>1, <3>2 DEF WaitBacked, Holds, TypeOK
  <2>6. ASSUME NEW d \in Clients, Connect(d) PROVE WaitBacked'
    <3>1. registry[Id(d)] \in Services /\ pc[registry[Id(d)]] # "off"
      BY <2>6, IdInIds DEF Connect, TypeOK, Reachable
    <3>2. PICK s \in Services : s = registry[Id(d)] /\ pc[s] # "off"
      BY <3>1
    <3>3. proxy' = [proxy EXCEPT ![d] = s] /\ Request(d, s, "REGISTER_CB", TRUE)
      BY <2>6, <3>2 DEF Connect
    <3>4. Holds(s, d)' /\ \A r \in Services, c \in Clients : Holds(r, c) => Holds(r, c)'
      BY <3>3, RequestHolds
    <3>5. pc' = pc /\ waiting' = [waiting EXCEPT ![d] = TRUE]
      BY <3>3 DEF Request
    <3> QED
      BY <3>2, <3>3, <3>4, <3>5 DEF WaitBacked, TypeOK
  <2>7. ASSUME NEW d \in Clients, Call(d) PROVE WaitBacked'
    <3>1. proxy[d] \in Services /\ pc[proxy[d]] # "off" /\ proxy' = proxy
      BY <2>7 DEF Call, Reachable
    <3>2. PICK type \in {"DATA", "HEARTBEAT"}, sync \in BOOLEAN : Request(d, proxy[d], type, sync)
      BY <2>7 DEF Call
    <3>3. /\ sync => Holds(proxy[d], d)'
          /\ \A r \in Services, c \in Clients : Holds(r, c) => Holds(r, c)'
      BY <3>1, <3>2, RequestHolds
    <3>4. pc' = pc /\ waiting' = [waiting EXCEPT ![d] = sync]
      BY <3>2 DEF Request
    <3> QED
      BY <3>1, <3>3, <3>4 DEF WaitBacked, TypeOK
  <2>8. ASSUME NEW d \in Clients, Disconnect(d) PROVE WaitBacked'
    <3>1. ~waiting[d] /\ proxy' = [proxy EXCEPT ![d] = None] /\ UNCHANGED <<pc, handler, waiting>>
      BY <2>8 DEF Disconnect
    <3> QED
      BY <3>1 DEF WaitBacked, Holds, TypeOK
  <2>9. ASSUME NEW s \in Services,
                Signal(s) \/ StopWork(s) \/ Unregister(s) \/ Unlock(s) \/ JoinHeartbeat(s)
         PROVE  WaitBacked'
    <3>1. UNCHANGED <<handler, client>> /\ \A r \in Services : pc[r] # "off" => pc'[r] # "off"
      BY <2>9 DEF Signal, StopWork, Unregister, Unlock, JoinHeartbeat, TypeOK
    <3> QED
      BY <3>1 DEF WaitBacked, Holds, TypeOK
  <2>10. CASE UNCHANGED <<pc, handler, client>>
    BY <2>10 DEF WaitBacked, Holds
  <2> QED
    BY <2>1, <2>2, <2>3, <2>4, <2>5, <2>6, <2>7, <2>8, <2>9, <2>10
       DEF Next, MainStep, WorkStep, Kill, StartRefused, HeartbeatEnd, vars
<1> QED
  BY <1>1, <1>2, TypedReachable, PTL DEF Spec
=============================================================================
