---------------------------- MODULE DemoSocketProofs ----------------------------
(* Proofs about DemoSocket, for any number of clients and any lengths of their    *)
(* messages: whoever sends a message in one piece gets the acknowledgement.       *)
EXTENDS DemoSocket, SequenceTheorems, TLAPS

-----------------------------------------------------------------------------
(* The invariants                                                            *)

\* The type invariant in parts: ipcb, the connections, the clients.
ServerTypes ==
  /\ starts \in 0 .. MaxStarts /\ running \in BOOLEAN
  /\ bpc \in {"off", "top", "accept", "recv", "reply", "close"}
  /\ serving \in Clients \cup {None} /\ request \in 0 .. MaxText
  /\ serving # None <=> bpc \in {"recv", "reply", "close"}
QueueTypes == backlog \in Seq(Clients)
HungTypes == hung \in [Clients -> {"no", "closed", "lost"}]
ClientTypes == cpc \in [Clients -> {"off", "send", "recv", "end", "killed"}]
SentTypes == left \in [Clients -> Nat] /\ up \in [Clients -> Nat]
ReplyTypes == down \in [Clients -> 0 .. MaxText] /\ got \in [Clients -> 0 .. MaxText]

\* A connection is in one place at a time: nowhere before connect(), once in the
\* backlog, or served; it is not closed in any of them.
InBacklog(c) == \E i \in DOMAIN backlog : backlog[i] = c
Placed ==
  /\ \A i, j \in DOMAIN backlog : backlog[i] = backlog[j] => i = j
  /\ \A c \in Clients :
       /\ InBacklog(c) => hung[c] = "no" /\ c # serving /\ cpc[c] # "off"
       /\ c = serving => hung[c] = "no" /\ cpc[c] # "off"
       /\ cpc[c] = "off" => hung[c] = "no"

\* The acknowledgement of a message.
Ack(c) == Min({AckLen + Min({Length[c], MaxText}), MaxText})

\* A message sent in one piece: it is on its way whole or not at all until ipcb has
\* read it, then a request with all that fits, and answered before the connection is
\* closed, unless its sender was killed.
Unheard(c) == hung[c] = "no" /\ ~(c = serving /\ bpc \in {"reply", "close"})
Conversation(c) ==
  Length[c] =< Chunk =>
    /\ Unheard(c) =>
         /\ down[c] = 0 /\ cpc[c] # "end"
         /\ (left[c] = Length[c] /\ up[c] = 0) \/ (left[c] = 0 /\ up[c] = Length[c])
    /\ c = serving /\ bpc = "reply" =>
         /\ down[c] = 0 /\ cpc[c] # "end" /\ left[c] = 0
         /\ request = Min({Length[c], MaxText})
    /\ (c = serving /\ bpc = "close") \/ hung[c] = "closed" =>
         (down[c] = Ack(c) /\ left[c] = 0) \/ cpc[c] = "killed"
    /\ cpc[c] = "end" /\ hung[c] # "lost" => got[c] = Ack(c)

AnswerInv == Placed /\ \A c \in Clients : Conversation(c)

-----------------------------------------------------------------------------
(* Lengths                                                                   *)

LEMMA MinOfTwo ==
  ASSUME NEW a \in Nat, NEW b \in Nat
  PROVE  /\ Min({a, b}) \in Nat /\ Min({a, b}) =< a /\ Min({a, b}) =< b
         /\ a =< b => Min({a, b}) = a
         /\ b =< a => Min({a, b}) = b
<1>1. \E x \in {a, b} : \A y \in {a, b} : x =< y
  BY a =< b \/ b =< a
<1>2. Min({a, b}) \in {a, b} /\ \A y \in {a, b} : Min({a, b}) =< y
  BY <1>1 DEF Min
<1> QED
  BY <1>2

LEMMA Lengths ==
  /\ MaxText \in Nat /\ MaxText >= 1 /\ AckLen \in Nat /\ AckLen >= 1 /\ AckLen =< MaxText
  /\ Chunk \in Nat /\ MaxText =< Chunk /\ MaxStarts \in Nat /\ None \notin Clients
  /\ \A c \in Clients : Length[c] \in Nat
  /\ \A c \in Clients : Ack(c) \in 0 .. MaxText /\ Ack(c) >= 1
<1>1. /\ MaxText \in Nat /\ MaxText >= 1 /\ AckLen \in Nat /\ AckLen >= 1 /\ AckLen =< MaxText
      /\ Chunk \in Nat /\ MaxText =< Chunk /\ MaxStarts \in Nat /\ None \notin Clients
  BY SizesAssumption, ClientsAssumption
<1>2. \A c \in Clients : Length[c] \in Nat
  BY ClientsAssumption
<1>3. ASSUME NEW c \in Clients PROVE Ack(c) \in 0 .. MaxText /\ Ack(c) >= 1
  <2>1. PICK m \in Nat : m = Min({Length[c], MaxText})
    BY <1>1, <1>2, MinOfTwo
  <2>2. PICK n \in Nat : n = AckLen + m
    BY <1>1
  <2>3. Min({n, MaxText}) \in Nat /\ Min({n, MaxText}) =< MaxText /\ Min({n, MaxText}) >= 1
    <3>1. MaxText \in Nat /\ n \in Nat /\ MaxText >= 1 /\ n >= 1
      BY <1>1, <2>2
    <3>2. /\ Min({n, MaxText}) \in Nat /\ Min({n, MaxText}) =< MaxText
          /\ n =< MaxText => Min({n, MaxText}) = n
          /\ MaxText =< n => Min({n, MaxText}) = MaxText
      BY <3>1, MinOfTwo
    <3> QED
      BY <3>1, <3>2
  <2> QED
    BY <2>1, <2>2, <2>3 DEF Ack
<1> QED
  BY <1>1, <1>2, <1>3

-----------------------------------------------------------------------------
(* Types                                                                     *)

LEMMA TypeParts ==
  /\ TypeOK <=> /\ ServerTypes /\ QueueTypes /\ HungTypes /\ ClientTypes /\ SentTypes
                /\ ReplyTypes
  /\ TypeOK' <=> /\ ServerTypes' /\ QueueTypes' /\ HungTypes' /\ ClientTypes' /\ SentTypes'
                 /\ ReplyTypes'
BY DEF TypeOK, ServerTypes, QueueTypes, HungTypes, ClientTypes, SentTypes, ReplyTypes

LEMMA TypesKept ==
  /\ ServerTypes /\ UNCHANGED server => ServerTypes'
  /\ QueueTypes /\ UNCHANGED backlog => QueueTypes'
  /\ HungTypes /\ UNCHANGED hung => HungTypes'
  /\ ClientTypes /\ UNCHANGED cpc => ClientTypes'
  /\ SentTypes /\ UNCHANGED <<left, up>> => SentTypes'
  /\ ReplyTypes /\ UNCHANGED <<down, got>> => ReplyTypes'
BY DEF server, ServerTypes, QueueTypes, HungTypes, ClientTypes, SentTypes, ReplyTypes

LEMMA EndTypes ==
  ASSUME TypeOK, ProcessEnds
  PROVE  TypeOK'
<1> USE TypeParts, TypesKept DEF client, wire
<1>1. QueueTypes'
  BY DEF ProcessEnds, QueueTypes
<1>2. HungTypes'
  BY DEF ProcessEnds, HungTypes
<1>3. ServerTypes'
  <2>1. 0 \in 0 .. MaxText
    BY Lengths
  <2> QED
    BY <2>1 DEF ProcessEnds, ServerTypes
<1> QED
  BY <1>1, <1>2, <1>3 DEF ProcessEnds

\* What ipcb reads and what it answers.
LEMMA RecvTypes ==
  ASSUME TypeOK, Recv
  PROVE  TypeOK' /\ serving \in Clients
<1> USE TypeParts, TypesKept DEF client
<1>1. serving \in Clients /\ bpc = "recv" /\ up[serving] \in Nat /\ MaxText \in Nat
  BY Lengths DEF Recv, ServerTypes, SentTypes
<1>2. CASE up[serving] > 0
  <2>1. PICK n \in Nat : n = Min({up[serving], MaxText}) /\ n =< MaxText /\ n =< up[serving]
    BY <1>1, MinOfTwo
  <2>2. request' = n /\ up' = [up EXCEPT ![serving] = @ - n] /\ bpc' = "reply"
    BY <1>2, <2>1 DEF Recv
  <2>3. up[serving] - n \in Nat /\ n \in 0 .. MaxText
    BY <1>1, <2>1
  <2>4. SentTypes'
    BY <2>2, <2>3 DEF Recv, SentTypes, client
  <2>5. ServerTypes'
    BY <1>1, <2>2, <2>3 DEF Recv, ServerTypes
  <2> QED
    BY <1>1, <2>4, <2>5 DEF Recv
<1>3. CASE ~(up[serving] > 0)
  <2>1. bpc' = "close" /\ UNCHANGED <<request, up>>
    BY <1>3 DEF Recv
  <2>2. ServerTypes'
    BY <1>1, <2>1 DEF Recv, ServerTypes
  <2> QED
    BY <1>1, <2>1, <2>2 DEF Recv
<1> QED
  BY <1>2, <1>3

LEMMA ReplyAnswers ==
  ASSUME TypeOK, Reply
  PROVE  TypeOK' /\ serving \in Clients
<1> USE TypeParts, TypesKept DEF client
<1>1. /\ serving \in Clients /\ bpc = "reply" /\ request \in Nat /\ MaxText \in Nat
      /\ AckLen \in Nat
  BY Lengths DEF Reply, ServerTypes
<1>2. PICK n \in Nat : n = AckLen + request
  BY <1>1
<1>3. Min({n, MaxText}) \in 0 .. MaxText
  BY <1>1, MinOfTwo
<1>4. ReplyTypes'
  BY <1>2, <1>3 DEF Reply, ReplyTypes
<1>5. ServerTypes'
  BY <1>1 DEF Reply, ServerTypes
<1> QED
  BY <1>1, <1>4, <1>5 DEF Reply

LEMMA ServerTypesStep ==
  ASSUME TypeOK, Start \/ StopServer \/ Kill \/ ServerStep
  PROVE  TypeOK'
<1> USE TypeParts, TypesKept DEF client, wire
<1>1. CASE Start
  <2>1. ServerTypes'
    BY <1>1, Lengths DEF Start, ServerTypes
  <2> QED
    BY <1>1, <2>1 DEF Start
<1>2. CASE StopServer
  <2>1. ServerTypes'
    BY <1>2 DEF StopServer, ServerTypes
  <2> QED
    BY <1>2, <2>1 DEF StopServer
<1>3. CASE Kill \/ ReplyToNobody
  BY <1>3, EndTypes DEF Kill, ReplyToNobody
<1>4. CASE Top
  <2>1. CASE ~running
    BY <1>4, <2>1, EndTypes DEF Top
  <2>2. CASE running
    <3>1. ServerTypes'
      BY <1>4, <2>2 DEF Top, ServerTypes
    <3> QED
      BY <1>4, <2>2, <3>1 DEF Top
  <2> QED
    BY <2>1, <2>2
<1>5. CASE Accept
  <2>1. Head(backlog) \in Clients /\ Tail(backlog) \in Seq(Clients)
    BY <1>5, HeadTailProperties DEF Accept, QueueTypes
  <2>2. ServerTypes' /\ QueueTypes'
    BY <1>5, <2>1, Lengths DEF Accept, ServerTypes, QueueTypes
  <2> QED
    BY <1>5, <2>2 DEF Accept
<1>6. CASE Recv \/ Reply
  BY <1>6, RecvTypes, ReplyAnswers
<1>7. CASE Close
  <2>1. ServerTypes' /\ HungTypes'
    BY <1>7 DEF Close, ServerTypes, HungTypes
  <2> QED
    BY <1>7, <2>1 DEF Close
<1> QED
  BY <1>1, <1>2, <1>3, <1>4, <1>5, <1>6, <1>7 DEF ServerStep

LEMMA ClientTypesStep ==
  ASSUME TypeOK, NEW c \in Clients, Connect(c) \/ ClientStep(c) \/ Interrupt(c)
  PROVE  TypeOK'
<1> USE TypeParts, TypesKept DEF wire
<1>1. CASE Connect(c)
  <2>1. QueueTypes'
    BY <1>1 DEF Connect, QueueTypes
  <2>2. ClientTypes'
    BY <1>1 DEF Connect, Goto, ClientTypes
  <2> QED
    BY <1>1, <2>1, <2>2 DEF Connect
<1>2. CASE Send(c)
  <2>1. PICK n \in Nat : n = Min({left[c], Chunk}) /\ n =< left[c]
    BY Lengths, MinOfTwo DEF SentTypes
  <2>2. up' = [up EXCEPT ![c] = @ + n] /\ left' = [left EXCEPT ![c] = @ - n]
    BY <1>2, <2>1 DEF Send
  <2>3. SentTypes'
    <3>1. left[c] \in Nat /\ up[c] \in Nat
      BY DEF SentTypes
    <3>2. left[c] - n \in Nat /\ up[c] + n \in Nat
      BY <2>1, <3>1
    <3> QED
      BY <2>2, <3>2 DEF SentTypes
  <2> QED
    BY <1>2, <2>3 DEF Send
<1>3. CASE Sent(c) \/ SendToNobody(c) \/ Interrupt(c)
  <2>1. ClientTypes'
    BY <1>3 DEF Sent, SendToNobody, Interrupt, Goto, ClientTypes
  <2> QED
    BY <1>3, <2>1 DEF Sent, SendToNobody, Interrupt
<1>4. CASE Receive(c)
  <2>1. ClientTypes' /\ ReplyTypes'
    BY <1>4 DEF Receive, Goto, ClientTypes, ReplyTypes
  <2> QED
    BY <1>4, <2>1 DEF Receive
<1> QED
  BY <1>1, <1>2, <1>3, <1>4 DEF ClientStep

LEMMA TypeInit ==
  ASSUME Init
  PROVE  TypeOK
<1> USE DEF Init
<1>1. 0 \in 0 .. MaxText /\ 0 \in 0 .. MaxStarts
  BY Lengths
<1>2. ServerTypes
  BY <1>1 DEF ServerTypes
<1>3. QueueTypes /\ HungTypes /\ ClientTypes
  BY DEF QueueTypes, HungTypes, ClientTypes
<1>4. SentTypes /\ ReplyTypes
  BY <1>1, ClientsAssumption DEF SentTypes, ReplyTypes
<1> QED
  BY <1>2, <1>3, <1>4, TypeParts

\* ipcb reads and answers no more than its buffers hold, and serves a client exactly
\* while it is between accept() and close().
THEOREM DemoTypeCorrect == Spec => []TypeOK
<1>1. TypeOK /\ [Next]_vars => TypeOK'
  <2> SUFFICES ASSUME TypeOK, [Next]_vars PROVE TypeOK'
    OBVIOUS
  <2>1. CASE UNCHANGED vars
    BY <2>1, TypeParts, TypesKept DEF vars, client, wire
  <2> QED
    BY <2>1, ServerTypesStep, ClientTypesStep DEF Next
<1> QED
  BY <1>1, TypeInit, PTL DEF Spec

-----------------------------------------------------------------------------
(* Where a connection is                                                     *)

\* ipcb ends: no connection is left open.
LEMMA EndPlaces ==
  ASSUME TypeOK, Placed, ProcessEnds
  PROVE  Placed'
<1>1. /\ serving' = None /\ backlog' = <<>> /\ cpc' = cpc
      /\ \A c \in Clients : hung'[c] = IF c = serving \/ InBacklog(c) THEN "lost" ELSE hung[c]
  BY DEF ProcessEnds, InBacklog, client
<1>2. DOMAIN backlog' = {} /\ \A c \in Clients : c # serving' /\ ~InBacklog(c)'
  BY <1>1, Lengths DEF InBacklog
<1>3. ASSUME NEW c \in Clients, cpc'[c] = "off" PROVE hung'[c] = "no"
  BY <1>1, <1>3 DEF Placed
<1> QED
  BY <1>2, <1>3 DEF Placed

LEMMA AcceptPlaces ==
  ASSUME TypeOK, Placed, Accept
  PROVE  Placed' /\ serving' \in Clients /\ InBacklog(serving')
<1>1. /\ backlog \in Seq(Clients) /\ backlog # <<>> /\ backlog' = Tail(backlog)
      /\ serving' = Head(backlog) /\ UNCHANGED <<cpc, hung>>
  BY TypeParts DEF QueueTypes, Accept, client
<1>2. /\ Head(backlog) \in Clients /\ Head(backlog) = backlog[1] /\ 1 \in DOMAIN backlog
      /\ \A i \in DOMAIN backlog' : /\ backlog'[i] = backlog[i + 1] /\ i + 1 \in DOMAIN backlog
                                    /\ i \in Int /\ i >= 1
  <2>1. PICK q \in Seq(Clients) : q = backlog
    BY <1>1
  <2>2. /\ Head(q) \in Clients /\ Head(q) = q[1] /\ Tail(q) \in Seq(Clients)
        /\ Len(Tail(q)) = Len(q) - 1 /\ \A i \in 1 .. Len(Tail(q)) : Tail(q)[i] = q[i + 1]
        /\ Len(q) \in Nat /\ Len(q) # 0
    BY <1>1, <2>1, HeadTailProperties, LenProperties, EmptySeq
  <2>3. DOMAIN q = 1 .. Len(q) /\ DOMAIN Tail(q) = 1 .. Len(Tail(q))
    BY <2>2, LenProperties
  <2> QED
    BY <1>1, <2>1, <2>2, <2>3
<1>3. ASSUME NEW i \in DOMAIN backlog', NEW j \in DOMAIN backlog', backlog'[i] = backlog'[j]
      PROVE  i = j
  <2>1. i + 1 = j + 1 /\ i \in Int /\ j \in Int
    BY <1>2, <1>3 DEF Placed
  <2> QED
    BY <2>1
<1>4. ASSUME NEW c \in Clients, InBacklog(c)' PROVE InBacklog(c) /\ c # serving'
  <2>1. PICK i \in DOMAIN backlog' : backlog'[i] = c
    BY <1>4 DEF InBacklog
  <2>2. i + 1 \in DOMAIN backlog /\ backlog[i + 1] = c /\ i + 1 # 1
    BY <1>2, <2>1
  <2> QED
    BY <1>1, <1>2, <2>2 DEF Placed, InBacklog
<1>5. serving' \in Clients /\ InBacklog(serving')
  BY <1>1, <1>2 DEF InBacklog
<1>6. ASSUME NEW c \in Clients
      PROVE  /\ InBacklog(c)' => hung'[c] = "no" /\ c # serving' /\ cpc'[c] # "off"
             /\ c = serving' => hung'[c] = "no" /\ cpc'[c] # "off"
             /\ cpc'[c] = "off" => hung'[c] = "no"
  BY <1>1, <1>4, <1>5 DEF Placed
<1> QED
  BY <1>3, <1>5, <1>6 DEF Placed

LEMMA ConnectPlaces ==
  ASSUME TypeOK, Placed, NEW c \in Clients, Connect(c)
  PROVE  Placed' /\ c # serving
<1>1. /\ backlog \in Seq(Clients) /\ backlog' = Append(backlog, c) /\ cpc[c] = "off"
      /\ cpc' = [cpc EXCEPT ![c] = "send"] /\ UNCHANGED <<serving, hung>>
  BY TypeParts DEF QueueTypes, Connect, Goto, server
<1>2. \A i \in DOMAIN backlog' : \/ i \in DOMAIN backlog /\ backlog'[i] = backlog[i]
                                 \/ i = Len(backlog) + 1 /\ backlog'[i] = c
  BY <1>1
<1>3. ~InBacklog(c) /\ c # serving /\ hung[c] = "no"
  BY <1>1 DEF Placed
<1>4. \A i, j \in DOMAIN backlog' : backlog'[i] = backlog'[j] => i = j
  BY <1>2, <1>3 DEF Placed, InBacklog
<1>5. \A d \in Clients : InBacklog(d)' => InBacklog(d) \/ d = c
  BY <1>2 DEF InBacklog
<1>6. \A d \in Clients : cpc'[d] = IF d = c THEN "send" ELSE cpc[d]
  BY <1>1, TypeParts DEF ClientTypes
<1> QED
  BY <1>1, <1>3, <1>4, <1>5, <1>6 DEF Placed

\* The other steps.
LEMMA OtherPlaces ==
  ASSUME TypeOK, Placed, UNCHANGED backlog,
         \A c \in Clients : /\ cpc'[c] = cpc[c] \/ (cpc[c] # "off" /\ cpc'[c] # "off")
                            /\ hung'[c] = hung[c] \/ c = serving,
         serving' = serving \/ serving' = None,
         serving' = serving => UNCHANGED hung
  PROVE  Placed'
<1>1. \A c \in Clients : InBacklog(c)' <=> InBacklog(c)
  BY DEF InBacklog
<1>2. \A c \in Clients : c = serving' => c = serving
  BY Lengths
<1> QED
  BY <1>1, <1>2 DEF Placed

LEMMA PlaceStep ==
  ASSUME TypeOK, Placed, [Next]_vars
  PROVE  Placed'
<1> USE DEF server, client, wire
<1>1. CASE UNCHANGED vars
  BY <1>1, OtherPlaces DEF vars
<1>2. CASE Kill \/ ReplyToNobody \/ (Top /\ ~running)
  BY <1>2, EndPlaces DEF Kill, ReplyToNobody, Top
<1>3. CASE Start \/ StopServer \/ (Top /\ running) \/ Recv \/ Reply
  BY <1>3, OtherPlaces DEF Start, StopServer, Top, Recv, Reply
<1>4. CASE Accept
  BY <1>4, AcceptPlaces
<1>5. CASE Close
  <2>1. \A c \in Clients : hung'[c] = hung[c] \/ c = serving
    BY <1>5, TypeParts DEF Close, HungTypes
  <2>2. serving' = None /\ serving # None /\ UNCHANGED <<backlog, cpc>>
    BY <1>5, TypeParts DEF Close, ServerTypes
  <2> QED
    BY <2>1, <2>2, OtherPlaces
<1>6. ASSUME NEW c \in Clients, ClientStep(c) \/ Interrupt(c) PROVE Placed'
  <2>1. UNCHANGED <<serving, backlog, hung>>
    BY <1>6 DEF ClientStep, Send, Sent, SendToNobody, Receive, Interrupt
  <2>2. cpc' = cpc \/ (cpc[c] # "off" /\ \E l \in {"recv", "end", "killed"} :
                        cpc' = [cpc EXCEPT ![c] = l])
    BY <1>6 DEF ClientStep, Send, Sent, SendToNobody, Receive, Interrupt, Goto
  <2>3. \A d \in Clients : cpc'[d] = cpc[d] \/ (cpc[d] # "off" /\ cpc'[d] # "off")
    BY <2>2, TypeParts DEF ClientTypes
  <2> QED
    BY <2>1, <2>3, OtherPlaces
<1>7. ASSUME NEW c \in Clients, Connect(c) PROVE Placed'
  BY <1>7, ConnectPlaces
<1> QED
  BY <1>1, <1>2, <1>3, <1>4, <1>5, <1>6, <1>7 DEF Next, ServerStep

-----------------------------------------------------------------------------
(* What becomes of a message                                                 *)

\* A step that changes nothing of a client, nor what is done with it.
LEMMA Kept ==
  ASSUME NEW c \in Clients, Conversation(c),
         cpc'[c] = cpc[c], left'[c] = left[c], up'[c] = up[c], down'[c] = down[c],
         got'[c] = got[c], hung'[c] = hung[c],
         Unheard(c)' => Unheard(c),
         c = serving' /\ bpc' = "reply" =>
           c = serving /\ bpc = "reply" /\ request' = request,
         c = serving' /\ bpc' = "close" => c = serving /\ bpc = "close"
  PROVE  Conversation(c)'
BY DEF Conversation

LEMMA EndConversation ==
  ASSUME TypeOK, Placed, NEW c \in Clients, Conversation(c), ProcessEnds
  PROVE  Conversation(c)'
<1>1. /\ serving' = None /\ UNCHANGED <<cpc, left, up, down, got>>
      /\ hung'[c] = IF c = serving \/ InBacklog(c) THEN "lost" ELSE hung[c]
  BY DEF ProcessEnds, InBacklog, client, wire
<1>2. c # None
  BY Lengths
<1>3. CASE c = serving \/ InBacklog(c)
  BY <1>1, <1>2, <1>3 DEF Conversation, Unheard
<1>4. CASE ~(c = serving \/ InBacklog(c))
  BY <1>1, <1>2, <1>4, Kept DEF Unheard
<1> QED
  BY <1>3, <1>4

LEMMA RecvConversation ==
  ASSUME TypeOK, Placed, NEW c \in Clients, Conversation(c), Recv
  PROVE  Conversation(c)'
<1>1. /\ bpc = "recv" /\ serving \in Clients /\ serving' = serving
      /\ UNCHANGED <<cpc, left, down, got, hung>>
  BY RecvTypes DEF Recv, client
<1>2. CASE c # serving
  <2>1. up'[c] = up[c]
    BY <1>2, TypeParts DEF Recv, SentTypes
  <2> QED
    BY <1>1, <1>2, <2>1, Kept DEF Unheard
<1>3. CASE c = serving
  <2> SUFFICES ASSUME Length[c] =< Chunk PROVE Conversation(c)'
    BY DEF Conversation
  <2>1. /\ hung[c] = "no" /\ down[c] = 0 /\ cpc[c] # "end"
        /\ (left[c] = Length[c] /\ up[c] = 0) \/ (left[c] = 0 /\ up[c] = Length[c])
    BY <1>1, <1>3 DEF Placed, Conversation, Unheard
  <2>2. CASE up[c] > 0
    <3>1. up[c] = Length[c] /\ left[c] = 0
      BY <2>1, <2>2
    <3>2. request' = Min({Length[c], MaxText}) /\ bpc' = "reply"
      BY <1>3, <2>2, <3>1 DEF Recv
    <3> QED
      BY <1>1, <1>3, <2>1, <3>1, <3>2 DEF Conversation, Unheard
  <2>3. CASE ~(up[c] > 0)
    <3>1. bpc' = "close" /\ cpc[c] = "killed"
      BY <1>3, <2>1, <2>3 DEF Recv, Gone
    <3> QED
      BY <1>1, <1>3, <2>1, <3>1 DEF Conversation, Unheard
  <2> QED
    BY <2>2, <2>3
<1> QED
  BY <1>2, <1>3

LEMMA ReplyConversation ==
  ASSUME TypeOK, Placed, NEW c \in Clients, Conversation(c), Reply
  PROVE  Conversation(c)'
<1>1. /\ bpc = "reply" /\ bpc' = "close" /\ serving \in Clients /\ serving' = serving
      /\ UNCHANGED <<cpc, left, up, got, hung>>
      /\ down' = [down EXCEPT ![serving] = Min({AckLen + request, MaxText})]
  BY ReplyAnswers DEF Reply, client
<1>2. CASE c # serving
  <2>1. down'[c] = down[c]
    BY <1>1, <1>2, TypeParts DEF ReplyTypes
  <2> QED
    BY <1>1, <1>2, <2>1, Kept DEF Unheard
<1>3. CASE c = serving
  <2> SUFFICES ASSUME Length[c] =< Chunk PROVE Conversation(c)'
    BY DEF Conversation
  <2>1. /\ hung[c] = "no" /\ cpc[c] # "end" /\ left[c] = 0
        /\ request = Min({Length[c], MaxText})
    BY <1>1, <1>3 DEF Placed, Conversation
  <2>2. down'[c] = Ack(c)
    <3>1. down'[c] = Min({AckLen + request, MaxText})
      BY <1>1, <1>3, TypeParts DEF ReplyTypes
    <3> QED
      BY <2>1, <3>1 DEF Ack
  <2> QED
    BY <1>1, <1>3, <2>1, <2>2 DEF Conversation, Unheard
<1> QED
  BY <1>2, <1>3

LEMMA CloseConversation ==
  ASSUME TypeOK, Placed, NEW c \in Clients, Conversation(c), Close
  PROVE  Conversation(c)'
<1>1. /\ bpc = "close" /\ bpc' = "top" /\ serving' = None /\ c # None
      /\ UNCHANGED <<cpc, left, up, down, got>> /\ hung' = [hung EXCEPT ![serving] = "closed"]
  BY Lengths DEF Close, client, wire
<1>2. CASE c # serving
  <2>1. hung'[c] = hung[c]
    BY <1>1, <1>2, TypeParts DEF HungTypes
  <2> QED
    BY <1>1, <1>2, <2>1, Kept DEF Unheard
<1>3. CASE c = serving
  <2>1. hung[c] = "no" /\ hung'[c] = "closed"
    BY <1>1, <1>3, TypeParts DEF HungTypes, Placed
  <2> QED
    BY <1>1, <1>3, <2>1 DEF Conversation, Unheard
<1> QED
  BY <1>2, <1>3

LEMMA ServerConversation ==
  ASSUME TypeOK, Placed, NEW c \in Clients, Conversation(c),
         Start \/ StopServer \/ Kill \/ ServerStep
  PROVE  Conversation(c)'
<1> USE DEF client, wire
<1>1. CASE Start \/ (Top /\ running) \/ StopServer
  <2>1. UNCHANGED <<serving, request, cpc, left, up, down, got, hung>>
    BY <1>1 DEF Start, Top, StopServer
  <2>2. bpc' = bpc \/ (serving = None /\ c # None)
    BY <1>1, TypeParts, Lengths DEF Start, Top, StopServer, ServerTypes
  <2> QED
    BY <2>1, <2>2, Kept DEF Unheard
<1>2. CASE Kill \/ ReplyToNobody \/ (Top /\ ~running)
  BY <1>2, EndConversation DEF Kill, ReplyToNobody, Top
<1>3. CASE Accept
  <2>1. /\ bpc = "accept" /\ bpc' = "recv" /\ UNCHANGED <<cpc, left, up, down, got, hung>>
    BY <1>3 DEF Accept
  <2> QED
    BY <2>1, Kept DEF Unheard
<1>4. CASE Recv \/ Reply \/ Close
  BY <1>4, RecvConversation, ReplyConversation, CloseConversation
<1> QED
  BY <1>1, <1>2, <1>3, <1>4 DEF ServerStep

\* A client's own steps.
LEMMA ClientConversation ==
  ASSUME TypeOK, Placed, NEW c \in Clients, Conversation(c),
         Connect(c) \/ ClientStep(c) \/ Interrupt(c)
  PROVE  Conversation(c)'
<1> USE DEF wire
<1> SUFFICES ASSUME Length[c] =< Chunk PROVE Conversation(c)'
  BY DEF Conversation
<1>1. /\ cpc \in [Clients -> {"off", "send", "recv", "end", "killed"}]
      /\ hung[c] \in {"no", "closed", "lost"}
      /\ left \in [Clients -> Nat] /\ up \in [Clients -> Nat]
      /\ down \in [Clients -> 0 .. MaxText] /\ got \in [Clients -> 0 .. MaxText]
      /\ bpc \in {"off", "top", "accept", "recv", "reply", "close"}
  BY TypeParts DEF ClientTypes, HungTypes, SentTypes, ReplyTypes, ServerTypes
<1>2. UNCHANGED <<server, hung>>
  BY DEF Connect, ClientStep, Send, Sent, SendToNobody, Receive, Interrupt
<1>3. UNCHANGED <<bpc, serving, request, hung>> /\ (Unheard(c)' <=> Unheard(c))
  BY <1>2 DEF server, Unheard
<1>4. CASE Connect(c)
  <2>1. cpc'[c] = "send" /\ UNCHANGED <<left, got, up, down>> /\ hung[c] = "no" /\ c # serving
    BY <1>1, <1>4, ConnectPlaces DEF Connect, Goto, Placed
  <2> QED
    BY <1>3, <2>1 DEF Conversation, Unheard
<1>5. CASE Send(c)
  <2>1. /\ cpc[c] = "send" /\ left[c] > 0 /\ hung[c] = "no" /\ UNCHANGED <<cpc, got, down>>
        /\ up' = [up EXCEPT ![c] = @ + Min({left[c], Chunk})]
        /\ left' = [left EXCEPT ![c] = @ - Min({left[c], Chunk})]
    BY <1>5 DEF Send
  <2>2. left[c] # 0
    BY <2>1
  <2>3. Unheard(c) /\ ~(c = serving /\ bpc \in {"reply", "close"})
    BY <2>1, <2>2 DEF Conversation, Unheard
  <2>4. down[c] = 0 /\ left[c] = Length[c] /\ up[c] = 0
    BY <2>2, <2>3 DEF Conversation
  <2>5. Min({left[c], Chunk}) = Length[c]
    BY <2>4, Lengths, MinOfTwo
  <2>6. left'[c] = 0 /\ up'[c] = Length[c]
    BY <1>1, <2>1, <2>4, <2>5, Lengths
  <2> QED
    BY <1>3, <2>1, <2>3, <2>4, <2>6 DEF Conversation
<1>6. CASE Sent(c)
  <2>1. cpc[c] = "send" /\ cpc'[c] = "recv" /\ UNCHANGED <<left, got, up, down>>
    BY <1>1, <1>6 DEF Sent, Goto
  <2> QED
    BY <1>3, <2>1 DEF Conversation
<1>7. CASE SendToNobody(c)
  <2>1. /\ cpc[c] = "send" /\ left[c] > 0 /\ hung[c] # "no"
        /\ UNCHANGED <<left, got, up, down>>
    BY <1>7 DEF SendToNobody
  <2>2. left[c] # 0
    BY <2>1
  <2>3. hung[c] = "lost" /\ c # serving
    BY <1>1, <2>1, <2>2 DEF Conversation, Placed
  <2> QED
    BY <1>3, <2>3 DEF Conversation, Unheard
<1>8. CASE Receive(c)
  <2>1. /\ cpc[c] = "recv" /\ cpc'[c] = "end" /\ (down[c] > 0 \/ hung[c] # "no")
        /\ got'[c] = down[c] /\ UNCHANGED <<left, up, down>>
    BY <1>1, <1>8 DEF Receive, Goto
  <2>2. ~(down[c] = 0 /\ hung[c] = "no")
    BY <2>1
  <2>3. ~Unheard(c) /\ ~(c = serving /\ bpc = "reply")
    BY <2>2 DEF Conversation, Unheard, Placed
  <2>4. ((c = serving /\ bpc = "close") \/ hung[c] # "lost") => down[c] = Ack(c) /\ left[c] = 0
    <3>1. hung[c] # "lost" => (c = serving /\ bpc = "close") \/ hung[c] = "closed"
      BY <1>1, <2>3 DEF Unheard
    <3> QED
      BY <2>1, <3>1 DEF Conversation
  <2> QED
    BY <1>3, <2>1, <2>3, <2>4 DEF Conversation
<1>9. CASE Interrupt(c)
  <2>1. cpc'[c] = "killed" /\ UNCHANGED <<left, got, up, down>>
    BY <1>1, <1>9 DEF Interrupt, Goto
  <2> QED
    BY <1>3, <2>1 DEF Conversation
<1> QED
  BY <1>4, <1>5, <1>6, <1>7, <1>8, <1>9 DEF ClientStep

\* Another client's.
LEMMA OtherConversation ==
  ASSUME TypeOK, NEW c \in Clients, Conversation(c), NEW d \in Clients, d # c,
         Connect(d) \/ ClientStep(d) \/ Interrupt(d)
  PROVE  Conversation(c)'
<1>1. UNCHANGED <<bpc, serving, request, hung>>
  BY DEF Connect, ClientStep, Send, Sent, SendToNobody, Receive, Interrupt, server
<1>2. cpc'[c] = cpc[c] /\ left'[c] = left[c] /\ up'[c] = up[c] /\ down'[c] = down[c]
      /\ got'[c] = got[c]
  BY TypeParts DEF Connect, ClientStep, Send, Sent, SendToNobody, Receive, Interrupt, wire, Goto,
                   ClientTypes, SentTypes, ReplyTypes
<1> QED
  BY <1>1, <1>2, Kept DEF Unheard

LEMMA AnswerInit ==
  ASSUME Init
  PROVE  AnswerInv
<1>1. DOMAIN backlog = {}
  BY DEF Init
<1>2. Placed
  BY <1>1, Lengths DEF Init, Placed, InBacklog
<1>3. ASSUME NEW c \in Clients PROVE Conversation(c)
  BY Lengths DEF Init, Conversation, Unheard
<1> QED
  BY <1>2, <1>3 DEF AnswerInv

LEMMA AnswerStep ==
  ASSUME TypeOK, AnswerInv, [Next]_vars
  PROVE  AnswerInv'
<1>1. Placed'
  BY PlaceStep DEF AnswerInv
<1>2. ASSUME NEW c \in Clients PROVE Conversation(c)'
  <2>1. Placed /\ Conversation(c)
    BY DEF AnswerInv
  <2>2. CASE UNCHANGED vars
    BY <2>1, <2>2, Kept DEF vars, server, client, wire, Unheard
  <2>3. ASSUME NEW d \in Clients, Connect(d) \/ ClientStep(d) \/ Interrupt(d)
        PROVE  Conversation(c)'
    BY <2>1, <2>3, ClientConversation, OtherConversation
  <2> QED
    BY <2>1, <2>2, <2>3, ServerConversation DEF Next
<1> QED
  BY <1>1, <1>2 DEF AnswerInv

\* A message that enters the socket in one piece gets its acknowledgement unless ipcb
\* itself ends, whoever else connects, is killed or waits.
THEOREM DemoAnswered == Spec => []Answered
<1>1. TypeOK /\ AnswerInv /\ [Next]_vars => AnswerInv'
  BY AnswerStep
<1>2. AnswerInv => Answered
  BY DEF AnswerInv, Conversation, Answered, Ack
<1> QED
  BY <1>1, <1>2, AnswerInit, DemoTypeCorrect, PTL DEF Spec
-----------------------------------------------------------------------------
(* Who waits for whom                                                        *)

\* Each ipca can go on but while it waits for an answer on an open connection.
ClientGoesOn(c) == cpc[c] = "send" \/ (cpc[c] = "recv" /\ (down[c] > 0 \/ hung[c] # "no"))

\* ipcb can go on but in accept() and in recv().
ServerGoesOn ==
  \/ bpc \in {"top", "reply", "close"}
  \/ bpc = "accept" /\ backlog # <<>>
  \/ bpc = "recv" /\ (up[serving] > 0 \/ Gone(serving))

\* As long as an ipca has not ended, a program can go on, or ipcb waits for a message
\* that is empty.
OnlyEmptyHolds ==
  \A c \in Clients : cpc[c] \in {"send", "recv"} =>
     (\E d \in Clients : ClientGoesOn(d)) \/ ServerGoesOn \/ (bpc = "recv" /\ Length[serving] = 0)

\* A connection that is open is somewhere; what ipcb has not read of a message is in
\* the socket or still to be sent.
Tracked(c) ==
  /\ cpc[c] # "off" /\ hung[c] = "no" => InBacklog(c) \/ c = serving
  /\ Unheard(c) => up[c] + left[c] = Length[c]
  /\ cpc[c] = "recv" => left[c] = 0
TrackInv == (bpc = "off" => backlog = <<>>) /\ \A c \in Clients : Tracked(c)

\* A step that leaves a client as it is.
LEMMA KeptTracked ==
  ASSUME NEW c \in Clients, Tracked(c),
         cpc'[c] = cpc[c], left'[c] = left[c], up'[c] = up[c],
         hung'[c] = hung[c] \/ hung'[c] # "no",
         hung'[c] = "no" /\ (InBacklog(c) \/ c = serving) => InBacklog(c)' \/ c = serving',
         Unheard(c)' => Unheard(c)
  PROVE  Tracked(c)'
BY DEF Tracked, Unheard

LEMMA ServerTracked ==
  ASSUME TypeOK, Placed, NEW c \in Clients, Tracked(c), Start \/ StopServer \/ Kill \/ ServerStep
  PROVE  Tracked(c)'
<1> USE DEF server, client, wire
<1>1. CASE Kill \/ ReplyToNobody \/ (Top /\ ~running)
  <2>1. ProcessEnds
    BY <1>1 DEF Kill, ReplyToNobody, Top
  <2>2. /\ UNCHANGED <<cpc, left, up>>
        /\ hung'[c] = IF c = serving \/ InBacklog(c) THEN "lost" ELSE hung[c]
    BY <2>1 DEF ProcessEnds, InBacklog
  <2> QED
    BY <2>2, KeptTracked DEF Unheard
<1>2. CASE Start \/ StopServer \/ (Top /\ running) \/ Reply
  <2>1. UNCHANGED <<cpc, left, up, hung, serving, backlog>>
    BY <1>2 DEF Start, StopServer, Top, Reply
  <2>2. Unheard(c)' => Unheard(c)
    BY <1>2, <2>1 DEF Start, StopServer, Top, Reply, Unheard
  <2>3. InBacklog(c) => InBacklog(c)'
    BY <2>1 DEF InBacklog
  <2> QED
    BY <2>1, <2>2, <2>3, KeptTracked
<1>3. CASE Accept
  <2>1. /\ backlog \in Seq(Clients) /\ backlog # <<>> /\ backlog' = Tail(backlog)
        /\ serving' = Head(backlog) /\ bpc = "accept" /\ UNCHANGED <<cpc, left, up, hung>>
    BY <1>3, TypeParts DEF QueueTypes, Accept
  <2>2. ASSUME InBacklog(c) PROVE InBacklog(c)' \/ c = serving'
    <3>1. PICK i \in DOMAIN backlog : backlog[i] = c
      BY <2>2 DEF InBacklog
    <3>2. CASE i = 1
      BY <2>1, <3>1, <3>2
    <3>3. CASE i # 1
      <4>1. i - 1 \in DOMAIN backlog' /\ backlog'[i - 1] = backlog[i]
        BY <2>1, <3>1, <3>3
      <4> QED
        BY <3>1, <4>1 DEF InBacklog
    <3> QED
      BY <3>2, <3>3
  <2>3. c # serving
    BY <2>1, Lengths, TypeParts DEF ServerTypes
  <2> QED
    BY <2>1, <2>2, <2>3, KeptTracked DEF Unheard
<1>4. CASE Recv
  <2>1. /\ UNCHANGED <<cpc, left, hung, serving, backlog>> /\ bpc' \in {"reply", "close"}
        /\ up' = up \/ up' = [up EXCEPT ![serving] = up[serving] - request']
    BY <1>4 DEF Recv
  <2>2. InBacklog(c)' <=> InBacklog(c)
    BY <2>1 DEF InBacklog
  <2>3. CASE c = serving
    BY <2>1, <2>2, <2>3 DEF Tracked, Unheard
  <2>4. CASE c # serving
    <3>1. up'[c] = up[c]
      BY <2>1, <2>4, TypeParts DEF SentTypes
    <3> QED
      BY <2>1, <2>2, <2>4, <3>1, KeptTracked DEF Unheard
  <2> QED
    BY <2>3, <2>4
<1>5. CASE Close
  <2>1. /\ UNCHANGED <<cpc, left, up, backlog>> /\ bpc = "close" /\ serving' = None
        /\ hung' = [hung EXCEPT ![serving] = "closed"]
    BY <1>5 DEF Close
  <2>2. hung'[c] = IF c = serving THEN "closed" ELSE hung[c]
    BY <2>1, TypeParts DEF HungTypes
  <2>3. InBacklog(c) => InBacklog(c)'
    BY <2>1 DEF InBacklog
  <2>4. c # serving => (Unheard(c)' => Unheard(c))
    BY <2>2 DEF Unheard
  <2>5. c = serving => ~Unheard(c)'
    BY <2>2 DEF Unheard
  <2> QED
    BY <2>1, <2>2, <2>3, <2>4, <2>5, KeptTracked
<1> QED
  BY <1>1, <1>2, <1>3, <1>4, <1>5 DEF ServerStep

LEMMA ClientTracked ==
  ASSUME TypeOK, Placed, NEW c \in Clients, Tracked(c), NEW d \in Clients,
         Connect(d) \/ ClientStep(d) \/ Interrupt(d)
  PROVE  Tracked(c)'
<1>1. UNCHANGED <<bpc, serving, hung>>
  BY DEF Connect, ClientStep, Send, Sent, SendToNobody, Receive, Interrupt, server
<1>2. (Unheard(c)' <=> Unheard(c)) /\ (c = serving' <=> c = serving) /\ hung'[c] = hung[c]
  BY <1>1 DEF Unheard
<1>3. InBacklog(c) => InBacklog(c)'
  <2>1. CASE UNCHANGED backlog
    BY <2>1 DEF InBacklog
  <2>2. CASE backlog' = Append(backlog, d)
    <3>1. backlog \in Seq(Clients)
      BY TypeParts DEF QueueTypes
    <3>2. \A i \in DOMAIN backlog : i \in DOMAIN backlog' /\ backlog'[i] = backlog[i]
      BY <2>2, <3>1
    <3> QED
      BY <3>2 DEF InBacklog
  <2> QED
    BY <2>1, <2>2 DEF Connect, ClientStep, Send, Sent, SendToNobody, Receive, Interrupt
<1>4. CASE d # c
  <2>1. cpc'[c] = cpc[c] /\ left'[c] = left[c] /\ up'[c] = up[c]
    BY <1>4, TypeParts DEF Connect, ClientStep, Send, Sent, SendToNobody, Receive, Interrupt, wire, Goto,
                           ClientTypes, SentTypes
  <2> QED
    BY <1>1, <1>2, <1>3, <2>1, KeptTracked
<1>5. CASE d = c /\ Connect(c)
  <2>1. /\ backlog \in Seq(Clients) /\ backlog' = Append(backlog, c)
        /\ cpc' = [cpc EXCEPT ![c] = "send"] /\ UNCHANGED <<left, up>>
    BY <1>5, TypeParts DEF QueueTypes, Connect, Goto, wire
  <2>2. Len(backlog) + 1 \in DOMAIN backlog' /\ backlog'[Len(backlog) + 1] = c
    BY <2>1
  <2>3. InBacklog(c)'
    BY <2>2 DEF InBacklog
  <2>4. cpc'[c] = "send"
    BY <2>1, TypeParts DEF ClientTypes
  <2> QED
    BY <1>2, <2>1, <2>3, <2>4 DEF Tracked
<1>6. CASE d = c /\ Send(c)
  <2>1. PICK n \in Nat : n = Min({left[c], Chunk})
    BY Lengths, MinOfTwo, TypeParts DEF SentTypes
  <2>2. up' = [up EXCEPT ![c] = @ + n] /\ left' = [left EXCEPT ![c] = @ - n] /\ cpc' = cpc
        /\ cpc[c] = "send" /\ UNCHANGED backlog
    BY <1>6, <2>1 DEF Send
  <2>3. up'[c] = up[c] + n /\ left'[c] = left[c] - n /\ up[c] \in Nat /\ left[c] \in Nat
    BY <2>2, TypeParts DEF SentTypes
  <2>4. up'[c] + left'[c] = up[c] + left[c]
    BY <2>1, <2>3
  <2> QED
    BY <1>2, <1>3, <2>2, <2>4 DEF Tracked
<1>7. CASE d = c /\ (Sent(c) \/ SendToNobody(c) \/ Receive(c) \/ Interrupt(c))
  <2>1. /\ cpc[c] # "off" /\ (cpc'[c] = "recv" => left[c] = 0)
        /\ UNCHANGED <<left, up, backlog>>
    BY <1>7, TypeParts DEF Sent, SendToNobody, Receive, Interrupt, Goto, wire, ClientTypes
  <2> QED
    BY <1>2, <1>3, <2>1 DEF Tracked
<1> QED
  BY <1>4, <1>5, <1>6, <1>7 DEF ClientStep

LEMMA TrackStep ==
  ASSUME TypeOK, Placed, TrackInv, [Next]_vars
  PROVE  TrackInv'
<1>1. bpc' = "off" => backlog' = <<>>
  BY DEF TrackInv, Next, Start, StopServer, Kill, ServerStep, Top, Accept, Recv, Reply, ReplyToNobody,
         Close, ProcessEnds, Connect, ClientStep, Send, Sent, SendToNobody, Receive, Interrupt, vars, server
<1>2. ASSUME NEW c \in Clients PROVE Tracked(c)'
  <2>1. CASE UNCHANGED vars
    BY <2>1, KeptTracked DEF TrackInv, vars, server, client, wire, Unheard, InBacklog
  <2> QED
    BY <2>1, ServerTracked, ClientTracked DEF TrackInv, Next
<1> QED
  BY <1>1, <1>2 DEF TrackInv

\* No two programs of the first demo wait for each other, however many ipca are run,
\* interrupted or left behind by a killed ipcb: what nobody gets out of is ipcb in
\* recv() on a message of length 0, which IpcDemoSendString never sends.
THEOREM DemoOnlyEmptyHolds == Spec => []OnlyEmptyHolds
<1>1. Init => TrackInv
  <2>1. ASSUME Init, NEW c \in Clients PROVE Tracked(c)
    BY <2>1, Lengths DEF Init, Tracked
  <2> QED
    BY <2>1 DEF Init, TrackInv
<1>2. TypeOK /\ Placed /\ TrackInv => OnlyEmptyHolds
  <2> SUFFICES ASSUME TypeOK, Placed, TrackInv, NEW c \in Clients, cpc[c] \in {"send", "recv"},
                      ~ClientGoesOn(c), ~ServerGoesOn
               PROVE  (\E d \in Clients : ClientGoesOn(d)) \/ (bpc = "recv" /\ Length[serving] = 0)
    BY DEF OnlyEmptyHolds
  <2>1. InBacklog(c) \/ c = serving
    BY DEF TrackInv, Tracked, ClientGoesOn
  <2>2. backlog # <<>> \/ c = serving
    BY <2>1 DEF InBacklog
  <2>3. bpc = "recv" /\ serving \in Clients
    BY <2>2, Lengths DEF TypeOK, TrackInv, ServerGoesOn
  <2>4. hung[serving] = "no" /\ cpc[serving] # "off"
    BY <2>3 DEF Placed
  <2>5. CASE cpc[serving] = "send"
    BY <2>3, <2>5 DEF ClientGoesOn
  <2>6. CASE cpc[serving] = "recv"
    <3>1. up[serving] \in Nat /\ ~(up[serving] > 0)
      BY <2>3 DEF TypeOK, ServerGoesOn
    <3>2. left[serving] = 0 /\ up[serving] + left[serving] = Length[serving]
      BY <2>3, <2>4, <2>6 DEF TrackInv, Tracked, Unheard
    <3> QED
      BY <2>3, <3>1, <3>2
  <2> QED
    BY <2>3, <2>4, <2>5, <2>6 DEF TypeOK, ServerGoesOn, Gone
<1> QED
  BY <1>1, <1>2, TrackStep, AnswerInit, PlaceStep, DemoTypeCorrect, PTL DEF Spec, AnswerInv
=============================================================================
