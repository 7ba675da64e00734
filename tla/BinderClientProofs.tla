--------------------------- MODULE BinderClientProofs ---------------------------
(* Proofs about BinderClient, for any number of attempts, reconnecting threads, *)
(* lives of the service and heartbeats.                                        *)
EXTENDS BinderClient, FiniteSetTheorems, TLAPS

-----------------------------------------------------------------------------
(* The invariants                                                            *)

\* The type invariant in parts: the context, its proxy, the environment, the
\* counted references and stubs, the recipients, and the threads with what they
\* have in their hands.
CtxTypes ==
  /\ running \in BOOLEAN /\ stub \in BOOLEAN /\ beats \in 0 .. MaxBeats
  /\ state \in {"IDLE", "CONNECTING", "CONNECTED", "RECONNECTING", "DISCONNECTED", "ERROR"}
  /\ recipient \in Objects \cup {None, Unlinked} /\ handle \in {"none", "hb", "ended"}
ProxyType == proxy \in Objects \cup {None}
EnvTypes == service \in Objects \cup {None} /\ lives \in 0 .. MaxLives
RefTypes == refs \in [Objects -> Nat] /\ stubs \in Nat
WatchTypes == watches \in [Objects -> Nat] /\ deaths \in Nat
HandTypes == got \in [Connectors \cup {"hb"} -> Objects \cup {None}]
AttemptTypes == attempts \in [Connectors -> 0 .. MaxAttempts]
HandPlaces ==
  /\ \A t \in Connectors : got[t] # None => pc[t] \in {"stub", "publish"}
  /\ got["hb"] # None <=> pc["hb"] = "sending"

\* The places of each thread.
Places(t) ==
  IF t = "hb" THEN {"none", "sleep", "beat", "sending", "end"}
  ELSE InConnect \cup InReconnect \cup
         (IF t = "main" THEN {"start", "loop", "send", "drop", "quit", "destroy", "join", "gone"}
          ELSE {"idle"})
PlaceTypes ==
  DOMAIN pc = Connectors \cup {"hb"} /\ \A t \in Connectors \cup {"hb"} : pc[t] \in Places(t)

\* The threads inside OhIpcClientConnect that hold a reference to object n.
Holders(n) == {t \in Connectors : got[t] = n}

\* Every reference is backed: the context's and those in the hands of threads.
RefsBacked ==
  \A n \in Objects : refs[n] >= Cardinality(Holders(n)) + (IF proxy = n THEN 1 ELSE 0)
StubBacked == stubs >= IF stub THEN 1 ELSE 0

\* A thread that makes a stub or is about to publish has an object to publish, and
\* the context has one as long as it calls itself connected.
HasObject == \A t \in Connectors : pc[t] \in {"stub", "publish"} => got[t] # None
ConnectedHolds == state = "CONNECTED" => proxy # None

\* The heartbeat thread is started once: while running is set, which no
\* reconnection leaves so, only the first connection gets to it.
BeatsOnce ==
  running =>
    /\ \A r \in Reconnectors : pc[r] \in {"idle", "begin"}
    /\ \A t \in Connectors : attempts[t] = 0
    /\ pc["main"] \notin {"clean", "try"}
    /\ pc["main"] \in {"start"} \cup InConnect => pc["hb"] = "none"

ServiceIsLast == service \in {None, lives}

\* As long as no service has died the main thread alone connects, with nothing in
\* the context while it does.
NoDeathYet == lives = 0 \/ (lives = 1 /\ service = 1)
Lone == deaths = 0 /\ \A r \in Reconnectors : pc[r] = "idle" /\ got[r] = None
OneRef ==
  \A n \in Objects :
    refs[n] = (IF proxy = n THEN 1 ELSE 0) + (IF got["main"] = n THEN 1 ELSE 0)
OneStub == stubs = IF stub THEN 1 ELSE 0
Empty ==
  /\ pc["main"] \in {"start", "try", "get", "stub", "error"} => proxy = None /\ ~stub
  /\ pc["main"] = "publish" => proxy = None
MainAlone == NoDeathYet => Lone /\ OneRef /\ OneStub /\ Empty

Held ==
  RefsBacked /\ StubBacked /\ HasObject /\ ConnectedHolds /\ BeatsOnce /\ ServiceIsLast
    /\ MainAlone

-----------------------------------------------------------------------------
(* Threads and objects                                                       *)

LEMMA Names ==
  /\ "main" \in Connectors /\ "hb" \notin Connectors /\ Reconnectors \subseteq Connectors
  /\ \A r \in Reconnectors : r # "main" /\ r # "hb"
  /\ \A t \in Connectors : t = "main" \/ t \in Reconnectors
  /\ None \notin Objects /\ 0 \notin Objects /\ Objects \subseteq Nat
  /\ IsFiniteSet(Connectors)
<1>1. IsFiniteSet(Connectors)
  <2>1. IsFiniteSet({"main"})
    BY FS_Singleton
  <2> QED
    BY <2>1, FS_Union, ReconnectorsAssumption DEF Connectors
<1> QED
  BY <1>1, ReconnectorsAssumption, LivesAssumption DEF Connectors, Objects, None

LEMMA TypeParts ==
  /\ TypeOK <=> /\ CtxTypes /\ ProxyType /\ EnvTypes /\ RefTypes /\ WatchTypes
                /\ HandTypes /\ AttemptTypes /\ HandPlaces /\ PlaceTypes
  /\ TypeOK' <=> /\ CtxTypes' /\ ProxyType' /\ EnvTypes' /\ RefTypes' /\ WatchTypes'
                 /\ HandTypes' /\ AttemptTypes' /\ HandPlaces' /\ PlaceTypes'
<1>1. PlaceTypes <=>
        /\ DOMAIN pc = Connectors \cup {"hb"}
        /\ pc["main"] \in {"start", "loop", "send", "drop", "quit", "destroy", "join", "gone"}
                            \cup InConnect \cup InReconnect
        /\ pc["hb"] \in {"none", "sleep", "beat", "sending", "end"}
        /\ \A r \in Reconnectors : pc[r] \in {"idle"} \cup InConnect \cup InReconnect
  BY Names DEF PlaceTypes, Places
<1>2. PlaceTypes' <=>
        /\ DOMAIN pc' = Connectors \cup {"hb"}
        /\ pc'["main"] \in {"start", "loop", "send", "drop", "quit", "destroy", "join", "gone"}
                             \cup InConnect \cup InReconnect
        /\ pc'["hb"] \in {"none", "sleep", "beat", "sending", "end"}
        /\ \A r \in Reconnectors : pc'[r] \in {"idle"} \cup InConnect \cup InReconnect
  BY Names DEF PlaceTypes, Places
<1> QED
  BY <1>1, <1>2 DEF TypeOK, CtxTypes, ProxyType, EnvTypes, RefTypes, WatchTypes, HandTypes,
                    AttemptTypes, HandPlaces

LEMMA TypesKept ==
  /\ CtxTypes /\ UNCHANGED <<running, state, stub, recipient, handle, beats>> => CtxTypes'
  /\ ProxyType /\ UNCHANGED proxy => ProxyType'
  /\ EnvTypes /\ UNCHANGED <<service, lives>> => EnvTypes'
  /\ RefTypes /\ UNCHANGED <<refs, stubs>> => RefTypes'
  /\ WatchTypes /\ UNCHANGED <<watches, deaths>> => WatchTypes'
  /\ HandTypes /\ UNCHANGED got => HandTypes'
  /\ AttemptTypes /\ UNCHANGED attempts => AttemptTypes'
  /\ PlaceTypes /\ UNCHANGED pc => PlaceTypes'
BY DEF CtxTypes, ProxyType, EnvTypes, RefTypes, WatchTypes, HandTypes, AttemptTypes, PlaceTypes

\* One reference more or fewer.
LEMMA AddedAt ==
  ASSUME NEW count \in [Objects -> Nat], NEW n, NEW k \in Int
  PROVE  /\ \A m \in Objects :
              /\ Added(count, n, k)[m] = IF m = n THEN count[m] + k ELSE count[m]
              /\ Added(count, n, k)[m] \in Int
         /\ (\A m \in Objects : Added(count, n, k)[m] >= 0)
              => Added(count, n, k) \in [Objects -> Nat]
<1>1. \A m \in Objects : /\ Added(count, n, k)[m] = IF m = n THEN count[m] + k ELSE count[m]
                         /\ Added(count, n, k)[m] \in Int
  BY DEF Added
<1>2. Added(count, n, k) = [m \in Objects |-> Added(count, n, k)[m]]
  BY DEF Added
<1> QED
  BY <1>1, <1>2

\* A thread moves.
LEMMA Moved ==
  ASSUME PlaceTypes, NEW t \in Connectors \cup {"hb"}, NEW l \in Places(t), Goto(t, l)
  PROVE  /\ PlaceTypes' /\ pc'[t] = l
         /\ \A u \in Connectors \cup {"hb"} : u # t => pc'[u] = pc[u]
BY DEF PlaceTypes, Goto

\* The places a connector can be at.
LEMMA PlaceFacts ==
  /\ \A t \in Connectors : InConnect \cup InReconnect \subseteq Places(t) /\ Home(t) \in Places(t)
                           /\ Home(t) \notin InConnect \cup InReconnect \cup {"start", "begin"}
  /\ {"start", "loop", "send", "drop", "quit", "destroy", "join", "gone"} \subseteq Places("main")
  /\ \A r \in Reconnectors : "idle" \in Places(r)
  /\ Places("hb") = {"none", "sleep", "beat", "sending", "end"}
BY Names DEF Places, Home, InConnect, InReconnect

-----------------------------------------------------------------------------
(* References                                                                *)

LEMMA HoldersCount ==
  ASSUME NEW n
  PROVE  /\ IsFiniteSet(Holders(n)) /\ Cardinality(Holders(n)) \in Nat
         /\ \A t \in Connectors : got[t] = n => Cardinality(Holders(n)) >= 1
         /\ Cardinality(Holders(n))' \in Nat
<1>1. IsFiniteSet(Holders(n))
  BY Names, FS_Subset DEF Holders
<1>2. Cardinality(Holders(n)) \in Nat /\ (Cardinality(Holders(n)) = 0 => Holders(n) = {})
  BY <1>1, FS_CardinalityType, FS_EmptySet
<1>3. \A t \in Connectors : got[t] = n => t \in Holders(n)
  BY DEF Holders
<1>4. Cardinality(Holders(n))' \in Nat
  <2>1. IsFiniteSet(Holders(n)')
    BY Names, FS_Subset DEF Holders
  <2> QED
    BY <2>1, FS_CardinalityType
<1> QED
  BY <1>1, <1>2, <1>3, <1>4

\* What one thread takes or gives up.
Counts(held, n) == IF held = n THEN 1 ELSE 0

LEMMA HoldersMove ==
  ASSUME TypeOK, NEW t \in Connectors, NEW v, got' = [got EXCEPT ![t] = v], NEW n
  PROVE  Cardinality(Holders(n))' =
           Cardinality(Holders(n)) + Counts(v, n) - Counts(got[t], n)
<1> USE DEF Counts
<1>1. got'[t] = v /\ \A u \in Connectors : u # t => got'[u] = got[u]
  BY DEF TypeOK
<1>2. IsFiniteSet(Holders(n)) /\ Cardinality(Holders(n)) \in Nat
  BY HoldersCount
<1>3. CASE v = n /\ got[t] = n
  <2>1. Holders(n)' = Holders(n)
    BY <1>1, <1>3 DEF Holders
  <2> QED
    BY <1>2, <1>3, <2>1
<1>4. CASE v # n /\ got[t] # n
  <2>1. Holders(n)' = Holders(n)
    BY <1>1, <1>4 DEF Holders
  <2> QED
    BY <1>2, <1>4, <2>1
<1>5. CASE v = n /\ got[t] # n
  <2>1. Holders(n)' = Holders(n) \cup {t} /\ t \notin Holders(n)
    BY <1>1, <1>5 DEF Holders
  <2>2. Cardinality(Holders(n) \cup {t}) = Cardinality(Holders(n)) + 1
    BY <1>2, <2>1, FS_AddElement
  <2> QED
    BY <1>2, <1>5, <2>1, <2>2
<1>6. CASE v # n /\ got[t] = n
  <2>1. Holders(n)' = Holders(n) \ {t} /\ t \in Holders(n)
    BY <1>1, <1>6 DEF Holders
  <2>2. Cardinality(Holders(n) \ {t}) = Cardinality(Holders(n)) - 1
    BY <1>2, <2>1, FS_RemoveElement
  <2> QED
    BY <1>2, <1>6, <2>1, <2>2
<1> QED
  BY <1>3, <1>4, <1>5, <1>6

\* The steps that leave references, stubs and hands alone.
Idle == UNCHANGED <<refs, stubs, stub, proxy, got>>

LEMMA Steps ==
  ASSUME [Next]_vars
  PROVE  \/ Idle
         \/ \E t \in Connectors : GetService(t) \/ CreateStub(t) \/ Publish(t)
         \/ \E t \in Connectors, l \in {"clean", "drop", "quit", "destroy"} : Clean(t, l)
         \/ HeartbeatReadsProxy \/ HeartbeatSends
<1> USE DEF Idle, ctxVars, objVars, envVars, Connecting
<1>1. ASSUME NEW t \in Connectors, ConnectorStep(t)
      PROVE  \/ Idle \/ GetService(t) \/ CreateStub(t) \/ Publish(t) \/ Clean(t, "clean")
  BY <1>1 DEF ConnectorStep, Watch, Register, ConnectError, ReconnectBegin, ReconnectTry,
              ReconnectGiveUp
<1>2. CASE MainClean
  BY <1>2, Names DEF MainClean
<1>3. ASSUME \/ FirstConnect \/ MainReconnect \/ MainSendStarts \/ MainSend \/ MainLeave
             \/ MainJoin
      PROVE  Idle
  BY <1>3 DEF FirstConnect, MainReconnect, MainSendStarts, MainSend, MainLeave, MainJoin
<1>4. ASSUME \/ HeartbeatEnd \/ HeartbeatExpires \/ HeartbeatFresh
             \/ \E r \in Reconnectors : OnRemoteDead(r)
             \/ ServiceStarts \/ ServiceDies \/ UNCHANGED vars
      PROVE  Idle
  BY <1>4 DEF HeartbeatEnd, HeartbeatExpires, HeartbeatFresh, OnRemoteDead, ServiceStarts,
              ServiceDies, vars
<1> QED
  BY <1>1, <1>2, <1>3, <1>4 DEF Next

\* Each of them keeps the references backed.
LEMMA RefStep ==
  ASSUME TypeOK, RefsBacked, StubBacked, [Next]_vars
  PROVE  RefsBacked' /\ StubBacked' /\ RefTypes'
<1>1. /\ refs \in [Objects -> Nat] /\ stubs \in Nat /\ stub \in BOOLEAN
      /\ got \in [Connectors \cup {"hb"} -> Objects \cup {None}]
      /\ \A n \in Objects : Cardinality(Holders(n)) \in Nat
  BY HoldersCount DEF TypeOK
<1>2. \A n \in Objects : refs[n] >= Cardinality(Holders(n)) + (IF proxy = n THEN 1 ELSE 0)
  BY DEF RefsBacked
<1>3. ASSUME NEW k \in {-1, 0, 1}, NEW v, refs' = Added(refs, v, k), RefsBacked'
      PROVE  refs' \in [Objects -> Nat]
  <2>1. \A n \in Objects : refs'[n] \in Int /\ Cardinality(Holders(n))' \in Nat
    BY <1>1, <1>3, AddedAt, HoldersCount
  <2>2. \A n \in Objects : refs'[n] >= 0
    BY <1>3, <2>1 DEF RefsBacked
  <2> QED
    BY <1>1, <1>3, <2>2, AddedAt
<1>4. ASSUME UNCHANGED <<refs, stubs, stub, proxy>>, \A t \in Connectors : got'[t] = got[t]
      PROVE  RefsBacked' /\ StubBacked' /\ RefTypes'
  <2>1. \A n : Holders(n)' = Holders(n)
    BY <1>4 DEF Holders
  <2> QED
    BY <1>1, <1>4, <2>1 DEF RefsBacked, StubBacked, RefTypes
<1>5. CASE Idle
  BY <1>4, <1>5 DEF Idle
<1>6. CASE HeartbeatReadsProxy \/ HeartbeatSends
  <2>1. \A t \in Connectors : got'[t] = got[t]
    BY <1>1, <1>6, Names DEF HeartbeatReadsProxy, HeartbeatSends
  <2> QED
    BY <1>4, <1>6, <2>1 DEF HeartbeatReadsProxy, HeartbeatSends, ctxVars, objVars
<1>7. ASSUME NEW t \in Connectors, GetService(t) PROVE RefsBacked' /\ StubBacked' /\ RefTypes'
  <2>1. got' = [got EXCEPT ![t] = service] /\ refs' = Added(refs, service, 1)
        /\ UNCHANGED <<proxy, stub, stubs>> /\ got[t] = None
    BY <1>7, TypeParts DEF GetService, ctxVars, HandPlaces, At
  <2>2. RefsBacked'
    <3>1. ASSUME NEW n \in Objects
          PROVE  refs'[n] >= Cardinality(Holders(n))' + (IF proxy' = n THEN 1 ELSE 0)
      <4>1. Cardinality(Holders(n))' = Cardinality(Holders(n)) + (IF service = n THEN 1 ELSE 0)
        <5>1. got' = [got EXCEPT ![t] = service]
          BY <2>1
        <5>2. Cardinality(Holders(n))' = Cardinality(Holders(n))
                 + Counts(service, n) - Counts(got[t], n)
          BY <5>1, HoldersMove
        <5>3. Cardinality(Holders(n)) \in Nat /\ got[t] # n
          BY <1>1, <2>1, Names
        <5> QED
          BY <5>2, <5>3 DEF Counts
      <4>2. refs'[n] = IF n = service THEN refs[n] + 1 ELSE refs[n]
        BY <1>1, <2>1, AddedAt
      <4> QED
        BY <1>1, <1>2, <2>1, <4>1, <4>2
    <3> QED
      BY <3>1 DEF RefsBacked
  <2> QED
    BY <1>1, <1>3, <2>1, <2>2 DEF StubBacked, RefTypes
<1>8. ASSUME NEW t \in Connectors, CreateStub(t) PROVE RefsBacked' /\ StubBacked' /\ RefTypes'
  <2>1. CASE StubMade(t)
    <3>1. UNCHANGED <<refs, got, proxy>> /\ stub' = TRUE /\ stubs' = stubs + 1
      BY <1>8, <2>1 DEF CreateStub, StubMade
    <3>2. \A n : Holders(n)' = Holders(n)
      BY <3>1 DEF Holders
    <3> QED
      BY <1>1, <3>1, <3>2 DEF RefsBacked, StubBacked, RefTypes
  <2>2. CASE /\ stub' = FALSE /\ got' = [got EXCEPT ![t] = None]
             /\ refs' = Added(refs, got[t], -1) /\ UNCHANGED stubs
    <3>1. UNCHANGED proxy
      BY <1>8 DEF CreateStub
    <3>2. RefsBacked'
      <4>1. ASSUME NEW n \in Objects
            PROVE  refs'[n] >= Cardinality(Holders(n))' + (IF proxy' = n THEN 1 ELSE 0)
        <5>1. Cardinality(Holders(n))' = Cardinality(Holders(n)) - (IF got[t] = n THEN 1 ELSE 0)
          <6>1. Cardinality(Holders(n))' = Cardinality(Holders(n))
                   + Counts(None, n) - Counts(got[t], n)
            BY <2>2, HoldersMove
          <6>2. Cardinality(Holders(n)) \in Nat /\ None # n
            BY <1>1, Names
          <6> QED
            BY <6>1, <6>2 DEF Counts
        <5>2. refs'[n] = IF n = got[t] THEN refs[n] - 1 ELSE refs[n]
          BY <1>1, <2>2, AddedAt
        <5> QED
          BY <1>1, <1>2, <3>1, <5>1, <5>2
      <4> QED
        BY <4>1 DEF RefsBacked
    <3> QED
      BY <1>1, <1>3, <2>2, <3>2 DEF StubBacked, RefTypes
  <2> QED
    BY <1>8, <2>1, <2>2 DEF CreateStub
<1>9. ASSUME NEW t \in Connectors, Publish(t) PROVE RefsBacked' /\ StubBacked' /\ RefTypes'
  <2>1. /\ proxy' = got[t] /\ got' = [got EXCEPT ![t] = None]
        /\ UNCHANGED <<refs, stubs, stub>>
    BY <1>9 DEF Publish, objVars
  <2>2. ASSUME NEW n \in Objects
        PROVE  refs'[n] >= Cardinality(Holders(n))' + (IF proxy' = n THEN 1 ELSE 0)
    <3>1. Cardinality(Holders(n))' = Cardinality(Holders(n)) - (IF got[t] = n THEN 1 ELSE 0)
      <4>1. got' = [got EXCEPT ![t] = None]
        BY <2>1
      <4>2. Cardinality(Holders(n))' = Cardinality(Holders(n))
               + Counts(None, n) - Counts(got[t], n)
        BY <4>1, HoldersMove
      <4>3. Cardinality(Holders(n)) \in Nat /\ None # n
        BY <1>1, Names
      <4> QED
        BY <4>2, <4>3 DEF Counts
    <3> QED
      BY <1>1, <1>2, <2>1, <3>1
  <2> QED
    BY <1>1, <2>1, <2>2 DEF RefsBacked, StubBacked, RefTypes
<1>10. ASSUME NEW t \in Connectors, NEW l \in {"clean", "drop", "quit", "destroy"}, Clean(t, l)
       PROVE  RefsBacked' /\ StubBacked' /\ RefTypes'
  <2>1. /\ refs' = Added(refs, proxy, -1) /\ proxy' = None /\ UNCHANGED got
        /\ stub' = FALSE /\ stubs' = stubs - (IF stub THEN 1 ELSE 0)
    BY <1>10 DEF Clean, StubGone
  <2>2. RefsBacked'
    <3>1. ASSUME NEW n \in Objects
          PROVE  refs'[n] >= Cardinality(Holders(n))' + (IF proxy' = n THEN 1 ELSE 0)
      <4>1. Holders(n)' = Holders(n)
        BY <2>1 DEF Holders
      <4>2. refs'[n] = IF n = proxy THEN refs[n] - 1 ELSE refs[n]
        BY <1>1, <2>1, AddedAt
      <4> QED
        BY <1>1, <1>2, <2>1, <4>1, <4>2, Names
    <3> QED
      BY <3>1 DEF RefsBacked
  <2> QED
    BY <1>1, <1>3, <2>1, <2>2 DEF StubBacked, RefTypes
<1> QED
  BY <1>5, <1>6, <1>7, <1>8, <1>9, <1>10, Steps

-----------------------------------------------------------------------------
(* Places and hands                                                          *)

Placed == PlaceTypes /\ HandPlaces /\ HasObject

\* A thread moves that takes and gives up nothing.
LEMMA MovedIdle ==
  ASSUME Placed, UNCHANGED got, NEW t \in Connectors, NEW l \in Places(t), Goto(t, l),
         pc[t] \in {"stub", "publish"} <=> l \in {"stub", "publish"}
  PROVE  Placed'
<1>1. PlaceTypes' /\ pc'[t] = l /\ \A u \in Connectors \cup {"hb"} : u # t => pc'[u] = pc[u]
  BY Moved DEF Placed
<1>2. HandPlaces' /\ HasObject'
  BY <1>1, Names DEF Placed, HandPlaces, HasObject
<1> QED
  BY <1>1, <1>2 DEF Placed

\* A thread takes an object or gives it up as it moves.
LEMMA MovedHand ==
  ASSUME Placed, HandTypes, NEW t \in Connectors, NEW l \in Places(t), Goto(t, l), NEW v,
         got' = [got EXCEPT ![t] = v], v # None <=> l \in {"stub", "publish"}
  PROVE  Placed'
<1>1. PlaceTypes' /\ pc'[t] = l /\ \A u \in Connectors \cup {"hb"} : u # t => pc'[u] = pc[u]
  BY Moved DEF Placed
<1>2. got'[t] = v /\ \A u \in Connectors \cup {"hb"} : u # t => got'[u] = got[u]
  BY DEF HandTypes
<1>3. HandPlaces' /\ HasObject'
  BY <1>1, <1>2, Names DEF Placed, HandPlaces, HasObject
<1> QED
  BY <1>1, <1>3 DEF Placed

\* The heartbeat thread moves.
LEMMA MovedBeat ==
  ASSUME Placed, HandTypes, NEW l \in Places("hb"), Goto("hb", l), NEW v \in Objects \cup {None},
         got' = [got EXCEPT !["hb"] = v], v # None <=> l = "sending"
  PROVE  Placed'
<1>1. PlaceTypes' /\ pc'["hb"] = l /\ \A u \in Connectors \cup {"hb"} : u # "hb" => pc'[u] = pc[u]
  BY Moved DEF Placed
<1>2. got'["hb"] = v /\ \A u \in Connectors \cup {"hb"} : u # "hb" => got'[u] = got[u]
  BY DEF HandTypes
<1>3. HandPlaces' /\ HasObject'
  BY <1>1, <1>2, Names DEF Placed, HandPlaces, HasObject
<1> QED
  BY <1>1, <1>3 DEF Placed

\* Every step keeps places and hands together.
LEMMA PlaceStep ==
  ASSUME TypeOK, HasObject, BeatsOnce, [Next]_vars
  PROVE  Placed'
<1> USE PlaceFacts, Names DEF ctxVars, objVars, envVars
<1>1. Placed /\ HandTypes
  BY TypeParts DEF Placed
<1>2. ASSUME UNCHANGED <<pc, got>> PROVE Placed'
  BY <1>1, <1>2 DEF Placed, PlaceTypes, HandPlaces, HasObject
<1>3. ASSUME NEW t \in Connectors, ReconnectTry(t) \/ Watch(t) \/ ReconnectBegin(t)
      PROVE  Placed'
  <2>1. PICK l \in {"get", "register", "clean"} :
          UNCHANGED got /\ Goto(t, l) /\ pc[t] \in {"try", "watch", "begin"}
    BY <1>3 DEF ReconnectTry, Connecting, Watch, ReconnectBegin, At
  <2>2. l \in Places(t)
    BY DEF InConnect, InReconnect
  <2> QED
    BY <1>1, <2>1, <2>2, MovedIdle
<1>4. ASSUME NEW t \in Connectors, ConnectError(t) \/ ReconnectGiveUp(t) PROVE Placed'
  <2>1. PICK l \in {Home(t), "try"} : UNCHANGED got /\ Goto(t, l) /\ pc[t] \in {"try", "error"}
    BY <1>4 DEF ConnectError, ReconnectGiveUp, At
  <2>2. l \in Places(t) /\ l \notin {"stub", "publish"}
    BY DEF InConnect, InReconnect
  <2> QED
    BY <1>1, <2>1, <2>2, MovedIdle
<1>5. ASSUME NEW t \in Connectors, GetService(t) PROVE Placed'
  <2>1. PICK l : l = IF service = None THEN "error" ELSE "stub"
    OBVIOUS
  <2>2. Goto(t, l) /\ got' = [got EXCEPT ![t] = service]
    BY <1>5, <2>1 DEF GetService
  <2>3. l \in Places(t) /\ (service # None <=> l \in {"stub", "publish"})
    BY <2>1 DEF InConnect
  <2> QED
    BY <1>1, <2>2, <2>3, MovedHand
<1>6. ASSUME NEW t \in Connectors, CreateStub(t) PROVE Placed'
  <2>1. "publish" \in Places(t) /\ "error" \in Places(t) /\ pc[t] = "stub"
    BY <1>6 DEF InConnect, CreateStub, At
  <2>2. CASE StubMade(t)
    <3>1. UNCHANGED got /\ Goto(t, "publish")
      BY <2>2 DEF StubMade
    <3> QED
      BY <1>1, <2>1, <3>1, MovedIdle
  <2>3. CASE Goto(t, "error") /\ got' = [got EXCEPT ![t] = None]
    BY <1>1, <2>1, <2>3, MovedHand
  <2> QED
    BY <1>6, <2>2, <2>3 DEF CreateStub
<1>7. ASSUME NEW t \in Connectors, Publish(t) PROVE Placed'
  <2>1. "watch" \in Places(t) /\ Goto(t, "watch") /\ got' = [got EXCEPT ![t] = None]
    BY <1>7 DEF InConnect, Publish
  <2> QED
    BY <1>1, <2>1, MovedHand
<1>8. ASSUME NEW t \in Connectors, Register(t) PROVE Placed'
  <2>1. UNCHANGED got /\ pc[t] = "register" /\ Home(t) \in Places(t)
        /\ Home(t) \notin {"stub", "publish"}
    BY <1>8 DEF Register, At, InConnect
  <2>2. CASE ~running
    BY <1>1, <1>8, <2>1, <2>2, MovedIdle DEF Register, Goto
  <2>3. CASE running
    <3>1. t = "main" /\ pc["hb"] = "none"
      BY <1>8, <2>1, <2>3 DEF BeatsOnce, InConnect
    <3>2. pc' = [pc EXCEPT ![t] = Home(t), !["hb"] = "sleep"]
      BY <1>8, <2>3 DEF Register
    <3>3. DOMAIN pc' = DOMAIN pc /\ pc'[t] = Home(t) /\ pc'["hb"] = "sleep"
          /\ \A u \in Connectors : u # t => pc'[u] = pc[u]
      BY <1>1, <3>2 DEF Placed, PlaceTypes
    <3> QED
      BY <1>1, <2>1, <3>1, <3>3 DEF Placed, PlaceTypes, HandPlaces, HasObject
  <2> QED
    BY <2>2, <2>3
<1>9. ASSUME NEW t \in Connectors, NEW l \in {"clean", "drop", "quit", "destroy"}, Clean(t, l)
      PROVE  Placed'
  <2>1. UNCHANGED got /\ pc[t] = l /\ Goto(t, After[l])
    BY <1>9 DEF Clean, At
  <2>2. After[l] \in Places(t) /\ After[l] \notin {"stub", "publish"}
    <3>1. l = "clean" => After[l] = "try"
      BY DEF After
    <3>2. l # "clean" => After[l] \in {"loop", "destroy", "join"} /\ t = "main"
      <4>1. l # "clean" => After[l] \in {"loop", "destroy", "join"}
        BY DEF After
      <4>2. l # "clean" => t = "main"
        BY <1>1, <2>1 DEF Placed, PlaceTypes, Places, InConnect, InReconnect
      <4> QED
        BY <4>1, <4>2
    <3> QED
      BY <3>1, <3>2 DEF InReconnect
  <2> QED
    BY <1>1, <2>1, <2>2, MovedIdle
<1>10. CASE \/ FirstConnect \/ MainReconnect \/ MainSendStarts \/ MainSend \/ MainLeave
            \/ MainJoin
  <2>1. PICK l \in {"get", "begin", "send", "loop", "drop", "quit", "gone"} :
          UNCHANGED got /\ Goto("main", l) /\ pc["main"] \in {"start", "loop", "send", "join"}
    BY <1>10 DEF FirstConnect, Connecting, MainReconnect, MainSendStarts, MainSend, MainLeave,
                 MainJoin, At
  <2>2. l \in Places("main")
    BY DEF InConnect, InReconnect
  <2> QED
    BY <1>1, <2>1, <2>2, MovedIdle
<1>11. ASSUME NEW r \in Reconnectors, OnRemoteDead(r) PROVE Placed'
  <2>1. "begin" \in Places(r) /\ Goto(r, "begin") /\ pc[r] = "idle" /\ UNCHANGED got
    BY <1>11 DEF InReconnect, OnRemoteDead, At
  <2> QED
    BY <1>1, <2>1, MovedIdle
<1>12. CASE HeartbeatEnd \/ HeartbeatFresh \/ HeartbeatReadsProxy \/ HeartbeatSends
  <2>1. "hb" \in DOMAIN got
    BY <1>1 DEF HandTypes
  <2>2. ASSUME HeartbeatEnd \/ HeartbeatFresh PROVE Placed'
    <3>1. PICK l \in {"end", "beat"} : Goto("hb", l) /\ UNCHANGED got /\ got["hb"] = None
      BY <1>1, <2>2 DEF HeartbeatEnd, HeartbeatFresh, At, Placed, HandPlaces
    <3>2. got' = [got EXCEPT !["hb"] = None]
      BY <1>1, <3>1 DEF HandTypes
    <3> QED
      BY <1>1, <3>1, <3>2, MovedBeat
  <2>3. ASSUME HeartbeatReadsProxy PROVE Placed'
    <3>1. PICK l : l = IF proxy = None THEN "sleep" ELSE "sending"
      OBVIOUS
    <3>2. Goto("hb", l) /\ got' = [got EXCEPT !["hb"] = proxy] /\ proxy \in Objects \cup {None}
      BY <2>3, <3>1, TypeParts DEF HeartbeatReadsProxy, ProxyType
    <3>3. l \in Places("hb") /\ (proxy # None <=> l = "sending")
      BY <3>1
    <3> QED
      BY <1>1, <3>2, <3>3, MovedBeat
  <2>4. ASSUME HeartbeatSends PROVE Placed'
    BY <1>1, <2>4, MovedBeat DEF HeartbeatSends
  <2> QED
    BY <1>12, <2>2, <2>3, <2>4
<1>13. CASE HeartbeatExpires \/ ServiceStarts \/ ServiceDies \/ UNCHANGED vars
  BY <1>2, <1>13 DEF HeartbeatExpires, ServiceStarts, ServiceDies, vars
<1> QED
  BY <1>3, <1>4, <1>5, <1>6, <1>7, <1>8, <1>9, <1>10, <1>11, <1>12, <1>13
     DEF Next, ConnectorStep, MainClean

-----------------------------------------------------------------------------
(* The context and the environment                                           *)

LEMMA VarTypes ==
  ASSUME TypeOK, [Next]_vars
  PROVE  CtxTypes' /\ ProxyType' /\ EnvTypes' /\ WatchTypes' /\ HandTypes' /\ AttemptTypes'
<1> USE TypeParts, TypesKept DEF ctxVars, objVars, envVars
<1>1. /\ 0 \in 0 .. MaxAttempts /\ 0 \in 0 .. MaxBeats /\ None \in Objects \cup {None}
      /\ MaxAttempts \in Nat /\ MaxBeats \in Nat /\ MaxLives \in Nat
  BY AttemptsAssumption, BeatsAssumption, LivesAssumption
<1>2. ASSUME NEW t \in Connectors, ConnectorStep(t)
      PROVE  CtxTypes' /\ ProxyType' /\ EnvTypes' /\ HandTypes' /\ AttemptTypes'
  <2>1. EnvTypes'
    BY <1>2 DEF ConnectorStep, GetService, CreateStub, StubMade, Publish, Watch, Register,
                ConnectError, ReconnectBegin, Clean, ReconnectTry, Connecting, ReconnectGiveUp
  <2>2. HandTypes'
    <3>1. UNCHANGED got \/ \E v \in Objects \cup {None} : got' = [got EXCEPT ![t] = v]
      BY <1>2 DEF ConnectorStep, GetService, CreateStub, StubMade, Publish, Watch, Register,
                  ConnectError, ReconnectBegin, Clean, ReconnectTry, Connecting,
                  ReconnectGiveUp, EnvTypes
    <3> QED
      BY <3>1 DEF HandTypes
  <2>3. AttemptTypes'
    <3>1. \/ UNCHANGED attempts
          \/ \E v \in 0 .. MaxAttempts : attempts' = [attempts EXCEPT ![t] = v]
      <4>1. CASE ReconnectTry(t)
        <5>1. attempts[t] \in 0 .. MaxAttempts /\ attempts[t] < MaxAttempts
          BY <4>1 DEF AttemptTypes, ReconnectTry
        <5>2. attempts[t] + 1 \in 0 .. MaxAttempts
          BY <1>1, <5>1
        <5>3. attempts' = [attempts EXCEPT ![t] = attempts[t] + 1]
          BY <4>1 DEF ReconnectTry
        <5> QED
          BY <5>2, <5>3
      <4> QED
        BY <1>1, <1>2, <4>1 DEF ConnectorStep, GetService, CreateStub, Publish, Watch, Register,
             ConnectError, ReconnectBegin, Clean, ReconnectGiveUp
    <3> QED
      BY <3>1 DEF AttemptTypes
  <2>4. ProxyType'
    <3>1. proxy' \in {proxy, None, got[t]}
      BY <1>2 DEF ConnectorStep, GetService, CreateStub, StubMade, Publish, Watch, Register,
                  ConnectError, ReconnectBegin, Clean, ReconnectTry, Connecting, ReconnectGiveUp
    <3>2. got[t] \in Objects \cup {None}
      BY DEF HandTypes
    <3> QED
      BY <3>1, <3>2 DEF ProxyType
  <2>5. CtxTypes'
    <3>1. /\ running' \in {running, FALSE} /\ stub' \in {stub, TRUE, FALSE}
          /\ beats' \in {beats, 0} /\ recipient' \in {recipient, proxy, None, Unlinked}
      BY <1>2 DEF ConnectorStep, GetService, CreateStub, StubMade, Publish, Watch, Register,
                  ConnectError, ReconnectBegin, Clean, StubGone, ReconnectTry, Connecting,
                  ReconnectGiveUp
    <3>2. /\ handle' \in {handle, "hb", "ended"}
          /\ state' \in {state, "CONNECTED", "CONNECTING", "ERROR", "RECONNECTING",
                         "DISCONNECTED"}
      BY <1>2 DEF ConnectorStep, GetService, CreateStub, StubMade, Publish, Watch, Register,
                  ConnectError, ReconnectBegin, Clean, ReconnectTry, Connecting, ReconnectGiveUp
    <3>3. running' \in BOOLEAN /\ stub' \in BOOLEAN
      BY <1>1, <3>1 DEF CtxTypes
    <3>4. beats' \in 0 .. MaxBeats /\ recipient' \in Objects \cup {None, Unlinked}
      BY <1>1, <3>1, BeatsAssumption DEF CtxTypes, ProxyType
    <3>5. /\ handle' \in {"none", "hb", "ended"}
          /\ state' \in {"IDLE", "CONNECTING", "CONNECTED", "RECONNECTING", "DISCONNECTED",
                         "ERROR"}
      BY <1>1, <3>2 DEF CtxTypes
    <3> QED
      BY <3>3, <3>4, <3>5 DEF CtxTypes
  <2> QED
    BY <2>1, <2>2, <2>3, <2>4, <2>5
<1>3. ASSUME NEW t \in Connectors, ConnectorStep(t) PROVE WatchTypes'
  <2>1. UNCHANGED deaths
    BY <1>3 DEF ConnectorStep, GetService, CreateStub, StubMade, Publish, Watch, Register,
                ConnectError, ReconnectBegin, Clean, ReconnectTry, Connecting, ReconnectGiveUp
  <2>2. UNCHANGED watches \/ watches' = Added(watches, proxy, 1) \/ watches' = Unwatched
    BY <1>3 DEF ConnectorStep, GetService, CreateStub, StubMade, Publish, Watch, Register,
                ConnectError, ReconnectBegin, Clean, ReconnectTry, Connecting, ReconnectGiveUp
  <2> QED
    BY <2>1, <2>2 DEF WatchTypes, Added, Unwatched
<1>4. ASSUME NEW l \in {"drop", "quit", "destroy"}, Clean("main", l)
      PROVE  /\ CtxTypes' /\ ProxyType' /\ EnvTypes' /\ WatchTypes' /\ HandTypes'
             /\ AttemptTypes'
  <2>1. /\ CtxTypes' /\ ProxyType' /\ EnvTypes' /\ HandTypes' /\ AttemptTypes'
    BY <1>4 DEF Clean, StubGone, CtxTypes, ProxyType
  <2>2. WatchTypes'
    BY <1>4 DEF Clean, WatchTypes, Added, Unwatched
  <2> QED
    BY <2>1, <2>2
<1>5. CASE \/ FirstConnect \/ MainReconnect \/ MainSendStarts \/ MainSend \/ MainLeave
           \/ MainJoin
  <2>1. CtxTypes'
    BY <1>5 DEF FirstConnect, Connecting, MainReconnect, MainSendStarts, MainSend, MainLeave,
                MainJoin, CtxTypes
  <2> QED
    BY <1>5, <2>1 DEF FirstConnect, Connecting, MainReconnect, MainSendStarts, MainSend,
                      MainLeave, MainJoin
<1>6. CASE HeartbeatEnd \/ HeartbeatExpires \/ HeartbeatFresh
  <2>1. CtxTypes'
    BY <1>1, <1>6 DEF HeartbeatEnd, HeartbeatExpires, HeartbeatFresh, CtxTypes
  <2> QED
    BY <1>6, <2>1 DEF HeartbeatEnd, HeartbeatExpires, HeartbeatFresh
<1>7. CASE HeartbeatReadsProxy \/ HeartbeatSends
  <2>1. HandTypes'
    BY <1>7 DEF HeartbeatReadsProxy, HeartbeatSends, HandTypes, ProxyType
  <2> QED
    BY <1>7, <2>1 DEF HeartbeatReadsProxy, HeartbeatSends
<1>8. ASSUME NEW r \in Reconnectors, OnRemoteDead(r)
      PROVE  /\ CtxTypes' /\ ProxyType' /\ EnvTypes' /\ WatchTypes' /\ HandTypes'
             /\ AttemptTypes'
  <2>1. CtxTypes' /\ WatchTypes'
    BY <1>8 DEF OnRemoteDead, CtxTypes, WatchTypes
  <2> QED
    BY <1>8, <2>1 DEF OnRemoteDead
<1>9. CASE ServiceStarts
  <2>1. EnvTypes'
    BY <1>1, <1>9 DEF ServiceStarts, EnvTypes, Objects
  <2> QED
    BY <1>9, <2>1 DEF ServiceStarts
<1>10. CASE ServiceDies
  <2>1. EnvTypes' /\ WatchTypes'
    BY <1>10 DEF ServiceDies, EnvTypes, WatchTypes
  <2> QED
    BY <1>10, <2>1 DEF ServiceDies
<1>11. CASE UNCHANGED vars
  BY <1>11 DEF vars
<1> QED
  BY <1>2, <1>3, <1>4, <1>5, <1>6, <1>7, <1>8, <1>9, <1>10, <1>11 DEF Next, MainClean

\* The state, the one heartbeat thread and the lives of the service.
LEMMA ContextStep ==
  ASSUME TypeOK, HasObject, ConnectedHolds, BeatsOnce, ServiceIsLast, [Next]_vars
  PROVE  ConnectedHolds' /\ BeatsOnce' /\ ServiceIsLast'
<1> USE DEF ctxVars, objVars, envVars
<1>1. ConnectedHolds'
  <2>1. ASSUME NEW t \in Connectors, Publish(t) PROVE ConnectedHolds'
    BY <2>1 DEF Publish, At, HasObject, ConnectedHolds
  <2>2. ASSUME NEW t \in Connectors, NEW l, Clean(t, l) PROVE ConnectedHolds'
    BY <2>2 DEF Clean, ConnectedHolds
  <2>3. CASE UNCHANGED proxy /\ state' # "CONNECTED"
    BY <2>3 DEF ConnectedHolds
  <2>4. CASE UNCHANGED <<proxy, state>>
    BY <2>4 DEF ConnectedHolds
  <2>5. \/ \E t \in Connectors : Publish(t) \/ \E l : Clean(t, l)
        \/ UNCHANGED proxy /\ state' # "CONNECTED"
        \/ UNCHANGED <<proxy, state>>
    <3>1. ASSUME NEW t \in Connectors, ConnectorStep(t)
          PROVE  \/ Publish(t) \/ Clean(t, "clean")
                 \/ UNCHANGED proxy /\ state' # "CONNECTED"
                 \/ UNCHANGED <<proxy, state>>
      BY <3>1 DEF ConnectorStep, GetService, CreateStub, Watch, Register, ConnectError,
                  ReconnectBegin, ReconnectTry, Connecting, ReconnectGiveUp
    <3>2. CASE MainClean
      BY <3>2, Names DEF MainClean
    <3>3. CASE \/ FirstConnect \/ MainReconnect \/ MainSendStarts \/ MainSend \/ MainLeave
               \/ MainJoin \/ HeartbeatEnd \/ HeartbeatExpires \/ HeartbeatFresh
      BY <3>3 DEF FirstConnect, Connecting, MainReconnect, MainSendStarts, MainSend, MainLeave,
                  MainJoin, HeartbeatEnd, HeartbeatExpires, HeartbeatFresh
    <3>4. CASE \/ HeartbeatReadsProxy \/ HeartbeatSends \/ ServiceStarts \/ ServiceDies
               \/ UNCHANGED vars \/ \E r \in Reconnectors : OnRemoteDead(r)
      BY <3>4 DEF HeartbeatReadsProxy, HeartbeatSends, ServiceStarts, ServiceDies, vars,
                  OnRemoteDead
    <3> QED
      BY <3>1, <3>2, <3>3, <3>4 DEF Next
  <2> QED
    BY <2>1, <2>2, <2>3, <2>4, <2>5
<1>2. ServiceIsLast'
  <2>1. \/ UNCHANGED <<service, lives>> \/ service' = None \/ service' = lives'
    BY DEF Next, ConnectorStep, GetService, CreateStub, Publish, Watch, Register, ConnectError,
           ReconnectBegin, ReconnectTry, Connecting, ReconnectGiveUp, Clean, FirstConnect,
           MainReconnect, MainSendStarts, MainSend, MainLeave, MainClean, MainJoin, HeartbeatEnd,
           HeartbeatExpires, HeartbeatFresh, HeartbeatReadsProxy, HeartbeatSends, OnRemoteDead,
           ServiceStarts, ServiceDies, vars
  <2> QED
    BY <2>1 DEF ServiceIsLast
<1>3. BeatsOnce'
  <2> USE Names, PlaceFacts DEF InConnect, InReconnect
  <2>1. CASE ~running'
    BY <2>1 DEF BeatsOnce
  <2>2. CASE UNCHANGED <<running, pc, attempts>>
    BY <2>2 DEF BeatsOnce
  <2>3. ASSUME NEW t \in Connectors, NEW l \in Places(t), Goto(t, l), UNCHANGED running,
               attempts' = attempts,
               running => IF t = "main"
                          THEN /\ l \notin {"clean", "try"}
                               /\ l \in {"start"} \cup InConnect => pc["hb"] = "none"
                          ELSE l \in {"idle", "begin"}
        PROVE  BeatsOnce'
    <3>1. pc'[t] = l /\ \A u \in Connectors \cup {"hb"} : u # t => pc'[u] = pc[u]
      BY <2>3, TypeParts, Moved
    <3> QED
      BY <2>3, <3>1 DEF BeatsOnce
  <2>4. ASSUME NEW l \in Places("hb"), Goto("hb", l), UNCHANGED <<running, attempts>>,
               pc["hb"] # "none"
        PROVE  BeatsOnce'
    <3>1. pc'["hb"] = l /\ \A u \in Connectors \cup {"hb"} : u # "hb" => pc'[u] = pc[u]
      BY <2>4, TypeParts, Moved
    <3> QED
      BY <2>4, <3>1 DEF BeatsOnce
  <2>5. ASSUME NEW t \in Connectors, GetService(t) \/ CreateStub(t) \/ Publish(t) \/ Watch(t)
        PROVE  BeatsOnce'
    <3>1. PICK l \in {"error", "stub", "publish", "watch", "register"} :
            Goto(t, l) /\ pc[t] \in InConnect /\ UNCHANGED <<running, attempts>>
      BY <2>5 DEF GetService, CreateStub, StubMade, Publish, Watch, At
    <3> QED
      BY <2>3, <3>1 DEF BeatsOnce
  <2>6. ASSUME NEW t \in Connectors, ConnectError(t) PROVE BeatsOnce'
    <3>1. PICK l \in {Home(t), "try"} :
            /\ Goto(t, l) /\ pc[t] = "error" /\ UNCHANGED <<running, attempts>>
            /\ attempts[t] = 0 => l = Home(t)
      BY <2>6 DEF ConnectError, At
    <3>2. running => l = Home(t) /\ t = "main"
      BY <3>1 DEF BeatsOnce
    <3> QED
      BY <2>3, <3>1, <3>2 DEF Home
  <2>7. ASSUME NEW t \in Connectors, Register(t) PROVE BeatsOnce'
    <3>1. CASE ~running
      BY <2>1, <2>7, <3>1 DEF Register
    <3>2. CASE running
      <4>1. t = "main" /\ UNCHANGED running /\ attempts' = [attempts EXCEPT ![t] = 0]
            /\ pc' = [pc EXCEPT !["main"] = "loop", !["hb"] = "sleep"]
        BY <2>7, <3>2 DEF Register, At, BeatsOnce, Home
      <4>2. pc'["main"] = "loop" /\ \A r \in Reconnectors : pc'[r] = pc[r]
        BY <4>1, TypeParts DEF PlaceTypes
      <4>3. \A u \in Connectors : attempts'[u] = 0
        BY <3>2, <4>1, TypeParts DEF AttemptTypes, BeatsOnce
      <4> QED
        BY <3>2, <4>2, <4>3 DEF BeatsOnce
    <3> QED
      BY <3>1, <3>2
  <2>8. ASSUME NEW t \in Connectors, \/ ReconnectBegin(t) \/ Clean(t, "clean")
                                     \/ ReconnectTry(t) \/ ReconnectGiveUp(t)
        PROVE  BeatsOnce'
    <3>1. ~running'
      <4>1. ReconnectBegin(t) => ~running'
        BY DEF ReconnectBegin
      <4>2. ~ReconnectBegin(t) => UNCHANGED running /\ pc[t] \in {"clean", "try"}
        BY <2>8 DEF Clean, ReconnectTry, Connecting, ReconnectGiveUp, At
      <4>3. pc[t] \in {"clean", "try"} => ~running
        BY DEF BeatsOnce
      <4> QED
        BY <4>1, <4>2, <4>3
    <3> QED
      BY <2>1, <3>1
  <2>9. CASE MainClean
    <3>1. PICK l \in {"drop", "quit", "destroy"} : Clean("main", l)
      BY <2>9 DEF MainClean
    <3>2. After[l] \in {"loop", "destroy", "join"}
      BY DEF After
    <3>3. Goto("main", After[l]) /\ UNCHANGED <<running, attempts>>
      BY <3>1 DEF Clean
    <3> QED
      BY <2>3, <3>2, <3>3
  <2>10. CASE FirstConnect
    <3>1. Goto("main", "get") /\ UNCHANGED <<running, attempts>> /\ pc["main"] = "start"
      BY <2>10 DEF FirstConnect, Connecting, At
    <3> QED
      BY <2>3, <3>1 DEF BeatsOnce
  <2>11. CASE MainReconnect \/ MainSendStarts \/ MainSend \/ MainJoin
    <3>1. PICK l \in {"begin", "send", "loop", "gone"} :
            Goto("main", l) /\ UNCHANGED <<running, attempts>>
      BY <2>11 DEF MainReconnect, MainSendStarts, MainSend, MainJoin
    <3> QED
      BY <2>3, <3>1
  <2>12. CASE MainLeave
    BY <2>1, <2>12 DEF MainLeave
  <2>13. ASSUME NEW r \in Reconnectors, OnRemoteDead(r) PROVE BeatsOnce'
    <3>1. Goto(r, "begin") /\ UNCHANGED <<running, attempts>>
      BY <2>13 DEF OnRemoteDead
    <3> QED
      BY <2>3, <3>1
  <2>14. CASE HeartbeatEnd \/ HeartbeatFresh \/ HeartbeatReadsProxy \/ HeartbeatSends
    <3>1. PICK l \in {"end", "beat", "sleep", "sending"} :
            Goto("hb", l) /\ UNCHANGED <<running, attempts>> /\ pc["hb"] # "none"
      BY <2>14 DEF HeartbeatEnd, HeartbeatFresh, HeartbeatReadsProxy, HeartbeatSends, At
    <3> QED
      BY <2>4, <3>1
  <2>15. CASE HeartbeatExpires \/ ServiceStarts \/ ServiceDies \/ UNCHANGED vars
    BY <2>2, <2>15 DEF HeartbeatExpires, ServiceStarts, ServiceDies, vars
  <2> QED
    BY <2>5, <2>6, <2>7, <2>8, <2>9, <2>10, <2>11, <2>12, <2>13, <2>14, <2>15
       DEF Next, ConnectorStep
<1> QED
  BY <1>1, <1>2, <1>3

-----------------------------------------------------------------------------
(* The main thread alone                                                     *)

\* No death so far means none before this step, and then no reconnector moves.
LEMMA AloneSteps ==
  ASSUME TypeOK, ServiceIsLast, MainAlone, [Next]_vars, NoDeathYet'
  PROVE  /\ Lone /\ OneRef /\ OneStub /\ Empty /\ ~ServiceDies
         /\ \A r \in Reconnectors : ~ConnectorStep(r) /\ ~OnRemoteDead(r)
<1>1. ServiceStarts \/ ServiceDies \/ UNCHANGED <<service, lives>>
  BY DEF Next, ConnectorStep, GetService, CreateStub, Publish, Watch, Register, ConnectError,
         ReconnectBegin, ReconnectTry, Connecting, ReconnectGiveUp, Clean, FirstConnect,
         MainReconnect, MainSendStarts, MainSend, MainLeave, MainClean, MainJoin, HeartbeatEnd,
         HeartbeatExpires, HeartbeatFresh, HeartbeatReadsProxy, HeartbeatSends, OnRemoteDead,
         vars, envVars
<1>2. service \in Objects \cup {None} /\ lives \in Nat
  BY TypeParts, LivesAssumption DEF EnvTypes
<1>3. ~ServiceDies
  <2> SUFFICES ASSUME ServiceDies PROVE FALSE
    OBVIOUS
  <2>1. service' = None /\ lives' = lives /\ service = lives /\ service # None
    BY DEF ServiceDies, ServiceIsLast
  <2> QED
    BY <2>1, Names DEF NoDeathYet, None
<1>4. NoDeathYet
  BY <1>1, <1>2, <1>3 DEF NoDeathYet, ServiceStarts
<1>5. Lone /\ OneRef /\ OneStub /\ Empty
  BY <1>4 DEF MainAlone
<1>6. ASSUME NEW r \in Reconnectors PROVE ~ConnectorStep(r) /\ ~OnRemoteDead(r)
  <2>1. pc[r] = "idle" /\ ~(deaths > 0)
    BY <1>5 DEF Lone
  <2> QED
    BY <2>1 DEF ConnectorStep, GetService, CreateStub, Publish, Watch, Register, ConnectError,
         ReconnectBegin, ReconnectTry, ReconnectGiveUp, Clean, OnRemoteDead, At
<1> QED
  BY <1>3, <1>5, <1>6

\* What it takes, it publishes or gives back.
LEMMA AloneStep ==
  ASSUME TypeOK, ServiceIsLast, MainAlone, [Next]_vars
  PROVE  MainAlone'
<1> SUFFICES ASSUME NoDeathYet' PROVE Lone' /\ OneRef' /\ OneStub' /\ Empty'
  BY DEF MainAlone
<1> USE Names, PlaceFacts DEF ctxVars, objVars, envVars
<1>1. /\ Lone /\ OneRef /\ OneStub /\ Empty /\ ~ServiceDies
      /\ \A r \in Reconnectors : ~ConnectorStep(r) /\ ~OnRemoteDead(r)
  BY AloneSteps
<1>2. /\ refs \in [Objects -> Nat] /\ stub \in BOOLEAN /\ PlaceTypes
      /\ got \in [Connectors \cup {"hb"} -> Objects \cup {None}]
      /\ \A t \in Connectors : got[t] # None => pc[t] \in {"stub", "publish"}
  BY TypeParts DEF RefTypes, CtxTypes, HandTypes, HandPlaces
<1>3. /\ \A n \in Objects :
           refs[n] = (IF proxy = n THEN 1 ELSE 0) + (IF got["main"] = n THEN 1 ELSE 0)
      /\ stubs = IF stub THEN 1 ELSE 0
  BY <1>1 DEF OneRef, OneStub
\* Steps that move the main thread with nothing in its hands.
<1>4. ASSUME NEW l \in Places("main"), Goto("main", l), UNCHANGED <<got, deaths>>
      PROVE  pc'["main"] = l /\ Lone'
  BY <1>1, <1>2, <1>4, Moved DEF Lone
<1>5. ASSUME NEW l \in Places("main"), Goto("main", l),
             UNCHANGED <<refs, stubs, stub, proxy, got, deaths>>,
             /\ l \in {"start", "try", "get", "stub", "error"} => proxy = None /\ ~stub
             /\ l = "publish" => proxy = None
      PROVE  Lone' /\ OneRef' /\ OneStub' /\ Empty'
  BY <1>1, <1>4, <1>5 DEF OneRef, OneStub, Empty
<1>6. ASSUME NEW l \in Places("main"), Goto("main", l), UNCHANGED deaths, NEW v,
             got' = [got EXCEPT !["main"] = v]
      PROVE  pc'["main"] = l /\ got'["main"] = v /\ Lone'
  BY <1>1, <1>2, <1>6, Moved DEF Lone
<1>7. CASE GetService("main")
  <2>1. got["main"] = None /\ proxy = None /\ ~stub
    BY <1>1, <1>2, <1>7 DEF GetService, At, Empty
  <2>2. PICK l \in {"error", "stub"} : Goto("main", l) /\ UNCHANGED deaths
    BY <1>7 DEF GetService
  <2>3. pc'["main"] = l /\ got'["main"] = service /\ Lone'
    BY <1>6, <1>7, <2>2 DEF GetService, InConnect
  <2>4. UNCHANGED <<proxy, stub, stubs>> /\ refs' = Added(refs, service, 1)
    BY <1>7 DEF GetService
  <2>5. \A n \in Objects : refs'[n] = IF n = service THEN refs[n] + 1 ELSE refs[n]
    BY <1>2, <2>4, AddedAt
  <2> QED
    BY <1>1, <1>3, <2>1, <2>3, <2>4, <2>5 DEF OneRef, OneStub, Empty
<1>8. CASE CreateStub("main")
  <2>1. proxy = None /\ ~stub /\ pc["main"] = "stub"
    BY <1>1, <1>8 DEF CreateStub, At, Empty
  <2>2. CASE StubMade("main")
    <3>1. Goto("main", "publish") /\ UNCHANGED <<got, refs, deaths, proxy>>
          /\ stub' = TRUE /\ stubs' = stubs + 1
      BY <1>8, <2>2 DEF CreateStub, StubMade
    <3>2. pc'["main"] = "publish" /\ Lone'
      BY <1>4, <3>1 DEF InConnect
    <3> QED
      BY <1>1, <1>3, <2>1, <3>1, <3>2 DEF OneRef, OneStub, Empty
  <2>3. CASE /\ Goto("main", "error") /\ stub' = FALSE /\ got' = [got EXCEPT !["main"] = None]
             /\ refs' = Added(refs, got["main"], -1) /\ UNCHANGED stubs
    <3>1. UNCHANGED <<deaths, proxy>>
      BY <1>8 DEF CreateStub
    <3>2. pc'["main"] = "error" /\ got'["main"] = None /\ Lone'
      BY <1>6, <2>3, <3>1 DEF InConnect
    <3>3. \A n \in Objects : refs'[n] = IF n = got["main"] THEN refs[n] - 1 ELSE refs[n]
      BY <1>2, <2>3, AddedAt
    <3> QED
      BY <1>1, <1>3, <2>1, <2>3, <3>1, <3>2, <3>3 DEF OneRef, OneStub, Empty
  <2> QED
    BY <1>8, <2>2, <2>3 DEF CreateStub
<1>9. CASE Publish("main")
  <2>1. proxy = None /\ proxy' = got["main"] /\ UNCHANGED <<refs, stubs, stub, deaths>>
        /\ got' = [got EXCEPT !["main"] = None] /\ Goto("main", "watch")
    BY <1>1, <1>9 DEF Publish, At, Empty
  <2>2. pc'["main"] = "watch" /\ got'["main"] = None /\ Lone'
    BY <1>6, <2>1 DEF InConnect
  <2> QED
    BY <1>1, <1>3, <2>1, <2>2 DEF OneRef, OneStub, Empty
<1>10. ASSUME NEW l \in {"clean", "drop", "quit", "destroy"}, Clean("main", l)
       PROVE  Lone' /\ OneRef' /\ OneStub' /\ Empty'
  <2>1. After[l] \in {"try", "loop", "destroy", "join"}
    BY DEF After
  <2>2. Goto("main", After[l]) /\ UNCHANGED <<got, deaths>> /\ proxy' = None
        /\ refs' = Added(refs, proxy, -1)
        /\ stub' = FALSE /\ stubs' = stubs - (IF stub THEN 1 ELSE 0)
    BY <1>10 DEF Clean, StubGone
  <2>3. Lone'
    BY <1>4, <2>1, <2>2 DEF InReconnect
  <2>4. \A n \in Objects : refs'[n] = IF n = proxy THEN refs[n] - 1 ELSE refs[n]
    BY <1>2, <2>2, AddedAt
  <2> QED
    BY <1>1, <1>3, <2>2, <2>3, <2>4 DEF OneRef, OneStub, Empty
<1>11. CASE Register("main")
  <2>1. UNCHANGED <<refs, stubs, stub, proxy, got, deaths>>
        /\ \/ pc' = [pc EXCEPT !["main"] = "loop"]
           \/ pc' = [pc EXCEPT !["main"] = "loop", !["hb"] = "sleep"]
    BY <1>11 DEF Register, Home
  <2>2. pc'["main"] = "loop" /\ \A r \in Reconnectors : pc'[r] = pc[r]
    BY <1>2, <2>1 DEF PlaceTypes
  <2> QED
    BY <1>1, <2>1, <2>2 DEF Lone, OneRef, OneStub, Empty
<1>12. CASE \/ Watch("main") \/ ReconnectBegin("main") \/ ReconnectGiveUp("main")
            \/ ConnectError("main") \/ ReconnectTry("main")
  <2>1. PICK l \in {"register", "clean", "loop", "try", "get"} :
          /\ Goto("main", l) /\ UNCHANGED <<refs, stubs, stub, proxy, got, deaths>>
          /\ l \in {"try", "get"} => pc["main"] \in {"error", "try"}
    BY <1>12 DEF Watch, ReconnectBegin, ReconnectGiveUp, ConnectError, ReconnectTry, Connecting,
                 At, Home
  <2> QED
    BY <1>1, <1>5, <2>1 DEF Empty, InConnect, InReconnect
<1>13. CASE \/ FirstConnect \/ MainReconnect \/ MainSendStarts \/ MainSend \/ MainLeave
            \/ MainJoin
  <2>1. PICK l \in {"get", "begin", "send", "loop", "drop", "quit", "gone"} :
          /\ Goto("main", l) /\ UNCHANGED <<refs, stubs, stub, proxy, got, deaths>>
          /\ l = "get" => pc["main"] = "start"
    BY <1>13 DEF FirstConnect, Connecting, MainReconnect, MainSendStarts, MainSend, MainLeave,
                 MainJoin, At
  <2> QED
    BY <1>1, <1>5, <2>1 DEF Empty, InConnect, InReconnect
<1>14. CASE HeartbeatEnd \/ HeartbeatFresh \/ HeartbeatReadsProxy \/ HeartbeatSends
  <2>1. \A u \in Connectors : pc'[u] = pc[u] /\ got'[u] = got[u]
    <3>1. PICK l \in Places("hb") : Goto("hb", l)
      BY <1>14 DEF HeartbeatEnd, HeartbeatFresh, HeartbeatReadsProxy, HeartbeatSends
    <3>2. UNCHANGED got \/ \E v : got' = [got EXCEPT !["hb"] = v]
      BY <1>14 DEF HeartbeatEnd, HeartbeatFresh, HeartbeatReadsProxy, HeartbeatSends
    <3> QED
      BY <1>2, <3>1, <3>2, Moved
  <2>2. UNCHANGED <<refs, stubs, stub, proxy, deaths>>
    BY <1>14 DEF HeartbeatEnd, HeartbeatFresh, HeartbeatReadsProxy, HeartbeatSends
  <2> QED
    BY <1>1, <2>1, <2>2 DEF Lone, OneRef, OneStub, Empty
<1>15. CASE HeartbeatExpires \/ ServiceStarts \/ UNCHANGED vars
  BY <1>1, <1>15 DEF HeartbeatExpires, ServiceStarts, vars, Lone, OneRef, OneStub, Empty
<1> QED
  BY <1>1, <1>7, <1>8, <1>9, <1>10, <1>11, <1>12, <1>13, <1>14, <1>15
     DEF Next, ConnectorStep, MainClean

-----------------------------------------------------------------------------
(* The theorems                                                              *)

\* The invariant holds as the context is made, and every step keeps it.
LEMMA ClientInvariant == Spec => [](TypeOK /\ Held)
<1>1. Init => TypeOK /\ Held
  <2> SUFFICES ASSUME Init PROVE TypeOK /\ Held
    OBVIOUS
  <2> USE Names, AttemptsAssumption, BeatsAssumption, LivesAssumption
  <2>1. /\ pc["main"] = "start" /\ pc["hb"] = "none"
        /\ \A r \in Reconnectors : pc[r] = "idle"
        /\ DOMAIN pc = Connectors \cup {"hb"}
        /\ \A t \in Connectors \cup {"hb"} : got[t] = None
        /\ \A n \in Objects : refs[n] = 0
    BY DEF Init
  <2>2. TypeOK
    <3>1. CtxTypes /\ ProxyType /\ EnvTypes
      <4>1. 0 \in 0 .. MaxBeats /\ 0 \in 0 .. MaxLives
        OBVIOUS
      <4>2. CtxTypes
        BY <4>1 DEF Init, CtxTypes
      <4> QED
        BY <4>1, <4>2 DEF Init, ProxyType, EnvTypes
    <3>2. RefTypes /\ WatchTypes
      BY DEF Init, RefTypes, WatchTypes
    <3>3. HandTypes /\ AttemptTypes
      BY DEF Init, HandTypes, AttemptTypes
    <3>4. HandPlaces /\ PlaceTypes
      BY <2>1 DEF HandPlaces, PlaceTypes, Places
    <3> QED
      BY <3>1, <3>2, <3>3, <3>4, TypeParts
  <2>3. RefsBacked
    <3>1. \A n \in Objects : Holders(n) = {} /\ proxy # n
      BY <2>1 DEF Holders, Init
    <3>2. Cardinality({}) = 0
      BY FS_EmptySet
    <3> QED
      BY <2>1, <3>1, <3>2 DEF RefsBacked
  <2>4. StubBacked /\ HasObject /\ ConnectedHolds /\ BeatsOnce /\ ServiceIsLast
    BY <2>1 DEF Init, StubBacked, HasObject, ConnectedHolds, BeatsOnce, ServiceIsLast
  <2>5. MainAlone
    BY <2>1 DEF Init, MainAlone, Lone, OneRef, OneStub, Empty
  <2> QED
    BY <2>2, <2>3, <2>4, <2>5 DEF Held
<1>2. TypeOK /\ Held /\ [Next]_vars => (TypeOK /\ Held)'
  <2> SUFFICES ASSUME TypeOK, Held, [Next]_vars PROVE TypeOK' /\ Held'
    OBVIOUS
  <2>1. /\ RefsBacked /\ StubBacked /\ HasObject /\ ConnectedHolds /\ BeatsOnce
        /\ ServiceIsLast /\ MainAlone
    BY DEF Held
  <2>2. RefsBacked' /\ StubBacked' /\ RefTypes'
    BY <2>1, RefStep
  <2>3. PlaceTypes' /\ HandPlaces' /\ HasObject'
    BY <2>1, PlaceStep DEF Placed
  <2>4. CtxTypes' /\ ProxyType' /\ EnvTypes' /\ WatchTypes' /\ HandTypes' /\ AttemptTypes'
    BY VarTypes
  <2>5. ConnectedHolds' /\ BeatsOnce' /\ ServiceIsLast'
    BY <2>1, ContextStep
  <2>6. MainAlone'
    BY <2>1, AloneStep
  <2>7. TypeOK'
    BY <2>2, <2>3, <2>4, TypeParts
  <2> QED
    BY <2>2, <2>3, <2>5, <2>6, <2>7 DEF Held
<1> QED
  BY <1>1, <1>2, PTL DEF Spec

\* Every variable of the context, the objects and the threads keeps its type, and
\* only a thread inside OhIpcClientConnect or a heartbeat has an object in its
\* hands.
THEOREM ClientTypeCorrect == Spec => []TypeOK
BY ClientInvariant, PTL

\* However many threads reconnect, and however often the service dies and comes
\* back: the proxy of the context and the objects in the hands of threads have not
\* been released, and a context that calls itself connected holds a proxy.
THEOREM ClientProxyHeld == Spec => []ProxyHeld
<1>1. TypeOK /\ Held => ProxyHeld
  <2> SUFFICES ASSUME TypeOK, Held PROVE ProxyHeld
    OBVIOUS
  <2>1. /\ \A n \in Objects : refs[n] \in Nat /\ Cardinality(Holders(n)) \in Nat
        /\ \A n \in Objects : refs[n] >= Cardinality(Holders(n)) + (IF proxy = n THEN 1 ELSE 0)
        /\ ConnectedHolds
    BY HoldersCount, TypeParts DEF RefTypes, Held, RefsBacked
  <2>2. proxy \in Objects \cup {None} /\ \A t \in Connectors : got[t] \in Objects \cup {None}
    BY TypeParts DEF ProxyType, HandTypes
  <2>3. ASSUME NEW t \in Connectors, got[t] # None PROVE refs[got[t]] > 0
    <3>1. Cardinality(Holders(got[t])) >= 1
      BY HoldersCount
    <3>2. got[t] \in Objects
      BY <2>2, <2>3
    <3> QED
      BY <2>1, <3>1, <3>2
  <2>4. proxy # None => refs[proxy] > 0
    BY <2>1, <2>2
  <2> QED
    BY <2>1, <2>3, <2>4 DEF ProxyHeld, ConnectedHolds
<1> QED
  BY <1>1, ClientInvariant, PTL

\* Until the service dies for the first time, failed attempts, disconnections and
\* manual reconnections leak neither a reference nor a stub.
THEOREM ClientNoRefLeak == Spec => []NoRefLeak
<1>1. TypeOK /\ Held => NoRefLeak
  <2> SUFFICES ASSUME TypeOK, Held, lives = 1, service = 1
               PROVE  /\ refs[1] = (IF proxy = 1 THEN 1 ELSE 0)
                                     + (IF got["main"] = 1 THEN 1 ELSE 0)
                      /\ stubs = IF stub THEN 1 ELSE 0
    BY DEF NoRefLeak
  <2>1. OneRef /\ OneStub
    BY DEF Held, MainAlone, NoDeathYet
  <2>2. 1 \in Objects
    BY TypeParts DEF EnvTypes, None
  <2> QED
    BY <2>1, <2>2 DEF OneRef, OneStub
<1> QED
  BY <1>1, ClientInvariant, PTL
=============================================================================
