------------------------------ MODULE BinderClient ------------------------------
(*****************************************************************************)
(* The client side of oh_ipc_binder.c in an ohipc_client process: the main   *)
(* thread (OhIpcClientConnect, then the commands 'd', 'r' and 'q'), the      *)
(* heartbeat thread, the OnRemoteDead callback on a Binder thread and the    *)
(* detached threads it starts, which run OhIpcClientReconnect.               *)
(*                                                                           *)
(* A step is one section of ctx->lock, or one call into SAMgr or Binder with *)
(* the assignments around it.  The service is the environment; each of its   *)
(* lives is a number, and so is the remote object that stands for it.        *)
(* Times are left out: a test of the heartbeat finds the connection fresh or *)
(* expired, and MaxBeats bounds how often it is fresh.  So are the contents  *)
(* of the messages and the statistics.  A request sent to a remote object    *)
(* already released is undefined; the model goes on as if it failed, and a   *)
(* property asks whether there is one.                                       *)
(*****************************************************************************)
EXTENDS Integers, FiniteSets

CONSTANTS
    MaxAttempts,    \* config.maxReconnectAttempts
    Reconnectors,   \* the detached threads there can be at a time
    MaxLives,       \* bound: how often the service is started
    MaxBeats        \* heartbeats sent before heartbeatTimeoutMs are over

ASSUME AttemptsAssumption == MaxAttempts \in Nat \ {0}
ASSUME ReconnectorsAssumption ==
    IsFiniteSet(Reconnectors) /\ "main" \notin Reconnectors /\ "hb" \notin Reconnectors
ASSUME LivesAssumption == MaxLives \in Nat
ASSUME BeatsAssumption == MaxBeats \in Nat

VARIABLES
    running, state,     \* of the context
    proxy,              \* the remote object it holds, or None
    stub,               \* whether it holds a callback stub
    recipient,          \* ctx->deathRecipient: None, Unlinked, or the object it watches
    handle,             \* ctx->heartbeatThread: none yet, the thread that beats, or
                        \* one that ended as it started
    refs, watches,      \* strong references to, and recipients on, each remote object
    stubs,              \* callback stubs created and not destroyed
    beats,              \* heartbeats sent since lastRecvTime
    pc, got,            \* each thread: its place, the remote object in its hands
    attempts,           \* ... and the attempts of the OhIpcClientReconnect it is in
    deaths,             \* OnRemoteDead calls under way
    service, lives      \* the service registered with SAMgr, or None; lives so far

ctxVars == <<running, state, proxy, stub, recipient, handle, beats>>
objVars == <<refs, watches, stubs, deaths>>
envVars == <<service, lives>>
vars == <<ctxVars, objVars, pc, got, attempts, envVars>>

Objects == 1 .. MaxLives
None == 0
Unlinked == -1
Connectors == {"main"} \cup Reconnectors

InConnect == {"get", "stub", "publish", "watch", "register", "error"}
InReconnect == {"begin", "clean", "try"}

TypeOK ==
    /\ running \in BOOLEAN
    /\ state \in {"IDLE", "CONNECTING", "CONNECTED", "RECONNECTING", "DISCONNECTED", "ERROR"}
    /\ proxy \in Objects \cup {None} /\ service \in Objects \cup {None}
    /\ stub \in BOOLEAN /\ stubs \in Nat /\ beats \in 0 .. MaxBeats
    /\ recipient \in Objects \cup {None, Unlinked}
    /\ handle \in {"none", "hb", "ended"}
    /\ refs \in [Objects -> Nat] /\ watches \in [Objects -> Nat]
    /\ DOMAIN pc = Connectors \cup {"hb"}
    /\ pc["main"] \in {"start", "loop", "send", "drop", "quit", "destroy", "join", "gone"}
                         \cup InConnect \cup InReconnect
    /\ pc["hb"] \in {"none", "sleep", "beat", "sending", "end"}
    /\ \A r \in Reconnectors : pc[r] \in {"idle"} \cup InConnect \cup InReconnect
    /\ got \in [Connectors \cup {"hb"} -> Objects \cup {None}]
    /\ attempts \in [Connectors -> 0 .. MaxAttempts]
    /\ deaths \in Nat /\ lives \in 0 .. MaxLives
    \* only OhIpcClientConnect and a heartbeat have an object in their hands
    /\ \A t \in Connectors : got[t] # None => pc[t] \in {"stub", "publish"}
    /\ got["hb"] # None <=> pc["hb"] = "sending"

\* OhIpcInit.
Init ==
    /\ running = TRUE /\ state = "IDLE"
    /\ proxy = None /\ recipient = None /\ handle = "none"
    /\ stub = FALSE /\ stubs = 0 /\ beats = 0
    /\ refs = [n \in Objects |-> 0] /\ watches = [n \in Objects |-> 0] /\ deaths = 0
    /\ pc = [t \in Connectors \cup {"hb"} |->
               IF t = "main" THEN "start" ELSE IF t = "hb" THEN "none" ELSE "idle"]
    /\ got = [t \in Connectors \cup {"hb"} |-> None] /\ attempts = [t \in Connectors |-> 0]
    /\ service = None /\ lives = 0

\* A thread stands at a place; nothing is said of the program once OhIpcDestroy
\* has freed the context.
At(t, l) == pc[t] = l /\ pc["main"] # "gone"
Goto(t, l) == pc' = [pc EXCEPT ![t] = l]

\* Where a thread goes after OhIpcClientConnect or OhIpcClientReconnect.
Home(t) == IF t = "main" THEN "loop" ELSE "idle"

\* One reference or recipient of object n more or fewer.
Added(count, n, k) ==
    [m \in Objects |-> IF m = n THEN count[m] + k ELSE count[m]]

-----------------------------------------------------------------------------
(* OhIpcClientConnect                                                        *)

Connecting(t, l) ==
    /\ state' = "CONNECTING" /\ Goto(t, l)
    /\ UNCHANGED <<running, proxy, stub, recipient, handle, beats, objVars, got, envVars>>

\* The call in main of ohipc_client.c.
FirstConnect ==
    At("main", "start") /\ Connecting("main", "get") /\ UNCHANGED attempts

\* Mutant: one attempt too many.
ReconnectTryOneMore(t) ==
    /\ At(t, "try") /\ attempts[t] =< MaxAttempts
    /\ attempts' = [attempts EXCEPT ![t] = @ + 1]
    /\ Connecting(t, "get")

\* Mutant: the counter starts anew in every turn.
ReconnectTryRestarted(t) ==
    /\ At(t, "try") /\ attempts[t] < MaxAttempts
    /\ attempts' = [attempts EXCEPT ![t] = 1]
    /\ Connecting(t, "get")

\* The next turn of the loop of OhIpcClientReconnect.
ReconnectTry(t) ==
    /\ At(t, "try") /\ attempts[t] < MaxAttempts
    /\ attempts' = [attempts EXCEPT ![t] = @ + 1]
    /\ Connecting(t, "get")

\* OH_SAMgr_GetSystemAbility gives a reference, or NULL when there is no service.
GetService(t) ==
    /\ At(t, "get")
    /\ got' = [got EXCEPT ![t] = service] /\ refs' = Added(refs, service, 1)
    /\ Goto(t, IF service = None THEN "error" ELSE "stub")
    /\ UNCHANGED <<ctxVars, watches, stubs, deaths, attempts, envVars>>

\* The stub is made without the lock; one the context still held is lost.
StubMade(t) ==
    /\ Goto(t, "publish")
    /\ stub' = TRUE /\ stubs' = stubs + 1
    /\ UNCHANGED <<got, refs>>

\* Mutant: the reference is not given back.
CreateStubNoRelease(t) ==
    /\ At(t, "stub")
    /\ \/ StubMade(t)
       \/ /\ Goto(t, "error") /\ stub' = FALSE
          /\ got' = [got EXCEPT ![t] = None] /\ UNCHANGED <<refs, stubs>>
    /\ UNCHANGED <<running, state, proxy, recipient, handle, beats, watches, deaths,
                   attempts, envVars>>

\* OH_IPCRemoteStub_Create; if it fails the reference is given back.
CreateStub(t) ==
    /\ At(t, "stub")
    /\ \/ StubMade(t)
       \/ /\ Goto(t, "error") /\ stub' = FALSE
          /\ got' = [got EXCEPT ![t] = None] /\ refs' = Added(refs, got[t], -1)
          /\ UNCHANGED stubs
    /\ UNCHANGED <<running, state, proxy, recipient, handle, beats, watches, deaths,
                   attempts, envVars>>

\* The context owns the reference from here; a proxy it already held is lost.
Publish(t) ==
    /\ At(t, "publish")
    /\ proxy' = got[t] /\ state' = "CONNECTED" /\ beats' = 0
    /\ got' = [got EXCEPT ![t] = None]
    /\ Goto(t, "watch")
    /\ UNCHANGED <<running, stub, recipient, handle, objVars, attempts, envVars>>

\* A recipient is linked to whatever the context holds by now, and only to an
\* object whose process lives.
Watch(t) ==
    /\ At(t, "watch")
    /\ IF proxy # None /\ proxy = service
       THEN recipient' = proxy /\ watches' = Added(watches, proxy, 1)
       ELSE recipient' = Unlinked /\ UNCHANGED watches
    /\ Goto(t, "register")
    /\ UNCHANGED <<running, state, proxy, stub, handle, beats, refs, stubs, deaths, got,
                   attempts, envVars>>

\* Mutant: no heartbeat thread.
RegisterNoHeartbeat(t) ==
    /\ At(t, "register")
    /\ pc' = [pc EXCEPT ![t] = Home(t)]
    /\ attempts' = [attempts EXCEPT ![t] = 0]
    /\ UNCHANGED <<ctxVars, objVars, got, envVars>>

\* REGISTER_CB, which the service ignores, then the heartbeat thread: it beats
\* only if the context still runs, and its handle takes the place of the last.
Register(t) ==
    /\ At(t, "register")
    /\ IF running
       THEN pc' = [pc EXCEPT ![t] = Home(t), !["hb"] = "sleep"] /\ handle' = "hb"
       ELSE pc' = [pc EXCEPT ![t] = Home(t)] /\ handle' = "ended"
    /\ attempts' = [attempts EXCEPT ![t] = 0]
    /\ UNCHANGED <<running, state, proxy, stub, recipient, beats, objVars, got, envVars>>

\* The attempt has failed: back to the loop of OhIpcClientReconnect, or to main.
ConnectError(t) ==
    /\ At(t, "error")
    /\ state' = "ERROR"
    /\ Goto(t, IF attempts[t] = 0 THEN Home(t) ELSE "try")
    /\ UNCHANGED <<running, proxy, stub, recipient, handle, beats, objVars, got, attempts, envVars>>

-----------------------------------------------------------------------------
(* OhIpcClientDisconnect and OhIpcClientReconnect                            *)

\* Cleared by every OhIpcClientDisconnect and by OhIpcDestroy; never set again.
\* OhIpcClientReconnect has just set the state.
ReconnectBegin(t) ==
    /\ At(t, "begin")
    /\ state' = "RECONNECTING" /\ running' = FALSE
    /\ Goto(t, "clean")
    /\ UNCHANGED <<proxy, stub, recipient, handle, beats, objVars, got, attempts, envVars>>

\* The places a thread calls OhIpcClientDisconnect at, and what follows: in
\* OhIpcClientReconnect, for the command 'd', for 'q', and in OhIpcDestroy.
After == [clean |-> "try", drop |-> "loop", quit |-> "destroy", destroy |-> "join"]

\* OhIpcClientDisconnect destroys the stub it finds.
StubGone == stub' = FALSE /\ stubs' = stubs - (IF stub THEN 1 ELSE 0)

\* ... and takes the recipient it finds off the proxy.
Unwatched ==
    IF proxy # None /\ recipient = proxy /\ watches[proxy] > 0
    THEN Added(watches, proxy, -1) ELSE watches

\* Mutant: the released proxy stays in the context.
CleanKeepProxy(t, l) ==
    /\ At(t, l)
    /\ watches' = Unwatched /\ refs' = Added(refs, proxy, -1) /\ StubGone
    /\ recipient' = None /\ state' = "DISCONNECTED"
    /\ Goto(t, After[l])
    /\ UNCHANGED <<running, proxy, handle, beats, deaths, got, attempts, envVars>>

\* Under ctx->lock: the recipient is taken off the proxy, the proxy released.
Clean(t, l) ==
    /\ At(t, l)
    /\ watches' = Unwatched /\ refs' = Added(refs, proxy, -1) /\ StubGone
    /\ recipient' = None /\ proxy' = None /\ state' = "DISCONNECTED"
    /\ Goto(t, After[l])
    /\ UNCHANGED <<running, handle, beats, deaths, got, attempts, envVars>>

\* Out of attempts.
ReconnectGiveUp(t) ==
    /\ At(t, "try") /\ attempts[t] = MaxAttempts
    /\ state' = "ERROR" /\ attempts' = [attempts EXCEPT ![t] = 0]
    /\ Goto(t, Home(t))
    /\ UNCHANGED <<running, proxy, stub, recipient, handle, beats, objVars, got, envVars>>

ConnectorStep(t) ==
    \/ GetService(t) \/ CreateStub(t) \/ Publish(t) \/ Watch(t) \/ Register(t)
    \/ ConnectError(t)
    \/ ReconnectBegin(t) \/ Clean(t, "clean") \/ ReconnectTry(t) \/ ReconnectGiveUp(t)

-----------------------------------------------------------------------------
(* The main thread                                                           *)

\* 'r' calls OhIpcClientReconnect.
MainReconnect ==
    /\ At("main", "loop")
    /\ Goto("main", "begin")
    /\ UNCHANGED <<ctxVars, objVars, got, attempts, envVars>>

\* 'd' calls OhIpcClientDisconnect; 'q' does too, and then OhIpcDestroy, which
\* calls it again.
MainLeave ==
    /\ At("main", "loop")
    /\ running' = FALSE
    /\ Goto("main", "drop") \/ Goto("main", "quit")
    /\ UNCHANGED <<state, proxy, stub, recipient, handle, beats, objVars, got, attempts,
                   envVars>>

\* The commands that send call OhIpcClientSend: a look at the context under the lock ...
MainSendStarts ==
    /\ At("main", "loop") /\ state = "CONNECTED" /\ proxy # None
    /\ Goto("main", "send")
    /\ UNCHANGED <<ctxVars, objVars, got, attempts, envVars>>

\* ... and, after the parcel is built, the request under the lock taken again, on
\* the proxy there is by then.
MainSend ==
    /\ At("main", "send")
    /\ Goto("main", "loop")
    /\ UNCHANGED <<ctxVars, objVars, got, attempts, envVars>>

MainClean == \E l \in {"drop", "quit", "destroy"} : Clean("main", l)

\* OhIpcDestroy waits for the thread of the handle and frees the context.
MainJoin ==
    /\ At("main", "join")
    /\ handle = "hb" => pc["hb"] = "end"
    /\ Goto("main", "gone")
    /\ UNCHANGED <<ctxVars, objVars, got, attempts, envVars>>

-----------------------------------------------------------------------------
(* HeartbeatThread, and OnRemoteDead on a Binder thread                      *)

HeartbeatEnd ==
    /\ At("hb", "sleep") /\ ~running
    /\ Goto("hb", "end")
    /\ UNCHANGED <<ctxVars, objVars, got, attempts, envVars>>

\* lastRecvTime is too old.  Only a message of the service would refresh it, and
\* the service has no proxy of the client to send one with.
HeartbeatExpires ==
    /\ At("hb", "sleep") /\ running /\ state = "CONNECTED"
    /\ state' = "DISCONNECTED"
    /\ UNCHANGED <<running, proxy, stub, recipient, handle, beats, objVars, pc, got,
                   attempts, envVars>>

\* It is not, and a heartbeat is due: the lock is given up ...
HeartbeatFresh ==
    /\ At("hb", "sleep") /\ running /\ state = "CONNECTED" /\ beats < MaxBeats
    /\ beats' = beats + 1 /\ Goto("hb", "beat")
    /\ UNCHANGED <<running, state, proxy, stub, recipient, handle, objVars, got, attempts,
                   envVars>>

\* ... the proxy is read without it ...
HeartbeatReadsProxy ==
    /\ At("hb", "beat")
    /\ got' = [got EXCEPT !["hb"] = proxy]
    /\ Goto("hb", IF proxy = None THEN "sleep" ELSE "sending")
    /\ UNCHANGED <<ctxVars, objVars, attempts, envVars>>

\* ... and the request sent on what was read.
HeartbeatSends ==
    /\ At("hb", "sending")
    /\ got' = [got EXCEPT !["hb"] = None] /\ Goto("hb", "sleep")
    /\ UNCHANGED <<ctxVars, objVars, attempts, envVars>>

\* A detached thread takes over the reconnection (enableReconnect is true).
OnRemoteDead(r) ==
    /\ deaths > 0 /\ At(r, "idle")
    /\ deaths' = deaths - 1
    /\ state' = "DISCONNECTED"
    /\ Goto(r, "begin")
    /\ UNCHANGED <<running, proxy, stub, recipient, handle, beats, refs, watches, stubs, got,
                   attempts, envVars>>

-----------------------------------------------------------------------------
(* The service and SAMgr                                                     *)

\* OhIpcServerStart registers it with OH_SAMgr_AddSystemAbility.
ServiceStarts ==
    /\ service = None /\ lives < MaxLives
    /\ lives' = lives + 1 /\ service' = lives + 1
    /\ UNCHANGED <<ctxVars, objVars, pc, got, attempts>>

\* OhIpcServerStop or a kill: SAMgr drops it and every recipient is called once.
ServiceDies ==
    /\ service # None
    /\ service' = None
    /\ deaths' = deaths + watches[service]
    /\ watches' = [watches EXCEPT ![service] = 0]
    /\ UNCHANGED <<ctxVars, refs, stubs, pc, got, attempts, lives>>

Next ==
    \/ FirstConnect
    \/ \E t \in Connectors : ConnectorStep(t)
    \/ MainReconnect \/ MainSendStarts \/ MainSend \/ MainLeave \/ MainClean \/ MainJoin
    \/ HeartbeatEnd \/ HeartbeatExpires
    \/ HeartbeatFresh \/ HeartbeatReadsProxy \/ HeartbeatSends
    \/ \E r \in Reconnectors : OnRemoteDead(r)
    \/ ServiceStarts \/ ServiceDies

Spec == Init /\ [][Next]_vars

\* Every thread runs and every death is told; the service need not ever start,
\* and no command need come.
FairSpec ==
    /\ Spec
    /\ WF_vars(FirstConnect)
    /\ \A t \in Connectors : WF_vars(ConnectorStep(t))
    /\ WF_vars(MainSend) /\ WF_vars(MainClean) /\ WF_vars(MainJoin)
    /\ WF_vars(HeartbeatEnd) /\ WF_vars(HeartbeatExpires)
    /\ WF_vars(HeartbeatReadsProxy \/ HeartbeatSends)
    /\ WF_vars(\E r \in Reconnectors : OnRemoteDead(r))

-----------------------------------------------------------------------------
(* Properties                                                                *)

\* The proxy the context holds has not been released, no reference is given back
\* twice, and a context that calls itself connected holds a proxy: of overlapping
\* reconnections, disconnections and deaths none takes away the proxy of another.
ProxyHeld ==
    /\ \A n \in Objects : refs[n] >= 0
    /\ proxy # None => refs[proxy] > 0
    /\ \A t \in Connectors : got[t] # None => refs[got[t]] > 0
    /\ state = "CONNECTED" => proxy # None

\* As long as the service has not died the main thread alone connects, and then
\* the references and stubs are those of the context and of the call under way:
\* none leaks through failed attempts and manual reconnections.
NoRefLeak ==
    (lives = 1 /\ service = 1) =>
        /\ refs[1] = (IF proxy = 1 THEN 1 ELSE 0) + (IF got["main"] = 1 THEN 1 ELSE 0)
        /\ stubs = IF stub THEN 1 ELSE 0

\* Every OhIpcClientReconnect comes to an end, whatever the other threads do.
ReconnectEnds ==
    \A r \in Reconnectors :
        (pc[r] # "idle") ~> (pc[r] = "idle" \/ pc["main"] = "gone")

\* A first connection to a service that is no longer there is noticed, by the
\* death recipient or, if the service died before that was linked, the heartbeat.
DeadServiceNoticed ==
    (state = "CONNECTED" /\ proxy # service /\ running)
        ~> (state # "CONNECTED" \/ ~running)

(* What the documentation promises and the code does not keep                *)

\* A connection to a service that is still there, lost and not ended by the user,
\* is made again.
LossRecovered ==
    (state = "DISCONNECTED" /\ proxy # None /\ proxy = service /\ pc["main"] = "loop")
        ~> (state # "DISCONNECTED" \/ pc["main"] # "loop")

\* OhIpcClientSend tests the proxy before it sends: the request never goes to
\* NULL, nor a heartbeat to an object that was released.
SendsOnHeldProxy ==
    /\ At("main", "send") => proxy # None
    /\ got["hb"] # None => refs[got["hb"]] > 0
=================================================================================
