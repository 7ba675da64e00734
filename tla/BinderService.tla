----------------------------- MODULE BinderService -----------------------------
(*****************************************************************************)
(* The service side of oh_ipc_binder.c: ohipc_service processes (main        *)
(* thread, heartbeat thread, work thread with ServerOnRequest), SAMgr, which  *)
(* finds them, and clients that call them.                                   *)
(*                                                                           *)
(* A service is registered under a number computed from its name, and two     *)
(* names may have the same one (GenerateSaId has 1000 values).  The clients   *)
(* are reduced to their calls; their threads are the subject of BinderClient. *)
(*                                                                           *)
(* External, and modelled as the code uses it: SAMgr keeps one object for a   *)
(* number and may replace or refuse when there is one; it forgets what died.  *)
(* StopWorkThread takes the thread that calls it out of the pool: that is the *)
(* main thread, which is in none, so the work thread stays in JoinWorkThread, *)
(* handles requests of callers that hold a proxy, and is never joined.  A     *)
(* synchronous call to a process that ends comes back with an error.          *)
(*****************************************************************************)
EXTENDS Integers, Sequences

CONSTANTS
    Services, Clients,
    NameOf,         \* the service name each of them was started with
    SaId,           \* GenerateSaId: the number of a name
    None, Dead,     \* no service; a proxy whose process is gone
    MaxStarts,      \* bound: how often services are started
    MaxCalls        \* bound: calls waiting at a service

ASSUME NamesAssumption == DOMAIN NameOf = Services \cup Clients /\ Services \cap Clients = {}
ASSUME SaIdAssumption == \A p \in Services \cup Clients : NameOf[p] \in DOMAIN SaId
ASSUME NoneAssumption == {None, Dead} \cap Services = {}
ASSUME BoundsAssumption == MaxStarts \in Nat /\ MaxCalls \in Nat

VARIABLES
    registry,   \* SAMgr: the service under each number, or None
    starts,     \* how often services have been started
    pc,         \* main thread of each service
    running, registered,    \* of its context: running, state is REGISTERED
    lock,       \* who holds its ctx->lock
    hpc,        \* its heartbeat thread
    work, call, \* its work thread, and the call that is in
    inbox,      \* calls that wait for it
    proxy,      \* the service each client holds a proxy of
    waiting     \* a client waits for the answer to a synchronous call

samgr == <<registry, starts>>
context == <<running, registered, lock>>
threads == <<pc, hpc>>
handler == <<work, call, inbox>>
client == <<proxy, waiting>>
vars == <<samgr, context, threads, handler, client>>

Id(p) == SaId[NameOf[p]]
Ids == {SaId[n] : n \in DOMAIN SaId}

\* REGISTER_CB and HEARTBEAT are sent without an interface token.
Calls == [from : Clients, type : {"DATA", "REGISTER_CB", "HEARTBEAT"}, sync : BOOLEAN]
NoCall == [from |-> None]

TypeOK ==
    /\ registry \in [Ids -> Services \cup {None}] /\ starts \in 0 .. MaxStarts
    /\ pc \in [Services -> {"off", "loop", "stop", "unregister", "unlock", "destroy", "join", "join_work"}]
    /\ running \in [Services -> BOOLEAN] /\ registered \in [Services -> BOOLEAN]
    /\ lock \in [Services -> {"free", "main"}]
    /\ hpc \in [Services -> {"none", "sleep", "end"}]
    /\ work \in [Services -> {"none", "idle", "stats", "message"}]
    /\ call \in [Services -> Calls \cup {NoCall}]
    /\ inbox \in [Services -> Seq(Calls)]
    /\ proxy \in [Clients -> Services \cup {None, Dead}] /\ waiting \in [Clients -> BOOLEAN]
    /\ \A s \in Services :
         /\ call[s] # NoCall <=> work[s] \in {"stats", "message"}
         /\ pc[s] = "off" => work[s] = "none" /\ hpc[s] = "none" /\ inbox[s] = <<>>
         /\ registered[s] => pc[s] \in {"loop", "stop", "unregister"}

Init ==
    /\ registry = [i \in Ids |-> None] /\ starts = 0
    /\ pc = [s \in Services |-> "off"] /\ hpc = [s \in Services |-> "none"]
    /\ running = [s \in Services |-> FALSE] /\ registered = [s \in Services |-> FALSE]
    /\ lock = [s \in Services |-> "free"]
    /\ work = [s \in Services |-> "none"] /\ call = [s \in Services |-> NoCall]
    /\ inbox = [s \in Services |-> <<>>]
    /\ proxy = [c \in Clients |-> None] /\ waiting = [c \in Clients |-> FALSE]

-----------------------------------------------------------------------------
(* OhIpcServerStart, OhIpcServerStop and OhIpcDestroy, called by main        *)

\* OhIpcInit and OhIpcServerStart: the stub is made and registered, then both
\* threads are started.
Start(s) ==
    /\ pc[s] = "off" /\ starts < MaxStarts
    /\ starts' = starts + 1
    /\ registry' = [registry EXCEPT ![Id(s)] = s]
    /\ pc' = [pc EXCEPT ![s] = "loop"]
    /\ running' = [running EXCEPT ![s] = TRUE] /\ registered' = [registered EXCEPT ![s] = TRUE]
    /\ hpc' = [hpc EXCEPT ![s] = "sleep"] /\ work' = [work EXCEPT ![s] = "idle"]
    /\ UNCHANGED <<lock, call, inbox, client>>

\* SAMgr refuses: main calls OhIpcDestroy, which finds nothing to undo.
StartRefused(s) ==
    /\ pc[s] = "off" /\ starts < MaxStarts /\ registry[Id(s)] # None
    /\ starts' = starts + 1
    /\ UNCHANGED <<registry, context, threads, handler, client>>

\* SIGINT or SIGTERM ends the loop.
Signal(s) ==
    /\ pc[s] = "loop"
    /\ pc' = [pc EXCEPT ![s] = "stop"]
    /\ UNCHANGED <<samgr, context, hpc, handler, client>>

\* OhIpcServerStop as far as the lock; OhIpcDestroy calls it a second time.
StopWork(s) ==
    /\ pc[s] \in {"stop", "destroy"} /\ lock[s] = "free"
    /\ running' = [running EXCEPT ![s] = FALSE] /\ lock' = [lock EXCEPT ![s] = "main"]
    /\ pc' = [pc EXCEPT ![s] = IF @ = "stop" THEN "unregister" ELSE "unlock"]
    /\ UNCHANGED <<samgr, registered, hpc, handler, client>>

\* Mutant: the state stays REGISTERED.
UnregisterKeepState(s) ==
    /\ pc[s] = "unregister"
    /\ registry' = [registry EXCEPT ![Id(s)] = None]
    /\ lock' = [lock EXCEPT ![s] = "free"] /\ pc' = [pc EXCEPT ![s] = "destroy"]
    /\ UNCHANGED <<starts, running, registered, hpc, handler, client>>

\* Mutant: the lock is kept.
UnregisterKeepLock(s) ==
    /\ pc[s] = "unregister"
    /\ registry' = [registry EXCEPT ![Id(s)] = None]
    /\ registered' = [registered EXCEPT ![s] = FALSE]
    /\ pc' = [pc EXCEPT ![s] = "destroy"]
    /\ UNCHANGED <<starts, running, lock, hpc, handler, client>>

\* RemoveSystemAbility takes out whatever is registered under the number.
Unregister(s) ==
    /\ pc[s] = "unregister"
    /\ registry' = [registry EXCEPT ![Id(s)] = None]
    /\ registered' = [registered EXCEPT ![s] = FALSE]
    /\ lock' = [lock EXCEPT ![s] = "free"] /\ pc' = [pc EXCEPT ![s] = "destroy"]
    /\ UNCHANGED <<starts, running, hpc, handler, client>>

\* Mutant: the threads are waited for under the lock.
UnlockNot(s) ==
    /\ pc[s] = "unlock"
    /\ pc' = [pc EXCEPT ![s] = "join"]
    /\ UNCHANGED <<samgr, context, hpc, handler, client>>

\* The second call has nothing to remove: the state is IDLE.
Unlock(s) ==
    /\ pc[s] = "unlock"
    /\ lock' = [lock EXCEPT ![s] = "free"] /\ pc' = [pc EXCEPT ![s] = "join"]
    /\ UNCHANGED <<samgr, running, registered, hpc, handler, client>>

\* The heartbeat thread is joined; the join of the work thread does not return.
JoinHeartbeat(s) ==
    /\ pc[s] = "join" /\ hpc[s] = "end"
    /\ pc' = [pc EXCEPT ![s] = "join_work"]
    /\ UNCHANGED <<samgr, context, hpc, handler, client>>

\* Everything of the process ends; SAMgr and the callers are told.
Gone(s) ==
    /\ pc' = [pc EXCEPT ![s] = "off"] /\ hpc' = [hpc EXCEPT ![s] = "none"]
    /\ lock' = [lock EXCEPT ![s] = "free"] /\ running' = [running EXCEPT ![s] = FALSE]
    /\ registered' = [registered EXCEPT ![s] = FALSE]
    /\ work' = [work EXCEPT ![s] = "none"] /\ call' = [call EXCEPT ![s] = NoCall]
    /\ inbox' = [inbox EXCEPT ![s] = <<>>]
    /\ registry' = [i \in Ids |-> IF registry[i] = s THEN None ELSE registry[i]]
    /\ waiting' = [c \in Clients |-> waiting[c] /\ proxy[c] # s]
    /\ proxy' = [c \in Clients |-> IF proxy[c] = s THEN Dead ELSE proxy[c]]
    /\ UNCHANGED starts

Kill(s) == pc[s] # "off" /\ Gone(s)

MainStep(s) == StopWork(s) \/ Unregister(s) \/ Unlock(s) \/ JoinHeartbeat(s)

\* A service is never CONNECTED, so its heartbeat thread does nothing but end.
HeartbeatEnd(s) ==
    /\ hpc[s] = "sleep" /\ ~running[s]
    /\ hpc' = [hpc EXCEPT ![s] = "end"]
    /\ UNCHANGED <<samgr, context, pc, handler, client>>

-----------------------------------------------------------------------------
(* The work thread and ServerOnRequest                                       *)

\* The request is over, with or without an error.
Return(c) ==
    /\ waiting' = [waiting EXCEPT ![c.from] = @ /\ ~c.sync]
    /\ UNCHANGED proxy

\* A token, where there is one, must be the service's own.
TokenOK(s, c) == c.type = "DATA" => NameOf[c.from] = NameOf[s]

\* Mutant: a request that is not handed on is dropped without a word.
HandleRequestSilently(s) ==
    /\ work[s] = "idle" /\ inbox[s] # <<>>
    /\ inbox' = [inbox EXCEPT ![s] = Tail(@)]
    /\ LET c == Head(inbox[s]) IN
         IF TokenOK(s, c) /\ c.type # "REGISTER_CB"
         THEN call' = [call EXCEPT ![s] = c] /\ work' = [work EXCEPT ![s] = "stats"]
         ELSE UNCHANGED <<work, call>>
    /\ UNCHANGED <<samgr, context, threads, client>>

\* A request is taken and read: with the wrong token it fails, REGISTER_CB is
\* answered and otherwise ignored.
HandleRequest(s) ==
    /\ work[s] = "idle" /\ inbox[s] # <<>>
    /\ inbox' = [inbox EXCEPT ![s] = Tail(@)]
    /\ LET c == Head(inbox[s]) IN
         IF TokenOK(s, c) /\ c.type # "REGISTER_CB"
         THEN /\ call' = [call EXCEPT ![s] = c] /\ work' = [work EXCEPT ![s] = "stats"]
              /\ UNCHANGED client
         ELSE Return(c) /\ UNCHANGED <<work, call>>
    /\ UNCHANGED <<samgr, context, threads>>

\* The statistics need ctx->lock.
HandleStats(s) ==
    /\ work[s] = "stats" /\ lock[s] = "free"
    /\ work' = [work EXCEPT ![s] = "message"]
    /\ UNCHANGED <<samgr, context, threads, call, inbox, client>>

\* onMessage and the reply.
HandleMessage(s) ==
    /\ work[s] = "message"
    /\ Return(call[s])
    /\ work' = [work EXCEPT ![s] = "idle"] /\ call' = [call EXCEPT ![s] = NoCall]
    /\ UNCHANGED <<samgr, context, threads, inbox>>

WorkStep(s) == HandleRequest(s) \/ HandleStats(s) \/ HandleMessage(s)

-----------------------------------------------------------------------------
(* The clients                                                               *)

\* OH_IPCRemoteProxy_SendRequest on the proxy of a service that lives.
Request(c, s, type, sync) ==
    /\ Len(inbox[s]) < MaxCalls
    /\ inbox' = [inbox EXCEPT ![s] = Append(@, [from |-> c, type |-> type, sync |-> sync])]
    /\ waiting' = [waiting EXCEPT ![c] = sync]
    /\ UNCHANGED <<samgr, context, threads, work, call>>

\* OhIpcClientConnect: the proxy, then REGISTER_CB.
Connect(c) ==
    /\ proxy[c] = None
    /\ registry[Id(c)] # None
    /\ proxy' = [proxy EXCEPT ![c] = registry[Id(c)]]
    /\ Request(c, registry[Id(c)], "REGISTER_CB", TRUE)

\* OhIpcClientSend with needAck or without, and the heartbeat.  (To a process that
\* is gone they fail at once.)
Call(c) ==
    /\ proxy[c] \in Services /\ ~waiting[c]
    /\ \/ \E sync \in BOOLEAN : Request(c, proxy[c], "DATA", sync)
       \/ Request(c, proxy[c], "HEARTBEAT", FALSE)
    /\ UNCHANGED proxy

\* OhIpcClientDisconnect
Disconnect(c) ==
    /\ proxy[c] # None /\ ~waiting[c]
    /\ proxy' = [proxy EXCEPT ![c] = None]
    /\ UNCHANGED <<samgr, context, threads, handler, waiting>>

Next ==
    \/ \E s \in Services :
         \/ Start(s) \/ StartRefused(s) \/ Signal(s) \/ Kill(s)
         \/ MainStep(s) \/ HeartbeatEnd(s) \/ WorkStep(s)
    \/ \E c \in Clients : Connect(c) \/ Call(c) \/ Disconnect(c)

Spec == Init /\ [][Next]_vars

\* The threads of a service run and onMessage returns.  Nobody needs to start,
\* stop or call a service.
FairSpec ==
    /\ Spec
    /\ \A s \in Services :
         WF_vars(MainStep(s) \/ HeartbeatEnd(s)) /\ WF_vars(WorkStep(s))

-----------------------------------------------------------------------------
(* Properties                                                                *)

\* Service s has a synchronous call of client c, waiting or in hand.
Holds(s, c) ==
    \/ \E i \in DOMAIN inbox[s] : inbox[s][i].from = c /\ inbox[s][i].sync
    \/ work[s] \in {"stats", "message"} /\ call[s].from = c /\ call[s].sync

\* A client that waits does so for a process that runs and has its call: no call
\* is lost on the way from SAMgr's proxy to onMessage, not by a refused token, a
\* replaced registration, a stop or a kill.
WaitBacked ==
    \A c \in Clients :
       waiting[c] => proxy[c] \in Services /\ pc[proxy[c]] # "off" /\ Holds(proxy[c], c)

\* Every synchronous call comes back, also when the service stops or dies with
\* the call waiting or half handled.
CallReturns == \A c \in Clients : waiting[c] ~> ~waiting[c]

\* A stopped service is taken out of SAMgr, unlocks and waits for its threads,
\* also when a request is in ServerOnRequest and wants the lock that
\* OhIpcServerStop takes twice: what is left is the join of the work thread.
StopEnds == \A s \in Services : (pc[s] = "stop") ~> (pc[s] \in {"off", "join_work"})

\* OhIpcDestroy returns (it does not).
DestroyReturns == \A s \in Services : (pc[s] = "stop") ~> (pc[s] = "off")
=============================================================================
