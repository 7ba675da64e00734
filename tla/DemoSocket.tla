------------------------------ MODULE DemoSocket ------------------------------
(*****************************************************************************)
(* The first demo: ipcb, which serves one connection after the other with one *)
(* recv() and one reply each, and ipca, which sends one message and waits for *)
(* one reply, both over the functions of ipc_demo_socket.c.                   *)
(*                                                                           *)
(* A message is its length: what is read of a stream is always a prefix of    *)
(* what was sent, so lengths tell everything about a reply.                   *)
(*                                                                           *)
(* External: signal() restarts accept() after the handler; send() to a closed *)
(* connection kills the process (neither program handles SIGPIPE, and the     *)
(* flags are 0); a message enters the socket in pieces of at most Chunk bytes *)
(* and fits as a whole.                                                      *)
(*****************************************************************************)
EXTENDS Integers, Sequences, FiniteSetsExt

CONSTANTS
    Clients,    \* runs of ipca
    Length,     \* of the message each was given
    MaxText,    \* IPC_DEMO_BUFFER_SIZE without the final 0
    AckLen,     \* length of "ipcb ack: "
    Chunk,      \* of the socket
    None,       \* no client
    MaxStarts   \* bound: how often ipcb is started

ASSUME ClientsAssumption == Length \in [Clients -> Nat] /\ None \notin Clients
ASSUME SizesAssumption ==
    /\ MaxText \in Nat \ {0} /\ AckLen \in 1 .. MaxText /\ Chunk \in Nat /\ MaxText =< Chunk
    /\ MaxStarts \in Nat

VARIABLES
    starts,     \* how often ipcb has been started
    running,    \* g_running of ipcb
    bpc,        \* where ipcb is
    serving,    \* the client behind clientFd
    request,    \* length of the text in request[]
    backlog,    \* connections that wait for accept()
    cpc,        \* where each ipca is
    left,       \* what it has not yet sent
    up, down,   \* bytes in its socket, to ipcb and back
    hung,       \* how ipcb's end of the connection was closed
    got         \* length of the reply; 0 also stands for an error

server == <<starts, running, bpc, serving, request>>
client == <<cpc, left, got>>
wire == <<up, down>>
vars == <<server, backlog, client, wire, hung>>

TypeOK ==
    /\ starts \in 0 .. MaxStarts /\ running \in BOOLEAN
    /\ bpc \in {"off", "top", "accept", "recv", "reply", "close"}
    /\ serving \in Clients \cup {None} /\ request \in 0 .. MaxText
    /\ backlog \in Seq(Clients)
    /\ cpc \in [Clients -> {"off", "send", "recv", "end", "killed"}]
    /\ left \in [Clients -> Nat] /\ up \in [Clients -> Nat]
    /\ down \in [Clients -> 0 .. MaxText] /\ got \in [Clients -> 0 .. MaxText]
    /\ hung \in [Clients -> {"no", "closed", "lost"}]
    /\ serving # None <=> bpc \in {"recv", "reply", "close"}

Init ==
    /\ starts = 0 /\ running = FALSE /\ bpc = "off"
    /\ serving = None /\ request = 0 /\ backlog = <<>>
    /\ cpc = [c \in Clients |-> "off"] /\ left = Length
    /\ up = [c \in Clients |-> 0] /\ down = [c \in Clients |-> 0]
    /\ hung = [c \in Clients |-> "no"] /\ got = [c \in Clients |-> 0]

Gone(c) == cpc[c] \in {"end", "killed"}

-----------------------------------------------------------------------------
(* ipcb                                                                      *)

\* IpcDemoCreateServerSocket; a socket file left behind is removed first.
Start ==
    /\ bpc = "off" /\ starts < MaxStarts
    /\ starts' = starts + 1 /\ running' = TRUE /\ bpc' = "top"
    /\ UNCHANGED <<serving, request, backlog, client, wire, hung>>

\* StopServer, the handler of SIGINT and SIGTERM; accept() goes on.
StopServer ==
    /\ bpc # "off" /\ running
    /\ running' = FALSE
    /\ UNCHANGED <<starts, bpc, serving, request, backlog, client, wire, hung>>

\* The process ends, whatever it was doing; its connections with it.
ProcessEnds ==
    /\ bpc' = "off" /\ running' = FALSE /\ serving' = None /\ request' = 0 /\ backlog' = <<>>
    /\ hung' = [c \in Clients |->
                  IF c = serving \/ \E i \in DOMAIN backlog : backlog[i] = c THEN "lost" ELSE hung[c]]
    /\ UNCHANGED <<starts, client, wire>>

Kill == bpc # "off" /\ ProcessEnds

\* while (g_running)
Top ==
    /\ bpc = "top"
    /\ IF ~running THEN ProcessEnds
       ELSE /\ bpc' = "accept"
            /\ UNCHANGED <<starts, running, serving, request, backlog, client, wire, hung>>

Accept ==
    /\ bpc = "accept" /\ backlog # <<>>
    /\ serving' = Head(backlog) /\ backlog' = Tail(backlog)
    /\ bpc' = "recv"
    /\ UNCHANGED <<starts, running, request, client, wire, hung>>

\* Mutant: recv() is called until the buffer is full.
RecvFull ==
    /\ bpc = "recv"
    /\ \/ /\ up[serving] >= MaxText
          /\ request' = MaxText
          /\ up' = [up EXCEPT ![serving] = @ - MaxText]
          /\ bpc' = "reply"
       \/ /\ up[serving] < MaxText /\ Gone(serving)
          /\ bpc' = "close" /\ UNCHANGED <<request, up>>
    /\ UNCHANGED <<starts, running, serving, backlog, client, down, hung>>

\* IpcDemoReceiveString: one recv(), of what has arrived and fits.
Recv ==
    /\ bpc = "recv"
    /\ \/ /\ up[serving] > 0
          /\ request' = Min({up[serving], MaxText})
          /\ up' = [up EXCEPT ![serving] = @ - request']
          /\ bpc' = "reply"
       \/ /\ up[serving] = 0 /\ Gone(serving)
          /\ bpc' = "close" /\ UNCHANGED <<request, up>>
    /\ UNCHANGED <<starts, running, serving, backlog, client, down, hung>>

\* Mutant: an acknowledgement that does not fit is not sent.
ReplyOnlyWhole ==
    /\ bpc = "reply" /\ ~Gone(serving)
    /\ down' = [down EXCEPT ![serving] = IF AckLen + request =< MaxText THEN AckLen + request ELSE 0]
    /\ bpc' = "close" /\ request' = 0
    /\ UNCHANGED <<starts, running, serving, backlog, client, up, hung>>

\* Mutant: snprintf's result is taken for the length that was written.
ReplyUncut ==
    /\ bpc = "reply" /\ ~Gone(serving)
    /\ down' = [down EXCEPT ![serving] = AckLen + request]
    /\ bpc' = "close" /\ request' = 0
    /\ UNCHANGED <<starts, running, serving, backlog, client, up, hung>>

\* "ipcb ack: " and the text, cut to the buffer.
Reply ==
    /\ bpc = "reply" /\ ~Gone(serving)
    /\ down' = [down EXCEPT ![serving] = Min({AckLen + request, MaxText})]
    /\ bpc' = "close" /\ request' = 0
    /\ UNCHANGED <<starts, running, serving, backlog, client, up, hung>>

\* The client is gone: SIGPIPE ends ipcb.
ReplyToNobody == bpc = "reply" /\ Gone(serving) /\ ProcessEnds

\* IpcDemoCloseFd
Close ==
    /\ bpc = "close"
    /\ hung' = [hung EXCEPT ![serving] = "closed"]
    /\ serving' = None /\ bpc' = "top"
    /\ UNCHANGED <<starts, running, request, backlog, client, wire>>

ServerStep == Top \/ Accept \/ Recv \/ Reply \/ ReplyToNobody \/ Close

-----------------------------------------------------------------------------
(* ipca                                                                      *)

Goto(c, l) == cpc' = [cpc EXCEPT ![c] = l]

\* IpcDemoConnectToServer
Connect(c) ==
    /\ cpc[c] = "off" /\ bpc # "off"
    /\ Goto(c, "send") /\ backlog' = Append(backlog, c)
    /\ UNCHANGED <<server, left, got, wire, hung>>

\* IpcDemoSendString: an empty message sends nothing at all.
Send(c) ==
    /\ cpc[c] = "send" /\ left[c] > 0 /\ hung[c] = "no"
    /\ LET n == Min({left[c], Chunk}) IN
         up' = [up EXCEPT ![c] = @ + n] /\ left' = [left EXCEPT ![c] = @ - n]
    /\ UNCHANGED <<server, backlog, cpc, got, down, hung>>

Sent(c) ==
    /\ cpc[c] = "send" /\ left[c] = 0
    /\ Goto(c, "recv")
    /\ UNCHANGED <<server, backlog, left, got, wire, hung>>

\* SIGPIPE ends ipca.
SendToNobody(c) ==
    /\ cpc[c] = "send" /\ left[c] > 0 /\ hung[c] # "no"
    /\ Goto(c, "end")
    /\ UNCHANGED <<server, backlog, left, got, wire, hung>>

\* IpcDemoReceiveString: the reply, or an error at the end of the stream.
Receive(c) ==
    /\ cpc[c] = "recv" /\ (down[c] > 0 \/ hung[c] # "no")
    /\ got' = [got EXCEPT ![c] = down[c]]
    /\ Goto(c, "end")
    /\ UNCHANGED <<server, backlog, left, wire, hung>>

ClientStep(c) == Send(c) \/ Sent(c) \/ SendToNobody(c) \/ Receive(c)

\* Ctrl+C
Interrupt(c) ==
    /\ cpc[c] \in {"send", "recv"}
    /\ Goto(c, "killed")
    /\ UNCHANGED <<server, backlog, left, got, wire, hung>>

Next ==
    \/ Start \/ StopServer \/ Kill \/ ServerStep
    \/ \E c \in Clients : Connect(c) \/ ClientStep(c) \/ Interrupt(c)

Spec == Init /\ [][Next]_vars

\* Both programs go on while they can; nobody need start, stop or kill them.
FairSpec == Spec /\ WF_vars(ServerStep) /\ \A c \in Clients : WF_vars(ClientStep(c))

-----------------------------------------------------------------------------
(* Properties                                                                *)

\* A message that enters the socket in one piece gets its acknowledgement, with
\* as much of it as the buffers hold, whoever else connects, dies or is killed:
\* unless ipcb itself ends, ipca does not come away with an error.
Answered ==
    \A c \in Clients :
        cpc[c] = "end" /\ hung[c] # "lost" /\ Length[c] =< Chunk =>
            got[c] = Min({AckLen + Min({Length[c], MaxText}), MaxText})

\* Every ipca that has connected comes to an end, unless ipcb waits for a message
\* that is empty and never comes.
ClientEnds ==
    \A c \in Clients :
        (cpc[c] \in {"send", "recv"}) ~>
            (Gone(c) \/ (bpc = "recv" /\ Length[serving] = 0))
=============================================================================
