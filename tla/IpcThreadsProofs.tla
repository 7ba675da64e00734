---------------------------- MODULE IpcThreadsProofs ----------------------------
(* Proofs about the threads around an IpcContext: IpcServer, for any set of   *)
(* clients and any bound, and IpcClient, for any number of descriptors.      *)
EXTENDS IpcServer, TLAPS

CONSTANTS MaxAttempts, MaxFd    \* of IpcClient
VARIABLES reconnectCount, pc, wfd    \* of IpcClient, beside those of the same name here

Client == INSTANCE IpcClient

-----------------------------------------------------------------------------
(* Types                                                                     *)

\* What accept() hands out and what the receive thread reads has its type.
LEMMA QueueTypes ==
  ASSUME NEW S, NEW s \in Seq(S)
  PROVE  /\ s # <<>> => Head(s) \in S /\ Tail(s) \in Seq(S)
         /\ \A e \in S : Append(s, e) \in Seq(S)
         /\ \A t \in Seq(S) : s \o t \in Seq(S)
OBVIOUS

\* The section that ends a connection keeps the types of what it changes.
LEMMA DropConnTypes ==
  ASSUME TypeOK, DropConn
  PROVE  /\ running' = running /\ state' = FALSE /\ connFd' = NoFd /\ lock = "free"
         /\ sock' \in [Fds -> Clients \cup {None}] /\ badClose' \in BOOLEAN
BY DEF TypeOK, DropConn, CloseConn, fdVars, Fds, NoFd

\* recv() takes one of the pieces of its queue.
LEMMA RecvTypes ==
  ASSUME TypeOK, Recv
  PROVE  /\ asleepOn \in Clients /\ asleepOn' = None
         /\ Head(inq[asleepOn]) \in {"H", "P", "N"}
         /\ inq' \in [Clients -> Seq({"H", "P", "N"})]
<1>1. asleepOn \in Clients
  BY DEF TypeOK, Recv
<1>2. inq[asleepOn] \in Seq({"H", "P", "N"}) /\ inq[asleepOn] # <<>>
  BY <1>1 DEF TypeOK, Recv
<1>3. Head(inq[asleepOn]) \in {"H", "P", "N"} /\ Tail(inq[asleepOn]) \in Seq({"H", "P", "N"})
  BY <1>2, QueueTypes
<1> QED
  BY <1>1, <1>3 DEF TypeOK, Recv

\* The type invariant in three parts: state with the descriptor it implies, who sends,
\* the rest.
StateTypes == state \in BOOLEAN /\ connFd \in Fds \cup {NoFd} /\ (state => connFd # NoFd)
SendTypes ==
  /\ sending \subseteq Threads /\ lock \in Threads \cup {"free"}
  /\ lock # "free" => lock \in sending /\ connFd # NoFd
  /\ "main" \in sending => mpc \in {"loop", "disconnect"}
  /\ "recv" \in sending => rpc = "top"
  /\ "hb" \in sending => hpc = "sleep"
OtherTypes ==
  /\ running \in BOOLEAN
  /\ sock \in [Fds -> Clients \cup {None}] /\ badClose \in BOOLEAN
  /\ listening \in BOOLEAN /\ backlog \in Seq(Clients)
  /\ client \in [Clients -> {"none", "open", "hung", "shut"}]
  /\ inq \in [Clients -> Seq({"H", "P", "N"})]
  /\ mpc \in {"loop", "install", "resp", "bye",
              "disconnect", "join_recv", "join_hb", "cleanup", "gone"}
  /\ newFd \in Fds \cup {NoFd}
  /\ rpc \in {"top", "call", "enter", "asleep", "handle", "disconnect", "end"}
  /\ rfd \in Fds \cup {NoFd} /\ asleepOn \in Clients \cup {None}
  /\ head \in Clients \cup {None} /\ hand \in {"none", "MSG", "DISC"}
  /\ mpc = "install" <=> newFd # NoFd
  /\ rpc = "asleep" <=> asleepOn # None
  /\ rpc = "handle" <=> hand # "none"
  /\ rpc \in {"top", "handle", "end"} => head = None
  /\ hpc \in {"sleep", "expired", "end"}

LEMMA TypeParts ==
  /\ TypeOK <=> StateTypes /\ SendTypes /\ OtherTypes
  /\ TypeOK' <=> StateTypes' /\ SendTypes' /\ OtherTypes'
BY Zenon DEF TypeOK, StateTypes, SendTypes, OtherTypes

\* recv() is entered with a descriptor.
Entered == rpc = "enter" => rfd \in Fds

LEMMA TypesEntered == Spec => [](TypeOK /\ Entered)
<1>1. Init => TypeOK /\ Entered
  <2> SUFFICES ASSUME Init PROVE TypeOK /\ Entered
    OBVIOUS
  <2>1. StateTypes /\ SendTypes
    BY DEF Init, StateTypes, SendTypes
  <2>2. OtherTypes /\ Entered
    BY DEF Init, OtherTypes, Entered, Fds, NoFd
  <2> QED
    BY <2>1, <2>2, TypeParts
<1>2. TypeOK /\ Entered /\ [Next]_vars => TypeOK'
  <2> SUFFICES ASSUME TypeOK, Entered, [Next]_vars PROVE TypeOK'
    OBVIOUS
  <2>1. CASE MainAccept /\ "main" \notin sending
    <3>1. Head(backlog) \in Clients /\ Tail(backlog) \in Seq(Clients)
      BY <2>1, QueueTypes DEF MainAccept, TypeOK
    <3>2. \E n \in Fds : newFd' = n /\ sock' = [sock EXCEPT ![n] = Head(backlog)]
      BY <2>1 DEF MainAccept
    <3>3. newFd' \in Fds /\ newFd' # NoFd /\ sock' \in [Fds -> Clients \cup {None}]
      BY <3>1, <3>2 DEF TypeOK, Fds, NoFd
    <3> QED
      BY <2>1, <3>1, <3>3 DEF MainAccept, TypeOK, ctxVars, recvVars, sendVars
  <2>2. CASE MainInstall
    <3>1. sock' \in [Fds -> Clients \cup {None}] /\ badClose' \in BOOLEAN
      BY <2>2 DEF MainInstall, CloseConn, TypeOK, fdVars, Fds, NoFd
    <3>2. connFd' \in Fds /\ connFd' # NoFd
      BY <2>2 DEF MainInstall, TypeOK, Fds, NoFd
    <3> QED
      BY <2>2, <3>1, <3>2 DEF MainInstall, TypeOK, recvVars, sockVars, sendVars
  <2>3. CASE MainShutdown /\ "main" \notin sending
    <3>1. /\ running' = FALSE /\ mpc = "loop" /\ mpc' = "bye"
          /\ UNCHANGED <<state, connFd, sock, badClose, listening, newFd, hpc, sending, lock>>
          /\ UNCHANGED <<rpc, rfd, asleepOn, head, hand, backlog, client, inq>>
      BY <2>3 DEF MainShutdown, fdVars, recvVars, sockVars, sendVars
    <3>2. StateTypes' /\ SendTypes'
      BY <2>3, <3>1, TypeParts DEF StateTypes, SendTypes
    <3>3. OtherTypes'
      BY <3>1, TypeParts DEF OtherTypes
    <3> QED
      BY <3>2, <3>3, TypeParts
  <2>4. CASE MainDisconnect /\ "main" \notin sending
    <3>1. /\ running' = running /\ state' = FALSE /\ connFd' = NoFd /\ lock = "free"
          /\ sock' \in [Fds -> Clients \cup {None}] /\ badClose' \in BOOLEAN
      BY <2>4, DropConnTypes DEF MainDisconnect
    <3>2. /\ mpc = "disconnect" /\ mpc' = "join_recv" /\ UNCHANGED <<listening, newFd, hpc>>
          /\ UNCHANGED <<rpc, rfd, asleepOn, head, hand, backlog, client, inq, sending, lock>>
      BY <2>4 DEF MainDisconnect, recvVars, sockVars, sendVars
    <3>3. StateTypes' /\ SendTypes'
      BY <2>4, <3>1, <3>2, TypeParts DEF StateTypes, SendTypes
    <3>4. OtherTypes'
      BY <3>1, <3>2, TypeParts DEF OtherTypes
    <3> QED
      BY <3>3, <3>4, TypeParts
  <2>5. CASE MainJoin
    BY <2>5 DEF MainJoin, TypeOK, ctxVars, fdVars, recvVars, sockVars, sendVars
  <2>6. CASE MainCleanup
    <3>1. backlog' \in Seq(Clients)
      BY <2>6 DEF MainCleanup
    <3>2. /\ listening' = FALSE /\ mpc = "cleanup" /\ mpc' = "gone" /\ UNCHANGED <<newFd, hpc>>
          /\ UNCHANGED <<running, state, connFd, sock, badClose, sending, lock>>
          /\ UNCHANGED <<rpc, rfd, asleepOn, head, hand, client, inq>>
      BY <2>6 DEF MainCleanup, ctxVars, fdVars, recvVars, sendVars
    <3>3. StateTypes' /\ SendTypes'
      BY <3>2, TypeParts DEF StateTypes, SendTypes
    <3>4. OtherTypes'
      BY <3>1, <3>2, TypeParts DEF OtherTypes
    <3> QED
      BY <3>3, <3>4, TypeParts
  <2>7. CASE RecvTop /\ "recv" \notin sending
    BY <2>7 DEF RecvTop, TypeOK, ctxVars, fdVars, mainVars, sockVars, sendVars
  <2>8. CASE RecvCall
    BY <2>8 DEF RecvCall, TypeOK, ctxVars, fdVars, mainVars, sockVars, sendVars
  <2>9. CASE RecvEnter
    <3>1. sock[rfd] \in Clients \cup {None}
      BY <2>9 DEF TypeOK, Entered, RecvEnter
    <3> QED
      BY <2>9, <3>1 DEF RecvEnter, TypeOK, ctxVars, fdVars, mainVars, sockVars, sendVars
  <2>10. CASE RecvHeader
    <3>1. inq' \in [Clients -> Seq({"H", "P", "N"})]
      BY <2>10, RecvTypes DEF RecvHeader
    <3>2. head' \in Clients \cup {None}
      BY <2>10 DEF RecvHeader, Recv, TypeOK
    <3>3. /\ rpc' \in {"call", "handle", "disconnect"} /\ hand' \in {"none", "MSG", "DISC"}
          /\ rpc' = "handle" <=> hand' # "none"
          /\ rpc' = "handle" => head' = None
      BY <2>10, RecvTypes DEF RecvHeader
    <3>4. /\ rpc = "asleep" /\ asleepOn' = None /\ UNCHANGED <<ctxVars, fdVars, mainVars>>
          /\ UNCHANGED <<rfd, backlog, client, hpc, sendVars>>
      BY <2>10 DEF RecvHeader, Recv
    <3> QED
      BY <3>1, <3>2, <3>3, <3>4 DEF TypeOK, ctxVars, fdVars, mainVars, sendVars
  <2>11. CASE RecvPayload
    <3>1. inq' \in [Clients -> Seq({"H", "P", "N"})]
      BY <2>11, RecvTypes DEF RecvPayload
    <3>2. PICK equal \in BOOLEAN : /\ rpc' = IF equal THEN "handle" ELSE "top"
                                   /\ hand' = IF equal THEN "MSG" ELSE "none"
      BY <2>11 DEF RecvPayload, ChecksumOK
    <3>3. /\ rpc' \in {"top", "handle"} /\ hand' \in {"none", "MSG"}
          /\ rpc' = "handle" <=> hand' # "none"
      BY <3>2
    <3>4. /\ rpc = "asleep" /\ asleepOn' = None /\ UNCHANGED <<ctxVars, fdVars, mainVars>>
          /\ UNCHANGED <<rfd, backlog, client, hpc, sendVars>> /\ head' = None
      BY <2>11 DEF RecvPayload, Recv
    <3> QED
      BY <3>1, <3>3, <3>4 DEF TypeOK, ctxVars, fdVars, mainVars, sendVars
  <2>12. CASE RecvEof
    BY <2>12 DEF RecvEof, TypeOK, ctxVars, fdVars, mainVars, sockVars, sendVars
  <2>13. CASE RecvHandle
    <3>1. /\ rpc = "handle" /\ rpc' = "top" /\ hand' = "none" /\ state' = (state /\ hand # "DISC")
          /\ UNCHANGED <<running, connFd, sock, badClose, listening, mpc, newFd, hpc, lock>>
          /\ UNCHANGED <<rfd, asleepOn, head, backlog, client, inq>>
          /\ sending' = sending \/ sending' = sending \cup {"recv"}
      BY <2>13 DEF RecvHandle, Sends, fdVars, mainVars, sockVars, sendVars
    <3>2. StateTypes' /\ SendTypes'
      BY <3>1, TypeParts DEF StateTypes, SendTypes, Threads
    <3>3. OtherTypes'
      BY <3>1, TypeParts DEF OtherTypes
    <3> QED
      BY <3>2, <3>3, TypeParts
  <2>14. CASE RecvDisconnect
    <3>1. /\ running' = running /\ state' = FALSE /\ connFd' = NoFd /\ lock = "free"
          /\ sock' \in [Fds -> Clients \cup {None}] /\ badClose' \in BOOLEAN
      BY <2>14, DropConnTypes DEF RecvDisconnect
    <3>2. /\ rpc = "disconnect" /\ rpc' = "top" /\ head' = None
          /\ UNCHANGED <<listening, mpc, newFd, hpc>>
          /\ UNCHANGED <<rfd, asleepOn, hand, backlog, client, inq, sending, lock>>
      BY <2>14 DEF RecvDisconnect, mainVars, sockVars, sendVars
    <3>3. StateTypes' /\ SendTypes'
      BY <3>1, <3>2, TypeParts DEF StateTypes, SendTypes
    <3>4. OtherTypes'
      BY <3>1, <3>2, TypeParts DEF OtherTypes
    <3> QED
      BY <3>3, <3>4, TypeParts
  <2>15. CASE HeartbeatWake /\ "hb" \notin sending
    <3>1. /\ hpc = "sleep" /\ UNCHANGED <<ctxVars, fdVars, mainVars, recvVars, sockVars>>
          /\ \/ hpc' \in {"end", "expired"} /\ UNCHANGED sendVars
             \/ Sends("hb") /\ UNCHANGED hpc
      BY <2>15 DEF HeartbeatWake
    <3>2. lock' = lock /\ sending' \in {sending, sending \cup {"hb"}}
      BY <3>1 DEF Sends, sendVars
    <3>3. hpc' \in {"sleep", "expired", "end"} /\ (hpc' # "sleep" => sending' = sending)
      BY <3>1 DEF sendVars
    <3>4. SendTypes'
      BY <2>15, <3>1, <3>2, <3>3, TypeParts
         DEF SendTypes, Threads, ctxVars, mainVars, recvVars
    <3>5. StateTypes' /\ OtherTypes'
      BY <3>1, <3>3, TypeParts
         DEF StateTypes, OtherTypes, ctxVars, fdVars, mainVars, recvVars, sockVars
    <3> QED
      BY <3>4, <3>5, TypeParts
  <2>16. CASE HeartbeatDrop /\ "hb" \notin sending
    <3>1. DropConn
      BY <2>16 DEF HeartbeatDrop
    <3>2. /\ running' \in BOOLEAN /\ state' \in BOOLEAN /\ ~state' /\ connFd' = NoFd
          /\ lock = "free" /\ sock' \in [Fds -> Clients \cup {None}] /\ badClose' \in BOOLEAN
      BY <3>1, DropConnTypes DEF TypeOK
    <3>3. hpc' = "sleep" /\ UNCHANGED <<mainVars, recvVars, sockVars, sendVars>>
      BY <2>16 DEF HeartbeatDrop
    <3> QED
      BY <3>2, <3>3 DEF TypeOK, mainVars, recvVars, sockVars, sendVars
  <2>17. ASSUME NEW c \in Clients, ClientConnect(c) PROVE TypeOK'
    <3>1. backlog' \in Seq(Clients)
      BY <2>17, QueueTypes DEF ClientConnect, TypeOK
    <3> QED
      BY <2>17, <3>1 DEF ClientConnect, TypeOK, ctxVars, fdVars, mainVars, recvVars, sendVars
  <2>18. ASSUME NEW c \in Clients, ClientSend(c) PROVE TypeOK'
    <3>1. PICK frame \in {<<"H", "P">>, <<"N">>} : inq' = [inq EXCEPT ![c] = @ \o frame]
      BY <2>18 DEF ClientSend
    <3>2. frame \in Seq({"H", "P", "N"}) /\ inq[c] \in Seq({"H", "P", "N"})
      <4>1. <<"H", "P">> \in Seq({"H", "P", "N"}) /\ <<"N">> \in Seq({"H", "P", "N"})
        OBVIOUS
      <4> QED
        BY <3>1, <4>1 DEF TypeOK
    <3>3. inq[c] \o frame \in Seq({"H", "P", "N"})
      BY <3>2
    <3>4. inq' \in [Clients -> Seq({"H", "P", "N"})]
      BY <3>1, <3>3 DEF TypeOK
    <3> QED
      BY <2>18, <3>4 DEF ClientSend, TypeOK, ctxVars, fdVars, mainVars, recvVars, sendVars
  <2>19. ASSUME NEW c \in Clients, ClientHang(c) \/ ClientClose(c) PROVE TypeOK'
    <3>1. /\ UNCHANGED <<ctxVars, fdVars, mainVars, recvVars, backlog, inq, hpc, sendVars>>
          /\ \E l \in {"hung", "shut"} : client' = [client EXCEPT ![c] = l]
      BY <2>19 DEF ClientHang, ClientClose
    <3>2. StateTypes' /\ SendTypes'
      BY <3>1, TypeParts DEF StateTypes, SendTypes, ctxVars, mainVars, recvVars, sendVars
    <3>3. OtherTypes'
      BY <3>1, TypeParts DEF OtherTypes, ctxVars, fdVars, mainVars, recvVars
    <3> QED
      BY <3>2, <3>3, TypeParts
  <2>20. CASE (MainRespond \/ MainBye \/ MainTalk) /\ "main" \notin sending
    <3>1. /\ UNCHANGED <<ctxVars, fdVars, listening, newFd, recvVars, sockVars, hpc, lock>>
          /\ sending' \in {sending, sending \cup {"main"}}
          /\ mpc # "install" /\ mpc' \in {"loop", "disconnect"}
      BY <2>20 DEF MainRespond, MainBye, MainTalk, Sends, mainVars
    <3>2. SendTypes'
      BY <3>1, TypeParts DEF SendTypes, Threads, ctxVars, recvVars
    <3>3. StateTypes' /\ OtherTypes'
      BY <3>1, TypeParts DEF StateTypes, OtherTypes, ctxVars, fdVars, recvVars, sockVars
    <3> QED
      BY <3>2, <3>3, TypeParts
  <2>21. ASSUME NEW t \in Threads, SendStep(t) PROVE TypeOK'
    <3>1. /\ UNCHANGED <<ctxVars, fdVars, mainVars, recvVars, sockVars, hpc>>
          /\ \/ lock = "free" /\ sending' = sending \ {t} /\ lock' = lock
             \/ t \in sending /\ Hung /\ sending' = sending /\ lock' = t
             \/ sending' = sending \ {t} /\ lock' = "free"
      BY <2>21 DEF SendStep, Send, SendBlocks, SendFails
    <3>2. SendTypes'
      BY <3>1, TypeParts DEF SendTypes, Hung, ctxVars, mainVars, recvVars
    <3>3. StateTypes' /\ OtherTypes'
      BY <3>1, TypeParts
         DEF StateTypes, OtherTypes, ctxVars, fdVars, mainVars, recvVars, sockVars
    <3> QED
      BY <3>2, <3>3, TypeParts
  <2>22. CASE UNCHANGED vars
    BY <2>22 DEF vars, TypeOK, ctxVars, fdVars, mainVars, recvVars, sockVars, sendVars
  <2> QED
    BY <2>1, <2>2, <2>3, <2>4, <2>5, <2>6, <2>7, <2>8, <2>9, <2>10, <2>11, <2>12, <2>13,
       <2>14, <2>15, <2>16, <2>17, <2>18, <2>19, <2>20, <2>21, <2>22
       DEF Next, MainStep, RecvStep, HeartbeatStep
<1>3. TypeOK /\ Entered /\ [Next]_vars => Entered'
  <2> SUFFICES ASSUME TypeOK, Entered, [Next]_vars PROVE Entered'
    OBVIOUS
  <2>1. CASE RecvStep
    BY <2>1 DEF RecvStep, RecvTop, RecvCall, RecvEnter, RecvHeader, RecvPayload, Recv, RecvEof,
                RecvHandle, RecvDisconnect, TypeOK, Entered
  <2>2. CASE UNCHANGED recvVars
    BY <2>2 DEF recvVars, Entered
  <2> QED
    BY <2>1, <2>2 DEF Next, MainStep, HeartbeatStep, MainAccept, MainInstall, MainRespond,
                      MainTalk, MainShutdown, MainBye, MainDisconnect, MainJoin, MainCleanup,
                      HeartbeatWake, HeartbeatDrop, SendStep, Send, SendBlocks, SendFails,
                      ClientConnect, ClientSend, ClientHang, ClientClose, vars
<1> QED
  BY <1>1, <1>2, <1>3, PTL DEF Spec

\* Every variable keeps its type.
THEOREM ServerTypeCorrect == Spec => []TypeOK
BY TypesEntered, PTL

-----------------------------------------------------------------------------
(* Descriptors                                                               *)

\* A descriptor is open exactly when the context or the IpcAccept under way holds
\* it, the two never hold the same one, and none is left after the IpcDisconnect
\* of IpcDestroy, since nobody accepts any more.
Held ==
  /\ \A n \in Fds : sock[n] # None <=> (connFd = n \/ newFd = n)
  /\ newFd # NoFd => newFd # connFd
  /\ mpc \in {"join_recv", "join_hb", "cleanup", "gone"} => connFd = NoFd
  /\ ~badClose

\* The invariant the theorems below rest on.
FdInv == TypeOK /\ Held

\* Ending a connection closes the descriptor of the context and no other.
LEMMA DropConnHeld ==
  ASSUME FdInv, DropConn
  PROVE  /\ connFd' = NoFd /\ ~badClose'
         /\ \A n \in Fds : sock'[n] # None <=> newFd = n
<1>1. CASE connFd = NoFd
  BY <1>1 DEF FdInv, TypeOK, Held, DropConn, CloseConn, fdVars, Fds, NoFd
<1>2. CASE connFd # NoFd
  <2>1. connFd \in Fds /\ sock[connFd] # None
    BY <1>2 DEF FdInv, TypeOK, Held
  <2>2. sock' = [sock EXCEPT ![connFd] = None] /\ badClose' = (badClose \/ sock[connFd] = None)
    BY <1>2 DEF DropConn, CloseConn
  <2>3. ~badClose'
    BY <2>1, <2>2 DEF FdInv, Held
  <2>4. \A n \in Fds : sock'[n] # None <=> newFd = n
    BY <2>1, <2>2 DEF FdInv, TypeOK, Held, NoFd, Fds
  <2> QED
    BY <2>3, <2>4 DEF DropConn
<1> QED
  BY <1>1, <1>2

\* The invariant holds at first and every step keeps it.
LEMMA FdInvariant == Spec => []FdInv
<1>1. Init => Held
  BY DEF Init, Held, Fds, NoFd
<1>2. FdInv /\ TypeOK' /\ [Next]_vars => Held'
  <2> SUFFICES ASSUME FdInv, TypeOK', [Next]_vars PROVE Held'
    OBVIOUS
  <2>1. CASE MainAccept
    <3>1. newFd = NoFd /\ mpc = "loop" /\ backlog # <<>> /\ UNCHANGED <<connFd, badClose>>
      BY <2>1 DEF MainAccept, FdInv, TypeOK, ctxVars
    <3>2. Head(backlog) \in Clients
      BY <3>1, QueueTypes DEF FdInv, TypeOK
    <3>3. PICK n \in Fds : /\ sock[n] = None /\ newFd' = n
                           /\ sock' = [sock EXCEPT ![n] = Head(backlog)]
      BY <2>1 DEF MainAccept
    <3>4. n # connFd /\ Head(backlog) # None
      BY <3>2, <3>3, NoneAssumption DEF FdInv, Held
    <3>5. \A m \in Fds : sock'[m] # None <=> (connFd' = m \/ newFd' = m)
      BY <3>1, <3>3, <3>4 DEF FdInv, TypeOK, Held, NoFd, Fds
    <3> QED
      BY <2>1, <3>1, <3>3, <3>4, <3>5 DEF MainAccept, FdInv, Held
  <2>2. CASE MainInstall
    <3>1. newFd \in Fds /\ newFd # connFd /\ newFd # NoFd /\ connFd' = newFd /\ newFd' = NoFd
      BY <2>2 DEF MainInstall, FdInv, TypeOK, Held
    <3>2. ~badClose' /\ \A n \in Fds : sock'[n] # None <=> newFd = n
      <4>1. CASE connFd = NoFd
        BY <2>2, <4>1 DEF MainInstall, CloseConn, fdVars, FdInv, Held, Fds, NoFd
      <4>2. CASE connFd # NoFd
        <5>1. connFd \in Fds /\ sock[connFd] # None
          BY <4>2 DEF FdInv, TypeOK, Held
        <5>2. /\ sock' = [sock EXCEPT ![connFd] = None]
              /\ badClose' = (badClose \/ sock[connFd] = None)
          BY <2>2, <4>2 DEF MainInstall, CloseConn
        <5> QED
          BY <3>1, <5>1, <5>2 DEF FdInv, TypeOK, Held
      <4> QED
        BY <4>1, <4>2
    <3> QED
      BY <2>2, <3>1, <3>2 DEF MainInstall, Held, NoFd, Fds
  <2>3. CASE MainDisconnect
    <3>1. newFd' = newFd /\ newFd = NoFd
      BY <2>3 DEF MainDisconnect, FdInv, TypeOK
    <3> QED
      BY <2>3, <3>1, DropConnHeld DEF MainDisconnect, Held, NoFd, Fds
  <2>4. CASE RecvDisconnect \/ HeartbeatDrop
    <3>1. DropConn /\ UNCHANGED mainVars
      BY <2>4 DEF RecvDisconnect, HeartbeatDrop
    <3> QED
      BY <3>1, DropConnHeld DEF mainVars, Held, NoFd, Fds
  <2>5. CASE MainShutdown \/ MainRespond \/ MainBye
    BY <2>5 DEF MainShutdown, MainRespond, MainBye, fdVars, ctxVars, FdInv, Held
  <2>6. CASE MainJoin \/ MainCleanup
    BY <2>6 DEF MainJoin, MainCleanup, ctxVars, fdVars, FdInv, Held
  <2>7. CASE UNCHANGED <<connFd, fdVars, mainVars>>
    BY <2>7 DEF fdVars, mainVars, FdInv, Held
  <2>8. CASE UNCHANGED <<connFd, fdVars, mpc, newFd>>
    BY <2>8 DEF fdVars, FdInv, Held
  <2> QED
    BY <2>1, <2>2, <2>3, <2>4, <2>5, <2>6, <2>7, <2>8
       DEF Next, MainStep, RecvStep, HeartbeatStep, RecvTop, RecvCall, RecvEnter, RecvHeader,
           RecvPayload, Recv, RecvEof, RecvHandle, HeartbeatWake, MainTalk, SendStep, Send,
           SendBlocks, SendFails, ClientConnect, ClientSend, ClientHang, ClientClose, vars,
           ctxVars
<1> QED
  BY <1>1, <1>2, ServerTypeCorrect, PTL DEF Spec, FdInv

\* Only an open descriptor is ever closed, whatever IpcAccept, the receive
\* thread, the heartbeat and IpcDestroy do in whatever order.
THEOREM ServerClosedOnce == Spec => []ClosedOnce
<1>1. FdInv => ClosedOnce
  BY DEF FdInv, Held, ClosedOnce
<1> QED
  BY <1>1, FdInvariant, PTL

\* No descriptor of a client is forgotten, and none is left when the context is
\* freed.
THEOREM ServerNoFdLeak == Spec => []NoFdLeak
<1>1. FdInv => NoFdLeak
  BY DEF FdInv, TypeOK, Held, NoFdLeak, NoFd, Fds
<1> QED
  BY <1>1, FdInvariant, PTL

-----------------------------------------------------------------------------
(* What IpcDestroy waits for                                                 *)

\* The receive thread, when it is not sending, has a step to take: only recv(), the
\* lock and, while the context runs, the wait for a connection can stop it.
ReceiverGoesOn ==
  \/ rpc = "top" /\ (~running \/ (state /\ connFd # NoFd))
  \/ rpc \in {"call", "enter", "handle"}
  \/ rpc = "disconnect" /\ lock = "free"
  \/ rpc = "asleep" /\ (inq[asleepOn] # <<>> \/ client[asleepOn] = "shut")

\* A thread has a step to take: one that sends needs the lock, or has it and is told
\* that its client is gone.
GoesOn(t) ==
  \/ t \in sending /\ (lock = "free" \/ (lock = t /\ ~Hung))
  \/ /\ t \notin sending
     /\ \/ t = "recv" /\ ReceiverGoesOn
        \/ t = "hb" /\ ((hpc = "sleep" /\ ~running) \/ (hpc = "expired" /\ lock = "free"))
        \/ t = "main" /\ (mpc = "bye" \/ (mpc = "disconnect" /\ lock = "free"))

\* IpcDestroy waits for this thread, of which main is one.
AwaitedBy(t) ==
  \/ t = "main" /\ mpc \in {"bye", "disconnect"}
  \/ t = "recv" /\ mpc = "join_recv" /\ rpc # "end"
  \/ t = "hb" /\ mpc = "join_hb" /\ hpc # "end"

\* The thread that IpcDestroy waits for can go on, or the one can that has the lock it
\* wants, or a client holds one of them; past the joins nobody is left in the context.
OnlyClientHolds ==
  /\ \A t \in Threads :
       AwaitedBy(t) => GoesOn(t) \/ (lock # "free" /\ GoesOn(lock)) \/ WriterHeld \/ ReaderHeld
  /\ mpc \in {"cleanup", "gone"} => rpc = "end" /\ hpc = "end" /\ sending = {} /\ lock = "free"

\* The sockets of the process and the one in recv() are those of clients that have
\* connected.
Connected ==
  /\ \A i \in DOMAIN backlog : client[backlog[i]] # "none"
  /\ \A n \in Fds : sock[n] # None => client[sock[n]] # "none"
  /\ asleepOn # None => client[asleepOn] # "none"

\* The threads IpcDestroy has joined have ended; it cleared running before.
Joined ==
  /\ mpc \notin {"loop", "install", "resp"} => ~running
  /\ mpc \in {"join_hb", "cleanup", "gone"} => rpc = "end"
  /\ mpc \in {"cleanup", "gone"} => hpc = "end"

LEMMA ConnectedStep == TypeOK /\ Entered /\ Connected /\ [Next]_vars => Connected'
<1> SUFFICES ASSUME TypeOK, Entered, Connected, [Next]_vars PROVE Connected'
  OBVIOUS
<1>1. CASE MainAccept
  <2>1. backlog \in Seq(Clients) /\ backlog # <<>> /\ backlog' = Tail(backlog)
        /\ UNCHANGED <<client, asleepOn>>
    BY <1>1 DEF MainAccept, TypeOK, recvVars
  <2>2. PICK n \in Fds : sock' = [sock EXCEPT ![n] = Head(backlog)]
    BY <1>1 DEF MainAccept
  <2>3. client[Head(backlog)] # "none" /\ \A i \in DOMAIN Tail(backlog) : client[Tail(backlog)[i]] # "none"
    BY <2>1 DEF Connected
  <2>4. \A m \in Fds : sock'[m] = sock[m] \/ sock'[m] = Head(backlog)
    BY <2>2 DEF TypeOK
  <2> QED
    BY <2>1, <2>3, <2>4 DEF Connected
<1>2. CASE MainInstall \/ MainDisconnect \/ RecvDisconnect \/ HeartbeatDrop
  <2>1. CloseConn /\ UNCHANGED <<backlog, client, asleepOn>>
    BY <1>2 DEF MainInstall, MainDisconnect, RecvDisconnect, HeartbeatDrop, DropConn, recvVars, sockVars
  <2>2. \A m \in Fds : sock'[m] = sock[m] \/ sock'[m] = None
    BY <2>1 DEF CloseConn, fdVars, TypeOK
  <2> QED
    BY <2>1, <2>2 DEF Connected
<1>3. CASE MainCleanup
  <2>1. DOMAIN backlog' = {} /\ UNCHANGED <<sock, client, asleepOn>>
    BY <1>3 DEF MainCleanup, fdVars, recvVars
  <2> QED
    BY <2>1 DEF Connected
<1>4. CASE RecvEnter
  <2>1. asleepOn' = sock[rfd] /\ UNCHANGED <<backlog, client, sock>> /\ rfd \in Fds
    BY <1>4 DEF RecvEnter, Entered, fdVars, sockVars
  <2> QED
    BY <2>1 DEF Connected
<1>5. CASE RecvHeader \/ RecvPayload \/ RecvEof
  <2>1. asleepOn' = None /\ UNCHANGED <<backlog, client, sock>>
    BY <1>5 DEF RecvHeader, RecvPayload, RecvEof, Recv, fdVars, sockVars
  <2> QED
    BY <2>1 DEF Connected
<1>6. ASSUME NEW c \in Clients, ClientConnect(c) PROVE Connected'
  <2>1. backlog \in Seq(Clients) /\ backlog' = Append(backlog, c)
        /\ client' = [client EXCEPT ![c] = "open"] /\ UNCHANGED <<sock, asleepOn>>
    BY <1>6 DEF ClientConnect, TypeOK, fdVars, recvVars
  <2>2. client'[c] = "open" /\ \A d \in Clients : client[d] # "none" => client'[d] # "none"
    BY <2>1 DEF TypeOK
  <2>3. \A i \in DOMAIN backlog' :
          (i \in DOMAIN backlog /\ backlog'[i] = backlog[i]) \/ backlog'[i] = c
    BY <2>1
  <2>4. \A i \in DOMAIN backlog : backlog[i] \in Clients
    BY <2>1
  <2>5. \A i \in DOMAIN backlog' : client'[backlog'[i]] # "none"
    BY <2>2, <2>3, <2>4 DEF Connected
  <2>6. \A n \in Fds : sock'[n] # None => client'[sock'[n]] # "none"
    BY <2>1, <2>2 DEF Connected, TypeOK
  <2> QED
    BY <2>1, <2>2, <2>5, <2>6 DEF Connected, TypeOK
<1>7. ASSUME NEW c \in Clients, ClientHang(c) \/ ClientClose(c) PROVE Connected'
  <2>1. (client' = [client EXCEPT ![c] = "hung"] \/ client' = [client EXCEPT ![c] = "shut"])
        /\ UNCHANGED <<backlog, sock, asleepOn>>
    BY <1>7 DEF ClientHang, ClientClose, fdVars, recvVars
  <2>2. \A d \in Clients : client[d] # "none" => client'[d] # "none"
    BY <2>1 DEF TypeOK
  <2>3. \A i \in DOMAIN backlog : backlog[i] \in Clients
    BY DEF TypeOK
  <2> QED
    BY <2>1, <2>2, <2>3 DEF Connected, TypeOK
<1>8. CASE UNCHANGED <<backlog, client, sock, asleepOn>>
  BY <1>8 DEF Connected
<1> QED
  BY <1>1, <1>2, <1>3, <1>4, <1>5, <1>6, <1>7, <1>8
     DEF Next, MainStep, RecvStep, HeartbeatStep, MainRespond, MainTalk, MainShutdown, MainBye,
         MainJoin, RecvTop, RecvCall, RecvHandle, HeartbeatWake, SendStep, Send, SendBlocks,
         SendFails, ClientSend, vars, fdVars, recvVars, sockVars

LEMMA JoinedStep == Joined /\ [Next]_vars => Joined'
<1> SUFFICES ASSUME Joined, [Next]_vars PROVE Joined'
  OBVIOUS
<1>1. CASE MainStep \/ MainTalk \/ MainShutdown
  BY <1>1 DEF MainStep, MainTalk, MainShutdown, MainAccept, MainInstall, MainRespond, MainBye,
              MainDisconnect, mainVars, DropConn, MainJoin,
              MainCleanup, Joined, ctxVars, recvVars
<1>2. CASE RecvStep
  <2>1. rpc # "end" /\ UNCHANGED <<running, mpc, hpc>>
    BY <1>2 DEF RecvStep, RecvTop, RecvCall, RecvEnter, RecvHeader, RecvPayload, Recv, RecvEof,
                RecvHandle, RecvDisconnect, DropConn, ctxVars, mainVars
  <2> QED
    BY <2>1 DEF Joined
<1>3. CASE HeartbeatStep
  <2>1. hpc # "end" /\ UNCHANGED <<running, mpc, rpc>>
    BY <1>3 DEF HeartbeatStep, HeartbeatWake, HeartbeatDrop, DropConn, ctxVars, mainVars, recvVars
  <2> QED
    BY <2>1 DEF Joined
<1>4. CASE UNCHANGED <<running, mpc, rpc, hpc>>
  BY <1>4 DEF Joined
<1> QED
  BY <1>1, <1>2, <1>3, <1>4
     DEF Next, SendStep, Send, SendBlocks, SendFails, ClientConnect, ClientSend, ClientHang,
         ClientClose, vars, ctxVars, mainVars, recvVars

\* IpcDestroy never waits for a thread that cannot go on, but for a client: one that does
\* not close holds the receive thread in recv(), one that takes nothing holds a thread
\* in SendAll and with it the lock.  When it frees the context no thread is left in it.
THEOREM ServerOnlyClientHolds == Spec => []OnlyClientHolds
<1>1. Init => Connected /\ Joined
  BY DEF Init, Connected, Joined
<1>2. TypeOK /\ Connected /\ Joined => OnlyClientHolds
  <2> SUFFICES ASSUME TypeOK, Connected, Joined PROVE OnlyClientHolds
    OBVIOUS
  <2>1. ASSUME NEW t \in Threads, AwaitedBy(t), lock # "free"
        PROVE  GoesOn(lock) \/ WriterHeld
    BY <2>1 DEF TypeOK, GoesOn, WriterHeld
  <2>2. ASSUME NEW t \in Threads, AwaitedBy(t), lock = "free", t \notin sending
        PROVE  GoesOn(t) \/ ReaderHeld
    <3>1. ~running
      BY <2>2 DEF AwaitedBy, Joined
    <3>2. CASE t = "recv"
      BY <2>2, <3>1, <3>2
         DEF AwaitedBy, TypeOK, Connected, GoesOn, ReceiverGoesOn, ReaderHeld
    <3>3. CASE t # "recv"
      BY <2>2, <3>1, <3>3 DEF AwaitedBy, TypeOK, GoesOn
    <3> QED
      BY <3>2, <3>3
  <2>3. ASSUME NEW t \in Threads, lock = "free", t \in sending PROVE GoesOn(t)
    BY <2>3 DEF GoesOn
  <2>4. mpc \in {"cleanup", "gone"} => rpc = "end" /\ hpc = "end" /\ sending = {} /\ lock = "free"
    BY DEF TypeOK, Joined, Threads
  <2> QED
    BY <2>1, <2>2, <2>3, <2>4 DEF OnlyClientHolds
<1> QED
  BY <1>1, <1>2, ConnectedStep, JoinedStep, TypesEntered, PTL DEF Spec

-----------------------------------------------------------------------------
(* The threads of the client.  IpcClient has the variables of one context     *)
(* under the same names; nothing here relates the two processes.              *)

\* Where each thread can stand.  None runs before IpcConnect has started both, and
\* none runs on after it was joined.
Moving == Client!InReconnect \cup Client!InSend \cup {"drop", "dropped"}
Places ==
  /\ pc["main"] \in Moving \cup {"start", "loop", "join_recv", "join_hb", "gone"}
  /\ pc["recv"] \in Moving \cup {"top", "recv", "end"}
  /\ pc["hb"] \in Moving \cup {"sleep", "end"}
  /\ pc["main"] = "start" => pc["recv"] = "end" /\ pc["hb"] = "end"
  /\ pc["main"] \in {"join_hb", "gone"} => pc["recv"] = "end"
  /\ pc["main"] = "gone" => pc["hb"] = "end"

\* The type invariant in three parts: the threads with the descriptor RecvAll works
\* on, the lock, and the context with its sockets.
ThreadTypes ==
  /\ pc \in [Client!Threads -> Moving \cup
                {"start", "loop", "join_recv", "join_hb", "gone", "top", "recv", "sleep", "end"}]
  /\ rfd \in Client!Fds \cup {Client!NoFd}
  /\ pc["recv"] = "recv" <=> rfd # Client!NoFd
LockTypes ==
  /\ lock \in Client!Threads \cup {"free"} /\ wfd \in Client!Fds \cup {Client!NoFd}
  /\ \A t \in Client!Threads : pc[t] = "dropped" <=> lock = t /\ wfd = Client!NoFd
  /\ wfd # Client!NoFd => lock # "free" /\ pc[lock] \in Client!InSend
CtxTypes ==
  /\ running \in BOOLEAN /\ listening \in BOOLEAN
  /\ state \in {"IDLE", "CONNECTING", "CONNECTED", "DISCONNECTED", "RECONNECTING", "ERROR"}
  /\ connFd \in Client!Fds \cup {Client!NoFd} /\ reconnectCount \in Nat
  /\ sock \in [Client!Fds -> Client!Sockets]

LEMMA ClientParts ==
  /\ Client!TypeOK <=> ThreadTypes /\ LockTypes /\ CtxTypes
  /\ Client!Threads = {"main", "recv", "hb"} /\ Client!NoFd \notin Client!Fds
  /\ /\ Client!Home["main"] = "loop" /\ Client!Home["recv"] = "top"
     /\ Client!Home["hb"] = "sleep"
<1>1. Client!InReconnect \cup Client!InSend \cup
                  {"start", "loop", "drop", "dropped", "join_recv", "join_hb", "gone",
                   "top", "recv", "sleep", "end"}
      = Moving \cup {"start", "loop", "join_recv", "join_hb", "gone",
                     "top", "recv", "sleep", "end"}
  BY DEF Moving
<1>2. Client!TypeOK <=> ThreadTypes /\ LockTypes /\ CtxTypes
  BY <1>1 DEF Client!TypeOK, ThreadTypes, LockTypes, CtxTypes
<1> QED
  BY <1>2 DEF Client!Threads, Client!NoFd, Client!Fds, Client!Home

\* What a step of thread t does with the lock: nothing, and then t does not have it; t
\* begins to retry or to drop the connection; or t gives the lock back.
LockMove(t) ==
  \/ UNCHANGED <<lock, wfd>> /\ lock # t /\ pc[t] # "dropped" /\ pc'[t] # "dropped"
  \/ lock = "free" /\ lock' = t /\ wfd' \in Client!Fds /\ pc'[t] \in Client!InSend
  \/ lock = "free" /\ lock' = t /\ wfd' = wfd /\ pc'[t] = "dropped"
  \/ lock = t /\ lock' = "free" /\ wfd' = Client!NoFd /\ pc'[t] # "dropped"

LEMMA LockKept ==
  ASSUME ThreadTypes, LockTypes, NEW t \in Client!Threads, LockMove(t),
         NEW l, pc' = [pc EXCEPT ![t] = l]
  PROVE  LockTypes'
<1> USE ClientParts
<1>1. pc'[t] = l /\ \A u \in Client!Threads : u # t => pc'[u] = pc[u]
  BY DEF ThreadTypes
<1>2. "free" \notin Client!Threads /\ "dropped" \notin Client!InSend
  BY DEF Client!InSend
<1>3. CASE UNCHANGED <<lock, wfd>> /\ lock # t /\ pc[t] # "dropped" /\ pc'[t] # "dropped"
  BY <1>1, <1>2, <1>3 DEF LockTypes
<1>4. CASE lock = "free" /\ lock' = t /\ wfd' \in Client!Fds /\ pc'[t] \in Client!InSend
  BY <1>1, <1>2, <1>4 DEF LockTypes
<1>5. CASE lock = "free" /\ lock' = t /\ wfd' = wfd /\ pc'[t] = "dropped"
  BY <1>1, <1>2, <1>5 DEF LockTypes
<1>6. CASE lock = t /\ lock' = "free" /\ wfd' = Client!NoFd /\ pc'[t] # "dropped"
  BY <1>1, <1>2, <1>6 DEF LockTypes
<1> QED
  BY <1>3, <1>4, <1>5, <1>6 DEF LockMove

\* A thread that is neither in SendAll nor in the section that ends a connection
\* does not have the lock.
LEMMA LockOthers ==
  ASSUME LockTypes, NEW t \in Client!Threads, pc[t] \notin Client!InSend \cup {"dropped"}
  PROVE  lock # t
BY DEF LockTypes

\* A frame that is sent leaves the thread at l, in SendAll, or past it at k.
LEMMA SendsMoves ==
  ASSUME ThreadTypes, LockTypes, CtxTypes, NEW t \in Client!Threads,
         pc[t] \notin Client!InSend \cup {"dropped"},
         NEW l \in Client!InSend, NEW k, k # "dropped", Client!Sends(t, l, k)
  PROVE  /\ LockMove(t) /\ sock' \in [Client!Fds -> Client!Sockets]
         /\ \E m \in {l, k} : pc' = [pc EXCEPT ![t] = m]
<1>1. PICK m \in {l, k} : pc' = [pc EXCEPT ![t] = m]
  BY DEF Client!Sends, Client!Goto
<1>2. pc'[t] = m /\ l # "dropped" /\ lock # t
  BY <1>1, LockOthers DEF ThreadTypes, Client!InSend
<1>3. CASE UNCHANGED <<sock, lock, wfd>>
  BY <1>1, <1>2, <1>3 DEF LockMove, CtxTypes
<1>4. CASE Client!Retry(t, l) /\ m = l
  BY <1>1, <1>2, <1>4 DEF Client!Retry, LockMove, CtxTypes, Client!Sockets
<1>5. UNCHANGED <<sock, lock, wfd>> \/ (Client!Retry(t, l) /\ pc' = [pc EXCEPT ![t] = l])
  BY DEF Client!Sends, Client!lockVars, Client!Goto
<1>6. pc' = [pc EXCEPT ![t] = l] => m = l
  BY <1>1 DEF ThreadTypes
<1> QED
  BY <1>1, <1>3, <1>4, <1>5, <1>6

\* What a thread does about its connection leads from one place of the reconnection,
\* of the drop or of a frame to another, or home; main's also from its loop.
LEMMA ThreadMoves ==
  ASSUME ThreadTypes, LockTypes, CtxTypes, NEW t \in Client!Threads, Client!ThreadStep(t)
  PROVE  /\ pc[t] \in Moving \cup (IF t = "main" THEN {"loop"} ELSE {})
         /\ UNCHANGED rfd /\ LockMove(t)
         /\ \E l \in Moving \cup {Client!Home[t]} \cup (IF t = "hb" THEN {"end"} ELSE {})
                       \cup (IF t = "main" THEN {"join_recv"} ELSE {}) :
              pc' = [pc EXCEPT ![t] = l]
<1> USE DEF Client!Goto, Client!InReconnect, Client!InSend, Moving, Client!ctxVars
<1> DEFINE Next0 == {Client!Home[t]} \cup (IF t = "hb" THEN {"end"} ELSE {})
<1>1. Client!NextRound(t) \in Next0 /\ "dropped" \notin Next0
  BY ClientParts DEF Client!NextRound
<1>2. \A l : pc' = [pc EXCEPT ![t] = l] => pc'[t] = l
  BY DEF ThreadTypes
<1>3. "free" # t
  BY ClientParts
<1>4. CASE Client!Drop(t)
  BY <1>2, <1>4 DEF Client!Drop, LockMove
<1>5. CASE Client!Dropped(t)
  <2>1. lock = t /\ wfd = Client!NoFd
    BY <1>5 DEF Client!Dropped, LockTypes
  <2>2. PICK l \in {"begin", "loop", "join_recv"} :
          pc' = [pc EXCEPT ![t] = l] /\ (t # "main" => l = "begin")
    BY <1>5 DEF Client!Dropped
  <2>3. LockMove(t)
    BY <1>2, <1>5, <2>1, <2>2 DEF Client!Dropped, LockMove
  <2> QED
    BY <1>5, <2>2, <2>3, ClientParts DEF Client!Dropped
<1>6. CASE \/ Client!ReconnectBegin(t) \/ Client!ReconnectAttempt(t) \/ Client!ReconnectClear(t)
           \/ Client!ReconnectSocket(t) \/ Client!ReconnectConnect(t)
           \/ Client!ReconnectFailed(t) \/ Client!ReconnectUnset(t)
  <2>1. /\ pc[t] \in {"begin", "attempt", "clear", "socket", "connect", "failed", "unset"}
                       \cup (IF t = "main" THEN {"loop"} ELSE {})
        /\ UNCHANGED <<rfd, lock, wfd>>
        /\ \E l \in Client!InReconnect : pc' = [pc EXCEPT ![t] = l]
    BY <1>6 DEF Client!ReconnectBegin, Client!ReconnectAttempt, Client!ReconnectClear,
       Client!ReconnectSocket, Client!ReconnectConnect, Client!ReconnectFailed,
       Client!ReconnectUnset, Client!lockVars
  <2> QED
    BY <1>2, <2>1, LockOthers DEF LockMove
<1>7. CASE Client!ReconnectGiveUp(t)
  <2>1. /\ pc[t] = "attempt" /\ UNCHANGED <<rfd, lock, wfd>>
        /\ pc' = [pc EXCEPT ![t] = Client!NextRound(t)]
    BY <1>7 DEF Client!ReconnectGiveUp, Client!lockVars
  <2> QED
    BY <1>1, <1>2, <2>1, LockOthers DEF LockMove
<1>8. CASE Client!ReconnectConnected(t)
  <2>1. pc[t] = "connected" /\ UNCHANGED rfd /\ Client!Sends(t, "req", Client!NextRound(t))
    BY <1>8 DEF Client!ReconnectConnected
  <2>2. LockMove(t) /\ \E m \in {"req", Client!NextRound(t)} : pc' = [pc EXCEPT ![t] = m]
    BY <1>1, <2>1, SendsMoves
  <2> QED
    BY <1>1, <2>1, <2>2
<1>9. CASE Client!SendStep(t)
  <2>1. pc[t] \in Client!InSend /\ UNCHANGED rfd
    BY <1>9 DEF Client!SendStep, Client!SendLocked, Client!SendEnds, Client!AfterSend
  <2>2. CASE lock = "free" /\ Client!Retry(t, pc[t]) /\ pc' = pc
    <3>1. pc' = [pc EXCEPT ![t] = pc[t]] /\ pc'[t] = pc[t]
      BY <2>2 DEF ThreadTypes
    <3>2. LockMove(t)
      BY <2>1, <2>2, <3>1 DEF Client!Retry, LockMove, CtxTypes
    <3> QED
      BY <2>1, <3>1, <3>2
  <2>3. CASE /\ Client!AfterSend(t)
             /\ \/ lock = "free" /\ UNCHANGED <<lock, wfd>>
                \/ lock = t /\ lock' = "free" /\ wfd' = Client!NoFd
    <3>1. PICK l \in {"drop"} \cup Next0 : pc' = [pc EXCEPT ![t] = l]
      BY <1>1, <2>3 DEF Client!AfterSend
    <3>2. LockMove(t)
      BY <1>1, <1>2, <1>3, <2>1, <2>3, <3>1 DEF LockMove
    <3> QED
      BY <2>1, <3>1, <3>2
  <2>4. CASE Client!SendLocked(t)
    <3>1. /\ lock = "free"
          /\ \/ Client!AfterSend(t) /\ UNCHANGED <<lock, wfd>>
             \/ Client!Retry(t, pc[t]) /\ UNCHANGED pc
      BY <2>4 DEF Client!SendLocked, Client!lockVars
    <3>2. CASE Client!AfterSend(t) /\ UNCHANGED <<lock, wfd>>
      BY <2>3, <3>1, <3>2
    <3>3. CASE Client!Retry(t, pc[t]) /\ UNCHANGED pc
      BY <2>2, <3>1, <3>3
    <3> QED
      BY <3>1, <3>2, <3>3
  <2>5. CASE Client!SendEnds(t)
    <3>1. lock = t /\ lock' = "free" /\ wfd' = Client!NoFd /\ Client!AfterSend(t)
      BY <2>5 DEF Client!SendEnds
    <3> QED
      BY <2>3, <3>1
  <2> QED
    BY <1>9, <2>4, <2>5 DEF Client!SendStep
<1> QED
  BY <1>4, <1>5, <1>6, <1>7, <1>8, <1>9 DEF Client!ThreadStep, Client!Reconnect

\* Whatever is closed or opened by then, the context keeps its types.
LEMMA ThreadCtx ==
  ASSUME ThreadTypes, LockTypes, CtxTypes, NEW t \in Client!Threads, Client!ThreadStep(t)
  PROVE  CtxTypes'
<1> USE DEF Client!ctxVars
<1>1. ASSUME Client!Close(connFd) PROVE sock' \in [Client!Fds -> Client!Sockets]
  BY <1>1 DEF Client!Close, CtxTypes, Client!Sockets
<1>2. CASE Client!Drop(t) \/ Client!ReconnectFailed(t)
  BY <1>1, <1>2 DEF Client!Drop, Client!ReconnectFailed, CtxTypes
<1>3. CASE Client!ReconnectAttempt(t)
  <2>1. reconnectCount' \in Nat
    BY <1>3 DEF Client!ReconnectAttempt, CtxTypes
  <2> QED
    BY <1>1, <1>3, <2>1 DEF Client!ReconnectAttempt, CtxTypes
<1>4. CASE \/ Client!Dropped(t) \/ Client!ReconnectBegin(t) \/ Client!ReconnectClear(t)
           \/ Client!ReconnectUnset(t) \/ Client!ReconnectGiveUp(t)
  BY <1>4 DEF Client!Dropped, Client!ReconnectBegin, Client!ReconnectClear,
     Client!ReconnectUnset, Client!ReconnectGiveUp, CtxTypes
<1>5. CASE Client!ReconnectSocket(t)
  <2>1. UNCHANGED <<running, reconnectCount, listening>>
    BY <1>5 DEF Client!ReconnectSocket
  <2>2. CASE Client!Free = {}
    BY <1>5, <2>1, <2>2 DEF Client!ReconnectSocket, CtxTypes
  <2>3. CASE Client!Free # {}
    <3>1. PICK n \in Client!Free : /\ connFd' = n /\ sock' = [sock EXCEPT ![n] = "fresh"]
                                   /\ state' = "CONNECTING"
      BY <1>5, <2>3 DEF Client!ReconnectSocket
    <3>2. n \in Client!Fds
      BY DEF Client!Free
    <3> QED
      BY <2>1, <3>1, <3>2 DEF CtxTypes, Client!Sockets
  <2> QED
    BY <2>2, <2>3
<1>6. CASE Client!ReconnectConnect(t)
  BY <1>6 DEF Client!ReconnectConnect, CtxTypes, Client!Sockets
<1>7. CASE Client!ReconnectConnected(t)
  <2>1. /\ pc[t] = "connected" /\ Client!Sends(t, "req", Client!NextRound(t))
        /\ UNCHANGED <<running, connFd, listening>> /\ state' = "CONNECTED"
        /\ reconnectCount' \in {reconnectCount, 0}
    BY <1>7 DEF Client!ReconnectConnected
  <2>2. Client!NextRound(t) # "dropped"
    BY ClientParts DEF Client!NextRound
  <2>3. sock' \in [Client!Fds -> Client!Sockets]
    BY <2>1, <2>2, SendsMoves DEF Client!InSend
  <2> QED
    BY <2>1, <2>3 DEF CtxTypes
<1>8. CASE Client!SendStep(t)
  <2>1. /\ UNCHANGED <<running, state, connFd, listening>>
        /\ reconnectCount' \in {reconnectCount, 0}
        /\ UNCHANGED sock \/ Client!Retry(t, pc[t])
    BY <1>8 DEF Client!SendStep, Client!SendLocked, Client!SendEnds, Client!AfterSend
  <2>2. sock' \in [Client!Fds -> Client!Sockets]
    BY <2>1 DEF Client!Retry, CtxTypes, Client!Sockets
  <2> QED
    BY <2>1, <2>2 DEF CtxTypes
<1> QED
  BY <1>2, <1>3, <1>4, <1>5, <1>6, <1>7, <1>8 DEF Client!ThreadStep, Client!Reconnect

\* Every step of the client and of its server keeps types and places.
LEMMA ClientStep ==
  ASSUME Client!FdAssumption, CtxTypes, ThreadTypes, LockTypes, Places,
         [Client!Next]_(Client!vars)
  PROVE  CtxTypes' /\ ThreadTypes' /\ LockTypes' /\ Places'
<1> USE ClientParts DEF Client!ctxVars, Client!lockVars, Client!Goto
<1>1. CASE UNCHANGED Client!vars
  BY <1>1 DEF Client!vars, CtxTypes, ThreadTypes, LockTypes, Places
<1>2. ASSUME NEW t \in Client!Threads, Client!ThreadStep(t)
      PROVE  CtxTypes' /\ ThreadTypes' /\ LockTypes' /\ Places'
  <2>1. CtxTypes'
    BY <1>2, ThreadCtx
  <2>2. PICK l \in Moving \cup {Client!Home[t]} \cup (IF t = "hb" THEN {"end"} ELSE {})
                       \cup (IF t = "main" THEN {"join_recv"} ELSE {}) :
          pc' = [pc EXCEPT ![t] = l]
    BY <1>2, ThreadMoves
  <2>3. pc[t] \in Moving \cup (IF t = "main" THEN {"loop"} ELSE {}) /\ UNCHANGED rfd /\ LockMove(t)
    BY <1>2, ThreadMoves
  <2>4. ThreadTypes'
    BY <2>2, <2>3 DEF ThreadTypes, Moving, Client!InReconnect, Client!InSend
  <2>5. Places'
    BY <2>2, <2>3 DEF ThreadTypes, Places, Moving, Client!InReconnect, Client!InSend
  <2> QED
    BY <2>1, <2>2, <2>3, <2>4, <2>5, LockKept
<1>3. CASE Client!MainConnect
  <2>1. 0 \in Client!Fds
    BY DEF Client!FdAssumption, Client!Fds
  <2>2. CtxTypes'
    BY <1>3, <2>1 DEF Client!MainConnect, CtxTypes, Client!Sockets
  <2>3. /\ pc["main"] = "start" /\ pc["recv"] = "end" /\ pc["hb"] = "end"
        /\ UNCHANGED <<rfd, lock, wfd>>
        /\ (pc' = Client!Home \/ pc' = [pc EXCEPT !["main"] = "loop"])
    BY <1>3 DEF Client!MainConnect, Places
  <2>4. ThreadTypes' /\ Places'
    BY <2>3 DEF ThreadTypes, Places, Client!Home
  <2>5. lock = "free" /\ wfd = Client!NoFd
    BY <2>3, LockOthers DEF LockTypes, Client!InSend
  <2>6. LockTypes'
    BY <2>3, <2>5 DEF LockTypes, Client!Home, ThreadTypes
  <2> QED
    BY <2>2, <2>4, <2>6
<1>4. CASE Client!MainCommand \/ Client!MainQuit
  <2>1. /\ pc["main"] = "loop" /\ UNCHANGED <<state, connFd, reconnectCount, listening, rfd>>
        /\ running' \in BOOLEAN
        /\ \/ Client!Sends("main", "bye", "drop") \/ Client!Sends("main", "send", "loop")
           \/ pc' = [pc EXCEPT !["main"] = "drop"] /\ UNCHANGED <<sock, lock, wfd>>
    BY <1>4 DEF Client!MainCommand, Client!MainQuit, Client!Disconnect, CtxTypes
  <2>2. pc["main"] \notin Client!InSend \cup {"dropped"}
    BY <2>1 DEF Client!InSend
  <2>3. /\ LockMove("main") /\ sock' \in [Client!Fds -> Client!Sockets]
        /\ \E l \in {"bye", "send", "drop", "loop"} : pc' = [pc EXCEPT !["main"] = l]
    <3>1. CASE Client!Sends("main", "bye", "drop")
      BY <2>2, <3>1, SendsMoves DEF Client!InSend
    <3>2. CASE Client!Sends("main", "send", "loop")
      BY <2>2, <3>2, SendsMoves DEF Client!InSend
    <3>3. CASE pc' = [pc EXCEPT !["main"] = "drop"] /\ UNCHANGED <<sock, lock, wfd>>
      <4>1. pc'["main"] = "drop" /\ lock # "main"
        BY <2>2, <3>3, LockOthers DEF ThreadTypes
      <4> QED
        BY <2>1, <3>3, <4>1 DEF LockMove, CtxTypes
    <3> QED
      BY <2>1, <3>1, <3>2, <3>3
  <2>4. PICK l \in {"bye", "send", "drop", "loop"} : pc' = [pc EXCEPT !["main"] = l]
    BY <2>3
  <2>5. CtxTypes'
    BY <2>1, <2>3 DEF CtxTypes
  <2>6. ThreadTypes'
    BY <2>1, <2>4 DEF ThreadTypes, Moving, Client!InSend
  <2>7. Places'
    BY <2>1, <2>4 DEF ThreadTypes, Places, Moving, Client!InSend
  <2>8. LockTypes'
    BY <2>3, <2>4, LockKept
  <2> QED
    BY <2>5, <2>6, <2>7, <2>8
<1>5. CASE Client!MainJoin
  <2>1. CtxTypes' /\ UNCHANGED <<rfd, lock, wfd>>
    BY <1>5 DEF Client!MainJoin, CtxTypes
  <2>2. PICK l \in {"join_hb", "gone"} :
          /\ pc' = [pc EXCEPT !["main"] = l] /\ pc["main"] \in {"join_recv", "join_hb"}
          /\ l = "join_hb" => pc["recv"] = "end"
          /\ l = "gone" => pc["main"] = "join_hb" /\ pc["hb"] = "end"
    BY <1>5 DEF Client!MainJoin
  <2>3. ThreadTypes' /\ Places'
    BY <2>1, <2>2 DEF ThreadTypes, Places
  <2>4. LockMove("main")
    BY <2>1, <2>2, LockOthers DEF LockMove, ThreadTypes, Client!InSend
  <2> QED
    BY <2>1, <2>2, <2>3, <2>4, LockKept
<1>6. CASE Client!RecvStep
  <2>1. /\ pc["recv"] \in {"top", "recv"} /\ UNCHANGED <<running, connFd, reconnectCount, listening>>
        /\ state' \in {state, "DISCONNECTED"}
        /\ \/ UNCHANGED <<sock, lock, wfd>> \/ Client!Sends("recv", "send", "top")
           \/ pc["recv"] = "recv" /\ sock' = [sock EXCEPT ![rfd] = "dead"] /\ UNCHANGED <<lock, wfd>>
    BY <1>6 DEF Client!RecvStep, Client!RecvTop, Client!RecvFrame, Client!RecvDisconnectFrame,
       Client!RecvFails
  <2>2. \/ rfd' = connFd /\ connFd # Client!NoFd /\ pc' = [pc EXCEPT !["recv"] = "recv"]
        \/ pc["recv"] = "top" /\ rfd' = rfd /\ pc' = [pc EXCEPT !["recv"] = "end"]
        \/ rfd' = Client!NoFd /\ \E l \in {"top", "drop", "send"} : pc' = [pc EXCEPT !["recv"] = l]
    BY <1>6 DEF Client!RecvStep, Client!RecvTop, Client!RecvFrame, Client!RecvDisconnectFrame,
       Client!RecvFails, Client!Sends
  <2>3. PICK l \in {"top", "drop", "send", "recv", "end"} : pc' = [pc EXCEPT !["recv"] = l]
    BY <2>2
  <2>4. pc["recv"] \notin Client!InSend \cup {"dropped"} /\ pc'["recv"] = l
    BY <2>1, <2>3 DEF ThreadTypes, Client!InSend
  <2>5. LockMove("recv") /\ sock' \in [Client!Fds -> Client!Sockets]
    <3>1. CASE Client!Sends("recv", "send", "top")
      BY <2>4, <3>1, SendsMoves DEF Client!InSend
    <3>2. CASE UNCHANGED <<sock, lock, wfd>>
      BY <2>4, <3>2, LockOthers DEF LockMove, CtxTypes
    <3>3. CASE /\ pc["recv"] = "recv" /\ sock' = [sock EXCEPT ![rfd] = "dead"]
               /\ UNCHANGED <<lock, wfd>>
      BY <2>4, <3>3, LockOthers DEF LockMove, CtxTypes, Client!Sockets
    <3> QED
      BY <2>1, <3>1, <3>2, <3>3
  <2>6. CtxTypes'
    BY <2>1, <2>5 DEF CtxTypes
  <2>7. ThreadTypes' /\ Places'
    BY <2>1, <2>2 DEF ThreadTypes, CtxTypes, Places, Moving, Client!InSend
  <2> QED
    BY <2>3, <2>5, <2>6, <2>7, LockKept
<1>7. CASE Client!HeartbeatEnd \/ Client!HeartbeatExpires \/ Client!HeartbeatSends
  <2>1. /\ pc["hb"] = "sleep" /\ UNCHANGED <<running, state, connFd, reconnectCount, listening, rfd>>
        /\ \/ UNCHANGED <<sock, lock, wfd>> /\ \E l \in {"end", "drop"} : pc' = [pc EXCEPT !["hb"] = l]
           \/ Client!Sends("hb", "send", Client!NextRound("hb"))
    BY <1>7 DEF Client!HeartbeatEnd, Client!HeartbeatExpires, Client!HeartbeatSends
  <2>2. Client!NextRound("hb") \in {"sleep", "end"}
    BY DEF Client!NextRound
  <2>3. pc["hb"] \notin Client!InSend \cup {"dropped"}
    BY <2>1 DEF Client!InSend
  <2>4. /\ LockMove("hb") /\ sock' \in [Client!Fds -> Client!Sockets]
        /\ \E l \in {"end", "drop", "send", "sleep"} : pc' = [pc EXCEPT !["hb"] = l]
    <3>1. CASE Client!Sends("hb", "send", Client!NextRound("hb"))
      BY <2>2, <2>3, <3>1, SendsMoves DEF Client!InSend
    <3>2. CASE UNCHANGED <<sock, lock, wfd>> /\ \E l \in {"end", "drop"} : pc' = [pc EXCEPT !["hb"] = l]
      BY <2>3, <3>2, LockOthers DEF LockMove, CtxTypes, ThreadTypes
    <3> QED
      BY <2>1, <3>1, <3>2
  <2>5. CtxTypes'
    BY <2>1, <2>4 DEF CtxTypes
  <2>6. ThreadTypes' /\ Places'
    BY <2>1, <2>4 DEF ThreadTypes, Places, Moving, Client!InSend
  <2> QED
    BY <2>4, <2>5, <2>6, LockKept
<1>8. CASE Client!ServerStart \/ Client!ServerReads \/ Client!ServerStop
  <2>1. UNCHANGED <<pc, rfd, running, state, connFd, reconnectCount, lock, wfd>>
        /\ listening' \in BOOLEAN
    BY <1>8 DEF Client!ServerStart, Client!ServerReads, Client!ServerStop, CtxTypes
  <2>2. sock' \in [Client!Fds -> Client!Sockets]
    <3>1. CASE Client!ServerStart
      BY <3>1 DEF Client!ServerStart, CtxTypes
    <3>2. CASE Client!ServerReads
      BY <3>2 DEF Client!ServerReads, CtxTypes, Client!Sockets
    <3>3. CASE Client!ServerStop
      <4>1. PICK last \in {"bye", "dead"} :
              sock' = [n \in Client!Fds |->
                         IF sock[n] \in {"live", "full"} THEN last ELSE sock[n]]
        BY <3>3 DEF Client!ServerStop
      <4> QED
        BY <4>1 DEF CtxTypes, Client!Sockets
    <3> QED
      BY <1>8, <3>1, <3>2, <3>3
  <2> QED
    BY <2>1, <2>2 DEF CtxTypes, ThreadTypes, LockTypes, Places
<1> QED
  BY <1>1, <1>2, <1>3, <1>4, <1>5, <1>6, <1>7, <1>8 DEF Client!Next

LEMMA ClientInvariant ==
  ASSUME Client!FdAssumption
  PROVE  Client!Spec => [](CtxTypes /\ ThreadTypes /\ LockTypes /\ Places)
<1>1. Client!Init => CtxTypes /\ ThreadTypes /\ LockTypes /\ Places
  BY ClientParts DEF Client!Init, CtxTypes, ThreadTypes, LockTypes, Places, Client!Sockets
<1> QED
  BY <1>1, ClientStep, PTL DEF Client!Spec

\* The states are those of the three threads, of the lock and the context they share
\* and of its sockets, whatever the bound on attempts and the number of descriptors.
THEOREM ClientTypeCorrect ==
  ASSUME Client!FdAssumption PROVE Client!Spec => []Client!TypeOK
BY ClientInvariant, ClientParts, PTL

\* The context is freed when no thread can touch it any more.
FreedLast == pc["main"] = "gone" => pc["recv"] = "end" /\ pc["hb"] = "end"

\* When IpcDestroy frees the context both threads have ended, from wherever in
\* IpcReconnect or in SendAll they were, and neither starts again.
THEOREM ClientFreedLast ==
  ASSUME Client!FdAssumption PROVE Client!Spec => []FreedLast
<1>1. Places => FreedLast
  BY DEF Places, FreedLast
<1> QED
  BY <1>1, ClientInvariant, PTL
=============================================================================
