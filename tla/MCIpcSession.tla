----------------------------- MODULE MCIpcSession -----------------------------
(* IpcSession for TLC: how many messages each end may send.                  *)
EXTENDS IpcSession

TalkingServer == [server |-> 2, client |-> 0]
TalkingClient == [server |-> 0, client |-> 3]
TalkingBoth == [server |-> 1, client |-> 2]
=============================================================================
