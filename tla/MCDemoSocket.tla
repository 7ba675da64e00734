----------------------------- MODULE MCDemoSocket -----------------------------
(* Messages of the interesting lengths: empty, shorter than the buffer but    *)
(* cut in the acknowledgement, and longer than a piece of the socket.         *)
EXTENDS DemoSocket

MCLength == [c \in Clients |-> CASE c = "empty" -> 0 [] c = "cut" -> 2 [] c = "long" -> 6]
=============================================================================
