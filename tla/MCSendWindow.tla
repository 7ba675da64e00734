----------------------------- MODULE MCSendWindow -----------------------------
(* SendWindow for TLC: the senders are model values and interchangeable.     *)
EXTENDS SendWindow, TLC

SenderSymmetry == Permutations(Senders)
=============================================================================
