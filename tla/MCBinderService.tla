---------------------------- MODULE MCBinderService ----------------------------
(* Two services with names that share a number, and a client of the first.    *)
EXTENDS BinderService

MCNameOf == [p \in Services \cup Clients |-> IF p = "other" THEN "camera" ELSE "demo"]
MCSaId == [n \in {"demo", "camera"} |-> 14500]
=============================================================================
