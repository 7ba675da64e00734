------------------------------ MODULE FrameQueue ------------------------------
(*****************************************************************************)
(* What the two ends of a connection may take its frames for: in each        *)
(* direction a queue of whole frames.  A frame enters as it is sent and is    *)
(* handled once, in order, complete and unchanged, or never; an end that does *)
(* not time out handles every frame up to the last one.                       *)
(*****************************************************************************)
EXTENDS Integers, Sequences

CONSTANTS Ends, Frames, Impatient

VARIABLES
    wire,       \* frames sent by an end and not yet handled by the other
    handled     \* frames handled by an end

Other(e) == CHOOSE d \in Ends : d # e

Init == /\ wire = [e \in Ends |-> <<>>]
        /\ handled = [e \in Ends |-> <<>>]

Send(e) ==
    /\ wire'[e] # <<>>
    /\ LET f == wire'[e][Len(wire'[e])] IN
         f \in Frames /\ wire' = [wire EXCEPT ![e] = Append(@, f)]
    /\ UNCHANGED handled

Handle(e) ==
    \E n \in 1 .. Len(wire[Other(e)]) :
        /\ n > 1 => e \in Impatient
        /\ handled' = [handled EXCEPT ![e] = Append(@, wire[Other(e)][n])]
        /\ wire' = [wire EXCEPT ![Other(e)] = SubSeq(@, n + 1, Len(@))]

Next == \E e \in Ends : Send(e) \/ Handle(e)

Spec == Init /\ [][Next]_<<wire, handled>>
=============================================================================
