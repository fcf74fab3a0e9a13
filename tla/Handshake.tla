----------------------------- MODULE Handshake -----------------------------
(***************************************************************************)
(* What a DBal connection promises two applications that take turns: a     *)
(* session is opened and closed by a request and its answer, the answering *)
(* side moving first, so that a side that has been answered finds the      *)
(* other in the same state.                                                *)
(***************************************************************************)
CONSTANT Peers

VARIABLE phase   \* phase[p]: the side of the session at p

Other(p) == CHOOSE q \in Peers : q # p
All(s) == \A p \in Peers : phase[p] = s
Move(p, s) == phase' = [phase EXCEPT ![p] = s]

Init == phase = [p \in Peers |-> "DISCONNECTED"]

Ask(p) == All("DISCONNECTED") /\ Move(p, "CONNECTING")

Grant(p) ==
    /\ phase[p] = "DISCONNECTED" /\ phase[Other(p)] = "CONNECTING"
    /\ Move(p, "CONNECTED")

Complete(p) ==
    /\ phase[p] = "CONNECTING" /\ phase[Other(p)] = "CONNECTED"
    /\ Move(p, "CONNECTED")

AskClose(p) == All("CONNECTED") /\ Move(p, "DISCONNECTING")

Release(p) ==
    /\ phase[p] = "CONNECTED" /\ phase[Other(p)] = "DISCONNECTING"
    /\ Move(p, "DISCONNECTED")

CompleteClose(p) ==
    /\ phase[p] = "DISCONNECTING" /\ phase[Other(p)] = "DISCONNECTED"
    /\ Move(p, "DISCONNECTED")

Next == \E p \in Peers : \/ Ask(p) \/ Grant(p) \/ Complete(p)
                         \/ AskClose(p) \/ Release(p) \/ CompleteClose(p)

Spec == Init /\ [][Next]_phase

\* A request is answered: the asking side gets both sides to where it wants them.
Answered ==
    \A p \in Peers :
        /\ phase[p] = "CONNECTING" ~> All("CONNECTED")
        /\ phase[p] = "DISCONNECTING" ~> All("DISCONNECTED")
=============================================================================
