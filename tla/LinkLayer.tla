----------------------------- MODULE LinkLayer ------------------------------
(***************************************************************************)
(* What a data link layer promises the layers above it about transmission: *)
(* a frame it takes is confirmed by exactly one call of                    *)
(* DLL_vMessageTransmitted before it takes the next one.  Going offline    *)
(* ends a transmission without a confirmation.                             *)
(***************************************************************************)
VARIABLES link, result

Results == {"NOT_RECEIVED", "BUSY", "WRONG", "OK", "ABORTED"}

linkVars == <<link, result>>

Init == link = "free" /\ result = "none"

Start == link = "free" /\ link' = "busy" /\ result' = "none"
EndFrame == link = "busy" /\ link' = "free"
Confirm(r) == EndFrame /\ result' = r
Down == link' = "down" /\ UNCHANGED result
Up == link = "down" /\ link' = "free" /\ UNCHANGED result

Next == Start \/ Down \/ Up \/ \E r \in Results : Confirm(r)

Spec == Init /\ [][Next]_linkVars

\* Every transmission ends.
Ends == link = "busy" ~> link # "busy"
=============================================================================
