---------------------------- MODULE EventChannel ----------------------------
(***************************************************************************)
(* What the event service promises a server: one event at a time is        *)
(* pending; it stops being pending because the client's application got it *)
(* and this was acknowledged, or because the server gave it up.  Events    *)
(* given up may still be delivered, late or more than once.                *)
(***************************************************************************)
CONSTANTS Events, None

VARIABLES pending, sent, delivered, acked

chan == <<pending, sent, delivered, acked>>

Init == pending = None /\ sent = {} /\ delivered = {} /\ acked = {}

Submit(e) ==
    /\ pending = None /\ pending' = e
    /\ sent' = sent \cup {e}
    /\ UNCHANGED <<delivered, acked>>

Deliver ==
    /\ \E got \in SUBSET sent : delivered' = delivered \cup got
    /\ UNCHANGED <<pending, sent, acked>>

Acknowledge ==
    /\ pending \in delivered
    /\ pending' = None /\ acked' = acked \cup {pending}
    /\ UNCHANGED <<sent, delivered>>

GiveUp ==
    /\ pending # None /\ pending' = None
    /\ UNCHANGED <<sent, delivered, acked>>

Next == (\E e \in Events : Submit(e)) \/ Deliver \/ Acknowledge \/ GiveUp

Spec == Init /\ [][Next]_chan

\* No event stays pending for ever.
Resolved == \A e \in Events : pending = e ~> pending # e
=============================================================================
