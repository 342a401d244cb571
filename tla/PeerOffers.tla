----------------------------- MODULE PeerOffers -----------------------------
(***************************************************************************)
(* What a receiving device promises about the offers it is made: one at a  *)
(* time is open, an open offer is first pending and may then be accepted,  *)
(* only an accepted one is completed, and how an offer ended never changes.*)
(* internal/server/peer.go; PeerReceiver implements this, and PeerSender   *)
(* relies on it for the other device.                                      *)
(***************************************************************************)
CONSTANT Offers

VARIABLE phase

Phases == {"new", "pending", "accepted", "complete", "over"}
Open(o) == phase[o] \in {"pending", "accepted"}

Move(o, from, to) ==
  /\ phase[o] = from
  /\ phase' = [phase EXCEPT ![o] = to]

Init == phase = [o \in Offers |-> "new"]

Ask(o)      == (\A p \in Offers : ~Open(p)) /\ Move(o, "new", "pending")
Approve(o)  == Move(o, "pending", "accepted")
Complete(o) == Move(o, "accepted", "complete")
End(o)      == Move(o, "pending", "over") \/ Move(o, "accepted", "over")

\* The slot can pass from an offer that is over to the next one in one step:
\* createOffer expires what is due before it takes the slot.
Replace(o, p) ==
  /\ phase[o] = "pending"
  /\ phase[p] = "new"
  /\ \A q \in Offers \ {o} : ~Open(q)
  /\ phase' = [phase EXCEPT ![o] = "over", ![p] = "pending"]

Next == \/ \E o \in Offers : Ask(o) \/ Approve(o) \/ Complete(o) \/ End(o)
        \/ \E o, p \in Offers : Replace(o, p)

Spec == Init /\ [][Next]_phase

\* At most one offer is open.
AtMostOneOpen == \A o, p \in Offers : Open(o) /\ Open(p) => o = p
=============================================================================
