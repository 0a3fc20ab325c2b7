----------------------------- MODULE ReviewGate -----------------------------
(***************************************************************************)
(* What the human-in-the-loop gate promises (FR-GAT-3, FR-PRS-2), with     *)
(* none of the activities, retries or loop order that implement it: a trip *)
(* is stored only for an offer the traveler approved, never over a refusal *)
(* or an outstanding change request, and the review only expires on a      *)
(* traveler who said nothing.                                              *)
(***************************************************************************)
CONSTANTS Offers, NoOffer

VARIABLES
    phase,     \* "planning", "review", "accepted", "declined", "expired" or "ended"
    offer,     \* the itinerary under review
    approval,  \* the traveler has approved
    refusal,   \* the traveler has refused
    changes,   \* a change the traveler asked for is not settled yet
    stored     \* the trip that can be looked up later

gateVars == <<phase, offer, approval, refusal, changes, stored>>

GateInit ==
    /\ phase = "planning" /\ offer = NoOffer /\ stored = NoOffer
    /\ approval = FALSE /\ refusal = FALSE /\ changes = FALSE

\* The traveler may speak at any time, also too early or too late.
Speak ==
    /\ approval' \in {approval, TRUE}
    /\ refusal' \in {refusal, TRUE}
    /\ changes' \in {changes, TRUE}
    /\ UNCHANGED <<phase, offer, stored>>

MakeOffer ==
    /\ phase = "planning"
    /\ offer' \in Offers
    /\ phase' = "review"
    /\ UNCHANGED <<approval, refusal, changes, stored>>

GiveUp ==
    /\ phase = "planning"
    /\ phase' = "ended"
    /\ UNCHANGED <<offer, approval, refusal, changes, stored>>

\* A change is settled, with a new offer or the old one; another may be waiting.
Revise ==
    /\ phase = "review" /\ changes
    /\ offer' \in Offers
    /\ changes' \in BOOLEAN
    /\ UNCHANGED <<phase, approval, refusal, stored>>

Accept ==
    /\ phase = "review" /\ approval /\ ~refusal /\ ~changes
    /\ phase' = "accepted"
    /\ UNCHANGED <<offer, approval, refusal, changes, stored>>

Decline ==
    /\ phase = "review" /\ refusal
    /\ phase' = "declined"
    /\ UNCHANGED <<offer, approval, refusal, changes, stored>>

Expire ==
    /\ phase = "review" /\ ~approval /\ ~refusal /\ ~changes
    /\ phase' = "expired"
    /\ UNCHANGED <<offer, approval, refusal, changes, stored>>

Store ==
    /\ phase = "accepted"
    /\ stored' = offer
    /\ UNCHANGED <<phase, offer, approval, refusal, changes>>

Decide == Accept \/ Decline \/ Expire

GateNext == Speak \/ MakeOffer \/ GiveUp \/ Revise \/ Decide \/ Store

Gate == GateInit /\ [][GateNext]_gateVars

\* An offer does not stay under review for ever.
FairGate == Gate /\ WF_gateVars(Decide)
-----------------------------------------------------------------------------
\* Only what was accepted is stored, and only while it is still the offer.
StoredIsAccepted == stored # NoOffer => phase = "accepted" /\ approval /\ stored = offer
=============================================================================
