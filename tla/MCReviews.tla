----------------------------- MODULE MCReviews -----------------------------
(* What is asked for by one person and decided by another: amendments of a   *)
(* parcel, by two deciders, and corrections of an address's pin.  They share *)
(* no state, so the initial state says which of the two goes on.             *)
EXTENDS ShipmentAmendment, AddressCorrection, TLC

CONSTANTS here, nearby, away

VARIABLE part

ReviewInit ==
    /\ part \in {"amendments", "corrections"}
    /\ AmendmentInit
    /\ CorrectionInit
    /\ part = "amendments" => pin = [a \in Addresses |-> [location |-> NoPin, observed |-> Never]]

ReviewNext ==
    \/ part = "amendments" /\ AmendmentNext /\ UNCHANGED <<part, correctionVars>>
    \/ part = "corrections" /\ CorrectionNext /\ UNCHANGED <<part, allVars>>

ReviewSpec == ReviewInit /\ [][ReviewNext]_<<part, allVars, correctionVars>>

\* Two places next to each other and one that is far from both.
Apart(p, q) == p # q /\ away \in {p, q}

Alike == Permutations(Deciders) \cup Permutations(Keys)
=============================================================================
