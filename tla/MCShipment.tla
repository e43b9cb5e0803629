----------------------------- MODULE MCShipment -----------------------------
(* Shipment on a small instance: drivers, and parcels, are interchangeable.  *)
(* Two parcels and two drivers get a few commands between them; beyond that  *)
(* a behaviour goes on only if it is the life of one parcel and one driver.  *)
EXTENDS Shipment, TLC

CONSTANT MaxShared      \* bound: commands as long as anything is shared

Named == UNION {{u.caller, u.request.driver} : u \in {uses[i] : i \in DOMAIN uses}}

Alone ==
    /\ Cardinality({uses[i].shipment : i \in DOMAIN uses}) <= 1
    /\ Cardinality(Named \cap Drivers) <= 1

SmallNext == Next /\ (Len(uses') > MaxShared => Alone')

SmallSpec == Init /\ [][SmallNext]_vars

Alike == Permutations(Shipments) \cup Permutations(Drivers)
=============================================================================
