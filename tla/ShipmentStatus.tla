--------------------------- MODULE ShipmentStatus ---------------------------
(***************************************************************************)
(* The shipment state machine: which event drives which status, which      *)
(* transitions are legal, and who holds the parcel afterwards.  Constant-  *)
(* level: modules/shipment/domain/shipment-status.ts is pure data and pure *)
(* functions, and so is this module.                                       *)
(***************************************************************************)

TerminalStatuses == {"DELIVERED", "RETURNED", "CANCELLED"}

Statuses ==
    {"CREATED", "ASSIGNED", "PICKED_UP", "AT_HUB", "IN_TRANSIT",
     "OUT_FOR_DELIVERY", "ATTEMPT_FAILED", "RETURN_PENDING"} \cup TerminalStatuses

EventTypes ==
    {"created", "assigned", "picked_up", "arrived_at_hub", "loaded", "departed",
     "out_for_delivery", "arrived_at_stop", "delivery_attempted", "delivered",
     "delivery_failed", "return_initiated", "returned", "cancelled"}

\* Events that record a fact and drive no status.
Annotations == {"loaded", "arrived_at_stop", "delivery_attempted"}

\* The status an event drives the shipment to; "created" and the annotations
\* drive none, and keep the status the shipment has.
TargetStatus(type, current) ==
    CASE type = "assigned"         -> "ASSIGNED"
      [] type = "picked_up"        -> "PICKED_UP"
      [] type = "arrived_at_hub"   -> "AT_HUB"
      [] type = "departed"         -> "IN_TRANSIT"
      [] type = "out_for_delivery" -> "OUT_FOR_DELIVERY"
      [] type = "delivered"        -> "DELIVERED"
      [] type = "delivery_failed"  -> "ATTEMPT_FAILED"
      [] type = "return_initiated" -> "RETURN_PENDING"
      [] type = "returned"         -> "RETURNED"
      [] type = "cancelled"        -> "CANCELLED"
      [] OTHER                     -> current

\* The source status in which each annotation is valid.
AnnotationSource(type) == IF type = "loaded" THEN "AT_HUB" ELSE "OUT_FOR_DELIVERY"

\* The matrix: every pair not listed here or in OverrideOnly is a hard rejection.
Permitted ==
    {<<"CREATED", "ASSIGNED">>, <<"CREATED", "CANCELLED">>,
     <<"ASSIGNED", "ASSIGNED">>, <<"ASSIGNED", "PICKED_UP">>, <<"ASSIGNED", "CANCELLED">>,
     <<"PICKED_UP", "AT_HUB">>, <<"PICKED_UP", "OUT_FOR_DELIVERY">>,
     <<"AT_HUB", "IN_TRANSIT">>, <<"AT_HUB", "OUT_FOR_DELIVERY">>,
     <<"AT_HUB", "RETURN_PENDING">>,
     <<"IN_TRANSIT", "AT_HUB">>,
     <<"OUT_FOR_DELIVERY", "AT_HUB">>, <<"OUT_FOR_DELIVERY", "DELIVERED">>,
     <<"OUT_FOR_DELIVERY", "ATTEMPT_FAILED">>,
     <<"ATTEMPT_FAILED", "AT_HUB">>, <<"ATTEMPT_FAILED", "OUT_FOR_DELIVERY">>,
     <<"ATTEMPT_FAILED", "RETURN_PENDING">>,
     <<"RETURN_PENDING", "AT_HUB">>, <<"RETURN_PENDING", "IN_TRANSIT">>,
     <<"RETURN_PENDING", "RETURNED">>}

\* Cancelling a parcel the courier physically holds: OWNER authority only.
OverrideOnly ==
    {"PICKED_UP", "AT_HUB", "IN_TRANSIT", "OUT_FOR_DELIVERY", "ATTEMPT_FAILED"}
        \X {"CANCELLED"}

\* checkTransition: "allowed", "requires_override" or "rejected".
CheckTransition(from, type) ==
    IF type = "created" \/ from \in TerminalStatuses THEN "rejected"
    ELSE IF type \in Annotations
         THEN IF from = AnnotationSource(type) THEN "allowed" ELSE "rejected"
    ELSE IF <<from, TargetStatus(type, from)>> \in Permitted THEN "allowed"
    ELSE IF <<from, TargetStatus(type, from)>> \in OverrideOnly THEN "requires_override"
    ELSE "rejected"

-----------------------------------------------------------------------------
(* Custody: the party that physically holds the parcel after an event.     *)

ToDriver  == {"picked_up", "out_for_delivery"}
ToHub     == {"arrived_at_hub", "returned"}
ToNobody  == {"delivered", "cancelled"}

\* custodyAfter: the holder as a pair of a kind and an id (nobody is the id of
\* an unnamed holder); every other event leaves the holder as it is.
CustodyAfter(type, driver, hub, nobody, current) ==
    CASE type \in ToDriver -> [kind |-> "DRIVER", id |-> driver]
      [] type \in ToHub    -> [kind |-> "HUB", id |-> hub]
      [] type \in ToNobody -> [kind |-> "NOBODY", id |-> nobody]
      [] OTHER             -> current
=============================================================================
