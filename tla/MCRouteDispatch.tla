--------------------------- MODULE MCRouteDispatch --------------------------
(* A small dispatch office for TLC. *)
EXTENDS RouteDispatch, TLC

CONSTANTS r1, r2, l1, l2, d1

OneDoor == [l \in Legs |-> "door"]
TwoDoors == l1 :> "left" @@ l2 :> "right"
OneDriver == [r \in Routes |-> d1]
=============================================================================
