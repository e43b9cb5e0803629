----------------------------- MODULE MCTracking -----------------------------
(* The uploads of one driver and the writer of all positions.  What passes   *)
(* between them is a list of positions, so that each is checked by itself:   *)
(* the initial state says which of the two works.                            *)
EXTENDS Telemetry, TelemetryWriter

VARIABLE part

TrackingInit ==
    /\ part \in {"uploads", "writer"}
    /\ TelemetryInit
    /\ WriterInit

TrackingNext ==
    \/ part = "uploads" /\ TelemetryNext /\ UNCHANGED <<part, writerVars>>
    \/ part = "writer" /\ WriterNext /\ UNCHANGED <<part, telemetryVars>>

UploadsFairness == part = "uploads" => TelemetryFairness

TrackingSpec ==
    /\ TrackingInit
    /\ [][TrackingNext]_<<part, telemetryVars, writerVars>>
    /\ UploadsFairness /\ WriterFairness

\* Two tenants share the buffer.
Uploads == [n \in 1..MaxPositions |-> IF n % 4 \in {1, 2} THEN "t1" ELSE "t2"]
=============================================================================
