------------------------------ MODULE Telemetry ------------------------------
(***************************************************************************)
(* The location of one driver: his shifts on the server, the queue of GPS  *)
(* points on his phone with the two runtimes that upload it, and the       *)
(* ingest with its replay guard, presence and geofence state.  A step of   *)
(* the phone is a write of its database or a call; a step of the server is *)
(* one command to Valkey or the database.  One geofence stands for all.    *)
(***************************************************************************)
EXTENDS Integers, Sequences, FiniteSets, FiniteSetsExt

CONSTANTS
    Runtimes,       \* the screen and the background task
    Calls,          \* bound: uploads the server works on at once
    Nothing,        \* no call
    MaxBatch,       \* MAX_BATCH
    MaxPoints,      \* bound: points captured
    MaxShifts,      \* bound: shifts opened
    MaxTrouble      \* bound: lost answers, deaths and failures

ASSUME TelemetryAssumption ==
    /\ MaxBatch \in Nat \ {0} /\ MaxPoints \in Nat /\ MaxShifts \in Nat
    /\ MaxTrouble \in Nat /\ Nothing \notin Calls \cup BOOLEAN

VARIABLES
    open,           \* the open shift, 0 for none
    shifts,         \* how many shifts were opened
    points,         \* the points captured, in order: [shift, batch, near]
    queued,         \* the points still on the phone
    tracking,       \* META.shiftId: the shift being tracked, 0 for none
    refresh,        \* the shift of a refresh the screen has yet to act on
    up,             \* up[u]: the upload a runtime is at
    batches,        \* how many batches were sealed
    call,           \* call[c]: an upload at the server
    track,          \* driver_positions: the points in the order they were taken
    remembered,     \* the batches the replay guard knows
    inside,         \* the geofences' inside-set
    presence,       \* the newest point of the last upload
    arrivals,       \* shipment.arrived_at_stop events
    raced,          \* batches two calls worked on at once, or one gave up on
    refused,        \* points the server turned down
    trouble

phoneVars == <<points, queued, tracking, refresh, up, batches>>
serverVars == <<call, track, remembered, inside, presence, arrivals, raced>>
shiftVars == <<open, shifts>>
telemetryVars == <<shiftVars, phoneVars, serverVars, refused, trouble>>

Captured == 1..Len(points)
PointsOf(batch) == {p \in Captured : points[p].batch = batch}

NoRefresh == -1

Waiting == [at |-> "idle", batch |-> 0, call |-> Nothing]
NoCall == [at |-> "free", batch |-> 0, points |-> {}, near |-> Nothing, entries |-> 0,
           heard |-> FALSE]

-----------------------------------------------------------------------------
(* Shifts: by the dispatcher, or by the driver with his phone *)

StartShift(phoneToo) ==
    /\ open = 0 /\ shifts < MaxShifts
    /\ shifts' = shifts + 1 /\ open' = shifts + 1
    /\ tracking' = IF phoneToo THEN shifts + 1 ELSE tracking
    /\ UNCHANGED <<points, queued, refresh, up, batches, serverVars, refused, trouble>>

EndShift(phoneToo) ==
    /\ open # 0
    /\ open' = 0
    /\ tracking' = IF phoneToo THEN 0 ELSE tracking
    /\ UNCHANGED <<shifts, points, queued, refresh, up, batches, serverVars, refused,
                   trouble>>

RefreshShift ==
    /\ refresh' = open
    /\ UNCHANGED <<shiftVars, points, queued, tracking, up, batches, serverVars, refused,
                   trouble>>

FollowsMutant == IF tracking = 0 THEN refresh ELSE tracking

\* Collection follows the server's shift, both ways.
Follows == refresh

Reconcile ==
    /\ refresh # NoRefresh /\ refresh' = NoRefresh
    /\ tracking' = Follows
    /\ UNCHANGED <<shiftVars, points, queued, up, batches, serverVars, refused, trouble>>

-----------------------------------------------------------------------------
(* The phone *)

JoinedBatchMutant == Max({points[p].batch : p \in queued} \cup {0})

\* A sealed batch is never added to.
JoinedBatch == 0

\* onFixes: a fix is written to the queue before anything else.
Capture(near) ==
    /\ tracking # 0 /\ Len(points) < MaxPoints
    /\ points' = Append(points, [shift |-> tracking, batch |-> JoinedBatch, near |-> near])
    /\ queued' = queued \cup {Len(points) + 1}
    /\ UNCHANGED <<shiftVars, tracking, refresh, up, batches, serverVars, refused, trouble>>

SealedMutant == {}

Sealed == {p \in queued : points[p].batch # 0}

\* The oldest points of one shift, at most MaxBatch of them.
Next1 ==
    LET same == {p \in queued : points[p].shift = points[Min(queued)].shift}
    IN {p \in same : Cardinality({q \in same : q <= p}) <= MaxBatch}

\* nextBatch: the batch that waits for its answer keeps its id, otherwise the
\* oldest points are sealed under a new one.
Upload(u) ==
    LET c == CHOOSE d \in Calls : call[d] = NoCall
        again == Sealed # {}
        batch == IF again THEN points[Min(Sealed)].batch ELSE batches + 1
        sent == IF again THEN PointsOf(batch) ELSE Next1
    IN /\ up[u] = Waiting /\ queued # {} /\ \E d \in Calls : call[d] = NoCall
       /\ batches' = IF again THEN batches ELSE batches + 1
       /\ points' = [p \in Captured |->
                        IF p \in sent THEN [points[p] EXCEPT !.batch = batch] ELSE points[p]]
       /\ up' = [up EXCEPT ![u] = [at |-> "calling", batch |-> batch, call |-> c]]
       /\ call' = [call EXCEPT ![c] =
                    [NoCall EXCEPT !.at = "asked", !.batch = batch, !.points = sent,
                                   !.heard = TRUE]]
       /\ raced' = IF \E d \in Calls : call[d].at # "free" /\ call[d].batch = batch
                   THEN raced \cup {batch} ELSE raced
       /\ UNCHANGED <<shiftVars, queued, tracking, refresh, track, remembered, inside,
                      presence, arrivals, refused, trouble>>

\* The answer: a batch that was taken, or can never be, leaves the queue.
Heard(u) ==
    LET c == up[u].call
    IN /\ up[u].at = "calling" /\ call[c].at \in {"accepted", "outside", "failed"}
       /\ queued' = IF call[c].at = "failed" THEN queued
                    ELSE queued \ PointsOf(up[u].batch)
       /\ refused' = IF call[c].at = "outside" THEN refused \cup call[c].points ELSE refused
       /\ up' = [up EXCEPT ![u] = IF call[c].at = "outside"
                                  THEN [Waiting EXCEPT !.at = "stopping"] ELSE Waiting]
       /\ call' = [call EXCEPT ![c] = NoCall]
       /\ UNCHANGED <<shiftVars, points, tracking, refresh, batches, track, remembered,
                      inside, presence, arrivals, raced, trouble>>

\* The shift was closed, said the answer; by now another may be tracked.
StopTracking(u) ==
    /\ up[u].at = "stopping"
    /\ up' = [up EXCEPT ![u] = Waiting]
    /\ tracking' = 0
    /\ UNCHANGED <<shiftVars, points, queued, refresh, batches, serverVars, refused, trouble>>

\* A timeout, or the death of the runtime; the server goes on.
GiveUp(u) ==
    /\ up[u] # Waiting /\ trouble < MaxTrouble
    /\ trouble' = trouble + 1
    /\ up' = [up EXCEPT ![u] = Waiting]
    /\ call' = IF up[u].call = Nothing THEN call
               ELSE [call EXCEPT ![up[u].call].heard = FALSE]
    /\ UNCHANGED <<shiftVars, points, queued, tracking, refresh, batches, track, remembered,
                   inside, presence, arrivals, raced, refused>>

-----------------------------------------------------------------------------
(* ingestBatch *)

\* The points of a batch in the order they were captured.
InOrderOf(S) ==
    LET Places == 1..Cardinality(S)
    IN CHOOSE s \in [Places -> S] : \A i, j \in Places : i < j => s[i] < s[j]

ServerMoves(c, at) == call' = [call EXCEPT ![c].at = at]

OnlyCall == UNCHANGED <<shiftVars, phoneVars, refused>>

\* The replay guard, then the gate, which asks for a shift that is open now;
\* the positions are buffered.
Gate(c) ==
    /\ call[c].at = "asked"
    /\ ServerMoves(c, IF call[c].batch \in remembered THEN "accepted"
                      ELSE IF open = 0 THEN "outside" ELSE "taken")
    /\ track' = IF call'[c].at = "taken" THEN track \o InOrderOf(call[c].points)
                ELSE track
    /\ UNCHANGED <<remembered, inside, presence, arrivals, raced, trouble>>
    /\ OnlyCall

\* The state a point finds: that of the point before it, or the stored one.
Before(p, sent, stored) ==
    LET earlier == {q \in sent : q < p}
    IN IF earlier = {} THEN stored ELSE points[Max(earlier)].near

Changes(sent, stored) == {p \in sent : points[p].near # Before(p, sent, stored)}

AfterTrackMutant(sent, stored) == \E p \in sent : points[p].near

\* What is written: the last change of the batch, or nothing.
AfterTrack(sent, stored) ==
    LET changes == Changes(sent, stored)
    IN IF changes = {} THEN Nothing ELSE points[Max(changes)].near

\* The newest point is the driver's presence; the inside-set is read ...
Present(c) ==
    LET sent == call[c].points
    IN /\ call[c].at = "taken"
       /\ presence' = Max(sent)
       /\ call' = [call EXCEPT ![c].at = "persist",
                    ![c].near = AfterTrack(sent, inside),
                    ![c].entries = Cardinality({p \in Changes(sent, inside) : points[p].near})]
       /\ UNCHANGED <<track, remembered, inside, arrivals, raced, trouble>>
       /\ OnlyCall

\* ... written ...
PersistInside(c) ==
    /\ call[c].at = "persist"
    /\ inside' = IF call[c].near = Nothing THEN inside ELSE call[c].near
    /\ ServerMoves(c, "publish")
    /\ UNCHANGED <<track, remembered, presence, arrivals, raced, trouble>>
    /\ OnlyCall

\* ... and the arrivals are published in a transaction of their own.
PublishArrivals(c) ==
    /\ call[c].at = "publish"
    /\ arrivals' = arrivals + call[c].entries
    /\ ServerMoves(c, "remember")
    /\ UNCHANGED <<track, remembered, inside, presence, raced, trouble>>
    /\ OnlyCall

Remember(c) ==
    /\ call[c].at = "remember"
    /\ remembered' = remembered \cup {call[c].batch}
    /\ ServerMoves(c, "accepted")
    /\ UNCHANGED <<track, inside, presence, arrivals, raced, trouble>>
    /\ OnlyCall

\* Valkey or the database fails, or the process dies: a 5xx or nothing.
Fail(c) ==
    /\ call[c].at \in {"asked", "taken", "persist", "publish", "remember"}
    /\ trouble < MaxTrouble /\ trouble' = trouble + 1
    /\ ServerMoves(c, "failed")
    /\ raced' = raced \cup {call[c].batch}
    /\ UNCHANGED <<track, remembered, inside, presence, arrivals>>
    /\ OnlyCall

Unheard(c) ==
    /\ call[c].at \in {"accepted", "outside", "failed"} /\ ~call[c].heard
    /\ call' = [call EXCEPT ![c] = NoCall]
    /\ UNCHANGED <<track, remembered, inside, presence, arrivals, raced, trouble>>
    /\ OnlyCall

-----------------------------------------------------------------------------
TelemetryInit ==
    /\ open = 0 /\ shifts = 0
    /\ points = <<>> /\ queued = {} /\ tracking = 0 /\ refresh = NoRefresh
    /\ up = [u \in Runtimes |-> Waiting] /\ batches = 0
    /\ call = [c \in Calls |-> NoCall]
    /\ track = <<>> /\ remembered = {} /\ inside = FALSE /\ presence = 0 /\ arrivals = 0
    /\ raced = {} /\ refused = {} /\ trouble = 0

IngestStep(c) ==
    \/ Gate(c) \/ Present(c) \/ PersistInside(c) \/ PublishArrivals(c)
    \/ Remember(c) \/ Unheard(c)

TelemetryNext ==
    \/ \E phoneToo \in BOOLEAN : StartShift(phoneToo) \/ EndShift(phoneToo)
    \/ RefreshShift \/ Reconcile
    \/ \E near \in BOOLEAN : Capture(near)
    \/ \E u \in Runtimes : Upload(u) \/ Heard(u) \/ StopTracking(u) \/ GiveUp(u)
    \/ \E c \in Calls : IngestStep(c) \/ Fail(c)

TelemetrySafety == TelemetryInit /\ [][TelemetryNext]_telemetryVars

\* The screen refreshes on a timer, and what was called is answered.
TelemetryFairness ==
    /\ WF_telemetryVars(RefreshShift) /\ WF_telemetryVars(Reconcile)
    /\ \A u \in Runtimes :
        WF_telemetryVars(Heard(u)) /\ WF_telemetryVars(StopTracking(u))
    /\ \A c \in Calls : WF_telemetryVars(IngestStep(c))

TelemetrySpec == TelemetrySafety /\ TelemetryFairness

-----------------------------------------------------------------------------
(* Properties *)

\* Points, uploads and calls have their types.
TelemetryTypeOK ==
    /\ open \in 0..shifts /\ shifts \in 0..MaxShifts
    /\ points \in Seq([shift : 1..MaxShifts, batch : 0..batches, near : BOOLEAN])
    /\ queued \cup refused \subseteq Captured
    /\ tracking \in 0..shifts /\ refresh \in {NoRefresh} \cup 0..shifts
    /\ up \in [Runtimes -> [at : {"idle", "calling", "stopping"}, batch : 0..batches,
                            call : Calls \cup {Nothing}]]
    /\ call \in [Calls -> [at : {"free", "asked", "taken", "persist", "publish", "remember",
                                  "accepted", "outside", "failed"},
                            batch : 0..batches, points : SUBSET Captured,
                            near : BOOLEAN \cup {Nothing}, entries : Nat, heard : BOOLEAN]]
    /\ track \in Seq(Captured)
    /\ remembered \cup raced \subseteq 1..batches
    /\ inside \in BOOLEAN /\ presence \in 0..Len(points) /\ arrivals \in Nat
    /\ batches \in Nat /\ trouble \in 0..MaxTrouble

Times(p) == Cardinality({i \in DOMAIN track : track[i] = p})

\* A point leaves the phone only when the server has taken it or turned it down
\* (telemetry.ts, "loses nothing already captured"), whoever dies meanwhile.
NoPointIsLost == \A p \in Captured : p \in queued \cup refused \/ Times(p) > 0

\* A retry is the same batch and is not taken again: a position is stored twice
\* only if two calls worked on its batch at once, or one gave up half-way.
TakenTwiceOnlyIfRaced == \A p \in Captured : Times(p) > 1 => points[p].batch \in raced

Enters(seq) ==
    {i \in DOMAIN seq : points[seq[i]].near /\ (i = 1 \/ ~points[seq[i - 1]].near)}

Quiet == \A c \in Calls : call[c].at \in {"free", "accepted", "outside"}

\* Batch by batch the server arrives at what the whole track says: one arrival
\* per entry, where the driver is now, and whether he is inside; as long as no
\* batch was raced.
LiveStateIsTheTrack ==
    Quiet /\ raced = {} /\ track # <<>> =>
        /\ arrivals = Cardinality(Enters(track))
        /\ inside = points[track[Len(track)]].near
        /\ presence = track[Len(track)]

\* Once the shifts change no more, the phone tracks the open shift, or none,
\* whatever late answers told it to stop.
TrackingFollowsShift == <>[](tracking = open)

\* What tracker.ts says of two runtimes that upload at once: a batch keeps its
\* id, and the server de-duplicates on it.  The guard is read first and written
\* last.
TakenOnce == \A p \in Captured : Times(p) <= 1
=============================================================================
