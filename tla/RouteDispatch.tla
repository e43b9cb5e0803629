--------------------------- MODULE RouteDispatch ---------------------------
(***************************************************************************)
(* Routes and their stops (RouteService) with the driver devices that      *)
(* settle the stops (DriverSyncService).  A call on a route reads it in    *)
(* one transaction and writes it, by id alone, in a later one, with an     *)
(* event per parcel between; so every call is a little program, and the    *)
(* steps of the calls interleave with each other, with the commands on the *)
(* parcels and with the devices.  A parcel is planned by its one leg.      *)
(* The -Mutant operators are wrong on purpose: the code with one fault in  *)
(* it, to show that a property notices.  Nothing here uses them.           *)
(***************************************************************************)
EXTENDS ShipmentStatus, Naturals, Sequences, FiniteSets

CONSTANTS
    Routes,
    Legs,         \* the delivery leg of each parcel
    Door,         \* Door[l]: the address leg l goes to
    Dispatchers,  \* staff who plan, publish, run and cancel routes
    Drivers,      \* drivers who start and complete their own route
    DriverOf,     \* DriverOf[r]: the driver route r was created with
    OtherEvents,  \* bound: events that reach the parcels from elsewhere
    MaxStops,     \* bound: stops inserted in a behaviour
    MaxFaults,    \* bound: calls and syncs that die half-way
    Nobody        \* the carrier of a parcel no route took out

ASSUME DispatchAssumption ==
    /\ DOMAIN Door = Legs
    /\ DriverOf \in [Routes -> Drivers]
    /\ OtherEvents \subseteq EventTypes \ {"out_for_delivery"}
    /\ MaxStops \in Nat /\ MaxFaults \in Nat

VARIABLES
    route,    \* route[r]: routes.status
    stops,    \* route_stops in the order of insertion
    parcel,   \* parcel[l]: shipments.status of the leg's parcel
    call,     \* call[c]: the RouteService call c is inside
    facts,    \* keys of the events recorded: one per stop or route and leg
    carrier,  \* carrier[l]: the driver who last took the parcel out
    item,     \* item[l]: the outcome of the parcel the device has to sync
    faults

vars == <<route, stops, parcel, call, facts, carrier, item, faults>>

Callers == Dispatchers \cup Drivers

RouteStatuses == {"DRAFT", "PUBLISHED", "IN_PROGRESS", "COMPLETED", "CANCELLED"}
Ended == {"COMPLETED", "CANCELLED"}

\* canRouteTransition; nothing ever writes OPTIMIZING.
RouteMayBecome(r, status) ==
    <<route[r], status>> \in
        {<<"DRAFT", "PUBLISHED">>, <<"PUBLISHED", "IN_PROGRESS">>, <<"IN_PROGRESS", "COMPLETED">>,
         <<"DRAFT", "CANCELLED">>, <<"PUBLISHED", "CANCELLED">>, <<"IN_PROGRESS", "CANCELLED">>}

Open == {"PENDING", "ARRIVED"}
Settled == {"COMPLETED", "FAILED", "SKIPPED"}

\* STOP_OUTCOME_STATUSES.
Outcomes == {"DELIVERED", "ATTEMPT_FAILED", "RETURN_PENDING", "RETURNED", "CANCELLED"}

StopsOf(r) == {i \in DOMAIN stops : stops[i].route = r /\ stops[i].status # "REMOVED"}
LegsOf(r) == UNION {stops[i].legs : i \in StopsOf(r)}

\* The legs whose parcel the state machine lets have the event.
Allowed(legs, type) == {l \in legs : CheckTransition(parcel[l], type) = "allowed"}

Idle == [at |-> "idle"]
Inside(at, r, legs, seen) == [at |-> at, route |-> r, legs |-> legs, stops |-> seen]

Enter(c, at, r, legs, seen) ==
    /\ call[c] = Idle
    /\ call' = [call EXCEPT ![c] = Inside(at, r, legs, seen)]
    /\ UNCHANGED <<route, stops, parcel, facts, carrier, item, faults>>

Leave(c) == call' = [call EXCEPT ![c] = Idle]
At(c, at) == call[c].at = at

\* The write of a route's status, which no call makes conditional on the status
\* it read.
SetStatus(c, status) == route' = [route EXCEPT ![call[c].route] = status]

-----------------------------------------------------------------------------
(* Planning: addStops, removeStops, optimize *)

\* getById and assertDraft; what the route's stops are is read later.
BeginEdit(c, r, at, legs) == route[r] = "DRAFT" /\ Enter(c, at, r, legs, {})

\* The legs of one call go to one door here.
BeginAdd(c, r, legs) ==
    /\ legs # {} /\ \A l, m \in legs : Door[l] = Door[m]
    /\ Len(stops) + Cardinality({d \in Callers : call[d].at \in {"adding", "inserting"}}) < MaxStops
    /\ BeginEdit(c, r, "adding", legs)

PlannedElsewhereMutant(r, legs) == FALSE

\* assertLegsNotPlannedElsewhere.
PlannedElsewhere(r, legs) ==
    \E other \in Routes \ {r} : legs \cap LegsOf(other) # {} /\ route[other] # "CANCELLED"

\* The write transaction reads the other routes and the stops there are, and
\* looks for a stop at the leg's door.
PlanAdd(c) ==
    LET r == call[c].route
        legs == call[c].legs
        there == {i \in StopsOf(r) : \E l \in legs : stops[i].door = Door[l]}
    IN /\ At(c, "adding")
       /\ call' = [call EXCEPT ![c] =
                     IF PlannedElsewhere(r, legs) THEN Idle
                     ELSE IF there = {} THEN Inside("inserting", r, legs, StopsOf(r))
                     ELSE LET i == CHOOSE i \in there : TRUE
                          IN Inside("merging", r, stops[i].legs \cup legs, {i})]
       /\ UNCHANGED <<route, stops, parcel, facts, carrier, item, faults>>

\* route_stops_route_sequence_uq, checked when the transaction commits.
SequenceUnique(rows) ==
    \A i, j \in DOMAIN rows :
        i # j /\ rows[i].route = rows[j].route /\ rows[i].seq = rows[j].seq =>
            "REMOVED" \in {rows[i].status, rows[j].status}

CommitStops(c, rows) ==
    /\ stops' = IF SequenceUnique(rows) THEN rows ELSE stops
    /\ Leave(c)
    /\ UNCHANGED <<route, parcel, facts, carrier, item, faults>>

CommitInsert(c) ==
    LET l == CHOOSE leg \in call[c].legs : TRUE
        new == [route |-> call[c].route, door |-> Door[l], legs |-> call[c].legs, status |-> "PENDING",
                locked |-> FALSE, seq |-> Cardinality(call[c].stops)]
    IN /\ At(c, "inserting")
       /\ CommitStops(c, Append(stops, new))

\* It overwrites the leg_ids of the stop it saw with what it saw and its leg.
CommitMerge(c) ==
    /\ At(c, "merging")
    /\ CommitStops(c, [i \in DOMAIN stops |->
                         IF i \in call[c].stops THEN [stops[i] EXCEPT !.legs = call[c].legs]
                         ELSE stops[i]])

BeginRemove(c, r) == StopsOf(r) # {} /\ BeginEdit(c, r, "removing", {})

\* One of the route's stops goes, if it is still there; the others close ranks.
CommitRemove(c, i) ==
    /\ At(c, "removing")
    /\ stops[i].route = call[c].route
    /\ CommitStops(c, [j \in DOMAIN stops |->
                         IF j = i THEN [stops[j] EXCEPT !.status = "REMOVED"]
                         ELSE IF j \in StopsOf(call[c].route)
                         THEN [stops[j] EXCEPT !.seq = Cardinality(
                                 {k \in StopsOf(call[c].route) \ {i} : stops[k].seq < stops[j].seq})]
                         ELSE stops[j]])

\* Without the solver the order read is kept; with it, any order may come back.
BeginOptimize(c, r) == route[r] = "DRAFT" /\ Enter(c, "optimising", r, {}, StopsOf(r))

CommitOptimize(c) ==
    /\ At(c, "optimising")
    /\ \E order \in [call[c].stops -> 0 .. Cardinality(call[c].stops) - 1] :
          /\ \A i, j \in call[c].stops : i # j => order[i] # order[j]
          /\ CommitStops(c, [i \in DOMAIN stops |->
                               IF i \in call[c].stops /\ stops[i].status # "REMOVED"
                               THEN [stops[i] EXCEPT !.seq = order[i]] ELSE stops[i]])

-----------------------------------------------------------------------------
(* publish *)

BeginPublish(c, r) == RouteMayBecome(r, "PUBLISHED") /\ Enter(c, "publishing", r, {}, {})

DriverBusy(r) == \E other \in Routes : DriverOf[other] = DriverOf[r] /\ route[other] = "IN_PROGRESS"

ToAssignMutant(r) == {}

\* The legs whose parcel the state machine lets become ASSIGNED.
ToAssign(r) == Allowed(LegsOf(r), "assigned")

ListToAssign(c) ==
    LET r == call[c].route
    IN /\ At(c, "publishing")
       /\ call' = [call EXCEPT ![c] =
                     IF DriverBusy(r) THEN Idle ELSE Inside("assigning", r, ToAssign(r), StopsOf(r))]
       /\ UNCHANGED <<route, stops, parcel, facts, carrier, item, faults>>

\* recordEvent on one of the listed parcels, under its row's lock: a fact
\* recorded before is replayed, an event the parcel no longer allows throws and
\* ends the call.
Record(c, l, type, fact) ==
    LET refused == fact \notin facts /\ CheckTransition(parcel[l], type) # "allowed"
        fresh == fact \notin facts /\ ~refused
    IN /\ l \in call[c].legs
       /\ parcel' = IF fresh THEN [parcel EXCEPT ![l] = TargetStatus(type, @)] ELSE parcel
       /\ facts' = IF fresh THEN facts \cup {fact} ELSE facts
       /\ call' = IF refused THEN [call EXCEPT ![c] = Idle] ELSE [call EXCEPT ![c].legs = @ \ {l}]
       /\ carrier' = IF fresh /\ type = "out_for_delivery"
                     THEN [carrier EXCEPT ![l] = DriverOf[call[c].route]] ELSE carrier
       /\ UNCHANGED <<route, stops, item, faults>>

\* The key names the stop the leg was listed at.
Assign(c, l) ==
    /\ At(c, "assigning")
    /\ \E i \in call[c].stops :
          l \in stops[i].legs /\ Record(c, l, "assigned", <<"assign", i, l>>)

CommitPublish(c) ==
    /\ At(c, "assigning") /\ call[c].legs = {}
    /\ SetStatus(c, "PUBLISHED")
    /\ stops' = [i \in DOMAIN stops |->
                   IF i \in StopsOf(call[c].route) THEN [stops[i] EXCEPT !.locked = TRUE] ELSE stops[i]]
    /\ Leave(c)
    /\ UNCHANGED <<parcel, facts, carrier, item, faults>>

-----------------------------------------------------------------------------
(* start, complete, cancel *)

\* A driver runs the routes that are theirs.
MayRun(c, r) == c \in Drivers => c = DriverOf[r]

BeginStart(c, r) ==
    MayRun(c, r) /\ RouteMayBecome(r, "IN_PROGRESS") /\ Enter(c, "starting", r, {}, {})

\* routes_one_in_progress_per_driver_uq refuses a driver's second route.
CommitStart(c) ==
    LET r == call[c].route
        taken == \E other \in Routes \ {r} : DriverOf[other] = DriverOf[r] /\ route[other] = "IN_PROGRESS"
    IN /\ At(c, "starting")
       /\ IF taken THEN UNCHANGED route /\ Leave(c)
          ELSE SetStatus(c, "IN_PROGRESS") /\ call' = [call EXCEPT ![c].at = "started"]
       /\ UNCHANGED <<stops, parcel, facts, carrier, item, faults>>

\* The parcels that go out are listed once the route is under way.
ListAboard(c) ==
    /\ At(c, "started")
    /\ call' = [call EXCEPT ![c].at = "departing",
                            ![c].legs = Allowed(LegsOf(call[c].route), "out_for_delivery")]
    /\ UNCHANGED <<route, stops, parcel, facts, carrier, item, faults>>

Depart(c, l) ==
    /\ At(c, "departing")
    /\ Record(c, l, "out_for_delivery", <<"ofd", call[c].route, l>>)

EndStart(c) ==
    /\ At(c, "departing") /\ call[c].legs = {}
    /\ Leave(c)
    /\ UNCHANGED <<route, stops, parcel, facts, carrier, item, faults>>

BeginComplete(c, r) ==
    MayRun(c, r) /\ RouteMayBecome(r, "COMPLETED") /\ Enter(c, "completing", r, {}, {})

AllSettledMutant(r) == TRUE

AllSettled(r) == \A i \in StopsOf(r) : stops[i].status \in Settled

CheckStops(c) ==
    /\ At(c, "completing")
    /\ call' = [call EXCEPT ![c] = IF AllSettled(@.route) THEN [@ EXCEPT !.at = "closing"] ELSE Idle]
    /\ UNCHANGED <<route, stops, parcel, facts, carrier, item, faults>>

CommitEnd(c, at, status) ==
    /\ At(c, at)
    /\ SetStatus(c, status)
    /\ Leave(c)
    /\ UNCHANGED <<stops, parcel, facts, carrier, item, faults>>

CommitComplete(c) == CommitEnd(c, "closing", "COMPLETED")

BeginCancel(c, r) == RouteMayBecome(r, "CANCELLED") /\ Enter(c, "cancelling", r, {}, {})

\* Neither the stops nor the parcels are touched.
CommitCancel(c) == CommitEnd(c, "cancelling", "CANCELLED")

-----------------------------------------------------------------------------
(* The parcels and the drivers' devices *)

\* A command of staff or of the hubs that the state machine allows, with or
\* without the owner's authority; Shipment has the whole of it.
ParcelEvent(l, type) ==
    /\ CheckTransition(parcel[l], type) # "rejected"
    /\ parcel' = [parcel EXCEPT ![l] = TargetStatus(type, @)]
    /\ UNCHANGED <<route, stops, call, facts, carrier, item, faults>>

Item(at, type) == [at |-> at, type |-> type, applied |-> FALSE, open |-> {}, now |-> {}]
NoItem == Item("none", "none")

UpdateItem(l, value) ==
    /\ item' = [item EXCEPT ![l] = value]
    /\ UNCHANGED <<route, call, facts, carrier>>

\* The driver records an outcome on the device, on line or not.
Act(l, type) ==
    /\ item[l] = NoItem /\ carrier[l] \in Drivers
    /\ <<parcel[l], type>> \in {<<"OUT_FOR_DELIVERY", "delivered">>,
                                <<"OUT_FOR_DELIVERY", "delivery_failed">>,
                                <<"RETURN_PENDING", "returned">>}
    /\ UpdateItem(l, Item("queued", type))
    /\ UNCHANGED <<stops, parcel, faults>>

\* A failed attempt may start the return in the same transaction.
OutcomeOf(l, type) ==
    {TargetStatus(type, parcel[l])} \cup (IF type = "delivery_failed" THEN {"RETURN_PENDING"} ELSE {})

AppliedMutant(it) == [it EXCEPT !.at = "applied"]

\* The server holds the command's key from now on.
Applied(it) == [it EXCEPT !.at = "applied", !.applied = TRUE]

\* The item is synced: the command on the parcel commits, or is replayed, or is
\* refused and the device drops the item.
Sync(l) ==
    LET it == item[l]
        legal == CheckTransition(parcel[l], it.type) = "allowed"
    IN /\ it.at = "queued"
       /\ \/ it.applied /\ UNCHANGED parcel /\ UpdateItem(l, Applied(it))
          \/ /\ ~it.applied /\ legal
             /\ \E status \in OutcomeOf(l, it.type) : parcel' = [parcel EXCEPT ![l] = status]
             /\ UpdateItem(l, Applied(it))
          \/ ~it.applied /\ ~legal /\ UNCHANGED parcel /\ UpdateItem(l, NoItem)
       /\ UNCHANGED <<stops, faults>>

\* settleStopsForShipment, in the driver's own scope: the open stops first,
\* each with the legs it has then.
FindStops(l) ==
    LET open == {i \in DOMAIN stops :
                    /\ stops[i].status \in Open /\ l \in stops[i].legs
                    /\ route[stops[i].route] = "IN_PROGRESS"
                    /\ DriverOf[stops[i].route] = carrier[l]}
    IN /\ item[l].at = "applied"
       /\ UpdateItem(l, [item[l] EXCEPT !.at = "settling",
                           !.open = {[stop |-> i, legs |-> stops[i].legs] : i \in open}])
       /\ UNCHANGED <<stops, parcel, faults>>

EveryOutcomeInMutant(legs) == TRUE

EveryOutcomeIn(legs) == \A l \in legs : parcel[l] \in Outcomes

\* One of them: its parcels are read in a transaction of their own.
ReadStop(l, s) ==
    /\ item[l].at = "settling" /\ s \in item[l].open
    /\ UpdateItem(l,
          IF EveryOutcomeIn(s.legs)
          THEN [item[l] EXCEPT !.at = IF \E m \in s.legs : parcel[m] = "DELIVERED"
                                     THEN "completing" ELSE "failing",
                               !.now = {s}]
          ELSE [item[l] EXCEPT !.open = @ \ {s}])
    /\ UNCHANGED <<stops, parcel, faults>>

\* Under the stop's lock, and only while it is still open.
SettleStop(l, s) ==
    LET outcome == IF item[l].at = "completing" THEN "COMPLETED" ELSE "FAILED"
    IN /\ item[l].at \in {"completing", "failing"} /\ s \in item[l].now
       /\ stops' = IF stops[s.stop].status \in Open
                    THEN [stops EXCEPT ![s.stop].status = outcome] ELSE stops
       /\ UpdateItem(l, [item[l] EXCEPT !.at = "settling", !.open = @ \ {s}, !.now = {}])
       /\ UNCHANGED <<parcel, faults>>

\* The answer reaches the device and the item leaves its queue.
EndSync(l) ==
    /\ item[l].at = "settling" /\ item[l].open = {}
    /\ UpdateItem(l, NoItem)
    /\ UNCHANGED <<stops, parcel, faults>>

-----------------------------------------------------------------------------
(* Crashes *)

LoseCall(c) ==
    /\ call[c] # Idle /\ faults < MaxFaults
    /\ faults' = faults + 1
    /\ Leave(c)
    /\ UNCHANGED <<route, stops, parcel, facts, carrier, item>>

ResendMutant(l) == NoItem

\* The device has no answer, so it keeps the item and sends it again.
Resend(l) == [item[l] EXCEPT !.at = "queued", !.open = {}, !.now = {}]

LoseSync(l) ==
    /\ item[l].at \notin {"none", "queued"} /\ faults < MaxFaults
    /\ faults' = faults + 1
    /\ UpdateItem(l, Resend(l))
    /\ UNCHANGED <<stops, parcel>>

-----------------------------------------------------------------------------
\* A delivery leg to plan belongs to a parcel still at the merchant's, or to one
\* in custody that is back for another leg.
Init ==
    /\ route = [r \in Routes |-> "DRAFT"]
    /\ stops = <<>>
    /\ parcel \in [Legs -> {"CREATED", "AT_HUB"}]
    /\ call = [c \in Callers |-> Idle]
    /\ facts = {}
    /\ carrier = [l \in Legs |-> Nobody]
    /\ item = [l \in Legs |-> NoItem]
    /\ faults = 0

Plan(c) ==
    \E r \in Routes : \/ BeginRemove(c, r) \/ BeginOptimize(c, r)
                      \/ BeginPublish(c, r) \/ BeginCancel(c, r)
                      \/ \E legs \in SUBSET Legs : BeginAdd(c, r, legs)

Run(c) == \E r \in Routes : BeginStart(c, r) \/ BeginComplete(c, r)

Continue(c) ==
    \/ PlanAdd(c) \/ CommitInsert(c) \/ CommitMerge(c) \/ CommitOptimize(c)
    \/ \E i \in DOMAIN stops : CommitRemove(c, i)
    \/ ListToAssign(c) \/ CommitPublish(c)
    \/ CommitStart(c) \/ ListAboard(c) \/ EndStart(c)
    \/ CheckStops(c) \/ CommitComplete(c) \/ CommitCancel(c)
    \/ \E l \in Legs : Assign(c, l) \/ Depart(c, l)

SyncStep(l) ==
    \/ Sync(l) \/ FindStops(l) \/ EndSync(l)
    \/ \E s \in item[l].open : ReadStop(l, s) \/ SettleStop(l, s)

Next ==
    \/ \E c \in Dispatchers : Plan(c)
    \/ \E c \in Callers : Run(c) \/ Continue(c) \/ LoseCall(c)
    \/ \E l \in Legs : SyncStep(l) \/ LoseSync(l)
    \/ \E l \in Legs : \E type \in {"delivered", "delivery_failed", "returned"} : Act(l, type)
    \/ \E l \in Legs : \E type \in OtherEvents : ParcelEvent(l, type)

Spec == Init /\ [][Next]_vars

\* A call that runs goes on, and a device with a queue syncs; nobody has to
\* begin a call or to act on a parcel.
FairSpec == /\ Spec
            /\ \A c \in Callers : WF_vars(Continue(c))
            /\ \A l \in Legs : WF_vars(SyncStep(l))

-----------------------------------------------------------------------------
(* Properties *)

CallPlaces ==
    {"idle", "adding", "inserting", "merging", "removing", "optimising", "publishing", "assigning",
     "starting", "started", "departing", "completing", "closing", "cancelling"}

SyncPlaces == {"none", "queued", "applied", "settling", "completing", "failing"}

\* Every row, call and queued item keeps its type; an item past its command is
\* one whose command took effect.
TypeOK ==
    /\ route \in [Routes -> RouteStatuses]
    /\ DOMAIN stops \subseteq 1 .. MaxStops
    /\ \A i \in DOMAIN stops :
          /\ stops[i].route \in Routes /\ stops[i].legs \subseteq Legs
          /\ stops[i].status \in Open \cup Settled \cup {"REMOVED"}
          /\ stops[i].locked \in BOOLEAN /\ stops[i].seq \in 0 .. MaxStops
    /\ parcel \in [Legs -> Statuses]
    /\ \A c \in Callers : call[c].at \in CallPlaces
    /\ carrier \in [Legs -> Drivers \cup {Nobody}]
    /\ \A l \in Legs : item[l].at \in SyncPlaces /\ (item[l].at \notin {"none", "queued"} => item[l].applied)
    /\ faults \in 0 .. MaxFaults

\* A driver never gets a route with a parcel nobody assigned on it, wherever
\* publish died the times before.
PublishedIsAssigned ==
    \A r \in Routes : route[r] \in {"PUBLISHED", "IN_PROGRESS", "COMPLETED"} =>
        \A l \in LegsOf(r) : parcel[l] # "CREATED"

\* Two routes that wait for a driver never hold the same leg.
PlannedOnce ==
    \A r, other \in Routes :
        r # other /\ route[r] \in {"DRAFT", "PUBLISHED"} /\ route[other] \in {"DRAFT", "PUBLISHED"} =>
            LegsOf(r) \cap LegsOf(other) = {}

\* complete reads the stops and then writes the route: no stop of a completed
\* route is open all the same.
CompletedRouteIsSettled == \A r \in Routes : route[r] = "COMPLETED" =>
                              \A i \in StopsOf(r) : stops[i].status \in Settled

\* settleStopsForShipment judges from what it read before the lock, and the other
\* parcels of the stop move on meanwhile: it is still settled COMPLETED exactly
\* when one of them is delivered.
StopTellsTheTruth ==
    [][\A i \in DOMAIN stops : stops[i].status \in Open /\ stops'[i].status \in Settled =>
          (stops'[i].status = "COMPLETED" <=> \E l \in stops[i].legs : parcel[l] = "DELIVERED")]_vars

HasOutcome(i) ==
    stops[i].status \in Open /\ route[stops[i].route] = "IN_PROGRESS" /\ EveryOutcomeIn(stops[i].legs)

\* settleStopsForShipment: while no route is cancelled, a stop whose every parcel
\* has an outcome is settled in the end, whichever sync came last and however
\* often it died and was sent again.
StopSettles ==
    [](\A r \in Routes : route[r] # "CANCELLED") =>
        \A i \in 1 .. MaxStops :
            (i \in DOMAIN stops /\ HasOutcome(i)) ~> ~(i \in DOMAIN stops /\ HasOutcome(i))

-----------------------------------------------------------------------------
(* What the repository says of the program and the code does not do *)

\* route-status.ts: terminal route states accept no further transitions.
TerminalRouteIsFinal ==
    [][\A r \in Routes : route[r] \in Ended => route'[r] = route[r]]_vars

\* assertLegsNotPlannedElsewhere: a leg is on one route that is not over.
LegOnOneLiveRoute ==
    \A r, other \in Routes :
        r # other /\ route[r] \notin Ended /\ route[other] \notin Ended =>
            LegsOf(r) \cap LegsOf(other) = {}

\* The same guard: what it refuses is a leg on another active route.
OnlyActiveRoutesHoldALeg ==
    [][\A c \in Callers : At(c, "adding") /\ call'[c] = Idle /\ faults' = faults =>
          \E r \in Routes \ {call[c].route} : call[c].legs \cap LegsOf(r) # {} /\ route[r] \notin Ended]_vars

\* Domain model, RouteStop rule 5: a locked stop of a route under way is not
\* resequenced.
LockedStopsKeepTheirPlace ==
    [][\A i \in DOMAIN stops : stops[i].locked /\ route[stops[i].route] = "IN_PROGRESS" =>
          stops'[i].seq = stops[i].seq]_vars

\* DriverSyncService.startRoute: the parcels on the started route go out for
\* delivery, unless the route is over before they do.
AboardGoesOut ==
    \A r \in Routes, l \in Legs :
        (\E c \in Callers : At(c, "departing") /\ call[c].route = r /\ l \in call[c].legs)
            ~> (parcel[l] \notin {"PICKED_UP", "AT_HUB"} \/ route[r] # "IN_PROGRESS")
=============================================================================
