--------------------------- MODULE DispatchProofs ---------------------------
(***************************************************************************)
(* What dispatch promises, for any routes, legs, parcels, calls at once    *)
(* and troubles: first the routes (RouteDispatch), then the outbox of the  *)
(* driver's phone and the sync it is flushed to (DriverOutbox).            *)
(*                                                                         *)
(* PlanInv says what each call on a route may rely on between its          *)
(* transactions (CallTrue).  The guard against a leg on two routes and the *)
(* list of parcels to assign are read in one transaction and acted on in   *)
(* later ones, and nothing locks the route between: both hold for one      *)
(* dispatcher, which is what the theorems say.                             *)
(*                                                                         *)
(* OInv says what every part of a flush may rely on: each action of the    *)
(* log is true (RowTrue), each request carries a batch that is in order    *)
(* and whose answers are so (Carries), and the phone settles only what the *)
(* server has done (SettlesTruth).  A request the phone has given up still *)
(* carries the same, so a retry of its batch is not a new case.            *)
(***************************************************************************)
EXTENDS RouteDispatch, DriverOutbox, FiniteSetTheorems, WellFoundedInduction, TLAPS

-----------------------------------------------------------------------------
(* Routes: the inductive invariant *)

\* One dispatcher plans at a time: addStops checks a leg in one transaction and
\* writes it in another.
OneDispatcher == \A c, d \in Dispatchers : c = d

Waiting == {"DRAFT", "PUBLISHED"}
Shaping == {"adding", "inserting", "merging", "removing", "optimising", "publishing", "assigning"}
Running == {"starting", "started", "departing", "completing", "closing"}

StopRow ==
    [route : Routes, door : {Door[l] : l \in Legs}, legs : SUBSET Legs,
     status : Open \cup Settled \cup {"REMOVED"}, locked : BOOLEAN, seq : Nat]
CallRow ==
    [at : Shaping \cup Running \cup {"cancelling"}, route : Routes, legs : SUBSET Legs,
     stops : SUBSET Nat]

DispatchRows ==
    /\ route \in [Routes -> RouteStatuses]
    /\ stops \in Seq(StopRow)
    /\ parcel \in [Legs -> Statuses]
    /\ call \in [Callers -> {Idle} \cup CallRow]

IsAssigned(legs) == \A l \in legs : parcel[l] # "CREATED"

\* Only the dispatcher shapes a route, while it is a draft, ...
ShapesADraft(c) ==
    /\ At(c, "cancelling") \/ call[c].at \in Shaping => c \in Dispatchers
    /\ call[c].at \in Shaping => route[call[c].route] = "DRAFT"
    /\ call[c].at \in {"adding", "inserting"} => call[c].legs # {}

\* ... writes legs that no other route waits with, to stops that are the route's ...
AddsFreeLegs(c) ==
    call[c].at \in {"inserting", "merging"} =>
        \A other \in Routes \ {call[c].route} :
            route[other] \in Waiting => LegsOf(other) \cap call[c].legs = {}

KnowsItsStops(c) ==
    /\ call[c].at \in {"inserting", "merging", "optimising", "assigning"} =>
          call[c].stops \subseteq DOMAIN stops
    /\ At(c, "merging") => \A i \in call[c].stops : stops[i].route = call[c].route

\* ... has yet to assign what it has not assigned, and who runs a route runs one
\* that was published.
AssignsTheRest(c) ==
    /\ At(c, "assigning") => IsAssigned(LegsOf(call[c].route) \ call[c].legs)
    /\ call[c].at \in Running =>
          route[call[c].route] # "DRAFT" /\ IsAssigned(LegsOf(call[c].route))

CallTrue(c) == ShapesADraft(c) /\ AddsFreeLegs(c) /\ KnowsItsStops(c) /\ AssignsTheRest(c)

\* An assignment on record was one.
FactsTrue == \A i \in Nat, l \in Legs : <<"assign", i, l>> \in facts => parcel[l] # "CREATED"

PlanInv ==
    /\ DispatchRows /\ (\A c \in Callers : CallTrue(c)) /\ FactsTrue
    /\ PublishedIsAssigned /\ PlannedOnce

-----------------------------------------------------------------------------
(* Routes: what a step may do *)

ParcelsMoveOn == \A l \in Legs : parcel'[l] = "CREATED" => parcel[l] = "CREATED"
StopsStay == DOMAIN stops \subseteq DOMAIN stops' /\ \A i \in DOMAIN stops : stops'[i].route = stops[i].route
LegsFixed == \A r \in Routes : LegsOf(r)' \subseteq LegsOf(r)
ShapedLegsFixed == \A r \in Routes : route[r] # "DRAFT" => LegsOf(r)' \subseteq LegsOf(r)
RoutesMoveOn ==
    \A r \in Routes : /\ route'[r] \in Waiting => route[r] \in Waiting
                      /\ route[r] # "DRAFT" => route'[r] # "DRAFT"
DraftsStay == \A r \in Routes : route[r] = "DRAFT" => route'[r] = "DRAFT"

LEMMA LegsOfIs ==
    ASSUME NEW r, NEW l
    PROVE  /\ l \in LegsOf(r) <=> \E i \in DOMAIN stops :
                /\ stops[i].route = r /\ stops[i].status # "REMOVED" /\ l \in stops[i].legs
           /\ l \in LegsOf(r)' <=> \E i \in DOMAIN stops' :
                /\ stops'[i].route = r /\ stops'[i].status # "REMOVED" /\ l \in stops'[i].legs
  BY DEF LegsOf, StopsOf

LEMMA StopIs ==
    ASSUME DispatchRows
    PROVE  /\ DOMAIN stops = 1..Len(stops) /\ Len(stops) \in Nat
           /\ \A i \in DOMAIN stops : stops[i] \in StopRow /\ i \in Nat /\ stops[i].legs \subseteq Legs
<1>1. PICK S : S = StopRow
  OBVIOUS
<1>2. \A row \in S : row.legs \subseteq Legs
  BY <1>1 DEF StopRow
<1>3. stops \in Seq(S)
  BY <1>1 DEF DispatchRows
<1> QED
  BY <1>1, <1>2, <1>3

LEMMA LegsAreLegs ==
    ASSUME DispatchRows, NEW r
    PROVE  LegsOf(r) \subseteq Legs
<1>1. \A i \in DOMAIN stops : stops[i].legs \subseteq Legs
  BY StopIs
<1> QED
  BY <1>1, LegsOfIs

LEMMA LegsGrow ==
    ASSUME NEW r, NEW more,
           \A i \in DOMAIN stops' :
              stops'[i].route = r /\ stops'[i].status # "REMOVED" =>
                 stops'[i].legs \subseteq LegsOf(r) \cup more
    PROVE  LegsOf(r)' \subseteq LegsOf(r) \cup more
<1>1. ASSUME NEW l \in LegsOf(r)' PROVE l \in LegsOf(r) \cup more
  <2>1. PICK i \in DOMAIN stops' :
           stops'[i].route = r /\ stops'[i].status # "REMOVED" /\ l \in stops'[i].legs
    BY LegsOfIs
  <2> QED
    BY <2>1
<1> QED
  BY <1>1

\* A stop that keeps its legs, or goes.
LEMMA LegsKept ==
    ASSUME NEW r,
           \A i \in DOMAIN stops' :
              stops'[i].route = r /\ stops'[i].status # "REMOVED" =>
                 /\ i \in DOMAIN stops /\ stops[i].route = r /\ stops[i].status # "REMOVED"
                 /\ stops'[i].legs = stops[i].legs
    PROVE  LegsOf(r)' \subseteq LegsOf(r)
<1>1. ASSUME NEW l \in LegsOf(r)' PROVE l \in LegsOf(r)
  <2>1. PICK i \in DOMAIN stops' :
           stops'[i].route = r /\ stops'[i].status # "REMOVED" /\ l \in stops'[i].legs
    BY LegsOfIs
  <2>2. i \in DOMAIN stops /\ stops[i].route = r /\ stops[i].status # "REMOVED" /\ l \in stops[i].legs
    BY <2>1
  <2> QED
    BY <2>2, LegsOfIs
<1> QED
  BY <1>1

LEMMA SameStops ==
    ASSUME stops' = stops
    PROVE  StopsStay /\ LegsFixed /\ ShapedLegsFixed
  BY DEF StopsStay, LegsFixed, ShapedLegsFixed, LegsOf, StopsOf

LEMMA SameRoutes ==
    ASSUME route' = route
    PROVE  RoutesMoveOn /\ DraftsStay
  BY DEF RoutesMoveOn, DraftsStay

\* No event makes a parcel new again.
LEMMA EventsMoveOn ==
    ASSUME NEW type, NEW s
    PROVE  /\ TargetStatus(type, s) = "CREATED" => s = "CREATED"
           /\ s \in Statuses => TargetStatus(type, s) \in Statuses
<1>1. CASE type \in {"assigned", "picked_up", "arrived_at_hub", "departed", "out_for_delivery",
                    "delivered", "delivery_failed", "return_initiated", "returned", "cancelled"}
  BY <1>1 DEF TargetStatus, Statuses, TerminalStatuses
<1>2. CASE type \notin {"assigned", "picked_up", "arrived_at_hub", "departed", "out_for_delivery",
                       "delivered", "delivery_failed", "return_initiated", "returned", "cancelled"}
  BY <1>2 DEF TargetStatus
<1> QED
  BY <1>1, <1>2

LEMMA ParcelMoves ==
    ASSUME DispatchRows, NEW l \in Legs, NEW s \in Statuses,
           s = "CREATED" => parcel[l] = "CREATED", parcel' = [parcel EXCEPT ![l] = s]
    PROVE  parcel' \in [Legs -> Statuses] /\ ParcelsMoveOn
  BY DEF DispatchRows, ParcelsMoveOn

LEMMA AssignmentStays ==
    ASSUME ParcelsMoveOn, NEW S \in SUBSET Legs, NEW T, T \subseteq S, IsAssigned(S)
    PROVE  IsAssigned(T)'
  BY DEF ParcelsMoveOn, IsAssigned

-----------------------------------------------------------------------------
(* Routes: what stays true *)

LEMMA CallIs ==
    ASSUME DispatchRows, NEW c \in Callers
    PROVE  /\ call[c] = Idle \/ call[c] \in CallRow
           /\ call[c].at # "idle" => call[c] \in CallRow
           /\ call[c] = Idle => call[c].at = "idle"
           /\ call[c].at \in Shaping \cup Running \cup {"cancelling"} => call[c] \in CallRow
  BY DEF DispatchRows, Idle, CallRow, Shaping, Running

LEMMA IdleIsTrue ==
    ASSUME NEW c, call'[c] = Idle
    PROVE  CallTrue(c)'
<1>1. call'[c].at = "idle"
  BY DEF Idle
<1> QED
  BY <1>1 DEF CallTrue, ShapesADraft, AddsFreeLegs, KnowsItsStops, AssignsTheRest, At, Shaping, Running

LEMMA CallStays ==
    ASSUME DispatchRows, NEW d \in Callers, CallTrue(d), call'[d] = call[d],
           ParcelsMoveOn, StopsStay, RoutesMoveOn, ShapedLegsFixed,
           call[d].at \in Shaping => LegsFixed /\ route'[call[d].route] = "DRAFT"
    PROVE  CallTrue(d)'
<1>1. CASE call[d] = Idle
  BY <1>1, IdleIsTrue
<1>2. CASE call[d] \in CallRow
  <2>1. call[d].route \in Routes /\ call[d].legs \subseteq Legs
    BY <1>2 DEF CallRow
  <2>2. ShapesADraft(d)'
    BY DEF CallTrue, ShapesADraft, At
  <2>3. AddsFreeLegs(d)'
    <3>1. CASE call[d].at \in {"inserting", "merging"}
      <4>1. LegsFixed
        BY <3>1 DEF Shaping
      <4>2. ASSUME NEW other \in Routes \ {call[d].route}, route'[other] \in Waiting
            PROVE  LegsOf(other)' \cap call[d].legs = {}
        <5>1. LegsOf(other) \cap call[d].legs = {}
          BY <3>1, <4>2 DEF CallTrue, AddsFreeLegs, RoutesMoveOn
        <5>2. LegsOf(other)' \subseteq LegsOf(other)
          BY <4>1 DEF LegsFixed
        <5> QED
          BY <5>1, <5>2
      <4> QED
        BY <4>2 DEF AddsFreeLegs
    <3>2. CASE call[d].at \notin {"inserting", "merging"}
      BY <3>2 DEF AddsFreeLegs
    <3> QED
      BY <3>1, <3>2
  <2>4. KnowsItsStops(d)'
    BY DEF CallTrue, KnowsItsStops, StopsStay, At
  <2>5. AssignsTheRest(d)'
    <3>1. PICK r \in Routes : r = call[d].route
      BY <2>1
    <3>2. LegsOf(r) \subseteq Legs
      BY LegsAreLegs
    <3>3. CASE At(d, "assigning")
      <4>1. LegsOf(r)' \subseteq LegsOf(r)
        BY <3>3 DEF Shaping, LegsFixed, At
      <4>2. IsAssigned(LegsOf(r) \ call[d].legs)
        BY <3>1, <3>3 DEF CallTrue, AssignsTheRest
      <4>3. PICK S, T, L : S = LegsOf(r) \ L /\ T = LegsOf(r)' \ L /\ L = call[d].legs
        OBVIOUS
      <4>4. IsAssigned(T)'
        BY <3>2, <4>1, <4>2, <4>3, AssignmentStays
      <4>5. \A l \in LegsOf(r)' \ call[d].legs : parcel'[l] # "CREATED"
        BY <4>3, <4>4 DEF IsAssigned
      <4> QED
        BY <3>1, <3>3, <4>5 DEF AssignsTheRest, IsAssigned, At, Running
    <3>4. CASE call[d].at \in Running
      <4>1. route[r] # "DRAFT" /\ IsAssigned(LegsOf(r))
        BY <3>1, <3>4 DEF CallTrue, AssignsTheRest
      <4>2. LegsOf(r)' \subseteq LegsOf(r) /\ route'[r] # "DRAFT"
        BY <4>1 DEF ShapedLegsFixed, RoutesMoveOn
      <4>3. PICK S, T : S = LegsOf(r) /\ T = LegsOf(r)'
        OBVIOUS
      <4>4. IsAssigned(T)'
        BY <3>2, <4>1, <4>2, <4>3, AssignmentStays
      <4>5. \A l \in LegsOf(r)' : parcel'[l] # "CREATED"
        BY <4>3, <4>4 DEF IsAssigned
      <4> QED
        BY <3>1, <3>4, <4>2, <4>5 DEF AssignsTheRest, IsAssigned, At, Running
    <3>5. CASE ~At(d, "assigning") /\ call[d].at \notin Running
      BY <3>5 DEF AssignsTheRest, At
    <3> QED
      BY <3>3, <3>4, <3>5
  <2> QED
    BY <2>2, <2>3, <2>4, <2>5 DEF CallTrue
<1> QED
  BY <1>1, <1>2, CallIs

LEMMA FactsStay ==
    ASSUME FactsTrue, ParcelsMoveOn, facts' = facts
    PROVE  FactsTrue'
  BY DEF FactsTrue, ParcelsMoveOn

\* Routes that wait or run stay what they are when no leg comes to them.
LEMMA PlansStay ==
    ASSUME DispatchRows, PublishedIsAssigned, PlannedOnce, LegsFixed, ParcelsMoveOn, RoutesMoveOn,
           \A r \in Routes : route'[r] \in {"PUBLISHED", "IN_PROGRESS", "COMPLETED"} =>
              \/ route[r] \in {"PUBLISHED", "IN_PROGRESS", "COMPLETED"}
              \/ IsAssigned(LegsOf(r))
    PROVE  PublishedIsAssigned' /\ PlannedOnce'
<1>1. ASSUME NEW r \in Routes, route'[r] \in {"PUBLISHED", "IN_PROGRESS", "COMPLETED"},
             NEW l \in LegsOf(r)'
      PROVE  parcel'[l] # "CREATED"
  <2>1. l \in LegsOf(r) /\ l \in Legs
    BY <1>1, LegsAreLegs DEF LegsFixed
  <2>2. parcel[l] # "CREATED"
    BY <1>1, <2>1 DEF PublishedIsAssigned, IsAssigned
  <2> QED
    BY <2>1, <2>2 DEF ParcelsMoveOn
<1>2. ASSUME NEW r \in Routes, NEW other \in Routes, r # other,
             route'[r] \in Waiting, route'[other] \in Waiting
      PROVE  LegsOf(r)' \cap LegsOf(other)' = {}
  <2>1. LegsOf(r) \cap LegsOf(other) = {}
    BY <1>2 DEF RoutesMoveOn, PlannedOnce, Waiting
  <2> QED
    BY <2>1 DEF LegsFixed
<1> QED
  BY <1>1, <1>2 DEF PublishedIsAssigned, PlannedOnce, Waiting

\* A call moves on, and nothing but its own place changes.
LEMMA CallWrites ==
    ASSUME PlanInv, NEW c \in Callers, NEW v \in {Idle} \cup CallRow,
           call' = [call EXCEPT ![c] = v], UNCHANGED <<route, stops, parcel, facts>>,
           CallTrue(c)'
    PROVE  PlanInv'
<1>1. StopsStay /\ LegsFixed /\ ShapedLegsFixed /\ RoutesMoveOn /\ DraftsStay /\ ParcelsMoveOn
  BY SameStops, SameRoutes DEF ParcelsMoveOn
<1>2. DispatchRows'
  BY DEF PlanInv, DispatchRows
<1>3. ASSUME NEW d \in Callers PROVE CallTrue(d)'
  <2>1. CASE d = c
    BY <2>1
  <2>2. CASE d # c
    <3>1. call'[d] = call[d]
      BY <2>2 DEF PlanInv, DispatchRows
    <3>2. call[d].at \in Shaping => route'[call[d].route] = "DRAFT"
      BY DEF PlanInv, CallTrue, ShapesADraft
    <3> QED
      BY <1>1, <3>1, <3>2, CallStays DEF PlanInv
  <2> QED
    BY <2>1, <2>2
<1>4. PublishedIsAssigned' /\ PlannedOnce'
  BY <1>1, PlansStay DEF PlanInv
<1>5. FactsTrue'
  BY <1>1, FactsStay DEF PlanInv
<1> QED
  BY <1>2, <1>3, <1>4, <1>5 DEF PlanInv

\* A call writes more than its place: the other calls need only that no leg comes
\* to a route that is no draft, and that only a dispatcher touches the drafts.
LEMMA OneMoves ==
    ASSUME OneDispatcher, PlanInv, NEW c \in Callers, DispatchRows',
           \A d \in Callers \ {c} : call'[d] = call[d], CallTrue(c)',
           ParcelsMoveOn, StopsStay, RoutesMoveOn, ShapedLegsFixed,
           c \in Dispatchers \/ (LegsFixed /\ DraftsStay),
           FactsTrue', PublishedIsAssigned', PlannedOnce'
    PROVE  PlanInv'
<1>1. ASSUME NEW d \in Callers PROVE CallTrue(d)'
  <2>1. CASE d = c
    BY <2>1
  <2>2. CASE d # c
    <3>1. call'[d] = call[d] /\ CallTrue(d)
      BY <2>2 DEF PlanInv
    <3>2. ASSUME call[d].at \in Shaping PROVE LegsFixed /\ route'[call[d].route] = "DRAFT"
      <4>1. d \in Dispatchers /\ route[call[d].route] = "DRAFT" /\ call[d].route \in Routes
        BY <3>1, <3>2, CallIs DEF PlanInv, CallTrue, ShapesADraft, CallRow
      <4>2. c \notin Dispatchers
        BY <2>2, <4>1 DEF OneDispatcher
      <4> QED
        BY <4>1, <4>2 DEF DraftsStay
    <3> QED
      BY <3>1, <3>2, CallStays DEF PlanInv
  <2> QED
    BY <2>1, <2>2
<1> QED
  BY <1>1 DEF PlanInv

\* The parcels and the devices leave routes and calls alone.
LEMMA DeviceMoves ==
    ASSUME PlanInv, UNCHANGED <<route, call, facts>>, ParcelsMoveOn, DispatchRows',
           StopsStay, LegsFixed
    PROVE  PlanInv'
<1>1. RoutesMoveOn /\ DraftsStay /\ ShapedLegsFixed
  BY SameRoutes DEF LegsFixed, ShapedLegsFixed
<1>2. ASSUME NEW d \in Callers PROVE CallTrue(d)'
  <2>1. call[d].at \in Shaping => route'[call[d].route] = "DRAFT"
    BY DEF PlanInv, CallTrue, ShapesADraft
  <2> QED
    BY <1>1, <2>1, CallStays DEF PlanInv
<1>3. PublishedIsAssigned' /\ PlannedOnce'
  BY <1>1, PlansStay DEF PlanInv
<1> QED
  BY <1>2, <1>3, FactsStay DEF PlanInv

-----------------------------------------------------------------------------
(* The parcels and the drivers' devices *)

LEMMA ParcelEventKeeps ==
    ASSUME PlanInv, NEW l \in Legs, NEW type, ParcelEvent(l, type)
    PROVE  PlanInv'
<1>1. /\ parcel' = [parcel EXCEPT ![l] = TargetStatus(type, parcel[l])]
      /\ UNCHANGED <<route, stops, call, facts, carrier, item, faults>>
  BY DEF ParcelEvent
<1>2. PICK s : s = TargetStatus(type, parcel[l])
  OBVIOUS
<1>3. s \in Statuses /\ (s = "CREATED" => parcel[l] = "CREATED")
  BY <1>2, EventsMoveOn DEF PlanInv, DispatchRows
<1>4. parcel' \in [Legs -> Statuses] /\ ParcelsMoveOn
  BY <1>1, <1>2, <1>3, ParcelMoves DEF PlanInv
<1>5. DispatchRows' /\ StopsStay /\ LegsFixed
  BY <1>1, <1>4, SameStops DEF PlanInv, DispatchRows
<1> QED
  BY <1>1, <1>4, <1>5, DeviceMoves

LEMMA DeviceIdles ==
    ASSUME PlanInv, UNCHANGED <<route, stops, parcel, call, facts>>
    PROVE  PlanInv'
<1>1. DispatchRows' /\ StopsStay /\ LegsFixed /\ ParcelsMoveOn
  BY SameStops DEF PlanInv, DispatchRows, ParcelsMoveOn
<1> QED
  BY <1>1, DeviceMoves

LEMMA SyncKeeps ==
    ASSUME PlanInv, NEW l \in Legs, Sync(l)
    PROVE  PlanInv'
<1>1. UNCHANGED <<route, stops, call, facts>>
  BY DEF Sync, UpdateItem
<1>2. CASE UNCHANGED parcel
  BY <1>1, <1>2, DeviceIdles
<1>3. CASE parcel' # parcel
  <2>1. PICK s \in OutcomeOf(l, item[l].type) : parcel' = [parcel EXCEPT ![l] = s]
    BY <1>3 DEF Sync
  <2>2. s = TargetStatus(item[l].type, parcel[l]) \/ s = "RETURN_PENDING"
    BY <2>1 DEF OutcomeOf
  <2>3. s \in Statuses /\ (s = "CREATED" => parcel[l] = "CREATED")
    <3>1. PICK type : type = item[l].type
      OBVIOUS
    <3> QED
      BY <2>2, <3>1, EventsMoveOn DEF PlanInv, DispatchRows, Statuses
  <2>4. parcel' \in [Legs -> Statuses] /\ ParcelsMoveOn
    BY <2>1, <2>3, ParcelMoves DEF PlanInv
  <2>5. DispatchRows' /\ StopsStay /\ LegsFixed
    BY <1>1, <2>4, SameStops DEF PlanInv, DispatchRows
  <2> QED
    BY <1>1, <2>4, <2>5, DeviceMoves
<1> QED
  BY <1>2, <1>3

LEMMA SettleStopKeeps ==
    ASSUME PlanInv, NEW l, NEW s, SettleStop(l, s)
    PROVE  PlanInv'
<1>1. PICK n, status : /\ n = s.stop
                       /\ status = (IF item[l].at = "completing" THEN "COMPLETED" ELSE "FAILED")
  OBVIOUS
<1>2. UNCHANGED <<route, parcel, call, facts>>
  BY DEF SettleStop, UpdateItem
<1>3. CASE stops' = stops
  BY <1>2, <1>3, DeviceIdles
<1>4. CASE stops' # stops
  <2>1. stops[n].status \in Open /\ stops' = [stops EXCEPT ![n].status = status]
    BY <1>1, <1>4 DEF SettleStop
  <2>2. status \in Settled
    BY <1>1 DEF Settled
  <2>3. PICK row : row = [stops[n] EXCEPT !.status = status]
    OBVIOUS
  <2>4. stops' = [stops EXCEPT ![n] = row]
    BY <2>1, <2>3
  <2>5. n \in DOMAIN stops
    BY <1>4, <2>4 DEF PlanInv, DispatchRows
  <2>6. /\ row \in StopRow /\ row.route = stops[n].route /\ row.legs = stops[n].legs
        /\ stops[n].status # "REMOVED"
    <3>1. stops[n] \in StopRow
      BY <2>5, StopIs DEF PlanInv
    <3> QED
      BY <2>1, <2>2, <2>3, <3>1 DEF StopRow, Open
  <2>7. /\ stops' \in Seq(StopRow) /\ DOMAIN stops' = DOMAIN stops /\ stops'[n] = row
        /\ \A i \in DOMAIN stops : i # n => stops'[i] = stops[i]
    <3>1. PICK S : S = StopRow
      OBVIOUS
    <3>2. stops \in Seq(S) /\ row \in S
      BY <2>6, <3>1 DEF PlanInv, DispatchRows
    <3>3. stops' \in Seq(S)
      BY <2>4, <2>5, <3>2
    <3> QED
      BY <2>4, <2>5, <3>1, <3>2, <3>3
  <2>8. StopsStay
    BY <2>6, <2>7 DEF StopsStay
  <2>9. LegsFixed
    <3>1. ASSUME NEW r \in Routes PROVE LegsOf(r)' \subseteq LegsOf(r)
      <4>1. \A i \in DOMAIN stops' :
               stops'[i].route = r /\ stops'[i].status # "REMOVED" =>
                  /\ i \in DOMAIN stops /\ stops[i].route = r /\ stops[i].status # "REMOVED"
                  /\ stops'[i].legs = stops[i].legs
        BY <2>6, <2>7
      <4> QED
        BY <4>1, LegsKept
    <3> QED
      BY <3>1 DEF LegsFixed
  <2>10. DispatchRows' /\ ParcelsMoveOn
    BY <1>2, <2>7 DEF PlanInv, DispatchRows, ParcelsMoveOn
  <2> QED
    BY <1>2, <2>8, <2>9, <2>10, DeviceMoves
<1> QED
  BY <1>3, <1>4

LEMMA DeviceStepKeeps ==
    ASSUME PlanInv, NEW l \in Legs, SyncStep(l) \/ LoseSync(l) \/ (\E type : Act(l, type))
    PROVE  PlanInv'
<1>1. CASE Sync(l)
  BY <1>1, SyncKeeps
<1>2. ASSUME NEW s, SettleStop(l, s) PROVE PlanInv'
  BY <1>2, SettleStopKeeps
<1>3. CASE FindStops(l) \/ EndSync(l) \/ (\E s : ReadStop(l, s)) \/ LoseSync(l) \/ (\E type : Act(l, type))
  <2>1. UNCHANGED <<route, stops, parcel, call, facts>>
    BY <1>3 DEF FindStops, EndSync, ReadStop, LoseSync, Act, UpdateItem
  <2> QED
    BY <2>1, DeviceIdles
<1> QED
  BY <1>1, <1>2, <1>3 DEF SyncStep

-----------------------------------------------------------------------------
(* The calls: what only moves on *)

LEMMA PlaceIsTrue ==
    ASSUME UNCHANGED <<route, stops, parcel>>, NEW c, NEW v, call'[c] = v,
           v.at = "cancelling" \/ v.at \in Shaping => c \in Dispatchers,
           v.at \in Shaping => route[v.route] = "DRAFT",
           v.at \in {"adding", "inserting"} => v.legs # {},
           v.at \in {"inserting", "merging"} =>
              \A other \in Routes \ {v.route} :
                 route[other] \in Waiting => LegsOf(other) \cap v.legs = {},
           v.at \in {"inserting", "merging", "optimising", "assigning"} => v.stops \subseteq DOMAIN stops,
           v.at = "merging" => \A i \in v.stops : stops[i].route = v.route,
           v.at = "assigning" => IsAssigned(LegsOf(v.route) \ v.legs),
           v.at \in Running => route[v.route] # "DRAFT" /\ IsAssigned(LegsOf(v.route))
    PROVE  CallTrue(c)'
<1>1. \A r : LegsOf(r)' = LegsOf(r)
  BY DEF LegsOf, StopsOf
<1>2. ShapesADraft(c)'
  BY DEF ShapesADraft, At
<1>3. AddsFreeLegs(c)'
  BY <1>1 DEF AddsFreeLegs
<1>4. KnowsItsStops(c)'
  BY DEF KnowsItsStops, At
<1>5. AssignsTheRest(c)'
  BY <1>1 DEF AssignsTheRest, At, IsAssigned
<1> QED
  BY <1>2, <1>3, <1>4, <1>5 DEF CallTrue

LEMMA InsideIs ==
    ASSUME NEW at \in Shaping \cup Running \cup {"cancelling"}, NEW r \in Routes,
           NEW legs \in SUBSET Legs, NEW seen \in SUBSET Nat, NEW v, v = Inside(at, r, legs, seen)
    PROVE  /\ v \in CallRow
           /\ v.at = at /\ v.route = r /\ v.legs = legs /\ v.stops = seen
  BY DEF Inside, CallRow

LEMMA StopsOfIs ==
    ASSUME DispatchRows, NEW r
    PROVE  StopsOf(r) \subseteq DOMAIN stops /\ StopsOf(r) \in SUBSET Nat
  BY StopIs DEF StopsOf

LEMMA CallSets ==
    ASSUME DispatchRows, NEW c \in Callers, NEW v, call' = [call EXCEPT ![c] = v]
    PROVE  call'[c] = v /\ \A d \in Callers \ {c} : call'[d] = call[d]
  BY DEF DispatchRows

LEMMA CallEnds ==
    ASSUME PlanInv, NEW c \in Callers, call' = [call EXCEPT ![c] = Idle],
           UNCHANGED <<route, stops, parcel, facts>>
    PROVE  PlanInv'
<1>1. call'[c] = Idle
  BY CallSets DEF PlanInv
<1>2. CallTrue(c)'
  BY <1>1, IdleIsTrue
<1> QED
  BY <1>2, CallWrites

\* A call on a draft is begun.
LEMMA DraftCallBegins ==
    ASSUME PlanInv, NEW c \in Dispatchers, NEW v \in CallRow, call' = [call EXCEPT ![c] = v],
           UNCHANGED <<route, stops, parcel, facts>>,
           \/ v.at \in {"adding", "removing", "publishing", "optimising"} /\ route[v.route] = "DRAFT"
           \/ v.at = "cancelling",
           v.at = "adding" => v.legs # {}, v.stops \subseteq DOMAIN stops
    PROVE  PlanInv'
<1>1. c \in Callers
  BY DEF Callers
<1>2. call'[c] = v
  BY <1>1, CallSets DEF PlanInv
<1>3. v.at \notin {"inserting", "merging", "assigning"} /\ v.at \notin Running
  BY DEF Running
<1>4. v.at \in Shaping => route[v.route] = "DRAFT"
  BY DEF Shaping
<1>5. CallTrue(c)'
  BY <1>2, <1>3, <1>4, PlaceIsTrue
<1> QED
  BY <1>1, <1>5, CallWrites

LEMMA PlanKeeps ==
    ASSUME PlanInv, NEW c \in Dispatchers, Plan(c)
    PROVE  PlanInv'
<1>1. ASSUME NEW at, NEW r \in Routes, NEW legs \in SUBSET Legs, NEW seen \in SUBSET Nat,
             Enter(c, at, r, legs, seen), seen \subseteq DOMAIN stops,
             \/ at \in {"adding", "removing", "publishing", "optimising"} /\ route[r] = "DRAFT"
             \/ at = "cancelling",
             at = "adding" => legs # {}
      PROVE  PlanInv'
  <2>1. at \in Shaping \cup Running \cup {"cancelling"}
    BY <1>1 DEF Shaping
  <2>a. PICK v : v = Inside(at, r, legs, seen)
    OBVIOUS
  <2>2. v \in CallRow /\ v.at = at /\ v.route = r /\ v.legs = legs /\ v.stops = seen
    BY <2>1, <2>a, InsideIs
  <2>3. call' = [call EXCEPT ![c] = v] /\ UNCHANGED <<route, stops, parcel, facts>>
    BY <1>1, <2>a DEF Enter
  <2> QED
    BY <1>1, <2>2, <2>3, DraftCallBegins
<1>2. PICK r \in Routes : \/ BeginRemove(c, r) \/ BeginOptimize(c, r)
                          \/ BeginPublish(c, r) \/ BeginCancel(c, r)
                          \/ \E legs \in SUBSET Legs : BeginAdd(c, r, legs)
  BY DEF Plan
<1>3. PICK none : none = {}
  OBVIOUS
<1>4. CASE BeginRemove(c, r)
  <2>1. Enter(c, "removing", r, none, none) /\ route[r] = "DRAFT"
    BY <1>3, <1>4 DEF BeginRemove, BeginEdit
  <2> QED
    BY <1>1, <1>3, <2>1
<1>5. CASE BeginOptimize(c, r)
  <2>1. Enter(c, "optimising", r, none, StopsOf(r)) /\ route[r] = "DRAFT"
    BY <1>3, <1>5 DEF BeginOptimize
  <2>2. PICK seen : seen = StopsOf(r)
    OBVIOUS
  <2>3. seen \in SUBSET Nat /\ seen \subseteq DOMAIN stops /\ Enter(c, "optimising", r, none, seen)
    BY <2>1, <2>2, StopsOfIs DEF PlanInv
  <2> QED
    BY <1>1, <1>3, <2>1, <2>3
<1>6. CASE BeginPublish(c, r)
  <2>1. Enter(c, "publishing", r, none, none) /\ route[r] = "DRAFT"
    BY <1>3, <1>6 DEF BeginPublish, RouteMayBecome
  <2> QED
    BY <1>1, <1>3, <2>1
<1>7. CASE BeginCancel(c, r)
  <2>1. Enter(c, "cancelling", r, none, none)
    BY <1>3, <1>7 DEF BeginCancel
  <2> QED
    BY <1>1, <1>3, <2>1
<1>8. ASSUME NEW legs \in SUBSET Legs, BeginAdd(c, r, legs)
      PROVE  PlanInv'
  <2>1. Enter(c, "adding", r, legs, none) /\ route[r] = "DRAFT" /\ legs # {}
    BY <1>3, <1>8 DEF BeginAdd, BeginEdit
  <2> QED
    BY <1>1, <1>3, <2>1
<1> QED
  BY <1>2, <1>4, <1>5, <1>6, <1>7, <1>8

LEMMA RunKeeps ==
    ASSUME PlanInv, NEW c \in Callers, Run(c)
    PROVE  PlanInv'
<1>1. ASSUME NEW at \in {"starting", "completing"}, NEW r \in Routes,
             NEW legs \in SUBSET Legs, NEW seen \in SUBSET Nat,
             Enter(c, at, r, legs, seen), route[r] \in {"PUBLISHED", "IN_PROGRESS"}
      PROVE  PlanInv'
  <2>1. at \in Shaping \cup Running \cup {"cancelling"}
    BY <1>1 DEF Running
  <2>a. PICK v : v = Inside(at, r, legs, seen)
    OBVIOUS
  <2>2. v \in CallRow /\ v.at = at /\ v.route = r /\ v.legs = legs /\ v.stops = seen
    BY <2>1, <2>a, InsideIs
  <2>3. call' = [call EXCEPT ![c] = v] /\ UNCHANGED <<route, stops, parcel, facts>>
    BY <1>1, <2>a DEF Enter
  <2>4. call'[c] = v
    BY <2>3, CallSets DEF PlanInv
  <2>5. route[r] # "DRAFT" /\ IsAssigned(LegsOf(r))
    BY <1>1 DEF PlanInv, PublishedIsAssigned, IsAssigned
  <2>6. /\ v.at \notin Shaping
        /\ v.at \notin {"cancelling", "adding", "inserting", "merging", "optimising", "assigning"}
    BY <1>1, <2>2 DEF Shaping
  <2>7. CallTrue(c)'
    BY <2>2, <2>3, <2>4, <2>5, <2>6, PlaceIsTrue
  <2> QED
    BY <2>2, <2>3, <2>7, CallWrites
<1>2. PICK r \in Routes : BeginStart(c, r) \/ BeginComplete(c, r)
  BY DEF Run
<1>3. PICK none : none = {}
  OBVIOUS
<1>4. CASE BeginStart(c, r)
  <2>1. Enter(c, "starting", r, none, none) /\ route[r] = "PUBLISHED"
    BY <1>3, <1>4 DEF BeginStart, RouteMayBecome
  <2> QED
    BY <1>1, <1>3, <2>1
<1>5. CASE BeginComplete(c, r)
  <2>1. Enter(c, "completing", r, none, none) /\ route[r] = "IN_PROGRESS"
    BY <1>3, <1>5 DEF BeginComplete, RouteMayBecome
  <2> QED
    BY <1>1, <1>3, <2>1
<1> QED
  BY <1>2, <1>4, <1>5

\* A call that goes on within the same route, with its legs listed anew or not.
LEMMA RunGoesOn ==
    ASSUME PlanInv, NEW c \in Callers, call[c].at \in Running,
           UNCHANGED <<route, stops, parcel, facts>>,
           NEW v \in CallRow, v.at \in Running, v.route = call[c].route,
           call' = [call EXCEPT ![c] = v]
    PROVE  PlanInv'
<1>1. call'[c] = v
  BY CallSets DEF PlanInv
<1>2. route[v.route] # "DRAFT" /\ IsAssigned(LegsOf(v.route))
  BY DEF PlanInv, CallTrue, AssignsTheRest
<1>3. v.at \notin Shaping /\ v.at \notin {"cancelling", "adding", "inserting", "merging", "optimising", "assigning"}
  BY DEF Shaping, Running
<1>4. CallTrue(c)'
  BY <1>1, <1>2, <1>3, PlaceIsTrue
<1> QED
  BY <1>4, CallWrites

LEMMA AllowedLegs ==
    ASSUME NEW legs, NEW type
    PROVE  Allowed(legs, type) \subseteq legs
  BY DEF Allowed

LEMMA ListAboardKeeps ==
    ASSUME PlanInv, NEW c \in Callers, ListAboard(c)
    PROVE  PlanInv'
<1>1. PICK legs : legs = Allowed(LegsOf(call[c].route), "out_for_delivery")
  OBVIOUS
<1>2. PICK v : v = [call[c] EXCEPT !.at = "departing", !.legs = legs]
  OBVIOUS
<1>3. /\ call[c].at = "started" /\ call' = [call EXCEPT ![c] = v]
      /\ UNCHANGED <<route, stops, parcel, facts>>
  BY <1>1, <1>2 DEF ListAboard, At
<1>4. call[c] \in CallRow /\ call[c].at \in Running
  BY <1>3, CallIs DEF PlanInv, Running
<1>5. legs \in SUBSET Legs
  BY <1>1, LegsAreLegs, AllowedLegs DEF PlanInv
<1>6. v \in CallRow /\ v.at = "departing" /\ v.route = call[c].route
  BY <1>2, <1>4, <1>5 DEF CallRow, Running
<1>7. v.at \in Running
  BY <1>6 DEF Running
<1> QED
  BY <1>3, <1>4, <1>6, <1>7, RunGoesOn

LEMMA CheckStopsKeeps ==
    ASSUME PlanInv, NEW c \in Callers, CheckStops(c)
    PROVE  PlanInv'
<1>1. PICK v : v = [call[c] EXCEPT !.at = "closing"]
  OBVIOUS
<1>2. /\ call[c].at = "completing" /\ UNCHANGED <<route, stops, parcel, facts>>
      /\ call' = [call EXCEPT ![c] = v] \/ call' = [call EXCEPT ![c] = Idle]
  BY <1>1 DEF CheckStops, At
<1>3. call[c] \in CallRow /\ call[c].at \in Running
  BY <1>2, CallIs DEF PlanInv, Running
<1>4. v \in CallRow /\ v.at = "closing" /\ v.route = call[c].route
  BY <1>1, <1>3 DEF CallRow, Running
<1>5. v.at \in Running
  BY <1>4 DEF Running
<1>6. CASE call' = [call EXCEPT ![c] = v]
  BY <1>2, <1>3, <1>4, <1>5, <1>6, RunGoesOn
<1> QED
  BY <1>2, <1>6, CallEnds

LEMMA ListToAssignKeeps ==
    ASSUME PlanInv, NEW c \in Callers, ListToAssign(c)
    PROVE  PlanInv'
<1>1. PICK r : r = call[c].route
  OBVIOUS
<1>2. PICK v : v = Inside("assigning", r, ToAssign(r), StopsOf(r))
  OBVIOUS
<1>3. /\ call[c].at = "publishing" /\ UNCHANGED <<route, stops, parcel, facts>>
      /\ call' = [call EXCEPT ![c] = v] \/ call' = [call EXCEPT ![c] = Idle]
  BY <1>1, <1>2 DEF ListToAssign, At
<1>4. call[c] \in CallRow /\ r \in Routes
  BY <1>1, <1>3, CallIs DEF PlanInv, Shaping, CallRow
<1>5. ToAssign(r) \in SUBSET Legs /\ StopsOf(r) \in SUBSET Nat /\ StopsOf(r) \subseteq DOMAIN stops
  BY LegsAreLegs, StopsOfIs, AllowedLegs DEF PlanInv, ToAssign
<1>6. /\ v \in CallRow /\ v.at = "assigning" /\ v.route = r /\ v.legs = ToAssign(r)
      /\ v.stops = StopsOf(r)
  <2>1. PICK legs, seen : legs = ToAssign(r) /\ seen = StopsOf(r)
    OBVIOUS
  <2>2. "assigning" \in Shaping
    BY DEF Shaping
  <2> QED
    BY <1>2, <1>4, <1>5, <2>1, <2>2, InsideIs
<1>7. IsAssigned(LegsOf(r) \ ToAssign(r))
  BY DEF IsAssigned, ToAssign, Allowed, CheckTransition, TargetStatus, Permitted, TerminalStatuses,
         Annotations
<1>8. c \in Dispatchers /\ route[r] = "DRAFT"
  BY <1>1, <1>3 DEF PlanInv, CallTrue, ShapesADraft, Shaping
<1>9. CASE call' = [call EXCEPT ![c] = v]
  <2>1. call'[c] = v
    BY <1>9, CallSets DEF PlanInv
  <2>2. v.at \notin Running /\ v.at \notin {"adding", "inserting", "merging"}
    BY <1>6 DEF Running
  <2>3. CallTrue(c)'
    BY <1>3, <1>5, <1>6, <1>7, <1>8, <2>1, <2>2, PlaceIsTrue
  <2> QED
    BY <1>3, <1>6, <1>9, <2>3, CallWrites
<1> QED
  BY <1>3, <1>9, CallEnds

LEMMA PlanAddKeeps ==
    ASSUME PlanInv, NEW c \in Callers, PlanAdd(c)
    PROVE  PlanInv'
<1>1. PICK r, legs : r = call[c].route /\ legs = call[c].legs
  OBVIOUS
<1>2. /\ call[c].at = "adding" /\ UNCHANGED <<route, stops, parcel, facts>>
      /\ \/ call' = [call EXCEPT ![c] = Idle]
         \/ /\ ~PlannedElsewhere(r, legs)
            /\ call' = [call EXCEPT ![c] = Inside("inserting", r, legs, StopsOf(r))]
         \/ /\ ~PlannedElsewhere(r, legs)
            /\ \E i \in StopsOf(r) : call' = [call EXCEPT ![c] = Inside("merging", r, stops[i].legs \cup legs, {i})]
  <2>1. PICK there : there = {i \in StopsOf(r) : \E l \in legs : stops[i].door = Door[l]}
    OBVIOUS
  <2>2. PICK j : j = CHOOSE i \in there : TRUE
    OBVIOUS
  <2>3. /\ call[c].at = "adding" /\ UNCHANGED <<route, stops, parcel, facts>>
        /\ call' = [call EXCEPT ![c] =
                     IF PlannedElsewhere(r, legs) THEN Idle
                     ELSE IF there = {} THEN Inside("inserting", r, legs, StopsOf(r))
                     ELSE Inside("merging", r, stops[j].legs \cup legs, {j})]
    BY <1>1, <2>1, <2>2 DEF PlanAdd, At
  <2>4. CASE PlannedElsewhere(r, legs) /\ there # {}
    BY <2>3, <2>4
  <2>5. CASE there = {}
    <3>1. CASE PlannedElsewhere(r, legs)
      <4>1. call' = [call EXCEPT ![c] = Idle]
        BY <2>3, <2>5, <3>1
      <4> QED
        BY <2>3, <4>1
    <3>2. CASE ~PlannedElsewhere(r, legs)
      <4>1. call' = [call EXCEPT ![c] = Inside("inserting", r, legs, StopsOf(r))]
        BY <2>3, <2>5, <3>2
      <4> QED
        BY <2>3, <3>2, <4>1
    <3> QED
      BY <3>1, <3>2
  <2>6. CASE ~PlannedElsewhere(r, legs) /\ there # {}
    <3>1. j \in StopsOf(r)
      BY <2>1, <2>2, <2>6
    <3> QED
      BY <2>3, <2>6, <3>1
  <2> QED
    BY <2>4, <2>5, <2>6
<1>3. call[c] \in CallRow /\ r \in Routes /\ legs \in SUBSET Legs
  BY <1>1, <1>2, CallIs DEF PlanInv, Shaping, CallRow
<1>4. c \in Dispatchers /\ route[r] = "DRAFT" /\ legs # {}
  BY <1>1, <1>2 DEF PlanInv, CallTrue, ShapesADraft, Shaping
<1>5. ASSUME ~PlannedElsewhere(r, legs), NEW other \in Routes \ {r}, route[other] \in Waiting
      PROVE  LegsOf(other) \cap legs = {}
  BY <1>5 DEF PlannedElsewhere, Waiting
<1>6. ASSUME ~PlannedElsewhere(r, legs), NEW at \in {"inserting", "merging"}, NEW more \in SUBSET Legs,
             NEW seen \in SUBSET Nat, more \subseteq legs \cup LegsOf(r), legs \subseteq more,
             seen \subseteq StopsOf(r), NEW v, v = Inside(at, r, more, seen),
             call' = [call EXCEPT ![c] = v]
      PROVE  PlanInv'
  <2>1. at \in Shaping /\ at \notin Running
    BY DEF Shaping, Running
  <2>2. v \in CallRow /\ v.at = at /\ v.route = r /\ v.legs = more /\ v.stops = seen
    BY <1>3, <1>6, <2>1, InsideIs
  <2>3. call'[c] = v
    BY <1>6, CallSets DEF PlanInv
  <2>4. ASSUME NEW other \in Routes \ {r}, route[other] \in Waiting PROVE LegsOf(other) \cap more = {}
    <3>1. LegsOf(other) \cap legs = {}
      BY <1>5, <1>6, <2>4
    <3>2. LegsOf(r) \cap LegsOf(other) = {}
      BY <1>3, <1>4, <2>4 DEF PlanInv, PlannedOnce, Waiting
    <3> QED
      BY <1>6, <3>1, <3>2
  <2>5. seen \subseteq DOMAIN stops /\ \A i \in seen : stops[i].route = r
    BY <1>6 DEF StopsOf
  <2>6. v.legs # {} /\ v.at # "assigning" /\ v.at \notin Running
    BY <1>4, <1>6, <2>1, <2>2
  <2>7. CallTrue(c)'
    BY <1>2, <1>4, <2>2, <2>3, <2>4, <2>5, <2>6, PlaceIsTrue
  <2> QED
    BY <1>2, <1>6, <2>2, <2>7, CallWrites
<1>7. CASE /\ ~PlannedElsewhere(r, legs)
           /\ call' = [call EXCEPT ![c] = Inside("inserting", r, legs, StopsOf(r))]
  <2>1. PICK seen, v : seen = StopsOf(r) /\ v = Inside("inserting", r, legs, seen)
    OBVIOUS
  <2>2. seen \in SUBSET Nat
    BY <2>1, StopsOfIs DEF PlanInv
  <2> QED
    BY <1>3, <1>6, <1>7, <2>1, <2>2
<1>8. ASSUME ~PlannedElsewhere(r, legs), NEW i \in StopsOf(r),
             call' = [call EXCEPT ![c] = Inside("merging", r, stops[i].legs \cup legs, {i})]
      PROVE  PlanInv'
  <2>1. PICK seen, more, v : /\ seen = {i} /\ more = stops[i].legs \cup legs
                             /\ v = Inside("merging", r, more, seen)
    OBVIOUS
  <2>2. i \in DOMAIN stops /\ i \in Nat /\ stops[i].legs \subseteq Legs /\ stops[i].legs \subseteq LegsOf(r)
    BY StopIs DEF PlanInv, StopsOf, LegsOf
  <2>3. /\ seen \in SUBSET Nat /\ seen \subseteq StopsOf(r) /\ more \in SUBSET Legs
        /\ more \subseteq legs \cup LegsOf(r) /\ legs \subseteq more
    BY <1>3, <2>1, <2>2
  <2>4. call' = [call EXCEPT ![c] = v]
    BY <1>8, <2>1
  <2> QED
    BY <1>6, <1>8, <2>1, <2>3, <2>4
<1> QED
  BY <1>2, <1>7, <1>8, CallEnds

-----------------------------------------------------------------------------
(* The calls: the parcels of a route, one after the other *)

LEMMA RecordKeeps ==
    ASSUME OneDispatcher, PlanInv, NEW c \in Callers, NEW l \in Legs, NEW type, NEW fact,
           Record(c, l, type, fact), call[c].at \in {"assigning", "departing"},
           \A i \in Nat, m \in Legs : fact = <<"assign", i, m>> => m = l /\ type = "assigned",
           call[c].at = "assigning" => \E i \in Nat : fact = <<"assign", i, l>>
    PROVE  PlanInv'
<1>1. PICK v, s : v = [call[c] EXCEPT !.legs = @ \ {l}] /\ s = TargetStatus(type, parcel[l])
  OBVIOUS
<1>2. /\ l \in call[c].legs /\ UNCHANGED <<route, stops>>
      /\ \/ call' = [call EXCEPT ![c] = Idle] /\ UNCHANGED <<parcel, facts>>
         \/ /\ call' = [call EXCEPT ![c] = v]
            /\ \/ fact \in facts /\ UNCHANGED <<parcel, facts>>
               \/ parcel' = [parcel EXCEPT ![l] = s] /\ facts' = facts \cup {fact}
  <2>1. l \in call[c].legs /\ UNCHANGED <<route, stops>>
    BY DEF Record
  <2>2. CASE fact \in facts
    <3>1. call' = [call EXCEPT ![c].legs = @ \ {l}]
      BY <2>2 DEF Record
    <3>2. UNCHANGED <<parcel, facts>>
      BY <2>2 DEF Record
    <3> QED
      BY <1>1, <2>1, <2>2, <3>1, <3>2
  <2>3. CASE fact \notin facts /\ CheckTransition(parcel[l], type) = "allowed"
    <3>1. call' = [call EXCEPT ![c].legs = @ \ {l}]
      BY <2>3 DEF Record
    <3>2. parcel' = [parcel EXCEPT ![l] = s] /\ facts' = facts \cup {fact}
      BY <1>1, <2>3 DEF Record
    <3> QED
      BY <1>1, <2>1, <3>1, <3>2
  <2>4. CASE fact \notin facts /\ CheckTransition(parcel[l], type) # "allowed"
    <3>1. call' = [call EXCEPT ![c] = Idle] /\ UNCHANGED <<parcel, facts>>
      BY <2>4 DEF Record
    <3> QED
      BY <2>1, <3>1
  <2> QED
    BY <2>2, <2>3, <2>4
<1>3. CASE call' = [call EXCEPT ![c] = Idle] /\ UNCHANGED <<parcel, facts>>
  BY <1>2, <1>3, CallEnds
<1>4. CASE /\ call' = [call EXCEPT ![c] = v]
           /\ \/ fact \in facts /\ UNCHANGED <<parcel, facts>>
              \/ parcel' = [parcel EXCEPT ![l] = s] /\ facts' = facts \cup {fact}
  <2>1. call[c] \in CallRow
    BY CallIs DEF PlanInv, Shaping, Running
  <2>2. /\ v \in CallRow /\ v.at = call[c].at /\ v.route = call[c].route /\ v.stops = call[c].stops
        /\ v.legs = call[c].legs \ {l}
    BY <1>1, <2>1 DEF CallRow
  <2>3. call'[c] = v /\ \A d \in Callers \ {c} : call'[d] = call[d]
    BY <1>4, CallSets DEF PlanInv
  <2>4. s \in Statuses /\ (s = "CREATED" => parcel[l] = "CREATED")
    BY <1>1, EventsMoveOn DEF PlanInv, DispatchRows
  <2>5. parcel' \in [Legs -> Statuses] /\ ParcelsMoveOn
    <3>1. CASE UNCHANGED parcel
      BY <3>1 DEF PlanInv, DispatchRows, ParcelsMoveOn
    <3>2. CASE parcel' = [parcel EXCEPT ![l] = s]
      BY <2>4, <3>2, ParcelMoves DEF PlanInv
    <3> QED
      BY <1>4, <3>1, <3>2
  <2>6. DispatchRows'
    BY <1>2, <1>4, <2>2, <2>5 DEF PlanInv, DispatchRows
  <2>7. StopsStay /\ LegsFixed /\ ShapedLegsFixed /\ RoutesMoveOn /\ DraftsStay
    BY <1>2, SameStops, SameRoutes
  <2>8. type = "assigned" => s # "CREATED"
    BY <1>1 DEF TargetStatus
  <2>9. ASSUME NEW i \in Nat, fact = <<"assign", i, l>> PROVE parcel'[l] # "CREATED"
    <3>1. CASE fact \in facts /\ UNCHANGED <<parcel, facts>>
      BY <2>9, <3>1 DEF PlanInv, FactsTrue
    <3>2. CASE parcel' = [parcel EXCEPT ![l] = s]
      BY <2>8, <2>9, <3>2 DEF PlanInv, DispatchRows
    <3> QED
      BY <1>4, <3>1, <3>2
  <2>10. FactsTrue'
    <3>1. ASSUME NEW i \in Nat, NEW m \in Legs, <<"assign", i, m>> \in facts'
          PROVE  parcel'[m] # "CREATED"
      <4>1. <<"assign", i, m>> \in facts \/ <<"assign", i, m>> = fact
        BY <1>4, <3>1
      <4>2. CASE <<"assign", i, m>> \in facts
        BY <2>5, <4>2 DEF PlanInv, FactsTrue, ParcelsMoveOn
      <4>3. CASE <<"assign", i, m>> = fact
        <5>1. m = l
          BY <4>3
        <5> QED
          BY <2>9, <4>3, <5>1
      <4> QED
        BY <4>1, <4>2, <4>3
    <3> QED
      BY <3>1 DEF FactsTrue
  <2>11. \A q : LegsOf(q)' = LegsOf(q)
    BY <1>2 DEF LegsOf, StopsOf
  <2>12. CallTrue(c)'
    <3>1. ShapesADraft(c)'
      BY <1>2, <2>2, <2>3 DEF PlanInv, CallTrue, ShapesADraft, At
    <3>2. AddsFreeLegs(c)'
      BY <2>2, <2>3 DEF AddsFreeLegs
    <3>3. KnowsItsStops(c)'
      BY <1>2, <2>2, <2>3 DEF PlanInv, CallTrue, KnowsItsStops, At
    <3>4. AssignsTheRest(c)'
      <4>1. PICK r : r = call[c].route
        OBVIOUS
      <4>2. LegsOf(r) \subseteq Legs
        BY LegsAreLegs DEF PlanInv
      <4>3. CASE call[c].at = "assigning"
        <5>1. ASSUME NEW m \in LegsOf(r)' \ v.legs PROVE parcel'[m] # "CREATED"
          <6>1. CASE m = l
            BY <2>9, <4>3, <6>1
          <6>2. CASE m # l
            <7>1. m \in LegsOf(r) \ call[c].legs /\ m \in Legs
              BY <2>2, <2>11, <4>2, <5>1, <6>2
            <7>2. parcel[m] # "CREATED"
              BY <4>1, <4>3, <7>1 DEF PlanInv, CallTrue, AssignsTheRest, IsAssigned, At
            <7> QED
              BY <2>5, <7>1, <7>2 DEF ParcelsMoveOn
          <6> QED
            BY <6>1, <6>2
        <5> QED
          BY <2>2, <2>3, <4>1, <4>3, <5>1 DEF AssignsTheRest, IsAssigned, At, Running
      <4>4. CASE call[c].at = "departing"
        <5>1. route[r] # "DRAFT" /\ IsAssigned(LegsOf(r))
          BY <4>1, <4>4 DEF PlanInv, CallTrue, AssignsTheRest, Running
        <5>2. ASSUME NEW m \in LegsOf(r)' PROVE parcel'[m] # "CREATED"
          <6>1. m \in Legs /\ parcel[m] # "CREATED"
            BY <2>11, <4>2, <5>1, <5>2 DEF IsAssigned
          <6> QED
            BY <2>5, <6>1 DEF ParcelsMoveOn
        <5> QED
          BY <1>2, <2>2, <2>3, <4>1, <4>4, <5>1, <5>2 DEF AssignsTheRest, IsAssigned, At
      <4> QED
        BY <4>3, <4>4
    <3> QED
      BY <3>1, <3>2, <3>3, <3>4 DEF CallTrue
  <2>13. PublishedIsAssigned' /\ PlannedOnce'
    BY <1>2, <2>5, <2>7, PlansStay DEF PlanInv
  <2> QED
    BY <2>3, <2>5, <2>6, <2>7, <2>10, <2>12, <2>13, OneMoves
<1> QED
  BY <1>2, <1>3, <1>4

LEMMA AssignKeeps ==
    ASSUME OneDispatcher, PlanInv, NEW c \in Callers, NEW l \in Legs, Assign(c, l)
    PROVE  PlanInv'
<1>1. PICK i \in call[c].stops : Record(c, l, "assigned", <<"assign", i, l>>)
  BY DEF Assign
<1>2. call[c].at = "assigning"
  BY DEF Assign, At
<1>3. i \in Nat
  BY <1>2, CallIs DEF PlanInv, Shaping, CallRow
<1>4. PICK fact : fact = <<"assign", i, l>>
  OBVIOUS
<1>5. \A n \in Nat, m \in Legs : fact = <<"assign", n, m>> => m = l
  BY <1>4
<1> QED
  BY <1>1, <1>2, <1>3, <1>4, <1>5, RecordKeeps

LEMMA DepartKeeps ==
    ASSUME OneDispatcher, PlanInv, NEW c \in Callers, NEW l \in Legs, Depart(c, l)
    PROVE  PlanInv'
<1>1. PICK fact : fact = <<"ofd", call[c].route, l>>
  OBVIOUS
<1>2. call[c].at = "departing" /\ Record(c, l, "out_for_delivery", fact)
  BY <1>1 DEF Depart, At
<1>3. \A n \in Nat, m \in Legs : fact # <<"assign", n, m>>
  BY <1>1
<1> QED
  BY <1>2, <1>3, RecordKeeps

-----------------------------------------------------------------------------
(* The calls: what they write to the stops of a draft *)

LEMMA ShapingCall ==
    ASSUME PlanInv, NEW c \in Callers, call[c].at \in Shaping
    PROVE  /\ call[c] \in CallRow /\ call[c].route \in Routes /\ call[c].legs \in SUBSET Legs
           /\ call[c].stops \in SUBSET Nat
           /\ c \in Dispatchers /\ route[call[c].route] = "DRAFT"
<1>1. call[c] \in CallRow
  BY CallIs DEF PlanInv
<1> QED
  BY <1>1 DEF PlanInv, CallTrue, ShapesADraft, CallRow

FreeFor(r, more) ==
    \A other \in Routes \ {r} : route[other] \in Waiting => LegsOf(other) \cap more = {}

OnlyTheseCome(rows, r, more) ==
    /\ DOMAIN stops \subseteq DOMAIN rows /\ \A i \in DOMAIN stops : rows[i].route = stops[i].route
    /\ \A i \in DOMAIN rows : rows[i].status # "REMOVED" =>
          \/ i \in DOMAIN stops /\ stops[i].status # "REMOVED" /\ rows[i].legs = stops[i].legs
          \/ rows[i].route = r /\ rows[i].legs \subseteq more

\* What goes to the stops of a draft is free for it.
LEMMA CommitStopsKeeps ==
    ASSUME OneDispatcher, PlanInv, NEW c \in Callers, call[c].at \in Shaping,
           NEW rows \in Seq(StopRow), CommitStops(c, rows),
           NEW r, r = call[c].route, NEW more \in SUBSET Legs,
           FreeFor(r, more), OnlyTheseCome(rows, r, more)
    PROVE  PlanInv'
<1> USE DEF FreeFor, OnlyTheseCome
<1>1. /\ call' = [call EXCEPT ![c] = Idle] /\ UNCHANGED <<route, parcel, facts>>
      /\ stops' = rows \/ stops' = stops
  BY DEF CommitStops, Leave
<1>2. CASE stops' = stops
  BY <1>1, <1>2, CallEnds
<1>3. CASE stops' = rows
  <2>1. r = call[c].route
    OBVIOUS
  <2>2. r \in Routes /\ c \in Dispatchers /\ route[r] = "DRAFT"
    BY ShapingCall
  <2>3. StopsStay /\ RoutesMoveOn /\ DraftsStay /\ ParcelsMoveOn
    BY <1>1, <1>3, SameRoutes DEF StopsStay, ParcelsMoveOn
  <2>4. DispatchRows'
    <3>1. PICK S : S = StopRow
      OBVIOUS
    <3>2. stops' \in Seq(S)
      BY <1>3, <3>1
    <3> QED
      BY <1>1, <3>1, <3>2 DEF PlanInv, DispatchRows
  <2>5. CallTrue(c)' /\ \A d \in Callers \ {c} : call'[d] = call[d]
    BY <1>1, IdleIsTrue, CallSets DEF PlanInv
  <2>6. LegsOf(r)' \subseteq LegsOf(r) \cup more
    <3>1. ASSUME NEW i \in DOMAIN stops', stops'[i].route = r, stops'[i].status # "REMOVED"
          PROVE  stops'[i].legs \subseteq LegsOf(r) \cup more
      <4>1. CASE i \in DOMAIN stops /\ stops[i].status # "REMOVED" /\ rows[i].legs = stops[i].legs
        <5>1. stops[i].route = r
          BY <1>3, <3>1, <4>1
        <5>2. stops[i].legs \subseteq LegsOf(r)
          BY <4>1, <5>1 DEF LegsOf, StopsOf
        <5> QED
          BY <1>3, <4>1, <5>2
      <4>2. CASE rows[i].legs \subseteq more
        BY <1>3, <4>2
      <4> QED
        BY <1>3, <3>1, <4>1, <4>2
    <3> QED
      BY <3>1, LegsGrow
  <2>7. ASSUME NEW other \in Routes \ {r} PROVE LegsOf(other)' \subseteq LegsOf(other)
    <3>1. \A i \in DOMAIN stops' :
             stops'[i].route = other /\ stops'[i].status # "REMOVED" =>
                /\ i \in DOMAIN stops /\ stops[i].route = other /\ stops[i].status # "REMOVED"
                /\ stops'[i].legs = stops[i].legs
      BY <1>3, <2>7
    <3> QED
      BY <3>1, LegsKept
  <2>8. ShapedLegsFixed
    BY <2>2, <2>7 DEF ShapedLegsFixed
  <2>9. FactsTrue'
    BY <1>1, <2>3, FactsStay DEF PlanInv
  <2>10. PublishedIsAssigned'
    <3>1. ASSUME NEW q \in Routes, route'[q] \in {"PUBLISHED", "IN_PROGRESS", "COMPLETED"},
                 NEW l \in LegsOf(q)'
          PROVE  parcel'[l] # "CREATED"
      <4>1. q # r
        BY <1>1, <2>2, <3>1
      <4>2. l \in LegsOf(q)
        BY <2>7, <3>1, <4>1
      <4> QED
        BY <1>1, <3>1, <4>2 DEF PlanInv, PublishedIsAssigned
    <3> QED
      BY <3>1 DEF PublishedIsAssigned
  <2>11. PlannedOnce'
    <3>1. ASSUME NEW p \in Routes, NEW q \in Routes, p # q, p # r,
                 route[p] \in Waiting, route[q] \in Waiting
          PROVE  LegsOf(p)' \cap LegsOf(q)' = {}
      <4>1. LegsOf(p) \cap LegsOf(q) = {} /\ LegsOf(p)' \subseteq LegsOf(p)
        BY <2>7, <3>1 DEF PlanInv, PlannedOnce, Waiting
      <4>2. CASE q = r
        <5>1. LegsOf(p) \cap more = {}
          BY <2>1, <3>1
        <5> QED
          BY <2>6, <4>1, <4>2, <5>1
      <4>3. CASE q # r
        BY <2>7, <4>1, <4>3
      <4> QED
        BY <4>2, <4>3
    <3>2. ASSUME NEW p \in Routes, NEW q \in Routes, p # q, route[p] \in Waiting, route[q] \in Waiting
          PROVE  LegsOf(p)' \cap LegsOf(q)' = {}
      <4>1. CASE p # r
        BY <3>1, <3>2, <4>1
      <4>2. CASE p = r
        <5>1. LegsOf(q)' \cap LegsOf(p)' = {}
          BY <3>1, <3>2, <4>2
        <5> QED
          BY <5>1
      <4> QED
        BY <4>1, <4>2
    <3> QED
      BY <1>1, <3>2 DEF PlannedOnce, Waiting
  <2> QED
    BY <2>2, <2>3, <2>4, <2>5, <2>8, <2>9, <2>10, <2>11, OneMoves
<1> QED
  BY <1>1, <1>2, <1>3

LEMMA StopsCount ==
    ASSUME DispatchRows, NEW S, S \subseteq DOMAIN stops
    PROVE  IsFiniteSet(S) /\ Cardinality(S) \in Nat
<1>1. IsFiniteSet(1 .. Len(stops))
  BY StopIs, FS_Interval
<1>2. S \subseteq 1 .. Len(stops)
  BY StopIs
<1>3. IsFiniteSet(S)
  BY <1>1, <1>2, FS_Subset
<1> QED
  BY <1>3, FS_CardinalityType

LEMMA InsertKeeps ==
    ASSUME OneDispatcher, PlanInv, NEW c \in Callers, CommitInsert(c)
    PROVE  PlanInv'
<1>1. PICK l, n, r, legs : /\ l = (CHOOSE leg \in call[c].legs : TRUE) /\ n = Cardinality(call[c].stops)
                           /\ r = call[c].route /\ legs = call[c].legs
  OBVIOUS
<1>2. PICK new : new = [route |-> r, door |-> Door[l], legs |-> legs, status |-> "PENDING",
                        locked |-> FALSE, seq |-> n]
  OBVIOUS
<1>3. call[c].at = "inserting" /\ CommitStops(c, Append(stops, new))
  BY <1>1, <1>2 DEF CommitInsert, At
<1>4. call[c].at \in Shaping
  BY <1>3 DEF Shaping
<1>5. /\ r \in Routes /\ legs \in SUBSET Legs /\ legs # {} /\ l \in legs
      /\ \A other \in Routes \ {r} : route[other] \in Waiting => LegsOf(other) \cap legs = {}
  <2>1. r \in Routes /\ legs \in SUBSET Legs
    BY <1>1, <1>4, ShapingCall
  <2>2. legs # {}
    BY <1>1, <1>3 DEF PlanInv, CallTrue, ShapesADraft
  <2>3. \A other \in Routes \ {r} : route[other] \in Waiting => LegsOf(other) \cap legs = {}
    BY <1>1, <1>3 DEF PlanInv, CallTrue, AddsFreeLegs
  <2> QED
    BY <1>1, <2>1, <2>2, <2>3
<1>6. n \in Nat
  BY <1>1, <1>3, StopsCount DEF PlanInv, CallTrue, KnowsItsStops
<1>7. new \in StopRow /\ new.route = r /\ new.legs = legs /\ new.status = "PENDING"
  BY <1>2, <1>5, <1>6 DEF StopRow, Open
<1>8. PICK rows : rows = Append(stops, new)
  OBVIOUS
<1>9. /\ rows \in Seq(StopRow) /\ DOMAIN stops \subseteq DOMAIN rows
      /\ \A i \in DOMAIN stops : rows[i] = stops[i]
      /\ \A i \in DOMAIN rows : i \notin DOMAIN stops => rows[i] = new
  <2>1. PICK S : S = StopRow
    OBVIOUS
  <2>2. stops \in Seq(S) /\ new \in S
    BY <1>7, <2>1 DEF PlanInv, DispatchRows
  <2>3. rows \in Seq(S)
    BY <1>8, <2>2
  <2> QED
    BY <1>8, <2>1, <2>2, <2>3
<1>10. \A i \in DOMAIN stops : rows[i].route = stops[i].route
  BY <1>9
<1>11. \A i \in DOMAIN rows : rows[i].status # "REMOVED" =>
            \/ i \in DOMAIN stops /\ stops[i].status # "REMOVED" /\ rows[i].legs = stops[i].legs
            \/ rows[i].route = r /\ rows[i].legs \subseteq legs
  <2>1. ASSUME NEW i \in DOMAIN stops, rows[i].status # "REMOVED"
        PROVE  i \in DOMAIN stops /\ stops[i].status # "REMOVED" /\ rows[i].legs = stops[i].legs
    BY <1>9, <2>1
  <2>2. ASSUME NEW i \in DOMAIN rows, i \notin DOMAIN stops
        PROVE  rows[i].route = r /\ rows[i].legs \subseteq legs
    BY <1>7, <1>9, <2>2
  <2> QED
    BY <2>1, <2>2
<1>12. CommitStops(c, rows) /\ r = call[c].route
  BY <1>1, <1>3, <1>8
<1>13. FreeFor(r, legs) /\ OnlyTheseCome(rows, r, legs)
  BY <1>5, <1>9, <1>10, <1>11 DEF FreeFor, OnlyTheseCome
<1> QED
  BY <1>4, <1>5, <1>9, <1>12, <1>13, CommitStopsKeeps

\* The stops written over, each by a row of its own.
LEMMA RowsAreRows ==
    ASSUME DispatchRows, NEW rows \in [DOMAIN stops -> StopRow]
    PROVE  rows \in Seq(StopRow) /\ DOMAIN rows = DOMAIN stops
<1>1. PICK S : S = StopRow
  OBVIOUS
<1>2. DOMAIN stops = 1 .. Len(stops) /\ Len(stops) \in Nat
  BY StopIs
<1>3. rows \in Seq(S)
  BY <1>1, <1>2
<1> QED
  BY <1>1, <1>3

LEMMA MergeKeeps ==
    ASSUME OneDispatcher, PlanInv, NEW c \in Callers, CommitMerge(c)
    PROVE  PlanInv'
<1>1. PICK legs, seen, r : legs = call[c].legs /\ seen = call[c].stops /\ r = call[c].route
  OBVIOUS
<1>2. PICK rows : rows = [i \in DOMAIN stops |->
                            IF i \in seen THEN [stops[i] EXCEPT !.legs = legs] ELSE stops[i]]
  OBVIOUS
<1>3. call[c].at = "merging" /\ CommitStops(c, rows)
  BY <1>1, <1>2 DEF CommitMerge, At
<1>4. call[c].at \in Shaping
  BY <1>3 DEF Shaping
<1>5. r \in Routes /\ legs \in SUBSET Legs
  BY <1>1, <1>4, ShapingCall
<1>6. \A other \in Routes \ {r} : route[other] \in Waiting => LegsOf(other) \cap legs = {}
  BY <1>1, <1>3 DEF PlanInv, CallTrue, AddsFreeLegs
<1>7. \A i \in seen : stops[i].route = r
  BY <1>1, <1>3 DEF PlanInv, CallTrue, KnowsItsStops, At
<1>8. \A i \in DOMAIN stops : stops[i] \in StopRow
  BY StopIs DEF PlanInv
<1>9. ASSUME NEW i \in DOMAIN stops
      PROVE  /\ rows[i] \in StopRow /\ rows[i].route = stops[i].route
             /\ rows[i].status # "REMOVED" =>
                  \/ stops[i].status # "REMOVED" /\ rows[i].legs = stops[i].legs
                  \/ rows[i].route = r /\ rows[i].legs \subseteq legs
  <2>1. CASE i \in seen
    <3>1. rows[i] = [stops[i] EXCEPT !.legs = legs]
      BY <1>2, <2>1
    <3>2. rows[i] \in StopRow
      BY <1>5, <1>8, <3>1 DEF StopRow
    <3>3. rows[i].route = stops[i].route /\ rows[i].legs = legs
      BY <1>8, <3>1 DEF StopRow
    <3> QED
      BY <1>7, <2>1, <3>2, <3>3
  <2>2. CASE i \notin seen
    BY <1>2, <1>8, <2>2
  <2> QED
    BY <2>1, <2>2
<1>10. rows \in [DOMAIN stops -> StopRow]
  BY <1>2, <1>9
<1>11. rows \in Seq(StopRow) /\ DOMAIN rows = DOMAIN stops
  BY <1>10, RowsAreRows DEF PlanInv
<1>12. \A i \in DOMAIN stops : rows[i].route = stops[i].route
  BY <1>9
<1>13. \A i \in DOMAIN rows : rows[i].status # "REMOVED" =>
            \/ i \in DOMAIN stops /\ stops[i].status # "REMOVED" /\ rows[i].legs = stops[i].legs
            \/ rows[i].route = r /\ rows[i].legs \subseteq legs
  BY <1>9, <1>11
<1>14. r = call[c].route /\ DOMAIN stops \subseteq DOMAIN rows
  BY <1>1, <1>11
<1>15. FreeFor(r, legs) /\ OnlyTheseCome(rows, r, legs)
  BY <1>6, <1>12, <1>13, <1>14 DEF FreeFor, OnlyTheseCome
<1> QED
  BY <1>3, <1>4, <1>5, <1>11, <1>14, <1>15, CommitStopsKeeps

\* Rows that keep their legs bring none.
LEMMA NoLegComes ==
    ASSUME OneDispatcher, PlanInv, NEW c \in Callers, call[c].at \in Shaping,
           NEW rows \in [DOMAIN stops -> StopRow], CommitStops(c, rows),
           \A i \in DOMAIN stops :
              /\ rows[i].route = stops[i].route /\ rows[i].legs = stops[i].legs
              /\ rows[i].status # "REMOVED" => stops[i].status # "REMOVED"
    PROVE  PlanInv'
<1>1. rows \in Seq(StopRow) /\ DOMAIN rows = DOMAIN stops
  BY RowsAreRows DEF PlanInv
<1>2. PICK none : none = {}
  OBVIOUS
<1>3. none \in SUBSET Legs /\ \A other : LegsOf(other) \cap none = {}
  BY <1>2
<1>4. PICK r : r = call[c].route
  OBVIOUS
<1>5. \A i \in DOMAIN rows : rows[i].status # "REMOVED" =>
            \/ i \in DOMAIN stops /\ stops[i].status # "REMOVED" /\ rows[i].legs = stops[i].legs
            \/ rows[i].route = r /\ rows[i].legs \subseteq none
  BY <1>1
<1>6. \A other \in Routes \ {r} : route[other] \in Waiting => LegsOf(other) \cap none = {}
  BY <1>3
<1>7. DOMAIN stops \subseteq DOMAIN rows /\ \A i \in DOMAIN stops : rows[i].route = stops[i].route
  BY <1>1
<1>8. FreeFor(r, none) /\ OnlyTheseCome(rows, r, none)
  BY <1>5, <1>6, <1>7 DEF FreeFor, OnlyTheseCome
<1> QED
  BY <1>1, <1>3, <1>4, <1>8, CommitStopsKeeps

LEMMA RemoveKeeps ==
    ASSUME OneDispatcher, PlanInv, NEW c \in Callers, NEW i, CommitRemove(c, i)
    PROVE  PlanInv'
<1>1. PICK r, seq : /\ r = call[c].route
                    /\ seq = [j \in DOMAIN stops |->
                                Cardinality({k \in StopsOf(r) \ {i} : stops[k].seq < stops[j].seq})]
  OBVIOUS
<1>2. PICK rows : rows = [j \in DOMAIN stops |->
                            IF j = i THEN [stops[j] EXCEPT !.status = "REMOVED"]
                            ELSE IF j \in StopsOf(r) THEN [stops[j] EXCEPT !.seq = seq[j]] ELSE stops[j]]
  OBVIOUS
<1>3. call[c].at = "removing" /\ CommitStops(c, rows)
  <2>1. rows = [j \in DOMAIN stops |->
                  IF j = i THEN [stops[j] EXCEPT !.status = "REMOVED"]
                  ELSE IF j \in StopsOf(call[c].route)
                  THEN [stops[j] EXCEPT !.seq = Cardinality(
                          {k \in StopsOf(call[c].route) \ {i} : stops[k].seq < stops[j].seq})]
                  ELSE stops[j]]
    BY <1>1, <1>2
  <2> QED
    BY <2>1 DEF CommitRemove, At
<1>4. call[c].at \in Shaping
  BY <1>3 DEF Shaping
<1>5. \A j \in DOMAIN stops : stops[j] \in StopRow
  BY StopIs DEF PlanInv
<1>6. ASSUME NEW j \in DOMAIN stops PROVE seq[j] \in Nat
  <2>1. {k \in StopsOf(r) \ {i} : stops[k].seq < stops[j].seq} \subseteq DOMAIN stops
    BY StopsOfIs DEF PlanInv
  <2> QED
    BY <1>1, <2>1, StopsCount DEF PlanInv
<1>7. ASSUME NEW j \in DOMAIN stops
      PROVE  /\ rows[j] \in StopRow /\ rows[j].route = stops[j].route /\ rows[j].legs = stops[j].legs
             /\ rows[j].status # "REMOVED" => stops[j].status # "REMOVED"
  <2>1. CASE j = i
    <3>1. rows[j] = [stops[j] EXCEPT !.status = "REMOVED"]
      BY <1>2, <2>1
    <3> QED
      BY <1>5, <3>1 DEF StopRow
  <2>2. CASE j # i /\ j \in StopsOf(r)
    <3>1. rows[j] = [stops[j] EXCEPT !.seq = seq[j]]
      BY <1>2, <2>2
    <3> QED
      BY <1>5, <1>6, <3>1 DEF StopRow
  <2>3. CASE j # i /\ j \notin StopsOf(r)
    BY <1>2, <1>5, <2>3
  <2> QED
    BY <2>1, <2>2, <2>3
<1>8. rows \in [DOMAIN stops -> StopRow]
  BY <1>2, <1>7
<1> QED
  BY <1>3, <1>4, <1>7, <1>8, NoLegComes

LEMMA OptimizeKeeps ==
    ASSUME OneDispatcher, PlanInv, NEW c \in Callers, CommitOptimize(c)
    PROVE  PlanInv'
<1>1. PICK seen : seen = call[c].stops
  OBVIOUS
<1>2. PICK order \in [seen -> 0 .. Cardinality(seen) - 1] :
        CommitStops(c, [i \in DOMAIN stops |->
                          IF i \in seen /\ stops[i].status # "REMOVED"
                          THEN [stops[i] EXCEPT !.seq = order[i]] ELSE stops[i]])
  BY <1>1 DEF CommitOptimize
<1>3. PICK rows : rows = [i \in DOMAIN stops |->
                            IF i \in seen /\ stops[i].status # "REMOVED"
                            THEN [stops[i] EXCEPT !.seq = order[i]] ELSE stops[i]]
  OBVIOUS
<1>4. call[c].at = "optimising" /\ CommitStops(c, rows)
  BY <1>2, <1>3 DEF CommitOptimize, At
<1>5. call[c].at \in Shaping
  BY <1>4 DEF Shaping
<1>6. \A j \in DOMAIN stops : stops[j] \in StopRow
  BY StopIs DEF PlanInv
<1>7. Cardinality(seen) \in Nat
  BY <1>1, <1>4, StopsCount DEF PlanInv, CallTrue, KnowsItsStops
<1>8. \A j \in seen : order[j] \in Nat
  BY <1>7
<1>9. ASSUME NEW j \in DOMAIN stops
      PROVE  /\ rows[j] \in StopRow /\ rows[j].route = stops[j].route /\ rows[j].legs = stops[j].legs
             /\ rows[j].status # "REMOVED" => stops[j].status # "REMOVED"
  <2>1. CASE j \in seen /\ stops[j].status # "REMOVED"
    <3>1. rows[j] = [stops[j] EXCEPT !.seq = order[j]]
      BY <1>3, <2>1
    <3> QED
      BY <1>6, <1>8, <2>1, <3>1 DEF StopRow
  <2>2. CASE j \notin seen \/ stops[j].status = "REMOVED"
    BY <1>3, <1>6, <2>2
  <2> QED
    BY <2>1, <2>2
<1>10. rows \in [DOMAIN stops -> StopRow]
  BY <1>3, <1>9
<1> QED
  BY <1>4, <1>5, <1>9, <1>10, NoLegComes

-----------------------------------------------------------------------------
(* The calls: what they write to a route *)

\* What a call may make of its route: what it is about to be is assigned.
LEMMA RouteWrites ==
    ASSUME OneDispatcher, PlanInv, NEW c \in Callers, DispatchRows',
           \A d \in Callers \ {c} : call'[d] = call[d], CallTrue(c)',
           NEW r \in Routes, NEW status, route' = [route EXCEPT ![r] = status],
           status # "DRAFT", status \in Waiting => route[r] \in Waiting,
           status \in {"PUBLISHED", "IN_PROGRESS", "COMPLETED"} => IsAssigned(LegsOf(r)),
           c \in Dispatchers \/ route[r] # "DRAFT",
           UNCHANGED <<parcel, facts>>, StopsStay, LegsFixed
    PROVE  PlanInv'
<1>1. route'[r] = status /\ \A q \in Routes \ {r} : route'[q] = route[q]
  BY DEF PlanInv, DispatchRows
<1>2. RoutesMoveOn
  BY <1>1 DEF RoutesMoveOn
<1>3. c \in Dispatchers \/ DraftsStay
  BY <1>1 DEF DraftsStay
<1>4. ShapedLegsFixed /\ ParcelsMoveOn
  BY DEF LegsFixed, ShapedLegsFixed, ParcelsMoveOn
<1>5. \A q \in Routes : route'[q] \in {"PUBLISHED", "IN_PROGRESS", "COMPLETED"} =>
         \/ route[q] \in {"PUBLISHED", "IN_PROGRESS", "COMPLETED"}
         \/ IsAssigned(LegsOf(q))
  BY <1>1
<1>6. PublishedIsAssigned' /\ PlannedOnce'
  BY <1>2, <1>4, <1>5, PlansStay DEF PlanInv
<1>7. FactsTrue'
  BY <1>4, FactsStay DEF PlanInv
<1> QED
  BY <1>2, <1>3, <1>4, <1>6, <1>7, OneMoves

LEMMA PublishKeeps ==
    ASSUME OneDispatcher, PlanInv, NEW c \in Callers, CommitPublish(c)
    PROVE  PlanInv'
<1>1. PICK r : r = call[c].route
  OBVIOUS
<1>2. PICK rows : rows = [i \in DOMAIN stops |->
                            IF i \in StopsOf(r) THEN [stops[i] EXCEPT !.locked = TRUE] ELSE stops[i]]
  OBVIOUS
<1>3. /\ call[c].at = "assigning" /\ call[c].legs = {} /\ route' = [route EXCEPT ![r] = "PUBLISHED"]
      /\ call' = [call EXCEPT ![c] = Idle] /\ stops' = rows /\ UNCHANGED <<parcel, facts>>
  BY <1>1, <1>2 DEF CommitPublish, At, SetStatus, Leave
<1>4. r \in Routes /\ c \in Dispatchers /\ route[r] = "DRAFT"
  BY <1>1, <1>3, ShapingCall DEF Shaping
<1>5. \A i \in DOMAIN stops : stops[i] \in StopRow
  BY StopIs DEF PlanInv
<1>6. ASSUME NEW i \in DOMAIN stops
      PROVE  /\ rows[i] \in StopRow /\ rows[i].route = stops[i].route /\ rows[i].legs = stops[i].legs
             /\ rows[i].status = stops[i].status
  <2>1. CASE i \in StopsOf(r)
    <3>1. rows[i] = [stops[i] EXCEPT !.locked = TRUE]
      BY <1>2, <2>1
    <3> QED
      BY <1>5, <3>1 DEF StopRow
  <2>2. CASE i \notin StopsOf(r)
    BY <1>2, <1>5, <2>2
  <2> QED
    BY <2>1, <2>2
<1>7. rows \in [DOMAIN stops -> StopRow]
  BY <1>2, <1>6
<1>8. rows \in Seq(StopRow) /\ DOMAIN rows = DOMAIN stops
  BY <1>7, RowsAreRows DEF PlanInv
<1>9. StopsStay
  BY <1>3, <1>6, <1>8 DEF StopsStay
<1>10. LegsFixed
  <2>1. ASSUME NEW q \in Routes PROVE LegsOf(q)' \subseteq LegsOf(q)
    <3>1. \A i \in DOMAIN stops' :
             stops'[i].route = q /\ stops'[i].status # "REMOVED" =>
                /\ i \in DOMAIN stops /\ stops[i].route = q /\ stops[i].status # "REMOVED"
                /\ stops'[i].legs = stops[i].legs
      BY <1>3, <1>6, <1>8
    <3> QED
      BY <3>1, LegsKept
  <2> QED
    BY <2>1 DEF LegsFixed
<1>11. DispatchRows'
  <2>1. PICK S : S = StopRow
    OBVIOUS
  <2>2. stops' \in Seq(S)
    BY <1>3, <1>8, <2>1
  <2>3. route' \in [Routes -> RouteStatuses]
    BY <1>3 DEF PlanInv, DispatchRows, RouteStatuses
  <2> QED
    BY <1>3, <2>1, <2>2, <2>3 DEF PlanInv, DispatchRows
<1>12. IsAssigned(LegsOf(r))
  BY <1>1, <1>3 DEF PlanInv, CallTrue, AssignsTheRest, IsAssigned, At
<1>13. CallTrue(c)' /\ \A d \in Callers \ {c} : call'[d] = call[d]
  BY <1>3, IdleIsTrue, CallSets DEF PlanInv
<1>14. PICK status : status = "PUBLISHED"
  OBVIOUS
<1>15. route' = [route EXCEPT ![r] = status] /\ status # "DRAFT" /\ route[r] \in Waiting
  BY <1>3, <1>4, <1>14 DEF Waiting
<1> QED
  BY <1>3, <1>4, <1>9, <1>10, <1>11, <1>12, <1>13, <1>15, RouteWrites

LEMMA RunningCall ==
    ASSUME PlanInv, NEW c \in Callers, call[c].at \in Running
    PROVE  /\ call[c] \in CallRow /\ call[c].route \in Routes
           /\ route[call[c].route] # "DRAFT" /\ IsAssigned(LegsOf(call[c].route))
<1>1. call[c] \in CallRow
  BY CallIs DEF PlanInv
<1> QED
  BY <1>1 DEF PlanInv, CallTrue, AssignsTheRest, CallRow

\* The write of a status that is none of those a route waits with.
LEMMA StatusKeeps ==
    ASSUME OneDispatcher, PlanInv, NEW c \in Callers,
           NEW r \in Routes, NEW status \in RouteStatuses \ Waiting,
           route' = [route EXCEPT ![r] = status], UNCHANGED <<stops, parcel, facts>>,
           status # "CANCELLED" => IsAssigned(LegsOf(r)),
           c \in Dispatchers \/ route[r] # "DRAFT",
           NEW v \in {Idle} \cup CallRow, call' = [call EXCEPT ![c] = v], CallTrue(c)'
    PROVE  PlanInv'
<1>1. DispatchRows'
  BY DEF PlanInv, DispatchRows
<1>2. StopsStay /\ LegsFixed
  BY SameStops
<1>3. \A d \in Callers \ {c} : call'[d] = call[d]
  BY CallSets DEF PlanInv
<1>4. /\ status # "DRAFT" /\ (status \in Waiting => route[r] \in Waiting)
      /\ status \in {"PUBLISHED", "IN_PROGRESS", "COMPLETED"} => IsAssigned(LegsOf(r))
  BY DEF Waiting
<1> QED
  BY <1>1, <1>2, <1>3, <1>4, RouteWrites

LEMMA CommitStartKeeps ==
    ASSUME OneDispatcher, PlanInv, NEW c \in Callers, CommitStart(c)
    PROVE  PlanInv'
<1>1. PICK r, v : r = call[c].route /\ v = [call[c] EXCEPT !.at = "started"]
  OBVIOUS
<1>2. /\ call[c].at = "starting" /\ UNCHANGED <<stops, parcel, facts>>
      /\ \/ call' = [call EXCEPT ![c] = Idle] /\ UNCHANGED route
         \/ call' = [call EXCEPT ![c] = v] /\ route' = [route EXCEPT ![r] = "IN_PROGRESS"]
  BY <1>1 DEF CommitStart, At, Leave, SetStatus
<1>3. call[c] \in CallRow /\ r \in Routes /\ route[r] # "DRAFT" /\ IsAssigned(LegsOf(r))
  BY <1>1, <1>2, RunningCall DEF Running
<1>4. CASE call' = [call EXCEPT ![c] = Idle] /\ UNCHANGED route
  BY <1>2, <1>4, CallEnds
<1>5. CASE call' = [call EXCEPT ![c] = v] /\ route' = [route EXCEPT ![r] = "IN_PROGRESS"]
  <2>1. v \in CallRow /\ v.at = "started" /\ v.route = r
    BY <1>1, <1>3 DEF CallRow, Running
  <2>2. PICK status : status = "IN_PROGRESS"
    OBVIOUS
  <2>3. status \in RouteStatuses \ Waiting /\ route' = [route EXCEPT ![r] = status] /\ route'[r] = status
    BY <1>3, <1>5, <2>2 DEF RouteStatuses, Waiting, PlanInv, DispatchRows
  <2>4. call'[c] = v
    BY <1>5, CallSets DEF PlanInv
  <2>5. LegsOf(r)' = LegsOf(r) /\ IsAssigned(LegsOf(r))'
    BY <1>2, <1>3 DEF LegsOf, StopsOf, IsAssigned
  <2>6. CallTrue(c)'
    <3>1. v.at \notin Shaping /\ v.at # "cancelling" /\ v.at \in Running
      BY <2>1 DEF Shaping, Running
    <3>2. ShapesADraft(c)'
      BY <2>1, <2>4, <3>1 DEF ShapesADraft, At
    <3>3. AddsFreeLegs(c)' /\ KnowsItsStops(c)'
      BY <2>1, <2>4 DEF AddsFreeLegs, KnowsItsStops, At
    <3>4. AssignsTheRest(c)'
      BY <2>1, <2>2, <2>3, <2>4, <2>5 DEF AssignsTheRest, At
    <3> QED
      BY <3>2, <3>3, <3>4 DEF CallTrue
  <2> QED
    BY <1>2, <1>3, <1>5, <2>1, <2>3, <2>6, StatusKeeps
<1> QED
  BY <1>2, <1>4, <1>5

LEMMA EndKeeps ==
    ASSUME OneDispatcher, PlanInv, NEW c \in Callers, NEW at, NEW status, CommitEnd(c, at, status),
           <<at, status>> \in {<<"closing", "COMPLETED">>, <<"cancelling", "CANCELLED">>}
    PROVE  PlanInv'
<1>1. PICK r, v : r = call[c].route /\ v = Idle
  OBVIOUS
<1>2. /\ call[c].at = at /\ route' = [route EXCEPT ![r] = status]
      /\ call' = [call EXCEPT ![c] = v] /\ UNCHANGED <<stops, parcel, facts>>
  BY <1>1 DEF CommitEnd, At, SetStatus, Leave
<1>3. r \in Routes
  BY <1>1, <1>2, CallIs DEF PlanInv, Running, CallRow
<1>4. status \in RouteStatuses \ Waiting
  BY DEF RouteStatuses, Waiting
<1>5. status # "CANCELLED" => route[r] # "DRAFT" /\ IsAssigned(LegsOf(r))
  BY <1>1, <1>2, RunningCall DEF Running
<1>6. status = "CANCELLED" => c \in Dispatchers
  BY <1>2 DEF PlanInv, CallTrue, ShapesADraft, At
<1>7. CallTrue(c)'
  BY <1>1, <1>2, IdleIsTrue, CallSets DEF PlanInv
<1> QED
  BY <1>1, <1>2, <1>3, <1>4, <1>5, <1>6, <1>7, StatusKeeps

LEMMA CommitEndKeeps ==
    ASSUME OneDispatcher, PlanInv, NEW c \in Callers, CommitComplete(c) \/ CommitCancel(c)
    PROVE  PlanInv'
<1>1. CASE CommitComplete(c)
  <2>1. PICK at, status : at = "closing" /\ status = "COMPLETED"
    OBVIOUS
  <2>2. CommitEnd(c, at, status)
    BY <1>1, <2>1 DEF CommitComplete
  <2>3. <<at, status>> \in {<<"closing", "COMPLETED">>, <<"cancelling", "CANCELLED">>}
    BY <2>1
  <2> QED
    BY <2>2, <2>3, EndKeeps
<1>2. CASE CommitCancel(c)
  <2>1. PICK at, status : at = "cancelling" /\ status = "CANCELLED"
    OBVIOUS
  <2>2. CommitEnd(c, at, status)
    BY <1>2, <2>1 DEF CommitCancel
  <2>3. <<at, status>> \in {<<"closing", "COMPLETED">>, <<"cancelling", "CANCELLED">>}
    BY <2>1
  <2> QED
    BY <2>2, <2>3, EndKeeps
<1> QED
  BY <1>1, <1>2

LEMMA ContinueKeeps ==
    ASSUME OneDispatcher, PlanInv, NEW c \in Callers, Continue(c)
    PROVE  PlanInv'
<1>1. CASE PlanAdd(c)
  BY <1>1, PlanAddKeeps
<1>2. CASE CommitInsert(c)
  BY <1>2, InsertKeeps
<1>3. CASE CommitMerge(c)
  BY <1>3, MergeKeeps
<1>4. CASE CommitOptimize(c)
  BY <1>4, OptimizeKeeps
<1>5. CASE \E i \in DOMAIN stops : CommitRemove(c, i)
  BY <1>5, RemoveKeeps
<1>6. CASE ListToAssign(c)
  BY <1>6, ListToAssignKeeps
<1>7. CASE CommitPublish(c)
  BY <1>7, PublishKeeps
<1>8. CASE CommitStart(c)
  BY <1>8, CommitStartKeeps
<1>9. CASE ListAboard(c)
  BY <1>9, ListAboardKeeps
<1>10. CASE EndStart(c)
  <2>1. call' = [call EXCEPT ![c] = Idle] /\ UNCHANGED <<route, stops, parcel, facts>>
    BY <1>10 DEF EndStart, Leave
  <2> QED
    BY <2>1, CallEnds
<1>11. CASE CheckStops(c)
  BY <1>11, CheckStopsKeeps
<1>12. CASE CommitComplete(c) \/ CommitCancel(c)
  BY <1>12, CommitEndKeeps
<1>13. CASE \E l \in Legs : Assign(c, l) \/ Depart(c, l)
  BY <1>13, AssignKeeps, DepartKeeps
<1> QED
  BY <1>1, <1>2, <1>3, <1>4, <1>5, <1>6, <1>7, <1>8, <1>9, <1>10, <1>11, <1>12, <1>13 DEF Continue

LEMMA LoseCallKeeps ==
    ASSUME PlanInv, NEW c \in Callers, LoseCall(c)
    PROVE  PlanInv'
<1>1. call' = [call EXCEPT ![c] = Idle] /\ UNCHANGED <<route, stops, parcel, facts>>
  BY DEF LoseCall, Leave
<1> QED
  BY <1>1, CallEnds

-----------------------------------------------------------------------------
(* Routes: the theorems *)

LEMMA PlanStarts == Init => PlanInv
<1> SUFFICES ASSUME Init PROVE PlanInv
  OBVIOUS
<1>1. DispatchRows
  BY DEF Init, DispatchRows, RouteStatuses, Statuses, TerminalStatuses
<1>2. \A r : LegsOf(r) = {}
  BY DEF Init, LegsOf, StopsOf
<1>3. ASSUME NEW c \in Callers PROVE CallTrue(c)
  BY <1>3 DEF Init, Idle, CallTrue, ShapesADraft, AddsFreeLegs, KnowsItsStops, AssignsTheRest, At,
              Shaping, Running
<1>4. FactsTrue
  BY DEF Init, FactsTrue
<1>5. PublishedIsAssigned /\ PlannedOnce
  BY <1>2 DEF PublishedIsAssigned, PlannedOnce
<1> QED
  BY <1>1, <1>3, <1>4, <1>5 DEF PlanInv

LEMMA PlanStutters ==
    ASSUME PlanInv, UNCHANGED vars
    PROVE  PlanInv'
<1>1. UNCHANGED <<route, stops, parcel, call, facts>>
  BY DEF vars
<1> QED
  BY <1>1, DeviceIdles

LEMMA PlanInvKept == OneDispatcher /\ PlanInv /\ [Next]_vars => PlanInv'
<1> SUFFICES ASSUME OneDispatcher, PlanInv, [Next]_vars PROVE PlanInv'
  OBVIOUS
<1>1. ASSUME NEW c \in Dispatchers, Plan(c) PROVE PlanInv'
  BY <1>1, PlanKeeps
<1>2. ASSUME NEW c \in Callers, Run(c) PROVE PlanInv'
  BY <1>2, RunKeeps
<1>3. ASSUME NEW c \in Callers, Continue(c) PROVE PlanInv'
  BY <1>3, ContinueKeeps
<1>4. ASSUME NEW c \in Callers, LoseCall(c) PROVE PlanInv'
  BY <1>4, LoseCallKeeps
<1>5. ASSUME NEW l \in Legs, SyncStep(l) \/ LoseSync(l) \/ (\E type : Act(l, type)) PROVE PlanInv'
  BY <1>5, DeviceStepKeeps
<1>6. ASSUME NEW l \in Legs, NEW type, ParcelEvent(l, type) PROVE PlanInv'
  BY <1>6, ParcelEventKeeps
<1>7. CASE UNCHANGED vars
  BY <1>7, PlanStutters
<1> QED
  BY <1>1, <1>2, <1>3, <1>4, <1>5, <1>6, <1>7 DEF Next

LEMMA PlanHolds == OneDispatcher => (Spec => []PlanInv)
<1>1. ASSUME OneDispatcher PROVE PlanInv /\ [Next]_vars => PlanInv'
  BY <1>1, PlanInvKept
<1>2. ASSUME OneDispatcher PROVE Spec => []PlanInv
  BY <1>1, <1>2, PlanStarts, PTL DEF Spec
<1> QED
  BY <1>2

\* RouteService.publish: with one dispatcher, however often publish died and was
\* called again, a route a driver has holds no parcel that nobody assigned.
THEOREM DriversGetAssignedParcels == OneDispatcher => (Spec => []PublishedIsAssigned)
<1>1. PlanInv => PublishedIsAssigned
  BY DEF PlanInv
<1> QED
  BY <1>1, PlanHolds, PTL

\* assertLegsNotPlannedElsewhere: with one dispatcher, two routes that wait for a
\* driver never hold the same leg.
THEOREM LegsArePlannedOnce == OneDispatcher => (Spec => []PlannedOnce)
<1>1. PlanInv => PlannedOnce
  BY DEF PlanInv
<1> QED
  BY <1>1, PlanHolds, PTL

-----------------------------------------------------------------------------
(* Finite sets of numbers *)

\* A set of finite sets that is not empty has a smallest one.
LEMMA SmallestSet ==
    ASSUME NEW S, IsFiniteSet(S), NEW F \in SUBSET SUBSET S, F # {}
    PROVE  \E T \in F : \A U \in F : U \subseteq T => U = T
<1> DEFINE R == StrictSubsetOrdering(S)
<1>1. IsWellFoundedOn(R, FiniteSubsetsOf(S))
  BY FS_StrictSubsetOrderingWellFounded
<1>2. F \subseteq FiniteSubsetsOf(S)
  BY FS_Subset DEF FiniteSubsetsOf
<1>3. PICK T \in F : \A U \in F : <<U, T>> \notin R
  <2> HIDE DEF R
  <2> QED
    BY <1>1, <1>2, WFMin
<1>4. ASSUME NEW U \in F, U \subseteq T PROVE U = T
  <2> SUFFICES ASSUME U # T PROVE FALSE
    OBVIOUS
  <2>1. <<U, T>> \in R
    BY <1>4 DEF StrictSubsetOrdering
  <2> QED
    BY <1>3, <2>1
<1> QED
  BY <1>4

LEMMA MinIs ==
    ASSUME NEW S, \A z \in S : z \in Int, IsFiniteSet(S), S # {}
    PROVE  Min(S) \in S /\ \A y \in S : Min(S) <= y
<1> DEFINE Below(x) == {y \in S : y <= x}
           F == {Below(x) : x \in S}
<1>1. PICK T \in F : \A U \in F : U \subseteq T => U = T
  <2>1. F \in SUBSET SUBSET S /\ F # {}
    OBVIOUS
  <2> HIDE DEF F, Below
  <2> QED
    BY <2>1, SmallestSet
<1>2. PICK x \in S : T = Below(x)
  OBVIOUS
<1> HIDE DEF F
<1>3. ASSUME NEW y \in S PROVE x <= y
  <2> SUFFICES ASSUME y < x PROVE FALSE
    OBVIOUS
  <2>1. Below(y) \subseteq T
    BY <1>2
  <2>2. Below(y) \in F
    BY DEF F
  <2>3. Below(y) = T
    <3> HIDE DEF Below
    <3> QED
      BY <1>1, <2>1, <2>2
  <2> QED
    BY <1>2, <2>3
<1> QED
  BY <1>3 DEF Min

-----------------------------------------------------------------------------
(* The outbox: the inductive invariant *)

Subjects == Parcels \cup Addresses \cup Pickups
Answers == {"ACCEPTED", "RETRY", "DISCARD", "ESCALATE", "REFUSED", "ENVELOPE"}
AnswersOf(P) == UNION {[D -> Answers] : D \in SUBSET P}

TapRow ==
    [kind : Kinds, subject : Subjects,
     state : {"PENDING", "DONE", "REFUSED", "ESCALATED"},
     media : {"none", "CAPTURED", "SLOTTED", "UPLOADED", "FAILED"},
     file : BOOLEAN, seen : BOOLEAN]

PhoneRow(P) ==
    [at : {"idle", "slots", "actions", "waiting", "saving", "settling", "refresh", "uploads"},
     todo : SUBSET P, deferred : SUBSET Subjects, synced : BOOLEAN,
     call : Handlers \cup {Nothing}, results : AnswersOf(P), routes : SUBSET P]

RequestRow(P) ==
    [type : {"none", "sync", "scans", "single"}, items : SUBSET P, cites : SUBSET P,
     results : AnswersOf(P), held : SUBSET Subjects, heard : BOOLEAN]

LogRows == log \in Seq(TapRow) /\ Len(log) <= MaxTaps
PhoneRows == phone \in PhoneRow(Taps)
RequestRows == request \in [Handlers -> RequestRow(Taps)]
RestRows ==
    /\ shown \subseteq Taps /\ applied \subseteq Taps /\ judged \subseteq Taps
    /\ cited \subseteq Taps /\ wiped \subseteq Taps
    /\ artifact \in [1..MaxTaps -> {"none", "slot", "stored"}]
    /\ session \in {"in", "leaving", "out"} /\ trouble \in 0..MaxTrouble

Rows == LogRows /\ PhoneRows /\ RequestRows /\ RestRows

HasSlot(i) == log[i].media \in {"SLOTTED", "UPLOADED"}

\* Only a delivery has a photo, and its file stays until the server has it; what
\* was carried out went with its slot, if it has one; and the phone takes an
\* action off its list only when the server has ruled on it.
RowTrue(i) ==
    /\ log[i].media # "none" => log[i].kind = "DELIVERED"
    /\ log[i].media # "none" /\ ~log[i].file => artifact[i] = "stored"
    /\ i \in applied => i \in judged /\ log[i].media # "CAPTURED" /\ (HasSlot(i) => i \in cited)
    /\ log[i].state # "PENDING" => i \in judged
    /\ log[i].state = "DONE" /\ ~log[i].seen =>
          i \in applied /\ (log[i].kind \in SyncKinds => i \in shown)
    /\ log[i].state = "REFUSED" => ~IsPhysical(log[i].kind)

FitsType(type, kind) ==
    \/ type = "sync" /\ kind \in SyncKinds
    \/ type = "scans" /\ kind = "PICKUP_SCAN"
    \/ type = "single" /\ kind \in PickupKinds

\* What a request carries: ...
ItemsFit(r) ==
    \A i \in r.items : /\ FitsType(r.type, log[i].kind)
                       /\ log[i].media # "CAPTURED"
                       /\ HasSlot(i) => i \in r.cites

\* ... what goes before one of its actions is with it or ruled on, ...
ItemsInOrder(r) ==
    /\ \A b \in r.items : \A a \in Taps : Waits(a, b) => a \in r.items \/ a \in judged
    /\ r.type = "single" => \A a, b \in r.items : a = b

\* ... what its answers say is so, ...
AnswerTrue(type, i, v) ==
    /\ v = "ACCEPTED" => i \in applied
    /\ v \notin {"RETRY", "ENVELOPE"} => i \in judged
    /\ v = "ENVELOPE" /\ type # "sync" => i \in judged
    /\ v = "REFUSED" => ~IsPhysical(log[i].kind)

AnswersTrue(r) ==
    \A i \in DOMAIN r.results : i \in r.items /\ AnswerTrue(r.type, i, r.results[i])

\* ... and a parcel whose action was not ruled on holds what comes after it.
HeldBehind(r) ==
    r.type = "sync" /\ DOMAIN r.results # r.items =>
        \A i \in DOMAIN r.results : i \in judged \/ log[i].subject \in r.held

Carries(r) == ItemsFit(r) /\ ItemsInOrder(r) /\ AnswersTrue(r) /\ HeldBehind(r)

\* The phone waits for a request that carries what it has to settle, ...
WaitsFor ==
    /\ phone.at = "waiting" <=> phone.call # Nothing
    /\ phone.call # Nothing => /\ request[phone.call].heard
                               /\ request[phone.call].type # "none"
                               /\ request[phone.call].items = phone.todo

\* ... settles what the server has done, once the manifests say so, ...
OutcomeTrue(v, i, carried) ==
    /\ v = "ACCEPTED" => i \in applied /\ (log[i].kind \in SyncKinds => i \in carried)
    /\ v # "RETRY" => i \in judged
    /\ v \in {"REFUSED", "ENVELOPE"} => ~IsPhysical(log[i].kind)

SettlesTruth(p) ==
    /\ p.at = "saving" => \A i \in p.todo : OutcomeTrue(p.results[i], i, p.routes)
    /\ p.at = "settling" => \A i \in p.todo : OutcomeTrue(p.results[i], i, shown)

\* ... and has yet to presign or upload what it set out to.
PhotosTodo(p) ==
    /\ p.at = "slots" => \A i \in p.todo : log[i].media = "CAPTURED"
    /\ p.at = "uploads" => \A i \in p.todo : log[i].media = "SLOTTED"

OInv ==
    /\ Rows /\ (\A i \in Taps : RowTrue(i)) /\ CarriedOutInOrder
    /\ (\A h \in Handlers : Carries(request[h]))
    /\ WaitsFor /\ SettlesTruth(phone) /\ PhotosTodo(phone)

-----------------------------------------------------------------------------
(* Rows and answers *)

\* A result more.
LEMMA OneMore ==
    ASSUME NEW P, NEW f \in AnswersOf(P), NEW i \in P, i \notin DOMAIN f, NEW v \in Answers,
           NEW g, g = [j \in DOMAIN f \cup {i} |-> IF j = i THEN v ELSE f[j]]
    PROVE  /\ g \in AnswersOf(P) /\ DOMAIN g = DOMAIN f \cup {i}
           /\ g[i] = v /\ \A j \in DOMAIN f : g[j] = f[j]
<1>1. PICK D \in SUBSET P : f \in [D -> Answers]
  BY DEF AnswersOf
<1>2. g \in [D \cup {i} -> Answers]
  BY <1>1
<1>3. D \cup {i} \in SUBSET P
  BY <1>1
<1> QED
  BY <1>1, <1>2, <1>3 DEF AnswersOf

LEMMA AnswersGrow ==
    ASSUME NEW P, NEW Q, P \subseteq Q
    PROVE  AnswersOf(P) \subseteq AnswersOf(Q)
  BY DEF AnswersOf

LEMMA PhoneRowsGrow ==
    ASSUME NEW P, NEW Q, P \subseteq Q, NEW p \in PhoneRow(P)
    PROVE  p \in PhoneRow(Q)
<1>1. AnswersOf(P) \subseteq AnswersOf(Q)
  BY AnswersGrow
<1> QED
  BY <1>1 DEF PhoneRow

LEMMA RequestRowsGrow ==
    ASSUME NEW P, NEW Q, P \subseteq Q, NEW r \in RequestRow(P)
    PROVE  r \in RequestRow(Q)
<1>1. AnswersOf(P) \subseteq AnswersOf(Q)
  BY AnswersGrow
<1> QED
  BY <1>1 DEF RequestRow

LEMMA EmptyAnswers ==
    ASSUME NEW P
    PROVE  <<>> \in AnswersOf(P) /\ DOMAIN <<>> = {}
<1>1. <<>> \in [{} -> Answers]
  OBVIOUS
<1> QED
  BY <1>1 DEF AnswersOf

LEMMA RestingIs ==
    ASSUME NEW P
    PROVE  Resting \in PhoneRow(P) /\ NoRequest \in RequestRow(P)
  BY EmptyAnswers DEF Resting, NoRequest, PhoneRow, RequestRow

LEMMA TapsAre ==
    ASSUME LogRows
    PROVE  /\ Taps = 1..Len(log) /\ Len(log) \in Nat
           /\ \A i \in Taps : i \in Int /\ log[i] \in TapRow /\ i \in 1..MaxTaps
  BY OutboxAssumption DEF LogRows, Taps

\* What a step may do to the log: new actions come behind, and an action keeps
\* its parcel; its photo moves on.
MediaMoves(from, to) ==
    \/ to = from
    \/ from = "CAPTURED" /\ to \in {"SLOTTED", "FAILED"}
    \/ from = "SLOTTED" /\ to \in {"UPLOADED", "FAILED"}

LogKept ==
    /\ Taps \subseteq Taps'
    /\ \A n \in Taps' : \A i \in Taps : n \notin Taps => n > i
    /\ \A i \in Taps : /\ log'[i].kind = log[i].kind /\ log'[i].subject = log[i].subject
                       /\ MediaMoves(log[i].media, log'[i].media)

Grows ==
    /\ LogKept
    /\ applied \subseteq applied' /\ judged \subseteq judged'
    /\ cited \subseteq cited' /\ shown \subseteq shown'
    /\ \A i \in 1..MaxTaps : artifact[i] = "stored" => artifact'[i] = "stored"

\* One action of the log is written.
LEMMA LogSets ==
    ASSUME LogRows, NEW i \in Taps, NEW row \in TapRow, log' = [log EXCEPT ![i] = row],
           row.kind = log[i].kind, row.subject = log[i].subject,
           MediaMoves(log[i].media, row.media)
    PROVE  /\ LogRows' /\ Taps' = Taps /\ LogKept
           /\ log'[i] = row /\ \A j \in Taps : j # i => log'[j] = log[j]
<1>1. Taps = 1..Len(log) /\ Len(log) \in Nat /\ log \in Seq(TapRow) /\ Len(log) <= MaxTaps
  BY TapsAre DEF LogRows
<1>2. /\ log' \in Seq(TapRow) /\ Len(log') = Len(log)
      /\ log'[i] = row /\ \A j \in Taps : j # i => log'[j] = log[j]
  BY <1>1
<1>3. Taps' = Taps
  BY <1>2 DEF Taps
<1>4. LogKept
  BY <1>2, <1>3 DEF LogKept, MediaMoves
<1> QED
  BY <1>1, <1>2, <1>3, <1>4 DEF LogRows

LEMMA SameLog ==
    ASSUME LogRows, log' = log
    PROVE  LogRows' /\ Taps' = Taps /\ LogKept
  BY DEF LogRows, Taps, LogKept, MediaMoves

\* Its parcel and kind kept, an action waits for what it waited for.
LEMMA WaitsStay ==
    ASSUME LogRows, LogKept, NEW b \in Taps, NEW a \in Taps', Waits(a, b)'
    PROVE  a \in Taps /\ Waits(a, b)
<1>1. a \in Taps
  <2>1. b \in Int /\ a < b
    BY TapsAre DEF Waits
  <2>2. CASE a \notin Taps
    <3>1. a > b
      BY <2>2 DEF LogKept
    <3>2. a \in Int
      BY DEF Taps
    <3> QED
      BY <2>1, <3>1, <3>2
  <2> QED
    BY <2>2
<1>2. /\ log'[a].kind = log[a].kind /\ log'[a].subject = log[a].subject
      /\ log'[b].kind = log[b].kind /\ log'[b].subject = log[b].subject
  BY <1>1 DEF LogKept
<1>3. Waits(a, b)
  BY <1>2 DEF Waits
<1> QED
  BY <1>1, <1>3

\* A request carries what it carried.
LEMMA CarriesStay ==
    ASSUME LogRows, Grows, NEW r \in RequestRow(Taps), Carries(r)
    PROVE  Carries(r)'
<1>1. /\ \A i \in Taps : /\ log'[i].kind = log[i].kind /\ log'[i].subject = log[i].subject
                         /\ MediaMoves(log[i].media, log'[i].media)
      /\ applied \subseteq applied' /\ judged \subseteq judged'
  BY DEF Grows, LogKept
<1>2. r.items \subseteq Taps
  BY DEF RequestRow
<1>3. ItemsFit(r)'
  <2>1. ASSUME NEW i \in r.items
        PROVE  /\ FitsType(r.type, log'[i].kind)
               /\ log'[i].media # "CAPTURED"
               /\ log'[i].media \in {"SLOTTED", "UPLOADED"} => i \in r.cites
    <3>1. /\ FitsType(r.type, log[i].kind) /\ log[i].media # "CAPTURED"
          /\ log[i].media \in {"SLOTTED", "UPLOADED"} => i \in r.cites
      BY DEF Carries, ItemsFit, HasSlot
    <3> QED
      BY <1>1, <1>2, <3>1 DEF MediaMoves
  <2> QED
    BY <2>1 DEF ItemsFit, HasSlot, FitsType
<1>4. ItemsInOrder(r)'
  <2>1. ASSUME NEW b \in r.items, NEW a \in Taps', Waits(a, b)'
        PROVE  a \in r.items \/ a \in judged'
    <3>1. b \in Taps
      BY <1>2
    <3>2. a \in Taps /\ Waits(a, b)
      BY <2>1, <3>1, WaitsStay DEF Grows
    <3> QED
      BY <1>1, <3>2 DEF Carries, ItemsInOrder
  <2>2. r.type = "single" => \A a, b \in r.items : a = b
    BY DEF Carries, ItemsInOrder
  <2> QED
    BY <2>1, <2>2 DEF ItemsInOrder
<1>5. AnswersTrue(r)'
  <2>1. ASSUME NEW i \in DOMAIN r.results
        PROVE  /\ i \in r.items
               /\ r.results[i] = "ACCEPTED" => i \in applied'
               /\ r.results[i] \notin {"RETRY", "ENVELOPE"} => i \in judged'
               /\ r.results[i] = "ENVELOPE" /\ r.type # "sync" => i \in judged'
               /\ r.results[i] = "REFUSED" => ~IsPhysical(log'[i].kind)
    <3>1. i \in r.items /\ AnswerTrue(r.type, i, r.results[i])
      BY DEF Carries, AnswersTrue
    <3>2. log'[i].kind = log[i].kind
      BY <1>1, <1>2, <3>1
    <3> QED
      BY <1>1, <3>1, <3>2 DEF AnswerTrue
  <2> QED
    BY <2>1 DEF AnswersTrue, AnswerTrue
<1>6. HeldBehind(r)'
  <2>1. ASSUME r.type = "sync", DOMAIN r.results # r.items, NEW i \in DOMAIN r.results
        PROVE  i \in judged' \/ log'[i].subject \in r.held
    <3>1. i \in Taps /\ (i \in judged \/ log[i].subject \in r.held)
      BY <1>2, <2>1 DEF Carries, AnswersTrue, HeldBehind
    <3> QED
      BY <1>1, <3>1
  <2> QED
    BY <2>1 DEF HeldBehind
<1> QED
  BY <1>3, <1>4, <1>5, <1>6 DEF Carries

\* Whether anybody waits for it makes no difference to what it carries.
LEMMA HeardOrNot ==
    ASSUME NEW P, NEW r \in RequestRow(P), NEW heard \in BOOLEAN, NEW q, q = [r EXCEPT !.heard = heard]
    PROVE  /\ q \in RequestRow(P) /\ q.heard = heard /\ q.type = r.type /\ q.items = r.items
           /\ Carries(r) => Carries(q)
<1>1. /\ q \in RequestRow(P) /\ q.heard = heard /\ q.type = r.type /\ q.items = r.items
      /\ q.cites = r.cites /\ q.results = r.results /\ q.held = r.held
  BY DEF RequestRow
<1> QED
  BY <1>1 DEF Carries, ItemsFit, ItemsInOrder, AnswersTrue, HeldBehind

LEMMA NothingCarried == Carries(NoRequest)
  BY DEF Carries, ItemsFit, ItemsInOrder, AnswersTrue, HeldBehind, NoRequest

\* What the phone has in hand stays true.
LEMMA OutcomeStays ==
    ASSUME Grows, NEW i \in Taps, NEW v, NEW carried, OutcomeTrue(v, i, carried)
    PROVE  OutcomeTrue(v, i, carried)'
  BY DEF OutcomeTrue, Grows, LogKept

LEMMA TruthStays ==
    ASSUME Grows, NEW p \in PhoneRow(Taps), SettlesTruth(p)
    PROVE  SettlesTruth(p)'
<1>1. p.todo \subseteq Taps
  BY DEF PhoneRow
<1>2. p.at = "saving" => \A i \in p.todo : OutcomeTrue(p.results[i], i, p.routes)'
  <2> SUFFICES ASSUME p.at = "saving", NEW i \in p.todo
               PROVE  OutcomeTrue(p.results[i], i, p.routes)'
    OBVIOUS
  <2>1. PICK v, c : v = p.results[i] /\ c = p.routes
    OBVIOUS
  <2>2. i \in Taps /\ OutcomeTrue(v, i, c)
    BY <1>1, <2>1 DEF SettlesTruth
  <2>3. OutcomeTrue(v, i, c)'
    BY <2>2, OutcomeStays
  <2> QED
    BY <2>1, <2>3
<1>3. p.at = "settling" => \A i \in p.todo : OutcomeTrue(p.results[i], i, shown)'
  <2> SUFFICES ASSUME p.at = "settling", NEW i \in p.todo
               PROVE  OutcomeTrue(p.results[i], i, shown)'
    OBVIOUS
  <2>1. i \in Taps /\ OutcomeTrue(p.results[i], i, shown)
    BY <1>1 DEF SettlesTruth
  <2> QED
    BY <2>1 DEF OutcomeTrue, Grows, LogKept
<1> QED
  BY <1>2, <1>3 DEF SettlesTruth

LEMMA PhotosStay ==
    ASSUME NEW p \in PhoneRow(Taps), PhotosTodo(p), \A i \in p.todo : log'[i].media = log[i].media
    PROVE  PhotosTodo(p)'
  BY DEF PhotosTodo

\* An action that is left alone stays true, and nothing is carried out too early.
LEMMA RowStays ==
    ASSUME LogRows, Grows, NEW i \in Taps, RowTrue(i), log'[i] = log[i],
           i \in applied' => i \in applied
    PROVE  RowTrue(i)'
<1>1. i \in 1..MaxTaps
  BY TapsAre
<1> QED
  BY <1>1 DEF RowTrue, HasSlot, Grows

LEMMA OrderStays ==
    ASSUME LogRows, RestRows, Grows, CarriedOutInOrder, applied' = applied
    PROVE  CarriedOutInOrder'
<1>1. ASSUME NEW b \in applied, NEW a \in Taps', Waits(a, b)' PROVE a \in judged'
  <2>1. b \in Taps
    BY DEF RestRows
  <2>2. a \in Taps /\ Waits(a, b)
    BY <1>1, <2>1, WaitsStay DEF Grows
  <2> QED
    BY <2>2 DEF CarriedOutInOrder, Grows
<1> QED
  BY <1>1 DEF CarriedOutInOrder

-----------------------------------------------------------------------------
(* The steps of the phone *)

LEMMA OInvStarts == OutboxInit => OInv
<1> SUFFICES ASSUME OutboxInit PROVE OInv
  OBVIOUS
<1>1. /\ log = <<>> /\ phone = Resting /\ shown = {}
      /\ request = [h \in Handlers |-> NoRequest]
      /\ applied = {} /\ judged = {} /\ cited = {}
      /\ artifact = [i \in 1..MaxTaps |-> "none"]
      /\ session = "in" /\ wiped = {} /\ trouble = 0
  BY DEF OutboxInit
<1>2. Taps = {}
  BY <1>1 DEF Taps
<1>3. Rows
  <2>1. LogRows
    BY <1>1, OutboxAssumption DEF LogRows
  <2>2. PhoneRows /\ RequestRows
    BY <1>1, RestingIs DEF PhoneRows, RequestRows
  <2>3. RestRows
    BY <1>1, OutboxAssumption DEF RestRows
  <2> QED
    BY <2>1, <2>2, <2>3 DEF Rows
<1>4. \A h \in Handlers : Carries(request[h])
  BY <1>1, NothingCarried
<1>5. WaitsFor /\ SettlesTruth(phone) /\ PhotosTodo(phone)
  BY <1>1 DEF WaitsFor, SettlesTruth, PhotosTodo, Resting
<1> QED
  BY <1>1, <1>2, <1>3, <1>4, <1>5 DEF OInv, CarriedOutInOrder

\* A step that carries nothing out and makes no call: what has to be shown of it.
LEMMA PhoneWrites ==
    ASSUME OInv, LogRows', LogKept, PhoneRows', RestRows', request' = request,
           applied' = applied, judged' = judged, cited' = cited, shown \subseteq shown',
           \A i \in 1..MaxTaps : artifact[i] = "stored" => artifact'[i] = "stored",
           \A i \in Taps' : RowTrue(i)',
           phone'.call = phone.call, phone'.at = "waiting" <=> phone.at = "waiting",
           phone.at = "waiting" => phone'.todo = phone.todo,
           SettlesTruth(phone)', PhotosTodo(phone)'
    PROVE  OInv'
<1>1. Grows
  BY DEF Grows
<1>2. LogRows /\ RestRows /\ request \in [Handlers -> RequestRow(Taps)] /\ Taps \subseteq Taps'
  BY DEF OInv, Rows, RequestRows, LogKept
<1>3. RequestRows'
  <2>1. \A h \in Handlers : request'[h] \in RequestRow(Taps')
    BY <1>2, RequestRowsGrow
  <2> QED
    BY <1>2, <2>1 DEF RequestRows
<1>4. CarriedOutInOrder'
  BY <1>1, <1>2, OrderStays DEF OInv
<1>5. \A h \in Handlers : Carries(request[h])'
  <2> SUFFICES ASSUME NEW h \in Handlers PROVE Carries(request[h])'
    OBVIOUS
  <2>1. PICK r : r = request[h]
    OBVIOUS
  <2>2. r \in RequestRow(Taps) /\ Carries(r)
    BY <1>2, <2>1 DEF OInv
  <2>3. Carries(r)'
    BY <1>1, <1>2, <2>2, CarriesStay
  <2> QED
    BY <2>1, <2>3
<1>6. WaitsFor'
  BY DEF OInv, WaitsFor
<1> QED
  BY <1>3, <1>4, <1>5, <1>6 DEF OInv, Rows

\* One action is written and nothing else is promised.
LEMMA WritesOne ==
    ASSUME OInv, NEW i \in Taps, NEW row \in TapRow, log' = [log EXCEPT ![i] = row],
           row.kind = log[i].kind, row.subject = log[i].subject,
           MediaMoves(log[i].media, row.media), RowTrue(i)',
           NEW p \in PhoneRow(Taps), phone' = p, p.call = phone.call,
           p.at = "waiting" <=> phone.at = "waiting",
           phone.at = "waiting" => p.todo = phone.todo,
           RestRows', request' = request,
           applied' = applied, judged' = judged, cited' = cited, shown \subseteq shown',
           \A j \in 1..MaxTaps : artifact[j] = "stored" => artifact'[j] = "stored",
           Grows => SettlesTruth(p)', PhotosTodo(p)'
    PROVE  OInv'
<1>1. /\ LogRows' /\ Taps' = Taps /\ LogKept
      /\ log'[i] = row /\ \A j \in Taps : j # i => log'[j] = log[j]
  BY LogSets DEF OInv, Rows
<1>2. Grows
  BY <1>1 DEF Grows
<1>3. ASSUME NEW j \in Taps PROVE RowTrue(j)'
  <2>1. CASE j = i
    BY <2>1
  <2>2. CASE j # i
    BY <1>1, <1>2, <2>2, RowStays DEF OInv, Rows
  <2> QED
    BY <2>1, <2>2
<1>4. PhoneRows'
  BY <1>1 DEF PhoneRows
<1>5. SettlesTruth(phone)' /\ PhotosTodo(phone)'
  BY <1>2
<1> QED
  BY <1>1, <1>3, <1>4, <1>5, PhoneWrites

\* The phone moves on with its log as it was.
LEMMA PhoneMoves ==
    ASSUME OInv, NEW p \in PhoneRow(Taps), phone' = p, p.call = phone.call,
           p.at = "waiting" <=> phone.at = "waiting",
           phone.at = "waiting" => p.todo = phone.todo,
           RestRows', UNCHANGED <<log, request, applied, judged, cited>>, shown \subseteq shown',
           \A j \in 1..MaxTaps : artifact[j] = "stored" => artifact'[j] = "stored",
           Grows => SettlesTruth(p)', PhotosTodo(p)'
    PROVE  OInv'
<1>1. LogRows' /\ Taps' = Taps /\ LogKept
  BY SameLog DEF OInv, Rows
<1>2. Grows
  BY <1>1 DEF Grows
<1>3. \A j \in Taps : RowTrue(j)'
  BY <1>2, RowStays DEF OInv, Rows
<1>4. PhoneRows'
  BY <1>1 DEF PhoneRows
<1>5. SettlesTruth(phone)' /\ PhotosTodo(phone)'
  BY <1>2
<1> QED
  BY <1>1, <1>3, <1>4, <1>5, PhoneWrites

LEMMA FirstOf ==
    ASSUME LogRows, NEW S, S \subseteq Taps, S # {}
    PROVE  Min(S) \in S /\ \A j \in S : j \in Int /\ Min(S) <= j
<1>1. Taps = 1..Len(log) /\ Len(log) \in Nat /\ \A j \in S : j \in Int
  BY TapsAre
<1>2. IsFiniteSet(S)
  <2>1. IsFiniteSet(Taps)
    BY <1>1, FS_Interval
  <2> QED
    BY <2>1, FS_Subset
<1> QED
  BY <1>1, <1>2, MinIs

LEMMA TapKeeps ==
    ASSUME OInv, NEW k \in Kinds, NEW s \in SubjectsOf(k), NEW photo \in BOOLEAN, Tap(k, s, photo)
    PROVE  OInv'
<1> DEFINE row == [kind |-> k, subject |-> s, state |-> "PENDING",
                   media |-> IF photo THEN "CAPTURED" ELSE "none", file |-> photo, seen |-> FALSE]
<1>1. /\ Len(log) < MaxTaps /\ (photo => k = "DELIVERED")
      /\ log' = Append(log, row)
      /\ UNCHANGED <<phone, shown, server, session, wiped, trouble>>
  BY DEF Tap
<1>2. row \in TapRow
  BY DEF TapRow, Subjects, SubjectsOf
<1>3. Taps = 1..Len(log) /\ Len(log) \in Nat /\ log \in Seq(TapRow)
  BY TapsAre DEF OInv, Rows, LogRows
<1>4. row.state = "PENDING" /\ (row.media # "none" => row.kind = "DELIVERED" /\ row.file)
  BY <1>1
<1> HIDE DEF row
<1>5. PICK n : n = Len(log) + 1
  OBVIOUS
<1>6. /\ log' \in Seq(TapRow) /\ Len(log') = n /\ log'[n] = row
      /\ \A i \in Taps : log'[i] = log[i]
  BY <1>1, <1>2, <1>3, <1>5
<1>7. Taps' = Taps \cup {n} /\ n \notin Taps /\ \A i \in Taps : n > i
  <2>1. Taps' = 1..n
    BY <1>6 DEF Taps
  <2> QED
    BY <1>3, <1>5, <2>1
<1>8. LogRows' /\ LogKept
  <2>1. LogRows'
    BY <1>1, <1>3, <1>5, <1>6, OutboxAssumption DEF LogRows
  <2>2. LogKept
    BY <1>6, <1>7 DEF LogKept, MediaMoves
  <2> QED
    BY <2>1, <2>2
<1>9. Grows
  BY <1>1, <1>8 DEF Grows, server
<1>10. ASSUME NEW i \in Taps' PROVE RowTrue(i)'
  <2>1. CASE i \in Taps
    BY <1>1, <1>6, <1>9, <2>1, RowStays DEF OInv, Rows, server
  <2>2. CASE i = n
    <3>1. n \notin applied'
      BY <1>1, <1>7 DEF OInv, Rows, RestRows, server
    <3> QED
      BY <1>4, <1>6, <2>2, <3>1 DEF RowTrue
  <2> QED
    BY <1>7, <2>1, <2>2
<1>11. PhoneRows' /\ RestRows'
  <2>1. PhoneRows'
    BY <1>1, <1>7, PhoneRowsGrow DEF OInv, Rows, PhoneRows
  <2>2. RestRows'
    BY <1>1, <1>7 DEF OInv, Rows, RestRows, server
  <2> QED
    BY <2>1, <2>2
<1>12. SettlesTruth(phone)' /\ PhotosTodo(phone)'
  <2>1. PICK p : p = phone
    OBVIOUS
  <2>2. p \in PhoneRow(Taps) /\ SettlesTruth(p) /\ PhotosTodo(p) /\ phone' = p
    BY <1>1, <2>1 DEF OInv, Rows, PhoneRows
  <2>3. \A i \in p.todo : log'[i].media = log[i].media
    BY <1>6, <2>2 DEF PhoneRow
  <2>4. SettlesTruth(p)' /\ PhotosTodo(p)'
    BY <1>9, <2>2, <2>3, TruthStays, PhotosStay
  <2> QED
    BY <2>2, <2>4
<1> QED
  BY <1>1, <1>8, <1>10, <1>11, <1>12, PhoneWrites DEF server

LEMMA DismissKeeps ==
    ASSUME OInv, NEW i \in Taps, Dismiss(i)
    PROVE  OInv'
<1> DEFINE row == [log[i] EXCEPT !.state = "DONE", !.seen = TRUE]
<1>1. /\ log[i].state \in {"REFUSED", "ESCALATED"}
      /\ log' = [log EXCEPT ![i] = row]
      /\ UNCHANGED <<phone, shown, server, session, wiped, trouble>>
  BY DEF Dismiss
<1>2. log[i] \in TapRow
  BY TapsAre DEF OInv, Rows
<1>3. /\ row \in TapRow /\ row.kind = log[i].kind /\ row.subject = log[i].subject
      /\ row.media = log[i].media /\ row.file = log[i].file /\ row.state = "DONE" /\ row.seen
  BY <1>2 DEF TapRow
<1> HIDE DEF row
<1>4. log'[i] = row /\ Taps' = Taps
  BY <1>1, <1>3, LogSets DEF OInv, Rows, MediaMoves
<1>5. RowTrue(i)'
  BY <1>1, <1>3, <1>4 DEF OInv, RowTrue, HasSlot, server
<1>6. PICK p : p = phone
  OBVIOUS
<1>7. p \in PhoneRow(Taps) /\ SettlesTruth(p) /\ PhotosTodo(p)
  BY <1>6 DEF OInv, Rows, PhoneRows
<1>8. Grows => SettlesTruth(p)'
  BY <1>7, TruthStays
<1>9. PhotosTodo(p)'
  <2>1. \A j \in Taps : log'[j].media = log[j].media
    BY <1>1, <1>3, LogSets DEF OInv, Rows, MediaMoves
  <2> QED
    BY <1>7, <2>1, PhotosStay DEF PhoneRow
<1>10. RestRows'
  BY <1>1, <1>4 DEF OInv, Rows, RestRows, server
<1> QED
  BY <1>1, <1>3, <1>5, <1>6, <1>7, <1>8, <1>9, <1>10, WritesOne DEF server, MediaMoves

LEMMA LeaveCheckedKeeps ==
    ASSUME OInv, LeaveChecked
    PROVE  OInv'
<1>1. session' = "leaving" /\ UNCHANGED <<log, phone, shown, server, wiped, trouble>>
  BY DEF LeaveChecked
<1>2. PICK p : p = phone
  OBVIOUS
<1>3. p \in PhoneRow(Taps) /\ SettlesTruth(p) /\ PhotosTodo(p)
  BY <1>2 DEF OInv, Rows, PhoneRows
<1>4. (Grows => SettlesTruth(p)') /\ PhotosTodo(p)'
  BY <1>1, <1>3, TruthStays, PhotosStay
<1>5. RestRows'
  BY <1>1 DEF OInv, Rows, RestRows, Taps, server
<1> QED
  BY <1>1, <1>2, <1>3, <1>4, <1>5, PhoneMoves DEF server

\* A phone at rest owes nothing.
LEMMA AtRestOwesNothing ==
    ASSUME NEW p, p.at \notin {"saving", "settling", "slots", "uploads"}
    PROVE  SettlesTruth(p)' /\ PhotosTodo(p)'
  BY DEF SettlesTruth, PhotosTodo

\* The phone lets go of its call.
LEMMA LetsGo ==
    ASSUME OInv, phone' = Resting, request' = Unheeded, RestRows',
           UNCHANGED <<log, shown, applied, judged, cited, artifact>>
    PROVE  OInv'
<1>1. LogRows' /\ Taps' = Taps /\ LogKept
  BY SameLog DEF OInv, Rows
<1>2. Grows
  BY <1>1 DEF Grows
<1>3. \A j \in Taps : RowTrue(j)'
  BY <1>2, RowStays DEF OInv, Rows
<1>4. Resting \in PhoneRow(Taps') /\ Resting.call = Nothing /\ Resting.at = "idle"
  BY RestingIs DEF Resting
<1>5. SettlesTruth(phone)' /\ PhotosTodo(phone)' /\ WaitsFor' /\ PhoneRows'
  BY <1>4 DEF SettlesTruth, PhotosTodo, WaitsFor, PhoneRows
<1>6. ASSUME NEW h \in Handlers
      PROVE  \E q \in RequestRow(Taps) : request'[h] = q /\ Carries(q)
  <2>1. request[h] \in RequestRow(Taps) /\ Carries(request[h])
    BY DEF OInv, Rows, RequestRows
  <2>2. CASE request'[h] = request[h]
    BY <2>1, <2>2
  <2>3. CASE request'[h] # request[h]
    <3>1. request'[h] = [request[h] EXCEPT !.heard = FALSE]
      BY <2>3 DEF Unheeded, OInv, Rows, RequestRows
    <3>2. PICK q, r : r = request[h] /\ q = [r EXCEPT !.heard = FALSE]
      OBVIOUS
    <3>3. q \in RequestRow(Taps) /\ Carries(q)
      BY <2>1, <3>2, HeardOrNot
    <3> QED
      BY <3>1, <3>2, <3>3
  <2> QED
    BY <2>2, <2>3
<1>7. RequestRows' /\ \A h \in Handlers : Carries(request[h])'
  <2>1. \A h \in Handlers : request'[h] \in RequestRow(Taps')
    BY <1>1, <1>6
  <2>2. DOMAIN request' = Handlers /\ request' = [h \in Handlers |-> request'[h]]
    BY DEF Unheeded, OInv, Rows, RequestRows
  <2>3. ASSUME NEW h \in Handlers PROVE Carries(request[h])'
    <3>1. PICK q \in RequestRow(Taps) : request'[h] = q /\ Carries(q)
      BY <1>6
    <3>2. Carries(q)'
      BY <1>2, <3>1, CarriesStay DEF OInv, Rows
    <3> QED
      BY <3>1, <3>2
  <2> QED
    BY <2>1, <2>2, <2>3 DEF RequestRows
<1>8. CarriedOutInOrder'
  BY <1>2, OrderStays DEF OInv, Rows
<1> QED
  BY <1>1, <1>3, <1>5, <1>7, <1>8 DEF OInv, Rows

LEMMA LeaveKeeps ==
    ASSUME OInv, SignOut
    PROVE  OInv'
<1>1. RestRows'
  BY DEF OInv, Rows, RestRows, Taps, SignOut, UnsafeToForget
<1> QED
  BY <1>1, LetsGo DEF SignOut

LEMMA GiveUpKeeps ==
    ASSUME OInv, GiveUp
    PROVE  OInv'
<1>1. RestRows'
  BY OutboxAssumption DEF OInv, Rows, RestRows, Taps, GiveUp
<1> QED
  BY <1>1, LetsGo DEF GiveUp

\* A phone that does not wait has no call.
LEMMA NoCallYet ==
    ASSUME OInv, phone.at # "waiting"
    PROVE  phone.call = Nothing /\ phone \in PhoneRow(Taps) /\ Resting \in PhoneRow(Taps)
  BY RestingIs DEF OInv, WaitsFor, Rows, PhoneRows

LEMMA StartFlushKeeps ==
    ASSUME OInv, StartFlush
    PROVE  OInv'
<1>0. PICK p : p = [Resting EXCEPT !.at = "slots", !.todo = Photos("CAPTURED")]
  OBVIOUS
<1>1. phone.at = "idle" /\ phone' = p /\ UNCHANGED <<log, shown, server, session, wiped, trouble>>
  BY <1>0 DEF StartFlush
<1>2. phone.call = Nothing
  BY <1>1, NoCallYet
<1>3. /\ p \in PhoneRow(Taps) /\ p.call = Nothing /\ p.at = "slots"
      /\ p.todo = Photos("CAPTURED")
  BY <1>0, RestingIs DEF PhoneRow, Photos, Resting
<1>4. SettlesTruth(p)' /\ PhotosTodo(p)'
  BY <1>1, <1>3 DEF SettlesTruth, PhotosTodo, Photos
<1>5. RestRows'
  BY <1>1 DEF OInv, Rows, RestRows, Taps, server
<1> QED
  BY <1>1, <1>2, <1>3, <1>4, <1>5, PhoneMoves DEF server

\* A slot is granted, and what is stored stays stored.
LEMMA SlotKept ==
    ASSUME NEW i, artifact \in [1..MaxTaps -> {"none", "slot", "stored"}], Slotted(i)
    PROVE  /\ artifact' \in [1..MaxTaps -> {"none", "slot", "stored"}]
           /\ \A j \in 1..MaxTaps : artifact[j] = "stored" => artifact'[j] = "stored"
<1>1. PICK a, D : a = (IF artifact[i] = "none" THEN "slot" ELSE artifact[i]) /\ D = 1..MaxTaps
  OBVIOUS
<1>2. artifact' = [artifact EXCEPT ![i] = a] /\ artifact \in [D -> {"none", "slot", "stored"}]
  BY <1>1 DEF Slotted
<1>3. i \in D => a \in {"none", "slot", "stored"}
  BY <1>1, <1>2
<1>4. artifact' \in [D -> {"none", "slot", "stored"}]
  BY <1>2, <1>3
<1>5. ASSUME NEW j \in D, artifact[j] = "stored" PROVE artifact'[j] = "stored"
  BY <1>1, <1>2, <1>5
<1> QED
  BY <1>1, <1>4, <1>5

LEMMA PresignKeeps ==
    ASSUME OInv, Presign
    PROVE  OInv'
<1>0. PICK i, p : i = Min(phone.todo) /\ p = [phone EXCEPT !.todo = @ \ {i}]
  OBVIOUS
<1>1. /\ phone.at = "slots" /\ phone.todo # {} /\ phone' = p
      /\ UNCHANGED <<shown, request, applied, judged, cited, session, wiped, trouble>>
      /\ \E m \in {"SLOTTED", "FAILED"} :
            /\ log' = [log EXCEPT ![i] = [log[i] EXCEPT !.media = m]]
            /\ artifact' = artifact \/ Slotted(i)
  BY <1>0 DEF Presign
<1>2. PICK m \in {"SLOTTED", "FAILED"} :
            /\ log' = [log EXCEPT ![i] = [log[i] EXCEPT !.media = m]]
            /\ artifact' = artifact \/ Slotted(i)
  BY <1>1
<1>3. phone \in PhoneRow(Taps) /\ phone.call = Nothing /\ phone.todo \subseteq Taps
  BY <1>1, NoCallYet DEF PhoneRow
<1>4. i \in phone.todo
  BY <1>0, <1>1, <1>3, FirstOf DEF OInv, Rows
<1>5. /\ i \in Taps /\ log[i].media = "CAPTURED" /\ log[i] \in TapRow /\ i \in 1..MaxTaps
  BY <1>1, <1>3, <1>4, TapsAre DEF OInv, PhotosTodo, Rows
<1>6. /\ p \in PhoneRow(Taps) /\ p.call = Nothing /\ p.at = "slots"
      /\ p.todo = phone.todo \ {i}
  BY <1>0, <1>1, <1>3 DEF PhoneRow
<1>7. PICK r : r = [log[i] EXCEPT !.media = m]
  OBVIOUS
<1>8. /\ r \in TapRow /\ r.kind = log[i].kind /\ r.subject = log[i].subject
      /\ r.media = m /\ r.file = log[i].file /\ r.state = log[i].state /\ r.seen = log[i].seen
      /\ log' = [log EXCEPT ![i] = r]
  BY <1>2, <1>5, <1>7 DEF TapRow
<1>9. MediaMoves(log[i].media, r.media)
  BY <1>5, <1>8 DEF MediaMoves
<1>10. /\ LogRows' /\ Taps' = Taps /\ LogKept
       /\ log'[i] = r /\ \A j \in Taps : j # i => log'[j] = log[j]
  BY <1>5, <1>8, <1>9, LogSets DEF OInv, Rows
<1>11. RestRows' /\ \A j \in 1..MaxTaps : artifact[j] = "stored" => artifact'[j] = "stored"
  <2>1. artifact \in [1..MaxTaps -> {"none", "slot", "stored"}]
    BY DEF OInv, Rows, RestRows
  <2>2. /\ artifact' \in [1..MaxTaps -> {"none", "slot", "stored"}]
        /\ \A j \in 1..MaxTaps : artifact[j] = "stored" => artifact'[j] = "stored"
    BY <1>2, <2>1, SlotKept
  <2> QED
    BY <1>1, <1>10, <2>2 DEF OInv, Rows, RestRows
<1>12. i \notin applied
  BY <1>5 DEF OInv, RowTrue
<1>13. RowTrue(i)'
  <2>1. RowTrue(i) /\ i \notin applied' /\ shown' = shown /\ judged' = judged
    BY <1>1, <1>5, <1>12 DEF OInv
  <2> QED
    BY <1>5, <1>8, <1>10, <1>11, <2>1 DEF RowTrue
<1>14. SettlesTruth(p)' /\ PhotosTodo(p)'
  <2>1. \A j \in p.todo : log'[j].media = "CAPTURED"
    BY <1>1, <1>3, <1>6, <1>10 DEF OInv, PhotosTodo
  <2> QED
    BY <1>6, <2>1 DEF SettlesTruth, PhotosTodo
<1> QED
  BY <1>1, <1>3, <1>5, <1>6, <1>8, <1>9, <1>11, <1>13, <1>14, WritesOne

LEMMA PresignLostKeeps ==
    ASSUME OInv, PresignLost
    PROVE  OInv'
<1>0. PICK i : i = Min(phone.todo)
  OBVIOUS
<1>1. /\ phone.at = "slots" /\ phone.todo # {} /\ phone' = Resting
      /\ trouble < MaxTrouble /\ trouble' = trouble + 1
      /\ Slotted(i)
      /\ UNCHANGED <<log, shown, request, applied, judged, cited, session, wiped>>
  BY <1>0 DEF PresignLost
<1>2. phone.call = Nothing /\ Resting \in PhoneRow(Taps)
  BY <1>1, NoCallYet
<1>3. RestRows' /\ \A j \in 1..MaxTaps : artifact[j] = "stored" => artifact'[j] = "stored"
  <2>1. artifact \in [1..MaxTaps -> {"none", "slot", "stored"}]
    BY DEF OInv, Rows, RestRows
  <2>2. /\ artifact' \in [1..MaxTaps -> {"none", "slot", "stored"}]
        /\ \A j \in 1..MaxTaps : artifact[j] = "stored" => artifact'[j] = "stored"
    BY <1>1, <2>1, SlotKept
  <2>3. trouble' \in 0..MaxTrouble
    BY <1>1, OutboxAssumption DEF OInv, Rows, RestRows
  <2> QED
    BY <1>1, <2>2, <2>3 DEF OInv, Rows, RestRows, Taps
<1>4. PICK p : p = Resting
  OBVIOUS
<1>5. p.at = "idle" /\ p.call = Nothing /\ SettlesTruth(p)' /\ PhotosTodo(p)'
  BY <1>4, AtRestOwesNothing DEF Resting
<1> QED
  BY <1>1, <1>2, <1>3, <1>4, <1>5, PhoneMoves

\* A flush that goes on to its uploads has them all to do.
LEMMA GoesOn ==
    ASSUME OInv, NEW p \in PhoneRow(Taps), p.call = Nothing,
           \/ p.at \in {"idle", "actions", "refresh"}
           \/ p.at = "uploads" /\ p.todo \subseteq Photos("SLOTTED"),
           log' = log
    PROVE  SettlesTruth(p)' /\ PhotosTodo(p)'
  BY DEF SettlesTruth, PhotosTodo, Photos

LEMMA RestIs ==
    ASSUME NEW s \in BOOLEAN, phone.synced = s
    PROVE  /\ Rest \in PhoneRow(Taps) /\ Rest.call = Nothing
           /\ \/ Rest.at \in {"idle", "actions", "refresh"}
              \/ Rest.at = "uploads" /\ Rest.todo \subseteq Photos("SLOTTED")
<1>1. /\ Resting \in PhoneRow(Taps) /\ Resting.call = Nothing /\ Photos("SLOTTED") \subseteq Taps
  BY RestingIs DEF Resting, Photos
<1>2. PICK at, todo : /\ at = (IF phone.synced THEN "uploads" ELSE "refresh")
                      /\ todo = (IF phone.synced THEN Photos("SLOTTED") ELSE {})
  OBVIOUS
<1>3. /\ at \in {"uploads", "refresh"} /\ todo \subseteq Taps
      /\ at = "uploads" => todo = Photos("SLOTTED")
  BY <1>1, <1>2
<1>4. Rest = [Resting EXCEPT !.at = at, !.todo = todo]
  BY <1>2 DEF Rest
<1>5. Rest \in PhoneRow(Taps) /\ Rest.at = at /\ Rest.todo = todo /\ Rest.call = Nothing
  BY <1>1, <1>3, <1>4 DEF PhoneRow
<1> QED
  BY <1>3, <1>5

LEMMA ActionsDoneKeeps ==
    ASSUME OInv, ActionsDone
    PROVE  OInv'
<1>1. /\ phone.at \in {"slots", "settling", "actions"} /\ phone' = Rest
      /\ UNCHANGED <<log, shown, server, session, wiped, trouble>>
  BY DEF ActionsDone, AtActions
<1>2. phone.call = Nothing /\ phone.synced \in BOOLEAN
  BY <1>1, NoCallYet DEF PhoneRow
<1>3. PICK p : p = Rest
  OBVIOUS
<1>4. /\ p \in PhoneRow(Taps) /\ p.call = Nothing /\ p.at # "waiting"
      /\ \/ p.at \in {"idle", "actions", "refresh"}
         \/ p.at = "uploads" /\ p.todo \subseteq Photos("SLOTTED")
  BY <1>2, <1>3, RestIs
<1>5. SettlesTruth(p)' /\ PhotosTodo(p)'
  BY <1>1, <1>4, GoesOn
<1>6. RestRows'
  BY <1>1 DEF OInv, Rows, RestRows, Taps, server
<1> QED
  BY <1>1, <1>2, <1>3, <1>4, <1>5, <1>6, PhoneMoves DEF server

LEMMA SaveRoutesKeeps ==
    ASSUME OInv, SaveRoutes
    PROVE  OInv'
<1>0. PICK p : p = [phone EXCEPT !.at = "settling", !.synced = TRUE, !.routes = {}]
  OBVIOUS
<1>1. /\ phone.at = "saving" /\ shown' = shown \cup phone.routes /\ phone' = p
      /\ UNCHANGED <<log, server, session, wiped, trouble>>
  BY <1>0 DEF SaveRoutes
<1>2. phone \in PhoneRow(Taps) /\ phone.call = Nothing
  BY <1>1, NoCallYet
<1>3. /\ p \in PhoneRow(Taps) /\ p.call = Nothing /\ p.at = "settling"
      /\ p.todo = phone.todo /\ p.results = phone.results
      /\ phone.routes \subseteq Taps /\ p.todo \subseteq Taps
  BY <1>0, <1>2 DEF PhoneRow
<1>4. SettlesTruth(p)'
  <2>1. ASSUME NEW i \in p.todo PROVE OutcomeTrue(p.results[i], i, shown)'
    <3>1. OutcomeTrue(p.results[i], i, phone.routes)
      BY <1>1, <1>3 DEF OInv, SettlesTruth
    <3> QED
      BY <1>1, <3>1 DEF OutcomeTrue, server
  <2> QED
    BY <1>3, <2>1 DEF SettlesTruth
<1>5. PhotosTodo(p)'
  BY <1>3 DEF PhotosTodo
<1>6. RestRows'
  BY <1>1, <1>3 DEF OInv, Rows, RestRows, Taps, server
<1> QED
  BY <1>1, <1>2, <1>3, <1>4, <1>5, <1>6, PhoneMoves DEF server

LEMMA RefreshKeeps ==
    ASSUME OInv, Refresh
    PROVE  OInv'
<1>0. PICK p : p = [phone EXCEPT !.at = "uploads", !.todo = Photos("SLOTTED")]
  OBVIOUS
<1>1. /\ phone.at = "refresh" /\ shown' \in {shown, shown \cup applied} /\ phone' = p
      /\ UNCHANGED <<log, server, session, wiped, trouble>>
  BY <1>0 DEF Refresh
<1>2. phone \in PhoneRow(Taps) /\ phone.call = Nothing
  BY <1>1, NoCallYet
<1>3. p \in PhoneRow(Taps) /\ p.call = Nothing /\ p.at = "uploads" /\ p.todo = Photos("SLOTTED")
  BY <1>0, <1>2 DEF PhoneRow, Photos
<1>4. SettlesTruth(p)' /\ PhotosTodo(p)'
  BY <1>1, <1>3, GoesOn
<1>5. RestRows' /\ shown \subseteq shown'
  BY <1>1 DEF OInv, Rows, RestRows, Taps, server
<1> QED
  BY <1>1, <1>2, <1>3, <1>4, <1>5, PhoneMoves DEF server

LEMMA FlushDoneKeeps ==
    ASSUME OInv, FlushDone
    PROVE  OInv'
<1>1. /\ phone.at = "uploads" /\ phone' = Resting
      /\ UNCHANGED <<log, shown, server, session, wiped, trouble>>
  BY DEF FlushDone
<1>2. phone.call = Nothing /\ Resting \in PhoneRow(Taps)
  BY <1>1, NoCallYet
<1>3. PICK p : p = Resting
  OBVIOUS
<1>4. p.at = "idle" /\ p.call = Nothing /\ SettlesTruth(p)' /\ PhotosTodo(p)'
  BY <1>3, AtRestOwesNothing DEF Resting
<1>5. RestRows'
  BY <1>1 DEF OInv, Rows, RestRows, Taps, server
<1> QED
  BY <1>1, <1>2, <1>3, <1>4, <1>5, PhoneMoves DEF server

LEMMA SettledIs ==
    ASSUME NEW k, NEW v, NEW s, s = SettledState(k, v)
    PROVE  /\ s \in {"PENDING", "DONE", "REFUSED", "ESCALATED"}
           /\ s = "DONE" => v = "ACCEPTED"
           /\ v = "RETRY" => s = "PENDING"
           /\ s = "PENDING" => v = "RETRY"
           /\ s = "REFUSED" => v \in {"REFUSED", "ENVELOPE"} \/ ~IsPhysical(k)
<1>1. CASE v \in {"ACCEPTED", "RETRY", "REFUSED", "ENVELOPE"}
  BY <1>1 DEF SettledState
<1>2. CASE v \notin {"ACCEPTED", "RETRY", "REFUSED", "ENVELOPE"}
  <2>1. s = IF v = "DISCARD" /\ ~IsPhysical(k) THEN "REFUSED" ELSE "ESCALATED"
    BY <1>2 DEF SettledState
  <2> QED
    BY <1>2, <2>1
<1> QED
  BY <1>1, <1>2

LEMMA SettleKeeps ==
    ASSUME OInv, Settle
    PROVE  OInv'
<1>0. PICK i, v, s, d :
        /\ i = Min(phone.todo) /\ v = phone.results[i]
        /\ s = SettledState(log[i].kind, v)
        /\ d = (IF v = "RETRY" THEN phone.deferred \cup {log[i].subject} ELSE phone.deferred)
  OBVIOUS
<1>1. PICK p, row : /\ p = [phone EXCEPT !.todo = @ \ {i}, !.deferred = d]
                    /\ row = [log[i] EXCEPT !.state = s]
  OBVIOUS
<1>2. /\ phone.at = "settling" /\ phone.todo # {}
      /\ log' = [log EXCEPT ![i] = row] /\ phone' = p
      /\ UNCHANGED <<shown, server, session, wiped, trouble>>
  BY <1>0, <1>1 DEF Settle
<1>3. phone \in PhoneRow(Taps) /\ phone.call = Nothing /\ phone.todo \subseteq Taps
  BY <1>2, NoCallYet DEF PhoneRow
<1>4. i \in phone.todo /\ i \in Taps /\ log[i] \in TapRow
  BY <1>0, <1>2, <1>3, FirstOf, TapsAre DEF OInv, Rows
<1>5. OutcomeTrue(v, i, shown) /\ RowTrue(i)
  BY <1>0, <1>2, <1>4 DEF OInv, SettlesTruth
<1>6. /\ p \in PhoneRow(Taps) /\ p.call = Nothing /\ p.at = "settling"
      /\ p.todo = phone.todo \ {i} /\ p.results = phone.results
  <2>1. d \subseteq Subjects
    BY <1>0, <1>3, <1>4 DEF PhoneRow, TapRow
  <2> QED
    BY <1>1, <1>2, <1>3, <2>1 DEF PhoneRow
<1>7. /\ s \in {"PENDING", "DONE", "REFUSED", "ESCALATED"}
      /\ s = "DONE" => v = "ACCEPTED"
      /\ v = "RETRY" => s = "PENDING"
      /\ s = "PENDING" => v = "RETRY"
      /\ s = "REFUSED" => v \in {"REFUSED", "ENVELOPE"} \/ ~IsPhysical(log[i].kind)
  <2>1. PICK k : k = log[i].kind
    OBVIOUS
  <2> QED
    BY <1>0, <2>1, SettledIs
<1>8. /\ row \in TapRow /\ row.kind = log[i].kind /\ row.subject = log[i].subject
      /\ row.media = log[i].media /\ row.file = log[i].file /\ row.state = s
      /\ row.seen = log[i].seen
  BY <1>1, <1>4, <1>7 DEF TapRow
<1>9. /\ Taps' = Taps /\ LogKept /\ log'[i] = row /\ \A j \in Taps : j # i => log'[j] = log[j]
  BY <1>2, <1>4, <1>8, LogSets DEF OInv, Rows, MediaMoves
<1>10. RowTrue(i)'
  BY <1>2, <1>5, <1>7, <1>8, <1>9 DEF RowTrue, HasSlot, OutcomeTrue, server
<1>11. SettlesTruth(p)
  BY <1>2, <1>6 DEF OInv, SettlesTruth
<1>12. (Grows => SettlesTruth(p)') /\ PhotosTodo(p)'
  <2>1. PhotosTodo(p)'
    BY <1>6 DEF PhotosTodo
  <2> QED
    BY <1>6, <1>11, <2>1, TruthStays
<1>13. RestRows'
  BY <1>2, <1>9 DEF OInv, Rows, RestRows, server
<1> QED
  BY <1>2, <1>3, <1>4, <1>6, <1>8, <1>10, <1>12, <1>13, WritesOne DEF server, MediaMoves

\* What is uploaded is stored, and nothing stored is lost.
LEMMA StoredKept ==
    ASSUME NEW i \in 1..MaxTaps, artifact \in [1..MaxTaps -> {"none", "slot", "stored"}],
           artifact' = artifact \/ artifact' = [artifact EXCEPT ![i] = "stored"]
    PROVE  /\ artifact' \in [1..MaxTaps -> {"none", "slot", "stored"}]
           /\ \A j \in 1..MaxTaps : artifact[j] = "stored" => artifact'[j] = "stored"
           /\ artifact' # artifact => artifact'[i] = "stored"
<1>1. PICK D : D = 1..MaxTaps
  OBVIOUS
<1>2. ASSUME NEW j \in D, artifact[j] = "stored" PROVE artifact'[j] = "stored"
  BY <1>1, <1>2
<1> QED
  BY <1>1, <1>2

LEMMA UploadKeeps ==
    ASSUME OInv, Upload
    PROVE  OInv'
<1>0. PICK i, p : i = Min(phone.todo) /\ p = [phone EXCEPT !.todo = @ \ {i}]
  OBVIOUS
<1>1. /\ phone.at = "uploads" /\ phone.todo # {}
      /\ UNCHANGED <<shown, request, applied, judged, cited, session, wiped>>
  BY DEF Upload
<1>2. \/ /\ artifact' = [artifact EXCEPT ![i] = "stored"] /\ phone' = p /\ UNCHANGED trouble
         /\ log' = [log EXCEPT ![i] = [log[i] EXCEPT !.media = "UPLOADED", !.file = FALSE]]
      \/ /\ log' = [log EXCEPT ![i] = [log[i] EXCEPT !.media = "FAILED"]]
         /\ phone' = p /\ UNCHANGED <<artifact, trouble>>
      \/ /\ trouble < MaxTrouble /\ trouble' = trouble + 1
         /\ artifact' = [artifact EXCEPT ![i] = "stored"]
         /\ phone' = Resting /\ UNCHANGED log
  BY <1>0 DEF Upload
<1>3. phone \in PhoneRow(Taps) /\ phone.call = Nothing /\ phone.todo \subseteq Taps
  BY <1>1, NoCallYet DEF PhoneRow
<1>4. i \in phone.todo
  BY <1>0, <1>1, <1>3, FirstOf DEF OInv, Rows
<1>5. /\ i \in Taps /\ log[i].media = "SLOTTED" /\ log[i] \in TapRow /\ i \in 1..MaxTaps
      /\ RowTrue(i)
  BY <1>1, <1>3, <1>4, TapsAre DEF OInv, PhotosTodo, Rows
<1>6. /\ p \in PhoneRow(Taps) /\ p.call = Nothing /\ p.at = "uploads"
      /\ p.todo = phone.todo \ {i}
  BY <1>0, <1>1, <1>3 DEF PhoneRow
<1>7. /\ artifact' \in [1..MaxTaps -> {"none", "slot", "stored"}]
      /\ \A j \in 1..MaxTaps : artifact[j] = "stored" => artifact'[j] = "stored"
  BY <1>2, <1>5, StoredKept DEF OInv, Rows, RestRows
<1>8. trouble' \in 0..MaxTrouble
  BY <1>2, OutboxAssumption DEF OInv, Rows, RestRows
<1>9. ASSUME NEW row \in TapRow, log' = [log EXCEPT ![i] = row], phone' = p,
             row.kind = log[i].kind, row.subject = log[i].subject, row.state = log[i].state,
             row.seen = log[i].seen, row.media \in {"UPLOADED", "FAILED"},
             ~row.file => artifact'[i] = "stored"
      PROVE  OInv'
  <2>1. MediaMoves(log[i].media, row.media)
    BY <1>5, <1>9 DEF MediaMoves
  <2>2. Taps' = Taps /\ log'[i] = row /\ \A j \in Taps : j # i => log'[j] = log[j]
    BY <1>5, <1>9, <2>1, LogSets DEF OInv, Rows
  <2>3. RowTrue(i)'
    BY <1>1, <1>5, <1>9, <2>2 DEF RowTrue, HasSlot
  <2>4. SettlesTruth(p)' /\ PhotosTodo(p)'
    <3>1. \A j \in p.todo : log'[j].media = "SLOTTED"
      BY <1>1, <1>3, <1>6, <2>2 DEF OInv, PhotosTodo
    <3> QED
      BY <1>6, <3>1 DEF SettlesTruth, PhotosTodo
  <2>5. RestRows'
    BY <1>1, <1>7, <1>8, <2>2 DEF OInv, Rows, RestRows
  <2> QED
    BY <1>1, <1>3, <1>5, <1>6, <1>7, <1>9, <2>1, <2>3, <2>4, <2>5, WritesOne
<1>10. CASE /\ artifact' = [artifact EXCEPT ![i] = "stored"] /\ phone' = p
            /\ log' = [log EXCEPT ![i] = [log[i] EXCEPT !.media = "UPLOADED", !.file = FALSE]]
  <2>1. PICK row : row = [log[i] EXCEPT !.media = "UPLOADED", !.file = FALSE]
    OBVIOUS
  <2>2. /\ row \in TapRow /\ row.kind = log[i].kind /\ row.subject = log[i].subject
        /\ row.state = log[i].state /\ row.seen = log[i].seen /\ row.media = "UPLOADED"
    BY <1>5, <2>1 DEF TapRow
  <2>3. artifact'[i] = "stored"
    BY <1>5, <1>10 DEF OInv, Rows, RestRows
  <2> QED
    BY <1>9, <1>10, <2>1, <2>2, <2>3
<1>11. CASE /\ log' = [log EXCEPT ![i] = [log[i] EXCEPT !.media = "FAILED"]]
            /\ phone' = p /\ UNCHANGED artifact
  <2>1. PICK row : row = [log[i] EXCEPT !.media = "FAILED"]
    OBVIOUS
  <2>2. /\ row \in TapRow /\ row.kind = log[i].kind /\ row.subject = log[i].subject
        /\ row.state = log[i].state /\ row.seen = log[i].seen /\ row.media = "FAILED"
        /\ row.file = log[i].file
    BY <1>5, <2>1 DEF TapRow
  <2>3. ~row.file => artifact'[i] = "stored"
    BY <1>5, <1>11, <2>2 DEF RowTrue
  <2> QED
    BY <1>9, <1>11, <2>1, <2>2, <2>3
<1>12. CASE phone' = Resting /\ UNCHANGED log
  <2>1. PICK q : q = Resting
    OBVIOUS
  <2>2. q \in PhoneRow(Taps) /\ q.call = Nothing /\ q.at = "idle"
    BY <2>1, RestingIs DEF Resting
  <2>3. SettlesTruth(q)' /\ PhotosTodo(q)'
    BY <2>2, AtRestOwesNothing
  <2>4. RestRows'
    BY <1>1, <1>7, <1>8, <1>12 DEF OInv, Rows, RestRows, Taps
  <2> QED
    BY <1>1, <1>3, <1>7, <1>12, <2>1, <2>2, <2>3, <2>4, PhoneMoves
<1> QED
  BY <1>2, <1>10, <1>11, <1>12

-----------------------------------------------------------------------------
(* The calls *)

\* One request is written; the log stays as it is.
LEMMA RequestMoves ==
    ASSUME OInv, NEW h \in Handlers, NEW q \in RequestRow(Taps),
           request' = [request EXCEPT ![h] = q], Grows => Carries(q)',
           NEW p \in PhoneRow(Taps), phone' = p,
           UNCHANGED <<log, shown, artifact>>, RestRows',
           applied \subseteq applied', judged \subseteq judged', cited \subseteq cited',
           Grows => CarriedOutInOrder' /\ (\A i \in Taps : RowTrue(i)'),
           WaitsFor', Grows => SettlesTruth(p)' /\ PhotosTodo(p)'
    PROVE  OInv'
<1>1. LogRows' /\ Taps' = Taps /\ LogKept
  BY SameLog DEF OInv, Rows
<1>2. Grows
  BY <1>1 DEF Grows
<1>3. PhoneRows' /\ SettlesTruth(phone)' /\ PhotosTodo(phone)'
  BY <1>1, <1>2 DEF PhoneRows
<1>4. ASSUME NEW g \in Handlers
      PROVE  request'[g] \in RequestRow(Taps) /\ Carries(request[g])'
  <2>1. CASE g = h
    <3>1. request'[g] = q
      BY <2>1 DEF OInv, Rows, RequestRows
    <3> QED
      BY <1>2, <3>1
  <2>2. CASE g # h
    <3>1. PICK r : r = request[g]
      OBVIOUS
    <3>2. r \in RequestRow(Taps) /\ Carries(r) /\ request'[g] = r
      BY <2>2, <3>1 DEF OInv, Rows, RequestRows
    <3>3. Carries(r)'
      BY <1>2, <3>2, CarriesStay DEF OInv, Rows
    <3> QED
      BY <3>2, <3>3
  <2> QED
    BY <2>1, <2>2
<1>5. RequestRows'
  BY <1>1, <1>4 DEF OInv, Rows, RequestRows
<1> QED
  BY <1>1, <1>2, <1>3, <1>4, <1>5 DEF OInv, Rows

\* The server works on a request the phone may wait for.
LEMMA ServerWrites ==
    ASSUME OInv, NEW h \in Handlers, NEW q \in RequestRow(Taps),
           request' = [request EXCEPT ![h] = q], Grows => Carries(q)',
           q.type = request[h].type, q.items = request[h].items, q.heard <=> request[h].heard,
           UNCHANGED <<log, phone, shown, artifact>>, RestRows',
           applied \subseteq applied', judged \subseteq judged', cited \subseteq cited',
           Grows => CarriedOutInOrder' /\ (\A i \in Taps : RowTrue(i)')
    PROVE  OInv'
<1>1. PICK p : p = phone
  OBVIOUS
<1>2. p \in PhoneRow(Taps) /\ SettlesTruth(p) /\ PhotosTodo(p) /\ phone' = p
  BY <1>1 DEF OInv, Rows, PhoneRows
<1>3. PhotosTodo(p)' /\ (Grows => SettlesTruth(p)')
  BY <1>2, TruthStays, PhotosStay
<1>4. WaitsFor'
  BY DEF OInv, Rows, RequestRows, WaitsFor
<1> QED
  BY <1>2, <1>3, <1>4, RequestMoves

\* What was carried out was ruled on, and its slot is cited.
LEMMA RowCarried ==
    ASSUME LogRows, Grows, NEW i \in Taps, RowTrue(i), UNCHANGED <<log, shown>>,
           i \in applied' /\ i \notin applied =>
              i \in judged' /\ log[i].media # "CAPTURED" /\ (HasSlot(i) => i \in cited')
    PROVE  RowTrue(i)'
<1>1. i \in 1..MaxTaps
  BY TapsAre
<1> QED
  BY <1>1 DEF RowTrue, HasSlot, Grows

\* A batch is what the first actions of the list are, all of one kind of call ...
LEMMA BatchIs ==
    ASSUME LogRows, SendableActions # {}
    PROVE  /\ Batch \subseteq SendableActions
           /\ \A i \in Batch : FitsType(CallType, log[i].kind)
           /\ CallType \in {"sync", "scans", "single"}
           /\ CallType = "single" => Batch = {Head1}
<1>1. Head1 \in SendableActions /\ SendableActions \subseteq Taps
  <2>1. SendableActions \subseteq Taps
    BY DEF SendableActions, Pending
  <2> QED
    BY <2>1, FirstOf DEF Head1
<1>2. log[Head1].kind \in SyncKinds \cup PickupKinds
  BY <1>1, TapsAre, OutboxAssumption DEF TapRow
<1>3. ASSUME NEW K, NEW i \in TakeWhile(K) PROVE i \in SendableActions /\ i \in K
  <2>1. i \in Int
    BY <1>1, <1>3, TapsAre DEF TakeWhile
  <2> QED
    BY <1>3, <2>1 DEF TakeWhile
<1>4. CASE log[Head1].kind \in SyncKinds
  <2>1. CallType = "sync" /\ Batch = TakeWhile({i \in SendableActions : log[i].kind \in SyncKinds})
    <3>1. CallType = "sync"
      BY <1>4 DEF CallType, SyncKinds
    <3> QED
      BY <1>4, <3>1 DEF Batch
  <2>2. \A i \in Batch : i \in SendableActions /\ log[i].kind \in SyncKinds
    BY <1>3, <2>1
  <2> QED
    BY <2>1, <2>2 DEF FitsType
<1>5. CASE log[Head1].kind = "PICKUP_SCAN"
  <2>1. /\ CallType = "scans"
        /\ Batch = TakeWhile({i \in SendableActions : log[i].kind = "PICKUP_SCAN"
                                                        /\ log[i].subject = log[Head1].subject})
    BY <1>5 DEF CallType, Batch, SyncKinds
  <2>2. \A i \in Batch : i \in SendableActions /\ log[i].kind = "PICKUP_SCAN"
    BY <1>3, <2>1
  <2> QED
    BY <2>1, <2>2 DEF FitsType
<1>6. CASE log[Head1].kind \notin SyncKinds /\ log[Head1].kind # "PICKUP_SCAN"
  <2>1. CallType = "single" /\ Batch = {Head1}
    BY <1>6 DEF CallType, Batch
  <2> QED
    BY <1>1, <1>2, <1>6, <2>1 DEF FitsType
<1> QED
  BY <1>4, <1>5, <1>6

\* ... and nothing of the list that goes before an action of it stays behind.
LEMMA TakesInOrder ==
    ASSUME LogRows, NEW K, NEW b \in TakeWhile(K), NEW a \in SendableActions, a < b
    PROVE  a \in TakeWhile(K)
<1> DEFINE Upto(n) == {j \in SendableActions : j <= n}
<1>1. SendableActions \subseteq Taps /\ b \in SendableActions
  BY DEF SendableActions, Pending, TakeWhile
<1>2. a \in Int /\ b \in Int /\ \A j \in SendableActions : j \in Int
  BY <1>1, TapsAre
<1>3. Upto(b) \subseteq K /\ Cardinality(Upto(b)) <= MaxBatch
  BY Zenon DEF TakeWhile
<1>4. Upto(a) \subseteq Upto(b) /\ Upto(b) \subseteq SendableActions
  <2>1. ASSUME NEW j \in SendableActions, j <= a PROVE j <= b
    <3>1. j \in Int
      BY <1>2
    <3> QED
      BY <1>2, <2>1, <3>1
  <2> QED
    BY <2>1
<1>5. Upto(a) \subseteq K /\ Cardinality(Upto(a)) <= MaxBatch => a \in TakeWhile(K)
  BY Zenon DEF TakeWhile
<1> HIDE DEF Upto
<1>6. IsFiniteSet(Upto(b))
  <2>1. IsFiniteSet(Taps)
    BY TapsAre, FS_Interval
  <2> QED
    BY <1>1, <1>4, <2>1, FS_Subset
<1>7. Cardinality(Upto(a)) <= MaxBatch
  <2>1. IsFiniteSet(Upto(a)) /\ Cardinality(Upto(a)) <= Cardinality(Upto(b))
    BY <1>4, <1>6, FS_Subset
  <2>2. Cardinality(Upto(a)) \in Nat /\ Cardinality(Upto(b)) \in Nat
    BY <1>6, <2>1, FS_CardinalityType
  <2> QED
    BY <1>3, <2>1, <2>2, OutboxAssumption
<1> QED
  BY <1>3, <1>4, <1>5, <1>7

LEMMA BatchInOrder ==
    ASSUME LogRows, NEW b \in Batch, NEW a \in SendableActions, a < b
    PROVE  a \in Batch
<1>1. CASE \E K : Batch = TakeWhile(K)
  BY <1>1, TakesInOrder
<1>2. CASE Batch = {Head1}
  <2>1. SendableActions \subseteq Taps
    BY DEF SendableActions, Pending
  <2>2. Head1 <= a /\ a \in Int /\ Head1 \in Int
    BY <2>1, FirstOf DEF Head1
  <2> QED
    BY <1>2, <2>2
<1> QED
  BY <1>1, <1>2 DEF Batch

LEMMA SendBatchKeeps ==
    ASSUME OInv, NEW h \in Handlers, SendBatch(h)
    PROVE  OInv'
<1>0. PICK items, blocked, held, cites :
        /\ items = {i \in Batch : \A j \in Batch : j <= i => HasItem(j)}
        /\ blocked = Batch \ items
        /\ held = (IF blocked = {} THEN {} ELSE {log[Min(blocked)].subject})
        /\ cites = {i \in items : HasSlot(i)}
  OBVIOUS
<1>1. /\ AtActions /\ SendableActions # {} /\ request[h] = NoRequest
      /\ UNCHANGED <<log, shown, applied, judged, cited, artifact, session, wiped, trouble>>
  BY DEF SendBatch
<1>2. IF items = {}
      THEN /\ phone' = [phone EXCEPT !.deferred = @ \cup held, !.at = "actions"]
           /\ UNCHANGED request
      ELSE /\ phone' = [phone EXCEPT !.deferred = @ \cup held, !.at = "waiting",
                                     !.todo = items, !.call = h, !.results = <<>>]
           /\ request' = [request EXCEPT ![h] =
                [NoRequest EXCEPT !.type = CallType, !.items = items, !.cites = cites,
                                  !.heard = TRUE]]
  BY <1>0 DEF SendBatch, HasSlot
<1>3. LogRows /\ RestRows
  BY DEF OInv, Rows
<1>4. phone.at # "waiting" /\ phone.call = Nothing /\ phone \in PhoneRow(Taps)
  BY <1>1, NoCallYet DEF AtActions
<1>5. Batch \subseteq SendableActions /\ SendableActions \subseteq Taps
  BY <1>1, <1>3, BatchIs DEF SendableActions, Pending
<1>6. items \subseteq Batch /\ cites \subseteq items /\ blocked \subseteq Batch
  BY <1>0
<1>7. held \subseteq Subjects
  <2>1. CASE blocked # {}
    <3>1. Min(blocked) \in Taps
      BY <1>3, <1>5, <1>6, <2>1, FirstOf
    <3> QED
      BY <1>0, <1>3, <2>1, <3>1, TapsAre DEF TapRow
  <2>2. CASE blocked = {}
    BY <1>0, <2>2
  <2> QED
    BY <2>1, <2>2
<1>8. RestRows'
  BY <1>1, <1>3 DEF RestRows, Taps
<1>9. CASE items = {}
  <2>1. PICK d : d = phone.deferred \cup held
    OBVIOUS
  <2>2. PICK p : p = [phone EXCEPT !.deferred = d, !.at = "actions"]
    OBVIOUS
  <2>3. /\ p \in PhoneRow(Taps) /\ p.call = Nothing /\ p.at = "actions"
    BY <1>4, <1>7, <2>1, <2>2 DEF PhoneRow
  <2>4. phone' = p /\ UNCHANGED request
    BY <1>2, <1>9, <2>1, <2>2
  <2>5. SettlesTruth(p)' /\ PhotosTodo(p)'
    BY <1>1, <2>3, GoesOn
  <2> QED
    BY <1>1, <1>4, <1>8, <2>3, <2>4, <2>5, PhoneMoves
<1>10. CASE items # {}
  <2>1. PICK d : d = phone.deferred \cup held
    OBVIOUS
  <2>2. PICK p : p = [phone EXCEPT !.deferred = d, !.at = "waiting",
                                   !.todo = items, !.call = h, !.results = <<>>]
    OBVIOUS
  <2>3. items \in SUBSET Taps /\ cites \in SUBSET Taps
    BY <1>5, <1>6
  <2>4. /\ p \in PhoneRow(Taps) /\ p.call = h /\ p.at = "waiting" /\ p.todo = items
    <3>1. <<>> \in AnswersOf(Taps)
      BY EmptyAnswers
    <3>2. d \subseteq Subjects
      BY <1>4, <1>7, <2>1 DEF PhoneRow
    <3> QED
      BY <1>4, <2>2, <2>3, <3>1, <3>2 DEF PhoneRow
  <2>5. PICK q, type : /\ type = CallType
                       /\ q = [NoRequest EXCEPT !.type = type, !.items = items, !.cites = cites,
                                                !.heard = TRUE]
    OBVIOUS
  <2>6. phone' = p /\ request' = [request EXCEPT ![h] = q]
    BY <1>2, <1>10, <2>1, <2>2, <2>5
  <2>7. /\ type \in {"sync", "scans", "single"} /\ \A i \in Batch : FitsType(type, log[i].kind)
        /\ type = "single" => Batch = {Head1}
    BY <1>1, <1>3, <2>5, BatchIs
  <2>8. /\ q \in RequestRow(Taps) /\ q.type = type /\ q.items = items /\ q.cites = cites
        /\ q.heard /\ DOMAIN q.results = {}
    <3>1. q = [type |-> type, items |-> items, cites |-> cites, results |-> <<>>,
               held |-> {}, heard |-> TRUE]
      BY <2>5 DEF NoRequest
    <3>2. <<>> \in AnswersOf(Taps) /\ DOMAIN <<>> = {}
      BY EmptyAnswers
    <3> QED
      BY <2>3, <2>7, <3>1, <3>2 DEF RequestRow
  <2>9. ItemsFit(q)
    <3>1. \A i \in items : HasItem(i)
      <4>1. \A i \in items : i \in Batch /\ i \in Int
        BY <1>3, <1>6, <2>3, TapsAre
      <4> QED
        BY <1>0, <4>1
    <3> QED
      BY <1>0, <1>6, <2>7, <2>8, <3>1 DEF ItemsFit, HasItem
  <2>10. ItemsInOrder(q)
    <3>1. ASSUME NEW b \in items, NEW a \in Taps, Waits(a, b), a \notin judged
          PROVE  a \in items
      <4>1. a < b /\ log[a].subject = log[b].subject
        BY <3>1 DEF Waits
      <4>2. log[a].state = "PENDING"
        BY <3>1 DEF OInv, RowTrue
      <4>3. b \in Batch /\ b \in SendableActions
        BY <1>5, <1>6
      <4>4. a \in SendableActions
        BY <4>1, <4>2, <4>3 DEF SendableActions, Pending
      <4>5. a \in Batch
        BY <1>3, <4>1, <4>3, <4>4, BatchInOrder
      <4>6. ASSUME NEW j \in Batch, j <= a PROVE HasItem(j)
        <5>1. j \in Int /\ a \in Int /\ b \in Int
          BY <1>3, <1>5, <4>3, TapsAre
        <5>2. j <= b
          BY <4>1, <4>6, <5>1
        <5> QED
          BY <1>0, <5>2
      <4> QED
        BY <1>0, <4>5, <4>6
    <3>2. type = "single" => \A a, b \in items : a = b
      BY <1>6, <2>7
    <3> QED
      BY <2>8, <3>1, <3>2 DEF ItemsInOrder
  <2>11. Carries(q)
    BY <2>8, <2>9, <2>10 DEF Carries, AnswersTrue, HeldBehind
  <2>12. Grows => Carries(q)'
    BY <1>3, <2>8, <2>11, CarriesStay
  <2>13. Grows => CarriedOutInOrder' /\ (\A i \in Taps : RowTrue(i)')
    <3>1. Grows => \A i \in Taps : RowTrue(i)'
      BY <1>1, <1>3, RowStays DEF OInv
    <3> QED
      BY <1>1, <1>3, <3>1, OrderStays DEF OInv
  <2>14. WaitsFor'
    <3>1. request'[h] = q
      BY <2>6 DEF OInv, Rows, RequestRows
    <3> QED
      BY <2>4, <2>6, <2>7, <2>8, <3>1, OutboxAssumption DEF WaitsFor
  <2>15. SettlesTruth(p)' /\ PhotosTodo(p)'
    BY <2>4 DEF SettlesTruth, PhotosTodo
  <2> QED
    BY <1>1, <1>8, <2>4, <2>6, <2>8, <2>12, <2>13, <2>14, <2>15, RequestMoves
<1> QED
  BY <1>9, <1>10

LEMMA VerdictIs ==
    ASSUME NEW k, NEW v \in Verdicts(k)
    PROVE  /\ v \in {"REFUSED", "ESCALATE", "DISCARD"}
           /\ v = "REFUSED" => ~IsPhysical(k)
<1>1. CASE k \in {"PICKUP_COLLECT", "PICKUP_COMPLETE"}
  BY <1>1 DEF Verdicts, IsPhysical
<1>2. CASE k \notin {"PICKUP_COLLECT", "PICKUP_COMPLETE"}
  BY <1>2 DEF Verdicts
<1> QED
  BY <1>1, <1>2

\* One answer of a sync.
LEMMA AnswerAdded ==
    ASSUME LogRows, Grows, log' = log, NEW r \in RequestRow(Taps), Carries(r), r.type = "sync",
           NEW i \in r.items, i \notin DOMAIN r.results, NEW v \in Answers,
           AnswerTrue("sync", i, v)',
           NEW held \in SUBSET Subjects, r.held \subseteq held,
           i \in judged' \/ log[i].subject \in held,
           NEW res \in AnswersOf(Taps), DOMAIN res = DOMAIN r.results \cup {i}, res[i] = v,
           \A j \in DOMAIN r.results : res[j] = r.results[j],
           NEW q, q = [r EXCEPT !.results = res, !.held = held]
    PROVE  /\ q \in RequestRow(Taps) /\ q.type = r.type /\ q.items = r.items
           /\ Carries(q)'
<1>1. r \in RequestRow(Taps) /\ Carries(r) /\ LogRows
  OBVIOUS
<1>2. Carries(r)'
  BY CarriesStay
<1>5. /\ res \in AnswersOf(Taps) /\ DOMAIN res = DOMAIN r.results \cup {i}
      /\ res[i] = v /\ \A j \in DOMAIN r.results : res[j] = r.results[j]
  OBVIOUS
<1>6. /\ q \in RequestRow(Taps) /\ q.type = r.type /\ q.items = r.items /\ (q.heard <=> r.heard)
      /\ q.cites = r.cites /\ q.results = res /\ q.held = held
  BY <1>1, <1>5 DEF RequestRow
<1>7. ItemsFit(q)' /\ ItemsInOrder(q)'
  <2>1. ItemsFit(r)' /\ ItemsInOrder(r)'
    BY <1>2 DEF Carries
  <2> QED
    BY <1>6, <2>1 DEF ItemsFit, ItemsInOrder
<1>8. AnswersTrue(q)'
  <2>1. AnswersTrue(r)'
    BY <1>2 DEF Carries
  <2>2. ASSUME NEW j \in DOMAIN res PROVE j \in r.items /\ AnswerTrue(r.type, j, res[j])'
    <3>1. CASE j = i
      BY <1>5, <3>1
    <3>2. CASE j # i
      <4>1. j \in DOMAIN r.results /\ res[j] = r.results[j]
        BY <1>5, <3>2
      <4>2. j \in r.items /\ AnswerTrue(r.type, j, r.results[j])'
        BY <2>1, <4>1 DEF AnswersTrue
      <4> QED
        BY <4>1, <4>2
    <3> QED
      BY <3>1, <3>2
  <2> QED
    BY <1>6, <2>2 DEF AnswersTrue
<1>9. HeldBehind(q)'
  <2>1. DOMAIN r.results # r.items
    OBVIOUS
  <2>2. ASSUME NEW j \in DOMAIN res PROVE j \in judged' \/ log'[j].subject \in held
    <3>1. CASE j = i
      BY <3>1
    <3>2. CASE j # i
      <4>1. j \in DOMAIN r.results
        BY <1>5, <3>2
      <4> QED
        BY <1>2, <2>1, <4>1 DEF Carries, HeldBehind
    <3> QED
      BY <3>1, <3>2
  <2> QED
    BY <1>6, <2>2 DEF HeldBehind
<1> QED
  BY <1>6, <1>7, <1>8, <1>9 DEF Carries

LEMMA JudgeKeeps ==
    ASSUME OInv, NEW h \in Handlers, Judge(h)
    PROVE  OInv'
<1>0. PICK r, i : r = request[h] /\ i = Min(r.items \ Answered(h))
  OBVIOUS
<1>1. /\ r.type = "sync" /\ r.items \ Answered(h) # {}
      /\ UNCHANGED <<log, phone, shown, artifact, session, wiped>>
  BY <1>0 DEF Judge
<1>2. PICK v :
      /\ request' = [request EXCEPT
            ![h].results = [j \in Answered(h) \cup {i} |-> IF j = i THEN v ELSE @[j]],
            ![h].held = IF Holds(v) THEN @ \cup {log[i].subject} ELSE @]
      /\ \/ v = "RETRY" /\ UNCHANGED <<applied, judged, cited, trouble>>
         \/ /\ log[i].subject \notin r.held /\ v = "ACCEPTED" /\ Carry({i}, r.cites)
            /\ judged' = judged \cup {i} /\ UNCHANGED trouble
         \/ /\ v \in Verdicts(log[i].kind)
            /\ judged' = judged \cup {i} /\ UNCHANGED <<applied, cited, trouble>>
         \/ /\ v = "RETRY" /\ trouble < MaxTrouble /\ trouble' = trouble + 1
            /\ UNCHANGED <<applied, judged, cited>>
  BY <1>0 DEF Judge
<1>3. r \in RequestRow(Taps) /\ Carries(r) /\ LogRows /\ RestRows
  BY <1>0 DEF OInv, Rows, RequestRows
<1>4. /\ i \in r.items /\ i \notin DOMAIN r.results /\ i \in Taps /\ RowTrue(i)
      /\ Answered(h) = DOMAIN r.results
      /\ \A j \in r.items \ DOMAIN r.results : j \in Int /\ i <= j
  <2>1. Answered(h) = DOMAIN r.results
    BY <1>0 DEF Answered
  <2>2. r.items \subseteq Taps
    BY <1>3 DEF RequestRow
  <2>3. PICK S : S = r.items \ DOMAIN r.results
    OBVIOUS
  <2>4. i \in S /\ \A j \in S : j \in Int /\ i <= j
    BY <1>0, <1>1, <1>3, <2>1, <2>2, <2>3, FirstOf
  <2> QED
    BY <2>1, <2>2, <2>3, <2>4 DEF OInv
<1>5. /\ v \in {"ACCEPTED", "RETRY", "DISCARD", "ESCALATE", "REFUSED"} /\ v \in Answers
      /\ v = "REFUSED" => ~IsPhysical(log[i].kind)
  <2>1. PICK k : k = log[i].kind
    OBVIOUS
  <2>2. /\ v \in {"ACCEPTED", "RETRY", "DISCARD", "ESCALATE", "REFUSED"}
        /\ v = "REFUSED" => ~IsPhysical(k)
    BY <1>2, <2>1, VerdictIs
  <2> QED
    BY <2>1, <2>2 DEF Answers
<1>6. PICK held, res, q :
        /\ held = (IF Holds(v) THEN r.held \cup {log[i].subject} ELSE r.held)
        /\ res = [j \in DOMAIN r.results \cup {i} |-> IF j = i THEN v ELSE r.results[j]]
        /\ q = [r EXCEPT !.results = res, !.held = held]
  OBVIOUS
<1>7. request' = [request EXCEPT ![h] = q]
  BY <1>0, <1>2, <1>4, <1>6
<1>8. /\ applied \subseteq applied' /\ judged \subseteq judged' /\ cited \subseteq cited'
      /\ applied' \subseteq applied \cup {i} /\ judged' \subseteq judged \cup {i}
      /\ cited' \subseteq cited \cup r.cites
      /\ trouble' \in 0..MaxTrouble
  <2>1. trouble' \in 0..MaxTrouble
    BY <1>2, <1>3, OutboxAssumption DEF RestRows
  <2> QED
    BY <1>2, <2>1 DEF Carry
<1>9. RestRows'
  <2>1. r.cites \subseteq Taps
    BY <1>3 DEF RequestRow
  <2> QED
    BY <1>1, <1>3, <1>4, <1>8, <2>1 DEF RestRows, Taps
<1>10. v = "ACCEPTED" => i \in applied'
  BY <1>2, VerdictIs DEF Carry
<1>11. v # "RETRY" => i \in judged'
  BY <1>2
<1>12. /\ r.held \subseteq held /\ held \subseteq Subjects
       /\ v = "RETRY" => log[i].subject \in held
  <2>1. log[i].subject \in Subjects
    BY <1>3, <1>4, TapsAre DEF TapRow
  <2>2. r.held \subseteq Subjects
    BY <1>3 DEF RequestRow
  <2> QED
    BY <1>6, <2>1, <2>2 DEF Holds
<1>13. i \in applied' /\ i \notin applied =>
          /\ log[i].subject \notin r.held /\ i \in judged'
          /\ cited' = cited \cup (r.cites \cap {i})
  BY <1>2 DEF Carry
<1>14. Grows
  <2>1. LogKept
    BY <1>1, <1>3, SameLog
  <2> QED
    BY <1>1, <1>8, <2>1 DEF Grows
<1>15. /\ q \in RequestRow(Taps) /\ q.type = r.type /\ q.items = r.items
       /\ (q.heard <=> r.heard) /\ Carries(q)'
  <2>1. AnswerTrue("sync", i, v)'
    BY <1>1, <1>5, <1>10, <1>11 DEF AnswerTrue
  <2>2. log' = log /\ held \in SUBSET Subjects /\ (i \in judged' \/ log[i].subject \in held)
    BY <1>1, <1>11, <1>12
  <2>3. /\ res \in AnswersOf(Taps) /\ DOMAIN res = DOMAIN r.results \cup {i}
        /\ res[i] = v /\ \A j \in DOMAIN r.results : res[j] = r.results[j]
    <3>1. PICK f : f = r.results
      OBVIOUS
    <3>2. f \in AnswersOf(Taps) /\ i \notin DOMAIN f
      BY <1>3, <1>4, <3>1 DEF RequestRow
    <3>3. res = [j \in DOMAIN f \cup {i} |-> IF j = i THEN v ELSE f[j]]
      BY <1>6, <3>1
    <3>4. /\ res \in AnswersOf(Taps) /\ DOMAIN res = DOMAIN f \cup {i}
          /\ res[i] = v /\ \A j \in DOMAIN f : res[j] = f[j]
      BY <1>4, <1>5, <3>2, <3>3, OneMore
    <3> QED
      BY <3>1, <3>4
  <2>4. q = [r EXCEPT !.results = res, !.held = held]
    BY <1>6
  <2>5. LogRows /\ r \in RequestRow(Taps) /\ Carries(r) /\ r.type = "sync" /\ r.held \subseteq held
    BY <1>1, <1>3, <1>12
  <2>6. i \in r.items /\ i \notin DOMAIN r.results /\ v \in Answers
    BY <1>4, <1>5
  <2>7. q.heard <=> r.heard
    BY <1>3, <1>6 DEF RequestRow
  <2>8. q \in RequestRow(Taps)
    BY <1>14, <2>1, <2>2, <2>3, <2>4, <2>5, <2>6, AnswerAdded
  <2>9. q.type = r.type /\ q.items = r.items
    BY <1>3, <2>4 DEF RequestRow
  <2>10. Carries(q)'
    BY <1>14, <2>1, <2>2, <2>3, <2>4, <2>5, <2>6, AnswerAdded
  <2> QED
    BY <2>7, <2>8, <2>9, <2>10
<1>16. \A j \in Taps : RowTrue(j)'
  <2>1. ASSUME NEW j \in Taps, j \in applied', j \notin applied
        PROVE  j \in judged' /\ log[j].media # "CAPTURED" /\ (HasSlot(j) => j \in cited')
    <3>1. j = i
      BY <1>8, <2>1
    <3>2. log[i].media # "CAPTURED" /\ (HasSlot(i) => i \in r.cites)
      BY <1>3, <1>4 DEF Carries, ItemsFit
    <3> QED
      BY <1>13, <2>1, <3>1, <3>2
  <2> QED
    BY <1>1, <1>3, <1>14, <2>1, RowCarried DEF OInv
<1>17. CarriedOutInOrder'
  <2>1. CASE applied' = applied
    BY <1>3, <1>14, <2>1, OrderStays DEF OInv
  <2>2. CASE applied' # applied
    <3>1. i \in applied' /\ i \notin applied /\ applied' = applied \cup {i}
      BY <1>8, <2>2
    <3>2. ASSUME NEW a \in Taps, Waits(a, i) PROVE a \in judged
      <4>1. a < i /\ log[a].subject = log[i].subject /\ a \in Int /\ i \in Int
        BY <1>3, <1>4, <3>2, TapsAre DEF Waits
      <4>2. a \in r.items \/ a \in judged
        BY <1>3, <1>4, <3>2 DEF Carries, ItemsInOrder
      <4>3. CASE a \in r.items
        <5>1. a \in DOMAIN r.results
          BY <1>4, <4>1, <4>3
        <5>2. DOMAIN r.results # r.items
          BY <1>4
        <5>3. a \in judged \/ log[a].subject \in r.held
          BY <1>1, <1>3, <5>1, <5>2 DEF Carries, HeldBehind
        <5> QED
          BY <1>13, <3>1, <4>1, <5>3
      <4> QED
        BY <4>2, <4>3
    <3>3. ASSUME NEW b \in applied', NEW a \in Taps', Waits(a, b)' PROVE a \in judged'
      <4>1. a \in Taps /\ Waits(a, b)
        BY <1>1, <3>3 DEF Taps, Waits
      <4> QED
        BY <1>8, <3>1, <3>2, <4>1 DEF OInv, CarriedOutInOrder
    <3> QED
      BY <3>3 DEF CarriedOutInOrder
  <2> QED
    BY <2>1, <2>2
<1> QED
  BY <1>0, <1>1, <1>7, <1>8, <1>9, <1>14, <1>15, <1>16, <1>17, ServerWrites

\* All answers of a call at once.
LEMMA AllAnswered ==
    ASSUME LogRows, Grows, log' = log, NEW r \in RequestRow(Taps), Carries(r),
           NEW res \in [r.items -> Answers], \A i \in r.items : AnswerTrue(r.type, i, res[i])',
           NEW q, q = [r EXCEPT !.results = res]
    PROVE  q \in RequestRow(Taps) /\ Carries(q)'
<1>1. Carries(r)'
  BY CarriesStay
<1>2. res \in AnswersOf(Taps) /\ DOMAIN res = r.items
  BY DEF RequestRow, AnswersOf
<1>3. /\ q \in RequestRow(Taps) /\ q.type = r.type /\ q.items = r.items
      /\ q.cites = r.cites /\ q.results = res
  BY <1>2 DEF RequestRow
<1>4. ItemsFit(q)' /\ ItemsInOrder(q)'
  BY <1>1, <1>3 DEF Carries, ItemsFit, ItemsInOrder
<1>5. AnswersTrue(q)' /\ HeldBehind(q)'
  BY <1>2, <1>3 DEF AnswersTrue, HeldBehind
<1> QED
  BY <1>3, <1>4, <1>5 DEF Carries

\* The calls of a pickup carry nothing that has a photo.
LEMMA PickupsFit ==
    ASSUME OInv, NEW r \in RequestRow(Taps), Carries(r), r.type \in {"scans", "single"},
           NEW i \in r.items
    PROVE  /\ i \in Taps /\ log[i].kind \in PickupKinds /\ log[i].kind \notin SyncKinds
           /\ log[i].media = "none" /\ ~IsPhysical(log[i].kind)
<1>1. i \in Taps /\ RowTrue(i)
  BY DEF RequestRow, OInv
<1>2. log[i].kind \in PickupKinds
  BY DEF Carries, ItemsFit, FitsType, PickupKinds
<1> QED
  BY <1>1, <1>2 DEF RowTrue, PickupKinds, SyncKinds, IsPhysical

LEMMA JudgePickupKeeps ==
    ASSUME OInv, NEW h \in Handlers, JudgePickup(h)
    PROVE  OInv'
<1>0. PICK r : r = request[h]
  OBVIOUS
<1>1. /\ r.type \in {"scans", "single"} /\ judged' = judged \cup r.items
      /\ UNCHANGED <<log, phone, shown, artifact, session, wiped, trouble>>
  BY <1>0 DEF JudgePickup
<1>2. PICK res \in [r.items -> {"ACCEPTED", "DISCARD", "ESCALATE", "REFUSED"}] :
        /\ request' = [request EXCEPT ![h].results = res]
        /\ Carry({i \in r.items : res[i] = "ACCEPTED"}, {})
  BY <1>0 DEF JudgePickup
<1>3. PICK q, done : q = [r EXCEPT !.results = res] /\ done = {i \in r.items : res[i] = "ACCEPTED"}
  OBVIOUS
<1>4. applied' = applied \cup done /\ cited' = cited /\ done \subseteq r.items
  BY <1>2, <1>3 DEF Carry
<1>5. request' = [request EXCEPT ![h] = q]
  BY <1>0, <1>2, <1>3
<1>6. r \in RequestRow(Taps) /\ Carries(r) /\ LogRows /\ RestRows /\ r.items \subseteq Taps
  BY <1>0 DEF OInv, Rows, RequestRows, RequestRow
<1>7. Grows
  <2>1. LogKept
    BY <1>1, <1>6, SameLog
  <2> QED
    BY <1>1, <1>4, <2>1 DEF Grows
<1>8. q \in RequestRow(Taps) /\ Carries(q)'
  <2>1. \A i \in r.items : AnswerTrue(r.type, i, res[i])'
    <3>1. ASSUME NEW i \in r.items PROVE AnswerTrue(r.type, i, res[i])'
      <4>1. i \in judged' /\ (res[i] = "ACCEPTED" => i \in applied')
        BY <1>1, <1>3, <1>4
      <4>2. ~IsPhysical(log'[i].kind)
        BY <1>1, <1>6, PickupsFit
      <4> QED
        BY <4>1, <4>2 DEF AnswerTrue
    <3> QED
      BY <3>1
  <2>2. res \in [r.items -> Answers]
    BY DEF Answers
  <2> QED
    BY <1>1, <1>3, <1>6, <1>7, <2>1, <2>2, AllAnswered
<1>9. q.type = r.type /\ q.items = r.items /\ (q.heard <=> r.heard)
  BY <1>3, <1>6 DEF RequestRow
<1>10. RestRows'
  BY <1>1, <1>4, <1>6 DEF RestRows, Taps
<1>11. \A j \in Taps : RowTrue(j)'
  <2>1. ASSUME NEW j \in Taps, j \in applied', j \notin applied
        PROVE  j \in judged' /\ log[j].media # "CAPTURED" /\ ~HasSlot(j)
    <3>1. j \in r.items
      BY <1>4, <2>1
    <3> QED
      BY <1>1, <1>6, <3>1, PickupsFit DEF HasSlot
  <2> QED
    BY <1>1, <1>6, <1>7, <2>1, RowCarried DEF OInv
<1>12. CarriedOutInOrder'
  <2>1. ASSUME NEW b \in applied', NEW a \in Taps', Waits(a, b)' PROVE a \in judged'
    <3>1. a \in Taps /\ Waits(a, b)
      BY <1>1, <2>1 DEF Taps, Waits
    <3>2. CASE b \in applied
      BY <1>7, <3>1, <3>2 DEF OInv, CarriedOutInOrder, Grows
    <3>3. CASE b \in r.items
      BY <1>1, <1>6, <3>1, <3>3 DEF Carries, ItemsInOrder
    <3> QED
      BY <1>4, <3>2, <3>3
  <2> QED
    BY <2>1 DEF CarriedOutInOrder
<1>13. applied \subseteq applied' /\ judged \subseteq judged' /\ cited \subseteq cited'
  BY <1>1, <1>4
<1> QED
  BY <1>0, <1>1, <1>5, <1>8, <1>9, <1>10, <1>11, <1>12, <1>13, ServerWrites

LEMMA RefuseEnvelopeKeeps ==
    ASSUME OInv, NEW h \in Handlers, RefuseEnvelope(h)
    PROVE  OInv'
<1>0. PICK r : r = request[h]
  OBVIOUS
<1>1. PICK res : res = [i \in r.items |-> "ENVELOPE"]
  OBVIOUS
<1>2. PICK q : q = [r EXCEPT !.results = res]
  OBVIOUS
<1>3. /\ r.type \in {"sync", "scans"}
      /\ trouble < MaxTrouble /\ trouble' = trouble + 1
      /\ request' = [request EXCEPT ![h] = q]
      /\ judged' = IF r.type = "scans" THEN judged \cup r.items ELSE judged
      /\ UNCHANGED <<log, phone, shown, applied, cited, artifact, session, wiped>>
  BY <1>0, <1>1, <1>2 DEF RefuseEnvelope
<1>4. r \in RequestRow(Taps) /\ Carries(r) /\ LogRows /\ RestRows /\ r.items \subseteq Taps
  BY <1>0 DEF OInv, Rows, RequestRows, RequestRow
<1>5. /\ judged \subseteq judged' /\ judged' \subseteq judged \cup r.items
      /\ r.type # "sync" => r.items \subseteq judged'
  BY <1>3
<1>6. Grows
  <2>1. LogKept
    BY <1>3, <1>4, SameLog
  <2> QED
    BY <1>3, <1>5, <2>1 DEF Grows
<1>7. q \in RequestRow(Taps) /\ Carries(q)'
  <2>1. res \in [r.items -> Answers] /\ \A i \in r.items : res[i] = "ENVELOPE"
    BY <1>1 DEF Answers
  <2>2. \A i \in r.items : AnswerTrue(r.type, i, res[i])'
    BY <1>5, <2>1 DEF AnswerTrue
  <2> QED
    BY <1>2, <1>3, <1>4, <1>6, <2>1, <2>2, AllAnswered
<1>8. q.type = r.type /\ q.items = r.items /\ (q.heard <=> r.heard)
  BY <1>2, <1>4 DEF RequestRow
<1>9. RestRows'
  <2>1. trouble' \in 0..MaxTrouble
    BY <1>3, <1>4, OutboxAssumption DEF RestRows
  <2>2. judged' \subseteq Taps'
    BY <1>3, <1>4, <1>5 DEF RestRows, Taps
  <2> QED
    BY <1>3, <1>4, <2>1, <2>2 DEF RestRows, Taps
<1>10. \A j \in Taps : RowTrue(j)'
  BY <1>3, <1>4, <1>6, RowStays DEF OInv
<1>11. CarriedOutInOrder'
  BY <1>3, <1>4, <1>6, OrderStays DEF OInv
<1> QED
  BY <1>0, <1>3, <1>5, <1>7, <1>8, <1>9, <1>10, <1>11, ServerWrites

LEMMA UnheardKeeps ==
    ASSUME OInv, NEW h \in Handlers, Unheard(h)
    PROVE  OInv'
<1>0. PICK q, p : q = NoRequest /\ p = phone
  OBVIOUS
<1>1. /\ request[h].type # "none" /\ ~request[h].heard
      /\ request' = [request EXCEPT ![h] = q]
      /\ UNCHANGED <<log, phone, shown, applied, judged, cited, artifact, session, wiped, trouble>>
  BY <1>0 DEF Unheard
<1>2. LogRows /\ RestRows /\ q \in RequestRow(Taps) /\ Carries(q) /\ p \in PhoneRow(Taps)
  BY <1>0, RestingIs, NothingCarried DEF OInv, Rows, PhoneRows
<1>3. Grows => Carries(q)'
  BY <1>2, CarriesStay
<1>4. Grows => CarriedOutInOrder' /\ \A j \in Taps : RowTrue(j)'
  <2>1. Grows => \A j \in Taps : RowTrue(j)'
    BY <1>1, <1>2, RowStays DEF OInv
  <2> QED
    BY <1>1, <1>2, <2>1, OrderStays DEF OInv
<1>5. WaitsFor'
  <2>1. phone.call # h
    BY <1>1, OutboxAssumption DEF OInv, WaitsFor
  <2> QED
    BY <1>1, <2>1 DEF OInv, Rows, RequestRows, WaitsFor
<1>6. Grows => SettlesTruth(p)' /\ PhotosTodo(p)'
  <2>1. PhotosTodo(p)'
    BY <1>0, <1>1, <1>2, PhotosStay DEF OInv
  <2> QED
    BY <1>0, <1>2, <2>1, TruthStays DEF OInv
<1>7. RestRows'
  BY <1>1, <1>2 DEF RestRows, Taps
<1>8. phone' = p
  BY <1>0, <1>1
<1> QED
  BY <1>1, <1>2, <1>3, <1>4, <1>5, <1>6, <1>7, <1>8, RequestMoves

LEMMA AnswerKeeps ==
    ASSUME OInv, NEW h \in Handlers, Answer(h)
    PROVE  OInv'
<1>0. PICK r, q : r = request[h] /\ q = NoRequest
  OBVIOUS
<1>1. /\ phone.at = "waiting" /\ phone.call = h /\ DOMAIN r.results = r.items
      /\ request' = [request EXCEPT ![h] = q]
      /\ UNCHANGED <<log, shown, applied, judged, cited, artifact, session, wiped, trouble>>
  BY <1>0 DEF Answer, Answered
<1>2. /\ LogRows /\ RestRows /\ q \in RequestRow(Taps) /\ Carries(q)
      /\ phone \in PhoneRow(Taps)
  BY <1>0, RestingIs, NothingCarried DEF OInv, Rows, PhoneRows
<1>3. /\ r \in RequestRow(Taps) /\ Carries(r)
      /\ r.type \in {"sync", "scans", "single"} /\ r.items = phone.todo
  <2>1. h # Nothing
    BY OutboxAssumption
  <2>2. r \in RequestRow(Taps) /\ Carries(r) /\ r.type # "none" /\ r.items = phone.todo
    BY <1>0, <1>1, <2>1 DEF OInv, Rows, RequestRows, WaitsFor
  <2> QED
    BY <2>2 DEF RequestRow
<1>4. Grows => Carries(q)'
  BY <1>2, CarriesStay
<1>5. Grows => CarriedOutInOrder' /\ \A j \in Taps : RowTrue(j)'
  <2>1. Grows => \A j \in Taps : RowTrue(j)'
    BY <1>1, <1>2, RowStays DEF OInv
  <2> QED
    BY <1>1, <1>2, <2>1, OrderStays DEF OInv
<1>6. RestRows'
  BY <1>1, <1>2 DEF RestRows, Taps
<1>7. CASE phone' = Rest
  <2>1. PICK p : p = Rest
    OBVIOUS
  <2>2. phone.synced \in BOOLEAN
    BY <1>2 DEF PhoneRow
  <2>3. /\ p \in PhoneRow(Taps) /\ p.call = Nothing
        /\ \/ p.at \in {"idle", "actions", "refresh"}
           \/ p.at = "uploads" /\ p.todo \subseteq Photos("SLOTTED")
    BY <2>1, <2>2, RestIs
  <2>4. SettlesTruth(p)' /\ PhotosTodo(p)' /\ phone' = p
    BY <1>1, <1>7, <2>1, <2>3, GoesOn
  <2>5. WaitsFor'
    BY <2>3, <2>4 DEF WaitsFor
  <2> QED
    BY <1>1, <1>2, <1>4, <1>5, <1>6, <2>3, <2>4, <2>5, RequestMoves
<1>8. CASE phone' # Rest
  <2>1. PICK at, routes, res :
          /\ at = AfterAnswer(r.type) /\ res = r.results
          /\ routes = (IF r.type = "sync" THEN applied ELSE {})
    OBVIOUS
  <2>2. PICK p : p = [phone EXCEPT !.at = at, !.call = Nothing, !.results = res, !.routes = routes]
    OBVIOUS
  <2>3. /\ phone' = p
        /\ ~(r.type = "sync" /\ "ENVELOPE" \in {r.results[i] : i \in DOMAIN r.results})
    BY <1>0, <1>8, <2>1, <2>2 DEF Answer, Answered
  <2>4. /\ at \in {"saving", "settling"} /\ (at = "saving" <=> r.type = "sync")
        /\ routes \subseteq Taps
    BY <1>2, <2>1 DEF AfterAnswer, RestRows
  <2>5. /\ p \in PhoneRow(Taps) /\ p.call = Nothing /\ p.at = at
        /\ p.todo = r.items /\ p.results = res /\ p.routes = routes
    <3>1. res \in AnswersOf(Taps)
      BY <1>3, <2>1 DEF RequestRow
    <3> QED
      BY <1>2, <1>3, <2>2, <2>4, <3>1 DEF PhoneRow
  <2>6. WaitsFor'
    BY <2>3, <2>4, <2>5 DEF WaitsFor
  <2>7. ASSUME NEW i \in r.items
        PROVE  /\ res[i] = "ACCEPTED" => i \in applied
               /\ res[i] # "RETRY" => i \in judged
               /\ res[i] \in {"REFUSED", "ENVELOPE"} => ~IsPhysical(log[i].kind)
               /\ r.type # "sync" => log[i].kind \notin SyncKinds
    <3>1. AnswerTrue(r.type, i, res[i])
      BY <1>1, <1>3, <2>1 DEF Carries, AnswersTrue
    <3>2. CASE r.type = "sync"
      <4>1. res[i] # "ENVELOPE"
        BY <1>1, <2>1, <2>3, <3>2
      <4> QED
        BY <3>1, <3>2, <4>1 DEF AnswerTrue
    <3>3. CASE r.type # "sync"
      <4>1. log[i].kind \notin SyncKinds /\ ~IsPhysical(log[i].kind)
        BY <1>3, <3>3, PickupsFit
      <4> QED
        BY <3>1, <3>3, <4>1 DEF AnswerTrue
    <3> QED
      BY <3>2, <3>3
  <2>8. SettlesTruth(p)'
    <3>1. at = "saving" => \A i \in r.items : OutcomeTrue(res[i], i, routes)'
      BY <1>1, <2>1, <2>4, <2>7 DEF OutcomeTrue
    <3>2. at = "settling" => \A i \in r.items : OutcomeTrue(res[i], i, shown)'
      BY <1>1, <2>4, <2>7 DEF OutcomeTrue
    <3> QED
      BY <2>5, <3>1, <3>2 DEF SettlesTruth
  <2>9. PhotosTodo(p)'
    BY <2>4, <2>5 DEF PhotosTodo
  <2> QED
    BY <1>1, <1>2, <1>4, <1>5, <1>6, <2>3, <2>5, <2>6, <2>8, <2>9, RequestMoves
<1> QED
  BY <1>7, <1>8

LEMMA OInvKept == OInv /\ [OutboxNext]_outboxVars => OInv'
<1> SUFFICES ASSUME OInv, [OutboxNext]_outboxVars PROVE OInv'
  OBVIOUS
<1>1. CASE UNCHANGED outboxVars
  <2>1. PICK p : p = phone
    OBVIOUS
  <2>2. p \in PhoneRow(Taps) /\ SettlesTruth(p) /\ PhotosTodo(p) /\ LogRows
    BY <2>1 DEF OInv, Rows, PhoneRows
  <2>3. RestRows'
    BY <1>1 DEF OInv, Rows, RestRows, Taps, outboxVars, server
  <2>4. UNCHANGED <<log, phone, shown, request, applied, judged, cited, artifact>>
    BY <1>1 DEF outboxVars, server
  <2>5. (Grows => SettlesTruth(p)') /\ PhotosTodo(p)'
    BY <2>2, <2>4, TruthStays, PhotosStay
  <2> QED
    BY <2>1, <2>2, <2>3, <2>4, <2>5, PhoneMoves
<1>2. CASE FlushStep
  BY <1>2, StartFlushKeeps, PresignKeeps, SendBatchKeeps, AnswerKeeps, SaveRoutesKeeps,
     SettleKeeps, ActionsDoneKeeps, RefreshKeeps, UploadKeeps, FlushDoneKeeps DEF FlushStep
<1>3. ASSUME NEW h \in Handlers, ServerStep(h) \/ RefuseEnvelope(h) PROVE OInv'
  BY <1>3, JudgeKeeps, JudgePickupKeeps, UnheardKeeps, RefuseEnvelopeKeeps DEF ServerStep
<1>4. CASE LeaveChecked \/ SignOut \/ PresignLost \/ GiveUp
  BY <1>4, LeaveCheckedKeeps, LeaveKeeps, PresignLostKeeps, GiveUpKeeps
<1>5. ASSUME NEW k \in Kinds, NEW s \in SubjectsOf(k), NEW photo \in BOOLEAN, Tap(k, s, photo)
      PROVE  OInv'
  BY <1>5, TapKeeps
<1>6. ASSUME NEW i \in Taps, Dismiss(i) PROVE OInv'
  BY <1>6, DismissKeeps
<1> QED
  BY <1>1, <1>2, <1>3, <1>4, <1>5, <1>6 DEF OutboxNext

LEMMA OInvHolds == OutboxSpec => []OInv
<1>1. OutboxInit => OInv
  BY OInvStarts
<1>2. OInv /\ [OutboxNext]_outboxVars => OInv'
  BY OInvKept
<1> QED
  BY <1>1, <1>2, PTL DEF OutboxSpec, OutboxSafety

-----------------------------------------------------------------------------
(* Theorems *)

\* The actions of the phone, its flush and what the server has of it have their
\* types, and the phone waits for a call that the server knows it waits for.
THEOREM OutboxTypes == OutboxSpec => []OutboxTypeOK
<1>1. OInv => OutboxTypeOK
  <2> SUFFICES ASSUME OInv PROVE OutboxTypeOK
    OBVIOUS
  <2>1. LogRows /\ PhoneRows /\ RestRows /\ WaitsFor
    BY DEF OInv, Rows
  <2> QED
    BY <2>1 DEF OutboxTypeOK, LogRows, TapRow, Subjects, PhoneRows, PhoneRow, RestRows, WaitsFor
<1> QED
  BY <1>1, OInvHolds, PTL

\* The order of a parcel (driver-sync.service): with any number of parcels, calls
\* at once, lost answers, repeated requests and missing photos, the server carries
\* nothing out before it has ruled on what the driver did to that parcel before.
THEOREM NothingIsReordered == OutboxSpec => []CarriedOutInOrder
<1>1. OInv => CarriedOutInOrder
  BY DEF OInv
<1> QED
  BY <1>1, OInvHolds, PTL

\* What the phone shows as done (settle of the outbox) the server carried out, and
\* the manifest already says so; a delivery in the street is never just refused.
THEOREM DoneWasDone == OutboxSpec => []DoneIsRecorded
<1>1. OInv => DoneIsRecorded
  BY DEF OInv, RowTrue, DoneIsRecorded
<1> QED
  BY <1>1, OInvHolds, PTL

\* The phone drops the file of a proof only when the server holds it, and a
\* delivery with a slot is carried out with its photo cited.
THEOREM ProofsSurvive == OutboxSpec => []ProofIsKept
<1>1. OInv => ProofIsKept
  BY DEF OInv, RowTrue, HasSlot, ProofIsKept
<1> QED
  BY <1>1, OInvHolds, PTL
=============================================================================
