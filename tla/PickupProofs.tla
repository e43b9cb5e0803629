---------------------------- MODULE PickupProofs ----------------------------
(***************************************************************************)
(* Every scan counts once, and a parcel is picked up once, by somebody who *)
(* scanned it: for any parcels, pickups, logins, askers and workers.       *)
(***************************************************************************)
EXTENDS Pickup, FunctionTheorems, FiniteSetTheorems, TLAPS

-----------------------------------------------------------------------------
(* The inductive invariant *)

PickupColumns == {"status", "collector", "estimated", "actual"}
ScanStates == {"EXPECTED", "SCANNED", "MISSING"}
Link == [scan : ScanStates, by : Users \cup {Nobody}]
ScanEvents == [pickup : Pickups, parcel : Parcels, collector : Users,
               driver : Drivers \cup {Nobody}]
Records == {"assigned", "picked_up"}

Shapes ==
    /\ parcel \in [Parcels -> [status : Statuses, holder : Users \cup {Nobody}]]
    /\ used \subseteq (DOMAIN scans) \X Records
    /\ pickup = [r \in Pickups |-> pickup[r]]
    /\ \A r \in Pickups : pickup[r] = [k \in PickupColumns |-> pickup[r][k]]
    /\ link = [r \in Pickups |-> link[r]]
    /\ \A r \in Pickups : DOMAIN link[r] \subseteq Parcels /\ link[r] \in [DOMAIN link[r] -> Link]
    /\ scans \in Seq(ScanEvents)

\* What a request has read and what a worker has in hand is there.
Hands ==
    /\ asker = [a \in Askers |-> asker[a]]
    /\ \A a \in Askers : asker[a].parcels \subseteq Parcels
    /\ worker = [w \in Workers |-> worker[w]]
    /\ \A w \in Workers : worker[w] # Idle =>
          worker[w] \in [event : DOMAIN scans, next : Records]

\* The scans of the links and the events of the outbox are the same.
ScansMatch ==
    /\ \A e \in DOMAIN scans :
          LET r == scans[e].pickup
              s == scans[e].parcel
          IN s \in Scanned(r) /\ link[r][s].by = scans[e].collector
    /\ \A e, f \in DOMAIN scans :
          scans[e].pickup = scans[f].pickup /\ scans[e].parcel = scans[f].parcel => e = f
    /\ \A r \in Pickups : \A s \in Scanned(r) :
          \E e \in DOMAIN scans : scans[e].pickup = r /\ scans[e].parcel = s

\* A run that is over has counted its scans; one that is not yet has no links.
RunsCount ==
    \A r \in Pickups :
        /\ pickup[r].status \in {"COLLECTED", "COMPLETED"} =>
              /\ pickup[r].actual = Cardinality(Scanned(r))
              /\ \A s \in DOMAIN link[r] : link[r][s].scan # "EXPECTED"
        /\ pickup[r].status = "none" => DOMAIN link[r] = {}

\* The scan whose event picked the parcel up.
PickedUpBy(e, s) == scans[e].parcel = s /\ <<e, "picked_up">> \in used

\* A parcel still at the merchant's is nobody's.
TakenOnce ==
    /\ \A s \in Parcels :
          /\ parcel[s].holder = Nobody <=> \A e \in DOMAIN scans : ~PickedUpBy(e, s)
          /\ \A e, f \in DOMAIN scans : PickedUpBy(e, s) /\ PickedUpBy(f, s) => e = f
          /\ \A e \in DOMAIN scans : PickedUpBy(e, s) => parcel[s].holder = scans[e].collector
          /\ parcel[s].status \in {"CREATED", "ASSIGNED"} => parcel[s].holder = Nobody

IInv == Shapes /\ Hands /\ ScansMatch /\ RunsCount /\ TakenOnce

-----------------------------------------------------------------------------
(* From the invariant to the properties *)

\* A set of which any two members are equal has at most one.
LEMMA AtMostOne ==
    ASSUME NEW S, \A x, y \in S : x = y
    PROVE  Cardinality(S) = IF S = {} THEN 0 ELSE 1
  <1>1. CASE S = {}
    BY <1>1, FS_EmptySet
  <1>2. CASE S # {}
    <2>1. PICK x : S = {x}
      BY <1>2
    <2> QED
      BY <1>2, <2>1, FS_Singleton
  <1> QED
    BY <1>1, <1>2

LEMMA InvariantAddsUp == IInv => ScansAddUp
  <1> SUFFICES ASSUME IInv PROVE ScansAddUp
    OBVIOUS
  <1>1. ASSUME NEW r \in Pickups, NEW s \in Parcels
        PROVE  Cardinality({e \in DOMAIN scans : scans[e].pickup = r /\ scans[e].parcel = s})
                  = IF s \in Scanned(r) THEN 1 ELSE 0
    <2> DEFINE S == {e \in DOMAIN scans : scans[e].pickup = r /\ scans[e].parcel = s}
    <2>1. \A e, f \in S : e = f
      BY DEF IInv, ScansMatch
    <2>2. S # {} <=> s \in Scanned(r)
      BY DEF IInv, ScansMatch
    <2> HIDE DEF S
    <2>3. Cardinality(S) = IF s \in Scanned(r) THEN 1 ELSE 0
      BY <2>1, <2>2, AtMostOne
    <2> QED
      BY <2>3 DEF S
  <1> QED
    BY <1>1 DEF IInv, RunsCount, ScansAddUp

LEMMA InvariantPicksOnce == IInv => PickedUpOnceByAScanner
  <1> SUFFICES ASSUME IInv, NEW s \in Parcels
      PROVE  LET events == {e \in DOMAIN scans :
                                scans[e].parcel = s /\ <<e, "picked_up">> \in used}
             IN /\ Cardinality(events) <= 1
                /\ parcel[s].holder = Nobody <=> events = {}
                /\ \A e \in events : parcel[s].holder = scans[e].collector
                /\ parcel[s].holder # Nobody =>
                     \E r \in Pickups : s \in Scanned(r) /\ link[r][s].by = parcel[s].holder
    BY DEF PickedUpOnceByAScanner
  <1> DEFINE events == {e \in DOMAIN scans : scans[e].parcel = s /\ <<e, "picked_up">> \in used}
  <1>1. \A e, f \in events : e = f
    BY DEF IInv, TakenOnce, PickedUpBy
  <1>2. parcel[s].holder = Nobody <=> events = {}
    BY DEF IInv, TakenOnce, PickedUpBy
  <1>3. \A e \in events : parcel[s].holder = scans[e].collector
    BY DEF IInv, TakenOnce, PickedUpBy
  <1>4. ASSUME parcel[s].holder # Nobody
        PROVE  \E r \in Pickups : s \in Scanned(r) /\ link[r][s].by = parcel[s].holder
    <2>1. PICK e \in events : TRUE
      BY <1>2, <1>4
    <2>2. scans[e] \in ScanEvents
      BY DEF IInv, Shapes
    <2>3. scans[e].pickup \in Pickups
      BY <2>2 DEF ScanEvents
    <2> QED
      BY <1>3, <2>3 DEF IInv, ScansMatch
  <1> HIDE DEF events
  <1>5. Cardinality(events) <= 1
    <2>1. Cardinality(events) \in {0, 1}
      BY <1>1, AtMostOne
    <2> QED
      BY <2>1
  <1> QED
    BY <1>2, <1>3, <1>4, <1>5 DEF events

-----------------------------------------------------------------------------
(* The parcel's own transitions *)

\* Only an assigned parcel is picked up, only a created or assigned one is
\* assigned, and nothing else a pickup sees leads back to either status.
LEMMA PickupMoves ==
    ASSUME NEW s \in Parcels, NEW type \in Records \cup {"cancelled", "arrived_at_hub"},
           parcel[s].status \in Statuses, Legal(s, type)
    PROVE  /\ TargetStatus(type, parcel[s].status) \in Statuses
           /\ type = "picked_up" =>
                /\ parcel[s].status = "ASSIGNED"
                /\ TargetStatus(type, parcel[s].status) = "PICKED_UP"
           /\ TargetStatus(type, parcel[s].status) \in {"CREATED", "ASSIGNED"} =>
                parcel[s].status \in {"CREATED", "ASSIGNED"}
  <1>1. CASE type = "assigned"
    <2>1. TargetStatus(type, parcel[s].status) = "ASSIGNED"
      BY <1>1 DEF TargetStatus
    <2>2. <<parcel[s].status, "ASSIGNED">> \in Permitted
      BY <1>1, <2>1 DEF Legal, CheckTransition, Annotations
    <2> QED
      BY <1>1, <2>1, <2>2 DEF Permitted, Statuses
  <1>2. CASE type = "picked_up"
    <2>1. TargetStatus(type, parcel[s].status) = "PICKED_UP"
      BY <1>2 DEF TargetStatus
    <2>2. <<parcel[s].status, "PICKED_UP">> \in Permitted
      BY <1>2, <2>1 DEF Legal, CheckTransition, Annotations
    <2> QED
      BY <1>2, <2>1, <2>2 DEF Permitted, Statuses
  <1>3. CASE type = "cancelled"
    BY <1>3 DEF TargetStatus, Statuses, TerminalStatuses
  <1>4. CASE type = "arrived_at_hub"
    BY <1>4 DEF TargetStatus, Statuses
  <1> QED
    BY <1>1, <1>2, <1>3, <1>4 DEF Records

\* An event names a pickup, a parcel and a login.
LEMMA EventShape ==
    ASSUME Shapes, NEW e \in DOMAIN scans
    PROVE  scans[e].pickup \in Pickups /\ scans[e].parcel \in Parcels /\ scans[e].collector \in Users
  <1>1. scans[e] \in ScanEvents
    BY DEF Shapes
  <1> QED
    BY <1>1 DEF ScanEvents

\* The shapes of the pickups and of their links, when the rest stays as it is.
LEMMA ShapesStep ==
    ASSUME Shapes, UNCHANGED <<parcel, used, scans>>, NEW r \in Pickups,
           pickup' = [q \in Pickups |-> pickup'[q]],
           \A q \in Pickups : q # r => pickup'[q] = pickup[q],
           pickup'[r] = [k \in PickupColumns |-> pickup'[r][k]],
           link' = [q \in Pickups |-> link'[q]],
           \A q \in Pickups : q # r => link'[q] = link[q],
           DOMAIN link'[r] \subseteq Parcels, link'[r] \in [DOMAIN link'[r] -> Link]
    PROVE  Shapes'
  <1>1. parcel' \in [Parcels -> [status : Statuses, holder : Users \cup {Nobody}]]
    BY DEF Shapes
  <1>2. used' \subseteq (DOMAIN scans') \X Records
    BY DEF Shapes
  <1>3. ASSUME NEW q \in Pickups PROVE pickup'[q] = [k \in PickupColumns |-> pickup'[q][k]]
    <2>1. CASE q = r
      BY <2>1
    <2>2. CASE q # r
      BY <2>2 DEF Shapes
    <2> QED
      BY <2>1, <2>2
  <1>4. ASSUME NEW q \in Pickups
        PROVE  DOMAIN link'[q] \subseteq Parcels /\ link'[q] \in [DOMAIN link'[q] -> Link]
    <2>1. CASE q = r
      BY <2>1
    <2>2. CASE q # r
      BY <2>2 DEF Shapes
    <2> QED
      BY <2>1, <2>2
  <1>5. scans' \in Seq(ScanEvents)
    BY DEF Shapes
  <1> QED
    BY <1>1, <1>2, <1>3, <1>4, <1>5 DEF Shapes

-----------------------------------------------------------------------------
(* Steps that write neither a parcel, a pickup nor the outbox *)

LEMMA HandStep ==
    ASSUME IInv, Hands', UNCHANGED <<parcel, used, pickup, link, scans>>
    PROVE  IInv'
  <1>1. Shapes'
    BY DEF IInv, Shapes
  <1>2. \A r : Scanned(r)' = Scanned(r)
    BY DEF Scanned
  <1>3. ScansMatch'
    BY <1>2 DEF IInv, ScansMatch
  <1>4. RunsCount'
    BY <1>2 DEF IInv, RunsCount
  <1>5. TakenOnce'
    BY DEF IInv, TakenOnce, PickedUpBy
  <1> QED
    BY <1>1, <1>3, <1>4, <1>5 DEF IInv

LEMMA AskerStep ==
    ASSUME IInv, NEW a \in Askers, NEW parcels \in SUBSET Parcels,
           AskExplicit(a, parcels) \/ AskReady(a) \/ RequestRollsBack(a)
    PROVE  IInv'
  <1>1. PICK q : q.parcels \subseteq Parcels /\ asker' = [asker EXCEPT ![a] = q]
    <2>1. CASE AskExplicit(a, parcels)
      BY <2>1 DEF AskExplicit
    <2>2. CASE AskReady(a)
      BY <2>2 DEF AskReady, Ready
    <2>3. CASE RequestRollsBack(a)
      BY <2>3 DEF RequestRollsBack, NoRequest
    <2> QED
      BY <2>1, <2>2, <2>3
  <1>2. UNCHANGED <<parcel, used, pickup, link, scans, worker>>
    BY DEF AskExplicit, AskReady, RequestRollsBack
  <1>3. Hands'
    BY <1>1, <1>2 DEF IInv, Hands
  <1> QED
    BY <1>2, <1>3, HandStep

LEMMA DriverStep ==
    ASSUME IInv, NEW d, NEW status, SetDriverStatus(d, status)
    PROVE  IInv'
  <1>1. UNCHANGED <<parcel, used, pickup, link, scans, worker, asker>>
    BY DEF SetDriverStatus
  <1>2. Hands'
    BY <1>1 DEF IInv, Hands
  <1> QED
    BY <1>1, <1>2, HandStep

LEMMA WorkerStep ==
    ASSUME IInv, NEW w \in Workers, NEW e, Deliver(w, e) \/ WorkerDies(w)
    PROVE  IInv'
  <1>1. UNCHANGED <<parcel, used, pickup, link, scans, asker>>
    BY DEF Deliver, WorkerDies
  <1>2. Hands'
    <2>1. CASE WorkerDies(w)
      BY <1>1, <2>1 DEF IInv, Hands, WorkerDies
    <2>2. CASE Deliver(w, e)
      <3> DEFINE record == NextRecord(parcel[scans[e].parcel].status)
      <3>1. e \in DOMAIN scans /\ record \in Records \cup {"nothing"}
        BY <2>2 DEF Deliver, NextRecord, Records
      <3>2. \/ UNCHANGED worker
            \/ record # "nothing" /\ worker' = [worker EXCEPT ![w] = [event |-> e, next |-> record]]
        BY <2>2 DEF Deliver
      <3> HIDE DEF record
      <3> QED
        BY <1>1, <3>1, <3>2 DEF IInv, Hands
    <2> QED
      BY <2>1, <2>2
  <1> QED
    BY <1>1, <1>2, HandStep

-----------------------------------------------------------------------------
(* Steps of a pickup that scan nothing *)

\* No scan is of a pickup that was never inserted, so its links may be written.
LEMMA InsertStep ==
    ASSUME IInv, NEW a \in Askers, NEW r \in Pickups, InsertRequest(a, r)
    PROVE  IInv'
  <1> DEFINE parcels == asker[a].parcels
  <1>1. parcels \subseteq Parcels /\ pickup[r].status = "none" /\ DOMAIN link[r] = {}
    BY DEF IInv, Hands, RunsCount, InsertRequest
  <1>2. /\ link' = [link EXCEPT ![r] = [s \in parcels |-> Expected]]
        /\ asker' = [asker EXCEPT ![a] = NoRequest]
        /\ UNCHANGED <<parcel, used, scans, worker>>
    BY DEF InsertRequest
  <1>3. /\ pickup' = [q \in Pickups |-> pickup'[q]]
        /\ \A q \in Pickups : q # r => pickup'[q] = pickup[q]
        /\ pickup'[r] = [k \in PickupColumns |-> pickup'[r][k]]
        /\ pickup'[r].status = "REQUESTED"
    BY DEF IInv, Shapes, InsertRequest, PickupColumns
  <1> HIDE DEF parcels
  <1>4. /\ link' = [q \in Pickups |-> link'[q]]
        /\ \A q \in Pickups : q # r => link'[q] = link[q]
        /\ link'[r] = [s \in parcels |-> Expected]
    BY <1>2 DEF IInv, Shapes
  <1>5. Expected \in Link /\ Expected.scan # "SCANNED"
    BY DEF Expected, Link, ScanStates
  <1>6. Shapes'
    <2>1. DOMAIN link'[r] \subseteq Parcels /\ link'[r] \in [DOMAIN link'[r] -> Link]
      BY <1>1, <1>4, <1>5
    <2> QED
      BY <1>2, <1>3, <1>4, <2>1, ShapesStep DEF IInv
  <1>7. Hands'
    BY <1>2 DEF IInv, Hands, NoRequest
  <1>8. \A q \in Pickups : q # r => Scanned(q)' = Scanned(q)
    BY <1>4 DEF Scanned
  <1>9. Scanned(r) = {} /\ Scanned(r)' = {}
    BY <1>1, <1>4, <1>5 DEF Scanned
  <1>10. ScansMatch'
    <2>1. \A e \in DOMAIN scans : scans[e].pickup \in Pickups /\ scans[e].pickup # r
      BY <1>9, EventShape DEF IInv, ScansMatch
    <2>2. \A q \in Pickups : Scanned(q)' = Scanned(q)
      BY <1>8, <1>9
    <2>3. \A q \in Pickups : q # r => \A s : link'[q][s].by = link[q][s].by
      BY <1>4
    <2> QED
      BY <1>2, <2>1, <2>2, <2>3 DEF IInv, ScansMatch
  <1>11. RunsCount'
    BY <1>3, <1>4, <1>8 DEF IInv, RunsCount
  <1>12. TakenOnce'
    BY <1>2 DEF IInv, TakenOnce, PickedUpBy
  <1> QED
    BY <1>6, <1>7, <1>10, <1>11, <1>12 DEF IInv

\* A status moves along PickupTransitions: a run completes after it was counted.
LEMMA StatusStep ==
    ASSUME IInv, NEW r \in Pickups, NEW u, NEW to \in {"ACCEPTED", "COMPLETED", "CANCELLED"},
           Transition(r, to) \/ AssignTo(r, u)
    PROVE  IInv'
  <1>1. UNCHANGED <<parcel, used, link, asker, scans, worker>>
    BY DEF Transition, AssignTo
  <1>2. /\ pickup' = [q \in Pickups |-> pickup'[q]]
        /\ \A q \in Pickups : q # r => pickup'[q] = pickup[q]
        /\ pickup'[r] = [k \in PickupColumns |-> pickup'[r][k]]
        /\ pickup'[r].actual = pickup[r].actual
        /\ pickup'[r].status \in {"ACCEPTED", "COMPLETED", "CANCELLED", "ASSIGNED"}
        /\ pickup'[r].status = "COMPLETED" => pickup[r].status = "COLLECTED"
    <2>1. CASE Transition(r, to)
      <3>1. to = "COMPLETED" => pickup[r].status = "COLLECTED"
        BY <2>1 DEF Transition, CanPickupTransition, PickupTransitions
      <3>2. pickup' = [pickup EXCEPT ![r].status = to]
        BY <2>1 DEF Transition
      <3> QED
        BY <3>1, <3>2 DEF IInv, Shapes, PickupColumns
    <2>2. CASE AssignTo(r, u)
      <3>1. pickup' = [pickup EXCEPT ![r].status = "ASSIGNED", ![r].collector = u]
        BY <2>2 DEF AssignTo
      <3> QED
        BY <3>1 DEF IInv, Shapes, PickupColumns
    <2> QED
      BY <2>1, <2>2
  <1>3. Shapes'
    <2>1. /\ link' = [q \in Pickups |-> link'[q]]
          /\ DOMAIN link'[r] \subseteq Parcels /\ link'[r] \in [DOMAIN link'[r] -> Link]
      BY <1>1 DEF IInv, Shapes
    <2> QED
      BY <1>1, <1>2, <2>1, ShapesStep DEF IInv
  <1>4. Hands'
    BY <1>1 DEF IInv, Hands
  <1>5. \A q : Scanned(q)' = Scanned(q)
    BY <1>1 DEF Scanned
  <1>6. ScansMatch'
    BY <1>1, <1>5 DEF IInv, ScansMatch
  <1>7. RunsCount'
    BY <1>1, <1>2, <1>5 DEF IInv, RunsCount
  <1>8. TakenOnce'
    BY <1>1 DEF IInv, TakenOnce, PickedUpBy
  <1> QED
    BY <1>3, <1>4, <1>6, <1>7, <1>8 DEF IInv

\* Collecting settles what nobody scanned and touches no scan.
LEMMA CollectStep ==
    ASSUME IInv, NEW r \in Pickups, NEW u, Collect(r, u)
    PROVE  IInv'
  <1> DEFINE Settle(s) == IF link[r][s].scan = "EXPECTED"
                          THEN [link[r][s] EXCEPT !.scan = "MISSING"] ELSE link[r][s]
  <1>1. UNCHANGED <<parcel, used, asker, scans, worker>>
    BY DEF Collect
  <1>2. /\ pickup' = [q \in Pickups |-> pickup'[q]]
        /\ \A q \in Pickups : q # r => pickup'[q] = pickup[q]
        /\ pickup'[r] = [k \in PickupColumns |-> pickup'[r][k]]
        /\ pickup'[r].status = "COLLECTED"
        /\ pickup'[r].actual = Cardinality(Scanned(r))
    BY DEF IInv, Shapes, Collect, PickupColumns
  <1>3. /\ link' = [q \in Pickups |-> link'[q]]
        /\ \A q \in Pickups : q # r => link'[q] = link[q]
        /\ link'[r] = [s \in DOMAIN link[r] |-> Settle(s)]
    BY DEF IInv, Shapes, Collect
  <1>4. ASSUME NEW s \in DOMAIN link[r]
        PROVE  /\ Settle(s) \in Link
               /\ Settle(s).scan # "EXPECTED"
               /\ Settle(s).scan = "SCANNED" <=> link[r][s].scan = "SCANNED"
               /\ Settle(s).by = link[r][s].by
    <2>1. link[r][s] \in Link
      BY DEF IInv, Shapes
    <2> QED
      BY <2>1 DEF Link, ScanStates
  <1> HIDE DEF Settle
  <1>5. Shapes'
    <2>1. DOMAIN link[r] \subseteq Parcels
      BY DEF IInv, Shapes
    <2>2. DOMAIN link'[r] \subseteq Parcels /\ link'[r] \in [DOMAIN link'[r] -> Link]
      BY <1>3, <1>4, <2>1
    <2> QED
      BY <1>1, <1>2, <1>3, <2>2, ShapesStep DEF IInv
  <1>6. Hands'
    BY <1>1 DEF IInv, Hands
  <1>7. \A q \in Pickups : Scanned(q)' = Scanned(q)
    BY <1>3, <1>4 DEF Scanned
  <1>8. \A q \in Pickups : \A s \in Scanned(q) : link'[q][s].by = link[q][s].by
    BY <1>3, <1>4 DEF Scanned
  <1>9. \A e \in DOMAIN scans : scans[e].pickup \in Pickups
    BY EventShape DEF IInv
  <1>10. ScansMatch'
    BY <1>1, <1>7, <1>8, <1>9 DEF IInv, ScansMatch
  <1>11. RunsCount'
    BY <1>2, <1>3, <1>4, <1>7 DEF IInv, RunsCount
  <1>12. TakenOnce'
    BY <1>1 DEF IInv, TakenOnce, PickedUpBy
  <1> QED
    BY <1>5, <1>6, <1>10, <1>11, <1>12 DEF IInv

-----------------------------------------------------------------------------
(* Steps of the parcels *)

LEMMA RecordStep ==
    ASSUME Shapes, NEW s \in Parcels, NEW type \in Records \cup {"cancelled", "arrived_at_hub"},
           NEW holder \in Users \cup {Nobody}, Record(s, type, holder)
    PROVE  /\ parcel' \in [Parcels -> [status : Statuses, holder : Users \cup {Nobody}]]
           /\ \A x \in Parcels : x # s => parcel'[x] = parcel[x]
           /\ type = "picked_up" =>
                /\ parcel[s].status = "ASSIGNED"
                /\ parcel'[s].status = "PICKED_UP" /\ parcel'[s].holder = holder
           /\ type # "picked_up" => parcel'[s].holder = parcel[s].holder
           /\ parcel'[s].status \in {"CREATED", "ASSIGNED"} =>
                parcel[s].status \in {"CREATED", "ASSIGNED"}
  <1> DEFINE to == TargetStatus(type, parcel[s].status)
             whose == IF type = "picked_up" THEN holder ELSE parcel[s].holder
  <1>1. parcel[s] \in [status : Statuses, holder : Users \cup {Nobody}]
    BY DEF Shapes
  <1>2. /\ to \in Statuses
        /\ type = "picked_up" => parcel[s].status = "ASSIGNED" /\ to = "PICKED_UP"
        /\ to \in {"CREATED", "ASSIGNED"} => parcel[s].status \in {"CREATED", "ASSIGNED"}
    BY <1>1, PickupMoves DEF Record
  <1>3. parcel' = [parcel EXCEPT ![s].status = to, ![s].holder = whose]
    BY DEF Record
  <1>4. whose \in Users \cup {Nobody}
    BY <1>1
  <1> HIDE DEF to
  <1>5. parcel'[s] = [status |-> to, holder |-> whose]
    BY <1>1, <1>3 DEF Shapes
  <1>6. \A x \in Parcels : x # s => parcel'[x] = parcel[x]
    BY <1>3 DEF Shapes
  <1>7. parcel' \in [Parcels -> [status : Statuses, holder : Users \cup {Nobody}]]
    BY <1>1, <1>2, <1>3, <1>4 DEF Shapes
  <1> QED
    BY <1>2, <1>5, <1>6, <1>7

LEMMA MoveStep ==
    ASSUME IInv, NEW s \in Parcels, NEW type \in {"assigned", "cancelled", "arrived_at_hub"},
           MoveParcel(s, type)
    PROVE  IInv'
  <1>1. UNCHANGED <<used, pickup, link, asker, scans, worker>>
    BY DEF MoveParcel
  <1>2. /\ parcel' \in [Parcels -> [status : Statuses, holder : Users \cup {Nobody}]]
        /\ \A x \in Parcels : x # s => parcel'[x] = parcel[x]
        /\ parcel'[s].holder = parcel[s].holder
        /\ parcel'[s].status \in {"CREATED", "ASSIGNED"} =>
             parcel[s].status \in {"CREATED", "ASSIGNED"}
    BY RecordStep DEF IInv, MoveParcel, Records
  <1>3. Shapes'
    BY <1>1, <1>2 DEF IInv, Shapes
  <1>4. Hands'
    BY <1>1 DEF IInv, Hands
  <1>5. \A q : Scanned(q)' = Scanned(q)
    BY <1>1 DEF Scanned
  <1>6. ScansMatch'
    BY <1>1, <1>5 DEF IInv, ScansMatch
  <1>7. RunsCount'
    BY <1>1, <1>5 DEF IInv, RunsCount
  <1>8. TakenOnce'
    BY <1>1, <1>2 DEF IInv, TakenOnce, PickedUpBy
  <1> QED
    BY <1>3, <1>4, <1>6, <1>7, <1>8 DEF IInv

\* A parcel is picked up out of ASSIGNED, where no event had picked it up.
LEMMA RecordNextStep ==
    ASSUME PickupAssumption, IInv, NEW w \in Workers, RecordNext(w)
    PROVE  IInv'
  <1> DEFINE e == worker[w].event
             type == worker[w].next
             s == scans[e].parcel
             new == <<e, type>>
  <1>1. e \in DOMAIN scans /\ type \in Records
    BY DEF IInv, Hands, RecordNext
  <1>2. s \in Parcels /\ scans[e].collector \in Users /\ scans[e].collector # Nobody
    BY <1>1, EventShape DEF IInv, PickupAssumption
  <1>3. UNCHANGED <<pickup, link, asker, scans>>
    BY DEF RecordNext
  <1>4. Hands'
    <2>1. worker' = [v \in Workers |-> worker'[v]]
      BY DEF IInv, Hands, RecordNext
    <2>2. \A v \in Workers : v # w => worker'[v] = worker[v]
      BY DEF IInv, Hands, RecordNext
    <2>3. worker'[w] = Idle \/ worker'[w] = [worker[w] EXCEPT !.next = "picked_up"]
      BY DEF IInv, Hands, RecordNext
    <2>4. worker[w] \in [event : DOMAIN scans, next : Records]
      BY DEF IInv, Hands, RecordNext
    <2>5. worker'[w] = Idle \/ worker'[w] \in [event : DOMAIN scans, next : Records]
      BY <2>3, <2>4 DEF Records
    <2> QED
      BY <1>3, <2>1, <2>2, <2>5 DEF IInv, Hands
  <1>5. \/ UNCHANGED <<parcel, used>>
        \/ Record(s, type, scans[e].collector) /\ used' = used \cup {new}
    BY DEF RecordNext
  <1>6. CASE UNCHANGED <<parcel, used>>
    BY <1>3, <1>4, <1>6, HandStep
  <1>7. CASE Record(s, type, scans[e].collector) /\ used' = used \cup {new}
    <2> DEFINE holder == scans[e].collector
    <2>1. Shapes
      BY DEF IInv
    <2>2. type \in Records \cup {"cancelled", "arrived_at_hub"} /\ holder \in Users \cup {Nobody}
      BY <1>1, <1>2
    <2>3. new \in (DOMAIN scans) \X Records
      BY <1>1
    <2>4. /\ new[1] = e /\ new[2] = type
          /\ \A f : <<f, "picked_up">> = new <=> f = e /\ type = "picked_up"
      OBVIOUS
    <2>5. Record(s, type, holder) /\ holder \in Users /\ holder # Nobody /\ scans[e].parcel = s
      BY <1>2, <1>7
    <2> HIDE DEF new, type, s, e
    <2>6. /\ parcel' \in [Parcels -> [status : Statuses, holder : Users \cup {Nobody}]]
          /\ \A x \in Parcels : x # s => parcel'[x] = parcel[x]
          /\ type = "picked_up" =>
               /\ parcel[s].status = "ASSIGNED"
               /\ parcel'[s].status = "PICKED_UP" /\ parcel'[s].holder = holder
          /\ type # "picked_up" => parcel'[s].holder = parcel[s].holder
          /\ parcel'[s].status \in {"CREATED", "ASSIGNED"} =>
               parcel[s].status \in {"CREATED", "ASSIGNED"}
      BY <1>2, <2>1, <2>2, <2>5, RecordStep
    <2>7. Shapes'
      BY <1>3, <1>7, <2>3, <2>6 DEF IInv, Shapes
    <2>8. \A q : Scanned(q)' = Scanned(q)
      BY <1>3 DEF Scanned
    <2>9. ScansMatch'
      BY <1>3, <2>8 DEF IInv, ScansMatch
    <2>10. RunsCount'
      BY <1>3, <2>8 DEF IInv, RunsCount
    <2>11. ASSUME NEW f, NEW x
           PROVE  PickedUpBy(f, x)' <=>
                    PickedUpBy(f, x) \/ (f = e /\ x = s /\ type = "picked_up")
      BY <1>3, <1>7, <2>4, <2>5 DEF PickedUpBy
    <2>12. ASSUME NEW x \in Parcels
           PROVE  /\ parcel'[x].holder = Nobody <=> \A f \in DOMAIN scans : ~PickedUpBy(f, x)'
                  /\ \A f, g \in DOMAIN scans : PickedUpBy(f, x)' /\ PickedUpBy(g, x)' => f = g
                  /\ \A f \in DOMAIN scans : PickedUpBy(f, x)' => parcel'[x].holder = scans[f].collector
                  /\ parcel'[x].status \in {"CREATED", "ASSIGNED"} => parcel'[x].holder = Nobody
      <3>1. /\ parcel[x].holder = Nobody <=> \A f \in DOMAIN scans : ~PickedUpBy(f, x)
            /\ \A f, g \in DOMAIN scans : PickedUpBy(f, x) /\ PickedUpBy(g, x) => f = g
            /\ \A f \in DOMAIN scans : PickedUpBy(f, x) => parcel[x].holder = scans[f].collector
            /\ parcel[x].status \in {"CREATED", "ASSIGNED"} => parcel[x].holder = Nobody
        BY DEF IInv, TakenOnce
      <3>2. CASE x = s /\ type = "picked_up"
        <4>1. \A f \in DOMAIN scans : ~PickedUpBy(f, x)
          BY <2>6, <3>1, <3>2
        <4>2. \A f \in DOMAIN scans : PickedUpBy(f, x)' <=> f = e
          BY <2>11, <3>2, <4>1
        <4> QED
          BY <1>1, <2>5, <2>6, <3>2, <4>2
      <3>3. CASE ~(x = s /\ type = "picked_up")
        <4>1. \A f \in DOMAIN scans : PickedUpBy(f, x)' <=> PickedUpBy(f, x)
          BY <2>11, <3>3
        <4>2. /\ parcel'[x].holder = parcel[x].holder
              /\ parcel'[x].status \in {"CREATED", "ASSIGNED"} =>
                    parcel[x].status \in {"CREATED", "ASSIGNED"}
          BY <2>6, <3>3
        <4> QED
          BY <3>1, <4>1, <4>2
      <3> QED
        BY <3>2, <3>3
    <2>13. TakenOnce'
      BY <1>3, <2>12 DEF TakenOnce
    <2> QED
      BY <1>4, <2>7, <2>9, <2>10, <2>13 DEF IInv
  <1> QED
    BY <1>5, <1>6, <1>7

-----------------------------------------------------------------------------
(* The scan *)

\* The sequence of a finite set lists every member once.
LEMMA SeqOfFiniteSet ==
    ASSUME NEW S, IsFiniteSet(S)
    PROVE  /\ SetToSeq(S) \in Seq(S)
           /\ \A i, j \in DOMAIN SetToSeq(S) : SetToSeq(S)[i] = SetToSeq(S)[j] => i = j
           /\ \A x \in S : \E i \in DOMAIN SetToSeq(S) : SetToSeq(S)[i] = x
  <1> DEFINE n == Cardinality(S)
             q == SetToSeq(S)
  <1>1. n \in Nat /\ ExistsBijection(1..n, S)
    BY FS_CardinalityType
  <1>2. \E f \in [1..n -> S] : IsInjective(f)
    BY <1>1 DEF ExistsBijection, Bijection, Injection
  <1>3. q \in [1..n -> S] /\ IsInjective(q)
    BY <1>2 DEF SetToSeq
  <1> HIDE DEF q, n
  <1>4. IsFiniteSet(1..n) /\ Cardinality(1..n) = n
    BY <1>1, FS_Interval
  <1>5. q \in Injection(1..n, S)
    BY <1>3 DEF Injection
  <1>6. q \in Surjection(1..n, S)
    BY <1>4, <1>5, FS_Injection DEF n
  <1>7. q \in Seq(S)
    BY <1>1, <1>3
  <1>8. \A i, j \in DOMAIN q : q[i] = q[j] => i = j
    BY <1>3 DEF IsInjective
  <1>9. \A x \in S : \E i \in DOMAIN q : q[i] = x
    BY <1>3, <1>6 DEF Surjection
  <1> QED
    BY <1>7, <1>8, <1>9 DEF q

\* The events a batch of barcodes appends.
Batch(r, u, barcodes) == SetToSeq({EventOfScan(r, s, u) : s \in Fresh(r, barcodes)})

\* They are one for every parcel that nobody had scanned.
LEMMA BatchEvents ==
    ASSUME PickupAssumption, Shapes, NEW r \in Pickups, NEW u \in Users, NEW barcodes
    PROVE  LET q == Batch(r, u, barcodes)
           IN /\ q \in Seq(ScanEvents)
              /\ \A i \in DOMAIN q : /\ q[i].pickup = r /\ q[i].collector = u
                                      /\ q[i].parcel \in Fresh(r, barcodes)
              /\ \A i, j \in DOMAIN q : q[i].parcel = q[j].parcel => i = j
              /\ \A s \in Fresh(r, barcodes) : \E i \in DOMAIN q : q[i].parcel = s
  <1> DEFINE q == Batch(r, u, barcodes)
             new == Fresh(r, barcodes)
             E == {EventOfScan(r, s, u) : s \in new}
             f == [s \in new |-> EventOfScan(r, s, u)]
  <1>1. new \subseteq Parcels
    BY DEF Fresh, Shapes
  <1>2. DriverIdOfUser(u) \in Drivers \cup {Nobody}
    BY DEF DriverIdOfUser
  <1>3. \A s \in new : /\ EventOfScan(r, s, u) \in ScanEvents
                        /\ EventOfScan(r, s, u).pickup = r
                        /\ EventOfScan(r, s, u).parcel = s
                        /\ EventOfScan(r, s, u).collector = u
    BY <1>1, <1>2 DEF EventOfScan, ScanEvents
  <1> HIDE DEF new
  <1>4. IsFiniteSet(new)
    BY <1>1, FS_Subset DEF PickupAssumption
  <1>5. f \in Surjection(new, E)
    BY DEF Surjection
  <1>6. IsFiniteSet(E)
    BY <1>4, <1>5, FS_Surjection
  <1>7. E \subseteq ScanEvents
    BY <1>3
  <1>8. \A x \in E : /\ x.pickup = r /\ x.collector = u /\ x.parcel \in new
                     /\ x = EventOfScan(r, x.parcel, u)
    BY <1>3
  <1>9. \A s \in new : \E x \in E : x.parcel = s
    BY <1>3
  <1>10. q = SetToSeq(E)
    BY DEF new, Batch
  <1> HIDE DEF E, f, q
  <1>11. /\ q \in Seq(E)
         /\ \A i, j \in DOMAIN q : q[i] = q[j] => i = j
         /\ \A x \in E : \E i \in DOMAIN q : q[i] = x
    <2>1. /\ SetToSeq(E) \in Seq(E)
          /\ \A i, j \in DOMAIN SetToSeq(E) : SetToSeq(E)[i] = SetToSeq(E)[j] => i = j
          /\ \A x \in E : \E i \in DOMAIN SetToSeq(E) : SetToSeq(E)[i] = x
      BY <1>6, SeqOfFiniteSet, Zenon
    <2> QED
      BY <1>10, <2>1, Zenon
  <1>12. \A i \in DOMAIN q : q[i] \in E
    BY <1>11
  <1>13. q \in Seq(ScanEvents)
    BY <1>7, <1>11
  <1>14. \A i \in DOMAIN q : /\ q[i].pickup = r /\ q[i].collector = u
                              /\ q[i].parcel \in new
    BY <1>8, <1>12
  <1>15. \A i, j \in DOMAIN q : q[i].parcel = q[j].parcel => i = j
    BY <1>8, <1>11, <1>12
  <1>16. ASSUME NEW s \in new PROVE \E i \in DOMAIN q : q[i].parcel = s
    <2>1. PICK x \in E : x.parcel = s
      BY <1>9
    <2>2. PICK i \in DOMAIN q : q[i] = x
      BY <1>11
    <2> QED
      BY <2>1, <2>2
  <1> QED
    BY <1>13, <1>14, <1>15, <1>16 DEF new, q

\* A scan appends an event for every link it marks, and marks none twice.
LEMMA ScanStep ==
    ASSUME PickupAssumption, IInv, NEW r \in Pickups, NEW u \in Users, NEW barcodes,
           Scan(r, u, barcodes)
    PROVE  IInv'
  <1> DEFINE new == Fresh(r, barcodes)
             q == Batch(r, u, barcodes)
             n == Len(scans)
             Mark(s) == IF s \in new THEN [scan |-> "SCANNED", by |-> u] ELSE link[r][s]
  <1>1. Shapes /\ scans \in Seq(ScanEvents)
    BY DEF IInv, Shapes
  <1>2. /\ q \in Seq(ScanEvents)
        /\ \A i \in DOMAIN q : q[i].pickup = r /\ q[i].collector = u /\ q[i].parcel \in new
        /\ \A i, j \in DOMAIN q : q[i].parcel = q[j].parcel => i = j
        /\ \A s \in new : \E i \in DOMAIN q : q[i].parcel = s
    BY <1>1, BatchEvents
  <1>3. new \subseteq DOMAIN link[r] /\ new \cap Scanned(r) = {}
    BY DEF Fresh, Scanned
  <1>4. scans' = scans \o q
    BY DEF Scan, Batch
  <1>5. /\ UNCHANGED <<parcel, used, pickup, asker, worker>>
        /\ pickup[r].status = "ASSIGNED"
    BY DEF Scan, LockAssigned
  <1>6. /\ link' = [p \in Pickups |-> link'[p]]
        /\ \A p \in Pickups : p # r => link'[p] = link[p]
        /\ link'[r] = [s \in DOMAIN link[r] |-> Mark(s)]
    BY DEF IInv, Shapes, Scan
  <1> HIDE DEF new
  <1>7. /\ scans' \in Seq(ScanEvents)
        /\ n \in Nat /\ DOMAIN scans = 1..n /\ DOMAIN q = 1..Len(q) /\ Len(q) \in Nat
        /\ DOMAIN scans' = 1..(n + Len(q))
        /\ \A e \in DOMAIN scans : scans'[e] = scans[e]
        /\ \A i \in DOMAIN q : scans'[n + i] = q[i]
    BY <1>1, <1>2, <1>4
  <1>8. /\ DOMAIN scans \subseteq DOMAIN scans'
        /\ \A i \in DOMAIN q : n + i \in DOMAIN scans'
        /\ \A e \in DOMAIN scans' \ DOMAIN scans : \E i \in DOMAIN q : e = n + i
    <2>1. ASSUME NEW e \in DOMAIN scans', e \notin DOMAIN scans
          PROVE  \E i \in DOMAIN q : e = n + i
      <3>1. e \in Int /\ e > n /\ e <= n + Len(q)
        BY <1>7, <2>1
      <3>2. e - n \in DOMAIN q /\ e = n + (e - n)
        BY <1>7, <3>1
      <3> QED
        BY <3>2
    <2>2. DOMAIN scans \subseteq DOMAIN scans' /\ \A i \in DOMAIN q : n + i \in DOMAIN scans'
      BY <1>7
    <2> QED
      BY <2>1, <2>2
  <1>9. /\ \A s \in new : Mark(s) \in Link /\ Mark(s).scan = "SCANNED" /\ Mark(s).by = u
        /\ \A s \in DOMAIN link[r] \ new : Mark(s) = link[r][s]
        /\ \A s \in DOMAIN link[r] : link[r][s] \in Link
    BY DEF Link, ScanStates, IInv, Shapes
  <1> HIDE DEF Mark
  <1>10. \A p \in Pickups : p # r => Scanned(p)' = Scanned(p)
    BY <1>6 DEF Scanned
  <1>11. Scanned(r)' = Scanned(r) \cup new
    BY <1>3, <1>6, <1>9 DEF Scanned
  <1>12. \A p \in Pickups : \A s \in Scanned(p) : link'[p][s] = link[p][s]
    BY <1>3, <1>6, <1>9 DEF Scanned
  <1>13. \A s \in new : link'[r][s].by = u
    BY <1>3, <1>6, <1>9
  <1>14. Shapes'
    <2>1. DOMAIN link[r] \subseteq Parcels /\ \A s \in DOMAIN link[r] : Mark(s) \in Link
      BY <1>1, <1>9 DEF Shapes
    <2>2. DOMAIN link'[r] \subseteq Parcels /\ link'[r] \in [DOMAIN link'[r] -> Link]
      BY <1>6, <2>1
    <2>3. ASSUME NEW p \in Pickups
          PROVE  DOMAIN link'[p] \subseteq Parcels /\ link'[p] \in [DOMAIN link'[p] -> Link]
      <3>1. CASE p = r
        BY <2>2, <3>1
      <3>2. CASE p # r
        BY <1>1, <1>6, <3>2 DEF Shapes
      <3> QED
        BY <3>1, <3>2
    <2>4. used' \subseteq (DOMAIN scans') \X Records
      <3>1. (DOMAIN scans) \X Records \subseteq (DOMAIN scans') \X Records
        BY <1>8
      <3> QED
        BY <1>1, <1>5, <3>1 DEF Shapes
    <2>5. /\ parcel' \in [Parcels -> [status : Statuses, holder : Users \cup {Nobody}]]
          /\ pickup' = [p \in Pickups |-> pickup'[p]]
          /\ \A p \in Pickups : pickup'[p] = [k \in PickupColumns |-> pickup'[p][k]]
      BY <1>1, <1>5 DEF Shapes
    <2> QED
      BY <1>6, <1>7, <2>3, <2>4, <2>5 DEF Shapes
  <1>15. Hands'
    <2>1. ASSUME NEW w \in Workers, worker'[w] # Idle
          PROVE  worker'[w] \in [event : DOMAIN scans', next : Records]
      <3>1. worker[w] \in [event : DOMAIN scans, next : Records]
        BY <1>5, <2>1 DEF IInv, Hands
      <3> QED
        BY <1>5, <1>8, <3>1
    <2> QED
      BY <1>5, <2>1 DEF IInv, Hands
  <1>16. ScansMatch'
    <2>1. ASSUME NEW e \in DOMAIN scans
          PROVE  /\ scans'[e].pickup \in Pickups
                 /\ scans'[e].parcel \in Scanned(scans[e].pickup)
                 /\ link[scans[e].pickup][scans[e].parcel].by = scans'[e].collector
                 /\ scans'[e] = scans[e]
      BY <1>1, <1>7, EventShape DEF IInv, ScansMatch
    <2>2. ASSUME NEW e \in DOMAIN scans', e \notin DOMAIN scans
          PROVE  \E i \in DOMAIN q : /\ e = n + i /\ scans'[e] = q[i]
                                     /\ scans'[e].pickup = r /\ scans'[e].collector = u
                                     /\ scans'[e].parcel \in new
      <3>1. PICK i \in DOMAIN q : e = n + i
        BY <1>8, <2>2
      <3>2. scans'[e] = q[i]
        BY <1>7, <3>1
      <3> QED
        BY <1>2, <3>1, <3>2
    <2>3. ASSUME NEW e \in DOMAIN scans', NEW p, p = scans'[e].pickup,
                 NEW s, s = scans'[e].parcel
          PROVE  s \in Scanned(p)' /\ link'[p][s].by = scans'[e].collector
      <3>1. CASE e \in DOMAIN scans
        BY <1>10, <1>11, <1>12, <2>1, <2>3, <3>1
      <3>2. CASE e \notin DOMAIN scans
        BY <1>11, <1>13, <2>2, <2>3, <3>2
      <3> QED
        BY <3>1, <3>2
    <2>4. ASSUME NEW e \in DOMAIN scans', NEW f \in DOMAIN scans',
                 scans'[e].pickup = scans'[f].pickup, scans'[e].parcel = scans'[f].parcel
          PROVE  e = f
      <3>1. CASE e \in DOMAIN scans /\ f \in DOMAIN scans
        BY <2>1, <2>4, <3>1 DEF IInv, ScansMatch
      <3>2. CASE e \notin DOMAIN scans /\ f \notin DOMAIN scans
        BY <1>2, <2>2, <2>4, <3>2
      <3>3. CASE e \in DOMAIN scans /\ f \notin DOMAIN scans
        BY <1>3, <2>1, <2>2, <2>4, <3>3
      <3>4. CASE e \notin DOMAIN scans /\ f \in DOMAIN scans
        BY <1>3, <2>1, <2>2, <2>4, <3>4
      <3> QED
        BY <3>1, <3>2, <3>3, <3>4
    <2>5. ASSUME NEW p \in Pickups, NEW s \in Scanned(p)'
          PROVE  \E e \in DOMAIN scans' : scans'[e].pickup = p /\ scans'[e].parcel = s
      <3>1. CASE s \in Scanned(p)
        <4>1. PICK e \in DOMAIN scans : scans[e].pickup = p /\ scans[e].parcel = s
          BY <3>1 DEF IInv, ScansMatch
        <4> QED
          BY <1>7, <1>8, <4>1
      <3>2. CASE s \notin Scanned(p)
        <4>1. p = r /\ s \in new
          BY <1>10, <1>11, <2>5, <3>2
        <4>2. PICK i \in DOMAIN q : q[i].parcel = s
          BY <1>2, <4>1
        <4> QED
          BY <1>2, <1>7, <1>8, <4>1, <4>2
      <3> QED
        BY <3>1, <3>2
    <2> QED
      BY <2>3, <2>4, <2>5 DEF ScansMatch
  <1>17. RunsCount'
    BY <1>5, <1>6, <1>10 DEF IInv, RunsCount
  <1>18. TakenOnce'
    <2>1. ASSUME NEW e, NEW s
          PROVE  /\ PickedUpBy(e, s) /\ e \in DOMAIN scans => PickedUpBy(e, s)'
                 /\ PickedUpBy(e, s)' => e \in DOMAIN scans /\ PickedUpBy(e, s)
      <3>1. <<e, "picked_up">> \in used => e \in DOMAIN scans
        BY <1>1 DEF Shapes
      <3> QED
        BY <1>5, <1>7, <3>1 DEF PickedUpBy
    <2> QED
      BY <1>5, <1>7, <1>8, <2>1 DEF IInv, TakenOnce
  <1> QED
    BY <1>14, <1>15, <1>16, <1>17, <1>18 DEF IInv

-----------------------------------------------------------------------------
(* The invariant and the theorems *)

LEMMA InvariantHolds == PickupSafety => []IInv
  <1>1. PickupInit => IInv
    <2> SUFFICES ASSUME PickupInit PROVE IInv
      OBVIOUS
    <2> USE DEF PickupInit
    <2>1. Shapes
      <3>1. [status |-> "CREATED", holder |-> Nobody]
              \in [status : Statuses, holder : Users \cup {Nobody}]
        BY DEF Statuses
      <3>2. scans \in Seq(ScanEvents)
        OBVIOUS
      <3>3. \A r \in Pickups : DOMAIN link[r] \subseteq Parcels /\ link[r] \in [DOMAIN link[r] -> Link]
        OBVIOUS
      <3>4. \A r \in Pickups : pickup[r] = [k \in PickupColumns |-> pickup[r][k]]
        BY DEF NoPickup, PickupColumns
      <3> QED
        BY <3>1, <3>2, <3>3, <3>4 DEF Shapes
    <2>2. Hands
      BY DEF Hands, NoRequest
    <2>3. \A r \in Pickups : Scanned(r) = {}
      BY DEF Scanned
    <2>4. ScansMatch
      BY <2>3 DEF ScansMatch
    <2>5. RunsCount
      BY DEF RunsCount, NoPickup
    <2>6. TakenOnce
      BY DEF TakenOnce
    <2> QED
      BY <2>1, <2>2, <2>4, <2>5, <2>6 DEF IInv
  <1>2. ASSUME IInv, [PickupNext]_pickupVars PROVE IInv'
    <2>1. ASSUME NEW a \in Askers, NEW parcels \in SUBSET Parcels,
                 AskExplicit(a, parcels) \/ AskReady(a) \/ RequestRollsBack(a)
          PROVE  IInv'
      BY <1>2, <2>1, AskerStep
    <2>2. ASSUME NEW a \in Askers, NEW r \in Pickups, InsertRequest(a, r) PROVE IInv'
      BY <1>2, <2>2, InsertStep
    <2>3. ASSUME NEW r \in Pickups, Accept(r) \/ Complete(r) \/ CancelPickup(r) PROVE IInv'
      <3>1. PICK to \in {"ACCEPTED", "COMPLETED", "CANCELLED"} : Transition(r, to)
        BY <2>3 DEF Accept, Complete, CancelPickup
      <3> QED
        BY <1>2, <3>1, StatusStep
    <2>4. ASSUME NEW r \in Pickups, NEW u, AssignTo(r, u) PROVE IInv'
      BY <1>2, <2>4, StatusStep
    <2>5. ASSUME NEW r \in Pickups, NEW u \in Users, NEW barcodes, Scan(r, u, barcodes) PROVE IInv'
      BY <1>2, <2>5, PickupAssumption, ScanStep
    <2>6. ASSUME NEW r \in Pickups, NEW u, Collect(r, u) PROVE IInv'
      BY <1>2, <2>6, CollectStep
    <2>7. ASSUME NEW d, NEW status, SetDriverStatus(d, status) PROVE IInv'
      BY <1>2, <2>7, DriverStep
    <2>8. ASSUME NEW s \in Parcels, NEW type \in {"assigned", "cancelled", "arrived_at_hub"},
                 MoveParcel(s, type)
          PROVE  IInv'
      BY <1>2, <2>8, MoveStep
    <2>9. ASSUME NEW w \in Workers, RecordNext(w) PROVE IInv'
      BY <1>2, <2>9, PickupAssumption, RecordNextStep
    <2>10. ASSUME NEW w \in Workers, NEW e, Deliver(w, e) \/ WorkerDies(w) PROVE IInv'
      BY <1>2, <2>10, WorkerStep
    <2>11. CASE UNCHANGED pickupVars
      <3>1. UNCHANGED <<parcel, used, pickup, link, scans, asker, worker>>
        BY <2>11 DEF pickupVars
      <3>2. Hands'
        BY <1>2, <3>1 DEF IInv, Hands
      <3> QED
        BY <1>2, <3>1, <3>2, HandStep
    <2>12. CASE PickupNext
      BY <2>12, <2>1, <2>2, <2>3, <2>4, <2>5, <2>6, <2>7, <2>8, <2>9, <2>10
        DEF PickupNext, Assign, Claim
    <2> QED
      BY <1>2, <2>11, <2>12
  <1> QED
    BY <1>1, <1>2, PTL DEF PickupSafety

\* Every physical scan is one custody event, whatever the device repeats, and a
\* run that was collected counted what it took and left nothing expected.
THEOREM EveryScanCountsOnce == PickupSafety => []ScansAddUp
  BY InvariantHolds, InvariantAddsUp, PTL

\* A parcel is picked up at most once, by a login that scanned it, whatever
\* pickups share it and however often its scans are delivered.
THEOREM PickedUpOnce == PickupSafety => []PickedUpOnceByAScanner
  BY InvariantHolds, InvariantPicksOnce, PTL
=============================================================================
