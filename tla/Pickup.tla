------------------------------- MODULE Pickup -------------------------------
(***************************************************************************)
(* Pickup requests: a merchant asks, dispatch or a collector takes the     *)
(* run, every parcel is scanned at the merchant's door, and the scans      *)
(* reach the parcels through the outbox and a consumer.  Every command     *)
(* after the request locks the pickup's row and is one step; the request   *)
(* reads which parcels are free and inserts later; the consumer records    *)
(* two events of the parcel, each in its own transaction.                  *)
(***************************************************************************)
EXTENDS Integers, Sequences, FiniteSets, SequencesExt, ShipmentStatus

CONSTANTS
    Parcels, Pickups,
    Drivers,        \* drivers.id
    Users,          \* logins that may collect
    LoginOf,        \* drivers.user_id, or Nobody
    Askers,         \* callers of request
    Workers,        \* workers of the pickup-scan consumer group
    Nobody

ASSUME PickupAssumption ==
    /\ LoginOf \in [Drivers -> Users \cup {Nobody}] /\ Nobody \notin Users \cup Drivers
    /\ \A d, e \in Drivers : LoginOf[d] = LoginOf[e] /\ LoginOf[d] # Nobody => d = e
    /\ IsFiniteSet(Parcels)

VARIABLES
    parcel,         \* shipments, as far as a pickup moves them
    used,           \* idempotency keys of the consumer's commands
    driver,         \* drivers.status
    pickup,         \* pickup_requests
    link,           \* pickup_shipments: parcels of a pickup with their scan
    asker,          \* asker[a]: what a request has read
    scans,          \* the pickup.parcel_scanned events, in the order of the outbox
    handled,        \* indices of scans the consumer acknowledged
    worker          \* worker[w]: the event in hand and what is left to record

pickupVars == <<parcel, used, driver, pickup, link, asker, scans, handled, worker>>

-----------------------------------------------------------------------------
(* The request *)

Open(r) == pickup[r].status \notin {"none", "COMPLETED", "CANCELLED"}

Linked == UNION {DOMAIN link[r] : r \in {q \in Pickups : Open(q)}}

Ready == {s \in Parcels : parcel[s].status = "CREATED"}

NoRequest == [mode |-> "none", parcels |-> {}]

NoPickup == [status |-> "none", collector |-> Nobody, estimated |-> 0, actual |-> 0]

\* EXPLICIT: every named parcel is ready and in no open pickup, or the request
\* is refused.
AskExplicit(a, parcels) ==
    /\ asker[a] = NoRequest
    /\ parcels # {} /\ parcels \subseteq Ready \ Linked
    /\ asker' = [asker EXCEPT ![a] = [mode |-> "EXPLICIT", parcels |-> parcels]]
    /\ UNCHANGED <<parcel, used, driver, pickup, link, scans, handled, worker>>

\* MERCHANT_READY: whatever is ready and free, be it nothing.
AskReady(a) ==
    /\ asker[a] = NoRequest
    /\ asker' = [asker EXCEPT ![a] = [mode |-> "MERCHANT_READY", parcels |-> Ready \ Linked]]
    /\ UNCHANGED <<parcel, used, driver, pickup, link, scans, handled, worker>>

Expected == [scan |-> "EXPECTED", by |-> Nobody]

\* The pickup, its parcels and pickup.requested commit together.
InsertRequest(a, r) ==
    LET parcels == asker[a].parcels
    IN /\ asker[a] # NoRequest /\ pickup[r].status = "none"
       /\ pickup' = [pickup EXCEPT ![r].status = "REQUESTED",
                                   ![r].estimated = Cardinality(parcels)]
       /\ link' = [link EXCEPT ![r] = [s \in parcels |-> Expected]]
       /\ asker' = [asker EXCEPT ![a] = NoRequest]
       /\ UNCHANGED <<parcel, used, driver, scans, handled, worker>>

\* Two codes collide and the transaction starts again, or the call dies.
RequestRollsBack(a) ==
    /\ asker[a] # NoRequest
    /\ asker' = [asker EXCEPT ![a] = NoRequest]
    /\ UNCHANGED <<parcel, used, driver, pickup, link, scans, handled, worker>>

-----------------------------------------------------------------------------
(* The run *)

PickupTransitions ==
    {<<"REQUESTED", "ACCEPTED">>, <<"REQUESTED", "CANCELLED">>,
     <<"ACCEPTED", "ASSIGNED">>, <<"ACCEPTED", "CANCELLED">>,
     <<"ASSIGNED", "COLLECTED">>, <<"ASSIGNED", "CANCELLED">>,
     <<"COLLECTED", "COMPLETED">>}

CanPickupTransition(r, to) == <<pickup[r].status, to>> \in PickupTransitions

Transition(r, to) ==
    /\ CanPickupTransition(r, to)
    /\ pickup' = [pickup EXCEPT ![r].status = to]
    /\ UNCHANGED <<parcel, used, driver, link, asker, scans, handled, worker>>

Accept(r) == Transition(r, "ACCEPTED")
Complete(r) == Transition(r, "COMPLETED")
CancelPickup(r) == Transition(r, "CANCELLED")

AssignTo(r, u) ==
    /\ CanPickupTransition(r, "ASSIGNED")
    /\ pickup' = [pickup EXCEPT ![r].status = "ASSIGNED", ![r].collector = u]
    /\ UNCHANGED <<parcel, used, driver, link, asker, scans, handled, worker>>

\* Dispatch names an active driver who has a login.
Assign(r, d) ==
    /\ driver[d] = "ACTIVE" /\ LoginOf[d] # Nobody
    /\ AssignTo(r, LoginOf[d])

Claim(r, u) == AssignTo(r, u)

DriverIdOfUser(u) ==
    IF \E d \in Drivers : LoginOf[d] = u THEN CHOOSE d \in Drivers : LoginOf[d] = u
    ELSE Nobody

LockAssignedMutant(r, u) == pickup[r].collector = u

\* lockAssignedPickup and assertCollector.
LockAssigned(r, u) == pickup[r].status = "ASSIGNED" /\ pickup[r].collector = u

FreshMutant(r, barcodes) == barcodes \cap DOMAIN link[r]

\* The barcodes of the pickup that nobody scanned.  One that was is answered as
\* a replay, and one that is not of the pickup is refused.
Fresh(r, barcodes) ==
    {s \in barcodes \cap DOMAIN link[r] : link[r][s].scan # "SCANNED"}

EventOfScanMutant(r, s, u) ==
    [pickup |-> r, parcel |-> s, collector |-> u, driver |-> u]

\* Who scanned is a login; who holds the parcel is a driver, or nobody's record.
EventOfScan(r, s, u) ==
    [pickup |-> r, parcel |-> s, collector |-> u, driver |-> DriverIdOfUser(u)]

\* scanBatch: each item for itself, a barcode that comes twice as a replay of
\* the first; scan is a batch of one.
Scan(r, u, barcodes) ==
    LET new == Fresh(r, barcodes)
    IN /\ LockAssigned(r, u)
       /\ link' = [link EXCEPT ![r] = [s \in DOMAIN @ |->
                        IF s \in new THEN [scan |-> "SCANNED", by |-> u] ELSE @[s]]]
       /\ scans' = scans \o SetToSeq({EventOfScan(r, s, u) : s \in new})
       /\ UNCHANGED <<parcel, used, driver, pickup, asker, handled, worker>>

Scanned(r) == {s \in DOMAIN link[r] : link[r][s].scan = "SCANNED"}

\* A run without a scan needs a reason, which its collector can always give.
Collect(r, u) ==
    /\ CanPickupTransition(r, "COLLECTED")
    /\ pickup[r].collector = u
    /\ link' = [link EXCEPT ![r] = [s \in DOMAIN @ |->
                    IF @[s].scan = "EXPECTED" THEN [@[s] EXCEPT !.scan = "MISSING"] ELSE @[s]]]
    /\ pickup' = [pickup EXCEPT ![r].status = "COLLECTED",
                                ![r].actual = Cardinality(Scanned(r))]
    /\ UNCHANGED <<parcel, used, driver, asker, scans, handled, worker>>

\* activate, suspend and deactivate write the status by id.
SetDriverStatus(d, status) ==
    /\ driver' = [driver EXCEPT ![d] = status]
    /\ UNCHANGED <<parcel, used, pickup, link, asker, scans, handled, worker>>

-----------------------------------------------------------------------------
(* The parcels *)

LegalMutant(s, type) == TRUE

Legal(s, type) == CheckTransition(parcel[s].status, type) = "allowed"

\* One event of a parcel, under its row lock.
Record(s, type, holder) ==
    /\ Legal(s, type)
    /\ parcel' = [parcel EXCEPT ![s].status = TargetStatus(type, @),
                                ![s].holder = IF type = "picked_up" THEN holder ELSE @]

\* Dispatch, a hub or the merchant moves the parcel beside the pickup.
MoveParcel(s, type) ==
    /\ Record(s, type, Nobody)
    /\ UNCHANGED <<used, driver, pickup, link, asker, scans, handled, worker>>

Idle == [event |-> 0, next |-> "nothing"]

\* The answer of the handler to the status it reads, without a lock.
NextRecordMutant(status) ==
    CASE status = "CREATED" -> "assigned" [] OTHER -> "nothing"

NextRecord(status) ==
    CASE status = "CREATED" -> "assigned"
      [] status = "ASSIGNED" -> "picked_up"
      [] OTHER -> "nothing"

\* An event that is not acknowledged is delivered, to any worker, any number of
\* times.
Deliver(w, e) ==
    LET record == NextRecord(parcel[scans[e].parcel].status)
    IN /\ worker[w] = Idle /\ e \in DOMAIN scans \ handled
       /\ IF record = "nothing"
          THEN handled' = handled \cup {e} /\ UNCHANGED worker
          ELSE worker' = [worker EXCEPT ![w] = [event |-> e, next |-> record]]
               /\ UNCHANGED handled
       /\ UNCHANGED <<parcel, used, driver, pickup, link, asker, scans>>

\* recordEvent or recordPickupScan: a key that was used answers for its first
\* call; a transition that is not legal throws, and the event comes again.
RecordNext(w) ==
    LET e == worker[w].event
        type == worker[w].next
        key == <<e, type>>
        s == scans[e].parcel
        throws == key \notin used /\ ~Legal(s, type)
    IN /\ worker[w] # Idle
       /\ IF key \in used \/ throws
          THEN UNCHANGED <<parcel, used>>
          ELSE Record(s, type, scans[e].collector) /\ used' = used \cup {key}
       /\ worker' = [worker EXCEPT ![w] =
                IF throws \/ type = "picked_up" THEN Idle ELSE [@ EXCEPT !.next = "picked_up"]]
       /\ handled' = IF ~throws /\ type = "picked_up" THEN handled \cup {e} ELSE handled
       /\ UNCHANGED <<driver, pickup, link, asker, scans>>

WorkerDies(w) ==
    /\ worker[w] # Idle
    /\ worker' = [worker EXCEPT ![w] = Idle]
    /\ UNCHANGED <<parcel, used, driver, pickup, link, asker, scans, handled>>

-----------------------------------------------------------------------------
PickupInit ==
    /\ parcel = [s \in Parcels |-> [status |-> "CREATED", holder |-> Nobody]]
    /\ used = {}
    /\ driver = [d \in Drivers |-> "ACTIVE"]
    /\ pickup = [r \in Pickups |-> NoPickup]
    /\ link = [r \in Pickups |-> <<>>]
    /\ asker = [a \in Askers |-> NoRequest]
    /\ scans = <<>> /\ handled = {}
    /\ worker = [w \in Workers |-> Idle]

PickupNext ==
    \/ \E a \in Askers :
        \/ \E parcels \in SUBSET Parcels : AskExplicit(a, parcels)
        \/ AskReady(a) \/ RequestRollsBack(a)
        \/ \E r \in Pickups : InsertRequest(a, r)
    \/ \E r \in Pickups :
        \/ Accept(r) \/ Complete(r) \/ CancelPickup(r)
        \/ \E d \in Drivers : Assign(r, d)
        \/ \E u \in Users :
            Claim(r, u) \/ Collect(r, u) \/ \E barcodes \in SUBSET Parcels : Scan(r, u, barcodes)
    \/ \E d \in Drivers, status \in {"ACTIVE", "SUSPENDED"} : SetDriverStatus(d, status)
    \/ \E s \in Parcels, type \in {"assigned", "cancelled", "arrived_at_hub"} :
            MoveParcel(s, type)
    \/ \E w \in Workers :
        RecordNext(w) \/ WorkerDies(w) \/ \E e \in DOMAIN scans : Deliver(w, e)

PickupSafety == PickupInit /\ [][PickupNext]_pickupVars

\* The backbone delivers an event until it is acknowledged, and a worker that
\* comes back to its work again and again gets it done once between two deaths.
PickupSpec ==
    PickupSafety
    /\ \A w \in Workers : SF_pickupVars(RecordNext(w))
    /\ WF_pickupVars(\E v \in Workers, e \in DOMAIN scans : Deliver(v, e))

-----------------------------------------------------------------------------
(* Properties *)

\* Rows and workers have their types.
PickupTypeOK ==
    /\ parcel \in [Parcels -> [status : Statuses, holder : Users \cup {Nobody}]]
    /\ used \subseteq (DOMAIN scans) \X {"assigned", "picked_up"}
    /\ driver \in [Drivers -> {"ACTIVE", "SUSPENDED"}]
    /\ \A r \in Pickups :
        /\ pickup[r].status \in
                {"none", "REQUESTED", "ACCEPTED", "ASSIGNED", "COLLECTED", "COMPLETED", "CANCELLED"}
        /\ pickup[r].collector \in Users \cup {Nobody}
        /\ DOMAIN link[r] \subseteq Parcels
        /\ \A s \in DOMAIN link[r] :
            link[r][s] \in [scan : {"EXPECTED", "SCANNED", "MISSING"}, by : Users \cup {Nobody}]
    /\ \A e \in DOMAIN scans :
        scans[e] \in [pickup : Pickups, parcel : Parcels, collector : Users,
                      driver : Drivers \cup {Nobody}]
    /\ handled \subseteq DOMAIN scans
    /\ \A w \in Workers :
        worker[w] = Idle \/ worker[w] \in [event : DOMAIN scans, next : {"assigned", "picked_up"}]

\* One physical scan is one custody event, however often the device sends it,
\* and a closed run has settled every parcel and counted the ones it took.
ScansAddUp ==
    \A r \in Pickups :
        /\ \A s \in Parcels :
            Cardinality({e \in DOMAIN scans : scans[e].pickup = r /\ scans[e].parcel = s})
                = IF s \in Scanned(r) THEN 1 ELSE 0
        /\ pickup[r].status \in {"COLLECTED", "COMPLETED"} =>
            /\ pickup[r].actual = Cardinality(Scanned(r))
            /\ \A s \in DOMAIN link[r] : link[r][s].scan # "EXPECTED"

\* A parcel is picked up once, by somebody who scanned it, though two pickups
\* may have it, two workers may handle its scans at once, and every event may
\* come again.
PickedUpOnceByAScanner ==
    \A s \in Parcels :
        LET events == {e \in DOMAIN scans : scans[e].parcel = s /\ <<e, "picked_up">> \in used}
        IN /\ Cardinality(events) <= 1
           /\ parcel[s].holder = Nobody <=> events = {}
           /\ \A e \in events : parcel[s].holder = scans[e].collector
           /\ parcel[s].holder # Nobody =>
                \E r \in Pickups : s \in Scanned(r) /\ link[r][s].by = parcel[s].holder

\* Every scan reaches its parcel: in the end it has been picked up, or it had
\* left the merchant's hands or been cancelled before.
ScanReachesParcel ==
    \A s \in Parcels :
        (\E e \in DOMAIN scans : scans[e].parcel = s)
            ~> parcel[s].status \notin {"CREATED", "ASSIGNED"}

\* pickup.service says that a parcel can be in at most one live pickup.  Two
\* requests that both looked before either inserted put it in two.
OneLivePickup ==
    \A r, q \in Pickups : Open(r) /\ Open(q) /\ r # q => DOMAIN link[r] \cap DOMAIN link[q] = {}
=============================================================================
