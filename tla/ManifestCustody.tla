--------------------------- MODULE ManifestCustody --------------------------
(***************************************************************************)
(* Parcels that change hands at hubs: manifests with their items and       *)
(* discrepancies (ManifestService) and scans without one (HubScanService). *)
(* A manifest's own change is one transaction under its row lock.  The     *)
(* events of its parcels follow after it, a transaction each, judged from  *)
(* one earlier read of them all; so what an operator's call has left to    *)
(* record is in `call`, and everything else comes between.                 *)
(* The -Mutant operators are wrong on purpose: the code with one fault in  *)
(* it, to show that a property notices.  Nothing here uses them.           *)
(***************************************************************************)
EXTENDS ShipmentStatus, Naturals, FiniteSets

CONSTANTS
    Manifests,
    Types,        \* the manifest types that are opened
    Parcels,
    Hubs,         \* where parcels are scanned in without a manifest
    Operators,
    OtherEvents,  \* events that reach the parcels from drivers and routes
    MaxFaults,    \* bound: calls that die half-way
    Nobody        \* the scanner of an item that is still expected

ASSUME CustodyAssumption ==
    /\ Types \subseteq {"LINEHAUL", "DISPATCH", "RETURN", "TRANSFER"}
    /\ Manifests \cap Hubs = {} /\ Nobody \notin Operators
    /\ OtherEvents \subseteq EventTypes \ {"loaded", "departed", "arrived_at_hub"}
    /\ IsFiniteSet(Parcels) /\ MaxFaults \in Nat

VARIABLES
    manifest,  \* manifest[m]: its row, status "none" before it is opened
    items,     \* items[m]: who scanned each parcel on it
    disc,      \* disc[m]: the discrepancy of a parcel, unique by its barcode
    parcel,    \* parcel[p]: shipments.status
    facts,     \* the keys of the parcel events recorded here
    call,      \* call[o]: the call operator o is inside
    faults

vars == <<manifest, items, disc, parcel, facts, call, faults>>
rows == <<manifest, items, disc>>

OriginatesAtHub(m) == manifest[m].type # "RETURN"
TravelsInTransit(m) == manifest[m].type \in {"LINEHAUL", "TRANSFER"}
EntryEvent(m) == IF OriginatesAtHub(m) THEN "loaded" ELSE "arrived_at_hub"

\* canManifestTransition.
MayBecome(m, status) ==
    <<manifest[m].status, status>> \in
        {<<"OPEN", "SEALED">>, <<"SEALED", "IN_TRANSIT">>, <<"SEALED", "RECEIVED">>,
         <<"IN_TRANSIT", "RECEIVED">>, <<"RECEIVED", "RECONCILED">>}

Idle == [at |-> "idle"]
Adding(m, p, read) == [at |-> "adding", manifest |-> m, parcel |-> p, read |-> read]
Recording(at, m, type, left) == [at |-> at, manifest |-> m, type |-> type, left |-> left]
Booking(h, p) == [at |-> "booking", hub |-> h, parcel |-> p]

Enter(o, where) == call[o] = Idle /\ call' = [call EXCEPT ![o] = where]
Leave(o) == call' = [call EXCEPT ![o] = Idle]

-----------------------------------------------------------------------------
(* A manifest's own transactions *)

OpenManifest(m, type) ==
    /\ manifest[m].status = "none"
    /\ manifest' = [manifest EXCEPT ![m].status = "OPEN", ![m].type = type]
    /\ UNCHANGED <<items, disc, parcel, facts, call, faults>>

\* addItem reads the parcel first and locks the manifest after.
BeginAddItem(o, m, p) ==
    /\ manifest[m].status # "none"
    /\ Enter(o, Adding(m, p, parcel[p]))
    /\ UNCHANGED <<rows, parcel, facts, faults>>

AcceptsItemsMutant(m) == manifest[m].status \in {"OPEN", "SEALED"}

\* The guard of addItem, and the trigger of migration 0017.
AcceptsItems(m) == manifest[m].status = "OPEN"

CommitAddItem(o) ==
    /\ call[o].at = "adding"
    /\ LET m == call[o].manifest
           p == call[o].parcel
       IN IF /\ AcceptsItems(m)
             /\ CheckTransition(call[o].read, EntryEvent(m)) = "allowed"
             /\ p \notin DOMAIN items[m]
          THEN /\ items' = [items EXCEPT ![m] =
                              [q \in DOMAIN items[m] \cup {p} |-> IF q = p THEN Nobody ELSE items[m][q]]]
               /\ manifest' = [manifest EXCEPT ![m].itemCount = @ + 1]
          ELSE UNCHANGED <<items, manifest>>
    /\ Leave(o)
    /\ UNCHANGED <<disc, parcel, facts, faults>>

\* seal; only a manifest that starts at a hub records its parcels as loaded.
Seal(o, m) ==
    /\ MayBecome(m, "SEALED")
    /\ DOMAIN items[m] # {}
    /\ manifest' = [manifest EXCEPT ![m].status = "SEALED", ![m].itemCount = Cardinality(DOMAIN items[m])]
    /\ Enter(o, IF OriginatesAtHub(m) THEN Recording("listing", m, "loaded", DOMAIN items[m]) ELSE Idle)
    /\ UNCHANGED <<items, disc, parcel, facts, faults>>

Dispatch(o, m) ==
    /\ MayBecome(m, "IN_TRANSIT") /\ TravelsInTransit(m)
    /\ manifest' = [manifest EXCEPT ![m].status = "IN_TRANSIT"]
    /\ Enter(o, Recording("listing", m, "departed", DOMAIN items[m]))
    /\ UNCHANGED <<items, disc, parcel, facts, faults>>

ReceivableMutant(m) == manifest[m].status \in {"SEALED", "IN_TRANSIT", "RECEIVED"}

\* lockReceivable.
Receivable(m) == manifest[m].status \in {"SEALED", "IN_TRANSIT"}

\* Rows with one more discrepancy of the kind for each of the parcels that has
\* none: ON CONFLICT DO NOTHING.
Raised(m, parcels, kind) ==
    [p \in DOMAIN disc[m] \cup parcels |->
        IF p \in DOMAIN disc[m] THEN disc[m][p] ELSE [kind |-> kind, resolved |-> FALSE]]

AppliedMutant(m, o, batch) == {p \in batch : p \in DOMAIN items[m] => items[m][p] \in {Nobody, o}}

\* applyScan: the scans that are taken, those o sent before included; one that
\* another operator sent is a conflict.
Applied(m, o, batch) == {p \in batch \cap DOMAIN items[m] : items[m][p] \in {Nobody, o}}

\* receiveScan and receiveScanBatch, up to the commit.
ReceiveScan(o, m, batch) ==
    /\ batch # {}
    /\ Receivable(m)
    /\ items' = [items EXCEPT ![m] = [p \in DOMAIN @ |-> IF p \in batch /\ @[p] = Nobody THEN o ELSE @[p]]]
    /\ disc' = [disc EXCEPT ![m] = Raised(m, batch \ DOMAIN items[m], "UNEXPECTED")]
    /\ Enter(o, IF Applied(m, o, batch) = {} THEN Idle
                ELSE Recording("listing", m, "arrived_at_hub", Applied(m, o, batch)))
    /\ UNCHANGED <<manifest, parcel, facts, faults>>

\* finaliseReceipt: what is still expected is missing.
FinaliseReceipt(m) ==
    LET outstanding == {p \in DOMAIN items[m] : items[m][p] = Nobody}
        raised == Raised(m, outstanding, "MISSING")
    IN /\ MayBecome(m, "RECEIVED")
       /\ disc' = [disc EXCEPT ![m] = raised]
       /\ manifest' = [manifest EXCEPT ![m].status = "RECEIVED",
                                       ![m].discrepancyCount = Cardinality(DOMAIN raised)]
       /\ UNCHANGED <<items, parcel, facts, call, faults>>

ResolveDiscrepancy(m, p) ==
    /\ manifest[m].status = "RECEIVED"
    /\ p \in DOMAIN disc[m] /\ ~disc[m][p].resolved
    /\ disc' = [disc EXCEPT ![m][p].resolved = TRUE]
    /\ UNCHANGED <<manifest, items, parcel, facts, call, faults>>

UnresolvedMutant(m) == {p \in DOMAIN disc[m] : disc[m][p].kind = "MISSING" /\ ~disc[m][p].resolved}

\* countUnresolvedDiscrepancies.
Unresolved(m) == {p \in DOMAIN disc[m] : ~disc[m][p].resolved}

Reconcile(m) ==
    /\ MayBecome(m, "RECONCILED")
    /\ Unresolved(m) = {}
    /\ manifest' = [manifest EXCEPT ![m].status = "RECONCILED"]
    /\ UNCHANGED <<items, disc, parcel, facts, call, faults>>

-----------------------------------------------------------------------------
(* The events of the parcels *)

\* priorUse: a key names one fact about one parcel.
Recorded(key) == key \in facts

\* recordEvent under the parcel's lock: a replay changes nothing, and an event
\* the state machine refuses throws, which ends the call.
RecordEvent(o, p, type, key, next) ==
    /\ IF Recorded(key)
       THEN UNCHANGED <<parcel, facts>> /\ call' = [call EXCEPT ![o] = next]
       ELSE IF CheckTransition(parcel[p], type) = "allowed"
       THEN /\ parcel' = [parcel EXCEPT ![p] = TargetStatus(type, @)]
            /\ facts' = facts \cup {key}
            /\ call' = [call EXCEPT ![o] = next]
       ELSE UNCHANGED <<parcel, facts>> /\ Leave(o)
    /\ UNCHANGED <<rows, faults>>

\* loadShipments: the statuses are read once, and what cannot take the event
\* is skipped.
LoadShipments(o) ==
    /\ call[o].at = "listing"
    /\ LET left == {p \in call[o].left : CheckTransition(parcel[p], call[o].type) = "allowed"}
       IN call' = [call EXCEPT ![o] = IF left = {} THEN Idle
                                      ELSE Recording("recording", @.manifest, @.type, left)]
    /\ UNCHANGED <<rows, parcel, facts, faults>>

\* recordForEachItem and transferCustody, a parcel at a time.
RecordNext(o, p) ==
    /\ call[o].at = "recording" /\ p \in call[o].left
    /\ LET c == call[o]
           left == c.left \ {p}
       IN RecordEvent(o, p, c.type, [fact |-> c.type, of |-> c.manifest, parcel |-> p],
                      IF left = {} THEN Idle ELSE Recording("recording", c.manifest, c.type, left))

\* HubScanService.record reads the parcel by its barcode; an arrival it may not
\* have, and one it already had, is answered at once.
BeginHubScan(o, h, p) ==
    /\ CheckTransition(parcel[p], "arrived_at_hub") = "allowed"
    /\ Enter(o, Booking(h, p))
    /\ UNCHANGED <<rows, parcel, facts, faults>>

CommitHubScan(o) ==
    /\ call[o].at = "booking"
    /\ LET c == call[o]
       IN RecordEvent(o, c.parcel, "arrived_at_hub",
                      [fact |-> "arrived_at_hub", of |-> c.hub, parcel |-> c.parcel], Idle)

\* The process dies, or the connection does.
LoseCall(o) ==
    /\ call[o] # Idle
    /\ faults < MaxFaults /\ faults' = faults + 1
    /\ Leave(o)
    /\ UNCHANGED <<rows, parcel, facts>>

\* Pickups, routes and drivers move the parcels too.
ParcelEvent(p, type) ==
    /\ CheckTransition(parcel[p], type) = "allowed"
    /\ parcel' = [parcel EXCEPT ![p] = TargetStatus(type, @)]
    /\ UNCHANGED <<rows, facts, call, faults>>

-----------------------------------------------------------------------------
Init ==
    /\ manifest = [m \in Manifests |->
                     [status |-> "none", type |-> "none", itemCount |-> 0, discrepancyCount |-> 0]]
    /\ items = [m \in Manifests |-> [p \in {} |-> Nobody]]
    /\ disc = [m \in Manifests |-> [p \in {} |-> Nobody]]
    /\ parcel = [p \in Parcels |-> "PICKED_UP"]
    /\ facts = {}
    /\ call = [o \in Operators |-> Idle]
    /\ faults = 0

OnManifest(o, m) ==
    \/ \E p \in Parcels : BeginAddItem(o, m, p)
    \/ Seal(o, m) \/ Dispatch(o, m)
    \/ \E batch \in SUBSET Parcels : ReceiveScan(o, m, batch)

Continue(o) ==
    \/ CommitAddItem(o) \/ LoadShipments(o) \/ CommitHubScan(o)
    \/ \E p \in Parcels : RecordNext(o, p)

Next ==
    \/ \E m \in Manifests : \E type \in Types : OpenManifest(m, type)
    \/ \E m \in Manifests : FinaliseReceipt(m) \/ Reconcile(m)
    \/ \E m \in Manifests, p \in Parcels : ResolveDiscrepancy(m, p)
    \/ \E o \in Operators, m \in Manifests : OnManifest(o, m)
    \/ \E o \in Operators, h \in Hubs, p \in Parcels : BeginHubScan(o, h, p)
    \/ \E o \in Operators : Continue(o) \/ LoseCall(o)
    \/ \E p \in Parcels : \E type \in OtherEvents : ParcelEvent(p, type)

Spec == Init /\ [][Next]_vars

-----------------------------------------------------------------------------
(* Properties *)

ManifestStatuses == {"none", "OPEN", "SEALED", "IN_TRANSIT", "RECEIVED", "RECONCILED"}

\* The rows keep their types, and what a call still has to record is on the
\* manifest it works on.
TypeOK ==
    /\ manifest \in [Manifests -> [status : ManifestStatuses, type : Types \cup {"none"},
                                   itemCount : Nat, discrepancyCount : Nat]]
    /\ \A m \in Manifests :
          /\ DOMAIN items[m] \subseteq Parcels /\ DOMAIN disc[m] \subseteq Parcels
          /\ \A p \in DOMAIN items[m] : items[m][p] \in Operators \cup {Nobody}
          /\ \A p \in DOMAIN disc[m] :
                disc[m][p] \in [kind : {"MISSING", "UNEXPECTED"}, resolved : BOOLEAN]
    /\ parcel \in [Parcels -> Statuses]
    /\ \A o \in Operators :
          /\ call[o].at \in {"idle", "adding", "listing", "recording", "booking"}
          /\ call[o].at \in {"listing", "recording"} => call[o].left \subseteq DOMAIN items[call[o].manifest]
    /\ faults \in 0 .. MaxFaults

Closed == {"RECEIVED", "RECONCILED"}

\* Rule 3: once the receipt is finalised every item of the manifest is either
\* scanned or reported missing, and what is reported unexpected was not on it,
\* however additions, seals, scans and the finalising came after one another.
EveryItemAccounted ==
    \A m \in Manifests : manifest[m].status \in Closed =>
        /\ \A p \in DOMAIN items[m] :
              items[m][p] = Nobody <=> p \in DOMAIN disc[m] /\ disc[m][p].kind = "MISSING"
        /\ \A p \in DOMAIN disc[m] : disc[m][p].kind = "UNEXPECTED" <=> p \notin DOMAIN items[m]

\* The counts a manifest carries stay those of its rows: nobody adds an item
\* behind the seal or a discrepancy behind the receipt.
CountsAgree ==
    \A m \in Manifests :
        /\ manifest[m].itemCount = Cardinality(DOMAIN items[m])
        /\ manifest[m].status \in Closed => manifest[m].discrepancyCount = Cardinality(DOMAIN disc[m])

\* Rule 4: every missing or unexpected parcel of a reconciled manifest has been
\* explained, and no later scan leaves one that is not.
ReconciledIsExplained ==
    \A m \in Manifests : manifest[m].status = "RECONCILED" =>
        \A p \in DOMAIN disc[m] : disc[m][p].resolved

\* A call moves a parcel only with a fact that is new: a seal, a departure or a
\* scan that is sent again, even after the parcel went on, does not take it back.
ReplayMovesNothing ==
    [][\A p \in Parcels : parcel'[p] # parcel[p] /\ call' # call => facts' # facts]_vars

-----------------------------------------------------------------------------
(* What the repository says of the program and the code does not do *)

\* ManifestService: a deterministic key per parcel, so a retry resumes.  But the
\* retry of a scan is refused once the receipt is finalised: a parcel that was
\* scanned is in transit for good, and no discrepancy says so.
ScannedHasArrived ==
    \A m \in Manifests, p \in Parcels :
        /\ manifest[m].status \in Closed /\ p \in DOMAIN items[m] /\ items[m][p] # Nobody
        /\ \A o \in Operators : call[o] = Idle
        /\ [fact |-> "departed", of |-> m, parcel |-> p] \in facts
        => parcel[p] # "IN_TRANSIT"

\* InboundScanResult: the status after the scan is AT_HUB on success.  The key of
\* a scan names the hub and the parcel, not the visit.
AcceptedScanIsBooked ==
    [][\A o \in Operators :
          call[o].at = "booking" /\ call'[o] = Idle /\ faults' = faults
          /\ [fact |-> "arrived_at_hub", of |-> call[o].hub, parcel |-> call[o].parcel] \in facts'
          => parcel'[call[o].parcel] = "AT_HUB"]_vars
=============================================================================
