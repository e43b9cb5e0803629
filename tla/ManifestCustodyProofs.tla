------------------------ MODULE ManifestCustodyProofs -----------------------
(***************************************************************************)
(* Proofs about ManifestCustody, for any manifests, hubs and operators,    *)
(* any finite set of parcels and any bound on the calls that die.          *)
(***************************************************************************)
EXTENDS ManifestCustody, FiniteSetTheorems, TLAPS

-----------------------------------------------------------------------------
(* The inductive invariant *)

\* Rows of one manifest, one per parcel that has one.
PerParcel(S) == UNION {[D -> S] : D \in SUBSET Parcels}
Scanners == Operators \cup {Nobody}
Discrepancy == [kind : {"MISSING", "UNEXPECTED"}, resolved : BOOLEAN]
ManifestRow == [status : ManifestStatuses, type : Types \cup {"none"},
                itemCount : Nat, discrepancyCount : Nat]

\* Where a discrepancy can come from: from nowhere while parcels may still be
\* added; from strangers until the receipt is finalised; then from strangers
\* and from what nobody scanned.
Accounted(status, its, ds) ==
    /\ status \in {"none", "OPEN"} => DOMAIN ds = {}
    /\ status \in {"SEALED", "IN_TRANSIT"} =>
          \A p \in DOMAIN ds : ds[p].kind = "UNEXPECTED" /\ p \notin DOMAIN its
    /\ status \in Closed =>
          /\ \A p \in DOMAIN its : its[p] = Nobody <=> p \in DOMAIN ds /\ ds[p].kind = "MISSING"
          /\ \A p \in DOMAIN ds : ds[p].kind = "UNEXPECTED" <=> p \notin DOMAIN its
    /\ status = "RECONCILED" => \A p \in DOMAIN ds : ds[p].resolved

Counted(row, its, ds) ==
    /\ row.itemCount = Cardinality(DOMAIN its)
    /\ row.status \in Closed => row.discrepancyCount = Cardinality(DOMAIN ds)

\* What holds of a manifest, its items and its discrepancies.
Whole(row, its, ds) ==
    /\ row \in ManifestRow
    /\ its \in PerParcel(Scanners)
    /\ ds \in PerParcel(Discrepancy)
    /\ Accounted(row.status, its, ds)
    /\ Counted(row, its, ds)

RowInv ==
    /\ manifest \in [Manifests -> ManifestRow]
    /\ items \in [Manifests -> PerParcel(Scanners)]
    /\ disc \in [Manifests -> PerParcel(Discrepancy)]
    /\ \A m \in Manifests : Whole(manifest[m], items[m], disc[m])

Places ==
    {Idle}
    \cup [at : {"adding"}, manifest : Manifests, parcel : Parcels, read : Statuses]
    \cup [at : {"listing", "recording"}, manifest : Manifests, type : EventTypes, left : SUBSET Parcels]
    \cup [at : {"booking"}, hub : Hubs, parcel : Parcels]

\* What is left to record at c is on c's manifest.
Listed(c, its) == c.at \in {"listing", "recording"} => c.left \subseteq DOMAIN its[c.manifest]

CallInv ==
    /\ call \in [Operators -> Places]
    /\ \A o \in Operators : Listed(call[o], items)
    /\ parcel \in [Parcels -> Statuses]
    /\ faults \in 0 .. MaxFaults

IInv == RowInv /\ CallInv

-----------------------------------------------------------------------------
(* Lemmas *)

\* An event drives a parcel to one of the statuses.
LEMMA TargetStatusType ==
    ASSUME NEW type, NEW current \in Statuses
    PROVE  TargetStatus(type, current) \in Statuses
BY DEF TargetStatus, Statuses, TerminalStatuses

\* A table with a row for some of the parcels is a table.
LEMMA PerParcelType ==
    ASSUME NEW S, NEW D \in SUBSET Parcels, NEW f, f \in [D -> S]
    PROVE  f \in PerParcel(S)
BY DEF PerParcel

\* And a table has rows for some of the parcels, finitely many.
LEMMA PerParcelRows ==
    ASSUME NEW S, NEW f \in PerParcel(S)
    PROVE  /\ DOMAIN f \in SUBSET Parcels
           /\ f \in [DOMAIN f -> S]
           /\ IsFiniteSet(DOMAIN f)
           /\ Cardinality(DOMAIN f) \in Nat
<1>1. DOMAIN f \in SUBSET Parcels /\ f \in [DOMAIN f -> S]
  BY DEF PerParcel
<1>2. IsFiniteSet(DOMAIN f)
  BY <1>1, CustodyAssumption, FS_Subset
<1> QED
  BY <1>1, <1>2, FS_CardinalityType

\* The shapes of a call's place.
LEMMA PlaceTypes ==
    /\ Idle \in Places
    /\ \A m \in Manifests, p \in Parcels, read \in Statuses : Adding(m, p, read) \in Places
    /\ \A at \in {"listing", "recording"}, m \in Manifests, type \in EventTypes, left \in SUBSET Parcels :
          Recording(at, m, type, left) \in Places
    /\ \A h \in Hubs, p \in Parcels : Booking(h, p) \in Places
BY DEF Places, Idle, Adding, Recording, Booking

\* Each place tells by its label what it holds.
LEMMA PlaceFields ==
    ASSUME NEW c \in Places
    PROVE  /\ c.at \in {"idle", "adding", "listing", "recording", "booking"}
           /\ c.at = "adding" => c.manifest \in Manifests /\ c.parcel \in Parcels
           /\ c.at \in {"listing", "recording"} =>
                 c.manifest \in Manifests /\ c.type \in EventTypes /\ c.left \in SUBSET Parcels
           /\ c.at = "booking" => c.hub \in Hubs /\ c.parcel \in Parcels
BY DEF Places, Idle

\* A transaction on one manifest that leaves it whole keeps RowInv.
LEMMA OneManifest ==
    ASSUME RowInv, NEW m \in Manifests, NEW row, NEW its, NEW ds, Whole(row, its, ds),
           manifest' = [manifest EXCEPT ![m] = row],
           items' = [items EXCEPT ![m] = its],
           disc' = [disc EXCEPT ![m] = ds]
    PROVE  RowInv'
<1>1. row \in ManifestRow /\ its \in PerParcel(Scanners) /\ ds \in PerParcel(Discrepancy)
  BY DEF Whole
<1>2. /\ manifest' \in [Manifests -> ManifestRow]
      /\ items' \in [Manifests -> PerParcel(Scanners)]
      /\ disc' \in [Manifests -> PerParcel(Discrepancy)]
  BY <1>1 DEF RowInv
<1>3. ASSUME NEW n \in Manifests
      PROVE  Whole(manifest'[n], items'[n], disc'[n])
  <2>1. CASE n = m
    BY <2>1 DEF RowInv
  <2>2. CASE n # m
    BY <2>2 DEF RowInv
  <2> QED
    BY <2>1, <2>2
<1> QED
  BY <1>2, <1>3 DEF RowInv

\* A call that moves to a place whose parcels are listed keeps CallInv, as long
\* as no manifest loses an item.
LEMMA CallStep ==
    ASSUME CallInv, NEW o \in Operators, NEW c \in Places, call' = [call EXCEPT ![o] = c],
           \A n \in Manifests : DOMAIN items[n] \subseteq DOMAIN items'[n],
           Listed(c, items), parcel' \in [Parcels -> Statuses], faults' \in 0 .. MaxFaults
    PROVE  CallInv'
<1>1. call' \in [Operators -> Places]
  BY DEF CallInv
<1>2. ASSUME NEW other \in Operators
      PROVE  Listed(call'[other], items')
  <2>1. call'[other] \in Places /\ Listed(call'[other], items)
    BY DEF CallInv
  <2> QED
    BY <2>1, PlaceFields DEF Listed
<1> QED
  BY <1>1, <1>2 DEF CallInv

\* With the discrepancies it raises a manifest's table is still a table.
LEMMA RaisedType ==
    ASSUME RowInv, NEW m \in Manifests, NEW parcels \in SUBSET Parcels,
           NEW kind \in {"MISSING", "UNEXPECTED"}
    PROVE  Raised(m, parcels, kind) \in PerParcel(Discrepancy)
<1> DEFINE D == DOMAIN disc[m] \cup parcels
<1>1. DOMAIN disc[m] \in SUBSET Parcels /\ disc[m] \in [DOMAIN disc[m] -> Discrepancy]
  BY PerParcelRows DEF RowInv
<1>2. [kind |-> kind, resolved |-> FALSE] \in Discrepancy
  BY DEF Discrepancy
<1>3. Raised(m, parcels, kind) \in [D -> Discrepancy]
  BY <1>1, <1>2 DEF Raised
<1>4. D \in SUBSET Parcels
  BY <1>1
<1> QED
  BY <1>3, <1>4, PerParcelType

-----------------------------------------------------------------------------
(* The manifest's own transactions *)

\* A transaction that writes the row of one manifest only.
LEMMA RowStep ==
    ASSUME RowInv, NEW m \in Manifests, NEW row, Whole(row, items[m], disc[m]),
           manifest' = [manifest EXCEPT ![m] = row], UNCHANGED <<items, disc>>
    PROVE  RowInv'
<1>1. PICK its, ds : its = items[m] /\ ds = disc[m]
  OBVIOUS
<1>2. items' = [items EXCEPT ![m] = its] /\ disc' = [disc EXCEPT ![m] = ds]
  BY <1>1 DEF RowInv
<1>3. Whole(row, its, ds)
  BY <1>1
<1> QED
  BY <1>2, <1>3, OneManifest

\* Nothing of what CallInv speaks of changes.
LEMMA CallKept ==
    ASSUME CallInv, UNCHANGED <<items, parcel, call, faults>>
    PROVE  CallInv'
BY DEF CallInv, Listed

\* An opened manifest is empty.
LEMMA OpenStep ==
    ASSUME IInv, NEW m \in Manifests, NEW type \in Types, OpenManifest(m, type)
    PROVE  IInv'
<1> DEFINE row == [manifest[m] EXCEPT !.status = "OPEN", !.type = type]
<1>1. Whole(manifest[m], items[m], disc[m]) /\ manifest[m].status = "none"
  BY DEF IInv, RowInv, OpenManifest
<1>2. /\ row \in ManifestRow /\ row.status = "OPEN"
      /\ row.itemCount = manifest[m].itemCount
  BY <1>1 DEF Whole, ManifestRow, ManifestStatuses
<1>3. manifest' = [manifest EXCEPT ![m] = row] /\ UNCHANGED <<items, disc, parcel, call, faults>>
  BY DEF OpenManifest
<1> HIDE DEF row
<1>4. Whole(row, items[m], disc[m])
  BY <1>1, <1>2 DEF Whole, Accounted, Counted, Closed
<1>5. RowInv'
  BY <1>3, <1>4, RowStep DEF IInv
<1>6. CallInv'
  BY <1>3, CallKept DEF IInv
<1> QED
  BY <1>5, <1>6 DEF IInv

\* Reconciling asks for every discrepancy to be resolved.
LEMMA ReconcileStep ==
    ASSUME IInv, NEW m \in Manifests, Reconcile(m)
    PROVE  IInv'
<1> DEFINE row == [manifest[m] EXCEPT !.status = "RECONCILED"]
<1>1. Whole(manifest[m], items[m], disc[m]) /\ manifest[m].status = "RECEIVED"
  BY DEF IInv, RowInv, Reconcile, MayBecome
<1>2. /\ row \in ManifestRow /\ row.status = "RECONCILED"
      /\ row.itemCount = manifest[m].itemCount
      /\ row.discrepancyCount = manifest[m].discrepancyCount
  BY <1>1 DEF Whole, ManifestRow, ManifestStatuses
<1>3. manifest' = [manifest EXCEPT ![m] = row] /\ UNCHANGED <<items, disc, parcel, call, faults>>
  BY DEF Reconcile
<1>4. \A p \in DOMAIN disc[m] : disc[m][p].resolved
  BY DEF Reconcile, Unresolved
<1> HIDE DEF row
<1>5. Whole(row, items[m], disc[m])
  BY <1>1, <1>2, <1>4 DEF Whole, Accounted, Counted, Closed
<1>6. RowInv'
  BY <1>3, <1>5, RowStep DEF IInv
<1>7. CallInv'
  BY <1>3, CallKept DEF IInv
<1> QED
  BY <1>6, <1>7 DEF IInv

\* The seal writes the status and the count of the items as they are.
LEMMA SealStep ==
    ASSUME IInv, NEW o \in Operators, NEW m \in Manifests, Seal(o, m)
    PROVE  IInv'
<1> DEFINE row == [manifest[m] EXCEPT !.status = "SEALED", !.itemCount = Cardinality(DOMAIN items[m])]
           c == IF OriginatesAtHub(m) THEN Recording("listing", m, "loaded", DOMAIN items[m]) ELSE Idle
<1>1. Whole(manifest[m], items[m], disc[m]) /\ manifest[m].status = "OPEN"
  BY DEF IInv, RowInv, Seal, MayBecome
<1>2. DOMAIN items[m] \in SUBSET Parcels /\ Cardinality(DOMAIN items[m]) \in Nat
  BY <1>1, PerParcelRows DEF Whole
<1>3. /\ row \in ManifestRow /\ row.status = "SEALED"
      /\ row.itemCount = Cardinality(DOMAIN items[m])
  BY <1>1, <1>2 DEF Whole, ManifestRow, ManifestStatuses
<1>4. /\ manifest' = [manifest EXCEPT ![m] = row]
      /\ call' = [call EXCEPT ![o] = c]
      /\ UNCHANGED <<items, disc, parcel, faults>>
  BY DEF Seal, Enter
<1>5. c \in Places /\ Listed(c, items)
  BY <1>2, PlaceTypes DEF EventTypes, Recording, Idle, Listed
<1> HIDE DEF row, c
<1>6. Whole(row, items[m], disc[m])
  BY <1>1, <1>3 DEF Whole, Accounted, Counted, Closed
<1>7. RowInv'
  BY <1>4, <1>6, RowStep DEF IInv
<1>8. parcel' \in [Parcels -> Statuses] /\ faults' \in 0 .. MaxFaults
  BY <1>4 DEF IInv, CallInv
<1>9. CallInv'
  BY <1>4, <1>5, <1>8, CallStep DEF IInv
<1> QED
  BY <1>7, <1>9 DEF IInv

\* The departure writes the status only.
LEMMA DispatchStep ==
    ASSUME IInv, NEW o \in Operators, NEW m \in Manifests, Dispatch(o, m)
    PROVE  IInv'
<1> DEFINE row == [manifest[m] EXCEPT !.status = "IN_TRANSIT"]
           c == Recording("listing", m, "departed", DOMAIN items[m])
<1>1. Whole(manifest[m], items[m], disc[m]) /\ manifest[m].status = "SEALED"
  BY DEF IInv, RowInv, Dispatch, MayBecome
<1>2. DOMAIN items[m] \in SUBSET Parcels
  BY <1>1, PerParcelRows DEF Whole
<1>3. /\ row \in ManifestRow /\ row.status = "IN_TRANSIT"
      /\ row.itemCount = manifest[m].itemCount
  BY <1>1 DEF Whole, ManifestRow, ManifestStatuses
<1>4. /\ manifest' = [manifest EXCEPT ![m] = row]
      /\ call' = [call EXCEPT ![o] = c]
      /\ UNCHANGED <<items, disc, parcel, faults>>
  BY DEF Dispatch, Enter
<1>5. c \in Places /\ Listed(c, items)
  BY <1>2, PlaceTypes DEF EventTypes, Recording, Listed
<1> HIDE DEF row, c
<1>6. Whole(row, items[m], disc[m])
  BY <1>1, <1>3 DEF Whole, Accounted, Counted, Closed
<1>7. RowInv'
  BY <1>4, <1>6, RowStep DEF IInv
<1>8. parcel' \in [Parcels -> Statuses] /\ faults' \in 0 .. MaxFaults
  BY <1>4 DEF IInv, CallInv
<1>9. CallInv'
  BY <1>4, <1>5, <1>8, CallStep DEF IInv
<1> QED
  BY <1>7, <1>9 DEF IInv

\* An addition finds the manifest OPEN under its lock: no discrepancy yet.
LEMMA CommitAddItemStep ==
    ASSUME IInv, NEW o \in Operators, CommitAddItem(o)
    PROVE  IInv'
<1> DEFINE m == call[o].manifest
           p == call[o].parcel
           D == DOMAIN items[m] \cup {p}
           added == [q \in D |-> IF q = p THEN Nobody ELSE items[m][q]]
           row == [manifest[m] EXCEPT !.itemCount = @ + 1]
<1>1. m \in Manifests /\ p \in Parcels
  BY PlaceFields DEF IInv, CallInv, CommitAddItem
<1>2. /\ call' = [call EXCEPT ![o] = Idle]
      /\ UNCHANGED <<disc, parcel, faults>>
  BY DEF CommitAddItem, Leave
<1>3. parcel' \in [Parcels -> Statuses] /\ faults' \in 0 .. MaxFaults
  BY <1>2 DEF IInv, CallInv
<1>4. Idle \in Places /\ Listed(Idle, items)
  BY PlaceTypes DEF Idle, Listed
<1>5. CASE UNCHANGED <<items, manifest>>
  <2>1. RowInv'
    BY <1>2, <1>5 DEF IInv, RowInv
  <2>2. CallInv'
    BY <1>2, <1>3, <1>4, <1>5, CallStep DEF IInv
  <2> QED
    BY <2>1, <2>2 DEF IInv
<1>6. CASE /\ AcceptsItems(m) /\ p \notin DOMAIN items[m]
           /\ items' = [items EXCEPT ![m] = added]
           /\ manifest' = [manifest EXCEPT ![m].itemCount = @ + 1]
  <2>1. Whole(manifest[m], items[m], disc[m]) /\ manifest[m].status = "OPEN"
    BY <1>1, <1>6 DEF IInv, RowInv, AcceptsItems
  <2>2. /\ DOMAIN items[m] \in SUBSET Parcels /\ items[m] \in [DOMAIN items[m] -> Scanners]
        /\ IsFiniteSet(DOMAIN items[m])
    BY <2>1, PerParcelRows DEF Whole
  <2>3. D \in SUBSET Parcels /\ added \in [D -> Scanners] /\ DOMAIN added = D
    BY <1>1, <2>2 DEF Scanners
  <2>4. added \in PerParcel(Scanners)
    BY <2>3, PerParcelType
  <2>5. Cardinality(D) = Cardinality(DOMAIN items[m]) + 1
    BY <1>6, <2>2, FS_AddElement
  <2>6. /\ row \in ManifestRow /\ row.status = "OPEN"
        /\ row.itemCount = manifest[m].itemCount + 1
    BY <2>1 DEF Whole, ManifestRow
  <2>7. manifest' = [manifest EXCEPT ![m] = row]
    BY <1>6
  <2>8. disc' = [disc EXCEPT ![m] = disc[m]]
    BY <1>1, <1>2 DEF IInv, RowInv
  <2> HIDE DEF added, row, D
  <2>9. Whole(row, added, disc[m])
    BY <2>1, <2>3, <2>4, <2>5, <2>6 DEF Whole, Accounted, Counted, Closed
  <2>10. RowInv'
    <3>1. PICK ds : ds = disc[m]
      OBVIOUS
    <3> QED
      BY <1>1, <1>6, <2>7, <2>8, <2>9, <3>1, OneManifest DEF IInv
  <2>11. \A n \in Manifests : DOMAIN items[n] \subseteq DOMAIN items'[n]
    BY <1>1, <1>6, <2>3 DEF IInv, RowInv, D
  <2>12. CallInv'
    BY <1>2, <1>3, <1>4, <2>11, CallStep DEF IInv
  <2> QED
    BY <2>10, <2>12 DEF IInv
<1> QED
  BY <1>5, <1>6 DEF CommitAddItem

\* A scan marks items and raises strangers, never what is on the manifest.
LEMMA ReceiveScanStep ==
    ASSUME IInv, NEW o \in Operators, NEW m \in Manifests, NEW batch \in SUBSET Parcels,
           ReceiveScan(o, m, batch)
    PROVE  IInv'
<1> DEFINE its == [p \in DOMAIN items[m] |-> IF p \in batch /\ items[m][p] = Nobody THEN o ELSE items[m][p]]
           ds == Raised(m, batch \ DOMAIN items[m], "UNEXPECTED")
           c == IF Applied(m, o, batch) = {} THEN Idle
                ELSE Recording("listing", m, "arrived_at_hub", Applied(m, o, batch))
<1>1. /\ Whole(manifest[m], items[m], disc[m])
      /\ manifest[m].status \in {"SEALED", "IN_TRANSIT"}
  BY DEF IInv, RowInv, ReceiveScan, Receivable
<1>2. DOMAIN items[m] \in SUBSET Parcels /\ items[m] \in [DOMAIN items[m] -> Scanners]
  BY <1>1, PerParcelRows DEF Whole
<1>3. its \in [DOMAIN items[m] -> Scanners] /\ DOMAIN its = DOMAIN items[m]
  BY <1>2 DEF Scanners
<1>4. its \in PerParcel(Scanners)
  BY <1>2, <1>3, PerParcelType
<1>5. /\ ds \in PerParcel(Discrepancy)
      /\ DOMAIN ds = DOMAIN disc[m] \cup (batch \ DOMAIN items[m])
      /\ \A p \in DOMAIN disc[m] : ds[p] = disc[m][p]
      /\ \A p \in (batch \ DOMAIN items[m]) \ DOMAIN disc[m] : ds[p].kind = "UNEXPECTED"
  <2>1. ds \in PerParcel(Discrepancy)
    BY RaisedType DEF IInv
  <2> QED
    BY <2>1 DEF Raised
<1>6. /\ items' = [items EXCEPT ![m] = its]
      /\ disc' = [disc EXCEPT ![m] = ds]
      /\ call' = [call EXCEPT ![o] = c]
      /\ UNCHANGED <<manifest, parcel, faults>>
  BY DEF ReceiveScan, Enter, IInv, RowInv
<1>7. manifest' = [manifest EXCEPT ![m] = manifest[m]]
  BY <1>6 DEF IInv, RowInv
<1>8. Applied(m, o, batch) \in SUBSET Parcels /\ Applied(m, o, batch) \subseteq DOMAIN items[m]
  BY DEF Applied
<1>9. c \in Places /\ Listed(c, items)
  BY <1>8, PlaceTypes DEF EventTypes, Recording, Idle, Listed
<1> HIDE DEF its, ds, c
<1>10. Whole(manifest[m], its, ds)
  <2>1. \A p \in DOMAIN ds : ds[p].kind = "UNEXPECTED" /\ p \notin DOMAIN its
    BY <1>1, <1>3, <1>5 DEF Whole, Accounted
  <2> QED
    BY <1>1, <1>3, <1>4, <1>5, <2>1 DEF Whole, Accounted, Counted, Closed
<1>11. RowInv'
  <2>1. PICK row : row = manifest[m]
    OBVIOUS
  <2> QED
    BY <1>6, <1>7, <1>10, <2>1, OneManifest DEF IInv
<1>12. \A n \in Manifests : DOMAIN items[n] \subseteq DOMAIN items'[n]
  BY <1>3, <1>6 DEF IInv, RowInv
<1>13. parcel' \in [Parcels -> Statuses] /\ faults' \in 0 .. MaxFaults
  BY <1>6 DEF IInv, CallInv
<1>14. CallInv'
  BY <1>6, <1>9, <1>12, <1>13, CallStep DEF IInv
<1> QED
  BY <1>11, <1>14 DEF IInv

\* What nobody scanned is raised as missing, and nothing else is.
LEMMA FinaliseReceiptStep ==
    ASSUME IInv, NEW m \in Manifests, FinaliseReceipt(m)
    PROVE  IInv'
<1> DEFINE outstanding == {p \in DOMAIN items[m] : items[m][p] = Nobody}
           ds == Raised(m, outstanding, "MISSING")
           row == [manifest[m] EXCEPT !.status = "RECEIVED", !.discrepancyCount = Cardinality(DOMAIN ds)]
<1>1. /\ Whole(manifest[m], items[m], disc[m])
      /\ manifest[m].status \in {"SEALED", "IN_TRANSIT"}
  BY DEF IInv, RowInv, FinaliseReceipt, MayBecome
<1>2. DOMAIN items[m] \in SUBSET Parcels
  BY <1>1, PerParcelRows DEF Whole
<1>3. /\ ds \in PerParcel(Discrepancy)
      /\ DOMAIN ds = DOMAIN disc[m] \cup outstanding
      /\ \A p \in DOMAIN disc[m] : ds[p] = disc[m][p]
      /\ \A p \in outstanding \ DOMAIN disc[m] : ds[p].kind = "MISSING"
  <2>1. ds \in PerParcel(Discrepancy)
    BY <1>2, RaisedType DEF IInv
  <2> QED
    BY <2>1 DEF Raised
<1>4. /\ manifest' = [manifest EXCEPT ![m] = row]
      /\ disc' = [disc EXCEPT ![m] = ds]
      /\ UNCHANGED <<items, parcel, call, faults>>
  BY DEF FinaliseReceipt
<1>5. items' = [items EXCEPT ![m] = items[m]]
  BY <1>4 DEF IInv, RowInv
<1> HIDE DEF ds
<1>6. Cardinality(DOMAIN ds) \in Nat
  BY <1>3, PerParcelRows
<1>7. /\ row \in ManifestRow /\ row.status = "RECEIVED"
      /\ row.itemCount = manifest[m].itemCount
      /\ row.discrepancyCount = Cardinality(DOMAIN ds)
  BY <1>1, <1>6 DEF Whole, ManifestRow, ManifestStatuses
<1> HIDE DEF row
<1>8. Whole(row, items[m], ds)
  <2>1. \A p \in DOMAIN disc[m] : ds[p].kind = "UNEXPECTED" /\ p \notin DOMAIN items[m]
    BY <1>1, <1>3 DEF Whole, Accounted
  <2>2. \A p \in DOMAIN items[m] : items[m][p] = Nobody <=> p \in DOMAIN ds /\ ds[p].kind = "MISSING"
    BY <1>3, <2>1
  <2>3. \A p \in DOMAIN ds : ds[p].kind = "UNEXPECTED" <=> p \notin DOMAIN items[m]
    BY <1>3, <2>1
  <2> QED
    BY <1>1, <1>3, <1>7, <2>2, <2>3 DEF Whole, Accounted, Counted
<1>9. RowInv'
  <2>1. PICK its : its = items[m]
    OBVIOUS
  <2> QED
    BY <1>4, <1>5, <1>8, <2>1, OneManifest DEF IInv
<1>10. CallInv'
  BY <1>4, CallKept DEF IInv
<1> QED
  BY <1>9, <1>10 DEF IInv

\* A resolution changes no kind.
LEMMA ResolveStep ==
    ASSUME IInv, NEW m \in Manifests, NEW p \in Parcels, ResolveDiscrepancy(m, p)
    PROVE  IInv'
<1> DEFINE ds == [disc[m] EXCEPT ![p].resolved = TRUE]
<1>1. /\ Whole(manifest[m], items[m], disc[m]) /\ manifest[m].status = "RECEIVED"
      /\ p \in DOMAIN disc[m]
  BY DEF IInv, RowInv, ResolveDiscrepancy
<1>2. DOMAIN disc[m] \in SUBSET Parcels /\ disc[m] \in [DOMAIN disc[m] -> Discrepancy]
  BY <1>1, PerParcelRows DEF Whole
<1>3. /\ ds \in [DOMAIN disc[m] -> Discrepancy] /\ DOMAIN ds = DOMAIN disc[m]
      /\ \A q \in DOMAIN ds : ds[q].kind = disc[m][q].kind
  BY <1>1, <1>2 DEF Discrepancy
<1>4. ds \in PerParcel(Discrepancy)
  BY <1>2, <1>3, PerParcelType
<1>5. /\ disc' = [disc EXCEPT ![m] = ds]
      /\ UNCHANGED <<manifest, items, parcel, call, faults>>
  BY DEF ResolveDiscrepancy
<1>6. manifest' = [manifest EXCEPT ![m] = manifest[m]] /\ items' = [items EXCEPT ![m] = items[m]]
  BY <1>5 DEF IInv, RowInv
<1> HIDE DEF ds
<1>7. Whole(manifest[m], items[m], ds)
  BY <1>1, <1>3, <1>4 DEF Whole, Accounted, Counted, Closed
<1>8. RowInv'
  <2>1. PICK row, its : row = manifest[m] /\ its = items[m]
    OBVIOUS
  <2> QED
    BY <1>5, <1>6, <1>7, <2>1, OneManifest DEF IInv
<1>9. CallInv'
  BY <1>5, CallKept DEF IInv
<1> QED
  BY <1>8, <1>9 DEF IInv

-----------------------------------------------------------------------------
(* Calls that write no manifest *)

\* No manifest is written.
LEMMA RowsKept ==
    ASSUME RowInv, UNCHANGED rows
    PROVE  RowInv'
BY DEF RowInv, rows

\* A call that moves, with the parcels, while no manifest is written.
LEMMA OnlyCall ==
    ASSUME IInv, NEW o \in Operators, NEW c \in Places, call' = [call EXCEPT ![o] = c],
           Listed(c, items), UNCHANGED rows,
           parcel' \in [Parcels -> Statuses], faults' \in 0 .. MaxFaults
    PROVE  IInv'
<1>1. RowInv'
  BY RowsKept DEF IInv
<1>2. \A n \in Manifests : DOMAIN items[n] \subseteq DOMAIN items'[n]
  BY DEF rows
<1>3. CallInv'
  BY <1>2, CallStep DEF IInv
<1> QED
  BY <1>1, <1>3 DEF IInv

\* recordEvent, whatever the call goes on with.
LEMMA RecordEventStep ==
    ASSUME IInv, NEW o \in Operators, NEW p \in Parcels, NEW type, NEW key,
           NEW next \in Places, Listed(next, items), RecordEvent(o, p, type, key, next)
    PROVE  IInv'
<1>1. PICK c \in {next, Idle} : call' = [call EXCEPT ![o] = c]
  BY DEF RecordEvent, Leave
<1>2. c \in Places /\ Listed(c, items)
  BY <1>1, PlaceTypes DEF Idle, Listed
<1>3. UNCHANGED rows /\ faults' \in 0 .. MaxFaults
  BY DEF RecordEvent, IInv, CallInv
<1>4. parcel' \in [Parcels -> Statuses]
  <2>1. parcel \in [Parcels -> Statuses] /\ TargetStatus(type, parcel[p]) \in Statuses
    BY TargetStatusType DEF IInv, CallInv
  <2>2. parcel' = parcel \/ parcel' = [parcel EXCEPT ![p] = TargetStatus(type, parcel[p])]
    BY DEF RecordEvent
  <2> QED
    BY <2>1, <2>2
<1> QED
  BY <1>1, <1>2, <1>3, <1>4, OnlyCall

\* addItem and a hub scan begin with a read.
LEMMA BeginStep ==
    ASSUME IInv, NEW o \in Operators, NEW p \in Parcels,
           \/ \E m \in Manifests : BeginAddItem(o, m, p)
           \/ \E h \in Hubs : BeginHubScan(o, h, p)
    PROVE  IInv'
<1>1. parcel[p] \in Statuses
  BY DEF IInv, CallInv
<1>2. PICK c \in Places : c.at \in {"adding", "booking"} /\ call' = [call EXCEPT ![o] = c]
  <2>1. CASE \E m \in Manifests : BeginAddItem(o, m, p)
    <3>1. PICK m \in Manifests : BeginAddItem(o, m, p)
      BY <2>1
    <3>2. call' = [call EXCEPT ![o] = Adding(m, p, parcel[p])]
      BY <3>1 DEF BeginAddItem, Enter
    <3> QED
      BY <1>1, <3>2, PlaceTypes DEF Adding
  <2>2. CASE \E h \in Hubs : BeginHubScan(o, h, p)
    <3>1. PICK h \in Hubs : BeginHubScan(o, h, p)
      BY <2>2
    <3>2. call' = [call EXCEPT ![o] = Booking(h, p)]
      BY <3>1 DEF BeginHubScan, Enter
    <3> QED
      BY <3>2, PlaceTypes DEF Booking
  <2> QED
    BY <2>1, <2>2
<1>3. Listed(c, items)
  BY <1>2 DEF Listed
<1>4. UNCHANGED <<rows, parcel, faults>>
  BY DEF BeginAddItem, BeginHubScan
<1>5. parcel' \in [Parcels -> Statuses] /\ faults' \in 0 .. MaxFaults
  BY <1>4 DEF IInv, CallInv
<1> QED
  BY <1>2, <1>3, <1>4, <1>5, OnlyCall

\* The list of what to record only gets shorter.
LEMMA LoadShipmentsStep ==
    ASSUME IInv, NEW o \in Operators, LoadShipments(o)
    PROVE  IInv'
<1> DEFINE left == {p \in call[o].left : CheckTransition(parcel[p], call[o].type) = "allowed"}
           c == IF left = {} THEN Idle ELSE Recording("recording", call[o].manifest, call[o].type, left)
<1>1. /\ call[o] \in Places /\ Listed(call[o], items) /\ call[o].at = "listing"
      /\ call \in [Operators -> Places]
  BY DEF IInv, CallInv, LoadShipments
<1>2. /\ call[o].manifest \in Manifests /\ call[o].type \in EventTypes
      /\ call[o].left \in SUBSET Parcels /\ call[o].left \subseteq DOMAIN items[call[o].manifest]
  BY <1>1, PlaceFields DEF Listed
<1>3. left \in SUBSET Parcels /\ left \subseteq DOMAIN items[call[o].manifest]
  BY <1>2
<1>4. call' = [call EXCEPT ![o] = c] /\ UNCHANGED <<rows, parcel, faults>>
  BY <1>1 DEF LoadShipments
<1> HIDE DEF left
<1>5. c \in Places /\ Listed(c, items)
  BY <1>2, <1>3, PlaceTypes DEF Idle, Recording, Listed
<1> HIDE DEF c
<1>6. parcel' \in [Parcels -> Statuses] /\ faults' \in 0 .. MaxFaults
  BY <1>4 DEF IInv, CallInv
<1> QED
  BY <1>4, <1>5, <1>6, OnlyCall

\* One parcel of the list is recorded.
LEMMA RecordNextStep ==
    ASSUME IInv, NEW o \in Operators, NEW p \in Parcels, RecordNext(o, p)
    PROVE  IInv'
<1> DEFINE left == call[o].left \ {p}
           next == IF left = {} THEN Idle ELSE Recording("recording", call[o].manifest, call[o].type, left)
           key == [fact |-> call[o].type, of |-> call[o].manifest, parcel |-> p]
<1>1. call[o] \in Places /\ Listed(call[o], items) /\ call[o].at = "recording"
  BY DEF IInv, CallInv, RecordNext
<1>2. /\ call[o].manifest \in Manifests /\ call[o].type \in EventTypes
      /\ call[o].left \in SUBSET Parcels /\ call[o].left \subseteq DOMAIN items[call[o].manifest]
  BY <1>1, PlaceFields DEF Listed
<1>3. left \in SUBSET Parcels /\ left \subseteq DOMAIN items[call[o].manifest]
  BY <1>2
<1>4. RecordEvent(o, p, call[o].type, key, next)
  BY DEF RecordNext
<1> HIDE DEF left, key
<1>5. next \in Places /\ Listed(next, items)
  BY <1>2, <1>3, PlaceTypes DEF Idle, Recording, Listed
<1> HIDE DEF next
<1>6. PICK type : type = call[o].type
  OBVIOUS
<1> QED
  BY <1>4, <1>5, <1>6, RecordEventStep

\* The arrival a hub scan read for is recorded.
LEMMA CommitHubScanStep ==
    ASSUME IInv, NEW o \in Operators, CommitHubScan(o)
    PROVE  IInv'
<1>1. PICK p, key : /\ p = call[o].parcel
                    /\ RecordEvent(o, p, "arrived_at_hub", key, Idle)
  BY DEF CommitHubScan
<1>2. p \in Parcels
  BY <1>1, PlaceFields DEF IInv, CallInv, CommitHubScan
<1>3. Idle \in Places /\ Listed(Idle, items)
  BY PlaceTypes DEF Idle, Listed
<1> QED
  BY <1>1, <1>2, <1>3, RecordEventStep

\* A call that dies changes only where its operator is.
LEMMA LoseCallStep ==
    ASSUME IInv, NEW o \in Operators, LoseCall(o)
    PROVE  IInv'
<1>1. /\ call' = [call EXCEPT ![o] = Idle] /\ UNCHANGED <<rows, parcel>>
      /\ faults < MaxFaults /\ faults' = faults + 1
  BY DEF LoseCall, Leave
<1>2. Idle \in Places /\ Listed(Idle, items)
  BY PlaceTypes DEF Idle, Listed
<1>3. parcel' \in [Parcels -> Statuses] /\ faults' \in 0 .. MaxFaults
  BY <1>1, CustodyAssumption DEF IInv, CallInv
<1> QED
  BY <1>1, <1>2, <1>3, OnlyCall

\* A driver or a route moves a parcel.
LEMMA ParcelEventStep ==
    ASSUME IInv, NEW p \in Parcels, NEW type \in OtherEvents, ParcelEvent(p, type)
    PROVE  IInv'
<1>1. parcel' = [parcel EXCEPT ![p] = TargetStatus(type, parcel[p])] /\ UNCHANGED <<rows, call, faults>>
  BY DEF ParcelEvent
<1>2. parcel' \in [Parcels -> Statuses]
  BY <1>1, TargetStatusType DEF IInv, CallInv
<1>3. RowInv'
  BY <1>1, RowsKept DEF IInv
<1>4. CallInv'
  BY <1>1, <1>2 DEF IInv, CallInv, Listed, rows
<1> QED
  BY <1>3, <1>4 DEF IInv

-----------------------------------------------------------------------------
(* The invariant is inductive *)

\* The invariant holds of the empty tables.
LEMMA InitIInv ==
    ASSUME Init
    PROVE  IInv
<1> DEFINE none == [status |-> "none", type |-> "none", itemCount |-> 0, discrepancyCount |-> 0]
           empty == [p \in {} |-> Nobody]
<1>1. none \in ManifestRow /\ none.status = "none" /\ none.itemCount = 0
  BY DEF ManifestRow, ManifestStatuses
<1>2. DOMAIN empty = {} /\ Cardinality(DOMAIN empty) = 0
  BY FS_EmptySet
<1>3. empty \in [{} -> Scanners] /\ empty \in [{} -> Discrepancy]
  OBVIOUS
<1>4. empty \in PerParcel(Scanners) /\ empty \in PerParcel(Discrepancy)
  BY <1>3, PerParcelType
<1>5. /\ manifest = [m \in Manifests |-> none]
      /\ items = [m \in Manifests |-> empty]
      /\ disc = [m \in Manifests |-> empty]
  BY DEF Init
<1> HIDE DEF none, empty
<1>6. Whole(none, empty, empty)
  BY <1>1, <1>2, <1>4 DEF Whole, Accounted, Counted, Closed
<1>7. RowInv
  BY <1>1, <1>4, <1>5, <1>6 DEF RowInv
<1>8. \A o \in Operators : Listed(call[o], items)
  BY DEF Init, Idle, Listed
<1>9. CallInv
  BY <1>8, PlaceTypes, CustodyAssumption DEF Init, CallInv, Statuses
<1> QED
  BY <1>7, <1>9 DEF IInv

\* Every step keeps it.
LEMMA NextIInv ==
    ASSUME IInv, [Next]_vars
    PROVE  IInv'
<1>1. ASSUME NEW m \in Manifests, NEW type \in Types, OpenManifest(m, type)
      PROVE  IInv'
  BY <1>1, OpenStep
<1>2. ASSUME NEW m \in Manifests, FinaliseReceipt(m) \/ Reconcile(m)
      PROVE  IInv'
  BY <1>2, FinaliseReceiptStep, ReconcileStep
<1>3. ASSUME NEW m \in Manifests, NEW p \in Parcels, ResolveDiscrepancy(m, p)
      PROVE  IInv'
  BY <1>3, ResolveStep
<1>4. ASSUME NEW o \in Operators, NEW m \in Manifests, OnManifest(o, m)
      PROVE  IInv'
  BY <1>4, BeginStep, SealStep, DispatchStep, ReceiveScanStep DEF OnManifest
<1>5. ASSUME NEW o \in Operators, NEW h \in Hubs, NEW p \in Parcels, BeginHubScan(o, h, p)
      PROVE  IInv'
  BY <1>5, BeginStep
<1>6. ASSUME NEW o \in Operators, Continue(o) \/ LoseCall(o)
      PROVE  IInv'
  BY <1>6, CommitAddItemStep, LoadShipmentsStep, CommitHubScanStep, RecordNextStep, LoseCallStep
  DEF Continue
<1>7. ASSUME NEW p \in Parcels, NEW type \in OtherEvents, ParcelEvent(p, type)
      PROVE  IInv'
  BY <1>7, ParcelEventStep
<1>8. CASE UNCHANGED vars
  BY <1>8, RowsKept, CallKept DEF IInv, vars, rows
<1> QED
  BY <1>1, <1>2, <1>3, <1>4, <1>5, <1>6, <1>7, <1>8 DEF Next

\* The manifests stay whole and the calls on them well-formed.
THEOREM CustodyInvariant == Spec => []IInv
BY InitIInv, NextIInv, PTL DEF Spec

-----------------------------------------------------------------------------
(* Theorems *)

\* It implies what the runs check.
LEMMA IInvMeaning ==
    ASSUME IInv
    PROVE  TypeOK /\ EveryItemAccounted /\ CountsAgree /\ ReconciledIsExplained
<1>1. \A m \in Manifests : Whole(manifest[m], items[m], disc[m])
  BY DEF IInv, RowInv
<1>2. EveryItemAccounted
  BY <1>1 DEF EveryItemAccounted, Whole, Accounted
<1>3. ReconciledIsExplained
  BY <1>1 DEF ReconciledIsExplained, Whole, Accounted
<1>4. CountsAgree
  BY <1>1 DEF CountsAgree, Whole, Counted
<1>5. TypeOK
  <2>1. ASSUME NEW m \in Manifests
        PROVE  /\ DOMAIN items[m] \subseteq Parcels /\ DOMAIN disc[m] \subseteq Parcels
               /\ \A p \in DOMAIN items[m] : items[m][p] \in Operators \cup {Nobody}
               /\ \A p \in DOMAIN disc[m] :
                     disc[m][p] \in [kind : {"MISSING", "UNEXPECTED"}, resolved : BOOLEAN]
    <3>1. items[m] \in PerParcel(Scanners) /\ disc[m] \in PerParcel(Discrepancy)
      BY <1>1 DEF Whole
    <3>2. /\ DOMAIN items[m] \in SUBSET Parcels /\ items[m] \in [DOMAIN items[m] -> Scanners]
          /\ DOMAIN disc[m] \in SUBSET Parcels /\ disc[m] \in [DOMAIN disc[m] -> Discrepancy]
      BY <3>1, PerParcelRows
    <3> QED
      BY <3>2 DEF Scanners, Discrepancy
  <2>2. \A o \in Operators :
           /\ call[o].at \in {"idle", "adding", "listing", "recording", "booking"}
           /\ call[o].at \in {"listing", "recording"} => call[o].left \subseteq DOMAIN items[call[o].manifest]
    BY PlaceFields DEF IInv, CallInv, Listed
  <2> QED
    BY <2>1, <2>2 DEF TypeOK, IInv, RowInv, CallInv, ManifestRow
<1> QED
  BY <1>2, <1>3, <1>4, <1>5

\* The tables keep their types, and what a call has left to record is on its
\* manifest.
THEOREM CustodyTypes == Spec => []TypeOK
BY CustodyInvariant, IInvMeaning, PTL

\* finaliseReceipt accounts for every item of the manifest, for any manifests,
\* parcels and operators.
THEOREM ReceiptAccounts == Spec => []EveryItemAccounted
BY CustodyInvariant, IInvMeaning, PTL

\* A manifest's counts stay those of its rows: the lock and the statuses keep
\* every other writer out once they are taken.
THEOREM CountsHold == Spec => []CountsAgree
BY CustodyInvariant, IInvMeaning, PTL

\* A reconciled manifest has no unexplained discrepancy, and never gets one.
THEOREM NothingUnexplained == Spec => []ReconciledIsExplained
BY CustodyInvariant, IInvMeaning, PTL

\* A call moves a parcel only with a fact it has not recorded before.
THEOREM ReplayIsHarmless == Spec => ReplayMovesNothing
<1> DEFINE Harmless == \A p \in Parcels : parcel'[p] # parcel[p] /\ call' # call => facts' # facts
<1>1. ASSUME NEW o, NEW q, NEW type, NEW key, NEW next, RecordEvent(o, q, type, key, next)
      PROVE  Harmless
  BY <1>1 DEF RecordEvent, Recorded
<1>2. ASSUME UNCHANGED parcel \/ UNCHANGED call
      PROVE  Harmless
  BY <1>2
<1>3. ASSUME Next
      PROVE  Harmless
  <2>1. CASE \E o \in Operators : CommitHubScan(o) \/ \E p \in Parcels : RecordNext(o, p)
    BY <1>1, <2>1 DEF CommitHubScan, RecordNext
  <2>2. CASE ~\E o \in Operators : CommitHubScan(o) \/ \E p \in Parcels : RecordNext(o, p)
    <3>1. UNCHANGED parcel \/ UNCHANGED call
      BY <1>3, <2>2
      DEF Next, OpenManifest, FinaliseReceipt, Reconcile, ResolveDiscrepancy, OnManifest, BeginAddItem,
          Seal, Dispatch, ReceiveScan, BeginHubScan, Continue, CommitAddItem, LoadShipments, LoseCall,
          ParcelEvent
    <3> QED
      BY <1>2, <3>1
  <2> QED
    BY <2>1, <2>2
<1>4. [Next]_vars => [Harmless]_vars
  BY <1>3
<1> HIDE DEF Harmless
<1>5. Spec => [][Harmless]_vars
  BY <1>4, PTL DEF Spec
<1> QED
  BY <1>5 DEF Harmless, ReplayMovesNothing
=============================================================================
