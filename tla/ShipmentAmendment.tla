------------------------- MODULE ShipmentAmendment -------------------------
(***************************************************************************)
(* Changing a parcel already in the system (ShipmentAmendmentService) next *)
(* to the commands of Shipment.  Applying a change is three transactions:  *)
(* one reads the request, one (outside) geocodes, the last reads the       *)
(* parcel without a lock, overwrites its row and closes the request.  So a *)
(* decider's call is a little program whose steps interleave with every    *)
(* command and with the other deciders.                                    *)
(* The -Mutant operators are wrong on purpose: the code with one fault in  *)
(* it, to show that a property notices.  Nothing here uses them.           *)
(***************************************************************************)
EXTENDS Shipment

CONSTANTS
    Deciders,      \* staff who hold shipment:amend_approve
    MaxAmendments  \* bound: requests made in one behaviour

ASSUME AmendmentAssumption ==
    /\ Deciders \subseteq Staff
    /\ MaxAmendments \in Nat
    /\ None \notin Amounts

VARIABLES
    amendments,  \* shipment_amendments, in the order of insertion
    deciding,    \* deciding[c]: the apply call c is inside
    trail        \* the cod.amount_changed audit entries

amendmentVars == <<amendments, deciding, trail>>
allVars == <<vars, amendmentVars>>

Amendment == [shipment : Shipments, amount : Amounts \cup {None},
              status : {"PENDING", "APPLIED", "REJECTED"}]

\* An apply call: before, after requirePending, after it read the parcel.
Idle == [at |-> "idle", id |-> 0, read |-> 0]
Call == [at : {"idle", "resolving", "writing"}, id : Nat, read : Amounts]

-----------------------------------------------------------------------------
\* requireAmendable and assertCodAmendable.
Amendable(r, amount) ==
    /\ r.status \notin TerminalStatuses
    /\ amount # None => r.cod \in {"NOT_APPLICABLE", "PENDING"}

NoneWaitingMutant(s) == TRUE

\* shipment_amendments_one_pending_uq.
NoneWaiting(s) ==
    \A a \in DOMAIN amendments :
        amendments[a].shipment = s => amendments[a].status # "PENDING"

Waiting(a) == amendments[a].status = "PENDING"

\* The request, whose amount is None when the change is not to the cash.  With
\* the approve permission the requester goes on to apply it.
RequestAmendment(s, amount, c) ==
    LET asked == [shipment |-> s, amount |-> amount, status |-> "PENDING"]
    IN /\ Len(amendments) < MaxAmendments
       /\ Exists(s)
       /\ Amendable(row[s], amount)
       /\ NoneWaiting(s)
       /\ amendments' = Append(amendments, asked)
       /\ \/ UNCHANGED deciding
          \/ /\ deciding[c] = Idle
             /\ deciding' = [deciding EXCEPT ![c] = [at |-> "resolving", read |-> 0,
                                                     id |-> Len(amendments) + 1]]
       /\ UNCHANGED <<vars, trail>>

\* apply, first transaction.
BeginApply(c, a) ==
    /\ deciding[c] = Idle
    /\ Waiting(a)
    /\ deciding' = [deciding EXCEPT ![c] = [at |-> "resolving", id |-> a, read |-> 0]]
    /\ UNCHANGED <<vars, amendments, trail>>

\* The address and the recipient are resolved; the last transaction starts and
\* selects the parcel.
ReadParcel(c) ==
    LET a == amendments[deciding[c].id]
        r == row[a.shipment]
    IN /\ deciding[c].at = "resolving"
       /\ deciding' = [deciding EXCEPT ![c] =
                         IF Amendable(r, a.amount)
                         THEN [@ EXCEPT !.at = "writing", !.read = r.amount] ELSE Idle]
       /\ UNCHANGED <<vars, amendments, trail>>

StillPendingMutant(a) == TRUE

\* UPDATE shipment_amendments ... WHERE status = 'PENDING' hits a row.
StillPending(a) == Waiting(a)

\* It overwrites the parcel by id, whatever happened to it since, and closes
\* the request; when someone else closed it first, everything is rolled back.
CommitApply(c) ==
    LET id == deciding[c].id
        a  == amendments[id]
    IN /\ deciding[c].at = "writing"
       /\ deciding' = [deciding EXCEPT ![c] = Idle]
       /\ IF StillPending(id)
          THEN /\ amendments' = [amendments EXCEPT ![id].status = "APPLIED"]
               /\ IF a.amount = None THEN UNCHANGED <<row, trail>>
                  ELSE /\ row' = [row EXCEPT ![a.shipment].amount = a.amount,
                                             ![a.shipment].cod = CodFor(a.amount)]
                       /\ trail' = Append(trail, [shipment |-> a.shipment,
                                                  from |-> deciding[c].read,
                                                  to |-> a.amount])
          ELSE UNCHANGED <<row, amendments, trail>>
       /\ UNCHANGED <<log, legs, pods, facts, uses, reply>>

\* The call fails (the geocoder, the process) before its last transaction ends.
FailApply(c) ==
    /\ deciding[c] # Idle
    /\ deciding' = [deciding EXCEPT ![c] = Idle]
    /\ UNCHANGED <<vars, amendments, trail>>

RejectAmendment(a) ==
    /\ Waiting(a)
    /\ amendments' = [amendments EXCEPT ![a].status = "REJECTED"]
    /\ UNCHANGED <<vars, deciding, trail>>

-----------------------------------------------------------------------------
AmendmentInit ==
    /\ Init
    /\ amendments = <<>>
    /\ deciding = [c \in Deciders |-> Idle]
    /\ trail = <<>>

Command == Next /\ UNCHANGED amendmentVars

AmendmentNext ==
    \/ Command
    \/ \E s \in Shipments, amount \in Amounts \cup {None}, c \in Deciders :
          RequestAmendment(s, amount, c)
    \/ \E c \in Deciders, a \in DOMAIN amendments : BeginApply(c, a)
    \/ \E c \in Deciders : ReadParcel(c)
    \/ \E c \in Deciders : CommitApply(c)
    \/ \E c \in Deciders : FailApply(c)
    \/ \E a \in DOMAIN amendments : RejectAmendment(a)

AmendmentSpec == AmendmentInit /\ [][AmendmentNext]_allVars

-----------------------------------------------------------------------------
(* Properties *)

\* Types of the tables and of the calls in flight; an amended parcel is still a
\* row that create could have written.
AmendmentTypeOK ==
    /\ TypeOK
    /\ amendments \in Seq(Amendment)
    /\ deciding \in [Deciders -> Call]
    /\ trail \in Seq([shipment : Shipments, from : Amounts, to : Amounts])

\* A request is decided once: what one decider applied or rejected no other,
\* late with the answer of a slow geocoder, decides again; and what a parcel
\* owes changes only by a request that was waiting until then.
DecidedOnce ==
    [][/\ \A a \in DOMAIN amendments :
             ~Waiting(a) => amendments'[a] = amendments[a]
       /\ \A s \in Shipments :
             Exists(s) /\ row'[s].amount # row[s].amount =>
                 \E a \in DOMAIN amendments :
                     /\ amendments[a].shipment = s /\ amendments[a].amount = row'[s].amount
                     /\ Waiting(a) /\ amendments'[a].status = "APPLIED"]_allVars

\* The amount the parcel was created with, from its create request.
CreatedAmount(s) == uses[log[s][1].key].request.amount

\* The audit entries of a parcel before the n-th of the trail.
EntriesBefore(s, n) == {i \in DOMAIN trail : i < n /\ trail[i].shipment = s}

\* What it owed when the n-th was written, as the trail tells it.
OwedBefore(s, n) ==
    IF EntriesBefore(s, n) = {} THEN CreatedAmount(s) ELSE trail[LastOf(EntriesBefore(s, n))].to

\* The audit trail of a parcel's amount is a chain from the amount it was
\* created with to the amount it has: no entry's `previous` is a stale read.
AuditTrailIsAChain ==
    \A s \in Shipments :
        Exists(s) =>
            /\ \A n \in DOMAIN trail :
                  trail[n].shipment = s => trail[n].from = OwedBefore(s, n)
            /\ row[s].amount = OwedBefore(s, Len(trail) + 1)

-----------------------------------------------------------------------------
(* What the repository says of the program and the code does not do *)

\* docs/02-domain-model.md, 5.2: a parcel that ended may not be left PENDING,
\* the status that cash-in-field sums.
NoEndedParcelPending ==
    \A s \in Shipments : row[s].status \in TerminalStatuses => row[s].cod # "PENDING"

\* docs/02-domain-model.md, 3.6 rule 5: codAmountMinor is immutable once the
\* status has passed PICKED_UP.
AmountFixedAfterPickup ==
    [][\A s \in Shipments :
          row[s].status \notin {"CREATED", "ASSIGNED", "PICKED_UP"} =>
              row'[s].amount = row[s].amount]_allVars
=============================================================================
