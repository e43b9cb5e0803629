------------------------------ MODULE Shipment ------------------------------
(***************************************************************************)
(* The shipment aggregate: the `shipments` row, its custody log            *)
(* (`shipment_events`), its legs, its proof of delivery, the cod.collected *)
(* facts it writes to the outbox, and the table of idempotency keys.       *)
(*                                                                         *)
(* Every command of ShipmentService takes the row lock first and does all  *)
(* its work in that one transaction (runCommand), so a command is one      *)
(* action.  A key is named by the position of its row in `uses`: a request *)
(* with a new key appends to `uses`, a request that presents a used key is *)
(* the action Resend.                                                      *)
(* The -Mutant operators are wrong on purpose: the code with one fault in  *)
(* it, to show that a property notices.  Nothing here uses them.           *)
(***************************************************************************)
EXTENDS ShipmentStatus, Integers, Sequences, FiniteSets

CONSTANTS
    Shipments,    \* shipment ids
    Drivers,      \* rows of `drivers`; a driver's login is named by the driver
    Staff,        \* logins with no driver record
    Hubs,
    Amounts,      \* COD amounts, 0 for "not COD"
    MaxAttempts,  \* max_attempts of every shipment
    None,         \* SQL NULL
    MaxCommands   \* bound: commands that are applied in one behaviour

ASSUME ShipmentAssumption ==
    /\ 0 \in Amounts /\ Amounts \subseteq Nat
    /\ MaxAttempts \in Nat
    /\ MaxCommands \in Nat
    /\ None \notin Drivers \cup Staff \cup Hubs
    /\ Drivers \cap Staff = {}

VARIABLES
    row,    \* row[s]: the shipments row; row[s].seq = 0 before it is inserted
    log,    \* log[s]: shipment_events of s in sequence order
    legs,   \* legs[s]: shipment_legs of s by leg_number
    pods,   \* shipments with a pod row (pod_shipment_uq: at most one each)
    facts,  \* facts[s]: the cod.collected events published for s
    uses,   \* shipment_command_keys, in the order of insertion
    reply   \* the last replayed outcome handed to a caller

vars == <<row, log, legs, pods, facts, uses, reply>>

-----------------------------------------------------------------------------
(* Rows *)

CodStatuses == {"NOT_APPLICABLE", "PENDING", "COLLECTED", "CANCELLED"}
Callers == Drivers \cup Staff
SomeDriver == Drivers \cup {None}

Custody == [kind : {"DRIVER", "HUB", "NOBODY"}, id : Drivers \cup Hubs \cup {None}]

Row == [status : Statuses, seq : Nat, custody : Custody, attempts : Nat,
        amount : Amounts, cod : CodStatuses, lastDriver : SomeDriver, due : BOOLEAN]

Event == [type : EventTypes, driver : SomeDriver, hub : Hubs \cup {None}, key : Nat]

Leg == [type : {"LAST_MILE", "RETURN"}, status : {"PLANNED", "IN_PROGRESS", "COMPLETED"}]

\* What a request says besides the shipment and the command; its fingerprint.
\* `flag` stands for the one yes/no that matters to the command: the cash was
\* collected, or the failure reason allows another attempt.
Request == [driver : SomeDriver, hub : Hubs \cup {None}, leg : Nat, amount : Amounts,
            flag : BOOLEAN]
Plain == [driver |-> None, hub |-> None, leg |-> 0, amount |-> 0, flag |-> FALSE]

\* The types recordEvent's callers pass: dispatch assigns and sends out for
\* delivery, custody scans, loads and departs, a pickup scan assigns.
DispatchEvents == {"assigned", "out_for_delivery"}
HubEvents == {"arrived_at_hub", "loaded", "departed"}

Commands ==
    {"create", "pickup", "pickup_scan", "deliver", "fail", "return", "return_complete",
     "cancel"} \cup DispatchEvents \cup HubEvents

Use == [shipment : Shipments, command : Commands, caller : Callers, request : Request,
        outcome : Row]

Reply == [key : Nat, command : Commands, shipment : Shipments, outcome : Row]

CodForMutant(amount) == IF amount > 0 THEN "PENDING" ELSE "NONE"
CodFor(amount) == IF amount > 0 THEN "PENDING" ELSE "NOT_APPLICABLE"

NewRow(amount) ==
    [status |-> "CREATED", seq |-> 0, custody |-> [kind |-> "NOBODY", id |-> None],
     attempts |-> 0, amount |-> amount, cod |-> CodFor(amount), lastDriver |-> None,
     due |-> FALSE]

Exists(s) == row[s].seq > 0
HeldByMutant(r, d) == r.custody.kind = "DRIVER"
HeldBy(r, d) == r.custody = [kind |-> "DRIVER", id |-> d]
OpenReturnLegs(s) ==
    {i \in DOMAIN legs[s] : /\ legs[s][i].type = "RETURN"
                            /\ legs[s][i].status \in {"PLANNED", "IN_PROGRESS"}}

-----------------------------------------------------------------------------
(* ShipmentEventService.applyTo: one event, validated and projected.       *)

NextKey == Len(uses) + 1

EventOf(type, driver, hub) ==
    [type |-> type, driver |-> driver, hub |-> hub, key |-> NextKey]

LegalMutant(r, type, canOverride) ==
    CheckTransition(r.status, type) = "allowed" \/ canOverride

\* resolveTargetStatus: the guard of every append.
Legal(r, type, canOverride) ==
    \/ CheckTransition(r.status, type) = "allowed"
    \/ CheckTransition(r.status, type) = "requires_override" /\ canOverride

\* The projection of one event onto the row.
ApplyTo(r, e) ==
    [r EXCEPT !.status     = TargetStatus(e.type, r.status),
              !.seq        = @ + 1,
              !.custody    = CustodyAfter(e.type, e.driver, e.hub, None, @),
              !.lastDriver = IF e.driver = None THEN @ ELSE e.driver]

ApplyAttemptMutant(r, e) == ApplyTo(r, e)

\* The same for an event recorded with incrementAttempt.
ApplyAttempt(r, e) == [ApplyTo(r, e) EXCEPT !.attempts = @ + 1]

BackMutant(r, e) == ApplyTo(r, e)

\* The same for a return_initiated: no delivery attempt is due any more.
Back(r, e) == [ApplyTo(r, e) EXCEPT !.due = FALSE]

CollectCashMutant(fs, r, d) == Append(fs, [driver |-> d, amount |-> r.amount])

\* cod.collected, the ledger's fact, for a COD delivery only.
CollectCash(fs, r, d) ==
    IF r.amount > 0 THEN Append(fs, [driver |-> d, amount |-> r.amount]) ELSE fs

CloseUncollectedCodMutant(r) == r

\* closeUncollectedCod: a COD that will never be collected is closed.
CloseUncollectedCod(r) == [r EXCEPT !.cod = IF @ = "PENDING" THEN "CANCELLED" ELSE @]

SpawnReturnLegMutant(ls) == Append(ls, [type |-> "RETURN", status |-> "PLANNED"])

\* spawnReturnLeg: never a second RETURN leg on a parcel that has one.
SpawnReturnLeg(ls) ==
    IF \E i \in DOMAIN ls : ls[i].type = "RETURN" THEN ls
    ELSE Append(ls, [type |-> "RETURN", status |-> "PLANNED"])

\* runCommand's end: the events and the row are written and the key is
\* recorded with the shipment as the command left it.
Commit(s, command, caller, request, es, r) ==
    /\ Len(uses) < MaxCommands
    /\ row' = [row EXCEPT ![s] = r]
    /\ log' = [log EXCEPT ![s] = @ \o es]
    /\ uses' = Append(uses, [shipment |-> s, command |-> command, caller |-> caller,
                             request |-> request, outcome |-> r])
    /\ reply' = <<>>

-----------------------------------------------------------------------------
(* Commands *)

Create(s, caller, amount) ==
    LET e == EventOf("created", None, None)
    IN /\ ~Exists(s)
       /\ legs' = [legs EXCEPT ![s] = <<[type |-> "LAST_MILE", status |-> "PLANNED"]>>]
       /\ Commit(s, "create", caller, [Plain EXCEPT !.amount = amount], <<e>>,
                 ApplyTo(NewRow(amount), e))
       /\ UNCHANGED <<pods, facts>>

\* The driver behind a login, or None for staff.
DriverOf(caller) == IF caller \in Drivers THEN caller ELSE None

\* recordPickup (staff name the driver) and recordPickupScan (the collector's
\* own driver record, if there is one).
RecordPickup(s, command, caller, d, leg) ==
    LET e == EventOf("picked_up", d, None)
    IN /\ Exists(s)
       /\ Legal(row[s], e.type, FALSE)
       /\ legs' = [legs EXCEPT ![s][leg].status = "IN_PROGRESS"]
       /\ Commit(s, command, caller, [Plain EXCEPT !.driver = d, !.leg = leg], <<e>>,
                 ApplyTo(row[s], e))
       /\ UNCHANGED <<pods, facts>>

\* confirmDelivery: the caller is the driver and holds the parcel; a COD
\* parcel needs codCollected and a proof stronger than contactless (both are
\* `cash`).  Attempt, proof, delivery, cash fact, leg.
ConfirmDelivery(s, d, cash, leg) ==
    LET isCod == row[s].amount > 0
        tried == EventOf("delivery_attempted", d, None)
        done  == EventOf("delivered", d, None)
        r1    == ApplyAttempt(row[s], tried)
        r2    == ApplyTo(r1, done)
    IN /\ Exists(s)
       /\ HeldBy(row[s], d)
       /\ isCod => cash
       /\ s \notin pods
       /\ Legal(row[s], tried.type, FALSE)
       /\ Legal(r1, done.type, FALSE)
       /\ pods' = pods \cup {s}
       /\ facts' = [facts EXCEPT ![s] = CollectCash(@, row[s], d)]
       /\ legs' = [legs EXCEPT ![s][leg].status = "COMPLETED"]
       /\ Commit(s, "deliver", d, [Plain EXCEPT !.leg = leg, !.flag = cash], <<tried, done>>,
                 IF isCod THEN [r2 EXCEPT !.cod = "COLLECTED"] ELSE r2)

\* decideReattempt: the reason decides first, then the attempt count.
MayReattempt(reasonAllows, attemptNumber) ==
    reasonAllows /\ attemptNumber < MaxAttempts

\* recordFailedAttempt: the failure, then either the next attempt is due or
\* the return is initiated in the same transaction.
RecordFailedAttempt(s, d, reasonAllows) ==
    LET tried  == EventOf("delivery_attempted", d, None)
        failed == EventOf("delivery_failed", d, None)
        back   == EventOf("return_initiated", None, None)
        r1     == ApplyAttempt(row[s], tried)
        r2     == ApplyTo(r1, failed)
    IN /\ Exists(s)
       /\ HeldBy(row[s], d)
       /\ Legal(row[s], tried.type, FALSE)
       /\ Legal(r1, failed.type, FALSE)
       /\ \/ /\ MayReattempt(reasonAllows, row[s].attempts + 1)
             /\ Commit(s, "fail", d, [Plain EXCEPT !.flag = reasonAllows], <<tried, failed>>,
                       [r2 EXCEPT !.due = TRUE])
             /\ UNCHANGED legs
          \/ /\ ~MayReattempt(reasonAllows, row[s].attempts + 1)
             /\ Legal(r2, back.type, FALSE)
             /\ Commit(s, "fail", d, [Plain EXCEPT !.flag = reasonAllows],
                       <<tried, failed, back>>, Back(r2, back))
             /\ legs' = [legs EXCEPT ![s] = SpawnReturnLeg(@)]
       /\ UNCHANGED <<pods, facts>>

InitiateReturn(s, caller) ==
    LET e == EventOf("return_initiated", None, None)
    IN /\ Exists(s)
       /\ Legal(row[s], e.type, FALSE)
       /\ legs' = [legs EXCEPT ![s] = SpawnReturnLeg(@)]
       /\ Commit(s, "return", caller, Plain, <<e>>, Back(row[s], e))
       /\ UNCHANGED <<pods, facts>>

\* returningDriver: any staff, or a driver unless another driver holds it.
MayReturn(r, caller) ==
    caller \in Drivers => (r.custody.kind = "DRIVER" => HeldBy(r, caller))

CompleteReturn(s, caller) ==
    LET e == EventOf("returned", DriverOf(caller), None)
    IN /\ Exists(s)
       /\ MayReturn(row[s], caller)
       /\ Legal(row[s], e.type, FALSE)
       /\ legs' = [legs EXCEPT ![s] =
                     [i \in DOMAIN @ |-> IF i \in OpenReturnLegs(s)
                                         THEN [@[i] EXCEPT !.status = "COMPLETED"]
                                         ELSE @[i]]]
       /\ Commit(s, "return_complete", caller, Plain, <<e>>,
                 CloseUncollectedCod(ApplyTo(row[s], e)))
       /\ UNCHANGED <<pods, facts>>

Cancel(s, caller, canOverride) ==
    LET e == EventOf("cancelled", None, None)
    IN /\ Exists(s)
       /\ Legal(row[s], e.type, canOverride)
       /\ Commit(s, "cancel", caller, Plain, <<e>>, CloseUncollectedCod(ApplyTo(row[s], e)))
       /\ UNCHANGED <<legs, pods, facts>>

\* recordEvent: any other event a caller in the process may record.
RecordEvent(s, caller, type, d, h) ==
    LET e == EventOf(type, d, h)
    IN /\ Exists(s)
       /\ Legal(row[s], type, FALSE)
       /\ Commit(s, type, caller, [Plain EXCEPT !.driver = d, !.hub = h], <<e>>,
                 ApplyTo(row[s], e))
       /\ UNCHANGED <<legs, pods, facts>>

\* A client or the system presents the content of its i-th applied request
\* under the used key k: its own key when it retries, another when it reuses
\* one.  assertSameRequest decides whether the recorded outcome is returned;
\* a refusal changes nothing.
FactBound(command) == command \in DispatchEvents \cup HubEvents \cup {"pickup_scan"}

SameRequestMutant(prior, now) ==
    /\ prior.command = now.command
    /\ ~FactBound(now.command) => /\ prior.caller = now.caller
                                  /\ prior.request = now.request

SameRequest(prior, now) ==
    /\ prior.command = now.command
    /\ now.command # "create" => prior.shipment = now.shipment
    /\ ~FactBound(now.command) => /\ prior.caller = now.caller
                                  /\ prior.request = now.request

Resend(i, k) ==
    /\ SameRequest(uses[k], uses[i])
    /\ reply' = <<[key |-> k, command |-> uses[i].command,
                   shipment |-> IF uses[i].command = "create" THEN uses[k].shipment
                                ELSE uses[i].shipment,
                   outcome |-> uses[k].outcome]>>
    /\ UNCHANGED <<row, log, legs, pods, facts, uses>>

-----------------------------------------------------------------------------
Init ==
    /\ row = [s \in Shipments |-> NewRow(0)]
    /\ log = [s \in Shipments |-> <<>>]
    /\ legs = [s \in Shipments |-> <<>>]
    /\ pods = {}
    /\ facts = [s \in Shipments |-> <<>>]
    /\ uses = <<>>
    /\ reply = <<>>

DriverCommand(s) ==
    \E d \in Drivers :
        \/ \E cash \in BOOLEAN, leg \in DOMAIN legs[s] : ConfirmDelivery(s, d, cash, leg)
        \/ \E reasonAllows \in BOOLEAN : RecordFailedAttempt(s, d, reasonAllows)

StaffCommand(s) ==
    \E caller \in Staff :
        \/ \E amount \in Amounts : Create(s, caller, amount)
        \/ \E d \in Drivers, leg \in DOMAIN legs[s] : RecordPickup(s, "pickup", caller, d, leg)
        \/ InitiateReturn(s, caller)
        \/ \E canOverride \in BOOLEAN : Cancel(s, caller, canOverride)
        \/ \E type \in DispatchEvents, d \in Drivers : RecordEvent(s, caller, type, d, None)
        \/ \E type \in HubEvents, h \in Hubs : RecordEvent(s, caller, type, None, h)

\* What a driver or a member of staff may do alike; the first two are the
\* pickup.parcel_scanned handler's.
CollectorCommand(s) ==
    \E caller \in Callers :
        \/ RecordEvent(s, caller, "assigned", DriverOf(caller), None)
        \/ \E leg \in DOMAIN legs[s] :
              RecordPickup(s, "pickup_scan", caller, DriverOf(caller), leg)
        \/ CompleteReturn(s, caller)

Next ==
    \/ \E s \in Shipments : DriverCommand(s)
    \/ \E s \in Shipments : StaffCommand(s)
    \/ \E s \in Shipments : CollectorCommand(s)
    \/ \E i, k \in DOMAIN uses : Resend(i, k)

Spec == Init /\ [][Next]_vars

-----------------------------------------------------------------------------
(* Properties *)

\* Types of the tables.
TypeOK ==
    /\ row \in [Shipments -> Row]
    /\ log \in [Shipments -> Seq(Event)]
    /\ legs \in [Shipments -> Seq(Leg)]
    /\ pods \subseteq Shipments
    /\ facts \in [Shipments -> Seq([driver : Drivers, amount : Amounts])]
    /\ uses \in Seq(Use)
    /\ reply \in Seq(Reply)

\* The last of a non-empty set of positions of a log.
LastOf(S) == CHOOSE i \in S : \A j \in S : j <= i

Driving(l) == {i \in DOMAIN l : l[i].type \notin Annotations \cup {"created"}}
MovesCustody(l) == {i \in DOMAIN l : l[i].type \in ToDriver \cup ToHub \cup ToNobody}
Naming(l) == {i \in DOMAIN l : l[i].driver # None}
Attempts(l) == {i \in DOMAIN l : l[i].type = "delivery_attempted"}

StatusOf(l) ==
    IF Driving(l) = {} THEN "CREATED" ELSE TargetStatus(l[LastOf(Driving(l))].type, "CREATED")

CustodyOf(l) ==
    LET nobody == [kind |-> "NOBODY", id |-> None]
        i == LastOf(MovesCustody(l))
    IN IF MovesCustody(l) = {} THEN nobody
       ELSE CustodyAfter(l[i].type, l[i].driver, l[i].hub, None, nobody)

IsProjection(r, l) ==
    /\ r.status = StatusOf(l)
    /\ r.seq = Len(l)
    /\ r.custody = CustodyOf(l)
    /\ r.attempts = Cardinality(Attempts(l))
    /\ r.lastDriver = IF Naming(l) = {} THEN None ELSE l[LastOf(Naming(l))].driver

\* I10: the row is the projection of the custody log: status, sequence, holder,
\* attempt count and last named driver can be recomputed from the events alone.
RowIsProjection == \A s \in Shipments : IsProjection(row[s], log[s])

\* Rule 11: a terminal shipment accepts no further event, from any actor, and
\* nothing of its row, its legs, its proof or its cash facts changes again.
TerminalKept ==
    \A s \in Shipments :
        row[s].status \in TerminalStatuses =>
            /\ row'[s] = row[s] /\ log'[s] = log[s] /\ legs'[s] = legs[s]
            /\ facts'[s] = facts[s] /\ (s \in pods' <=> s \in pods)

TerminalIsFinal == [][TerminalKept]_vars

\* I26: whoever is recorded as delivering a parcel, or as failing to, is the
\* driver to whom the last custody event before it handed the parcel.
OutcomeIsTheHolders ==
    \A s \in Shipments : \A i \in DOMAIN log[s] :
        log[s][i].type \in {"delivered", "delivery_failed"} =>
            CustodyOf(SubSeq(log[s], 1, i - 1))
                = [kind |-> "DRIVER", id |-> log[s][i].driver]

\* Rules 7 and 8, I3: a shipment is DELIVERED exactly when it has a proof; its
\* cash is reported to the ledger exactly once, if it is a COD shipment, for
\* the amount on the row and for the driver the log says delivered it.
DeliveredHasProofAndCash ==
    \A s \in Shipments :
        /\ row[s].status = "DELIVERED" <=> s \in pods
        /\ facts[s] = IF row[s].status = "DELIVERED" /\ row[s].amount > 0
                      THEN <<[driver |-> log[s][Len(log[s])].driver, amount |-> row[s].amount]>>
                      ELSE <<>>

\* Domain 5.2: the COD status agrees with where the parcel is.  Cash is pending
\* while the parcel lives, collected when it is delivered, and closed, never
\* left pending, once it is returned or cancelled.
CodExpected(r) ==
    IF r.amount = 0 THEN "NOT_APPLICABLE"
    ELSE IF r.status = "DELIVERED" THEN "COLLECTED"
    ELSE IF r.status \in TerminalStatuses THEN "CANCELLED"
    ELSE "PENDING"

CodFollowsParcel == \A s \in Shipments : row[s].cod = CodExpected(row[s])

\* Leg rule 6: a parcel that has to go back always has exactly one RETURN leg to
\* carry it, open until the return is recorded and closed by it.
ReturnHasTransport ==
    \A s \in Shipments :
        LET returns == {i \in DOMAIN legs[s] : legs[s][i].type = "RETURN"}
            everInitiated == \E i \in DOMAIN log[s] : log[s][i].type = "return_initiated"
        IN /\ Cardinality(returns) = IF everInitiated THEN 1 ELSE 0
           /\ row[s].status = "RETURN_PENDING" => OpenReturnLegs(s) # {}
           /\ row[s].status = "RETURNED" => OpenReturnLegs(s) = {}

\* A parcel on its way back has no delivery attempt due.
NoAttemptDueOnTheWayBack ==
    \A s \in Shipments : row[s].status \in {"RETURN_PENDING", "RETURNED"} => ~row[s].due

\* I29: a success answered to a repeated request is about that request: the
\* parcel's log holds the events recorded under the presented key, and the
\* outcome is the shipment as those events left it, whatever happened since.
ReplyIsItsHistory ==
    \A n \in DOMAIN reply :
        LET l == log[reply[n].shipment]
            mine == {i \in DOMAIN l : l[i].key = reply[n].key}
        IN /\ mine # {}
           /\ IsProjection(reply[n].outcome, SubSeq(l, 1, LastOf(mine)))

-----------------------------------------------------------------------------
(* What the repository says of the program and the code does not do *)

\* docs/02-domain-model.md, 3.6 rule 9: attemptCount >= maxAttempts blocks
\* further attempts.
AttemptsAreCapped == \A s \in Shipments : row[s].attempts <= MaxAttempts

\* shipment/domain/schema.ts: nextAttemptAt is NULL when no further attempt is
\* due: delivered, returning, refused, or attempts exhausted.
NoAttemptDueOnceDelivered == \A s \in Shipments : row[s].status = "DELIVERED" => ~row[s].due

\* shipment/domain/shipment-status.ts: a terminal delivery, return or cancel
\* releases custody.
TerminalReleasesCustody ==
    \A s \in Shipments :
        row[s].status \in TerminalStatuses => row[s].custody.kind = "NOBODY"
=============================================================================
