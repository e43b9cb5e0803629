--------------------------- MODULE ShipmentProofs ---------------------------
(***************************************************************************)
(* Proofs about Shipment and about its amendments, for every set of        *)
(* parcels, drivers, staff, hubs, deciders and amounts and every bound on  *)
(* commands and requests.                                                  *)
(***************************************************************************)
EXTENDS ShipmentAmendment, TLAPS, SequenceTheorems, FiniteSetTheorems

-----------------------------------------------------------------------------
(* Lemmas on the pure operators *)

\* An event keeps a status within the eleven of the state machine.
LEMMA TargetStatusType ==
    ASSUME NEW type, NEW current \in Statuses
    PROVE  TargetStatus(type, current) \in Statuses
BY DEF TargetStatus, Statuses, TerminalStatuses

\* An event leaves a well-formed holder.
LEMMA CustodyAfterType ==
    ASSUME NEW e \in Event, NEW current \in Custody
    PROVE  CustodyAfter(e.type, e.driver, e.hub, None, current) \in Custody
<1>1. e.driver \in Drivers \cup Hubs \cup {None} /\ e.hub \in Drivers \cup Hubs \cup {None}
  BY DEF Event, SomeDriver
<1> QED
  BY <1>1 DEF CustodyAfter, Custody

\* The projection of an event is a row again.
LEMMA ApplyToType ==
    ASSUME NEW r \in Row, NEW e \in Event
    PROVE  /\ ApplyTo(r, e) \in Row
           /\ ApplyTo(r, e).seq = r.seq + 1
           /\ ApplyTo(r, e).status = TargetStatus(e.type, r.status)
           /\ ApplyTo(r, e).amount = r.amount
           /\ ApplyTo(r, e).cod = r.cod
           /\ ApplyTo(r, e).attempts = r.attempts
           /\ ApplyTo(r, e).due = r.due
<1> DEFINE status == TargetStatus(e.type, r.status)
           custody == CustodyAfter(e.type, e.driver, e.hub, None, r.custody)
           driver == IF e.driver = None THEN r.lastDriver ELSE e.driver
           seq == r.seq + 1
<1>1. status \in Statuses
  BY TargetStatusType DEF Row
<1>2. custody \in Custody
  BY CustodyAfterType DEF Row
<1>3. driver \in SomeDriver
  BY DEF Event, Row
<1>4. seq \in Nat
  BY DEF Row
<1>5. ApplyTo(r, e) = [r EXCEPT !.status = status, !.seq = seq, !.custody = custody,
                                !.lastDriver = driver]
  BY DEF ApplyTo
<1> HIDE DEF status, custody, driver, seq
<1>6. /\ ApplyTo(r, e) \in Row
      /\ ApplyTo(r, e).seq = seq
      /\ ApplyTo(r, e).status = status
      /\ ApplyTo(r, e).amount = r.amount
      /\ ApplyTo(r, e).cod = r.cod
      /\ ApplyTo(r, e).attempts = r.attempts
      /\ ApplyTo(r, e).due = r.due
  BY <1>1, <1>2, <1>3, <1>4, <1>5 DEF Row
<1> QED
  BY <1>6 DEF status, seq

\* What a command appends is an event.
LEMMA EventOfType ==
    ASSUME TypeOK, NEW type \in EventTypes, NEW d \in SomeDriver, NEW h \in Hubs \cup {None}
    PROVE  /\ EventOf(type, d, h) \in Event
           /\ EventOf(type, d, h).type = type
           /\ EventOf(type, d, h).driver = d
<1>1. NextKey \in Nat
  BY DEF NextKey, TypeOK
<1> QED
  BY <1>1 DEF EventOf, Event

\* The marks a command adds to a projected row keep it a row.
LEMMA MarkedRowType ==
    ASSUME NEW r \in Row, NEW cod \in CodStatuses, NEW due \in BOOLEAN
    PROVE  /\ [r EXCEPT !.cod = cod] \in Row
           /\ [r EXCEPT !.due = due] \in Row
BY DEF Row

LEMMA CloseUncollectedCodType ==
    ASSUME NEW r \in Row
    PROVE  /\ CloseUncollectedCod(r) \in Row
           /\ CloseUncollectedCod(r).status = r.status
           /\ CloseUncollectedCod(r).amount = r.amount
           /\ CloseUncollectedCod(r).cod = IF r.cod = "PENDING" THEN "CANCELLED" ELSE r.cod
           /\ CloseUncollectedCod(r).seq = r.seq
<1> DEFINE cod == IF r.cod = "PENDING" THEN "CANCELLED" ELSE r.cod
<1>1. cod \in CodStatuses
  BY DEF Row, CodStatuses
<1>2. CloseUncollectedCod(r) = [r EXCEPT !.cod = cod]
  BY DEF CloseUncollectedCod
<1> HIDE DEF cod
<1>3. /\ CloseUncollectedCod(r) \in Row
      /\ CloseUncollectedCod(r).status = r.status
      /\ CloseUncollectedCod(r).amount = r.amount
      /\ CloseUncollectedCod(r).cod = cod
      /\ CloseUncollectedCod(r).seq = r.seq
  BY <1>1, <1>2 DEF Row
<1> QED
  BY <1>3 DEF cod

LEMMA ApplyAttemptType ==
    ASSUME NEW r \in Row, NEW e \in Event
    PROVE  /\ ApplyAttempt(r, e) \in Row
           /\ ApplyAttempt(r, e).seq = r.seq + 1
           /\ ApplyAttempt(r, e).status = TargetStatus(e.type, r.status)
           /\ ApplyAttempt(r, e).amount = r.amount
           /\ ApplyAttempt(r, e).cod = r.cod
<1> DEFINE base == ApplyTo(r, e)
           attempts == base.attempts + 1
<1>1. base \in Row
  BY ApplyToType
<1>2. attempts \in Nat
  BY <1>1 DEF Row
<1>3. ApplyAttempt(r, e) = [base EXCEPT !.attempts = attempts]
  BY DEF ApplyAttempt
<1>4. /\ base.seq = r.seq + 1
      /\ base.status = TargetStatus(e.type, r.status)
      /\ base.amount = r.amount
      /\ base.cod = r.cod
  BY ApplyToType
<1> HIDE DEF base, attempts
<1>5. /\ ApplyAttempt(r, e) \in Row
      /\ ApplyAttempt(r, e).seq = base.seq
      /\ ApplyAttempt(r, e).status = base.status
      /\ ApplyAttempt(r, e).amount = base.amount
      /\ ApplyAttempt(r, e).cod = base.cod
  BY <1>1, <1>2, <1>3 DEF Row
<1> QED
  BY <1>4, <1>5

LEMMA BackType ==
    ASSUME NEW r \in Row, NEW e \in Event
    PROVE  /\ Back(r, e) \in Row
           /\ Back(r, e).seq = r.seq + 1
           /\ Back(r, e).status = TargetStatus(e.type, r.status)
           /\ Back(r, e).amount = r.amount
           /\ Back(r, e).cod = r.cod
<1> DEFINE base == ApplyTo(r, e)
<1>1. base \in Row
  BY ApplyToType
<1>2. Back(r, e) = [base EXCEPT !.due = FALSE]
  BY DEF Back
<1>3. /\ base.seq = r.seq + 1
      /\ base.status = TargetStatus(e.type, r.status)
      /\ base.amount = r.amount
      /\ base.cod = r.cod
  BY ApplyToType
<1> HIDE DEF base
<1>4. /\ Back(r, e) \in Row
      /\ Back(r, e).seq = base.seq
      /\ Back(r, e).status = base.status
      /\ Back(r, e).amount = base.amount
      /\ Back(r, e).cod = base.cod
  BY <1>1, <1>2 DEF Row
<1> QED
  BY <1>3, <1>4

-----------------------------------------------------------------------------
(* Lemmas on the legs *)

LEMMA LegStatusType ==
    ASSUME NEW ls \in Seq(Leg), NEW i \in DOMAIN ls,
           NEW status \in {"PLANNED", "IN_PROGRESS", "COMPLETED"}
    PROVE  [ls EXCEPT ![i].status = status] \in Seq(Leg)
<1>1. ls[i] \in Leg
  BY ElementOfSeq
<1> DEFINE leg == [ls[i] EXCEPT !.status = status]
<1>2. leg \in Leg
  BY <1>1 DEF Leg
<1>3. [ls EXCEPT ![i].status = status] = [ls EXCEPT ![i] = leg]
  OBVIOUS
<1> HIDE DEF leg
<1> QED
  BY <1>2, <1>3, ExceptSeq

LEMMA SpawnReturnLegType ==
    ASSUME NEW ls \in Seq(Leg)
    PROVE  SpawnReturnLeg(ls) \in Seq(Leg)
<1>1. [type |-> "RETURN", status |-> "PLANNED"] \in Leg
  BY DEF Leg
<1> QED
  BY <1>1 DEF SpawnReturnLeg

-----------------------------------------------------------------------------
(* The inductive invariant *)

\* A shipment that was not inserted yet is as NewRow leaves it.
UnbornIsCreated == \A s \in Shipments : row[s].seq = 0 => row[s].status = "CREATED"

IInv == TypeOK /\ CodFollowsParcel /\ DeliveredHasProofAndCash /\ UnbornIsCreated

\* A command whose event is legal starts from a living parcel.
LEMMA LegalMeansAlive ==
    ASSUME NEW r, NEW type, NEW canOverride, Legal(r, type, canOverride)
    PROVE  r.status \notin TerminalStatuses
BY DEF Legal, CheckTransition

\* The transaction's end keeps the types of the tables it writes.
LEMMA CommitType ==
    ASSUME TypeOK, NEW s \in Shipments, NEW command \in Commands, NEW caller \in Callers,
           NEW request \in Request, NEW es \in Seq(Event), NEW r \in Row,
           Commit(s, command, caller, request, es, r)
    PROVE  /\ row' \in [Shipments -> Row]
           /\ log' \in [Shipments -> Seq(Event)]
           /\ uses' \in Seq(Use)
           /\ reply' \in Seq(Reply)
           /\ row' = [row EXCEPT ![s] = r]
           /\ log' = [log EXCEPT ![s] = @ \o es]
<1>1. log[s] \o es \in Seq(Event)
  BY ConcatProperties DEF TypeOK
<1>2. [shipment |-> s, command |-> command, caller |-> caller, request |-> request,
       outcome |-> r] \in Use
  BY DEF Use
<1>3. uses' \in Seq(Use)
  BY <1>2, AppendProperties DEF Commit, TypeOK
<1>4. row' \in [Shipments -> Row] /\ log' \in [Shipments -> Seq(Event)]
  BY <1>1 DEF Commit, TypeOK
<1>5. reply' \in Seq(Reply)
  BY DEF Commit
<1> QED
  BY <1>3, <1>4, <1>5 DEF Commit

\* Every command but the delivery: the row leaves a living status for any but
\* DELIVERED, no proof and no cash fact is written, and the COD status fits.
LEMMA QuietStep ==
    ASSUME IInv, NEW s \in Shipments, NEW command \in Commands, NEW caller \in Callers,
           NEW request \in Request, NEW es \in Seq(Event), NEW r \in Row,
           Commit(s, command, caller, request, es, r),
           legs' \in [Shipments -> Seq(Leg)],
           \A t \in Shipments : t # s => legs'[t] = legs[t],
           pods' = pods, facts' = facts,
           row[s].status \notin TerminalStatuses, r.status # "DELIVERED",
           r.seq # 0, r.cod = CodExpected(r)
    PROVE  IInv' /\ TerminalKept
<1>1. /\ row' \in [Shipments -> Row] /\ log' \in [Shipments -> Seq(Event)]
      /\ uses' \in Seq(Use) /\ reply' \in Seq(Reply)
      /\ row' = [row EXCEPT ![s] = r] /\ log' = [log EXCEPT ![s] = @ \o es]
  <2>1. TypeOK
    BY DEF IInv
  <2> QED
    BY <2>1, CommitType
<1>2. TypeOK'
  BY <1>1 DEF IInv, TypeOK
<1>3. /\ row'[s] = r
      /\ \A t \in Shipments : t # s => row'[t] = row[t] /\ log'[t] = log[t]
  BY <1>1 DEF IInv, TypeOK
<1>4. CodFollowsParcel'
  BY <1>3 DEF IInv, CodFollowsParcel, CodExpected
<1>5. UnbornIsCreated'
  BY <1>3 DEF IInv, UnbornIsCreated
<1>6. s \notin pods /\ facts[s] = <<>>
  BY DEF IInv, DeliveredHasProofAndCash, TerminalStatuses
<1>7. DeliveredHasProofAndCash'
  BY <1>3, <1>6 DEF IInv, DeliveredHasProofAndCash
<1>8. TerminalKept
  BY <1>3 DEF TerminalKept
<1> QED
  BY <1>2, <1>4, <1>5, <1>7, <1>8 DEF IInv

\* A living parcel that stays alive keeps the COD status it should have.
LEMMA AliveCod ==
    ASSUME IInv, NEW s \in Shipments, NEW r \in Row,
           row[s].status \notin TerminalStatuses, r.status \notin TerminalStatuses,
           r.amount = row[s].amount, r.cod = row[s].cod
    PROVE  r.cod = CodExpected(r)
BY DEF IInv, CodFollowsParcel, CodExpected, TerminalStatuses

\* One that ends without a delivery has it closed by closeUncollectedCod.
LEMMA ClosedCod ==
    ASSUME IInv, NEW s \in Shipments, NEW r \in Row,
           row[s].status \notin TerminalStatuses, r.status \in {"RETURNED", "CANCELLED"},
           r.amount = row[s].amount,
           r.cod = IF row[s].cod = "PENDING" THEN "CANCELLED" ELSE row[s].cod
    PROVE  r.cod = CodExpected(r)
BY DEF IInv, CodFollowsParcel, CodExpected, TerminalStatuses

-----------------------------------------------------------------------------
(* One lemma per command *)

LEMMA CreateStep ==
    ASSUME IInv, NEW s \in Shipments, NEW caller \in Callers, NEW amount \in Amounts,
           Create(s, caller, amount)
    PROVE  IInv' /\ TerminalKept
<1> DEFINE e == EventOf("created", None, None)
           request == [Plain EXCEPT !.amount = amount]
           r == ApplyTo(NewRow(amount), e)
<1>1. e \in Event /\ e.type = "created"
  BY EventOfType DEF IInv, EventTypes, SomeDriver
<1>2. /\ NewRow(amount) \in Row
      /\ NewRow(amount).status = "CREATED"
      /\ NewRow(amount).seq = 0
      /\ NewRow(amount).cod = CodFor(amount)
      /\ NewRow(amount).amount = amount
  BY DEF NewRow, Row, Statuses, Custody, CodStatuses, CodFor, SomeDriver
<1>3. /\ r \in Row /\ r.seq = 1 /\ r.status = "CREATED"
      /\ r.amount = amount /\ r.cod = CodFor(amount)
  BY <1>1, <1>2, ApplyToType DEF TargetStatus
<1>4. request \in Request
  BY ShipmentAssumption DEF Plain, Request, SomeDriver
<1>5. <<e>> \in Seq(Event)
  BY <1>1
<1>6. /\ Commit(s, "create", caller, request, <<e>>, r)
      /\ row[s].seq \notin Nat \/ row[s].seq <= 0
      /\ legs' = [legs EXCEPT ![s] = <<[type |-> "LAST_MILE", status |-> "PLANNED"]>>]
      /\ pods' = pods /\ facts' = facts
  BY DEF Create, Exists, IInv, TypeOK, Row
<1>7. row[s].status = "CREATED"
  BY <1>6 DEF IInv, TypeOK, Row, UnbornIsCreated
<1> HIDE DEF e, request, r
<1>8. <<[type |-> "LAST_MILE", status |-> "PLANNED"]>> \in Seq(Leg)
  BY DEF Leg
<1>9. legs' \in [Shipments -> Seq(Leg)] /\ \A t \in Shipments : t # s => legs'[t] = legs[t]
  BY <1>6, <1>8 DEF IInv, TypeOK
<1>10. r.cod = CodExpected(r)
  BY <1>3, ShipmentAssumption DEF CodFor, CodExpected, TerminalStatuses
<1>11. row[s].status \notin TerminalStatuses /\ r.status # "DELIVERED" /\ r.seq # 0
  BY <1>3, <1>7 DEF TerminalStatuses
<1>12. "create" \in Commands
  BY DEF Commands
<1> QED
  BY <1>3, <1>4, <1>5, <1>6, <1>9, <1>10, <1>11, <1>12, QuietStep

LEMMA RecordPickupStep ==
    ASSUME IInv, NEW s \in Shipments, NEW command \in {"pickup", "pickup_scan"},
           NEW caller \in Callers, NEW d \in SomeDriver, NEW leg \in DOMAIN legs[s],
           RecordPickup(s, command, caller, d, leg)
    PROVE  IInv' /\ TerminalKept
<1>0. command \in Commands
  BY DEF Commands
<1> DEFINE e == EventOf("picked_up", d, None)
           request == [Plain EXCEPT !.driver = d, !.leg = leg]
           r == ApplyTo(row[s], e)
<1>1. e \in Event /\ e.type = "picked_up"
  BY EventOfType DEF IInv, EventTypes
<1>2. row[s] \in Row /\ legs[s] \in Seq(Leg)
  BY DEF IInv, TypeOK
<1>3. /\ Commit(s, command, caller, request, <<e>>, r)
      /\ Legal(row[s], "picked_up", FALSE)
      /\ legs' = [legs EXCEPT ![s][leg].status = "IN_PROGRESS"]
      /\ pods' = pods /\ facts' = facts
  BY <1>1 DEF RecordPickup
<1>4. row[s].status \notin TerminalStatuses
  BY <1>3, LegalMeansAlive
<1>5. /\ r \in Row /\ r.seq = row[s].seq + 1 /\ r.status = "PICKED_UP"
      /\ r.amount = row[s].amount /\ r.cod = row[s].cod
  BY <1>1, <1>2, ApplyToType DEF TargetStatus
<1>6. request \in Request
  <2>1. leg \in Nat
    BY <1>2, LenProperties
  <2> QED
    BY <2>1, ShipmentAssumption DEF Plain, Request, SomeDriver
<1>7. <<e>> \in Seq(Event)
  BY <1>1
<1> HIDE DEF e, request, r
<1>8. [legs[s] EXCEPT ![leg].status = "IN_PROGRESS"] \in Seq(Leg)
  BY <1>2, LegStatusType
<1>9. legs' = [legs EXCEPT ![s] = [legs[s] EXCEPT ![leg].status = "IN_PROGRESS"]]
  BY <1>3
<1>10. legs' \in [Shipments -> Seq(Leg)] /\ \A t \in Shipments : t # s => legs'[t] = legs[t]
  BY <1>8, <1>9 DEF IInv, TypeOK
<1>11. r.seq # 0
  BY <1>2, <1>5 DEF Row
<1>12. r.status \notin TerminalStatuses
  BY <1>5 DEF TerminalStatuses
<1>13. r.cod = CodExpected(r)
  BY <1>4, <1>5, <1>12, AliveCod
<1>14. r.status # "DELIVERED"
  BY <1>5
<1> QED
  BY <1>0, <1>3, <1>4, <1>5, <1>6, <1>7, <1>10, <1>11, <1>13, <1>14, QuietStep

LEMMA RecordEventStep ==
    ASSUME IInv, NEW s \in Shipments, NEW caller \in Callers,
           NEW type \in DispatchEvents \cup HubEvents,
           NEW d \in SomeDriver, NEW h \in Hubs \cup {None},
           RecordEvent(s, caller, type, d, h)
    PROVE  IInv' /\ TerminalKept
<1> DEFINE e == EventOf(type, d, h)
           request == [Plain EXCEPT !.driver = d, !.hub = h]
           r == ApplyTo(row[s], e)
<1>1. type \in EventTypes /\ type \in Commands
  BY DEF DispatchEvents, HubEvents, EventTypes, Commands
<1>2. e \in Event /\ e.type = type
  BY <1>1, EventOfType DEF IInv
<1>3. row[s] \in Row
  BY DEF IInv, TypeOK
<1>4. /\ Commit(s, type, caller, request, <<e>>, r)
      /\ Legal(row[s], type, FALSE)
      /\ legs' = legs /\ pods' = pods /\ facts' = facts
  BY DEF RecordEvent
<1>5. row[s].status \notin TerminalStatuses
  BY <1>4, LegalMeansAlive
<1>6. /\ r \in Row /\ r.seq = row[s].seq + 1
      /\ r.status = TargetStatus(type, row[s].status)
      /\ r.amount = row[s].amount /\ r.cod = row[s].cod
  BY <1>2, <1>3, ApplyToType
<1>7. request \in Request
  BY ShipmentAssumption DEF Plain, Request, SomeDriver
<1>8. <<e>> \in Seq(Event)
  BY <1>2
<1>9. r.status \notin TerminalStatuses
  BY <1>5, <1>6 DEF TargetStatus, TerminalStatuses, DispatchEvents, HubEvents
<1> HIDE DEF e, request, r
<1>10. legs' \in [Shipments -> Seq(Leg)]
  BY <1>4 DEF IInv, TypeOK
<1>11. r.seq # 0
  BY <1>3, <1>6 DEF Row
<1>12. r.cod = CodExpected(r)
  BY <1>5, <1>6, <1>9, AliveCod
<1>13. r.status # "DELIVERED"
  BY <1>9 DEF TerminalStatuses
<1> QED
  BY <1>1, <1>4, <1>5, <1>6, <1>7, <1>8, <1>10, <1>11, <1>12, <1>13, QuietStep

LEMMA InitiateReturnStep ==
    ASSUME IInv, NEW s \in Shipments, NEW caller \in Callers, InitiateReturn(s, caller)
    PROVE  IInv' /\ TerminalKept
<1> DEFINE e == EventOf("return_initiated", None, None)
           r == Back(row[s], e)
<1>1. e \in Event /\ e.type = "return_initiated"
  BY EventOfType DEF IInv, EventTypes, SomeDriver
<1>2. row[s] \in Row /\ legs[s] \in Seq(Leg)
  BY DEF IInv, TypeOK
<1>3. /\ Commit(s, "return", caller, Plain, <<e>>, r)
      /\ Legal(row[s], "return_initiated", FALSE)
      /\ legs' = [legs EXCEPT ![s] = SpawnReturnLeg(legs[s])]
      /\ pods' = pods /\ facts' = facts
  BY <1>1 DEF InitiateReturn
<1>4. row[s].status \notin TerminalStatuses
  BY <1>3, LegalMeansAlive
<1>5. /\ r \in Row /\ r.seq = row[s].seq + 1 /\ r.status = "RETURN_PENDING"
      /\ r.amount = row[s].amount /\ r.cod = row[s].cod
  BY <1>1, <1>2, BackType DEF TargetStatus
<1>6. Plain \in Request
  BY ShipmentAssumption DEF Plain, Request, SomeDriver
<1>7. <<e>> \in Seq(Event)
  BY <1>1
<1> HIDE DEF e, r
<1>8. legs' \in [Shipments -> Seq(Leg)] /\ \A t \in Shipments : t # s => legs'[t] = legs[t]
  BY <1>2, <1>3, SpawnReturnLegType DEF IInv, TypeOK
<1>9. "return" \in Commands /\ r.status # "DELIVERED"
  BY <1>5 DEF Commands
<1>10. r.seq # 0
  BY <1>2, <1>5 DEF Row
<1>11. r.status \notin TerminalStatuses
  BY <1>5 DEF TerminalStatuses
<1>12. r.cod = CodExpected(r)
  BY <1>4, <1>5, <1>11, AliveCod
<1> QED
  BY <1>3, <1>4, <1>5, <1>6, <1>7, <1>8, <1>9, <1>10, <1>12, QuietStep

LEMMA CompleteReturnStep ==
    ASSUME IInv, NEW s \in Shipments, NEW caller \in Callers, CompleteReturn(s, caller)
    PROVE  IInv' /\ TerminalKept
<1> DEFINE e == EventOf("returned", DriverOf(caller), None)
           r == CloseUncollectedCod(ApplyTo(row[s], e))
           closed == [i \in DOMAIN legs[s] |->
                         IF i \in OpenReturnLegs(s)
                         THEN [legs[s][i] EXCEPT !.status = "COMPLETED"] ELSE legs[s][i]]
<1>1. e \in Event /\ e.type = "returned"
  BY EventOfType DEF IInv, EventTypes, SomeDriver, DriverOf
<1>2. row[s] \in Row /\ legs[s] \in Seq(Leg)
  BY DEF IInv, TypeOK
<1>3. /\ Commit(s, "return_complete", caller, Plain, <<e>>, r)
      /\ Legal(row[s], "returned", FALSE)
      /\ legs' = [legs EXCEPT ![s] = closed]
      /\ pods' = pods /\ facts' = facts
  BY <1>1 DEF CompleteReturn
<1>4. row[s].status \notin TerminalStatuses
  BY <1>3, LegalMeansAlive
<1>5. /\ r \in Row /\ r.seq = row[s].seq + 1 /\ r.status = "RETURNED"
      /\ r.amount = row[s].amount
      /\ r.cod = IF row[s].cod = "PENDING" THEN "CANCELLED" ELSE row[s].cod
  BY <1>1, <1>2, ApplyToType, CloseUncollectedCodType DEF TargetStatus
<1>6. Plain \in Request
  BY ShipmentAssumption DEF Plain, Request, SomeDriver
<1>7. <<e>> \in Seq(Event)
  BY <1>1
<1>8. closed \in Seq(Leg)
  <2>1. PICK n \in Nat : DOMAIN legs[s] = 1 .. n
    BY <1>2, LenProperties
  <2>2. ASSUME NEW i \in 1 .. n PROVE closed[i] \in Leg
    <3>1. legs[s][i] \in Leg
      BY <1>2, <2>1, ElementOfSeq
    <3>2. [legs[s][i] EXCEPT !.status = "COMPLETED"] \in Leg
      BY <3>1 DEF Leg
    <3> QED
      BY <2>1, <3>1, <3>2
  <2>3. closed = [i \in 1 .. n |-> closed[i]]
    BY <2>1
  <2> HIDE DEF closed
  <2>4. [i \in 1 .. n |-> closed[i]] \in Seq(Leg)
    BY <2>1, <2>2, IsASeq
  <2> QED
    BY <2>3, <2>4
<1> HIDE DEF e, r, closed
<1>9. legs' \in [Shipments -> Seq(Leg)] /\ \A t \in Shipments : t # s => legs'[t] = legs[t]
  BY <1>3, <1>8 DEF IInv, TypeOK
<1>10. "return_complete" \in Commands /\ r.status # "DELIVERED"
  BY <1>5 DEF Commands
<1>11. r.seq # 0
  BY <1>2, <1>5 DEF Row
<1>12. r.cod = CodExpected(r)
  BY <1>4, <1>5, ClosedCod
<1> QED
  BY <1>3, <1>4, <1>5, <1>6, <1>7, <1>9, <1>10, <1>11, <1>12, QuietStep

LEMMA CancelStep ==
    ASSUME IInv, NEW s \in Shipments, NEW caller \in Callers, NEW canOverride \in BOOLEAN,
           Cancel(s, caller, canOverride)
    PROVE  IInv' /\ TerminalKept
<1> DEFINE e == EventOf("cancelled", None, None)
           r == CloseUncollectedCod(ApplyTo(row[s], e))
<1>1. e \in Event /\ e.type = "cancelled"
  BY EventOfType DEF IInv, EventTypes, SomeDriver
<1>2. row[s] \in Row
  BY DEF IInv, TypeOK
<1>3. /\ Commit(s, "cancel", caller, Plain, <<e>>, r)
      /\ Legal(row[s], "cancelled", canOverride)
      /\ legs' = legs /\ pods' = pods /\ facts' = facts
  BY <1>1 DEF Cancel
<1>4. row[s].status \notin TerminalStatuses
  BY <1>3, LegalMeansAlive
<1>5. /\ r \in Row /\ r.seq = row[s].seq + 1 /\ r.status = "CANCELLED"
      /\ r.amount = row[s].amount
      /\ r.cod = IF row[s].cod = "PENDING" THEN "CANCELLED" ELSE row[s].cod
  BY <1>1, <1>2, ApplyToType, CloseUncollectedCodType DEF TargetStatus
<1>6. Plain \in Request
  BY ShipmentAssumption DEF Plain, Request, SomeDriver
<1>7. <<e>> \in Seq(Event)
  BY <1>1
<1> HIDE DEF e, r
<1>8. /\ "cancel" \in Commands /\ r.status # "DELIVERED"
      /\ legs' \in [Shipments -> Seq(Leg)]
  BY <1>3, <1>5 DEF Commands, IInv, TypeOK
<1>9. r.seq # 0
  BY <1>2, <1>5 DEF Row
<1>10. r.cod = CodExpected(r)
  BY <1>4, <1>5, ClosedCod
<1> QED
  BY <1>3, <1>4, <1>5, <1>6, <1>7, <1>8, <1>9, <1>10, QuietStep

LEMMA RecordFailedAttemptStep ==
    ASSUME IInv, NEW s \in Shipments, NEW d \in Drivers, NEW reasonAllows \in BOOLEAN,
           RecordFailedAttempt(s, d, reasonAllows)
    PROVE  IInv' /\ TerminalKept
<1> DEFINE tried  == EventOf("delivery_attempted", d, None)
           failed == EventOf("delivery_failed", d, None)
           back   == EventOf("return_initiated", None, None)
           request == [Plain EXCEPT !.flag = reasonAllows]
           r1 == ApplyAttempt(row[s], tried)
           r2 == ApplyTo(r1, failed)
<1>1. /\ tried \in Event /\ tried.type = "delivery_attempted"
      /\ failed \in Event /\ failed.type = "delivery_failed"
      /\ back \in Event /\ back.type = "return_initiated"
  BY EventOfType DEF IInv, EventTypes, SomeDriver
<1>2. row[s] \in Row /\ legs[s] \in Seq(Leg)
  BY DEF IInv, TypeOK
<1>3. /\ Legal(row[s], "delivery_attempted", FALSE)
      /\ pods' = pods /\ facts' = facts
      /\ \/ /\ Commit(s, "fail", d, request, <<tried, failed>>, [r2 EXCEPT !.due = TRUE])
            /\ legs' = legs
         \/ /\ Commit(s, "fail", d, request, <<tried, failed, back>>, Back(r2, back))
            /\ legs' = [legs EXCEPT ![s] = SpawnReturnLeg(legs[s])]
  BY <1>1 DEF RecordFailedAttempt
<1>4. row[s].status \notin TerminalStatuses
  BY <1>3, LegalMeansAlive
<1>5. /\ r1 \in Row /\ r1.seq = row[s].seq + 1
      /\ r1.amount = row[s].amount /\ r1.cod = row[s].cod
  BY <1>1, <1>2, ApplyAttemptType
<1>6. /\ r2 \in Row /\ r2.seq = r1.seq + 1 /\ r2.status = "ATTEMPT_FAILED"
      /\ r2.amount = row[s].amount /\ r2.cod = row[s].cod
  BY <1>1, <1>5, ApplyToType DEF TargetStatus
<1>7. request \in Request /\ d \in Callers
  BY ShipmentAssumption DEF Plain, Request, SomeDriver, Callers
<1>8. /\ legs' \in [Shipments -> Seq(Leg)]
      /\ \A t \in Shipments : t # s => legs'[t] = legs[t]
  BY <1>2, <1>3, SpawnReturnLegType DEF IInv, TypeOK
<1>9. <<tried, failed>> \in Seq(Event) /\ <<tried, failed, back>> \in Seq(Event)
  BY <1>1
<1>10. SUFFICES ASSUME NEW es \in Seq(Event), NEW r \in Row,
                       Commit(s, "fail", d, request, es, r), r.seq # 0,
                       r.status \in {"ATTEMPT_FAILED", "RETURN_PENDING"},
                       r.amount = row[s].amount, r.cod = row[s].cod
                PROVE  IInv' /\ TerminalKept
  <2>1. /\ [r2 EXCEPT !.due = TRUE] \in Row /\ [r2 EXCEPT !.due = TRUE].seq # 0
        /\ [r2 EXCEPT !.due = TRUE].status = "ATTEMPT_FAILED"
        /\ [r2 EXCEPT !.due = TRUE].amount = row[s].amount
        /\ [r2 EXCEPT !.due = TRUE].cod = row[s].cod
    <3> HIDE DEF r1, r2
    <3>1. r2.seq # 0
      BY <1>2, <1>5, <1>6 DEF Row
    <3> QED
      BY <1>6, <3>1 DEF Row
  <2>2. /\ Back(r2, back) \in Row /\ Back(r2, back).seq # 0
        /\ Back(r2, back).status = "RETURN_PENDING"
        /\ Back(r2, back).amount = row[s].amount
        /\ Back(r2, back).cod = row[s].cod
    <3> HIDE DEF r1, r2, back
    <3>1. /\ Back(r2, back) \in Row /\ Back(r2, back).seq = r2.seq + 1
          /\ Back(r2, back).status = TargetStatus("return_initiated", r2.status)
          /\ Back(r2, back).amount = r2.amount /\ Back(r2, back).cod = r2.cod
      BY <1>1, <1>6, BackType
    <3> QED
      BY <1>6, <3>1 DEF Row, TargetStatus
  <2> HIDE DEF tried, failed, back, request, r1, r2
  <2> QED
    BY <1>3, <1>9, <2>1, <2>2
<1> HIDE DEF tried, failed, back, request, r1, r2
<1>11. "fail" \in Commands
  BY DEF Commands
<1>12. r.status \notin TerminalStatuses /\ r.status # "DELIVERED"
  BY <1>10 DEF TerminalStatuses
<1>13. r.cod = CodExpected(r)
  BY <1>4, <1>10, <1>12, AliveCod
<1> QED
  BY <1>3, <1>4, <1>7, <1>8, <1>10, <1>11, <1>12, <1>13, QuietStep

\* The one step that writes a proof and a cash fact.
LEMMA ConfirmDeliveryStep ==
    ASSUME IInv, NEW s \in Shipments, NEW d \in Drivers, NEW cash \in BOOLEAN,
           NEW leg \in DOMAIN legs[s], ConfirmDelivery(s, d, cash, leg)
    PROVE  IInv' /\ TerminalKept
<1> DEFINE isCod == row[s].amount > 0
           tried == EventOf("delivery_attempted", d, None)
           done  == EventOf("delivered", d, None)
           request == [Plain EXCEPT !.leg = leg, !.flag = cash]
           r1 == ApplyAttempt(row[s], tried)
           r2 == ApplyTo(r1, done)
           r  == IF isCod THEN [r2 EXCEPT !.cod = "COLLECTED"] ELSE r2
           fact == [driver |-> d, amount |-> row[s].amount]
<1>1. /\ tried \in Event /\ tried.type = "delivery_attempted"
      /\ done \in Event /\ done.type = "delivered" /\ done.driver = d
  BY EventOfType DEF IInv, EventTypes, SomeDriver
<1>2. row[s] \in Row /\ legs[s] \in Seq(Leg) /\ log[s] \in Seq(Event)
  BY DEF IInv, TypeOK
<1>3. /\ Legal(row[s], "delivery_attempted", FALSE)
      /\ pods' = pods \cup {s}
      /\ facts' = [facts EXCEPT ![s] = CollectCash(facts[s], row[s], d)]
      /\ legs' = [legs EXCEPT ![s][leg].status = "COMPLETED"]
      /\ Commit(s, "deliver", d, request, <<tried, done>>, r)
  BY <1>1 DEF ConfirmDelivery
<1>4. row[s].status \notin TerminalStatuses
  BY <1>3, LegalMeansAlive
<1>5. /\ r1 \in Row /\ r1.seq = row[s].seq + 1
      /\ r1.amount = row[s].amount /\ r1.cod = row[s].cod
  BY <1>1, <1>2, ApplyAttemptType
<1>6. /\ r2 \in Row /\ r2.seq = r1.seq + 1 /\ r2.status = "DELIVERED"
      /\ r2.amount = row[s].amount /\ r2.cod = row[s].cod
  BY <1>1, <1>5, ApplyToType DEF TargetStatus
<1>7. request \in Request /\ d \in Callers
  <2>1. leg \in Nat
    BY <1>2, LenProperties
  <2> QED
    BY <2>1, ShipmentAssumption DEF Plain, Request, SomeDriver, Callers
<1>8. <<tried, done>> \in Seq(Event)
  BY <1>1
<1>9. /\ r \in Row /\ r.seq # 0 /\ r.status = "DELIVERED" /\ r.amount = row[s].amount
      /\ r.cod = IF isCod THEN "COLLECTED" ELSE row[s].cod
  <2> HIDE DEF r1, r2, isCod
  <2>1. r2.seq # 0
    BY <1>2, <1>5, <1>6 DEF Row
  <2>2. /\ [r2 EXCEPT !.cod = "COLLECTED"] \in Row
        /\ [r2 EXCEPT !.cod = "COLLECTED"].seq = r2.seq
        /\ [r2 EXCEPT !.cod = "COLLECTED"].status = r2.status
        /\ [r2 EXCEPT !.cod = "COLLECTED"].amount = r2.amount
        /\ [r2 EXCEPT !.cod = "COLLECTED"].cod = "COLLECTED"
    BY <1>6 DEF Row, CodStatuses
  <2> QED
    BY <1>6, <2>1, <2>2
<1>10. s \notin pods /\ facts[s] = <<>>
  BY <1>4 DEF IInv, DeliveredHasProofAndCash, TerminalStatuses
<1>11. CollectCash(facts[s], row[s], d) = IF isCod THEN <<fact>> ELSE <<>>
  BY <1>10 DEF CollectCash
<1>12. fact \in [driver : Drivers, amount : Amounts]
  BY <1>2 DEF Row
<1>13. [legs[s] EXCEPT ![leg].status = "COMPLETED"] \in Seq(Leg)
  BY <1>2, LegStatusType
<1>14. legs' = [legs EXCEPT ![s] = [legs[s] EXCEPT ![leg].status = "COMPLETED"]]
  BY <1>3
<1>15. isCod <=> row[s].amount # 0
  <2>1. row[s].amount \in Nat
    BY <1>2, ShipmentAssumption DEF Row
  <2> QED
    BY <2>1
<1>16. r.cod = CodExpected(r)
  <2>1. row[s].cod = CodExpected(row[s])
    BY DEF IInv, CodFollowsParcel
  <2> HIDE DEF isCod, r
  <2> QED
    BY <1>4, <1>9, <1>15, <2>1 DEF CodExpected, TerminalStatuses
<1> HIDE DEF tried, done, request, r1, r2, r
<1>17. /\ row' = [row EXCEPT ![s] = r] /\ log' = [log EXCEPT ![s] = @ \o <<tried, done>>]
       /\ row' \in [Shipments -> Row] /\ log' \in [Shipments -> Seq(Event)]
       /\ uses' \in Seq(Use) /\ reply' \in Seq(Reply)
  <2>1. TypeOK /\ "deliver" \in Commands
    BY DEF IInv, Commands
  <2> DEFINE es == <<tried, done>>
  <2>2. Commit(s, "deliver", d, request, es, r) /\ r \in Row /\ es \in Seq(Event)
    BY <1>3, <1>8, <1>9
  <2> HIDE DEF es, fact, isCod
  <2>3. /\ row' = [row EXCEPT ![s] = r] /\ log' = [log EXCEPT ![s] = @ \o es]
        /\ row' \in [Shipments -> Row] /\ log' \in [Shipments -> Seq(Event)]
        /\ uses' \in Seq(Use) /\ reply' \in Seq(Reply)
    BY <1>7, <2>1, <2>2, CommitType
  <2> QED
    BY <2>3 DEF es
<1>18. facts' = [facts EXCEPT ![s] = IF isCod THEN <<fact>> ELSE <<>>]
  BY <1>3, <1>11
<1>19. TypeOK'
  <2>1. facts' \in [Shipments -> Seq([driver : Drivers, amount : Amounts])]
    <3> DEFINE cashed == IF isCod THEN <<fact>> ELSE <<>>
    <3>1. cashed \in Seq([driver : Drivers, amount : Amounts])
      <4> DEFINE Fact == [driver : Drivers, amount : Amounts]
      <4>1. fact \in Fact
        BY <1>12
      <4> HIDE DEF fact, isCod, Fact
      <4>2. <<fact>> \in Seq(Fact) /\ <<>> \in Seq(Fact)
        BY <4>1
      <4> QED
        BY <4>2 DEF Fact
    <3>2. facts' = [facts EXCEPT ![s] = cashed]
      BY <1>18
    <3> HIDE DEF cashed
    <3> QED
      BY <3>1, <3>2 DEF IInv, TypeOK
  <2> QED
    BY <1>3, <1>13, <1>14, <1>17, <2>1 DEF IInv, TypeOK
<1>20. \A t \in Shipments : t # s =>
          /\ row'[t] = row[t] /\ log'[t] = log[t] /\ legs'[t] = legs[t]
          /\ facts'[t] = facts[t] /\ (t \in pods' <=> t \in pods)
  BY <1>3, <1>14, <1>17, <1>18 DEF IInv, TypeOK
<1>21. row'[s] = r /\ s \in pods' /\ facts'[s] = IF isCod THEN <<fact>> ELSE <<>>
  BY <1>3, <1>17, <1>18 DEF IInv, TypeOK
<1>22. log'[s][Len(log'[s])].driver = d
  <2>1. log'[s] = log[s] \o <<tried, done>>
    BY <1>17 DEF IInv, TypeOK
  <2>2. Len(log'[s]) = Len(log[s]) + 2 /\ log'[s][Len(log[s]) + 2] = done
    BY <1>2, <1>8, <2>1, ConcatProperties, LenProperties
  <2> QED
    BY <1>1, <2>2
<1>23. CodFollowsParcel'
  BY <1>16, <1>20, <1>21 DEF IInv, CodFollowsParcel, CodExpected
<1>24. UnbornIsCreated'
  BY <1>9, <1>20, <1>21 DEF IInv, UnbornIsCreated
<1>25. DeliveredHasProofAndCash'
  BY <1>9, <1>20, <1>21, <1>22 DEF IInv, DeliveredHasProofAndCash
<1>26. TerminalKept
  BY <1>4, <1>20 DEF TerminalKept
<1> QED
  BY <1>19, <1>23, <1>24, <1>25, <1>26 DEF IInv

\* Answering a repeated request writes nothing but the answer.
LEMMA ResendStep ==
    ASSUME IInv, NEW i \in DOMAIN uses, NEW k \in DOMAIN uses, Resend(i, k)
    PROVE  IInv' /\ TerminalKept
<1>1. uses[i] \in Use /\ uses[k] \in Use
  BY ElementOfSeq DEF IInv, TypeOK
<1>2. k \in Nat
  BY LenProperties DEF IInv, TypeOK
<1> DEFINE shipment == IF uses[i].command = "create" THEN uses[k].shipment ELSE uses[i].shipment
           answer == [key |-> k, command |-> uses[i].command, shipment |-> shipment,
                      outcome |-> uses[k].outcome]
<1>3. answer \in Reply
  BY <1>1, <1>2 DEF Use, Reply
<1>4. reply' = <<answer>> /\ UNCHANGED <<row, log, legs, pods, facts, uses>>
  BY DEF Resend
<1> HIDE DEF answer
<1>5. TypeOK'
  <2>1. reply' \in Seq(Reply)
    BY <1>3, <1>4
  <2> QED
    BY <1>4, <2>1 DEF IInv, TypeOK
<1>6. CodFollowsParcel' /\ DeliveredHasProofAndCash' /\ UnbornIsCreated'
  BY <1>4 DEF IInv, CodFollowsParcel, DeliveredHasProofAndCash, UnbornIsCreated
<1>7. TerminalKept
  BY <1>4 DEF TerminalKept
<1> QED
  BY <1>5, <1>6, <1>7 DEF IInv

-----------------------------------------------------------------------------
(* The theorems about the row, the proof and the cash *)

LEMMA InitIInv == Init => IInv
<1> SUFFICES ASSUME Init PROVE IInv
  OBVIOUS
<1>1. /\ NewRow(0) \in Row /\ NewRow(0).status = "CREATED" /\ NewRow(0).amount = 0
      /\ NewRow(0).cod = "NOT_APPLICABLE"
  BY ShipmentAssumption
     DEF NewRow, Row, Statuses, Custody, CodStatuses, CodFor, SomeDriver
<1>2. TypeOK
  BY <1>1 DEF Init, TypeOK
<1>3. CodFollowsParcel /\ DeliveredHasProofAndCash /\ UnbornIsCreated
  BY <1>1 DEF Init, CodFollowsParcel, CodExpected, DeliveredHasProofAndCash, UnbornIsCreated
<1> QED
  BY <1>2, <1>3 DEF IInv

\* Every step keeps the invariant, and keeps terminal shipments as they are.
LEMMA NextIInv == IInv /\ [Next]_vars => IInv' /\ TerminalKept
<1> SUFFICES ASSUME IInv, [Next]_vars PROVE IInv' /\ TerminalKept
  OBVIOUS
<1>1. ASSUME NEW s \in Shipments, DriverCommand(s) PROVE IInv' /\ TerminalKept
  BY <1>1, ConfirmDeliveryStep, RecordFailedAttemptStep DEF DriverCommand
<1>2. ASSUME NEW s \in Shipments, StaffCommand(s) PROVE IInv' /\ TerminalKept
  <2> PICK caller \in Staff : StaffCommand(s)!(caller)
    BY <1>2 DEF StaffCommand
  <2>1. caller \in Callers
    BY DEF Callers
  <2>2. CASE \E amount \in Amounts : Create(s, caller, amount)
    BY <2>1, <2>2, CreateStep
  <2>3. CASE \E d \in Drivers, leg \in DOMAIN legs[s] : RecordPickup(s, "pickup", caller, d, leg)
    BY <2>1, <2>3, RecordPickupStep DEF SomeDriver
  <2>4. CASE InitiateReturn(s, caller)
    BY <2>1, <2>4, InitiateReturnStep
  <2>5. CASE \E canOverride \in BOOLEAN : Cancel(s, caller, canOverride)
    BY <2>1, <2>5, CancelStep
  <2>6. CASE \E type \in DispatchEvents, d \in Drivers : RecordEvent(s, caller, type, d, None)
    BY <2>1, <2>6, RecordEventStep DEF SomeDriver
  <2>7. CASE \E type \in HubEvents, h \in Hubs : RecordEvent(s, caller, type, None, h)
    BY <2>1, <2>7, RecordEventStep DEF SomeDriver
  <2> QED
    BY <2>2, <2>3, <2>4, <2>5, <2>6, <2>7
<1>3. ASSUME NEW s \in Shipments, CollectorCommand(s) PROVE IInv' /\ TerminalKept
  <2> PICK caller \in Callers : CollectorCommand(s)!(caller)
    BY <1>3 DEF CollectorCommand
  <2>1. DriverOf(caller) \in SomeDriver
    BY DEF DriverOf, SomeDriver
  <2>2. CASE RecordEvent(s, caller, "assigned", DriverOf(caller), None)
    BY <2>1, <2>2, RecordEventStep DEF DispatchEvents
  <2>3. CASE \E leg \in DOMAIN legs[s] :
                RecordPickup(s, "pickup_scan", caller, DriverOf(caller), leg)
    BY <2>1, <2>3, RecordPickupStep
  <2>4. CASE CompleteReturn(s, caller)
    BY <2>4, CompleteReturnStep
  <2> QED
    BY <2>2, <2>3, <2>4
<1>4. ASSUME NEW i \in DOMAIN uses, NEW k \in DOMAIN uses, Resend(i, k)
      PROVE  IInv' /\ TerminalKept
  BY <1>4, ResendStep
<1>5. ASSUME UNCHANGED vars PROVE IInv' /\ TerminalKept
  <2> USE <1>5 DEF vars
  <2>1. TypeOK'
    BY DEF IInv, TypeOK
  <2>2. CodFollowsParcel' /\ DeliveredHasProofAndCash' /\ UnbornIsCreated'
    BY DEF IInv, CodFollowsParcel, DeliveredHasProofAndCash, UnbornIsCreated
  <2>3. TerminalKept
    BY DEF TerminalKept
  <2> QED
    BY <2>1, <2>2, <2>3 DEF IInv
<1> QED
  BY <1>1, <1>2, <1>3, <1>4, <1>5 DEF Next

LEMMA AlwaysIInv == Spec => []IInv
<1>1. Init => IInv
  BY InitIInv
<1>2. IInv /\ [Next]_vars => IInv'
  BY NextIInv
<1> QED
  BY <1>1, <1>2, PTL DEF Spec

\* Whatever the commands and their order, the tables keep their types: no
\* projection of runCommand leaves the state machine or the COD statuses.
THEOREM ShipmentTypes == Spec => []TypeOK
<1>1. IInv => TypeOK
  BY DEF IInv
<1> QED
  BY <1>1, AlwaysIInv, PTL

\* The COD status always agrees with where the parcel is: confirmDelivery is
\* the only way to COLLECTED, and closeUncollectedCod misses no other ending.
THEOREM CodAgreesWithParcel == Spec => []CodFollowsParcel
<1>1. IInv => CodFollowsParcel
  BY DEF IInv
<1> QED
  BY <1>1, AlwaysIInv, PTL

\* DELIVERED, a proof of delivery and the one cash fact of a COD parcel come
\* together, and no retry, cancel or return writes or loses one of them.
THEOREM DeliveryIsWhole == Spec => []DeliveredHasProofAndCash
<1>1. IInv => DeliveredHasProofAndCash
  BY DEF IInv
<1> QED
  BY <1>1, AlwaysIInv, PTL

\* A delivered, returned or cancelled shipment never changes again: no command
\* of any caller, with whatever authority, has a legal event to apply to it.
THEOREM TerminalForGood == Spec => TerminalIsFinal
<1>1. IInv /\ [Next]_vars => [TerminalKept]_vars
  BY NextIInv
<1> QED
  BY <1>1, AlwaysIInv, PTL DEF Spec, TerminalIsFinal

-----------------------------------------------------------------------------
(* Lemmas on the custody log: what one more event changes *)

\* A non-empty set of positions has a last one.
LEMMA LastExists ==
    ASSUME NEW n \in Nat, NEW S \in SUBSET (1 .. n), S # {}
    PROVE  LastOf(S) \in S /\ \A j \in S : j <= LastOf(S)
<1> DEFINE Bounds == {m \in 0 .. n : \A j \in S : j <= m}
           T == {0 .. m : m \in Bounds}
           R == StrictSubsetOrdering(Nat)
<1>1. T \subseteq FiniteSubsetsOf(Nat)
  <2> SUFFICES ASSUME NEW m \in Bounds PROVE 0 .. m \in FiniteSubsetsOf(Nat)
    OBVIOUS
  <2>1. m \in Nat
    OBVIOUS
  <2>2. IsFiniteSet(0 .. m)
    BY <2>1, FS_Interval
  <2>3. 0 .. m \subseteq Nat
    BY <2>1
  <2> QED
    BY <2>2, <2>3 DEF FiniteSubsetsOf
<1>2. n \in Bounds
  OBVIOUS
<1>3. T # {}
  BY <1>2
<1>4. IsWellFoundedOn(R, FiniteSubsetsOf(Nat))
  BY FS_StrictSubsetOrderingWellFounded
<1>5. PICK U \in T : \A V \in T : <<V, U>> \notin R
  <2> HIDE DEF T, R
  <2> QED
    BY <1>1, <1>3, <1>4, WFMin
<1>6. PICK m \in Bounds : U = 0 .. m
  OBVIOUS
<1>7. m \in S
  <2> SUFFICES ASSUME m \notin S PROVE FALSE
    OBVIOUS
  <2>1. m # 0
    <3>1. PICK j \in S : TRUE
      OBVIOUS
    <3>2. j \in 1 .. n /\ j <= m
      BY <3>1
    <3> QED
      BY <3>2
  <2>2. m - 1 \in Bounds
    BY <2>1
  <2>3. 0 .. (m - 1) \in T
    BY <2>2
  <2>4. 0 .. (m - 1) \subseteq 0 .. m /\ 0 .. (m - 1) # 0 .. m
    <3>1. m \in 0 .. m /\ m \notin 0 .. (m - 1)
      BY <2>1
    <3> QED
      BY <3>1
  <2>5. <<0 .. (m - 1), U>> \in R
    BY <1>6, <2>4 DEF StrictSubsetOrdering
  <2> QED
    BY <1>5, <2>3, <2>5
<1>8. \E i \in S : \A j \in S : j <= i
  BY <1>7
<1> QED
  BY <1>8 DEF LastOf

LEMMA LastIs ==
    ASSUME NEW n \in Nat, NEW S \in SUBSET (1 .. n), NEW m \in S, \A j \in S : j <= m
    PROVE  LastOf(S) = m
<1>1. \A i \in S : (\A j \in S : j <= i) => i = m
  OBVIOUS
<1> QED
  BY <1>1 DEF LastOf

\* Where an appended event shows up.
LEMMA Appended ==
    ASSUME NEW l \in Seq(Event), NEW e \in Event
    PROVE  /\ Append(l, e) \in Seq(Event)
           /\ Len(Append(l, e)) = Len(l) + 1
           /\ Len(l) \in Nat
           /\ DOMAIN l = 1 .. Len(l)
           /\ DOMAIN Append(l, e) = 1 .. (Len(l) + 1)
           /\ \A i \in 1 .. Len(l) : Append(l, e)[i] = l[i]
           /\ Append(l, e)[Len(l) + 1] = e
           /\ Append(l, e) = l \o <<e>>
BY AppendProperties, AppendIsConcat, LenProperties

\* What LastOf a set of positions is once the next position joins it.
LEMMA LastOfMore ==
    ASSUME NEW n \in Nat, NEW S \in SUBSET (1 .. n)
    PROVE  LastOf(S \cup {n + 1}) = n + 1
<1> DEFINE U == S \cup {n + 1}
<1>1. /\ U \in SUBSET (1 .. (n + 1)) /\ n + 1 \in U /\ n + 1 \in Nat
      /\ \A j \in U : j <= n + 1
  OBVIOUS
<1> HIDE DEF U
<1>2. LastOf(U) = n + 1
  BY <1>1, LastIs
<1> QED
  BY <1>2 DEF U

\* The positions a log is projected from, after one more event.
LEMMA PositionsAppended ==
    ASSUME NEW l \in Seq(Event), NEW e \in Event
    PROVE  LET m == Append(l, e)
               n == Len(l) + 1
           IN /\ Driving(m) = IF e.type \notin Annotations \cup {"created"}
                              THEN Driving(l) \cup {n} ELSE Driving(l)
              /\ MovesCustody(m) = IF e.type \in ToDriver \cup ToHub \cup ToNobody
                                   THEN MovesCustody(l) \cup {n} ELSE MovesCustody(l)
              /\ Naming(m) = IF e.driver # None THEN Naming(l) \cup {n} ELSE Naming(l)
              /\ Attempts(m) = IF e.type = "delivery_attempted"
                               THEN Attempts(l) \cup {n} ELSE Attempts(l)
<1> DEFINE m == Append(l, e)
           n == Len(l) + 1
<1>1. /\ DOMAIN l = 1 .. Len(l) /\ Len(l) \in Nat
      /\ DOMAIN m = 1 .. n
      /\ \A i \in 1 .. Len(l) : m[i] = l[i]
      /\ m[n] = e
  BY Appended
<1>2. 1 .. n = 1 .. Len(l) \cup {n}
  BY <1>1
<1>3. DOMAIN m = DOMAIN l \cup {n} /\ \A i \in DOMAIN l : m[i] = l[i] /\ i # n
  BY <1>1, <1>2
<1> HIDE DEF m, n
<1>4. Driving(m) = IF e.type \notin Annotations \cup {"created"}
                   THEN Driving(l) \cup {n} ELSE Driving(l)
  BY <1>1, <1>3 DEF Driving
<1>5. MovesCustody(m) = IF e.type \in ToDriver \cup ToHub \cup ToNobody
                        THEN MovesCustody(l) \cup {n} ELSE MovesCustody(l)
  BY <1>1, <1>3 DEF MovesCustody
<1>6. Naming(m) = IF e.driver # None THEN Naming(l) \cup {n} ELSE Naming(l)
  BY <1>1, <1>3 DEF Naming
<1>7. Attempts(m) = IF e.type = "delivery_attempted"
                    THEN Attempts(l) \cup {n} ELSE Attempts(l)
  BY <1>1, <1>3 DEF Attempts
<1> QED
  BY <1>4, <1>5, <1>6, <1>7 DEF m, n

\* The last driver an event of the log names.
NamedBy(l) == IF Naming(l) = {} THEN None ELSE l[LastOf(Naming(l))].driver

\* The last of some positions of a log is one of them, so an appended event does
\* not change what stands there; the appended event itself comes last.
LEMMA LastUnmoved ==
    ASSUME NEW l \in Seq(Event), NEW e \in Event, NEW S \in SUBSET DOMAIN l, S # {}
    PROVE  Append(l, e)[LastOf(S)] = l[LastOf(S)]
<1>1. DOMAIN l = 1 .. Len(l) /\ Len(l) \in Nat /\ S \in SUBSET (1 .. Len(l))
  BY Appended
<1>2. LastOf(S) \in 1 .. Len(l)
  BY <1>1, LastExists
<1> QED
  BY <1>2, Appended

LEMMA LastAppended ==
    ASSUME NEW l \in Seq(Event), NEW e \in Event, NEW S \in SUBSET DOMAIN l
    PROVE  /\ Append(l, e)[LastOf(S \cup {Len(l) + 1})] = e
           /\ IsFiniteSet(S) /\ Len(l) + 1 \notin S
<1>1. DOMAIN l = 1 .. Len(l) /\ Len(l) \in Nat /\ S \in SUBSET (1 .. Len(l))
  BY Appended
<1>2. LastOf(S \cup {Len(l) + 1}) = Len(l) + 1
  BY <1>1, LastOfMore
<1>3. Append(l, e)[Len(l) + 1] = e
  BY Appended
<1>4. IsFiniteSet(S)
  <2>1. IsFiniteSet(1 .. Len(l))
    BY <1>1, FS_Interval
  <2> QED
    BY <1>1, <2>1, FS_Subset
<1>5. Len(l) + 1 \notin S
  BY <1>1
<1> QED
  BY <1>2, <1>3, <1>4, <1>5

\* One more event changes what a log projects to as applyTo changes the row.
LEMMA StatusAppended ==
    ASSUME NEW l \in Seq(Event), NEW e \in Event
    PROVE  StatusOf(Append(l, e)) = TargetStatus(e.type, StatusOf(l))
<1> DEFINE m == Append(l, e)
           S == Driving(l)
<1>1. S \in SUBSET DOMAIN l /\ S \cup {Len(l) + 1} # {}
  BY DEF Driving
<1>2. e.type \in EventTypes
  BY DEF Event
<1>3. CASE e.type \in Annotations \cup {"created"}
  <2>1. Driving(m) = S
    BY <1>3, PositionsAppended
  <2>2. TargetStatus(e.type, StatusOf(l)) = StatusOf(l)
    BY <1>3 DEF TargetStatus, Annotations
  <2>3. S # {} => m[LastOf(S)] = l[LastOf(S)]
    BY <1>1, LastUnmoved
  <2> HIDE DEF m, S
  <2>4. StatusOf(m) = IF S = {} THEN "CREATED" ELSE TargetStatus(m[LastOf(S)].type, "CREATED")
    BY <2>1 DEF StatusOf
  <2>5. StatusOf(l) = IF S = {} THEN "CREATED" ELSE TargetStatus(l[LastOf(S)].type, "CREATED")
    BY DEF S, StatusOf
  <2> QED
    BY <2>2, <2>3, <2>4, <2>5 DEF m
<1>4. CASE e.type \notin Annotations \cup {"created"}
  <2>1. Driving(m) = S \cup {Len(l) + 1}
    BY <1>4, PositionsAppended
  <2>2. m[LastOf(S \cup {Len(l) + 1})] = e
    BY <1>1, LastAppended
  <2> HIDE DEF m, S
  <2>3. StatusOf(m) = TargetStatus(e.type, "CREATED")
    BY <1>1, <2>1, <2>2 DEF StatusOf
  <2>4. TargetStatus(e.type, "CREATED") = TargetStatus(e.type, StatusOf(l))
    BY <1>2, <1>4 DEF TargetStatus, EventTypes, Annotations
  <2> QED
    BY <2>3, <2>4 DEF m
<1> QED
  BY <1>3, <1>4

LEMMA CustodyAppended ==
    ASSUME NEW l \in Seq(Event), NEW e \in Event
    PROVE  CustodyOf(Append(l, e))
               = CustodyAfter(e.type, e.driver, e.hub, None, CustodyOf(l))
<1> DEFINE m == Append(l, e)
           S == MovesCustody(l)
           nobody == [kind |-> "NOBODY", id |-> None]
<1>1. S \in SUBSET DOMAIN l /\ S \cup {Len(l) + 1} # {}
  BY DEF MovesCustody
<1>2. CASE e.type \notin ToDriver \cup ToHub \cup ToNobody
  <2>1. MovesCustody(m) = S
    BY <1>2, PositionsAppended
  <2>2. CustodyAfter(e.type, e.driver, e.hub, None, CustodyOf(l)) = CustodyOf(l)
    BY <1>2 DEF CustodyAfter
  <2>3. S # {} => m[LastOf(S)] = l[LastOf(S)]
    BY <1>1, LastUnmoved
  <2>4. CustodyOf(l) = IF S = {} THEN nobody
                       ELSE CustodyAfter(l[LastOf(S)].type, l[LastOf(S)].driver,
                                         l[LastOf(S)].hub, None, nobody)
    BY DEF CustodyOf
  <2> HIDE DEF m, S, nobody
  <2>5. CustodyOf(m) = IF S = {} THEN nobody
                       ELSE CustodyAfter(m[LastOf(S)].type, m[LastOf(S)].driver,
                                         m[LastOf(S)].hub, None, nobody)
    BY <2>1 DEF CustodyOf, nobody
  <2> QED
    BY <2>2, <2>3, <2>4, <2>5 DEF m
<1>3. CASE e.type \in ToDriver \cup ToHub \cup ToNobody
  <2>1. MovesCustody(m) = S \cup {Len(l) + 1}
    BY <1>3, PositionsAppended
  <2>2. m[LastOf(S \cup {Len(l) + 1})] = e
    BY <1>1, LastAppended
  <2> HIDE DEF m, S
  <2>3. CustodyOf(m) = CustodyAfter(e.type, e.driver, e.hub, None, nobody)
    BY <1>1, <2>1, <2>2 DEF CustodyOf
  <2>4. CustodyAfter(e.type, e.driver, e.hub, None, nobody)
            = CustodyAfter(e.type, e.driver, e.hub, None, CustodyOf(l))
    BY <1>3 DEF CustodyAfter
  <2> QED
    BY <2>3, <2>4 DEF m
<1> QED
  BY <1>2, <1>3

LEMMA NamedAppended ==
    ASSUME NEW l \in Seq(Event), NEW e \in Event
    PROVE  NamedBy(Append(l, e)) = IF e.driver = None THEN NamedBy(l) ELSE e.driver
<1> DEFINE m == Append(l, e)
           S == Naming(l)
<1>1. S \in SUBSET DOMAIN l /\ S \cup {Len(l) + 1} # {}
  BY DEF Naming
<1>2. S # {} => m[LastOf(S)] = l[LastOf(S)]
  BY <1>1, LastUnmoved
<1>3. m[LastOf(S \cup {Len(l) + 1})] = e
  BY <1>1, LastAppended
<1>4. Naming(m) = IF e.driver # None THEN S \cup {Len(l) + 1} ELSE S
  BY PositionsAppended
<1>5. NamedBy(l) = IF S = {} THEN None ELSE l[LastOf(S)].driver
  BY DEF NamedBy
<1> HIDE DEF m, S
<1>6. NamedBy(m) = IF e.driver = None THEN NamedBy(l) ELSE e.driver
  BY <1>1, <1>2, <1>3, <1>4, <1>5 DEF NamedBy
<1> QED
  BY <1>6 DEF m

LEMMA AttemptsAppended ==
    ASSUME NEW l \in Seq(Event), NEW e \in Event
    PROVE  /\ Cardinality(Attempts(l)) \in Nat
           /\ Cardinality(Attempts(Append(l, e)))
               = IF e.type = "delivery_attempted" THEN Cardinality(Attempts(l)) + 1
                 ELSE Cardinality(Attempts(l))
<1> DEFINE S == Attempts(l)
           n == Len(l) + 1
<1>1. S \in SUBSET DOMAIN l
  BY DEF Attempts
<1>2. IsFiniteSet(S) /\ n \notin S
  BY <1>1, LastAppended
<1>3. Attempts(Append(l, e)) = IF e.type = "delivery_attempted" THEN S \cup {n} ELSE S
  BY PositionsAppended
<1> HIDE DEF S, n
<1>4. Cardinality(S) \in Nat
  BY <1>2, FS_CardinalityType
<1>5. Cardinality(S \cup {n}) = Cardinality(S) + 1
  BY <1>2, FS_AddElement
<1> QED
  BY <1>3, <1>4, <1>5 DEF S

-----------------------------------------------------------------------------
(* The row tells what the log says *)

\* OutcomeIsTheHolders, of one log.
OutcomesHeld(l) ==
    \A i \in DOMAIN l :
        l[i].type \in {"delivered", "delivery_failed"} =>
            CustodyOf(SubSeq(l, 1, i - 1)) = [kind |-> "DRIVER", id |-> l[i].driver]

Told(r, l) == IsProjection(r, l) /\ OutcomesHeld(l)

\* applyTo, and applyTo with incrementAttempt, field by field.
LEMMA ApplyToFields ==
    ASSUME NEW r \in Row, NEW e \in Event
    PROVE  /\ ApplyTo(r, e).status = TargetStatus(e.type, r.status)
           /\ ApplyTo(r, e).seq = r.seq + 1
           /\ ApplyTo(r, e).custody = CustodyAfter(e.type, e.driver, e.hub, None, r.custody)
           /\ ApplyTo(r, e).attempts = r.attempts
           /\ ApplyTo(r, e).lastDriver = IF e.driver = None THEN r.lastDriver ELSE e.driver
<1> DEFINE status == TargetStatus(e.type, r.status)
           custody == CustodyAfter(e.type, e.driver, e.hub, None, r.custody)
           driver == IF e.driver = None THEN r.lastDriver ELSE e.driver
           seq == r.seq + 1
<1>1. ApplyTo(r, e) = [r EXCEPT !.status = status, !.seq = seq, !.custody = custody,
                                !.lastDriver = driver]
  BY DEF ApplyTo
<1> HIDE DEF status, custody, driver, seq
<1>2. /\ ApplyTo(r, e).status = status
      /\ ApplyTo(r, e).seq = seq
      /\ ApplyTo(r, e).custody = custody
      /\ ApplyTo(r, e).attempts = r.attempts
      /\ ApplyTo(r, e).lastDriver = driver
  BY <1>1 DEF Row
<1> QED
  BY <1>2 DEF status, custody, driver, seq

LEMMA ApplyAttemptFields ==
    ASSUME NEW r \in Row, NEW e \in Event
    PROVE  /\ ApplyAttempt(r, e).status = TargetStatus(e.type, r.status)
           /\ ApplyAttempt(r, e).seq = r.seq + 1
           /\ ApplyAttempt(r, e).custody
                  = CustodyAfter(e.type, e.driver, e.hub, None, r.custody)
           /\ ApplyAttempt(r, e).attempts = r.attempts + 1
           /\ ApplyAttempt(r, e).lastDriver
                  = IF e.driver = None THEN r.lastDriver ELSE e.driver
<1> DEFINE base == ApplyTo(r, e)
<1>1. base \in Row
  BY ApplyToType
<1>2. ApplyAttempt(r, e) = [base EXCEPT !.attempts = base.attempts + 1]
  BY DEF ApplyAttempt
<1>3. /\ base.status = TargetStatus(e.type, r.status)
      /\ base.seq = r.seq + 1
      /\ base.custody = CustodyAfter(e.type, e.driver, e.hub, None, r.custody)
      /\ base.attempts = r.attempts
      /\ base.lastDriver = IF e.driver = None THEN r.lastDriver ELSE e.driver
  BY ApplyToFields
<1> HIDE DEF base
<1>4. /\ ApplyAttempt(r, e).status = base.status
      /\ ApplyAttempt(r, e).seq = base.seq
      /\ ApplyAttempt(r, e).custody = base.custody
      /\ ApplyAttempt(r, e).attempts = base.attempts + 1
      /\ ApplyAttempt(r, e).lastDriver = base.lastDriver
  BY <1>1, <1>2 DEF Row
<1> QED
  BY <1>3, <1>4

\* What the outcomes of a log say is not changed by one more event, and the new
\* one is an outcome only of the driver who holds the parcel.
LEMMA OutcomesAppended ==
    ASSUME NEW l \in Seq(Event), NEW e \in Event, OutcomesHeld(l),
           e.type \in {"delivered", "delivery_failed"} =>
               CustodyOf(l) = [kind |-> "DRIVER", id |-> e.driver]
    PROVE  OutcomesHeld(Append(l, e))
<1> DEFINE m == Append(l, e)
           n == Len(l) + 1
<1>1. /\ DOMAIN l = 1 .. Len(l) /\ Len(l) \in Nat
      /\ DOMAIN m = 1 .. n
      /\ \A i \in 1 .. Len(l) : m[i] = l[i]
      /\ m[n] = e /\ m \in Seq(Event) /\ Len(m) = n
      /\ m = l \o <<e>>
  BY Appended
<1>2. ASSUME NEW i \in 1 .. n PROVE SubSeq(m, 1, i - 1) = SubSeq(l, 1, i - 1)
  <2>1. CASE i = 1
    <3>1. SubSeq(m, 1, 0) = <<>> /\ SubSeq(l, 1, 0) = <<>>
      BY SubSeqEmpty
    <3> QED
      BY <2>1, <3>1
  <2>2. CASE i # 1
    <3>1. i - 1 \in 1 .. Len(l) /\ 1 \in 1 .. Len(l)
      BY <1>1, <2>2
    <3>2. <<e>> \in Seq(Event)
      OBVIOUS
    <3> HIDE DEF m
    <3>3. SubSeq(l \o <<e>>, 1, i - 1) = SubSeq(l, 1, i - 1)
      BY <3>1, <3>2, SubSeqOfConcat1
    <3> QED
      BY <1>1, <3>3
  <2> QED
    BY <2>1, <2>2
<1>3. SubSeq(m, 1, n - 1) = l
  <2>1. SubSeq(l, 1, Len(l)) = l
    BY SubSeqFull
  <2>2. n \in 1 .. n /\ n - 1 = Len(l)
    BY <1>1
  <2> HIDE DEF m, n
  <2> QED
    BY <1>2, <2>1, <2>2
<1>4. 1 .. n = 1 .. Len(l) \cup {n}
  BY <1>1
<1> HIDE DEF m, n
<1>5. SUFFICES ASSUME NEW i \in 1 .. n, m[i].type \in {"delivered", "delivery_failed"}
               PROVE  CustodyOf(SubSeq(m, 1, i - 1)) = [kind |-> "DRIVER", id |-> m[i].driver]
  BY <1>1 DEF OutcomesHeld, m
<1>6. CASE i \in 1 .. Len(l)
  BY <1>1, <1>2, <1>5, <1>6 DEF OutcomesHeld
<1>7. CASE i = n
  BY <1>1, <1>3, <1>5, <1>7
<1> QED
  BY <1>4, <1>6, <1>7

\* A row and the log it was projected from, after one more event.
LEMMA TellOne ==
    ASSUME NEW r \in Row, NEW l \in Seq(Event), NEW e \in Event, Told(r, l),
           e.type # "delivery_attempted",
           e.type \in {"delivered", "delivery_failed"} => HeldBy(r, e.driver)
    PROVE  Told(ApplyTo(r, e), Append(l, e))
<1>1. /\ r.status = StatusOf(l) /\ r.seq = Len(l) /\ r.custody = CustodyOf(l)
      /\ r.attempts = Cardinality(Attempts(l)) /\ r.lastDriver = NamedBy(l)
  BY DEF Told, IsProjection, NamedBy
<1>2. Len(Append(l, e)) = Len(l) + 1
  BY Appended
<1>3. IsProjection(ApplyTo(r, e), Append(l, e))
  <2> DEFINE m == Append(l, e)
             q == ApplyTo(r, e)
  <2>1. q.status = StatusOf(m)
    BY <1>1, ApplyToFields, StatusAppended
  <2>2. q.custody = CustodyOf(m)
    BY <1>1, ApplyToFields, CustodyAppended
  <2>3. q.lastDriver = NamedBy(m)
    BY <1>1, ApplyToFields, NamedAppended
  <2>4. q.attempts = Cardinality(Attempts(m))
    BY <1>1, ApplyToFields, AttemptsAppended
  <2>5. q.seq = Len(m)
    BY <1>1, <1>2, ApplyToFields
  <2> HIDE DEF m, q
  <2>6. IsProjection(q, m)
    BY <2>1, <2>2, <2>3, <2>4, <2>5 DEF IsProjection, NamedBy
  <2> QED
    BY <2>6 DEF m, q
<1>4. OutcomesHeld(Append(l, e))
  BY <1>1, OutcomesAppended DEF Told, HeldBy
<1> QED
  BY <1>3, <1>4 DEF Told

\* The same for an attempt, which also leaves the parcel in the same hands.
LEMMA TellAttempt ==
    ASSUME NEW r \in Row, NEW l \in Seq(Event), NEW e \in Event, Told(r, l),
           e.type = "delivery_attempted"
    PROVE  Told(ApplyAttempt(r, e), Append(l, e)) /\ ApplyAttempt(r, e).custody = r.custody
<1>1. /\ r.status = StatusOf(l) /\ r.seq = Len(l) /\ r.custody = CustodyOf(l)
      /\ r.attempts = Cardinality(Attempts(l)) /\ r.lastDriver = NamedBy(l)
  BY DEF Told, IsProjection, NamedBy
<1>2. Len(Append(l, e)) = Len(l) + 1
  BY Appended
<1>3. IsProjection(ApplyAttempt(r, e), Append(l, e))
  <2> DEFINE m == Append(l, e)
             q == ApplyAttempt(r, e)
  <2>1. q.status = StatusOf(m)
    BY <1>1, ApplyAttemptFields, StatusAppended
  <2>2. q.custody = CustodyOf(m)
    BY <1>1, ApplyAttemptFields, CustodyAppended
  <2>3. q.lastDriver = NamedBy(m)
    BY <1>1, ApplyAttemptFields, NamedAppended
  <2>4. q.attempts = Cardinality(Attempts(m))
    BY <1>1, ApplyAttemptFields, AttemptsAppended
  <2>5. q.seq = Len(m)
    BY <1>1, <1>2, ApplyAttemptFields
  <2> HIDE DEF m, q
  <2>6. IsProjection(q, m)
    BY <2>1, <2>2, <2>3, <2>4, <2>5 DEF IsProjection, NamedBy
  <2> QED
    BY <2>6 DEF m, q
<1>4. OutcomesHeld(Append(l, e))
  BY OutcomesAppended DEF Told
<1>5. ApplyAttempt(r, e).custody = r.custody
  BY ApplyAttemptFields DEF CustodyAfter, ToDriver, ToHub, ToNobody
<1> QED
  BY <1>3, <1>4, <1>5 DEF Told

\* What else a command writes on the row is not projected from the log.
LEMMA TellMarked ==
    ASSUME NEW r, NEW l, Told(r, l), NEW q,
           q.status = r.status, q.seq = r.seq, q.custody = r.custody,
           q.attempts = r.attempts, q.lastDriver = r.lastDriver
    PROVE  Told(q, l)
BY DEF Told, IsProjection

\* A row that is about to be inserted tells the empty log.
LEMMA NothingTold ==
    ASSUME NEW r, r.status = "CREATED", r.seq = 0, r.attempts = 0, r.lastDriver = None,
           r.custody = [kind |-> "NOBODY", id |-> None]
    PROVE  Told(r, <<>>)
<1>1. Cardinality({}) = 0
  BY FS_EmptySet
<1>2. /\ Driving(<<>>) = {} /\ MovesCustody(<<>>) = {} /\ Naming(<<>>) = {}
      /\ Attempts(<<>>) = {}
  BY DEF Driving, MovesCustody, Naming, Attempts
<1>3. StatusOf(<<>>) = "CREATED"
  BY <1>2 DEF StatusOf
<1>4. CustodyOf(<<>>) = [kind |-> "NOBODY", id |-> None]
  BY <1>2 DEF CustodyOf
<1>5. IsProjection(r, <<>>)
  BY <1>1, <1>2, <1>3, <1>4 DEF IsProjection
<1>6. OutcomesHeld(<<>>)
  BY DEF OutcomesHeld
<1> QED
  BY <1>5, <1>6 DEF Told

-----------------------------------------------------------------------------
(* What a repeated request is answered *)

Mine(l, k) == {i \in DOMAIN l : l[i].key = k}

\* The outcome o is the shipment as the last event of the key k left it.
Answers(o, l, k) ==
    /\ Mine(l, k) # {}
    /\ IsProjection(o, SubSeq(l, 1, LastOf(Mine(l, k))))

LEMMA Concatenated ==
    ASSUME NEW l \in Seq(Event), NEW es \in Seq(Event)
    PROVE  /\ l \o es \in Seq(Event)
           /\ Len(l) \in Nat /\ Len(es) \in Nat
           /\ Len(l \o es) = Len(l) + Len(es)
           /\ DOMAIN l = 1 .. Len(l) /\ DOMAIN es = 1 .. Len(es)
           /\ DOMAIN (l \o es) = 1 .. (Len(l) + Len(es))
           /\ \A i \in 1 .. Len(l) : (l \o es)[i] = l[i]
           /\ \A i \in (Len(l) + 1) .. (Len(l) + Len(es)) : (l \o es)[i] = es[i - Len(l)]
BY ConcatProperties, LenProperties

\* An answer is not changed by what other requests record afterwards.
LEMMA AnswersKept ==
    ASSUME NEW l \in Seq(Event), NEW es \in Seq(Event), NEW k, NEW o,
           \A j \in DOMAIN es : es[j].key # k, Answers(o, l, k)
    PROVE  Answers(o, l \o es, k)
<1> DEFINE m == l \o es
           S == Mine(l, k)
<1>1. /\ DOMAIN l = 1 .. Len(l) /\ Len(l) \in Nat /\ Len(es) \in Nat
      /\ DOMAIN es = 1 .. Len(es)
      /\ DOMAIN m = 1 .. (Len(l) + Len(es))
      /\ \A i \in 1 .. Len(l) : m[i] = l[i]
      /\ \A i \in (Len(l) + 1) .. (Len(l) + Len(es)) : m[i] = es[i - Len(l)]
  BY Concatenated
<1> HIDE DEF m
<1>2. ASSUME NEW i \in 1 .. (Len(l) + Len(es)), m[i].key = k PROVE i \in 1 .. Len(l)
  <2>1. i \notin 1 .. Len(l) => i \in (Len(l) + 1) .. (Len(l) + Len(es))
    BY <1>1
  <2>2. i \in (Len(l) + 1) .. (Len(l) + Len(es)) => i - Len(l) \in DOMAIN es
    BY <1>1
  <2> QED
    BY <1>1, <1>2, <2>1, <2>2
<1>3. 1 .. Len(l) \subseteq 1 .. (Len(l) + Len(es))
  BY <1>1
<1>4. Mine(m, k) = S
  BY <1>1, <1>2, <1>3 DEF Mine
<1>5. S # {} /\ S \in SUBSET (1 .. Len(l))
  BY <1>1 DEF Answers, Mine
<1> HIDE DEF S
<1>6. LastOf(S) \in 1 .. Len(l)
  BY <1>1, <1>5, LastExists
<1>7. SubSeq(m, 1, LastOf(S)) = SubSeq(l, 1, LastOf(S))
  BY <1>6, SubSeqOfConcat1 DEF m
<1>8. IsProjection(o, SubSeq(l, 1, LastOf(S)))
  BY DEF Answers, S
<1>9. Answers(o, m, k)
  BY <1>4, <1>5, <1>7, <1>8 DEF Answers
<1> QED
  BY <1>9 DEF m

\* The answer of a request that has just recorded the events es.
LEMMA AnswersNew ==
    ASSUME NEW l \in Seq(Event), NEW es \in Seq(Event), NEW k, NEW o, es # <<>>,
           \A j \in DOMAIN es : es[j].key = k, IsProjection(o, l \o es)
    PROVE  Answers(o, l \o es, k)
<1> DEFINE m == l \o es
           n == Len(l) + Len(es)
           S == Mine(m, k)
<1>1. /\ DOMAIN l = 1 .. Len(l) /\ Len(l) \in Nat /\ Len(es) \in Nat
      /\ DOMAIN es = 1 .. Len(es) /\ DOMAIN m = 1 .. n
      /\ m \in Seq(Event) /\ Len(m) = n
      /\ \A i \in (Len(l) + 1) .. n : m[i] = es[i - Len(l)]
  BY Concatenated
<1>2. Len(es) # 0
  BY EmptySeq
<1>3. n \in Nat /\ n \in 1 .. n /\ n \in (Len(l) + 1) .. n /\ n - Len(l) \in DOMAIN es
  BY <1>1, <1>2
<1> HIDE DEF m, n
<1>4. m[n].key = k
  BY <1>1, <1>3
<1>5. n \in S /\ S \in SUBSET (1 .. n)
  BY <1>1, <1>3, <1>4 DEF Mine
<1> HIDE DEF S
<1>6. \A j \in S : j <= n
  BY <1>3, <1>5
<1>7. LastOf(S) = n
  BY <1>3, <1>5, <1>6, LastIs
<1>8. SubSeq(m, 1, n) = m
  BY <1>1, SubSeqFull
<1>9. Answers(o, m, k)
  BY <1>5, <1>7, <1>8 DEF Answers, S, m
<1> QED
  BY <1>9 DEF m

-----------------------------------------------------------------------------
(* The way back *)

ReturnLegs(ls) == {i \in DOMAIN ls : ls[i].type = "RETURN"}
SentBack(l) == \E i \in DOMAIN l : l[i].type = "return_initiated"

\* The RETURN leg is spawned by the first return_initiated, only once, and is
\* open until the parcel is returned, or delivered after all.
Carried(r, l, ls) ==
    /\ \A i, j \in ReturnLegs(ls) : i = j
    /\ ReturnLegs(ls) # {} <=> SentBack(l)
    /\ r.status = "RETURN_PENDING" => SentBack(l)
    /\ r.status \notin {"DELIVERED", "RETURNED"} =>
           \A i \in ReturnLegs(ls) : ls[i].status # "COMPLETED"
    /\ r.status = "RETURNED" => \A i \in ReturnLegs(ls) : ls[i].status = "COMPLETED"

-----------------------------------------------------------------------------
(* The second inductive invariant *)

KeysAreUsed ==
    \A s \in Shipments : \A i \in DOMAIN log[s] : log[s][i].key <= Len(uses)

HInv ==
    /\ \A s \in Shipments : Told(row[s], log[s]) /\ Carried(row[s], log[s], legs[s])
    /\ KeysAreUsed
    /\ \A k \in DOMAIN uses : Answers(uses[k].outcome, log[uses[k].shipment], k)
    /\ \A n \in DOMAIN reply :
           Answers(reply[n].outcome, log[reply[n].shipment], reply[n].key)

LEMMA AppendAny ==
    ASSUME NEW S, NEW seq \in Seq(S), NEW x
    PROVE  /\ Len(seq) \in Nat /\ DOMAIN seq = 1 .. Len(seq)
           /\ Len(Append(seq, x)) = Len(seq) + 1
           /\ DOMAIN Append(seq, x) = 1 .. (Len(seq) + 1)
           /\ \A i \in 1 .. Len(seq) : Append(seq, x)[i] = seq[i]
           /\ Append(seq, x)[Len(seq) + 1] = x
<1> DEFINE T == S \cup {x}
<1>1. seq \in Seq(T) /\ x \in T
  BY SeqMonotonic
<1> HIDE DEF T
<1> QED
  BY <1>1, AppendProperties, LenProperties

\* The end of any command: what it recorded is told by the row, carried by the
\* legs and answered to a repetition, and nothing recorded before is disturbed.
LEMMA CommitStep ==
    ASSUME IInv, HInv, NEW s \in Shipments, NEW command, NEW caller, NEW request,
           NEW es \in Seq(Event), NEW r, Commit(s, command, caller, request, es, r),
           es # <<>>, \A j \in DOMAIN es : es[j].key = NextKey,
           Told(r, log[s] \o es), Carried(r, log[s] \o es, legs'[s]),
           \A t \in Shipments : t # s => legs'[t] = legs[t]
    PROVE  HInv'
<1> DEFINE n == Len(uses)
           use == [shipment |-> s, command |-> command, caller |-> caller,
                   request |-> request, outcome |-> r]
<1>1. TypeOK
  BY DEF IInv
<1>2. /\ row'[s] = r /\ log'[s] = log[s] \o es
      /\ \A t \in Shipments : t # s => row'[t] = row[t] /\ log'[t] = log[t]
  BY <1>1 DEF Commit, TypeOK
<1>3. uses' = Append(uses, use) /\ reply' = <<>>
  BY DEF Commit
<1>4. use.shipment = s /\ use.outcome = r
  OBVIOUS
<1> HIDE DEF use
<1>5. /\ n \in Nat /\ DOMAIN uses = 1 .. n
      /\ Len(uses') = n + 1 /\ DOMAIN uses' = 1 .. (n + 1)
      /\ \A k \in 1 .. n : uses'[k] = uses[k]
      /\ uses'[n + 1] = use
  BY <1>1, <1>3, AppendAny DEF TypeOK
<1>6. \A t \in Shipments : log[t] \in Seq(Event)
  BY <1>1 DEF TypeOK
<1>7. \A t \in Shipments : Told(row'[t], log'[t]) /\ Carried(row'[t], log'[t], legs'[t])
  BY <1>2 DEF HInv
<1>8. \A t \in Shipments : \A i \in DOMAIN log'[t] : log'[t][i].key <= Len(uses')
  <2> SUFFICES ASSUME NEW t \in Shipments, NEW i \in DOMAIN log'[t]
               PROVE  log'[t][i].key <= n + 1
    BY <1>5
  <2>1. ASSUME NEW j \in DOMAIN log[t] PROVE log[t][j].key \in Nat /\ log[t][j].key <= n
    <3>1. log[t][j] \in Event
      BY <1>6, ElementOfSeq, LenProperties
    <3> QED
      BY <3>1 DEF HInv, KeysAreUsed, Event
  <2>2. CASE t # s
    BY <1>2, <1>5, <2>1, <2>2
  <2>3. CASE t = s
    <3>1. /\ DOMAIN log[s] = 1 .. Len(log[s]) /\ Len(log[s]) \in Nat
          /\ DOMAIN es = 1 .. Len(es) /\ Len(es) \in Nat
          /\ i \in 1 .. (Len(log[s]) + Len(es))
          /\ i \in 1 .. Len(log[s]) => log'[s][i] = log[s][i]
          /\ i \in (Len(log[s]) + 1) .. (Len(log[s]) + Len(es)) =>
                 log'[s][i] = es[i - Len(log[s])]
      BY <1>2, <1>6, <2>3, Concatenated
    <3>2. CASE i \in 1 .. Len(log[s])
      BY <1>5, <2>1, <2>3, <3>1, <3>2
    <3>3. CASE i \notin 1 .. Len(log[s])
      <4>1. /\ i \in (Len(log[s]) + 1) .. (Len(log[s]) + Len(es))
            /\ i - Len(log[s]) \in DOMAIN es
        BY <3>1, <3>3
      <4>2. log'[t][i].key = n + 1
        BY <2>3, <3>1, <4>1 DEF NextKey
      <4> QED
        BY <1>5, <4>2
    <3> QED
      BY <3>2, <3>3
  <2> QED
    BY <2>2, <2>3
<1>9. ASSUME NEW k \in 1 .. n PROVE Answers(uses'[k].outcome, log'[uses'[k].shipment], k)
  <2> DEFINE t == uses[k].shipment
  <2>1. t \in Shipments
    <3>1. uses[k] \in Use
      BY <1>1, <1>5, ElementOfSeq DEF TypeOK
    <3> QED
      BY <3>1 DEF Use
  <2>2. Answers(uses[k].outcome, log[t], k)
    BY <1>5 DEF HInv
  <2>3. \A j \in DOMAIN es : es[j].key # k
    BY <1>5 DEF NextKey
  <2> HIDE DEF t
  <2>4. Answers(uses[k].outcome, log'[t], k)
    <3>1. CASE t # s
      BY <1>2, <2>1, <2>2, <3>1
    <3>2. CASE t = s
      <4>1. Answers(uses[k].outcome, log[s] \o es, k)
        BY <1>6, <2>2, <2>3, <3>2, AnswersKept
      <4> QED
        BY <1>2, <3>2, <4>1
    <3> QED
      BY <3>1, <3>2
  <2> QED
    BY <1>5, <2>4 DEF t
<1>10. Answers(uses'[n + 1].outcome, log'[uses'[n + 1].shipment], n + 1)
  <2>1. IsProjection(r, log[s] \o es)
    BY DEF Told
  <2>2. \A j \in DOMAIN es : es[j].key = n + 1
    BY DEF NextKey
  <2>3. Answers(r, log[s] \o es, n + 1)
    BY <1>6, <2>1, <2>2, AnswersNew
  <2> QED
    BY <1>2, <1>4, <1>5, <2>3
<1>11. \A k \in DOMAIN uses' : Answers(uses'[k].outcome, log'[uses'[k].shipment], k)
  <2> HIDE DEF n
  <2>1. \A k \in 1 .. (n + 1) : k \in 1 .. n \/ k = n + 1
    BY <1>5
  <2> QED
    BY <1>5, <1>9, <1>10, <2>1
<1>12. DOMAIN reply' = {}
  BY <1>3
<1> QED
  BY <1>7, <1>8, <1>11, <1>12 DEF HInv, KeysAreUsed

\* A repeated request is answered from the row of its own key.
LEMMA ResendAnswers ==
    ASSUME IInv, HInv, NEW i \in DOMAIN uses, NEW k \in DOMAIN uses, Resend(i, k)
    PROVE  HInv'
<1> DEFINE shipment == IF uses[i].command = "create" THEN uses[k].shipment ELSE uses[i].shipment
           answer == [key |-> k, command |-> uses[i].command, shipment |-> shipment,
                      outcome |-> uses[k].outcome]
<1>1. reply' = <<answer>> /\ UNCHANGED <<row, log, legs, uses>>
  BY DEF Resend
<1>2. shipment = uses[k].shipment
  BY DEF Resend, SameRequest
<1>3. answer.key = k /\ answer.outcome = uses[k].outcome /\ answer.shipment = shipment
  OBVIOUS
<1> HIDE DEF answer, shipment
<1>4. DOMAIN reply' = {1} /\ reply'[1] = answer
  BY <1>1
<1>5. \A m \in DOMAIN reply' :
          Answers(reply'[m].outcome, log'[reply'[m].shipment], reply'[m].key)
  BY <1>1, <1>2, <1>3, <1>4 DEF HInv
<1> QED
  BY <1>1, <1>5 DEF HInv, KeysAreUsed

\* One more event sends a parcel back only if it says so.
LEMMA SentBackAppended ==
    ASSUME NEW l \in Seq(Event), NEW e \in Event
    PROVE  SentBack(Append(l, e)) <=> SentBack(l) \/ e.type = "return_initiated"
<1> DEFINE m == Append(l, e)
           n == Len(l) + 1
<1>1. /\ DOMAIN l = 1 .. Len(l) /\ Len(l) \in Nat /\ DOMAIN m = 1 .. n
      /\ \A i \in 1 .. Len(l) : m[i] = l[i]
      /\ m[n] = e
  BY Appended
<1>2. 1 .. n = 1 .. Len(l) \cup {n}
  BY <1>1
<1>3. DOMAIN m = DOMAIN l \cup {n} /\ \A i \in DOMAIN l : m[i] = l[i]
  BY <1>1, <1>2
<1> HIDE DEF m, n
<1>4. SentBack(m) <=> SentBack(l) \/ e.type = "return_initiated"
  BY <1>1, <1>3 DEF SentBack
<1> QED
  BY <1>4 DEF m

\* A command that does not send the parcel back leaves it as many RETURN legs.
LEMMA CarriedOn ==
    ASSUME NEW l \in Seq(Event), NEW e \in Event, NEW r, NEW q, NEW ls, NEW ms,
           Carried(r, l, ls), e.type # "return_initiated",
           q.status = "RETURN_PENDING" => r.status = "RETURN_PENDING",
           DOMAIN ms = DOMAIN ls, \A i \in DOMAIN ls : ms[i].type = ls[i].type,
           q.status \notin {"DELIVERED", "RETURNED"} =>
               \A i \in ReturnLegs(ls) : ms[i].status # "COMPLETED",
           q.status = "RETURNED" => \A i \in ReturnLegs(ls) : ms[i].status = "COMPLETED"
    PROVE  Carried(q, Append(l, e), ms)
<1>1. ReturnLegs(ms) = ReturnLegs(ls)
  BY DEF ReturnLegs
<1>2. SentBack(Append(l, e)) <=> SentBack(l)
  BY SentBackAppended
<1> QED
  BY <1>1, <1>2 DEF Carried

\* One that does finds the RETURN leg, or spawns it.
LEMMA CarriedBack ==
    ASSUME NEW l \in Seq(Event), NEW e \in Event, NEW r, NEW q, NEW ls \in Seq(Leg),
           Carried(r, l, ls), e.type = "return_initiated",
           r.status \notin {"DELIVERED", "RETURNED"}, q.status = "RETURN_PENDING"
    PROVE  Carried(q, Append(l, e), SpawnReturnLeg(ls))
<1> DEFINE ms == SpawnReturnLeg(ls)
           leg == [type |-> "RETURN", status |-> "PLANNED"]
           n == Len(ls) + 1
<1>1. SentBack(Append(l, e))
  BY SentBackAppended
<1>2. CASE ReturnLegs(ls) # {}
  <2>1. ms = ls
    BY <1>2 DEF SpawnReturnLeg, ReturnLegs
  <2> QED
    BY <1>1, <1>2, <2>1 DEF Carried
<1>3. CASE ReturnLegs(ls) = {}
  <2>1. ms = Append(ls, leg)
    BY <1>3 DEF SpawnReturnLeg, ReturnLegs
  <2>2. /\ Len(ls) \in Nat /\ DOMAIN ls = 1 .. Len(ls) /\ DOMAIN ms = 1 .. n
        /\ \A i \in 1 .. Len(ls) : ms[i] = ls[i]
        /\ ms[n] = leg
    BY <2>1, AppendAny
  <2>3. 1 .. n = 1 .. Len(ls) \cup {n}
    BY <2>2
  <2> HIDE DEF ms, n
  <2>4. ReturnLegs(ms) = {n} /\ ms[n].status = "PLANNED"
    BY <1>3, <2>2, <2>3 DEF ReturnLegs
  <2> QED
    BY <1>1, <2>4 DEF Carried, ms
<1> QED
  BY <1>2, <1>3

-----------------------------------------------------------------------------
(* One lemma per command, for the second invariant *)

LEMMA EventOfKey ==
    ASSUME NEW type, NEW d, NEW h PROVE EventOf(type, d, h).key = NextKey
BY DEF EventOf

\* A command that records one event.
LEMMA OneEventStep ==
    ASSUME IInv, HInv, NEW s \in Shipments, NEW command, NEW caller, NEW request,
           NEW e \in Event, e.key = NextKey, NEW r,
           Commit(s, command, caller, request, <<e>>, r),
           Told(r, Append(log[s], e)), Carried(r, Append(log[s], e), legs'[s]),
           \A t \in Shipments : t # s => legs'[t] = legs[t]
    PROVE  HInv'
<1> DEFINE es == <<e>>
<1>1. log[s] \in Seq(Event)
  BY DEF IInv, TypeOK
<1>2. Append(log[s], e) = log[s] \o es
  BY <1>1, AppendIsConcat
<1>3. es \in Seq(Event) /\ es # <<>> /\ \A j \in DOMAIN es : es[j].key = NextKey
  OBVIOUS
<1> HIDE DEF es
<1>4. Told(r, log[s] \o es) /\ Carried(r, log[s] \o es, legs'[s])
  BY <1>2
<1>5. Commit(s, command, caller, request, es, r)
  BY DEF es
<1> QED
  BY <1>3, <1>4, <1>5, CommitStep

LEMMA CreateTold ==
    ASSUME IInv, HInv, NEW s \in Shipments, NEW caller, NEW amount \in Amounts,
           Create(s, caller, amount)
    PROVE  HInv'
<1> DEFINE e == EventOf("created", None, None)
           request == [Plain EXCEPT !.amount = amount]
           r0 == NewRow(amount)
           r == ApplyTo(r0, e)
<1>1. e \in Event /\ e.type = "created" /\ e.key = NextKey
  BY EventOfType, EventOfKey DEF IInv, EventTypes, SomeDriver
<1>2. r0 \in Row
  BY DEF NewRow, Row, Statuses, Custody, CodStatuses, CodFor, SomeDriver
<1>3. /\ r0.status = "CREATED" /\ r0.seq = 0 /\ r0.attempts = 0 /\ r0.lastDriver = None
      /\ r0.custody = [kind |-> "NOBODY", id |-> None]
  BY DEF NewRow
<1>4. /\ Commit(s, "create", caller, request, <<e>>, r)
      /\ ~(row[s].seq > 0)
      /\ legs' = [legs EXCEPT ![s] = <<[type |-> "LAST_MILE", status |-> "PLANNED"]>>]
  BY DEF Create, Exists
<1>5. log[s] = <<>>
  <2>1. row[s].seq = Len(log[s]) /\ log[s] \in Seq(Event)
    BY DEF HInv, Told, IsProjection, IInv, TypeOK
  <2> QED
    BY <1>4, <2>1, EmptySeq
<1> HIDE DEF e, request, r0
<1>6. Told(r0, <<>>)
  BY <1>3, NothingTold
<1>7. Told(r, Append(<<>>, e))
  <2>1. <<>> \in Seq(Event)
    OBVIOUS
  <2> QED
    BY <1>1, <1>2, <1>6, <2>1, TellOne
<1>8. r.status = "CREATED"
  BY <1>1, <1>2, <1>3, ApplyToFields DEF TargetStatus
<1>9. /\ legs'[s] = <<[type |-> "LAST_MILE", status |-> "PLANNED"]>>
      /\ \A t \in Shipments : t # s => legs'[t] = legs[t]
  BY <1>4 DEF IInv, TypeOK
<1>10. ~SentBack(Append(<<>>, e))
  BY <1>1, SentBackAppended DEF SentBack
<1>11. ReturnLegs(legs'[s]) = {}
  BY <1>9 DEF ReturnLegs
<1> HIDE DEF r
<1>12. Carried(r, Append(<<>>, e), legs'[s])
  BY <1>8, <1>10, <1>11 DEF Carried
<1> QED
  BY <1>1, <1>4, <1>5, <1>7, <1>9, <1>12, OneEventStep

LEMMA RecordPickupTold ==
    ASSUME IInv, HInv, NEW s \in Shipments, NEW command, NEW caller,
           NEW d \in SomeDriver, NEW leg \in DOMAIN legs[s],
           RecordPickup(s, command, caller, d, leg)
    PROVE  HInv'
<1> DEFINE e == EventOf("picked_up", d, None)
           request == [Plain EXCEPT !.driver = d, !.leg = leg]
           r == ApplyTo(row[s], e)
           ms == [legs[s] EXCEPT ![leg].status = "IN_PROGRESS"]
<1>1. e \in Event /\ e.type = "picked_up" /\ e.key = NextKey
  BY EventOfType, EventOfKey DEF IInv, EventTypes
<1>2. row[s] \in Row /\ legs[s] \in Seq(Leg) /\ log[s] \in Seq(Event)
  BY DEF IInv, TypeOK
<1>3. /\ Commit(s, command, caller, request, <<e>>, r)
      /\ Legal(row[s], "picked_up", FALSE)
      /\ legs' = [legs EXCEPT ![s] = ms]
  BY <1>1 DEF RecordPickup
<1>4. row[s].status \notin {"DELIVERED", "RETURNED"}
  BY <1>3, LegalMeansAlive DEF TerminalStatuses
<1>5. Told(row[s], log[s]) /\ Carried(row[s], log[s], legs[s])
  BY DEF HInv
<1>6. \A i \in DOMAIN legs[s] :
          /\ ms[i].type = legs[s][i].type
          /\ ms[i].status = IF i = leg THEN "IN_PROGRESS" ELSE legs[s][i].status
  <2>1. \A i \in DOMAIN legs[s] : legs[s][i] \in Leg
    BY <1>2, ElementOfSeq, LenProperties
  <2> QED
    BY <2>1 DEF Leg
<1>7. DOMAIN ms = DOMAIN legs[s]
  OBVIOUS
<1>8. legs'[s] = ms /\ \A t \in Shipments : t # s => legs'[t] = legs[t]
  BY <1>3 DEF IInv, TypeOK
<1> HIDE DEF e, request, ms
<1>9. Told(r, Append(log[s], e))
  BY <1>1, <1>2, <1>5, TellOne
<1>10. r.status = "PICKED_UP"
  BY <1>1, <1>2, ApplyToFields DEF TargetStatus
<1> HIDE DEF r
<1>11. \A i \in ReturnLegs(legs[s]) : ms[i].status # "COMPLETED"
  BY <1>4, <1>5, <1>6 DEF Carried, ReturnLegs
<1>12. Carried(r, Append(log[s], e), ms)
  BY <1>1, <1>2, <1>5, <1>6, <1>7, <1>10, <1>11, CarriedOn
<1> QED
  BY <1>1, <1>3, <1>8, <1>9, <1>12, OneEventStep

LEMMA RecordEventTold ==
    ASSUME IInv, HInv, NEW s \in Shipments, NEW caller,
           NEW type \in DispatchEvents \cup HubEvents,
           NEW d \in SomeDriver, NEW h \in Hubs \cup {None},
           RecordEvent(s, caller, type, d, h)
    PROVE  HInv'
<1> DEFINE e == EventOf(type, d, h)
           request == [Plain EXCEPT !.driver = d, !.hub = h]
           r == ApplyTo(row[s], e)
<1>1. type \in EventTypes
  BY DEF DispatchEvents, HubEvents, EventTypes
<1>2. e \in Event /\ e.type = type /\ e.key = NextKey
  BY <1>1, EventOfType, EventOfKey DEF IInv
<1>3. row[s] \in Row /\ legs[s] \in Seq(Leg) /\ log[s] \in Seq(Event)
  BY DEF IInv, TypeOK
<1>4. /\ Commit(s, type, caller, request, <<e>>, r)
      /\ Legal(row[s], type, FALSE)
      /\ legs' = legs
  BY DEF RecordEvent
<1>5. row[s].status \notin {"DELIVERED", "RETURNED"}
  BY <1>4, LegalMeansAlive DEF TerminalStatuses
<1>6. Told(row[s], log[s]) /\ Carried(row[s], log[s], legs[s])
  BY DEF HInv
<1>7. type \notin {"delivery_attempted", "delivered", "delivery_failed", "return_initiated"}
  BY DEF DispatchEvents, HubEvents
<1> HIDE DEF e, request
<1>8. Told(r, Append(log[s], e))
  BY <1>2, <1>3, <1>6, <1>7, TellOne
<1>9. r.status = TargetStatus(type, row[s].status)
  BY <1>2, <1>3, ApplyToFields
<1> HIDE DEF r
<1>10. r.status # "RETURN_PENDING" \/ r.status = row[s].status
  BY <1>9 DEF TargetStatus, DispatchEvents, HubEvents
<1>11. r.status \notin {"DELIVERED", "RETURNED"}
  BY <1>5, <1>9 DEF TargetStatus, DispatchEvents, HubEvents
<1>12. \A i \in ReturnLegs(legs[s]) : legs[s][i].status # "COMPLETED"
  BY <1>5, <1>6 DEF Carried
<1>13. Carried(r, Append(log[s], e), legs'[s])
  BY <1>2, <1>3, <1>4, <1>6, <1>7, <1>10, <1>11, <1>12, CarriedOn
<1> QED
  BY <1>2, <1>4, <1>8, <1>13, OneEventStep

LEMMA BackTold ==
    ASSUME NEW r \in Row, NEW l \in Seq(Event), NEW e \in Event, Told(r, l),
           e.type = "return_initiated"
    PROVE  Told(Back(r, e), Append(l, e))
<1> DEFINE base == ApplyTo(r, e)
<1>1. Told(base, Append(l, e)) /\ base \in Row
  BY TellOne, ApplyToType
<1>2. Back(r, e) = [base EXCEPT !.due = FALSE]
  BY DEF Back
<1> HIDE DEF base
<1> QED
  BY <1>1, <1>2, TellMarked DEF Row

LEMMA InitiateReturnTold ==
    ASSUME IInv, HInv, NEW s \in Shipments, NEW caller, InitiateReturn(s, caller)
    PROVE  HInv'
<1> DEFINE e == EventOf("return_initiated", None, None)
           r == Back(row[s], e)
<1>1. e \in Event /\ e.type = "return_initiated" /\ e.key = NextKey
  BY EventOfType, EventOfKey DEF IInv, EventTypes, SomeDriver
<1>2. row[s] \in Row /\ legs[s] \in Seq(Leg) /\ log[s] \in Seq(Event)
  BY DEF IInv, TypeOK
<1>3. /\ Commit(s, "return", caller, Plain, <<e>>, r)
      /\ Legal(row[s], "return_initiated", FALSE)
      /\ legs' = [legs EXCEPT ![s] = SpawnReturnLeg(legs[s])]
  BY <1>1 DEF InitiateReturn
<1>4. row[s].status \notin {"DELIVERED", "RETURNED"}
  BY <1>3, LegalMeansAlive DEF TerminalStatuses
<1>5. Told(row[s], log[s]) /\ Carried(row[s], log[s], legs[s])
  BY DEF HInv
<1>6. /\ legs'[s] = SpawnReturnLeg(legs[s])
      /\ \A t \in Shipments : t # s => legs'[t] = legs[t]
  BY <1>3 DEF IInv, TypeOK
<1> HIDE DEF e
<1>7. Told(r, Append(log[s], e))
  BY <1>1, <1>2, <1>5, BackTold
<1>8. r.status = "RETURN_PENDING"
  BY <1>1, <1>2, BackType DEF TargetStatus
<1> HIDE DEF r
<1>9. Carried(r, Append(log[s], e), legs'[s])
  BY <1>1, <1>2, <1>4, <1>5, <1>6, <1>8, CarriedBack
<1> QED
  BY <1>1, <1>3, <1>6, <1>7, <1>9, OneEventStep

\* closeUncollectedCod does not touch what the log says either.
LEMMA CloseTold ==
    ASSUME NEW r \in Row, NEW l, Told(r, l) PROVE Told(CloseUncollectedCod(r), l)
BY TellMarked DEF CloseUncollectedCod, Row

LEMMA CompleteReturnTold ==
    ASSUME IInv, HInv, NEW s \in Shipments, NEW caller \in Callers, CompleteReturn(s, caller)
    PROVE  HInv'
<1> DEFINE e == EventOf("returned", DriverOf(caller), None)
           base == ApplyTo(row[s], e)
           r == CloseUncollectedCod(base)
           closed == [i \in DOMAIN legs[s] |->
                         IF i \in OpenReturnLegs(s)
                         THEN [legs[s][i] EXCEPT !.status = "COMPLETED"] ELSE legs[s][i]]
<1>1. e \in Event /\ e.type = "returned" /\ e.key = NextKey
  BY EventOfType, EventOfKey DEF IInv, EventTypes, SomeDriver, DriverOf
<1>2. row[s] \in Row /\ legs[s] \in Seq(Leg) /\ log[s] \in Seq(Event)
  BY DEF IInv, TypeOK
<1>3. /\ Commit(s, "return_complete", caller, Plain, <<e>>, r)
      /\ legs' = [legs EXCEPT ![s] = closed]
  BY <1>1 DEF CompleteReturn
<1>4. Told(row[s], log[s]) /\ Carried(row[s], log[s], legs[s])
  BY DEF HInv
<1>5. DOMAIN closed = DOMAIN legs[s]
  OBVIOUS
<1>6. ASSUME NEW i \in DOMAIN legs[s]
      PROVE  /\ closed[i].type = legs[s][i].type
             /\ i \in ReturnLegs(legs[s]) => closed[i].status = "COMPLETED"
  <2>1. legs[s][i] \in Leg
    BY <1>2, ElementOfSeq, LenProperties
  <2>2. CASE i \in OpenReturnLegs(s)
    BY <2>1, <2>2 DEF Leg
  <2>3. CASE i \notin OpenReturnLegs(s)
    BY <2>1, <2>3 DEF Leg, OpenReturnLegs, ReturnLegs
  <2> QED
    BY <2>2, <2>3
<1>7. legs'[s] = closed /\ \A t \in Shipments : t # s => legs'[t] = legs[t]
  BY <1>3 DEF IInv, TypeOK
<1> HIDE DEF e, closed
<1>8. Told(r, Append(log[s], e))
  <2>1. Told(base, Append(log[s], e)) /\ base \in Row
    BY <1>1, <1>2, <1>4, TellOne, ApplyToType
  <2> HIDE DEF base
  <2> QED
    BY <2>1, CloseTold
<1>9. r.status = "RETURNED"
  <2>1. base \in Row /\ base.status = "RETURNED"
    BY <1>1, <1>2, ApplyToType DEF TargetStatus
  <2> HIDE DEF base
  <2> QED
    BY <2>1, CloseUncollectedCodType
<1> HIDE DEF r
<1>10. \A i \in ReturnLegs(legs[s]) : closed[i].status = "COMPLETED"
  BY <1>6 DEF ReturnLegs
<1>11. Carried(r, Append(log[s], e), closed)
  BY <1>1, <1>2, <1>4, <1>5, <1>6, <1>9, <1>10, CarriedOn
<1> QED
  BY <1>1, <1>3, <1>7, <1>8, <1>11, OneEventStep

LEMMA CancelTold ==
    ASSUME IInv, HInv, NEW s \in Shipments, NEW caller, NEW canOverride \in BOOLEAN,
           Cancel(s, caller, canOverride)
    PROVE  HInv'
<1> DEFINE e == EventOf("cancelled", None, None)
           base == ApplyTo(row[s], e)
           r == CloseUncollectedCod(base)
<1>1. e \in Event /\ e.type = "cancelled" /\ e.key = NextKey
  BY EventOfType, EventOfKey DEF IInv, EventTypes, SomeDriver
<1>2. row[s] \in Row /\ log[s] \in Seq(Event)
  BY DEF IInv, TypeOK
<1>3. /\ Commit(s, "cancel", caller, Plain, <<e>>, r)
      /\ Legal(row[s], "cancelled", canOverride)
      /\ legs' = legs
  BY <1>1 DEF Cancel
<1>4. row[s].status \notin {"DELIVERED", "RETURNED"}
  BY <1>3, LegalMeansAlive DEF TerminalStatuses
<1>5. Told(row[s], log[s]) /\ Carried(row[s], log[s], legs[s])
  BY DEF HInv
<1> HIDE DEF e
<1>6. Told(r, Append(log[s], e))
  <2>1. Told(base, Append(log[s], e)) /\ base \in Row
    BY <1>1, <1>2, <1>5, TellOne, ApplyToType
  <2> HIDE DEF base
  <2> QED
    BY <2>1, CloseTold
<1>7. r.status = "CANCELLED"
  <2>1. base \in Row /\ base.status = "CANCELLED"
    BY <1>1, <1>2, ApplyToType DEF TargetStatus
  <2> HIDE DEF base
  <2> QED
    BY <2>1, CloseUncollectedCodType
<1> HIDE DEF r
<1>8. \A i \in ReturnLegs(legs[s]) : legs[s][i].status # "COMPLETED"
  BY <1>4, <1>5 DEF Carried
<1>9. Carried(r, Append(log[s], e), legs'[s])
  BY <1>1, <1>2, <1>3, <1>5, <1>7, <1>8, CarriedOn
<1> QED
  BY <1>1, <1>3, <1>6, <1>9, OneEventStep

\* Events recorded together are recorded one after the other.
LEMMA AppendTwo ==
    ASSUME NEW l \in Seq(Event), NEW a \in Event, NEW b \in Event
    PROVE  /\ Append(Append(l, a), b) = l \o <<a, b>>
           /\ Append(l, a) \in Seq(Event)
           /\ Append(Append(l, a), b) \in Seq(Event)
<1>1. Append(l, a) \in Seq(Event) /\ Append(Append(l, a), b) \in Seq(Event)
  BY AppendProperties
<1>2. Append(Append(l, a), b) = (l \o <<a>>) \o <<b>>
  BY <1>1, AppendIsConcat
<1>3. <<a>> \in Seq(Event) /\ <<b>> \in Seq(Event) /\ <<a>> \o <<b>> = <<a, b>>
  <2>1. <<a>> \in Seq(Event) /\ <<b>> \in Seq(Event)
    OBVIOUS
  <2>2. <<a>> \o <<b>> = <<a, b>>
    <3> DEFINE x == <<a>>
               y == <<b>>
               z == <<a, b>>
    <3>1. /\ x \in Seq(Event) /\ Len(x) = 1 /\ x[1] = a
          /\ y \in Seq(Event) /\ Len(y) = 1 /\ y[1] = b
          /\ z \in Seq(Event) /\ Len(z) = 2 /\ z[1] = a /\ z[2] = b
      OBVIOUS
    <3> HIDE DEF x, y, z
    <3>2. /\ x \o y \in Seq(Event) /\ Len(x \o y) = 2
          /\ (x \o y)[1] = a /\ (x \o y)[2] = b
      <4>1. /\ x \o y \in Seq(Event) /\ Len(x \o y) = Len(x) + Len(y)
            /\ \A i \in 1 .. Len(x) + Len(y) :
                   (x \o y)[i] = IF i <= Len(x) THEN x[i] ELSE y[i - Len(x)]
        BY <3>1, ConcatProperties
      <4>2. /\ Len(x) + Len(y) = 2
            /\ \A i \in 1 .. 2 : (x \o y)[i] = IF i <= 1 THEN x[i] ELSE y[i - 1]
        BY <3>1, <4>1
      <4> QED
        BY <3>1, <4>1, <4>2
    <3>3. \A i \in 1 .. 2 : i = 1 \/ i = 2
      OBVIOUS
    <3>4. x \o y = z
      BY <3>1, <3>2, <3>3, SeqEqual
    <3> QED
      BY <3>4 DEF x, y, z
  <2> QED
    BY <2>1, <2>2
<1>4. (l \o <<a>>) \o <<b>> = l \o (<<a>> \o <<b>>)
  BY <1>3, ConcatAssociative
<1> QED
  BY <1>1, <1>2, <1>3, <1>4

LEMMA AppendThree ==
    ASSUME NEW l \in Seq(Event), NEW a \in Event, NEW b \in Event, NEW c \in Event
    PROVE  Append(Append(Append(l, a), b), c) = l \o <<a, b, c>>
<1>1. <<a, b>> \in Seq(Event) /\ <<c>> \in Seq(Event) /\ <<a, b>> \o <<c>> = <<a, b, c>>
  <2>1. <<a, b>> \in Seq(Event) /\ <<c>> \in Seq(Event)
    OBVIOUS
  <2>2. <<a, b>> \o <<c>> = <<a, b, c>>
    <3> DEFINE x == <<a, b>>
               y == <<c>>
               z == <<a, b, c>>
    <3>1. /\ x \in Seq(Event) /\ Len(x) = 2 /\ x[1] = a /\ x[2] = b
          /\ y \in Seq(Event) /\ Len(y) = 1 /\ y[1] = c
          /\ z \in Seq(Event) /\ Len(z) = 3 /\ z[1] = a /\ z[2] = b /\ z[3] = c
      OBVIOUS
    <3> HIDE DEF x, y, z
    <3>2. /\ x \o y \in Seq(Event) /\ Len(x \o y) = 3
          /\ (x \o y)[1] = a /\ (x \o y)[2] = b /\ (x \o y)[3] = c
      <4>1. /\ x \o y \in Seq(Event) /\ Len(x \o y) = Len(x) + Len(y)
            /\ \A i \in 1 .. Len(x) + Len(y) :
                   (x \o y)[i] = IF i <= Len(x) THEN x[i] ELSE y[i - Len(x)]
        BY <3>1, ConcatProperties
      <4>2. /\ Len(x) + Len(y) = 3
            /\ \A i \in 1 .. 3 : (x \o y)[i] = IF i <= 2 THEN x[i] ELSE y[i - 2]
        BY <3>1, <4>1
      <4> QED
        BY <3>1, <4>1, <4>2
    <3>3. \A i \in 1 .. 3 : i = 1 \/ i = 2 \/ i = 3
      OBVIOUS
    <3>4. x \o y = z
      BY <3>1, <3>2, <3>3, SeqEqual
    <3> QED
      BY <3>4 DEF x, y, z
  <2> QED
    BY <2>1, <2>2
<1>2. /\ Append(Append(l, a), b) \in Seq(Event)
      /\ Append(Append(l, a), b) = l \o <<a, b>>
  BY AppendTwo
<1>3. Append(Append(Append(l, a), b), c) = (l \o <<a, b>>) \o <<c>>
  BY <1>2, AppendIsConcat
<1>4. (l \o <<a, b>>) \o <<c>> = l \o (<<a, b>> \o <<c>>)
  BY <1>1, ConcatAssociative
<1> QED
  BY <1>1, <1>3, <1>4

\* A delivery attempt by the holder: the row, the log and the legs agree after
\* it, and the holder is still the holder.
LEMMA AttemptMade ==
    ASSUME NEW r \in Row, NEW l \in Seq(Event), NEW e \in Event, NEW d, NEW ls,
           Told(r, l), Carried(r, l, ls), HeldBy(r, d), e.type = "delivery_attempted",
           r.status \notin {"DELIVERED", "RETURNED"}
    PROVE  /\ ApplyAttempt(r, e) \in Row /\ HeldBy(ApplyAttempt(r, e), d)
           /\ ApplyAttempt(r, e).status = r.status
           /\ Told(ApplyAttempt(r, e), Append(l, e))
           /\ Carried(ApplyAttempt(r, e), Append(l, e), ls)
<1> DEFINE q == ApplyAttempt(r, e)
<1>1. q \in Row /\ q.status = r.status
  BY ApplyAttemptType DEF TargetStatus
<1>2. Told(q, Append(l, e)) /\ HeldBy(q, d)
  BY TellAttempt DEF HeldBy
<1> HIDE DEF q
<1>3. \A i \in ReturnLegs(ls) : ls[i].status # "COMPLETED"
  BY DEF Carried
<1>4. Carried(q, Append(l, e), ls)
  BY <1>1, <1>3, CarriedOn
<1> QED
  BY <1>1, <1>2, <1>4 DEF q

LEMMA RecordFailedAttemptTold ==
    ASSUME IInv, HInv, NEW s \in Shipments, NEW d \in Drivers, NEW reasonAllows \in BOOLEAN,
           RecordFailedAttempt(s, d, reasonAllows)
    PROVE  HInv'
<1> DEFINE tried  == EventOf("delivery_attempted", d, None)
           failed == EventOf("delivery_failed", d, None)
           back   == EventOf("return_initiated", None, None)
           request == [Plain EXCEPT !.flag = reasonAllows]
           r1 == ApplyAttempt(row[s], tried)
           r2 == ApplyTo(r1, failed)
           l1 == Append(log[s], tried)
           l2 == Append(l1, failed)
           l3 == Append(l2, back)
<1>1. /\ tried \in Event /\ tried.type = "delivery_attempted" /\ tried.key = NextKey
      /\ failed \in Event /\ failed.type = "delivery_failed" /\ failed.key = NextKey
      /\ failed.driver = d
      /\ back \in Event /\ back.type = "return_initiated" /\ back.key = NextKey
  BY EventOfType, EventOfKey DEF IInv, EventTypes, SomeDriver
<1>2. row[s] \in Row /\ legs[s] \in Seq(Leg) /\ log[s] \in Seq(Event)
  BY DEF IInv, TypeOK
<1>3. /\ Legal(row[s], "delivery_attempted", FALSE)
      /\ HeldBy(row[s], d)
      /\ \/ /\ Commit(s, "fail", d, request, <<tried, failed>>, [r2 EXCEPT !.due = TRUE])
            /\ legs' = legs
         \/ /\ Commit(s, "fail", d, request, <<tried, failed, back>>, Back(r2, back))
            /\ legs' = [legs EXCEPT ![s] = SpawnReturnLeg(legs[s])]
  BY <1>1 DEF RecordFailedAttempt
<1>4. row[s].status \notin {"DELIVERED", "RETURNED"}
  BY <1>3, LegalMeansAlive DEF TerminalStatuses
<1>5. Told(row[s], log[s]) /\ Carried(row[s], log[s], legs[s])
  BY DEF HInv
<1> HIDE DEF tried, failed, back, request
<1>6. l1 \in Seq(Event) /\ l2 \in Seq(Event) /\ l2 = log[s] \o <<tried, failed>>
      /\ l3 = log[s] \o <<tried, failed, back>>
  BY <1>1, <1>2, AppendTwo, AppendThree
<1>7. /\ r1 \in Row /\ HeldBy(r1, d) /\ r1.status = row[s].status
      /\ Told(r1, l1) /\ Carried(r1, l1, legs[s])
  BY <1>1, <1>2, <1>3, <1>4, <1>5, AttemptMade
<1> HIDE DEF r1, l1
<1>8. Told(r2, l2) /\ r2 \in Row /\ r2.status = "ATTEMPT_FAILED"
  BY <1>1, <1>6, <1>7, TellOne, ApplyToType DEF TargetStatus
<1> HIDE DEF r2, l2
<1>9. ASSUME NEW q, q.status = "ATTEMPT_FAILED" PROVE Carried(q, l2, legs[s])
  <2>1. \A i \in ReturnLegs(legs[s]) : legs[s][i].status # "COMPLETED"
    BY <1>4, <1>7 DEF Carried
  <2>2. Carried(q, Append(l1, failed), legs[s])
    BY <1>1, <1>6, <1>7, <1>9, <2>1, CarriedOn
  <2> QED
    BY <2>2 DEF l2
<1>10. CASE /\ Commit(s, "fail", d, request, <<tried, failed>>, [r2 EXCEPT !.due = TRUE])
            /\ legs' = legs
  <2> DEFINE es == <<tried, failed>>
             q == [r2 EXCEPT !.due = TRUE]
  <2>1. q.status = "ATTEMPT_FAILED" /\ Told(q, l2)
    BY <1>8, TellMarked DEF Row
  <2>2. es \in Seq(Event) /\ es # <<>> /\ \A j \in DOMAIN es : es[j].key = NextKey
    BY <1>1
  <2>3. Commit(s, "fail", d, request, es, q)
    BY <1>10
  <2>4. l2 = log[s] \o es
    BY <1>6
  <2> HIDE DEF es, q
  <2>5. Carried(q, l2, legs'[s])
    BY <1>9, <1>10, <2>1
  <2>6. \A t \in Shipments : t # s => legs'[t] = legs[t]
    BY <1>10
  <2> QED
    BY <2>1, <2>2, <2>3, <2>4, <2>5, <2>6, CommitStep
<1>11. CASE /\ Commit(s, "fail", d, request, <<tried, failed, back>>, Back(r2, back))
            /\ legs' = [legs EXCEPT ![s] = SpawnReturnLeg(legs[s])]
  <2> DEFINE es == <<tried, failed, back>>
             q == Back(r2, back)
  <2>1. Told(q, l3)
    BY <1>1, <1>6, <1>8, BackTold
  <2>2. es \in Seq(Event) /\ es # <<>> /\ \A j \in DOMAIN es : es[j].key = NextKey
    <3>1. es \in Seq(Event) /\ es # <<>> /\ DOMAIN es = 1 .. 3
      BY <1>1
    <3>2. es[1] = tried /\ es[2] = failed /\ es[3] = back
      OBVIOUS
    <3>3. \A j \in 1 .. 3 : j = 1 \/ j = 2 \/ j = 3
      OBVIOUS
    <3> HIDE DEF es
    <3> QED
      BY <1>1, <3>1, <3>2, <3>3
  <2>3. Commit(s, "fail", d, request, es, q)
    BY <1>11
  <2>4. q.status = "RETURN_PENDING"
    BY <1>1, <1>8, BackType DEF TargetStatus
  <2>5. l3 = log[s] \o es
    BY <1>6
  <2> HIDE DEF es, q
  <2>6. legs'[s] = SpawnReturnLeg(legs[s]) /\ \A t \in Shipments : t # s => legs'[t] = legs[t]
    BY <1>11 DEF IInv, TypeOK
  <2>7. Carried(r2, l2, legs[s])
    BY <1>8, <1>9
  <2>8. Carried(q, l3, legs'[s])
    BY <1>1, <1>2, <1>6, <1>8, <2>4, <2>6, <2>7, CarriedBack
  <2> HIDE DEF l3
  <2> QED
    BY <2>1, <2>2, <2>3, <2>5, <2>6, <2>8, CommitStep
<1> QED
  BY <1>3, <1>10, <1>11

LEMMA ConfirmDeliveryTold ==
    ASSUME IInv, HInv, NEW s \in Shipments, NEW d \in Drivers, NEW cash \in BOOLEAN,
           NEW leg \in DOMAIN legs[s], ConfirmDelivery(s, d, cash, leg)
    PROVE  HInv'
<1> DEFINE isCod == row[s].amount > 0
           tried == EventOf("delivery_attempted", d, None)
           done  == EventOf("delivered", d, None)
           request == [Plain EXCEPT !.leg = leg, !.flag = cash]
           r1 == ApplyAttempt(row[s], tried)
           r2 == ApplyTo(r1, done)
           r  == IF isCod THEN [r2 EXCEPT !.cod = "COLLECTED"] ELSE r2
           l1 == Append(log[s], tried)
           l2 == Append(l1, done)
           es == <<tried, done>>
           ms == [legs[s] EXCEPT ![leg].status = "COMPLETED"]
<1>1. /\ tried \in Event /\ tried.type = "delivery_attempted" /\ tried.key = NextKey
      /\ done \in Event /\ done.type = "delivered" /\ done.key = NextKey
      /\ done.driver = d
  BY EventOfType, EventOfKey DEF IInv, EventTypes, SomeDriver
<1>2. row[s] \in Row /\ legs[s] \in Seq(Leg) /\ log[s] \in Seq(Event)
  BY DEF IInv, TypeOK
<1>3. /\ Legal(row[s], "delivery_attempted", FALSE)
      /\ HeldBy(row[s], d)
      /\ legs' = [legs EXCEPT ![s] = ms]
      /\ Commit(s, "deliver", d, request, es, r)
  BY <1>1 DEF ConfirmDelivery
<1>4. row[s].status \notin {"DELIVERED", "RETURNED"}
  BY <1>3, LegalMeansAlive DEF TerminalStatuses
<1>5. Told(row[s], log[s]) /\ Carried(row[s], log[s], legs[s])
  BY DEF HInv
<1>6. legs'[s] = ms /\ \A t \in Shipments : t # s => legs'[t] = legs[t]
  BY <1>3 DEF IInv, TypeOK
<1>7. DOMAIN ms = DOMAIN legs[s] /\ \A i \in DOMAIN legs[s] : ms[i].type = legs[s][i].type
  <2>1. \A i \in DOMAIN legs[s] : legs[s][i] \in Leg
    BY <1>2, ElementOfSeq, LenProperties
  <2> QED
    BY <2>1 DEF Leg
<1> HIDE DEF tried, done, request, isCod, ms
<1>8. es \in Seq(Event) /\ es # <<>> /\ \A j \in DOMAIN es : es[j].key = NextKey
  BY <1>1
<1>9. l1 \in Seq(Event) /\ l2 = log[s] \o es
  BY <1>1, <1>2, AppendTwo
<1> HIDE DEF es
<1>10. /\ r1 \in Row /\ HeldBy(r1, d) /\ r1.status = row[s].status
       /\ Told(r1, l1) /\ Carried(r1, l1, legs[s])
  BY <1>1, <1>2, <1>3, <1>4, <1>5, AttemptMade
<1> HIDE DEF r1, l1
<1>11. Told(r2, l2) /\ r2 \in Row /\ r2.status = "DELIVERED"
  BY <1>1, <1>9, <1>10, TellOne, ApplyToType DEF TargetStatus
<1> HIDE DEF r2
<1>12. Told(r, l2) /\ r.status = "DELIVERED"
  <2> HIDE DEF l2
  <2> QED
    BY <1>11, TellMarked DEF Row
<1> HIDE DEF r
<1>13. Carried(r, l2, ms)
  BY <1>1, <1>7, <1>9, <1>10, <1>12, CarriedOn
<1> HIDE DEF l2
<1> QED
  BY <1>3, <1>6, <1>8, <1>9, <1>12, <1>13, CommitStep

-----------------------------------------------------------------------------
(* The theorems about the custody log *)

LEMMA InitHInv == Init => HInv
<1> SUFFICES ASSUME Init PROVE HInv
  OBVIOUS
<1> DEFINE r0 == NewRow(0)
<1>1. /\ r0.status = "CREATED" /\ r0.seq = 0 /\ r0.attempts = 0 /\ r0.lastDriver = None
      /\ r0.custody = [kind |-> "NOBODY", id |-> None]
  BY DEF NewRow
<1>2. \A s \in Shipments : row[s] = r0 /\ log[s] = <<>> /\ legs[s] = <<>>
  BY DEF Init
<1> HIDE DEF r0
<1>3. Told(r0, <<>>)
  BY <1>1, NothingTold
<1>4. Carried(r0, <<>>, <<>>)
  BY <1>1 DEF Carried, ReturnLegs, SentBack
<1>5. \A s \in Shipments : Told(row[s], log[s]) /\ Carried(row[s], log[s], legs[s])
  BY <1>2, <1>3, <1>4
<1>6. KeysAreUsed
  BY <1>2 DEF KeysAreUsed
<1>7. uses = <<>> /\ reply = <<>>
  BY DEF Init
<1> QED
  BY <1>5, <1>6, <1>7 DEF HInv

\* Every step keeps the second invariant, on top of the first.
LEMMA NextHInv == IInv /\ HInv /\ [Next]_vars => HInv'
<1> SUFFICES ASSUME IInv, HInv, [Next]_vars PROVE HInv'
  OBVIOUS
<1>1. ASSUME NEW s \in Shipments, DriverCommand(s) PROVE HInv'
  BY <1>1, ConfirmDeliveryTold, RecordFailedAttemptTold DEF DriverCommand
<1>2. ASSUME NEW s \in Shipments, StaffCommand(s) PROVE HInv'
  <2> PICK caller \in Staff : StaffCommand(s)!(caller)
    BY <1>2 DEF StaffCommand
  <2>1. CASE \E amount \in Amounts : Create(s, caller, amount)
    BY <2>1, CreateTold
  <2>2. CASE \E d \in Drivers, leg \in DOMAIN legs[s] : RecordPickup(s, "pickup", caller, d, leg)
    BY <2>2, RecordPickupTold DEF SomeDriver
  <2>3. CASE InitiateReturn(s, caller)
    BY <2>3, InitiateReturnTold
  <2>4. CASE \E canOverride \in BOOLEAN : Cancel(s, caller, canOverride)
    BY <2>4, CancelTold
  <2>5. CASE \E type \in DispatchEvents, d \in Drivers : RecordEvent(s, caller, type, d, None)
    BY <2>5, RecordEventTold DEF SomeDriver
  <2>6. CASE \E type \in HubEvents, h \in Hubs : RecordEvent(s, caller, type, None, h)
    BY <2>6, RecordEventTold DEF SomeDriver
  <2> QED
    BY <2>1, <2>2, <2>3, <2>4, <2>5, <2>6
<1>3. ASSUME NEW s \in Shipments, CollectorCommand(s) PROVE HInv'
  <2> PICK caller \in Callers : CollectorCommand(s)!(caller)
    BY <1>3 DEF CollectorCommand
  <2>1. DriverOf(caller) \in SomeDriver
    BY DEF DriverOf, SomeDriver
  <2>2. CASE RecordEvent(s, caller, "assigned", DriverOf(caller), None)
    BY <2>1, <2>2, RecordEventTold DEF DispatchEvents
  <2>3. CASE \E leg \in DOMAIN legs[s] :
                RecordPickup(s, "pickup_scan", caller, DriverOf(caller), leg)
    BY <2>1, <2>3, RecordPickupTold
  <2>4. CASE CompleteReturn(s, caller)
    BY <2>4, CompleteReturnTold
  <2> QED
    BY <2>2, <2>3, <2>4
<1>4. ASSUME NEW i \in DOMAIN uses, NEW k \in DOMAIN uses, Resend(i, k) PROVE HInv'
  BY <1>4, ResendAnswers
<1>5. ASSUME UNCHANGED vars PROVE HInv'
  BY <1>5 DEF vars, HInv, KeysAreUsed
<1> QED
  BY <1>1, <1>2, <1>3, <1>4, <1>5 DEF Next

LEMMA AlwaysHInv == Spec => []HInv
<1>1. Init => HInv
  BY InitHInv
<1>2. IInv /\ HInv /\ [Next]_vars => HInv'
  BY NextHInv
<1> QED
  BY <1>1, <1>2, AlwaysIInv, PTL DEF Spec

\* The shipments row never drifts from the custody log: status, sequence,
\* holder, attempt count and last driver are what applyTo makes of the events.
THEOREM RowFollowsLog == Spec => []RowIsProjection
<1>1. HInv => RowIsProjection
  BY DEF HInv, Told, RowIsProjection
<1> QED
  BY <1>1, AlwaysHInv, PTL

\* Nobody but the driver who holds the parcel by the log is ever recorded as
\* delivering it or failing to: assertDriverHolds compares with the row, and
\* the row is what the log says.
THEOREM OutcomesByHolder == Spec => []OutcomeIsTheHolders
<1>1. HInv => OutcomeIsTheHolders
  BY DEF HInv, Told, OutcomesHeld, OutcomeIsTheHolders
<1> QED
  BY <1>1, AlwaysHInv, PTL

\* However often a return is initiated, a parcel has one RETURN leg from the
\* first time on, open while it has to go back and closed when it has come back.
THEOREM ReturnIsCarried == Spec => []ReturnHasTransport
<1>1. ASSUME TypeOK, HInv PROVE ReturnHasTransport
  <2> SUFFICES ASSUME NEW s \in Shipments
               PROVE  /\ Cardinality(ReturnLegs(legs[s])) = IF SentBack(log[s]) THEN 1 ELSE 0
                      /\ row[s].status = "RETURN_PENDING" => OpenReturnLegs(s) # {}
                      /\ row[s].status = "RETURNED" => OpenReturnLegs(s) = {}
    BY DEF ReturnHasTransport, ReturnLegs, SentBack
  <2>1. Carried(row[s], log[s], legs[s])
    BY <1>1 DEF HInv
  <2>2. \A i \in DOMAIN legs[s] : legs[s][i] \in Leg
    BY <1>1, ElementOfSeq, LenProperties DEF TypeOK
  <2>3. Cardinality(ReturnLegs(legs[s])) = IF SentBack(log[s]) THEN 1 ELSE 0
    <3>1. CASE SentBack(log[s])
      <4>1. PICK i \in ReturnLegs(legs[s]) : ReturnLegs(legs[s]) = {i}
        BY <2>1, <3>1 DEF Carried
      <4>2. Cardinality({i}) = 1
        BY FS_Singleton
      <4> QED
        BY <3>1, <4>1, <4>2
    <3>2. CASE ~SentBack(log[s])
      <4>1. ReturnLegs(legs[s]) = {}
        BY <2>1, <3>2 DEF Carried
      <4> QED
        BY <3>2, <4>1, FS_EmptySet
    <3> QED
      BY <3>1, <3>2
  <2>4. ASSUME row[s].status = "RETURN_PENDING" PROVE OpenReturnLegs(s) # {}
    <3>1. PICK i \in ReturnLegs(legs[s]) : legs[s][i].status # "COMPLETED"
      BY <2>1, <2>4 DEF Carried
    <3>2. i \in OpenReturnLegs(s)
      BY <2>2, <3>1 DEF OpenReturnLegs, ReturnLegs, Leg
    <3> QED
      BY <3>2
  <2>5. ASSUME row[s].status = "RETURNED" PROVE OpenReturnLegs(s) = {}
    BY <2>1, <2>5 DEF Carried, OpenReturnLegs, ReturnLegs
  <2> QED
    BY <2>3, <2>4, <2>5
<1>2. IInv => TypeOK
  BY DEF IInv
<1> QED
  BY <1>1, <1>2, AlwaysIInv, AlwaysHInv, PTL

\* A repeated request is answered with the shipment as the request itself left
\* it: the parcel is its own, and nothing done since has leaked into the answer.
THEOREM RepliesAreHistory == Spec => []ReplyIsItsHistory
<1>1. HInv => ReplyIsItsHistory
  BY DEF HInv, Answers, Mine, ReplyIsItsHistory
<1> QED
  BY <1>1, AlwaysHInv, PTL

-----------------------------------------------------------------------------
(* Amendments: what any command does to a parcel *)

\* What a command does to a parcel, as its amendments see it: it appends to the
\* log, and leaves the amount of a parcel that is there alone.
Committed ==
    \E s \in Shipments, command \in Commands, caller \in Callers, request \in Request,
       es \in Seq(Event), r \in Row :
        /\ Commit(s, command, caller, request, es, r)
        /\ es # <<>> /\ r.seq > 0
        /\ Exists(s) => r.amount = row[s].amount
        /\ ~Exists(s) => es[1].key = NextKey /\ request.amount = r.amount

\* The end of a command that keeps the types.
LEMMA CommandEnds ==
    ASSUME TypeOK, NEW s \in Shipments, NEW command \in Commands, NEW caller \in Callers,
           NEW request \in Request, NEW es \in Seq(Event), NEW r \in Row,
           Commit(s, command, caller, request, es, r),
           es # <<>>, r.seq > 0,
           Exists(s) => r.amount = row[s].amount,
           ~Exists(s) => es[1].key = NextKey /\ request.amount = r.amount,
           legs' \in [Shipments -> Seq(Leg)], pods' \subseteq Shipments,
           facts' \in [Shipments -> Seq([driver : Drivers, amount : Amounts])]
    PROVE  TypeOK' /\ Committed
<1>1. /\ row' \in [Shipments -> Row] /\ log' \in [Shipments -> Seq(Event)]
      /\ uses' \in Seq(Use) /\ reply' \in Seq(Reply)
  BY CommitType
<1>2. Committed
  BY DEF Committed
<1> QED
  BY <1>1, <1>2 DEF TypeOK

\* What every request is made of.
LEMMA RequestsTyped ==
    ASSUME NEW d \in SomeDriver, NEW h \in Hubs \cup {None}, NEW leg \in Nat,
           NEW amount \in Amounts, NEW flag \in BOOLEAN
    PROVE  /\ Plain \in Request
           /\ [Plain EXCEPT !.amount = amount] \in Request
           /\ [Plain EXCEPT !.amount = amount].amount = amount
           /\ [Plain EXCEPT !.driver = d, !.leg = leg] \in Request
           /\ [Plain EXCEPT !.driver = d, !.hub = h] \in Request
           /\ [Plain EXCEPT !.leg = leg, !.flag = flag] \in Request
           /\ [Plain EXCEPT !.flag = flag] \in Request
  BY ShipmentAssumption DEF Plain, Request, SomeDriver

LEMMA LegsTyped ==
    ASSUME TypeOK, NEW s \in Shipments, NEW leg \in DOMAIN legs[s],
           NEW status \in {"PLANNED", "IN_PROGRESS", "COMPLETED"}
    PROVE  /\ leg \in Nat
           /\ [legs EXCEPT ![s][leg].status = status] \in [Shipments -> Seq(Leg)]
<1>1. legs[s] \in Seq(Leg)
  BY DEF TypeOK
<1>2. leg \in Nat
  BY <1>1, LenProperties
<1>3. [legs[s] EXCEPT ![leg].status = status] \in Seq(Leg)
  BY <1>1, LegStatusType
<1>4. [legs EXCEPT ![s][leg].status = status]
          = [legs EXCEPT ![s] = [legs[s] EXCEPT ![leg].status = status]]
  OBVIOUS
<1> DEFINE ls == [legs[s] EXCEPT ![leg].status = status]
<1> HIDE DEF ls
<1>5. [legs EXCEPT ![s] = ls] \in [Shipments -> Seq(Leg)]
  BY <1>3 DEF TypeOK, ls
<1> QED
  BY <1>2, <1>4, <1>5 DEF ls

LEMMA CreateEnds ==
    ASSUME TypeOK, NEW s \in Shipments, NEW caller \in Callers, NEW amount \in Amounts,
           Create(s, caller, amount)
    PROVE  TypeOK' /\ Committed
<1> DEFINE e == EventOf("created", None, None)
           request == [Plain EXCEPT !.amount = amount]
           r == ApplyTo(NewRow(amount), e)
<1>1. e \in Event /\ e.key = NextKey
  BY EventOfType, EventOfKey DEF EventTypes, SomeDriver
<1>2. NewRow(amount) \in Row /\ NewRow(amount).seq = 0 /\ NewRow(amount).amount = amount
  BY DEF NewRow, Row, Statuses, Custody, CodStatuses, CodFor, SomeDriver
<1>3. r \in Row /\ r.seq = 1 /\ r.amount = amount
  BY <1>1, <1>2, ApplyToType
<1>4. request \in Request /\ request.amount = amount
  BY RequestsTyped, ShipmentAssumption DEF SomeDriver
<1>5. /\ Commit(s, "create", caller, request, <<e>>, r)
      /\ ~Exists(s)
      /\ legs' = [legs EXCEPT ![s] = <<[type |-> "LAST_MILE", status |-> "PLANNED"]>>]
      /\ pods' = pods /\ facts' = facts
  BY DEF Create
<1> DEFINE es == <<e>>
<1> HIDE DEF e, request, r
<1>6. es \in Seq(Event) /\ es # <<>> /\ es[1] = e /\ Commit(s, "create", caller, request, es, r)
  BY <1>1, <1>5
<1> HIDE DEF es
<1>7. <<[type |-> "LAST_MILE", status |-> "PLANNED"]>> \in Seq(Leg)
  BY DEF Leg
<1>8. /\ legs' \in [Shipments -> Seq(Leg)] /\ pods' \subseteq Shipments
      /\ facts' \in [Shipments -> Seq([driver : Drivers, amount : Amounts])]
  BY <1>5, <1>7 DEF TypeOK
<1>9. "create" \in Commands
  BY DEF Commands
<1> QED
  <2>1. r.seq > 0
    BY <1>3
  <2> QED
    BY <1>1, <1>3, <1>4, <1>5, <1>6, <1>8, <1>9, <2>1, CommandEnds

\* A command on a parcel that is there, of one event.
LEMMA OneEventEnds ==
    ASSUME TypeOK, NEW s \in Shipments, NEW command \in Commands, NEW caller \in Callers,
           NEW request \in Request, NEW e \in Event, NEW r \in Row,
           Commit(s, command, caller, request, <<e>>, r), Exists(s),
           r.seq = row[s].seq + 1, r.amount = row[s].amount,
           legs' \in [Shipments -> Seq(Leg)], pods' = pods, facts' = facts
    PROVE  TypeOK' /\ Committed
<1>1. row[s].seq \in Nat
  BY DEF TypeOK, Row
<1>2. r.seq > 0
  BY <1>1
<1>3. <<e>> \in Seq(Event) /\ <<e>> # <<>>
  OBVIOUS
<1>4. /\ pods' \subseteq Shipments
      /\ facts' \in [Shipments -> Seq([driver : Drivers, amount : Amounts])]
  BY DEF TypeOK
<1> QED
  BY <1>2, <1>3, <1>4, CommandEnds

LEMMA RecordPickupEnds ==
    ASSUME TypeOK, NEW s \in Shipments, NEW command \in {"pickup", "pickup_scan"},
           NEW caller \in Callers, NEW d \in SomeDriver, NEW leg \in DOMAIN legs[s],
           RecordPickup(s, command, caller, d, leg)
    PROVE  TypeOK' /\ Committed
<1> DEFINE e == EventOf("picked_up", d, None)
           request == [Plain EXCEPT !.driver = d, !.leg = leg]
           r == ApplyTo(row[s], e)
<1>1. e \in Event
  BY EventOfType DEF EventTypes
<1>2. r \in Row /\ r.seq = row[s].seq + 1 /\ r.amount = row[s].amount
  BY <1>1, ApplyToType DEF TypeOK
<1>3. leg \in Nat /\ [legs EXCEPT ![s][leg].status = "IN_PROGRESS"] \in [Shipments -> Seq(Leg)]
  BY LegsTyped
<1>4. request \in Request
  BY <1>3, RequestsTyped, ShipmentAssumption
<1>5. command \in Commands
  BY DEF Commands
<1>6. /\ Commit(s, command, caller, request, <<e>>, r)
      /\ Exists(s)
      /\ legs' \in [Shipments -> Seq(Leg)] /\ pods' = pods /\ facts' = facts
  BY <1>3 DEF RecordPickup
<1> HIDE DEF e, request, r
<1> QED
  BY <1>1, <1>2, <1>4, <1>5, <1>6, OneEventEnds

LEMMA RecordEventEnds ==
    ASSUME TypeOK, NEW s \in Shipments, NEW caller \in Callers,
           NEW type \in DispatchEvents \cup HubEvents,
           NEW d \in SomeDriver, NEW h \in Hubs \cup {None},
           RecordEvent(s, caller, type, d, h)
    PROVE  TypeOK' /\ Committed
<1> DEFINE e == EventOf(type, d, h)
           request == [Plain EXCEPT !.driver = d, !.hub = h]
           r == ApplyTo(row[s], e)
<1>1. type \in EventTypes /\ type \in Commands
  BY DEF DispatchEvents, HubEvents, EventTypes, Commands
<1>2. e \in Event
  BY <1>1, EventOfType
<1>3. r \in Row /\ r.seq = row[s].seq + 1 /\ r.amount = row[s].amount
  BY <1>2, ApplyToType DEF TypeOK
<1>4. request \in Request
  BY RequestsTyped, ShipmentAssumption
<1>5. /\ Commit(s, type, caller, request, <<e>>, r)
      /\ Exists(s)
      /\ legs' \in [Shipments -> Seq(Leg)] /\ pods' = pods /\ facts' = facts
  BY DEF RecordEvent, TypeOK
<1> HIDE DEF e, request, r
<1> QED
  BY <1>1, <1>2, <1>3, <1>4, <1>5, OneEventEnds

LEMMA InitiateReturnEnds ==
    ASSUME TypeOK, NEW s \in Shipments, NEW caller \in Callers, InitiateReturn(s, caller)
    PROVE  TypeOK' /\ Committed
<1> DEFINE e == EventOf("return_initiated", None, None)
           r == Back(row[s], e)
           ls == SpawnReturnLeg(legs[s])
<1>1. e \in Event
  BY EventOfType DEF EventTypes, SomeDriver
<1>2. r \in Row /\ r.seq = row[s].seq + 1 /\ r.amount = row[s].amount
  BY <1>1, BackType DEF TypeOK
<1>3. ls \in Seq(Leg)
  BY SpawnReturnLegType DEF TypeOK
<1>4. Plain \in Request
  BY RequestsTyped, ShipmentAssumption DEF SomeDriver
<1>5. /\ Commit(s, "return", caller, Plain, <<e>>, r)
      /\ Exists(s)
      /\ legs' = [legs EXCEPT ![s] = ls] /\ pods' = pods /\ facts' = facts
  BY DEF InitiateReturn
<1>6. "return" \in Commands
  BY DEF Commands
<1> HIDE DEF e, r, ls
<1>7. legs' \in [Shipments -> Seq(Leg)]
  BY <1>3, <1>5 DEF TypeOK
<1> QED
  BY <1>1, <1>2, <1>4, <1>5, <1>6, <1>7, OneEventEnds

LEMMA CompleteReturnEnds ==
    ASSUME TypeOK, NEW s \in Shipments, NEW caller \in Callers, CompleteReturn(s, caller)
    PROVE  TypeOK' /\ Committed
<1> DEFINE e == EventOf("returned", DriverOf(caller), None)
           r == CloseUncollectedCod(ApplyTo(row[s], e))
           ls == [i \in DOMAIN legs[s] |-> IF i \in OpenReturnLegs(s)
                                           THEN [legs[s][i] EXCEPT !.status = "COMPLETED"]
                                           ELSE legs[s][i]]
<1>1. e \in Event
  <2>1. DriverOf(caller) \in SomeDriver
    BY DEF DriverOf, SomeDriver
  <2> QED
    BY <2>1, EventOfType DEF EventTypes
<1>2. r \in Row /\ r.seq = row[s].seq + 1 /\ r.amount = row[s].amount
  BY <1>1, ApplyToType, CloseUncollectedCodType DEF TypeOK
<1>3. ls \in Seq(Leg)
  <2>1. legs[s] \in Seq(Leg)
    BY DEF TypeOK
  <2>2. \A i \in DOMAIN legs[s] : legs[s][i] \in Leg
    BY <2>1, ElementOfSeq
  <2>3. \A i \in DOMAIN legs[s] : ls[i] \in Leg
    BY <2>2 DEF Leg
  <2>4. DOMAIN ls = 1 .. Len(legs[s]) /\ Len(legs[s]) \in Nat
    BY <2>1, LenProperties
  <2>5. ls \in [1 .. Len(legs[s]) -> Leg]
    BY <2>3, <2>4
  <2> HIDE DEF ls
  <2> QED
    BY <2>4, <2>5, SeqDef
<1>4. Plain \in Request
  BY RequestsTyped, ShipmentAssumption DEF SomeDriver
<1>5. /\ Commit(s, "return_complete", caller, Plain, <<e>>, r)
      /\ Exists(s)
      /\ legs' = [legs EXCEPT ![s] = ls] /\ pods' = pods /\ facts' = facts
  BY DEF CompleteReturn
<1>6. "return_complete" \in Commands
  BY DEF Commands
<1> HIDE DEF e, r, ls
<1>7. legs' \in [Shipments -> Seq(Leg)]
  BY <1>3, <1>5 DEF TypeOK
<1> QED
  BY <1>1, <1>2, <1>4, <1>5, <1>6, <1>7, OneEventEnds

LEMMA CancelEnds ==
    ASSUME TypeOK, NEW s \in Shipments, NEW caller \in Callers, NEW canOverride \in BOOLEAN,
           Cancel(s, caller, canOverride)
    PROVE  TypeOK' /\ Committed
<1> DEFINE e == EventOf("cancelled", None, None)
           r == CloseUncollectedCod(ApplyTo(row[s], e))
<1>1. e \in Event
  BY EventOfType DEF EventTypes, SomeDriver
<1>2. r \in Row /\ r.seq = row[s].seq + 1 /\ r.amount = row[s].amount
  BY <1>1, ApplyToType, CloseUncollectedCodType DEF TypeOK
<1>3. Plain \in Request
  BY RequestsTyped, ShipmentAssumption DEF SomeDriver
<1>4. /\ Commit(s, "cancel", caller, Plain, <<e>>, r)
      /\ Exists(s)
      /\ legs' \in [Shipments -> Seq(Leg)] /\ pods' = pods /\ facts' = facts
  BY DEF Cancel, TypeOK
<1>5. "cancel" \in Commands
  BY DEF Commands
<1> HIDE DEF e, r
<1> QED
  BY <1>1, <1>2, <1>3, <1>4, <1>5, OneEventEnds

LEMMA RecordFailedAttemptEnds ==
    ASSUME TypeOK, NEW s \in Shipments, NEW d \in Drivers, NEW reasonAllows \in BOOLEAN,
           RecordFailedAttempt(s, d, reasonAllows)
    PROVE  TypeOK' /\ Committed
<1> DEFINE tried  == EventOf("delivery_attempted", d, None)
           failed == EventOf("delivery_failed", d, None)
           back   == EventOf("return_initiated", None, None)
           r1     == ApplyAttempt(row[s], tried)
           r2     == ApplyTo(r1, failed)
           due    == [r2 EXCEPT !.due = TRUE]
           gone   == Back(r2, back)
           ls     == SpawnReturnLeg(legs[s])
           request == [Plain EXCEPT !.flag = reasonAllows]
<1>1. tried \in Event /\ failed \in Event /\ back \in Event
  BY EventOfType DEF EventTypes, SomeDriver
<1>2. row[s] \in Row /\ row[s].seq \in Nat
  BY DEF TypeOK, Row
<1>3. r1 \in Row /\ r1.seq = row[s].seq + 1 /\ r1.amount = row[s].amount
  BY <1>1, <1>2, ApplyAttemptType
<1>4. r2 \in Row /\ r2.seq = row[s].seq + 2 /\ r2.amount = row[s].amount
  <2> HIDE DEF r1
  <2>1. r2 \in Row /\ r2.seq = r1.seq + 1 /\ r2.amount = r1.amount
    BY <1>1, <1>3, ApplyToType
  <2> QED
    BY <1>2, <1>3, <2>1
<1>5. request \in Request
  BY RequestsTyped, ShipmentAssumption DEF SomeDriver
<1>6. ls \in Seq(Leg)
  BY SpawnReturnLegType DEF TypeOK
<1>7. /\ Exists(s) /\ pods' = pods /\ facts' = facts
      /\ \/ Commit(s, "fail", d, request, <<tried, failed>>, due) /\ legs' = legs
         \/ /\ Commit(s, "fail", d, request, <<tried, failed, back>>, gone)
            /\ legs' = [legs EXCEPT ![s] = ls]
  BY DEF RecordFailedAttempt
<1> HIDE DEF tried, failed, back, r1, r2, ls, request
<1>8. due \in Row /\ due.seq = r2.seq /\ due.amount = r2.amount
  BY <1>4 DEF Row
<1>9. gone \in Row /\ gone.seq = r2.seq + 1 /\ gone.amount = r2.amount
  BY <1>1, <1>4, BackType
<1> HIDE DEF due, gone
<1>10. /\ legs' \in [Shipments -> Seq(Leg)] /\ pods' \subseteq Shipments
       /\ facts' \in [Shipments -> Seq([driver : Drivers, amount : Amounts])]
  BY <1>6, <1>7 DEF TypeOK
<1>11. due.seq > 0 /\ gone.seq > 0 /\ due.amount = row[s].amount /\ gone.amount = row[s].amount
  BY <1>2, <1>4, <1>8, <1>9
<1>12. /\ <<tried, failed>> \in Seq(Event) /\ <<tried, failed>> # <<>>
       /\ <<tried, failed, back>> \in Seq(Event) /\ <<tried, failed, back>> # <<>>
  BY <1>1
<1>13. "fail" \in Commands /\ d \in Callers
  BY DEF Commands, Callers
<1>14. CASE Commit(s, "fail", d, request, <<tried, failed>>, due)
  BY <1>5, <1>7, <1>8, <1>10, <1>11, <1>12, <1>13, <1>14, CommandEnds
<1>15. CASE Commit(s, "fail", d, request, <<tried, failed, back>>, gone)
  BY <1>5, <1>7, <1>9, <1>10, <1>11, <1>12, <1>13, <1>15, CommandEnds
<1> QED
  BY <1>7, <1>14, <1>15

LEMMA ConfirmDeliveryEnds ==
    ASSUME TypeOK, NEW s \in Shipments, NEW d \in Drivers, NEW cash \in BOOLEAN,
           NEW leg \in DOMAIN legs[s], ConfirmDelivery(s, d, cash, leg)
    PROVE  TypeOK' /\ Committed
<1> DEFINE tried == EventOf("delivery_attempted", d, None)
           done  == EventOf("delivered", d, None)
           r1    == ApplyAttempt(row[s], tried)
           r2    == ApplyTo(r1, done)
           r     == IF row[s].amount > 0 THEN [r2 EXCEPT !.cod = "COLLECTED"] ELSE r2
           fs    == CollectCash(facts[s], row[s], d)
           request == [Plain EXCEPT !.leg = leg, !.flag = cash]
<1>1. tried \in Event /\ done \in Event
  BY EventOfType DEF EventTypes, SomeDriver
<1>2. row[s] \in Row /\ row[s].seq \in Nat /\ row[s].amount \in Amounts
  BY DEF TypeOK, Row
<1>3. r1 \in Row /\ r1.seq = row[s].seq + 1 /\ r1.amount = row[s].amount
  BY <1>1, <1>2, ApplyAttemptType
<1>4. r2 \in Row /\ r2.seq = row[s].seq + 2 /\ r2.amount = row[s].amount
  <2> HIDE DEF r1
  <2>1. r2 \in Row /\ r2.seq = r1.seq + 1 /\ r2.amount = r1.amount
    BY <1>1, <1>3, ApplyToType
  <2> QED
    BY <1>2, <1>3, <2>1
<1>5. leg \in Nat /\ [legs EXCEPT ![s][leg].status = "COMPLETED"] \in [Shipments -> Seq(Leg)]
  BY LegsTyped
<1>6. request \in Request
  BY <1>5, RequestsTyped, ShipmentAssumption DEF SomeDriver
<1>7. fs \in Seq([driver : Drivers, amount : Amounts])
  <2>1. /\ facts[s] \in Seq([driver : Drivers, amount : Amounts])
        /\ [driver |-> d, amount |-> row[s].amount] \in [driver : Drivers, amount : Amounts]
    BY <1>2 DEF TypeOK
  <2> QED
    BY <2>1, AppendProperties DEF CollectCash
<1>8. /\ Exists(s) /\ pods' = pods \cup {s}
      /\ facts' = [facts EXCEPT ![s] = fs]
      /\ legs' = [legs EXCEPT ![s][leg].status = "COMPLETED"]
      /\ Commit(s, "deliver", d, request, <<tried, done>>, r)
  BY DEF ConfirmDelivery
<1> HIDE DEF tried, done, r1, r2, fs, request
<1>9. r \in Row /\ r.seq = r2.seq /\ r.amount = r2.amount
  BY <1>4 DEF Row, CodStatuses
<1> HIDE DEF r
<1>10. /\ legs' \in [Shipments -> Seq(Leg)] /\ pods' \subseteq Shipments
       /\ facts' \in [Shipments -> Seq([driver : Drivers, amount : Amounts])]
  BY <1>5, <1>7, <1>8 DEF TypeOK
<1>11. r.seq > 0 /\ r.amount = row[s].amount
  BY <1>2, <1>4, <1>9
<1>12. <<tried, done>> \in Seq(Event) /\ <<tried, done>> # <<>>
  BY <1>1
<1>13. "deliver" \in Commands /\ d \in Callers
  BY DEF Commands, Callers
<1> QED
  BY <1>6, <1>8, <1>9, <1>10, <1>11, <1>12, <1>13, CommandEnds

LEMMA ResendEnds ==
    ASSUME TypeOK, NEW i \in DOMAIN uses, NEW k \in DOMAIN uses, Resend(i, k)
    PROVE  TypeOK' /\ UNCHANGED <<row, log, uses>>
<1>1. uses[i] \in Use /\ uses[k] \in Use /\ k \in Nat
  BY ElementOfSeq, LenProperties DEF TypeOK
<1> DEFINE answer == [key |-> k, command |-> uses[i].command,
                      shipment |-> IF uses[i].command = "create" THEN uses[k].shipment
                                   ELSE uses[i].shipment,
                      outcome |-> uses[k].outcome]
<1>2. answer \in Reply
  BY <1>1 DEF Use, Reply
<1>3. reply' = <<answer>> /\ UNCHANGED <<row, log, legs, pods, facts, uses>>
  BY DEF Resend
<1> HIDE DEF answer
<1>4. reply' \in Seq(Reply)
  BY <1>2, <1>3
<1> QED
  BY <1>3, <1>4 DEF TypeOK

\* Every command.
LEMMA CommandKeepsTypes ==
    ASSUME TypeOK, [Next]_vars
    PROVE  TypeOK' /\ (Committed \/ UNCHANGED <<row, log, uses>>)
<1>1. ASSUME NEW s \in Shipments, DriverCommand(s) PROVE TypeOK' /\ Committed
  BY <1>1, ConfirmDeliveryEnds, RecordFailedAttemptEnds DEF DriverCommand
<1>2. ASSUME NEW s \in Shipments, StaffCommand(s) PROVE TypeOK' /\ Committed
  <2>1. PICK caller \in Staff :
            \/ \E amount \in Amounts : Create(s, caller, amount)
            \/ \E d \in Drivers, leg \in DOMAIN legs[s] :
                   RecordPickup(s, "pickup", caller, d, leg)
            \/ InitiateReturn(s, caller)
            \/ \E canOverride \in BOOLEAN : Cancel(s, caller, canOverride)
            \/ \E type \in DispatchEvents, d \in Drivers : RecordEvent(s, caller, type, d, None)
            \/ \E type \in HubEvents, h \in Hubs : RecordEvent(s, caller, type, None, h)
    BY <1>2 DEF StaffCommand
  <2>2. caller \in Callers
    BY DEF Callers
  <2>3. ASSUME NEW amount \in Amounts, Create(s, caller, amount) PROVE TypeOK' /\ Committed
    BY <2>2, <2>3, CreateEnds
  <2>4. ASSUME NEW d \in Drivers, NEW leg \in DOMAIN legs[s],
               RecordPickup(s, "pickup", caller, d, leg)
        PROVE  TypeOK' /\ Committed
    BY <2>2, <2>4, RecordPickupEnds DEF SomeDriver
  <2>5. ASSUME InitiateReturn(s, caller) PROVE TypeOK' /\ Committed
    BY <2>2, <2>5, InitiateReturnEnds
  <2>6. ASSUME NEW canOverride \in BOOLEAN, Cancel(s, caller, canOverride)
        PROVE  TypeOK' /\ Committed
    BY <2>2, <2>6, CancelEnds
  <2>7. ASSUME NEW type \in DispatchEvents, NEW d \in Drivers,
               RecordEvent(s, caller, type, d, None)
        PROVE  TypeOK' /\ Committed
    BY <2>2, <2>7, RecordEventEnds DEF SomeDriver
  <2>8. ASSUME NEW type \in HubEvents, NEW h \in Hubs, RecordEvent(s, caller, type, None, h)
        PROVE  TypeOK' /\ Committed
    BY <2>2, <2>8, RecordEventEnds DEF SomeDriver
  <2> QED
    BY <2>1, <2>3, <2>4, <2>5, <2>6, <2>7, <2>8
<1>3. ASSUME NEW s \in Shipments, CollectorCommand(s) PROVE TypeOK' /\ Committed
  <2>1. PICK caller \in Callers :
            \/ RecordEvent(s, caller, "assigned", DriverOf(caller), None)
            \/ \E leg \in DOMAIN legs[s] :
                  RecordPickup(s, "pickup_scan", caller, DriverOf(caller), leg)
            \/ CompleteReturn(s, caller)
    BY <1>3 DEF CollectorCommand
  <2>2. DriverOf(caller) \in SomeDriver
    BY DEF DriverOf, SomeDriver
  <2>3. ASSUME RecordEvent(s, caller, "assigned", DriverOf(caller), None)
        PROVE  TypeOK' /\ Committed
    BY <2>2, <2>3, RecordEventEnds DEF DispatchEvents
  <2>4. ASSUME NEW leg \in DOMAIN legs[s],
               RecordPickup(s, "pickup_scan", caller, DriverOf(caller), leg)
        PROVE  TypeOK' /\ Committed
    BY <2>2, <2>4, RecordPickupEnds
  <2>5. ASSUME CompleteReturn(s, caller) PROVE TypeOK' /\ Committed
    BY <2>5, CompleteReturnEnds
  <2> QED
    BY <2>1, <2>3, <2>4, <2>5
<1>4. CASE UNCHANGED vars
  BY <1>4 DEF vars, TypeOK
<1> QED
  BY <1>1, <1>2, <1>3, <1>4, ResendEnds DEF Next

-----------------------------------------------------------------------------
(* Amendments: the inductive invariant *)

\* A parcel is there when it has a log, whose first event is that of a request
\* on record; requests and audit entries are about parcels that are there.
Grounded ==
    /\ \A s \in Shipments : Exists(s) <=> log[s] # <<>>
    /\ \A s \in Shipments : Exists(s) => log[s][1].key \in DOMAIN uses
    /\ \A a \in DOMAIN amendments : Exists(amendments[a].shipment)
    /\ \A n \in DOMAIN trail : Exists(trail[n].shipment)

\* At most one request of a parcel waits, and an apply call is inside one that
\* was made.
OneWaits ==
    /\ \A a, b \in DOMAIN amendments :
          Waiting(a) /\ Waiting(b) /\ amendments[a].shipment = amendments[b].shipment => a = b
    /\ \A c \in Deciders : deciding[c].at # "idle" => deciding[c].id \in DOMAIN amendments

\* While the request still waits, what the call read of the parcel is so: only
\* another decision on that request could have changed it.
ReadIsFresh ==
    \A c \in Deciders :
        deciding[c].at = "writing" /\ Waiting(deciding[c].id) =>
            deciding[c].read = row[amendments[deciding[c].id].shipment].amount

AInv == AmendmentTypeOK /\ Grounded /\ OneWaits /\ ReadIsFresh /\ AuditTrailIsAChain

LEMMA AmendmentsIndexed ==
    ASSUME AmendmentTypeOK
    PROVE  /\ Len(amendments) \in Nat /\ DOMAIN amendments = 1 .. Len(amendments)
           /\ Len(trail) \in Nat /\ DOMAIN trail = 1 .. Len(trail)
           /\ \A a \in DOMAIN amendments : amendments[a] \in Amendment
           /\ \A n \in DOMAIN trail :
                  /\ trail[n].shipment \in Shipments
                  /\ trail[n].from \in Amounts /\ trail[n].to \in Amounts
<1> DEFINE Entry == [shipment : Shipments, from : Amounts, to : Amounts]
<1>1. amendments \in Seq(Amendment) /\ trail \in Seq(Entry)
  BY DEF AmendmentTypeOK
<1>2. \A n \in DOMAIN trail :
         /\ trail[n].shipment \in Shipments
         /\ trail[n].from \in Amounts /\ trail[n].to \in Amounts
  <2> HIDE DEF Entry
  <2>1. \A n \in DOMAIN trail : trail[n] \in Entry
    BY <1>1, ElementOfSeq
  <2> QED
    BY <2>1 DEF Entry
<1> HIDE DEF Entry
<1>3. \A a \in DOMAIN amendments : amendments[a] \in Amendment
  BY <1>1, ElementOfSeq
<1>4. /\ Len(amendments) \in Nat /\ DOMAIN amendments = 1 .. Len(amendments)
      /\ Len(trail) \in Nat /\ DOMAIN trail = 1 .. Len(trail)
  BY <1>1, LenProperties
<1> QED
  BY <1>2, <1>3, <1>4

\* The amount a parcel was created with is on record for good.
LEMMA CreatedAmountKept ==
    ASSUME TypeOK, NEW s \in Shipments, log[s] # <<>>, log[s][1].key \in DOMAIN uses,
           NEW es \in Seq(Event), NEW use,
           log'[s] = log[s] \o es, uses' = Append(uses, use)
    PROVE  /\ CreatedAmount(s)' = CreatedAmount(s)
           /\ log'[s] # <<>>
           /\ log'[s][1].key \in DOMAIN uses'
<1>1. log[s] \in Seq(Event) /\ uses \in Seq(Use)
  BY DEF TypeOK
<1>2. 1 \in DOMAIN log[s]
  BY <1>1, EmptySeq, LenProperties
<1>3. log'[s][1] = log[s][1] /\ log'[s] # <<>>
  BY <1>1, <1>2, ConcatProperties, LenProperties
<1>4. /\ DOMAIN uses' = 1 .. (Len(uses) + 1) /\ DOMAIN uses = 1 .. Len(uses)
      /\ \A k \in DOMAIN uses : uses'[k] = uses[k] /\ k \in DOMAIN uses'
  BY <1>1, AppendAny
<1> QED
  BY <1>3, <1>4 DEF CreatedAmount

\* What the trail tells of a parcel does not change when only others move.
LEMMA OwedKept ==
    ASSUME UNCHANGED trail, NEW s \in Shipments, CreatedAmount(s)' = CreatedAmount(s), NEW n
    PROVE  OwedBefore(s, n)' = OwedBefore(s, n)
  BY DEF OwedBefore, EntriesBefore

\* A command of a parcel.
LEMMA CommandKeepsAInv ==
    ASSUME AInv, Command
    PROVE  /\ AInv'
           /\ \A s \in Shipments : Exists(s) => row'[s].amount = row[s].amount
<1>1. TypeOK' /\ (Committed \/ UNCHANGED <<row, log, uses>>) /\ UNCHANGED amendmentVars
  BY CommandKeepsTypes DEF AInv, AmendmentTypeOK, Command
<1>2. UNCHANGED <<amendments, deciding, trail>> /\ AmendmentTypeOK'
  BY <1>1 DEF amendmentVars, AInv, AmendmentTypeOK
<1>3. CASE UNCHANGED <<row, log, uses>>
  <2>1. Grounded'
    BY <1>2, <1>3 DEF AInv, Grounded, Exists
  <2>2. OneWaits' /\ ReadIsFresh'
    BY <1>2, <1>3 DEF AInv, OneWaits, ReadIsFresh, Waiting
  <2>3. AuditTrailIsAChain'
    <3>1. \A t \in Shipments : CreatedAmount(t)' = CreatedAmount(t) /\ (Exists(t)' <=> Exists(t))
      BY <1>3 DEF CreatedAmount, Exists
    <3>2. \A t \in Shipments : \A n : OwedBefore(t, n)' = OwedBefore(t, n)
      BY <1>2, <3>1, OwedKept
    <3> QED
      BY <1>2, <1>3, <3>1, <3>2 DEF AInv, AuditTrailIsAChain
  <2> QED
    BY <1>2, <1>3, <2>1, <2>2, <2>3 DEF AInv
<1>4. CASE Committed
  <2>1. PICK s \in Shipments, command \in Commands, caller \in Callers, request \in Request,
             es \in Seq(Event), r \in Row :
          /\ Commit(s, command, caller, request, es, r)
          /\ es # <<>> /\ r.seq > 0
          /\ Exists(s) => r.amount = row[s].amount
          /\ ~Exists(s) => es[1].key = NextKey /\ request.amount = r.amount
    BY <1>4 DEF Committed
  <2> DEFINE use == [shipment |-> s, command |-> command, caller |-> caller,
                     request |-> request, outcome |-> r]
  <2>2. use.request = request
    OBVIOUS
  <2>3. uses' = Append(uses, use)
    BY <2>1 DEF Commit
  <2> HIDE DEF use
  <2>4. /\ row'[s] = r /\ log'[s] = log[s] \o es
        /\ \A t \in Shipments : t # s => row'[t] = row[t] /\ log'[t] = log[t]
    BY <2>1 DEF Commit, AInv, AmendmentTypeOK, TypeOK
  <2>5. \A t \in Shipments : log[t] \in Seq(Event)
    BY DEF AInv, AmendmentTypeOK, TypeOK
  <2>6. uses \in Seq(Use) /\ Len(uses) \in Nat
    BY LenProperties DEF AInv, AmendmentTypeOK, TypeOK
  <2>7. \A t \in Shipments : log[t] \o <<>> = log[t] /\ <<>> \in Seq(Event)
    BY <2>5, ConcatEmptySeq
  <2>8. ASSUME NEW t \in Shipments, Exists(t)
        PROVE  /\ Exists(t)' /\ row'[t].amount = row[t].amount
               /\ CreatedAmount(t)' = CreatedAmount(t)
               /\ log'[t] # <<>> /\ log'[t][1].key \in DOMAIN uses'
    <3>1. log[t] # <<>> /\ log[t][1].key \in DOMAIN uses
      BY <2>8 DEF AInv, Grounded
    <3>2. PICK more \in Seq(Event) : log'[t] = log[t] \o more
      BY <2>4, <2>7
    <3>3. /\ CreatedAmount(t)' = CreatedAmount(t)
          /\ log'[t] # <<>> /\ log'[t][1].key \in DOMAIN uses'
      BY <2>3, <3>1, <3>2, CreatedAmountKept DEF AInv, AmendmentTypeOK
    <3> QED
      BY <2>1, <2>4, <2>8, <3>3 DEF Exists
  <2>9. ASSUME NEW t \in Shipments, ~Exists(t), Exists(t)'
        PROVE  /\ log'[t] # <<>> /\ log'[t][1].key \in DOMAIN uses'
               /\ CreatedAmount(t)' = row'[t].amount
    <3>1. t = s
      BY <2>4, <2>9 DEF Exists
    <3>2. log[s] = <<>>
      BY <2>9, <3>1 DEF AInv, Grounded
    <3>3. log'[s] = es
      BY <2>4, <3>2, ConcatEmptySeq
    <3>4. /\ DOMAIN uses' = 1 .. (Len(uses) + 1)
          /\ uses'[Len(uses) + 1] = use
      BY <2>3, <2>6, AppendAny
    <3>5. es[1].key = Len(uses) + 1 /\ request.amount = r.amount
      BY <2>1, <2>9, <3>1 DEF NextKey
    <3>6. log'[s][1].key \in DOMAIN uses'
      BY <2>6, <3>3, <3>4, <3>5
    <3>7. uses'[log'[s][1].key].request.amount = r.amount
      BY <2>2, <3>3, <3>4, <3>5
    <3> QED
      BY <2>1, <2>4, <3>1, <3>3, <3>6, <3>7 DEF CreatedAmount
  <2>10. \A t \in Shipments : Exists(t)' <=> log'[t] # <<>>
    <3> SUFFICES ASSUME NEW t \in Shipments PROVE Exists(t)' <=> log'[t] # <<>>
      OBVIOUS
    <3>1. CASE Exists(t)
      BY <2>8, <3>1
    <3>2. CASE ~Exists(t) /\ t = s
      BY <2>1, <2>4, <2>9, <3>2 DEF Exists
    <3>3. CASE ~Exists(t) /\ t # s
      BY <2>4, <3>3 DEF AInv, Grounded, Exists
    <3> QED
      BY <3>1, <3>2, <3>3
  <2>11. Grounded'
    <3>1. \A a \in DOMAIN amendments : amendments[a].shipment \in Shipments
      BY AmendmentsIndexed DEF AInv, Amendment
    <3>2. \A n \in DOMAIN trail : trail[n].shipment \in Shipments
      BY AmendmentsIndexed DEF AInv
    <3>3. \A t \in Shipments : Exists(t)' => log'[t][1].key \in DOMAIN uses'
      BY <2>8, <2>9
    <3>4. \A a \in DOMAIN amendments' : Exists(amendments[a].shipment)'
      BY <1>2, <2>8, <3>1 DEF AInv, Grounded
    <3>5. \A n \in DOMAIN trail' : Exists(trail[n].shipment)'
      BY <1>2, <2>8, <3>2 DEF AInv, Grounded
    <3> QED
      BY <1>2, <2>10, <3>3, <3>4, <3>5 DEF Grounded, Exists
  <2>12. OneWaits'
    BY <1>2 DEF AInv, OneWaits, Waiting
  <2>13. ReadIsFresh'
    <3>1. \A a \in DOMAIN amendments :
             row'[amendments[a].shipment].amount = row[amendments[a].shipment].amount
      BY <2>8, AmendmentsIndexed DEF AInv, Grounded, Amendment
    <3> QED
      BY <1>2, <3>1 DEF AInv, OneWaits, ReadIsFresh, Waiting
  <2>14. AuditTrailIsAChain'
    <3> SUFFICES ASSUME NEW t \in Shipments, Exists(t)'
                 PROVE  /\ \A n \in DOMAIN trail :
                              trail[n].shipment = t => trail[n].from = OwedBefore(t, n)'
                        /\ row'[t].amount = OwedBefore(t, Len(trail) + 1)'
      BY <1>2 DEF AuditTrailIsAChain
    <3>1. CASE Exists(t)
      BY <1>2, <2>8, <3>1, OwedKept DEF AInv, AuditTrailIsAChain
    <3>2. CASE ~Exists(t)
      <4>1. \A n \in DOMAIN trail : trail[n].shipment # t
        BY <3>2 DEF AInv, Grounded
      <4>2. EntriesBefore(t, Len(trail) + 1)' = {}
        BY <1>2, <4>1 DEF EntriesBefore
      <4> QED
        BY <1>2, <2>9, <3>2, <4>1, <4>2 DEF OwedBefore
    <3> QED
      BY <3>1, <3>2
  <2> QED
    BY <1>2, <2>8, <2>11, <2>12, <2>13, <2>14 DEF AInv
<1> QED
  BY <1>1, <1>3, <1>4

-----------------------------------------------------------------------------
(* Amendments: one lemma per step *)

\* The steps of an amendment that write neither the parcel nor the trail.
LEMMA ParcelUntouched ==
    ASSUME AInv, UNCHANGED vars, UNCHANGED trail
    PROVE  /\ \A s \in Shipments : Exists(s)' <=> Exists(s)
           /\ \A s \in Shipments : Exists(s) <=> log'[s] # <<>>
           /\ \A s \in Shipments : Exists(s) => log'[s][1].key \in DOMAIN uses'
           /\ \A n \in DOMAIN trail' : Exists(trail[n].shipment)'
           /\ TypeOK'
           /\ AuditTrailIsAChain'
<1>1. UNCHANGED <<row, log, legs, pods, facts, uses, reply>>
  BY DEF vars
<1>2. TypeOK'
  BY <1>1 DEF AInv, AmendmentTypeOK, TypeOK
<1>3. \A s \in Shipments : CreatedAmount(s)' = CreatedAmount(s)
  BY <1>1 DEF CreatedAmount
<1>4. \A s \in Shipments : \A n : OwedBefore(s, n)' = OwedBefore(s, n)
  BY <1>3, OwedKept
<1>5. AuditTrailIsAChain'
  BY <1>1, <1>4 DEF AInv, AuditTrailIsAChain, Exists
<1> QED
  BY <1>1, <1>2, <1>5 DEF AInv, Grounded, Exists

LEMMA RequestAmendmentStep ==
    ASSUME AInv, NEW s \in Shipments, NEW amount \in Amounts \cup {None}, NEW c \in Deciders,
           RequestAmendment(s, amount, c)
    PROVE  AInv' /\ \A a \in DOMAIN amendments : amendments'[a] = amendments[a]
<1> DEFINE asked == [shipment |-> s, amount |-> amount, status |-> "PENDING"]
           n == Len(amendments)
           call == [at |-> "resolving", read |-> 0, id |-> n + 1]
<1>1. /\ amendments' = Append(amendments, asked)
      /\ Exists(s) /\ NoneWaiting(s)
      /\ deciding' = deciding \/ deciding' = [deciding EXCEPT ![c] = call]
      /\ UNCHANGED vars /\ UNCHANGED trail
  BY DEF RequestAmendment
<1>2. n \in Nat /\ DOMAIN amendments = 1 .. n
  BY AmendmentsIndexed DEF AInv
<1>3. asked \in Amendment /\ asked.shipment = s /\ asked.status = "PENDING"
  BY DEF Amendment
<1>4. call \in Call /\ call.at = "resolving" /\ call.id = n + 1
  BY <1>2, ShipmentAssumption DEF Call
<1>5. deciding \in [Deciders -> Call]
  BY DEF AInv, AmendmentTypeOK
<1> HIDE DEF asked, call
<1>6. /\ DOMAIN amendments' = 1 .. (n + 1)
      /\ \A a \in 1 .. n : amendments'[a] = amendments[a]
      /\ amendments'[n + 1] = asked
      /\ amendments' \in Seq(Amendment)
  BY <1>1, <1>3, AppendAny, AppendProperties DEF AInv, AmendmentTypeOK
<1>7. AmendmentTypeOK'
  BY <1>1, <1>4, <1>5, <1>6, ParcelUntouched DEF AInv, AmendmentTypeOK
<1>8. Grounded'
  <2>1. ASSUME NEW a \in DOMAIN amendments' PROVE Exists(amendments[a].shipment)'
    <3>1. UNCHANGED row
      BY <1>1 DEF vars
    <3>2. CASE a = n + 1
      BY <1>1, <1>3, <1>6, <3>1, <3>2 DEF Exists
    <3>3. CASE a \in 1 .. n
      BY <1>2, <1>6, <3>1, <3>3 DEF AInv, Grounded, Exists
    <3> QED
      BY <1>2, <1>6, <2>1, <3>2, <3>3
  <2> QED
    BY <1>1, <2>1, ParcelUntouched DEF Grounded
<1>9. OneWaits'
  <2>1. ASSUME NEW a \in DOMAIN amendments', NEW b \in DOMAIN amendments',
               Waiting(a)', Waiting(b)',
               amendments'[a].shipment = amendments'[b].shipment
        PROVE  a = b
    <3>1. ASSUME NEW i \in 1 .. n, NEW j \in DOMAIN amendments',
                 Waiting(i)', Waiting(j)',
                 amendments'[i].shipment = amendments'[j].shipment
          PROVE  i = j
      <4>1. Waiting(i) /\ amendments'[i] = amendments[i] /\ i \in DOMAIN amendments
        BY <1>2, <1>6, <3>1 DEF Waiting
      <4>2. j # n + 1
        BY <1>1, <1>3, <1>6, <3>1, <4>1 DEF NoneWaiting, Waiting
      <4>3. j \in 1 .. n
        BY <1>2, <1>6, <4>2
      <4>4. Waiting(j) /\ amendments'[j] = amendments[j] /\ j \in DOMAIN amendments
        BY <1>2, <1>6, <3>1, <4>3 DEF Waiting
      <4> QED
        BY <3>1, <4>1, <4>4 DEF AInv, OneWaits
    <3>2. a \in 1 .. n \/ a = n + 1
      BY <1>2, <1>6
    <3>3. b \in 1 .. n \/ b = n + 1
      BY <1>2, <1>6
    <3> QED
      BY <2>1, <3>1, <3>2, <3>3
  <2>2. ASSUME NEW d \in Deciders, deciding'[d].at # "idle"
        PROVE  deciding'[d].id \in DOMAIN amendments'
    <3>1. deciding'[d] = deciding[d] \/ deciding'[d] = call
      BY <1>1, <1>5
    <3>2. \A a \in 1 .. n : a \in 1 .. (n + 1)
      BY <1>2
    <3>3. n + 1 \in 1 .. (n + 1)
      BY <1>2
    <3> QED
      BY <1>2, <1>4, <1>6, <2>2, <3>1, <3>2, <3>3 DEF AInv, OneWaits
  <2> QED
    BY <2>1, <2>2 DEF OneWaits
<1>10. ReadIsFresh'
  <2> SUFFICES ASSUME NEW d \in Deciders, deciding'[d].at = "writing", Waiting(deciding[d].id)'
               PROVE  deciding'[d].read = row'[amendments'[deciding'[d].id].shipment].amount
    BY DEF ReadIsFresh
  <2>1. deciding'[d] = deciding[d]
    BY <1>1, <1>4, <1>5
  <2>2. deciding[d].id \in 1 .. n
    BY <1>2, <2>1 DEF AInv, OneWaits
  <2>3. Waiting(deciding[d].id) /\ amendments'[deciding[d].id] = amendments[deciding[d].id]
    BY <1>6, <2>1, <2>2 DEF Waiting
  <2>4. row' = row
    BY <1>1 DEF vars
  <2> QED
    BY <2>1, <2>3, <2>4 DEF AInv, ReadIsFresh
<1>11. AuditTrailIsAChain'
  BY <1>1, ParcelUntouched
<1> QED
  BY <1>2, <1>6, <1>7, <1>8, <1>9, <1>10, <1>11 DEF AInv

\* A step of a call that writes nothing but the call.
LEMMA CallMoves ==
    ASSUME AInv, NEW c \in Deciders, NEW call \in Call,
           deciding' = [deciding EXCEPT ![c] = call],
           UNCHANGED <<vars, amendments, trail>>,
           call.at # "idle" => call.id \in DOMAIN amendments,
           call.at = "writing" => call.read = row[amendments[call.id].shipment].amount
    PROVE  AInv'
<1>1. UNCHANGED vars /\ UNCHANGED trail /\ UNCHANGED amendments /\ UNCHANGED row
  BY DEF vars
<1>2. deciding \in [Deciders -> Call]
  BY DEF AInv, AmendmentTypeOK
<1>3. \A d \in Deciders : deciding'[d] = call \/ deciding'[d] = deciding[d]
  BY <1>2
<1>4. AmendmentTypeOK'
  BY <1>1, <1>2, ParcelUntouched DEF AInv, AmendmentTypeOK
<1>5. Grounded'
  BY <1>1, ParcelUntouched DEF AInv, Grounded, Exists
<1>6. OneWaits'
  <2>1. \A a, b \in DOMAIN amendments' :
          Waiting(a)' /\ Waiting(b)' /\ amendments'[a].shipment = amendments'[b].shipment
          => a = b
    BY <1>1 DEF AInv, OneWaits, Waiting
  <2>2. \A d \in Deciders : deciding'[d].at # "idle" => deciding'[d].id \in DOMAIN amendments'
    BY <1>1, <1>3 DEF AInv, OneWaits
  <2> QED
    BY <2>1, <2>2 DEF OneWaits
<1>7. ReadIsFresh'
  BY <1>1, <1>3 DEF AInv, ReadIsFresh, Waiting
<1>8. AuditTrailIsAChain'
  BY <1>1, ParcelUntouched
<1> QED
  BY <1>4, <1>5, <1>6, <1>7, <1>8 DEF AInv

LEMMA BeginApplyStep ==
    ASSUME AInv, NEW c \in Deciders, NEW a \in DOMAIN amendments, BeginApply(c, a)
    PROVE  AInv'
<1> DEFINE call == [at |-> "resolving", id |-> a, read |-> 0]
<1>1. a \in Nat
  BY AmendmentsIndexed DEF AInv
<1>2. call \in Call /\ call.at = "resolving" /\ call.id = a
  BY <1>1, ShipmentAssumption DEF Call
<1>3. /\ deciding' = [deciding EXCEPT ![c] = call]
      /\ UNCHANGED <<vars, amendments, trail>>
  BY DEF BeginApply
<1> HIDE DEF call
<1> QED
  BY <1>2, <1>3, CallMoves

LEMMA IdleCall == Idle \in Call /\ Idle.at = "idle"
  BY ShipmentAssumption DEF Idle, Call

LEMMA ReadParcelStep ==
    ASSUME AInv, NEW c \in Deciders, ReadParcel(c)
    PROVE  AInv'
<1> DEFINE r == row[amendments[deciding[c].id].shipment]
           read == [deciding[c] EXCEPT !.at = "writing", !.read = r.amount]
           call == IF Amendable(r, amendments[deciding[c].id].amount) THEN read ELSE Idle
<1>1. /\ deciding[c].at = "resolving"
      /\ deciding' = [deciding EXCEPT ![c] = call]
      /\ UNCHANGED <<vars, amendments, trail>>
  BY DEF ReadParcel
<1>2. deciding[c] \in Call /\ deciding[c].id \in DOMAIN amendments
  BY <1>1 DEF AInv, AmendmentTypeOK, OneWaits
<1>3. r.amount \in Amounts
  <2>1. amendments[deciding[c].id].shipment \in Shipments
    BY <1>2, AmendmentsIndexed DEF AInv, Amendment
  <2> QED
    BY <2>1 DEF AInv, AmendmentTypeOK, TypeOK, Row
<1>4. read \in Call /\ read.at = "writing" /\ read.id = deciding[c].id /\ read.read = r.amount
  BY <1>2, <1>3 DEF Call
<1> HIDE DEF read
<1>5. call = read \/ call = Idle
  OBVIOUS
<1> HIDE DEF call
<1>6. /\ call \in Call
      /\ call.at # "idle" => call.id \in DOMAIN amendments
      /\ call.at = "writing" => call.read = row[amendments[call.id].shipment].amount
  BY <1>2, <1>4, <1>5, IdleCall
<1> QED
  BY <1>1, <1>6, CallMoves

LEMMA FailApplyStep ==
    ASSUME AInv, NEW c \in Deciders, FailApply(c)
    PROVE  AInv'
  BY IdleCall, CallMoves DEF FailApply

\* A request is decided.
LEMMA DecidedKeeps ==
    ASSUME AInv, NEW a \in DOMAIN amendments, NEW status \in {"APPLIED", "REJECTED"},
           amendments' = [amendments EXCEPT ![a].status = status]
    PROVE  /\ amendments' \in Seq(Amendment)
           /\ DOMAIN amendments' = DOMAIN amendments
           /\ \A b \in DOMAIN amendments : amendments'[b].shipment = amendments[b].shipment
           /\ \A b \in DOMAIN amendments : b # a => amendments'[b] = amendments[b]
           /\ amendments'[a].status = status
           /\ amendments'[a].amount = amendments[a].amount
           /\ \A b \in DOMAIN amendments : Waiting(b)' => Waiting(b) /\ b # a
<1> DEFINE decided == [amendments[a] EXCEPT !.status = status]
<1>1. amendments \in Seq(Amendment) /\ amendments[a] \in Amendment
  BY AmendmentsIndexed DEF AInv, AmendmentTypeOK
<1>2. /\ decided \in Amendment /\ decided.shipment = amendments[a].shipment
      /\ decided.status = status /\ decided.amount = amendments[a].amount
  BY <1>1 DEF Amendment
<1>3. amendments' = [amendments EXCEPT ![a] = decided]
  OBVIOUS
<1> HIDE DEF decided
<1>4. /\ amendments' \in Seq(Amendment)
      /\ DOMAIN amendments' = DOMAIN amendments
      /\ amendments'[a] = decided
      /\ \A b \in DOMAIN amendments : b # a => amendments'[b] = amendments[b]
  BY <1>1, <1>2, <1>3, ExceptSeq
<1> QED
  BY <1>2, <1>4 DEF Waiting

LEMMA RejectAmendmentStep ==
    ASSUME AInv, NEW a \in DOMAIN amendments, RejectAmendment(a)
    PROVE  /\ AInv'
           /\ \A b \in DOMAIN amendments : ~Waiting(b) => amendments'[b] = amendments[b]
<1>1. /\ Waiting(a)
      /\ amendments' = [amendments EXCEPT ![a].status = "REJECTED"]
      /\ UNCHANGED vars /\ UNCHANGED deciding /\ UNCHANGED trail /\ UNCHANGED row
  BY DEF RejectAmendment, vars
<1>2. /\ amendments' \in Seq(Amendment)
      /\ DOMAIN amendments' = DOMAIN amendments
      /\ \A b \in DOMAIN amendments : amendments'[b].shipment = amendments[b].shipment
      /\ \A b \in DOMAIN amendments : b # a => amendments'[b] = amendments[b]
      /\ \A b \in DOMAIN amendments : Waiting(b)' => Waiting(b) /\ b # a
  BY <1>1, DecidedKeeps
<1>3. AmendmentTypeOK'
  BY <1>1, <1>2, ParcelUntouched DEF AInv, AmendmentTypeOK
<1>4. Grounded'
  <2>1. \A b \in DOMAIN amendments' : Exists(amendments[b].shipment)'
    BY <1>1, <1>2 DEF AInv, Grounded, Exists
  <2> QED
    BY <1>1, <2>1, ParcelUntouched DEF Grounded
<1>5. OneWaits'
  BY <1>1, <1>2 DEF AInv, OneWaits
<1>6. ReadIsFresh'
  <2> SUFFICES ASSUME NEW d \in Deciders, deciding'[d].at = "writing", Waiting(deciding[d].id)'
               PROVE  deciding'[d].read = row'[amendments'[deciding'[d].id].shipment].amount
    BY DEF ReadIsFresh
  <2>1. deciding[d].id \in DOMAIN amendments
    BY <1>1 DEF AInv, OneWaits
  <2>2. Waiting(deciding[d].id)
    BY <1>1, <1>2, <2>1 DEF Waiting
  <2> QED
    BY <1>1, <1>2, <2>1, <2>2 DEF AInv, ReadIsFresh
<1>7. AuditTrailIsAChain'
  BY <1>1, ParcelUntouched
<1> QED
  BY <1>1, <1>2, <1>3, <1>4, <1>5, <1>6, <1>7 DEF AInv

\* The row of a decided amendment is still one that create could have written.
LEMMA AmendedRow ==
    ASSUME NEW r \in Row, NEW amount \in Amounts
    PROVE  /\ [r EXCEPT !.amount = amount, !.cod = CodFor(amount)] \in Row
           /\ [r EXCEPT !.amount = amount, !.cod = CodFor(amount)].amount = amount
           /\ [r EXCEPT !.amount = amount, !.cod = CodFor(amount)].seq = r.seq
<1>1. CodFor(amount) \in CodStatuses
  BY DEF CodFor, CodStatuses
<1> DEFINE cod == CodFor(amount)
<1> HIDE DEF cod
<1>2. cod \in CodStatuses
  BY <1>1 DEF cod
<1>3. /\ [r EXCEPT !.amount = amount, !.cod = cod] \in Row
      /\ [r EXCEPT !.amount = amount, !.cod = cod].amount = amount
      /\ [r EXCEPT !.amount = amount, !.cod = cod].seq = r.seq
  BY <1>2 DEF Row
<1> QED
  BY <1>3 DEF cod

\* One more entry of a parcel: the chain of that parcel is longer by it, that
\* of every other is as it was.
LEMMA OneMoreEntry ==
    ASSUME AInv, NEW entry, trail' = Append(trail, entry), UNCHANGED <<log, uses>>,
           NEW s \in Shipments, NEW n, n = Len(trail)
    PROVE  /\ \A m \in 1 .. (n + 1) : OwedBefore(s, m)' = OwedBefore(s, m)
           /\ OwedBefore(s, n + 2)'
                  = (IF entry.shipment = s THEN entry.to ELSE OwedBefore(s, n + 1))
<1>1. n \in Nat /\ DOMAIN trail = 1 .. n
  BY AmendmentsIndexed DEF AInv
<1>2. /\ DOMAIN trail' = 1 .. (n + 1)
      /\ \A i \in 1 .. n : trail'[i] = trail[i]
      /\ trail'[n + 1] = entry
  BY AppendAny DEF AInv, AmendmentTypeOK
<1>3. CreatedAmount(s)' = CreatedAmount(s)
  BY DEF CreatedAmount
<1>4. \A i \in 1 .. n : i < n + 1 /\ i < n + 2
  BY <1>1
<1>5. ASSUME NEW m \in 1 .. (n + 1)
      PROVE  /\ EntriesBefore(s, m)' = EntriesBefore(s, m)
             /\ EntriesBefore(s, m) \subseteq 1 .. n
  <2>1. \A i \in 1 .. (n + 1) : i < m => i \in 1 .. n
    BY <1>1
  <2>2. \A i \in 1 .. n : i \in 1 .. (n + 1)
    BY <1>1
  <2> QED
    BY <1>1, <1>2, <2>1, <2>2 DEF EntriesBefore
<1>6. \A S \in SUBSET (1 .. n) : S # {} => LastOf(S) \in S
  <2> SUFFICES ASSUME NEW S \in SUBSET (1 .. n), S # {} PROVE LastOf(S) \in S
    OBVIOUS
  <2>1. \E i \in S : \A j \in S : j <= i
    BY <1>1, LastExists
  <2> QED
    BY <2>1 DEF LastOf
<1>7. \A m \in 1 .. (n + 1) : OwedBefore(s, m)' = OwedBefore(s, m)
  <2> SUFFICES ASSUME NEW m \in 1 .. (n + 1) PROVE OwedBefore(s, m)' = OwedBefore(s, m)
    OBVIOUS
  <2> DEFINE S == EntriesBefore(s, m)
  <2>1. EntriesBefore(s, m)' = S /\ S \subseteq 1 .. n
    BY <1>5
  <2>2. S # {} => trail'[LastOf(S)] = trail[LastOf(S)]
    BY <1>2, <1>6, <2>1
  <2> QED
    BY <1>3, <2>1, <2>2 DEF OwedBefore
<1>8. CASE entry.shipment = s
  <2> DEFINE T == EntriesBefore(s, n + 2)'
  <2>1. n + 1 \in T
    <3>1. n + 1 \in 1 .. (n + 1) /\ n + 1 < n + 2
      BY <1>1
    <3> QED
      BY <1>2, <1>8, <3>1 DEF EntriesBefore
  <2>2. T \subseteq 1 .. (n + 1)
    BY <1>2 DEF EntriesBefore
  <2> HIDE DEF T
  <2>3. LastOf(T) = n + 1
    <3>1. \A i \in T : i <= n + 1
      BY <1>1, <2>2
    <3>2. n + 1 \in Nat
      BY <1>1
    <3> QED
      BY <2>1, <2>2, <3>1, <3>2, LastIs
  <2>4. OwedBefore(s, n + 2)' = trail'[LastOf(T)].to
    BY <2>1 DEF OwedBefore, T
  <2> QED
    BY <1>2, <1>7, <1>8, <2>3, <2>4
<1>9. CASE entry.shipment # s
  <2> DEFINE S == EntriesBefore(s, n + 1)
  <2>1. EntriesBefore(s, n + 2)' = S
    <3>1. \A i : i \in 1 .. (n + 1) <=> i \in 1 .. n \/ i = n + 1
      BY <1>1
    <3> QED
      BY <1>1, <1>2, <1>4, <1>9, <3>1 DEF EntriesBefore
  <2>2. S \subseteq 1 .. n
    BY <1>1 DEF EntriesBefore
  <2>3. S # {} => trail'[LastOf(S)] = trail[LastOf(S)]
    BY <1>2, <1>6, <2>2
  <2>4. OwedBefore(s, n + 2)' = OwedBefore(s, n + 1)
    BY <1>3, <2>1, <2>3 DEF OwedBefore
  <2> QED
    BY <1>7, <1>9, <2>4
<1> QED
  BY <1>8, <1>9

LEMMA CommitApplyStep ==
    ASSUME AInv, NEW c \in Deciders, CommitApply(c)
    PROVE  /\ AInv'
           /\ \A b \in DOMAIN amendments : ~Waiting(b) => amendments'[b] = amendments[b]
           /\ \A s \in Shipments :
                 row'[s].amount # row[s].amount =>
                     \E a \in DOMAIN amendments :
                         /\ amendments[a].shipment = s /\ amendments[a].amount = row'[s].amount
                         /\ Waiting(a) /\ amendments'[a].status = "APPLIED"
<1> DEFINE a == deciding[c].id
           s == amendments[a].shipment
           amount == amendments[a].amount
<1>1. /\ deciding[c].at = "writing"
      /\ deciding' = [deciding EXCEPT ![c] = Idle]
      /\ UNCHANGED <<log, legs, pods, facts, uses, reply>>
  BY DEF CommitApply
<1>2. deciding \in [Deciders -> Call] /\ a \in DOMAIN amendments
  BY <1>1 DEF AInv, AmendmentTypeOK, OneWaits
<1>3. s \in Shipments /\ amount \in Amounts \cup {None} /\ Exists(s)
  BY <1>2, AmendmentsIndexed DEF AInv, Amendment, Grounded
<1>4. CASE ~Waiting(a)
  <2>1. UNCHANGED <<row, amendments, trail>>
    BY <1>4 DEF CommitApply, StillPending
  <2>2. UNCHANGED <<vars, amendments, trail>> /\ UNCHANGED row /\ UNCHANGED amendments
    BY <1>1, <2>1 DEF vars
  <2>3. AInv'
    BY <1>1, <2>2, IdleCall, CallMoves
  <2> QED
    BY <2>2, <2>3
<1>5. CASE Waiting(a)
  <2>1. /\ amendments' = [amendments EXCEPT ![a].status = "APPLIED"]
        /\ amount = None => UNCHANGED <<row, trail>>
        /\ amount # None =>
              /\ row' = [row EXCEPT ![s].amount = amount, ![s].cod = CodFor(amount)]
              /\ trail' = Append(trail, [shipment |-> s, from |-> deciding[c].read,
                                         to |-> amount])
    BY <1>5 DEF CommitApply, StillPending
  <2>2. /\ amendments' \in Seq(Amendment)
        /\ DOMAIN amendments' = DOMAIN amendments
        /\ \A b \in DOMAIN amendments : amendments'[b].shipment = amendments[b].shipment
        /\ \A b \in DOMAIN amendments : b # a => amendments'[b] = amendments[b]
        /\ amendments'[a].status = "APPLIED"
        /\ \A b \in DOMAIN amendments : Waiting(b)' => Waiting(b) /\ b # a
    BY <1>2, <2>1, DecidedKeeps
  <2>3. deciding[c].read = row[s].amount /\ deciding[c].read \in Amounts
    BY <1>1, <1>2, <1>5 DEF AInv, ReadIsFresh, Call
  <2>4. \A d \in Deciders : deciding'[d] = deciding[d] \/ deciding'[d] = Idle
    BY <1>1, <1>2
  <2>5. deciding' \in [Deciders -> Call]
    BY <1>1, <1>2, IdleCall
  <2>6. OneWaits'
    <3>1. \A b, d \in DOMAIN amendments' :
            Waiting(b)' /\ Waiting(d)' /\ amendments'[b].shipment = amendments'[d].shipment
            => b = d
      BY <2>2 DEF AInv, OneWaits
    <3>2. \A d \in Deciders : deciding'[d].at # "idle" => deciding'[d].id \in DOMAIN amendments'
      BY <2>2, <2>4, IdleCall DEF AInv, OneWaits
    <3> QED
      BY <3>1, <3>2 DEF OneWaits
  <2>7. \A t \in Shipments : log[t] # <<>> <=> log'[t] # <<>>
    BY <1>1
  <2> HIDE DEF s, amount, a
  <2>8. /\ row' \in [Shipments -> Row]
        /\ \A t \in Shipments : t # s => row'[t] = row[t]
        /\ row'[s].seq = row[s].seq
        /\ row'[s].amount = IF amount = None THEN row[s].amount ELSE amount
    <3>1. row \in [Shipments -> Row]
      BY DEF AInv, AmendmentTypeOK, TypeOK
    <3>2. CASE amount = None
      BY <2>1, <3>1, <3>2
    <3>3. CASE amount # None
      <4> DEFINE r == [row[s] EXCEPT !.amount = amount, !.cod = CodFor(amount)]
      <4>1. amount \in Amounts
        BY <1>3, <3>3
      <4>2. r \in Row /\ r.amount = amount /\ r.seq = row[s].seq
        BY <1>3, <3>1, <4>1, AmendedRow
      <4>3. row' = [row EXCEPT ![s] = r]
        BY <1>3, <2>1, <3>1, <3>3
      <4> HIDE DEF r
      <4> QED
        BY <1>3, <3>1, <3>3, <4>2, <4>3
    <3> QED
      BY <3>2, <3>3
  <2>9. \A t \in Shipments : Exists(t)' <=> Exists(t)
    BY <2>8 DEF Exists
  <2>10. trail' \in Seq([shipment : Shipments, from : Amounts, to : Amounts])
    <3> DEFINE Entry == [shipment : Shipments, from : Amounts, to : Amounts]
               entry == [shipment |-> s, from |-> deciding[c].read, to |-> amount]
    <3>1. trail \in Seq(Entry)
      BY DEF AInv, AmendmentTypeOK
    <3>2. amount # None => entry \in Entry
      BY <1>3, <2>3
    <3> HIDE DEF entry, Entry
    <3>3. trail' \in Seq(Entry)
      BY <2>1, <3>1, <3>2, AppendProperties DEF entry
    <3> QED
      BY <3>3 DEF Entry
  <2>11. AmendmentTypeOK'
    BY <1>1, <2>2, <2>5, <2>8, <2>10 DEF AInv, AmendmentTypeOK, TypeOK
  <2>12. Grounded'
    <3>1. \A t \in Shipments : Exists(t) => log'[t][1].key \in DOMAIN uses'
      BY <1>1 DEF AInv, Grounded
    <3>2. \A b \in DOMAIN amendments : amendments[b].shipment \in Shipments
      BY AmendmentsIndexed DEF AInv, Amendment
    <3>3. \A b \in DOMAIN amendments' : Exists(amendments[b].shipment)'
      BY <2>2, <2>9, <3>2 DEF AInv, Grounded, Exists
    <3>4. \A n \in DOMAIN trail' : Exists(trail[n].shipment)'
      <4> SUFFICES ASSUME NEW n \in DOMAIN trail' PROVE Exists(trail[n].shipment)'
        OBVIOUS
      <4>1. (n \in DOMAIN trail /\ trail'[n] = trail[n]) \/ trail'[n].shipment = s
        <5>1. CASE amount = None
          BY <2>1, <5>1
        <5>2. CASE amount # None
          <6> DEFINE entry == [shipment |-> s, from |-> deciding[c].read, to |-> amount]
          <6>1. entry.shipment = s
            OBVIOUS
          <6> HIDE DEF entry
          <6>2. /\ DOMAIN trail' = 1 .. (Len(trail) + 1) /\ DOMAIN trail = 1 .. Len(trail)
                /\ Len(trail) \in Nat
                /\ \A i \in 1 .. Len(trail) : trail'[i] = trail[i]
                /\ trail'[Len(trail) + 1] = entry
            BY <2>1, <5>2, AppendAny DEF AInv, AmendmentTypeOK, entry
          <6>3. n \in 1 .. Len(trail) \/ n = Len(trail) + 1
            BY <6>2
          <6> QED
            BY <6>1, <6>2, <6>3
        <5> QED
          BY <5>1, <5>2
      <4>2. \A i \in DOMAIN trail : trail[i].shipment \in Shipments /\ Exists(trail[i].shipment)
        BY AmendmentsIndexed DEF AInv, Grounded
      <4> QED
        BY <1>3, <2>9, <4>1, <4>2 DEF Exists
    <3> QED
      BY <2>7, <2>9, <3>1, <3>3, <3>4 DEF AInv, Grounded
  <2>13. ReadIsFresh'
    <3> SUFFICES ASSUME NEW d \in Deciders, deciding'[d].at = "writing",
                        Waiting(deciding[d].id)'
                 PROVE  deciding'[d].read = row'[amendments'[deciding'[d].id].shipment].amount
      BY DEF ReadIsFresh
    <3>1. deciding'[d] = deciding[d]
      BY <2>4, IdleCall
    <3> DEFINE b == deciding[d].id
    <3>2. b \in DOMAIN amendments
      BY <3>1 DEF AInv, OneWaits
    <3>3. Waiting(b) /\ b # a
      BY <2>2, <3>1, <3>2 DEF Waiting
    <3>4. amendments[b].shipment # s
      BY <1>2, <1>5, <3>2, <3>3 DEF AInv, OneWaits, s, a
    <3>5. amendments[b].shipment \in Shipments
      BY <3>2, AmendmentsIndexed DEF AInv, Amendment
    <3> QED
      BY <2>2, <2>8, <3>1, <3>2, <3>3, <3>4, <3>5 DEF AInv, ReadIsFresh
  <2>14. AuditTrailIsAChain'
    <3>1. CASE amount = None
      <4>1. trail' = trail
        BY <2>1, <3>1
      <4>2. \A t \in Shipments : CreatedAmount(t)' = CreatedAmount(t)
        BY <1>1 DEF CreatedAmount
      <4>3. \A t \in Shipments : \A n : OwedBefore(t, n)' = OwedBefore(t, n)
        BY <4>1, <4>2, OwedKept
      <4>4. row' = row
        BY <2>1, <3>1
      <4> QED
        BY <2>9, <4>1, <4>3, <4>4 DEF AInv, AuditTrailIsAChain
    <3>2. CASE amount # None
      <4> DEFINE entry == [shipment |-> s, from |-> deciding[c].read, to |-> amount]
      <4>0. PICK n : n = Len(trail)
        OBVIOUS
      <4>1. entry.shipment = s /\ entry.from = row[s].amount /\ entry.to = amount
        BY <2>3 DEF s, a
      <4>2. trail' = Append(trail, entry) /\ UNCHANGED <<log, uses>>
        BY <1>1, <2>1, <3>2
      <4> HIDE DEF entry
      <4>3. /\ n \in Nat /\ Len(trail') = n + 1 /\ DOMAIN trail' = 1 .. (n + 1)
            /\ DOMAIN trail = 1 .. n
            /\ \A i \in 1 .. n : trail'[i] = trail[i]
            /\ trail'[n + 1] = entry
        BY <4>0, <4>2, AppendAny DEF AInv, AmendmentTypeOK
      <4>4. \A t \in Shipments :
              /\ \A m \in 1 .. (n + 1) : OwedBefore(t, m)' = OwedBefore(t, m)
              /\ OwedBefore(t, n + 2)'
                     = (IF entry.shipment = t THEN entry.to ELSE OwedBefore(t, n + 1))
        BY <4>0, <4>2, OneMoreEntry
      <4> SUFFICES ASSUME NEW t \in Shipments, Exists(t)
                   PROVE  /\ \A m \in DOMAIN trail' :
                                trail'[m].shipment = t => trail'[m].from = OwedBefore(t, m)'
                          /\ row'[t].amount = OwedBefore(t, n + 2)'
        <5>1. Len(trail') + 1 = n + 2
          BY <4>3
        <5>2. \A t \in Shipments : Exists(t)' => Exists(t)
          BY <2>9
        <5> QED
          BY <5>1, <5>2 DEF AuditTrailIsAChain
      <4>5. /\ \A m \in 1 .. n : trail[m].shipment = t => trail[m].from = OwedBefore(t, m)
            /\ row[t].amount = OwedBefore(t, n + 1)
        BY <4>0, <4>3 DEF AInv, AuditTrailIsAChain
      <4>6. ASSUME NEW m \in 1 .. (n + 1), trail'[m].shipment = t
            PROVE  trail'[m].from = OwedBefore(t, m)'
        <5>1. OwedBefore(t, m)' = OwedBefore(t, m)
          BY <4>4
        <5>2. CASE m \in 1 .. n
          BY <4>3, <4>5, <4>6, <5>1, <5>2
        <5>3. CASE m = n + 1
          BY <4>1, <4>3, <4>5, <4>6, <5>1, <5>3
        <5>4. m \in 1 .. n \/ m = n + 1
          BY <4>3
        <5> QED
          BY <5>2, <5>3, <5>4
      <4>7. row'[t].amount = OwedBefore(t, n + 2)'
        <5>1. CASE t = s
          BY <2>8, <3>2, <4>1, <4>4, <5>1
        <5>2. CASE t # s
          BY <2>8, <4>1, <4>4, <4>5, <5>2
        <5> QED
          BY <5>1, <5>2
      <4> QED
        BY <4>3, <4>6, <4>7
    <3> QED
      BY <3>1, <3>2
  <2>15. \A b \in DOMAIN amendments : ~Waiting(b) => amendments'[b] = amendments[b]
    BY <1>5, <2>2
  <2>16. \A t \in Shipments :
           row'[t].amount # row[t].amount =>
               \E b \in DOMAIN amendments :
                   /\ amendments[b].shipment = t /\ amendments[b].amount = row'[t].amount
                   /\ Waiting(b) /\ amendments'[b].status = "APPLIED"
    <3> SUFFICES ASSUME NEW t \in Shipments, row'[t].amount # row[t].amount
                 PROVE  \E b \in DOMAIN amendments :
                            /\ amendments[b].shipment = t
                            /\ amendments[b].amount = row'[t].amount
                            /\ Waiting(b) /\ amendments'[b].status = "APPLIED"
      OBVIOUS
    <3>1. t = s /\ row'[t].amount = amount
      BY <2>8
    <3> QED
      BY <1>2, <1>5, <2>2, <3>1 DEF s, amount
  <2> QED
    BY <2>6, <2>11, <2>12, <2>13, <2>14, <2>15, <2>16 DEF AInv
<1> QED
  BY <1>4, <1>5

LEMMA AmendmentStart ==
    AmendmentInit => AInv
<1> SUFFICES ASSUME AmendmentInit PROVE AInv
  OBVIOUS
<1>1. Init /\ amendments = <<>> /\ deciding = [c \in Deciders |-> Idle] /\ trail = <<>>
  BY DEF AmendmentInit
<1>2. IInv
  BY <1>1, InitIInv
<1>3. AmendmentTypeOK
  BY <1>1, <1>2, IdleCall DEF IInv, AmendmentTypeOK
<1>4. \A s \in Shipments : ~Exists(s) /\ log[s] = <<>>
  BY <1>1 DEF Init, Exists, NewRow
<1> QED
  BY <1>1, <1>3, <1>4, IdleCall DEF AInv, Grounded, OneWaits, ReadIsFresh, AuditTrailIsAChain

\* What DecidedOnce says of one step.
DecidedStep ==
    /\ \A a \in DOMAIN amendments : ~Waiting(a) => amendments'[a] = amendments[a]
    /\ \A s \in Shipments :
          Exists(s) /\ row'[s].amount # row[s].amount =>
              \E a \in DOMAIN amendments :
                  /\ amendments[a].shipment = s /\ amendments[a].amount = row'[s].amount
                  /\ Waiting(a) /\ amendments'[a].status = "APPLIED"

LEMMA AmendmentKeeps ==
    AInv /\ [AmendmentNext]_allVars => AInv' /\ DecidedStep
<1> SUFFICES ASSUME AInv, [AmendmentNext]_allVars PROVE AInv' /\ DecidedStep
  OBVIOUS
<1>1. CASE Command
  BY <1>1, CommandKeepsAInv DEF DecidedStep, Command, amendmentVars
<1>2. ASSUME NEW s \in Shipments, NEW amount \in Amounts \cup {None}, NEW c \in Deciders,
             RequestAmendment(s, amount, c)
      PROVE  AInv' /\ DecidedStep
  <2>1. UNCHANGED row
    BY <1>2 DEF RequestAmendment, vars
  <2> QED
    BY <1>2, <2>1, RequestAmendmentStep DEF DecidedStep
<1>3. ASSUME NEW c \in Deciders, NEW a \in DOMAIN amendments, BeginApply(c, a)
      PROVE  AInv' /\ DecidedStep
  BY <1>3, BeginApplyStep DEF DecidedStep, BeginApply, vars
<1>4. ASSUME NEW c \in Deciders, ReadParcel(c) PROVE AInv' /\ DecidedStep
  BY <1>4, ReadParcelStep DEF DecidedStep, ReadParcel, vars
<1>5. ASSUME NEW c \in Deciders, CommitApply(c) PROVE AInv' /\ DecidedStep
  BY <1>5, CommitApplyStep DEF DecidedStep
<1>6. ASSUME NEW c \in Deciders, FailApply(c) PROVE AInv' /\ DecidedStep
  BY <1>6, FailApplyStep DEF DecidedStep, FailApply, vars
<1>7. ASSUME NEW a \in DOMAIN amendments, RejectAmendment(a) PROVE AInv' /\ DecidedStep
  BY <1>7, RejectAmendmentStep DEF DecidedStep, RejectAmendment, vars
<1>8. CASE UNCHANGED allVars
  <2>1. UNCHANGED vars /\ UNCHANGED <<amendments, deciding, trail>> /\ UNCHANGED row
    BY <1>8 DEF allVars, amendmentVars, vars
  <2>2. AmendmentTypeOK' /\ AuditTrailIsAChain'
    BY <2>1, ParcelUntouched DEF AInv, AmendmentTypeOK
  <2>3. Grounded'
    BY <2>1, ParcelUntouched DEF AInv, Grounded, Exists
  <2>4. OneWaits' /\ ReadIsFresh'
    BY <2>1 DEF AInv, OneWaits, ReadIsFresh, Waiting
  <2> QED
    BY <2>1, <2>2, <2>3, <2>4 DEF AInv, DecidedStep
<1> QED
  BY <1>1, <1>2, <1>3, <1>4, <1>5, <1>6, <1>7, <1>8 DEF AmendmentNext

-----------------------------------------------------------------------------
(* Amendments: the theorems *)

\* The requests, the calls in flight and the trail keep their types, and an
\* amended row is still one that create could have written.
THEOREM AmendmentTypes == AmendmentSpec => []AmendmentTypeOK
<1>1. AInv => AmendmentTypeOK
  BY DEF AInv
<1> QED
  BY <1>1, AmendmentStart, AmendmentKeeps, PTL DEF AmendmentSpec

\* The audit trail of a parcel's amount is a chain from the amount it was
\* created with to the amount it has, for any parcels, deciders and requests.
THEOREM TrailIsAChain == AmendmentSpec => []AuditTrailIsAChain
<1>1. AInv => AuditTrailIsAChain
  BY DEF AInv
<1> QED
  BY <1>1, AmendmentStart, AmendmentKeeps, PTL DEF AmendmentSpec

\* A request is decided once, and an amount changes only by a request that
\* waited until then.
THEOREM EachIsDecidedOnce == AmendmentSpec => DecidedOnce
<1>1. AInv /\ [AmendmentNext]_allVars => [DecidedStep]_allVars
  BY AmendmentKeeps
<1> QED
  BY <1>1, AmendmentStart, AmendmentKeeps, PTL DEF AmendmentSpec, DecidedOnce, DecidedStep
=============================================================================
