---------------------------- MODULE DriverOutbox ----------------------------
(***************************************************************************)
(* The outbox of a driver's phone and the sync of the server it is flushed *)
(* to.  What the driver does is written to the phone's database first; a   *)
(* flush presigns the photos, sends the actions in batches of one kind,    *)
(* refreshes the manifests and uploads.  A step of the phone is one write  *)
(* of its database or one call; the server runs the items of a batch one   *)
(* transaction each, and goes on when the phone has stopped waiting.       *)
(***************************************************************************)
EXTENDS Integers, Sequences, FiniteSets, FiniteSetsExt

CONSTANTS
    Parcels, Addresses, Pickups,
    Kinds,          \* the kinds of action the driver takes
    Handlers,       \* bound: requests the server runs at once
    Nothing,        \* no parcel, no request
    MaxBatch,       \* MAX_SYNC_ITEMS, and MAX_SCANS
    MaxTaps,        \* bound: actions the driver takes
    MaxTrouble      \* bound: lost answers, deaths of the app, faults of the server

SyncKinds == {"DELIVERED", "FAILED", "RETURN_COMPLETED", "ADDRESS_CORRECTED"}
PickupKinds == {"PICKUP_SCAN", "PICKUP_COLLECT", "PICKUP_COMPLETE"}

ASSUME OutboxAssumption ==
    /\ Kinds \subseteq SyncKinds \cup PickupKinds
    /\ MaxBatch \in Nat \ {0} /\ MaxTaps \in Nat /\ MaxTrouble \in Nat
    /\ Nothing \notin Handlers

VARIABLES
    log,            \* the actions of the phone with their photos, by seq
    phone,          \* the flush under way
    shown,          \* actions whose outcome the stored manifests carry
    request,        \* request[h]: a call the server works on
    applied,        \* actions the server has carried out
    judged,         \* actions the server has carried out or turned down
    cited,          \* applied deliveries that cite their photo
    artifact,       \* artifact[i]: the server's side of the photo of action i
    session,        \* "in", "leaving" (sign-out has counted), "out"
    wiped,          \* work the sign-out took along
    trouble         \* lost answers, deaths and faults so far

server == <<request, applied, judged, cited, artifact>>
outboxVars == <<log, phone, shown, server, session, wiped, trouble>>

Taps == 1..Len(log)
SubjectsOf(kind) ==
    CASE kind \in PickupKinds -> Pickups
      [] kind = "ADDRESS_CORRECTED" -> Addresses
      [] OTHER -> Parcels

IsPhysical(kind) == kind \in {"DELIVERED", "RETURN_COMPLETED"}

Resting ==
    [at |-> "idle", todo |-> {}, deferred |-> {}, synced |-> FALSE, call |-> Nothing,
     results |-> <<>>, routes |-> {}]

NoRequest == [type |-> "none", items |-> {}, cites |-> {}, results |-> <<>>,
              held |-> {}, heard |-> FALSE]

-----------------------------------------------------------------------------
(* The driver *)

\* enqueue: the action and its photo, both or neither.
Tap(kind, subject, photo) ==
    /\ session # "out" /\ Len(log) < MaxTaps
    /\ photo => kind = "DELIVERED"
    /\ log' = Append(log, [kind |-> kind, subject |-> subject, state |-> "PENDING",
                           media |-> IF photo THEN "CAPTURED" ELSE "none",
                           file |-> photo, seen |-> FALSE])
    /\ UNCHANGED <<phone, shown, server, session, wiped, trouble>>

\* The driver has read it, or told dispatch: kept, no longer shown.
Dismiss(i) ==
    /\ session # "out" /\ log[i].state \in {"REFUSED", "ESCALATED"}
    /\ log' = [log EXCEPT ![i].state = "DONE", ![i].seen = TRUE]
    /\ UNCHANGED <<phone, shown, server, session, wiped, trouble>>

UnsafeToForget ==
    {i \in Taps : log[i].state \in {"PENDING", "ESCALATED"}
                    \/ log[i].media \in {"CAPTURED", "SLOTTED"}}

\* signOut, after its flush, counts what would be lost ...
LeaveChecked ==
    /\ session = "in" /\ log # <<>>
    /\ UnsafeToForget = {}
    /\ session' = "leaving"
    /\ UNCHANGED <<log, phone, shown, server, wiped, trouble>>

Unheeded == IF phone.call = Nothing THEN request
            ELSE [request EXCEPT ![phone.call].heard = FALSE]

\* ... and, after the last positions are sent, wipes everything: a flush under
\* way finds no row and no session.  What the log held stays to be compared.
SignOut ==
    /\ session = "leaving"
    /\ session' = "out"
    /\ wiped' = UnsafeToForget
    /\ phone' = Resting /\ request' = Unheeded
    /\ UNCHANGED <<log, shown, applied, judged, cited, artifact, trouble>>

-----------------------------------------------------------------------------
(* The flush: slots *)

Photos(state) == {i \in Taps : log[i].media = state}

\* The timer, the return of the app, or a new action; one flush at a time.
StartFlush ==
    /\ session # "out" /\ phone.at = "idle"
    /\ phone' = [Resting EXCEPT !.at = "slots", !.todo = Photos("CAPTURED")]
    /\ UNCHANGED <<log, shown, server, session, wiped, trouble>>

Slotted(i) == artifact' = [artifact EXCEPT ![i] = IF @ = "none" THEN "slot" ELSE @]

\* The same key asks for the same slot again.
Presign ==
    /\ phone.at = "slots" /\ phone.todo # {}
    /\ LET i == Min(phone.todo)
       IN /\ \/ Slotted(i) /\ log' = [log EXCEPT ![i].media = "SLOTTED"]
             \/ UNCHANGED artifact /\ log' = [log EXCEPT ![i].media = "FAILED"]
          /\ phone' = [phone EXCEPT !.todo = @ \ {i}]
    /\ UNCHANGED <<shown, request, applied, judged, cited, session, wiped, trouble>>

PresignLost ==
    /\ phone.at = "slots" /\ phone.todo # {} /\ trouble < MaxTrouble
    /\ Slotted(Min(phone.todo))
    /\ phone' = Resting /\ trouble' = trouble + 1
    /\ UNCHANGED <<log, shown, request, applied, judged, cited, session, wiped>>

-----------------------------------------------------------------------------
(* The flush: actions *)

Pending == {i \in Taps : log[i].state = "PENDING"}

SendableActions == {i \in Pending : log[i].subject \notin phone.deferred}

Head1 == Min(SendableActions)

TakeWhile(keep) ==
    {i \in SendableActions :
        LET before == {j \in SendableActions : j <= i}
        IN before \subseteq keep /\ Cardinality(before) <= MaxBatch}

HasItemMutant(i) == TRUE

\* toSyncItem is null while the photo has no slot.
HasItem(i) == log[i].media # "CAPTURED"

\* Where two actions of one kind of call meet, they travel together.
Batch ==
    IF log[Head1].kind \in SyncKinds
    THEN TakeWhile({i \in SendableActions : log[i].kind \in SyncKinds})
    ELSE IF log[Head1].kind = "PICKUP_SCAN"
    THEN TakeWhile({i \in SendableActions : log[i].kind = "PICKUP_SCAN"
                                              /\ log[i].subject = log[Head1].subject})
    ELSE {Head1}

CallType ==
    CASE log[Head1].kind \in SyncKinds -> "sync"
      [] log[Head1].kind = "PICKUP_SCAN" -> "scans"
      [] OTHER -> "single"

\* Between two batches: the answers before are settled.
AtActions == phone.at \in {"slots", "settling", "actions"} /\ phone.todo = {}

\* A photo without a slot ends the batch, and its parcel waits for the next flush.
SendBatch(h) ==
    /\ AtActions /\ SendableActions # {} /\ request[h] = NoRequest
    /\ LET items == {i \in Batch : \A j \in Batch : j <= i => HasItem(j)}
           blocked == Batch \ items
           held == IF blocked = {} THEN {} ELSE {log[Min(blocked)].subject}
           cites == {i \in items : log[i].media \in {"SLOTTED", "UPLOADED"}}
       IN IF items = {}
          THEN /\ phone' = [phone EXCEPT !.deferred = @ \cup held, !.at = "actions"]
               /\ UNCHANGED request
          ELSE /\ phone' = [phone EXCEPT !.deferred = @ \cup held, !.at = "waiting",
                                         !.todo = items, !.call = h, !.results = <<>>]
               /\ request' = [request EXCEPT ![h] =
                    [NoRequest EXCEPT !.type = CallType, !.items = items, !.cites = cites,
                                      !.heard = TRUE]]
    /\ UNCHANGED <<log, shown, applied, judged, cited, artifact, session, wiped, trouble>>

RestMutant == [phone EXCEPT !.at = "refresh", !.todo = {}]

\* The rest of the flush: one plain sync if no batch was answered, and the uploads.
Rest == [Resting EXCEPT !.at = IF phone.synced THEN "uploads" ELSE "refresh",
                        !.todo = IF phone.synced THEN Photos("SLOTTED") ELSE {}]

ActionsDone ==
    /\ AtActions /\ SendableActions = {}
    /\ phone' = Rest
    /\ UNCHANGED <<log, shown, server, session, wiped, trouble>>

\* A timeout, a lost connection, a session that cannot be renewed, or the death
\* of the app: the server goes on with what it has.
GiveUp ==
    /\ phone.at # "idle" /\ trouble < MaxTrouble
    /\ phone' = Resting /\ trouble' = trouble + 1
    /\ request' = Unheeded
    /\ UNCHANGED <<log, shown, applied, judged, cited, artifact, session, wiped>>

-----------------------------------------------------------------------------
(* The server *)

\* What reject makes of a failure, beside a fault of the server itself.
Verdicts(kind) ==
    CASE kind \in {"PICKUP_COLLECT", "PICKUP_COMPLETE"} -> {"REFUSED"}
      [] IsPhysical(kind) -> {"ESCALATE"}
      [] OTHER -> {"DISCARD", "ESCALATE"}

Carry(items, cites) ==
    /\ applied' = applied \cup items
    /\ cited' = cited \cup (cites \cap (items \ applied))

HoldsMutant(verdict) == verdict = "ESCALATE"

Holds(verdict) == verdict \in {"RETRY", "ESCALATE"}

Answered(h) == DOMAIN request[h].results

\* One item of a sync: held behind an earlier one of its parcel, a replay, the
\* command, a refusal, or a fault.
Judge(h) ==
    LET call == request[h]
        i == Min(call.items \ Answered(h))
        answer(v) ==
            request' = [request EXCEPT
                ![h].results = [j \in Answered(h) \cup {i} |-> IF j = i THEN v ELSE @[j]],
                ![h].held = IF Holds(v) THEN @ \cup {log[i].subject} ELSE @]
    IN /\ call.type = "sync" /\ call.items \ Answered(h) # {}
       /\ \/ /\ log[i].subject \in call.held
             /\ answer("RETRY")
             /\ UNCHANGED <<applied, judged, cited, trouble>>
          \/ /\ log[i].subject \notin call.held
             /\ answer("ACCEPTED")
             /\ Carry({i}, call.cites)
             /\ judged' = judged \cup {i}
             /\ UNCHANGED trouble
          \/ /\ log[i].subject \notin call.held /\ i \notin applied
             /\ \E v \in Verdicts(log[i].kind) : answer(v)
             /\ judged' = judged \cup {i}
             /\ UNCHANGED <<applied, cited, trouble>>
          \/ /\ log[i].subject \notin call.held /\ trouble < MaxTrouble
             /\ answer("RETRY")
             /\ trouble' = trouble + 1
             /\ UNCHANGED <<applied, judged, cited>>
       /\ UNCHANGED <<log, phone, shown, artifact, session, wiped>>

\* The scans of a batch are one transaction, each with its own result; collect
\* and complete are one command.
JudgePickup(h) ==
    LET call == request[h]
    IN /\ call.type \in {"scans", "single"} /\ Answered(h) = {}
       /\ \E results \in [call.items -> {"ACCEPTED", "DISCARD", "ESCALATE", "REFUSED"}] :
            /\ \A i \in call.items :
                results[i] \in {"ACCEPTED"} \cup
                    (IF i \in applied THEN {} ELSE Verdicts(log[i].kind))
            /\ request' = [request EXCEPT ![h].results = results]
            /\ Carry({i \in call.items : results[i] = "ACCEPTED"}, {})
       /\ judged' = judged \cup call.items
       /\ UNCHANGED <<log, phone, shown, artifact, session, wiped, trouble>>

\* The call as a whole is refused, before any item.
RefuseEnvelope(h) ==
    /\ request[h].type \in {"sync", "scans"} /\ Answered(h) = {}
    /\ trouble < MaxTrouble /\ trouble' = trouble + 1
    /\ request' = [request EXCEPT ![h].results = [i \in request[h].items |-> "ENVELOPE"]]
    /\ judged' = IF request[h].type = "scans" THEN judged \cup request[h].items ELSE judged
    /\ UNCHANGED <<log, phone, shown, applied, cited, artifact, session, wiped>>

\* Nobody waits for the answer.
Unheard(h) ==
    /\ request[h].type # "none" /\ ~request[h].heard /\ Answered(h) = request[h].items
    /\ request' = [request EXCEPT ![h] = NoRequest]
    /\ UNCHANGED <<log, phone, shown, applied, judged, cited, artifact, session, wiped, trouble>>

-----------------------------------------------------------------------------
(* The flush: answers, refresh and uploads *)

AfterAnswerMutant(type) == "settling"

\* The manifests are saved before the outcomes they carry are settled.
AfterAnswer(type) == IF type = "sync" THEN "saving" ELSE "settling"

\* A refused envelope ends the actions of this flush; its actions stay.
Answer(h) ==
    /\ phone.at = "waiting" /\ phone.call = h /\ Answered(h) = request[h].items
    /\ request' = [request EXCEPT ![h] = NoRequest]
    /\ phone' =
        IF request[h].type = "sync" /\ "ENVELOPE" \in {request[h].results[i] : i \in Answered(h)}
        THEN Rest
        ELSE [phone EXCEPT !.at = AfterAnswer(request[h].type), !.call = Nothing,
                           !.results = request[h].results,
                           !.routes = IF request[h].type = "sync" THEN applied ELSE {}]
    /\ UNCHANGED <<log, shown, applied, judged, cited, artifact, session, wiped, trouble>>

SaveRoutes ==
    /\ phone.at = "saving"
    /\ shown' = shown \cup phone.routes
    /\ phone' = [phone EXCEPT !.at = "settling", !.synced = TRUE, !.routes = {}]
    /\ UNCHANGED <<log, server, session, wiped, trouble>>

SettledStateMutant(kind, verdict) ==
    CASE verdict = "ACCEPTED" -> "DONE"
      [] verdict \in {"RETRY", "ESCALATE"} -> "PENDING"
      [] verdict \in {"REFUSED", "ENVELOPE"} -> "REFUSED"
      [] OTHER -> IF IsPhysical(kind) THEN "ESCALATED" ELSE "REFUSED"

SettledState(kind, verdict) ==
    CASE verdict = "ACCEPTED" -> "DONE"
      [] verdict = "RETRY" -> "PENDING"
      [] verdict \in {"REFUSED", "ENVELOPE"} -> "REFUSED"
      [] verdict = "DISCARD" /\ ~IsPhysical(kind) -> "REFUSED"
      [] OTHER -> "ESCALATED"

Settle ==
    /\ phone.at = "settling" /\ phone.todo # {}
    /\ LET i == Min(phone.todo)
           verdict == phone.results[i]
       IN /\ log' = [log EXCEPT ![i].state = SettledState(log[i].kind, verdict)]
          /\ phone' = [phone EXCEPT !.todo = @ \ {i},
                !.deferred = IF verdict = "RETRY" THEN @ \cup {log[i].subject} ELSE @]
    /\ UNCHANGED <<shown, server, session, wiped, trouble>>

\* A refusal of the plain sync changes nothing.
Refresh ==
    /\ phone.at = "refresh"
    /\ shown' \in {shown, shown \cup applied}
    /\ phone' = [phone EXCEPT !.at = "uploads", !.todo = Photos("SLOTTED")]
    /\ UNCHANGED <<log, server, session, wiped, trouble>>

\* The upload and its completion, and the answer or not; a refusal keeps the file.
Upload ==
    /\ phone.at = "uploads" /\ phone.todo # {}
    /\ LET i == Min(phone.todo)
       IN \/ /\ artifact' = [artifact EXCEPT ![i] = "stored"]
             /\ log' = [log EXCEPT ![i].media = "UPLOADED", ![i].file = FALSE]
             /\ phone' = [phone EXCEPT !.todo = @ \ {i}]
             /\ UNCHANGED trouble
          \/ /\ log' = [log EXCEPT ![i].media = "FAILED"]
             /\ phone' = [phone EXCEPT !.todo = @ \ {i}]
             /\ UNCHANGED <<artifact, trouble>>
          \/ /\ trouble < MaxTrouble /\ trouble' = trouble + 1
             /\ artifact' = [artifact EXCEPT ![i] = "stored"]
             /\ phone' = Resting
             /\ UNCHANGED log
    /\ UNCHANGED <<shown, request, applied, judged, cited, session, wiped>>

FlushDone ==
    /\ phone.at = "uploads" /\ phone.todo = {}
    /\ phone' = Resting
    /\ UNCHANGED <<log, shown, server, session, wiped, trouble>>

-----------------------------------------------------------------------------
OutboxInit ==
    /\ log = <<>> /\ phone = Resting /\ shown = {}
    /\ request = [h \in Handlers |-> NoRequest]
    /\ applied = {} /\ judged = {} /\ cited = {}
    /\ artifact = [i \in 1..MaxTaps |-> "none"]
    /\ session = "in" /\ wiped = {} /\ trouble = 0

FlushStep ==
    \/ StartFlush \/ Presign
    \/ \E h \in Handlers : SendBatch(h) \/ Answer(h)
    \/ SaveRoutes \/ Settle \/ ActionsDone \/ Refresh \/ Upload \/ FlushDone

ServerStep(h) == Judge(h) \/ JudgePickup(h) \/ Unheard(h)

OutboxNext ==
    \/ \E k \in Kinds : \E s \in SubjectsOf(k), photo \in BOOLEAN : Tap(k, s, photo)
    \/ \E i \in Taps : Dismiss(i)
    \/ LeaveChecked \/ SignOut
    \/ FlushStep \/ PresignLost \/ GiveUp
    \/ \E h \in Handlers : ServerStep(h) \/ RefuseEnvelope(h)

OutboxSafety == OutboxInit /\ [][OutboxNext]_outboxVars

\* The app flushes on a timer, and the server ends what it has begun.
OutboxSpec ==
    /\ OutboxSafety
    /\ WF_outboxVars(FlushStep)
    /\ \A h \in Handlers : WF_outboxVars(ServerStep(h))

-----------------------------------------------------------------------------
(* Properties *)

\* Actions, calls and photos have their types; a phone waits for a call that
\* the server knows it waits for.
OutboxTypeOK ==
    /\ log \in Seq([kind : Kinds, subject : Parcels \cup Addresses \cup Pickups,
            state : {"PENDING", "DONE", "REFUSED", "ESCALATED"},
            media : {"none", "CAPTURED", "SLOTTED", "UPLOADED", "FAILED"},
            file : BOOLEAN, seen : BOOLEAN])
    /\ phone.at \in {"idle", "slots", "actions", "waiting", "saving", "settling",
                     "refresh", "uploads"}
    /\ phone.todo \subseteq Taps
    /\ phone.at = "waiting" <=> phone.call # Nothing
    /\ phone.call # Nothing => request[phone.call].heard
    /\ shown \cup applied \cup judged \cup cited \cup wiped \subseteq Taps
    /\ artifact \in [1..MaxTaps -> {"none", "slot", "stored"}]
    /\ session \in {"in", "leaving", "out"} /\ trouble \in 0..MaxTrouble

\* A scan does not wait for the other scans of its pickup.
Waits(a, b) ==
    /\ a < b /\ log[a].subject = log[b].subject
    /\ ~(log[a].kind = "PICKUP_SCAN" /\ log[b].kind = "PICKUP_SCAN")

\* Order per parcel (driver-sync.service, and "nothing is reordered" of the
\* outbox): when the server carries an action out, it has ruled on everything
\* the driver did to that parcel before, whatever answers were lost, requests
\* run twice or photos are missing.
CarriedOutInOrder == \A b \in applied : \A a \in Taps : Waits(a, b) => a \in judged

\* What the phone shows as done was done: the server carried it out and the
\* manifest the driver sees already says so, or a person has seen the refusal;
\* a delivery in the street is never just refused.
DoneIsRecorded ==
    \A i \in Taps :
        /\ log[i].state = "DONE" /\ ~log[i].seen =>
            i \in applied /\ (log[i].kind \in SyncKinds => i \in shown)
        /\ log[i].state = "REFUSED" => ~IsPhysical(log[i].kind)

\* A proof is never lost to the delivery it belongs to: the file is dropped once
\* the server holds it, and a delivery carried out cites the photo of every slot.
ProofIsKept ==
    \A i \in Taps :
        /\ log[i].media # "none" /\ ~log[i].file => artifact[i] = "stored"
        /\ i \in applied /\ log[i].media \in {"SLOTTED", "UPLOADED"} => i \in cited

\* Everything the driver did is sent in the end and answered, unless he leaves.
EverythingIsAnswered ==
    \A i \in 1..MaxTaps :
        (i \in Taps /\ log[i].state = "PENDING")
            ~> (session = "out" \/ (i \in Taps /\ log[i].state # "PENDING"))

\* What the profile screen says: recorded work never leaves with the session.
\* The count is taken before the last positions are sent, and the driver may
\* still act while they are.
WorkNeverLeaves == wiped = {}
=============================================================================
