-------------------------- MODULE NotificationSend --------------------------
(***************************************************************************)
(* One message of the notification consumer group: NotificationService's   *)
(* send, called by each delivery of the event that triggers it.  The group *)
(* itself is EventDelivery's; what the handler sees of it is that an entry *)
(* is delivered again while it is pending, to a second worker too if the   *)
(* first is slow, until it is acknowledged or dead-lettered.               *)
(* The -Mutant operators are wrong on purpose: the code with one fault in  *)
(* it, to show that a property notices.  Nothing here uses them.           *)
(***************************************************************************)
EXTENDS Naturals

CONSTANTS
    Workers,        \* members of the notification group
    MaxDeliveries,  \* EVENT_CONSUMER_MAX_DELIVERIES
    MaxFaults       \* bound: crashes of a behaviour

VARIABLES
    entry,      \* the stream entry: pending with its deliveries, or gone
    worker,     \* worker[w]: the step of processEntry and send it is at
    smsOn,      \* the tenant's SMS_ENABLED
    log,        \* status of the notification_log row, "none" before it exists
    handed,     \* messages the provider took
    processed,  \* the event is in processed_events
    dead,       \* the event is in dead_letter_events
    faults

vars == <<entry, worker, smsOn, log, handed, processed, dead, faults>>

Steps == {"idle", "check", "gate", "record", "skip", "send", "sent", "failed", "mark", "ack"}

Goto(w, where) == worker' = [worker EXCEPT ![w] = where]
At(w, where) == worker[w] = where

-----------------------------------------------------------------------------
(* The consumer's side *)

\* A delivery, the first or a reclaimed one.
Deliver(w) ==
    /\ At(w, "idle")
    /\ ~entry.gone /\ entry.tries < MaxDeliveries
    /\ entry' = [entry EXCEPT !.tries = @ + 1]
    /\ Goto(w, "check")
    /\ UNCHANGED <<smsOn, log, handed, processed, dead, faults>>

DeadLetter(w) ==
    /\ At(w, "idle")
    /\ ~entry.gone /\ entry.tries = MaxDeliveries
    /\ entry' = [entry EXCEPT !.gone = TRUE]
    /\ dead' = TRUE
    /\ UNCHANGED <<worker, smsOn, log, handed, processed, faults>>

Check(w) ==
    /\ At(w, "check")
    /\ Goto(w, IF processed THEN "ack" ELSE "gate")
    /\ UNCHANGED <<entry, smsOn, log, handed, processed, dead, faults>>

Mark(w) ==
    /\ At(w, "mark")
    /\ processed' = TRUE
    /\ Goto(w, "ack")
    /\ UNCHANGED <<entry, smsOn, log, handed, dead, faults>>

Ack(w) ==
    /\ At(w, "ack")
    /\ entry' = [entry EXCEPT !.gone = TRUE]
    /\ Goto(w, "idle")
    /\ UNCHANGED <<smsOn, log, handed, processed, dead, faults>>

Crash(w) ==
    /\ ~At(w, "idle")
    /\ faults < MaxFaults
    /\ faults' = faults + 1
    /\ Goto(w, "idle")
    /\ UNCHANGED <<entry, smsOn, log, handed, processed, dead>>

-----------------------------------------------------------------------------
(* send *)

\* The cost gate is read, then the row is written, in two transactions.
Gate(w) ==
    /\ At(w, "gate")
    /\ Goto(w, IF smsOn THEN "record" ELSE "skip")
    /\ UNCHANGED <<entry, smsOn, log, handed, processed, dead, faults>>

RecordedMutant(status) == status

\* record: ON CONFLICT DO NOTHING, the row that is there is the answer.
Recorded(status) == IF log = "none" THEN status ELSE log

SkipMutant(w) ==
    /\ At(w, "skip")
    /\ Goto(w, "mark")
    /\ UNCHANGED <<entry, smsOn, log, handed, processed, dead, faults>>

Skip(w) ==
    /\ At(w, "skip")
    /\ log' = Recorded("SKIPPED")
    /\ Goto(w, "mark")
    /\ UNCHANGED <<entry, smsOn, handed, processed, dead, faults>>

\* Only a row that says PENDING goes on to the provider.
Record(w) ==
    /\ At(w, "record")
    /\ log' = Recorded("PENDING")
    /\ Goto(w, IF log' = "PENDING" THEN "send" ELSE "mark")
    /\ UNCHANGED <<entry, smsOn, handed, processed, dead, faults>>

ReceiptMutant(w) == Goto(w, "sent")

\* send throws.
Receipt(w) == Goto(w, "failed")

\* The provider answers, refuses, or takes the message and its answer is lost.
CallProvider(w) ==
    /\ At(w, "send")
    /\ \/ handed' = handed + 1 /\ (Goto(w, "sent") \/ Receipt(w))
       \/ UNCHANGED handed /\ Receipt(w)
    /\ UNCHANGED <<entry, smsOn, log, processed, dead, faults>>

\* finalise updates the row by its id.
FinaliseSent(w) ==
    /\ At(w, "sent")
    /\ log' = "SENT"
    /\ Goto(w, "mark")
    /\ UNCHANGED <<entry, smsOn, handed, processed, dead, faults>>

\* FAILED is recorded, then the error goes on to the consumer.
FinaliseFailed(w) ==
    /\ At(w, "failed")
    /\ log' = "FAILED"
    /\ Goto(w, "idle")
    /\ UNCHANGED <<entry, smsOn, handed, processed, dead, faults>>

ToggleSms ==
    /\ smsOn' = ~smsOn
    /\ UNCHANGED <<entry, worker, log, handed, processed, dead, faults>>

-----------------------------------------------------------------------------
Init ==
    /\ entry = [tries |-> 0, gone |-> FALSE]
    /\ worker = [w \in Workers |-> "idle"]
    /\ smsOn \in BOOLEAN
    /\ log = "none" /\ handed = 0
    /\ processed = FALSE /\ dead = FALSE
    /\ faults = 0

Step(w) ==
    \/ Deliver(w) \/ DeadLetter(w) \/ Check(w) \/ Mark(w) \/ Ack(w)
    \/ Gate(w) \/ Skip(w) \/ Record(w) \/ CallProvider(w)
    \/ FinaliseSent(w) \/ FinaliseFailed(w)

Next == ToggleSms \/ \E w \in Workers : Step(w) \/ Crash(w)

Spec == Init /\ [][Next]_vars

\* The consumers' loops run.
FairSpec == Spec /\ \A w \in Workers : WF_vars(Step(w))

-----------------------------------------------------------------------------
(* Properties *)

\* The row, the workers and the counters; a worker that may still finalise or
\* mark has a row to do it on.
TypeOK ==
    /\ entry \in [tries : 0 .. MaxDeliveries, gone : BOOLEAN]
    /\ worker \in [Workers -> Steps]
    /\ log \in {"none", "PENDING", "SENT", "FAILED", "SKIPPED"}
    /\ \A w \in Workers : worker[w] \in {"send", "sent", "failed", "mark"} => log # "none"
    /\ handed \in 0 .. MaxDeliveries
    /\ processed \in BOOLEAN /\ dead \in BOOLEAN /\ faults \in 0 .. MaxFaults

\* A message the cost gate skipped is never handed over, nor about to be, even
\* when SMS_ENABLED is switched between two deliveries and two workers.
SkippedIsSilent ==
    log = "SKIPPED" =>
        handed = 0 /\ \A w \in Workers : worker[w] \notin {"send", "sent", "failed"}

\* A row that says SENT has a receipt behind it.
SentWasHanded == log = "SENT" => handed > 0

-----------------------------------------------------------------------------
(* What the repository says of the program and the code does not do *)

\* NotificationService: a redelivered event does not double-send.
SentOnce == handed <= 1

\* NotificationService: FAILED is re-thrown so that the consumer retries and
\* the dead-letter path engages, an outage must not swallow the notification.
NeverSwallowed == <>[](handed > 0 \/ dead \/ log = "SKIPPED")
=============================================================================
