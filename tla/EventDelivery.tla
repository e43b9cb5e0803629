--------------------------- MODULE EventDelivery ----------------------------
(***************************************************************************)
(* The event backbone: transactional outbox, relay, Valkey stream, the     *)
(* consumer group of the ledger with its handler, and the operators of the *)
(* dead-letter queue.  Each statement that another process can come before *)
(* is a step.  The events are numbered by their outbox.seq and all concern *)
(* one aggregate; they are all cod.collected, which the ledger handles.    *)
(* The -Mutant operators are wrong on purpose: the code with one fault in  *)
(* it, to show that a property notices.  Nothing here uses them.           *)
(***************************************************************************)
EXTENDS Naturals, Sequences, FiniteSets

CONSTANTS
    Events,         \* outbox.seq of the events written in a behaviour
    Relays,         \* the relay processes
    Consumers,      \* the worker processes, members of one consumer group
    Operators,      \* the people at the dead-letter queue
    RelayBatch,     \* OUTBOX_RELAY_BATCH_SIZE
    ConsumerBatch,  \* EVENT_CONSUMER_BATCH_SIZE
    MaxDeliveries,  \* EVENT_CONSUMER_MAX_DELIVERIES
    MaxLen,         \* OUTBOX_STREAM_MAXLEN
    MaxFaults       \* bound: crashes and lost connections of a behaviour

ASSUME DeliveryAssumption ==
    /\ Events \subseteq Nat
    /\ RelayBatch \in Nat \ {0} /\ ConsumerBatch \in Nat \ {0}
    /\ MaxDeliveries \in Nat \ {0}
    /\ MaxLen \in Nat \ {0} /\ MaxFaults \in Nat

VARIABLES
    outbox,     \* outbox[e]: not committed, due, backed off or published
    relay,      \* relay[r]: the batch that drainOnce holds
    stream,     \* every entry ever added, with its state in the group
    trimmed,    \* how many entries the MAXLEN trimming has removed
    read,       \* the group's last delivered entry
    consumer,   \* consumer[c]: where consumeOnce is
    processed,  \* processed_events of the group
    posted,     \* posted[e]: ledger transactions posted for e
    dead,       \* dead[e]: status of its dead_letter_events row
    operator,   \* operator[o]: where the operator's call is
    faults      \* faults so far

relayVars == <<outbox, relay>>
streamVars == <<stream, trimmed, read>>
tables == <<processed, posted, dead>>
vars == <<relayVars, streamVars, consumer, tables, operator, faults>>

Resting == [claimed |-> {}, todo |-> {}, failed |-> FALSE]
NoItem == [entry |-> 0, count |-> 0]
Polling == [loop |-> "fresh", at |-> "next", todo |-> {}, item |-> NoItem]
Away == [at |-> "away", event |-> 0]

\* The n smallest members of S.
First(S, n) == {x \in S : Cardinality({y \in S : y <= x}) <= n}

Fault == faults < MaxFaults /\ faults' = faults + 1

-----------------------------------------------------------------------------
(* The relay: drainOnce, one transaction that locks its rows *)

\* The business transaction commits.  It holds the lock of the aggregate's row
\* since before it wrote the event, so the events commit in their order.
Commit(e) ==
    /\ outbox[e] = "absent"
    /\ \A f \in Events : f < e => outbox[f] # "absent"
    /\ outbox' = [outbox EXCEPT ![e] = "due"]
    /\ UNCHANGED <<relay, streamVars, consumer, tables, operator, faults>>

Locked == UNION {relay[r].claimed : r \in Relays}

\* FOR UPDATE SKIP LOCKED, in seq order.
Claim(r) ==
    LET batch == First({e \in Events \ Locked : outbox[e] = "due"}, RelayBatch)
    IN /\ relay[r] = Resting
       /\ batch # {}
       /\ relay' = [relay EXCEPT ![r] = [claimed |-> batch, todo |-> batch, failed |-> FALSE]]
       /\ UNCHANGED <<outbox, streamVars, consumer, tables, operator, faults>>

Entry(e) == [event |-> e, tries |-> 0, acked |-> FALSE]

\* One XADD of the pipeline.  MAXLEN ~ may cut the stream down to MaxLen.
Append1(e) ==
    /\ stream' = Append(stream, Entry(e))
    /\ trimmed' \in {trimmed} \cup {t \in trimmed .. Len(stream) : Len(stream) + 1 - t >= MaxLen}

\* The commands of the pipeline go in seq order.
Due(r, e) == e \in relay[r].todo /\ \A f \in relay[r].todo : e <= f

XAdd(r, e) ==
    /\ Due(r, e)
    /\ Append1(e)
    /\ relay' = [relay EXCEPT ![r].todo = @ \ {e}]
    /\ UNCHANGED <<outbox, read, consumer, tables, operator, faults>>

\* The command fails, or its answer is lost with the connection: the rest of
\* the pipeline was sent all the same.
XAddFails(r, e) ==
    /\ Due(r, e)
    /\ Fault
    /\ \/ Append1(e)
       \/ UNCHANGED <<stream, trimmed>>
    /\ relay' = [relay EXCEPT ![r].todo = @ \ {e}, ![r].failed = TRUE]
    /\ UNCHANGED <<outbox, read, consumer, tables, operator>>

OutcomeMutant(failed) == "published"

\* One failed command backs off the whole batch.
Outcome(failed) == IF failed THEN "resting" ELSE "published"

\* publishBatch returned or threw.
Settle(r) ==
    /\ relay[r] # Resting /\ relay[r].todo = {}
    /\ outbox' = [e \in Events |->
                    IF e \in relay[r].claimed THEN Outcome(relay[r].failed) ELSE outbox[e]]
    /\ relay' = [relay EXCEPT ![r] = Resting]
    /\ UNCHANGED <<streamVars, consumer, tables, operator, faults>>

\* The process dies: the transaction rolls back, what was added stays.
RelayCrash(r) ==
    /\ relay[r] # Resting
    /\ Fault
    /\ relay' = [relay EXCEPT ![r] = Resting]
    /\ UNCHANGED <<outbox, streamVars, consumer, tables, operator>>

\* next_attempt_at is reached.
Wake(e) ==
    /\ outbox[e] = "resting"
    /\ outbox' = [outbox EXCEPT ![e] = "due"]
    /\ UNCHANGED <<relay, streamVars, consumer, tables, operator, faults>>

-----------------------------------------------------------------------------
(* The stream's consumer group *)

\* Pending: delivered to a member and not acknowledged.
Pending == {i \in 1 .. read : ~stream[i].acked}

Oldest == First(Pending, ConsumerBatch)

EventOf(c) == stream[consumer[c].item.entry].event

Goto(c, where) == consumer' = [consumer EXCEPT ![c].at = where]

DoneMutant(c) == consumer' = [consumer EXCEPT ![c].at = "next"]

Done(c) == consumer' = [consumer EXCEPT ![c].at = "next", ![c].item = NoItem]

\* XPENDING IDLE: some of the entries pending for long enough, which a slow
\* member's entries may be.
ListPending(c, idle) ==
    /\ consumer[c] = Polling
    /\ idle \subseteq Pending /\ Cardinality(idle) <= ConsumerBatch
    /\ consumer' = [consumer EXCEPT
                      ![c].loop = "reclaim",
                      ![c].todo = {[entry |-> i, count |-> stream[i].tries] : i \in idle}]
    /\ UNCHANGED <<relayVars, streamVars, tables, operator, faults>>

\* The loops of consumeOnce go through their entries in order.
Turn(c, loop, item) ==
    /\ consumer[c].loop = loop /\ consumer[c].at = "next"
    /\ item \in consumer[c].todo
    /\ \A other \in consumer[c].todo : item.entry <= other.entry

Take(c, item, where) ==
    consumer' = [consumer EXCEPT ![c].at = where, ![c].todo = @ \ {item}, ![c].item = item]

\* XCLAIM answers nothing for an entry that was acknowledged, trimmed away, or
\* claimed by another member since the list was read.
SkipEntry(c, item) ==
    LET i == item.entry
        gone == i <= trimmed
    IN /\ Turn(c, "reclaim", item)
       /\ stream[i].acked \/ gone \/ stream[i].tries # item.count
       /\ consumer' = [consumer EXCEPT ![c].todo = @ \ {item}]
       /\ stream' = [stream EXCEPT ![i].acked = @ \/ gone]
       /\ UNCHANGED <<relayVars, trimmed, read, tables, operator, faults>>

\* deliveryCount, as XPENDING gave it before the claim.
Exhausted(count) == count >= MaxDeliveries

ClaimEntry(c, item) ==
    /\ Turn(c, "reclaim", item)
    /\ item.entry > trimmed /\ ~stream[item.entry].acked
    /\ Take(c, item, IF Exhausted(item.count) THEN "bury" ELSE "check")
    /\ stream' = [stream EXCEPT ![item.entry].tries = @ + 1]
    /\ UNCHANGED <<relayVars, trimmed, read, tables, operator, faults>>

\* XREADGROUP >, once the reclaimed entries are through.  Trimmed entries were
\* never delivered and never will be.
ReadNew(c) ==
    LET from == IF read < trimmed THEN trimmed ELSE read
        upto == IF from + ConsumerBatch < Len(stream) THEN from + ConsumerBatch ELSE Len(stream)
    IN /\ consumer[c].loop = "reclaim" /\ consumer[c].at = "next" /\ consumer[c].todo = {}
       /\ read' = upto
       /\ stream' = [i \in 1 .. Len(stream) |->
                       CASE i \in from + 1 .. upto -> [stream[i] EXCEPT !.tries = 1]
                         [] i \in read + 1 .. from -> [stream[i] EXCEPT !.acked = TRUE]
                         [] OTHER -> stream[i]]
       /\ consumer' = [consumer EXCEPT
                         ![c].loop = "fresh",
                         ![c].todo = {[entry |-> i, count |-> 1] : i \in from + 1 .. upto}]
       /\ UNCHANGED <<relayVars, trimmed, tables, operator, faults>>

TakeFresh(c, item) ==
    /\ Turn(c, "fresh", item)
    /\ Take(c, item, "check")
    /\ UNCHANGED <<relayVars, streamVars, tables, operator, faults>>

-----------------------------------------------------------------------------
(* processEntry, with the handler's transaction of two statements *)

\* alreadyProcessed.
Check(c) ==
    /\ consumer[c].at = "check"
    /\ Goto(c, IF EventOf(c) \in processed THEN "ack" ELSE "handle")
    /\ UNCHANGED <<relayVars, streamVars, tables, operator, faults>>

\* hasPostedForEvent: a handled event is not posted again.
Handle(c) ==
    /\ consumer[c].at = "handle"
    /\ Goto(c, IF posted[EventOf(c)] > 0 THEN "mark" ELSE "insert")
    /\ UNCHANGED <<relayVars, streamVars, tables, operator, faults>>

PostableMutant(e) == TRUE

\* ledger_entries_source_event_uq.
Postable(e) == posted[e] = 0

Insert(c) ==
    /\ consumer[c].at = "insert"
    /\ IF Postable(EventOf(c))
       THEN /\ posted' = [posted EXCEPT ![EventOf(c)] = @ + 1]
            /\ Goto(c, "mark")
       ELSE Done(c) /\ UNCHANGED posted
    /\ UNCHANGED <<relayVars, streamVars, processed, dead, operator, faults>>

\* markProcessed: the unique index makes a second row a no-op.
Mark(c) ==
    /\ consumer[c].at = "mark"
    /\ processed' = processed \cup {EventOf(c)}
    /\ Goto(c, "ack")
    /\ UNCHANGED <<relayVars, streamVars, posted, dead, operator, faults>>

Ack(c) ==
    /\ consumer[c].at = "ack"
    /\ stream' = [stream EXCEPT ![consumer[c].item.entry].acked = TRUE]
    /\ Done(c)
    /\ UNCHANGED <<relayVars, trimmed, read, tables, operator, faults>>

FailedMutant(c) == Goto(c, "ack")

\* The entry stays pending; a later poll retries it.
Failed(c) == Done(c)

\* The handler or the bookkeeping throws.
Fail(c) ==
    /\ consumer[c].at \in {"handle", "insert", "mark"}
    /\ Failed(c)
    /\ UNCHANGED <<relayVars, streamVars, tables, operator, faults>>

BuriedMutant(e) == dead[e]

\* A second arrival leaves the status of the row as it is.
Buried(e) == IF dead[e] = "none" THEN "PENDING" ELSE dead[e]

\* deadLetter: the insert, then the acknowledgement.
Bury(c) ==
    /\ consumer[c].at = "bury"
    /\ dead' = [dead EXCEPT ![EventOf(c)] = Buried(EventOf(c))]
    /\ Goto(c, "ack")
    /\ UNCHANGED <<relayVars, streamVars, processed, posted, operator, faults>>

\* The process dies or consumeOnce throws: what it held stays pending.
ConsumerCrash(c) ==
    /\ consumer[c] # Polling
    /\ Fault
    /\ consumer' = [consumer EXCEPT ![c] = Polling]
    /\ UNCHANGED <<relayVars, streamVars, tables, operator>>

-----------------------------------------------------------------------------
(* DeadLetterService: replay, resolve and discard *)

Do(o, where) == operator' = [operator EXCEPT ![o].at = where]
Leave(o) == operator' = [operator EXCEPT ![o] = Away]

\* getById and the check that the row is PENDING.
Open(o, e, what) ==
    /\ operator[o] = Away
    /\ dead[e] = "PENDING"
    /\ operator' = [operator EXCEPT ![o] = [at |-> what, event |-> e]]
    /\ UNCHANGED <<relayVars, streamVars, consumer, tables, faults>>

\* replay: already processed is markResolved, else the handler runs.
ReplayCheck(o) ==
    /\ operator[o].at = "replay"
    /\ Do(o, IF operator[o].event \in processed THEN "resolve" ELSE "handle")
    /\ UNCHANGED <<relayVars, streamVars, consumer, tables, faults>>

ReplayHandle(o) ==
    /\ operator[o].at = "handle"
    /\ Do(o, IF posted[operator[o].event] > 0 THEN "record" ELSE "insert")
    /\ UNCHANGED <<relayVars, streamVars, consumer, tables, faults>>

ReplayInsert(o) ==
    LET e == operator[o].event
    IN /\ operator[o].at = "insert"
       /\ IF Postable(e)
          THEN posted' = [posted EXCEPT ![e] = @ + 1] /\ Do(o, "record")
          ELSE Leave(o) /\ UNCHANGED posted
       /\ UNCHANGED <<relayVars, streamVars, consumer, processed, dead, faults>>

\* processed_events and, where resolved_at is null, the row.
ReplayRecord(o) ==
    LET e == operator[o].event
    IN /\ operator[o].at = "record"
       /\ processed' = processed \cup {e}
       /\ dead' = [dead EXCEPT ![e] = IF @ = "PENDING" THEN "RESOLVED" ELSE @]
       /\ Leave(o)
       /\ UNCHANGED <<relayVars, streamVars, consumer, posted, faults>>

\* markResolved and discard update the row by its id alone.
Decide(o) ==
    /\ operator[o].at \in {"resolve", "discard"}
    /\ dead' = [dead EXCEPT ![operator[o].event] =
                  IF operator[o].at = "resolve" THEN "RESOLVED" ELSE "DISCARDED"]
    /\ Leave(o)
    /\ UNCHANGED <<relayVars, streamVars, consumer, processed, posted, faults>>

\* The handler fails again, or the call does.
GiveUp(o) ==
    /\ operator[o] # Away
    /\ Leave(o)
    /\ UNCHANGED <<relayVars, streamVars, consumer, tables, faults>>

-----------------------------------------------------------------------------
Init ==
    /\ outbox = [e \in Events |-> "absent"]
    /\ relay = [r \in Relays |-> Resting]
    /\ stream = <<>> /\ trimmed = 0 /\ read = 0
    /\ consumer = [c \in Consumers |-> Polling]
    /\ processed = {}
    /\ posted = [e \in Events |-> 0]
    /\ dead = [e \in Events |-> "none"]
    /\ operator = [o \in Operators |-> Away]
    /\ faults = 0

RelayStep(r) == Claim(r) \/ Settle(r) \/ \E e \in Events : XAdd(r, e)

\* What a consumer does by itself; the handler may fail instead.
ConsumerStep(c) ==
    \/ \E idle \in SUBSET Pending : ListPending(c, idle)
    \/ \E item \in consumer[c].todo :
          SkipEntry(c, item) \/ ClaimEntry(c, item) \/ TakeFresh(c, item)
    \/ ReadNew(c)
    \/ Check(c) \/ Handle(c) \/ Insert(c) \/ Mark(c) \/ Ack(c) \/ Fail(c) \/ Bury(c)

OperatorStep(o) ==
    \/ \E e \in Events, what \in {"replay", "resolve", "discard"} : Open(o, e, what)
    \/ ReplayCheck(o) \/ ReplayHandle(o) \/ ReplayInsert(o) \/ ReplayRecord(o)
    \/ Decide(o) \/ GiveUp(o)

Next ==
    \/ \E e \in Events : Commit(e) \/ Wake(e)
    \/ \E r \in Relays : RelayStep(r) \/ RelayCrash(r) \/ \E e \in Events : XAddFails(r, e)
    \/ \E c \in Consumers : ConsumerStep(c) \/ ConsumerCrash(c)
    \/ \E o \in Operators : OperatorStep(o)

Spec == Init /\ [][Next]_vars

\* The loops of the relay and the consumers run, backoffs end, and an entry
\* that stays pending is old enough for XPENDING IDLE one day.
Fairness ==
    /\ \A e \in Events : WF_vars(Wake(e))
    /\ \A r \in Relays : WF_vars(RelayStep(r))
    /\ \A c \in Consumers : WF_vars(ConsumerStep(c))
    /\ \A c \in Consumers : SF_vars(ListPending(c, Oldest))

FairSpec == Spec /\ Fairness

-----------------------------------------------------------------------------
(* Properties *)

Batch == [claimed : SUBSET Events, todo : SUBSET Events, failed : BOOLEAN]
Listed(n) == [entry : 1 .. n, count : Nat]
Member(n) == [loop : {"reclaim", "fresh"},
              at : {"next", "check", "handle", "insert", "mark", "ack", "bury"},
              todo : SUBSET Listed(n),
              item : {NoItem} \cup Listed(n)]
Visit == [at : {"replay", "handle", "insert", "record", "resolve", "discard"}, event : Events]

\* Types; an entry on the way was delivered, a member that is at work has one.
TypeOK ==
    /\ outbox \in [Events -> {"absent", "due", "resting", "published"}]
    /\ relay \in [Relays -> Batch]
    /\ stream \in Seq([event : Events, tries : Nat, acked : BOOLEAN])
    /\ trimmed \in Nat /\ read \in 0 .. Len(stream)
    /\ consumer \in [Consumers -> Member(read)]
    /\ \A c \in Consumers : consumer[c].at = "next" <=> consumer[c].item = NoItem
    /\ processed \subseteq Events
    /\ posted \in [Events -> Nat]
    /\ dead \in [Events -> {"none", "PENDING", "RESOLVED", "DISCARDED"}]
    /\ operator \in [Operators -> {Away} \cup Visit]
    /\ faults \in 0 .. MaxFaults

\* An entry of e that the group may still get to.
InFlight(e) ==
    \E i \in trimmed + 1 .. Len(stream) : stream[i].event = e /\ ~stream[i].acked

\* The relay forgets an event only once the stream has it, and the group lets
\* go of an entry only when its effect is recorded or an operator can see it:
\* whatever crashes, is retried, stolen from a slow member or added twice.
NothingLost ==
    \A e \in Events :
        outbox[e] = "published" => InFlight(e) \/ e \in processed \/ dead[e] # "none"

\* processed_events never claims an effect that is not there: what it holds was
\* posted, and both ways in, the group's and the replay's, post at most once.
ProcessedIsPostedOnce ==
    \A e \in Events : posted[e] <= 1 /\ (e \in processed => posted[e] = 1)

\* What EventDelivery implements.
Promise == INSTANCE Delivery WITH
    committed <- {e \in Events : outbox[e] # "absent"},
    applied   <- {e \in Events : posted[e] > 0},
    reported  <- {e \in Events : dead[e] # "none"}

\* Every committed event is posted or, in the end, in the dead-letter queue.
ImplementsPromise == Promise!Spec

-----------------------------------------------------------------------------
(* What the repository says of the program and the code does not do *)

\* docs/03-event-storming.md, 2.3: the events of one aggregate are published in
\* order, each for the first time after those before it.
PublishedInOrder ==
    \A i \in DOMAIN stream, e \in Events :
        e < stream[i].event => \E j \in 1 .. i : stream[j].event = e

\* DeadLetterService: discard accepts that this event will never be processed.
DiscardedIsNeverProcessed ==
    \A e \in Events : dead[e] = "DISCARDED" => e \notin processed
=============================================================================
