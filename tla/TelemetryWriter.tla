--------------------------- MODULE TelemetryWriter ---------------------------
(***************************************************************************)
(* The batched writer of GPS positions in one process of the API.  Ingest  *)
(* buffers and returns; flushes, started by a timer, by a full buffer or   *)
(* by the shutdown, take the whole buffer and write it, one transaction    *)
(* per tenant.  The process is single-threaded: a step is what runs        *)
(* between two awaits.  Positions are numbered as they arrive.             *)
(***************************************************************************)
EXTENDS Integers, FiniteSets

CONSTANTS
    Flushers,       \* bound: calls of flush under way at once
    Shutdown,       \* the call of flush that the shutdown makes
    Tenants,
    FlushRows,      \* TELEMETRY_FLUSH_ROWS
    MaxRows,        \* TELEMETRY_BUFFER_MAX_ROWS
    MaxUpload,       \* bound: positions of one upload
    MaxPositions,   \* bound: positions uploaded
    TenantOf        \* TenantOf[n]: the tenant of position n

ASSUME WriterAssumption ==
    /\ Shutdown \in Flushers
    /\ FlushRows \in Nat \ {0} /\ MaxRows \in Nat \ {0}
    /\ MaxUpload \in Nat /\ MaxPositions \in Nat
    /\ TenantOf \in [1..MaxPositions -> Tenants]

VARIABLES
    arrived,        \* how many positions arrived
    buffer,         \* the positions buffered
    flushing,       \* the positions of the write in flight
    inFlight,       \* whether a write is in flight
    written, dropped, failed,
    timer,          \* whether the flush timer is set
    shuttingDown,
    pc,             \* pc[f]: "idle", "loop", "awaiting" or "returned"
    due             \* due[f]: what was unwritten when f was called, and then
                    \* what it left behind when it returned

outcome == <<written, dropped, failed>>
writerVars ==
    <<arrived, buffer, flushing, inFlight, outcome, timer, shuttingDown, pc, due>>

\* The calls that can be made: a call that returned can be made again.
CanCall(f) == f # Shutdown /\ pc[f] \in {"idle", "returned"}

Call(f, unwritten) ==
    /\ pc' = [pc EXCEPT ![f] = "loop"]
    /\ due' = [due EXCEPT ![f] = unwritten]

NoMoreCalls == UNCHANGED <<pc, due>>

ShedMutant(full) ==
    {n \in full : Cardinality({m \in full : m < n}) >= MaxRows}

\* The oldest beyond the high-water mark.
Shed(full) == {n \in full : Cardinality({m \in full : m > n}) >= MaxRows}

ScheduleFlush == timer' = (timer \/ ~shuttingDown)

\* One more call of flush; where all are taken it would wait with the others.
CallFlush(unwritten) ==
    \/ \E f \in Flushers : CanCall(f) /\ Call(f, unwritten)
    \/ (\A f \in Flushers : ~CanCall(f)) /\ NoMoreCalls

\* A full buffer starts a flush, any other sets the timer.
Enqueue(n) ==
    LET new == (arrived + 1)..(arrived + n)
        full == buffer \cup new
        kept == full \ Shed(full)
    IN /\ arrived + n <= MaxPositions
       /\ \E t \in Tenants : \A m \in new : TenantOf[m] = t
       /\ arrived' = arrived + n
       /\ buffer' = kept
       /\ dropped' = dropped \cup Shed(full)
       /\ IF Cardinality(kept) >= FlushRows
          THEN CallFlush(kept \cup flushing) /\ UNCHANGED timer
          ELSE ScheduleFlush /\ NoMoreCalls
       /\ UNCHANGED <<flushing, inFlight, written, failed, shuttingDown>>

TimerFires(f) ==
    /\ timer /\ CanCall(f)
    /\ timer' = FALSE
    /\ Call(f, buffer \cup flushing)
    /\ UNCHANGED <<arrived, buffer, flushing, inFlight, outcome, shuttingDown>>

OnShutdown ==
    /\ ~shuttingDown
    /\ shuttingDown' = TRUE /\ timer' = FALSE
    /\ Call(Shutdown, buffer \cup flushing)
    /\ UNCHANGED <<arrived, buffer, flushing, inFlight, outcome>>

\* A call that finds a write in flight waits for it and looks again.
Await(f) ==
    /\ pc[f] = "loop" /\ inFlight
    /\ pc' = [pc EXCEPT ![f] = "awaiting"]
    /\ UNCHANGED <<arrived, buffer, flushing, inFlight, outcome, timer,
                   shuttingDown, due>>

MayReturnMutant == buffer = {}

\* No write in flight and nothing buffered, never either one alone.
MayReturn == ~inFlight /\ buffer = {}

Return(f) ==
    /\ pc[f] = "loop" /\ MayReturn
    /\ pc' = [pc EXCEPT ![f] = "returned"]
    /\ due' = [due EXCEPT ![f] = @ \ (written \cup dropped \cup failed)]
    /\ UNCHANGED <<arrived, buffer, flushing, inFlight, outcome, timer, shuttingDown>>

MayDrainMutant == buffer # {}

MayDrain == ~inFlight /\ buffer # {}

\* drain takes the whole buffer and clears the timer.
Drain(f) ==
    /\ pc[f] = "loop" /\ MayDrain
    /\ flushing' = buffer /\ buffer' = {} /\ inFlight' = TRUE
    /\ timer' = FALSE
    /\ pc' = [pc EXCEPT ![f] = "awaiting"]
    /\ UNCHANGED <<arrived, outcome, shuttingDown, due>>

Group(t) == {n \in flushing : TenantOf[n] = t}

\* One tenant's rows are written, or fail and are not buffered again.
WriteGroup(t) ==
    /\ Group(t) # {}
    /\ flushing' = flushing \ Group(t)
    /\ \/ written' = written \cup Group(t) /\ UNCHANGED failed
       \/ failed' = failed \cup Group(t) /\ UNCHANGED written
    /\ UNCHANGED <<arrived, buffer, inFlight, dropped, timer, shuttingDown, pc, due>>

WriteEndsMutant ==
    /\ inFlight /\ flushing = {}
    /\ inFlight' = FALSE
    /\ pc' = [f \in Flushers |-> IF pc[f] = "awaiting" THEN "returned" ELSE pc[f]]
    /\ UNCHANGED <<arrived, buffer, flushing, outcome, timer, shuttingDown, due>>

\* The promise settles; all who await it go on, in any order.
WriteEnds ==
    /\ inFlight /\ flushing = {}
    /\ inFlight' = FALSE
    /\ pc' = [f \in Flushers |-> IF pc[f] = "awaiting" THEN "loop" ELSE pc[f]]
    /\ UNCHANGED <<arrived, buffer, flushing, outcome, timer, shuttingDown, due>>

WriterInit ==
    /\ arrived = 0
    /\ buffer = {} /\ flushing = {} /\ inFlight = FALSE
    /\ written = {} /\ dropped = {} /\ failed = {}
    /\ timer = FALSE /\ shuttingDown = FALSE
    /\ pc = [f \in Flushers |-> "idle"]
    /\ due = [f \in Flushers |-> {}]

FlusherStep(f) == Await(f) \/ Return(f) \/ Drain(f)

WriterNext ==
    \/ \E n \in 1..MaxUpload : Enqueue(n)
    \/ \E f \in Flushers : TimerFires(f) \/ FlusherStep(f)
    \/ OnShutdown
    \/ \E t \in Tenants : WriteGroup(t)
    \/ WriteEnds

WriterSafety == WriterInit /\ [][WriterNext]_writerVars

\* Promises resume, timers fire and the database answers, for good or bad.
WriterFairness ==
    /\ \A f \in Flushers : WF_writerVars(FlusherStep(f))
    /\ WF_writerVars(\E f \in Flushers : TimerFires(f))
    /\ WF_writerVars(WriteEnds \/ \E t \in Tenants : WriteGroup(t))

WriterSpec == WriterSafety /\ WriterFairness

-----------------------------------------------------------------------------
(* Properties *)

\* Positions are known numbers, calls are in one of their places, and a call
\* awaits only while a write is in flight.
WriterTypeOK ==
    /\ arrived \in 0..MaxPositions
    /\ buffer \cup flushing \cup written \cup dropped \cup failed \subseteq 1..arrived
    /\ inFlight \in BOOLEAN /\ timer \in BOOLEAN /\ shuttingDown \in BOOLEAN
    /\ pc \in [Flushers -> {"idle", "loop", "awaiting", "returned"}]
    /\ due \in [Flushers -> SUBSET (1..arrived)]

\* A position is in exactly one place: buffered, in flight, or at its outcome.
\* Whatever flushes run, none is lost in memory and none is written twice.
NothingSlips ==
    /\ 1..arrived = buffer \cup flushing \cup written \cup dropped \cup failed
    /\ buffer \cap flushing = {}
    /\ (buffer \cup flushing) \cap (written \cup dropped \cup failed) = {}
    /\ written \cap (dropped \cup failed) = {}
    /\ dropped \cap failed = {}

\* A flush that returned has seen an outcome for everything that waited when it
\* was called (telemetry-writer.ts, "an empty buffer is not enough either"): a
\* shutdown does not discard the last second of every trail.
FlushDrains ==
    \A f \in Flushers : pc[f] = "returned" => due[f] = {}

\* What is shed is older than what is kept, written or not yet shed.
FreshestAreKept ==
    /\ Cardinality(buffer) <= MaxRows
    /\ \A n \in dropped, m \in buffer : n < m

\* Until the shutdown the buffer is emptied again and again, whole each time, so
\* that no position that was accepted waits for ever.
EverythingIsFlushed == []<>(buffer = {} \/ shuttingDown)
=============================================================================
