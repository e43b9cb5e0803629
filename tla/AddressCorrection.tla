------------------------- MODULE AddressCorrection -------------------------
(***************************************************************************)
(* The pin of an address and the drivers who move it                       *)
(* (AddressCorrectionService, AddressService).  A phone observes a pin at  *)
(* its own time and sends it whenever it is online, perhaps again, so the  *)
(* order of arrival is not the order of observation; a large move waits    *)
(* for a reviewer while other corrections arrive.  Every call holds the    *)
(* row lock of the address from before it decides to its commit, hence one *)
(* action per call.                                                        *)
(* Which addresses a login reaches is row-level security and left out.     *)
(***************************************************************************)
EXTENDS Integers, Sequences

CONSTANTS
    Addresses,
    People,      \* logins that correct, review, or both
    Keys,        \* idempotency keys that the phones make up
    Places,      \* coordinates
    NoPin,       \* SQL NULL in the column `location`
    Far(_, _),   \* Far(p, q): more than CORRECTION_REVIEW_DISTANCE_M apart
    ClockSkew,   \* DEVICE_CLOCK_SKEW_MS
    MaxTime      \* bound: how far the server's clock runs

ASSUME CorrectionAssumption ==
    /\ NoPin \notin Places
    /\ \A p, q \in Places : Far(p, q) \in BOOLEAN
    /\ ClockSkew \in Nat /\ MaxTime \in Nat \ {0}

VARIABLES
    pin,          \* pin[a]: location and location_observed_at, Never when NULL
    corrections,  \* the rows of address_corrections by their unique key
    moves,        \* moves[a]: the address.geocode_corrected events of a
    clock         \* the server's time

correctionVars == <<pin, corrections, moves, clock>>

-----------------------------------------------------------------------------
(* Rows *)

Never == 0
Times == 1 .. MaxTime

Decisions == {"APPLIED", "PENDING_REVIEW", "APPROVED", "REJECTED", "SUPERSEDED"}
Taken == {"APPLIED", "APPROVED"}

Pin == [location : Places \cup {NoPin}, observed : Times \cup {Never}]
Correction == [address : Addresses, by : People, from : Places \cup {NoPin}, to : Places,
               at : Times, status : Decisions]
Move == [key : Keys, from : Places \cup {NoPin}, to : Places]

\* address_corrections_tenant_idempotency_uq: one row per key.
Tables == UNION {[K -> Correction] : K \in SUBSET Keys}

Used == DOMAIN corrections

-----------------------------------------------------------------------------
(* Rules *)

\* resolveDeviceTime: what is recorded for a phone that says `device`.
RecordedAt(device) == IF device > clock THEN clock ELSE device

OvertakenMutant(a, at) == FALSE

\* The address already carries a pin that was observed then or later.
Overtaken(a, at) == pin[a].observed # Never /\ at <= pin[a].observed

\* decide: what becomes of a new correction.
Decide(a, to, at) ==
    CASE Overtaken(a, at) -> "SUPERSEDED"
      [] ~Overtaken(a, at) /\ pin[a].location # NoPin /\ Far(pin[a].location, to) ->
            "PENDING_REVIEW"
      [] OTHER -> "APPLIED"

\* applyPin: the address and the event that announces it.
ApplyPin(a, key, to, at) ==
    /\ pin' = [pin EXCEPT ![a] = [location |-> to, observed |-> at]]
    /\ moves' = [moves EXCEPT ![a] =
                    Append(@, [key |-> key, from |-> pin[a].location, to |-> to])]

LeavePin == UNCHANGED <<pin, moves>>

\* assertReviewable, of a correction that is there.
Reviewable(key, reviewer) ==
    /\ key \in Used
    /\ corrections[key].status = "PENDING_REVIEW"
    /\ corrections[key].by # reviewer

-----------------------------------------------------------------------------
(* Calls *)

\* submit.  A key that was used before is a replay or an error, and neither
\* changes anything; so is a phone whose clock is far ahead.
Submit(key, by, a, to, device) ==
    LET at     == RecordedAt(device)
        status == Decide(a, to, at)
        fresh  == [address |-> a, by |-> by, from |-> pin[a].location, to |-> to,
                   at |-> at, status |-> status]
    IN /\ key \notin Used
       /\ device <= clock + ClockSkew
       /\ corrections' = [k \in Used \cup {key} |-> IF k = key THEN fresh ELSE corrections[k]]
       /\ IF status = "APPLIED" THEN ApplyPin(a, key, to, at) ELSE LeavePin
       /\ UNCHANGED clock

\* approve, while no newer pin was set.
Approve(key, reviewer) ==
    /\ Reviewable(key, reviewer)
    /\ LET c == corrections[key]
       IN /\ ~Overtaken(c.address, c.at)
          /\ ApplyPin(c.address, key, c.to, c.at)
    /\ corrections' = [corrections EXCEPT ![key].status = "APPROVED"]
    /\ UNCHANGED clock

\* approve, when the correction was overtaken while it waited.
ApproveTooLate(key, reviewer) ==
    /\ Reviewable(key, reviewer)
    /\ Overtaken(corrections[key].address, corrections[key].at)
    /\ corrections' = [corrections EXCEPT ![key].status = "SUPERSEDED"]
    /\ LeavePin
    /\ UNCHANGED clock

Reject(key, reviewer) ==
    /\ Reviewable(key, reviewer)
    /\ corrections' = [corrections EXCEPT ![key].status = "REJECTED"]
    /\ LeavePin
    /\ UNCHANGED clock

\* Time passes at the server.
Tick ==
    /\ clock < MaxTime
    /\ clock' = clock + 1
    /\ UNCHANGED <<pin, corrections, moves>>

-----------------------------------------------------------------------------
\* resolve inserts an address with a pin placed by hand or by the geocoder, or
\* with none; no other code writes the two columns.
CorrectionInit ==
    /\ pin \in [Addresses -> {[location |-> p, observed |-> Never] :
                                 p \in Places \cup {NoPin}}]
    /\ corrections = <<>>
    /\ moves = [a \in Addresses |-> <<>>]
    /\ clock = 1

CorrectionNext ==
    \/ \E key \in Keys, by \in People, a \in Addresses, to \in Places,
          device \in 1 .. (MaxTime + ClockSkew) : Submit(key, by, a, to, device)
    \/ \E key \in Keys, reviewer \in People : Approve(key, reviewer)
    \/ \E key \in Keys, reviewer \in People : ApproveTooLate(key, reviewer)
    \/ \E key \in Keys, reviewer \in People : Reject(key, reviewer)
    \/ Tick

CorrectionSpec == CorrectionInit /\ [][CorrectionNext]_correctionVars

-----------------------------------------------------------------------------
(* Properties *)

\* Types of the rows, the events and the clock.
CorrectionTypeOK ==
    /\ pin \in [Addresses -> Pin]
    /\ corrections \in Tables
    /\ moves \in [Addresses -> Seq(Move)]
    /\ clock \in Times

\* The events of an address lead from pin to pin, forward in the time at which
\* the pins were observed, to the pin it has: who follows them has that pin.
EventsLeadToThePin(a) ==
    LET n == Len(moves[a])
        m == moves[a]
    IN /\ \A i \in 2 .. n :
             /\ m[i].from = m[i - 1].to
             /\ corrections[m[i - 1].key].at < corrections[m[i].key].at
       /\ n = 0 => pin[a].observed = Never
       /\ n # 0 => pin[a] = [location |-> m[n].to, observed |-> corrections[m[n].key].at]

\* A correction moved the pin exactly when it was applied or approved, and one
\* that nobody reviewed moved it less than two kilometres.
OnlyTheTakenMoved(a) ==
    /\ \A i \in DOMAIN moves[a] :
          LET move == moves[a][i]
              c    == corrections[move.key]
          IN /\ c.address = a /\ c.to = move.to /\ c.status \in Taken
             /\ c.status = "APPLIED" /\ move.from # NoPin => ~Far(move.from, move.to)
    /\ \A key \in Used : corrections[key].address = a /\ corrections[key].status \in Taken =>
          \E i \in DOMAIN moves[a] : moves[a][i].key = key

\* No pin was observed later than the one the address has, but for those that
\* wait for a reviewer or were refused by one; none lies in the future, where
\* it would outrank what is yet to come.
NothingNewerPassedOver(a) ==
    /\ pin[a].observed <= clock
    /\ \A key \in Used :
          /\ corrections[key].address = a
          /\ corrections[key].status \in Taken \cup {"SUPERSEDED"}
          => corrections[key].at <= pin[a].observed

\* AddressCorrectionService, "the older fix must never put back a pin someone
\* has since corrected": in whatever order phones come online, send again and
\* are reviewed, an address has the newest pin that was taken.
PinIsTheNewest ==
    \A a \in Addresses :
        EventsLeadToThePin(a) /\ OnlyTheTakenMoved(a) /\ NothingNewerPassedOver(a)
=============================================================================
