----------------------- MODULE AddressCorrectionProofs -----------------------
(***************************************************************************)
(* An address has the newest pin that was taken: for any addresses,        *)
(* people, keys and places, in whatever order corrections arrive and are   *)
(* reviewed.                                                               *)
(***************************************************************************)
EXTENDS AddressCorrection, TLAPS

-----------------------------------------------------------------------------
(* The inductive invariant *)

\* The events name corrections that are there.
EventsAreOfCorrections ==
    \A a \in Addresses : \A i \in DOMAIN moves[a] : moves[a][i].key \in Used

\* A correction that still waits for its reviewer is not from the future either.
ObservedByNow == \A key \in Used : corrections[key].at <= clock

IInv == CorrectionTypeOK /\ EventsAreOfCorrections /\ ObservedByNow /\ PinIsTheNewest

\* The next rows: the ones there are, but for that of `key`, which is c.
Writes(key, c) ==
    /\ corrections' \in Tables
    /\ DOMAIN corrections' = Used \cup {key}
    /\ corrections'[key] = c
    /\ \A k \in Used \ {key} : corrections'[k] = corrections[k]

\* A correction that has not moved a pin: there is none of that key, or it
\* waits for a reviewer.
Undecided(key) == key \in Used => corrections[key].status = "PENDING_REVIEW"

-----------------------------------------------------------------------------
(* Writing a row *)

\* The rows are a function on the keys that were used.
LEMMA TablesAreFunctions ==
    ASSUME NEW f
    PROVE  f \in Tables <=> /\ DOMAIN f \subseteq Keys
                            /\ f \in [DOMAIN f -> Correction]
  BY DEF Tables

\* submit inserts a row.
LEMMA InsertWrites ==
    ASSUME CorrectionTypeOK, NEW key \in Keys, NEW c \in Correction, key \notin Used,
           corrections' = [k \in Used \cup {key} |-> IF k = key THEN c ELSE corrections[k]]
    PROVE  Writes(key, c)
  <1>1. Used \subseteq Keys /\ corrections \in [Used -> Correction]
    BY TablesAreFunctions DEF CorrectionTypeOK, Used
  <1>2. corrections' \in [Used \cup {key} -> Correction]
    BY <1>1
  <1>3. corrections' \in Tables
    BY <1>1, <1>2, TablesAreFunctions
  <1> QED
    BY <1>2, <1>3 DEF Writes

\* A review changes the status of a row.
LEMMA ReviewWrites ==
    ASSUME CorrectionTypeOK, NEW key \in Used, NEW status \in Decisions,
           corrections' = [corrections EXCEPT ![key].status = status]
    PROVE  Writes(key, [corrections[key] EXCEPT !.status = status])
  <1> DEFINE c == [corrections[key] EXCEPT !.status = status]
  <1>1. Used \subseteq Keys /\ corrections \in [Used -> Correction]
    BY TablesAreFunctions DEF CorrectionTypeOK, Used
  <1>2. c \in Correction
    BY <1>1 DEF Correction
  <1>3. corrections' = [corrections EXCEPT ![key] = c]
    BY <1>1
  <1> HIDE DEF c
  <1>4. corrections' \in [Used -> Correction] /\ corrections'[key] = c
    BY <1>1, <1>2, <1>3
  <1>5. corrections' \in Tables
    BY <1>1, <1>4, TablesAreFunctions
  <1>6. DOMAIN corrections' = Used \cup {key}
    BY <1>4
  <1>7. \A k \in Used \ {key} : corrections'[k] = corrections[k]
    BY <1>1, <1>3
  <1>8. Writes(key, c)
    BY <1>4, <1>5, <1>6, <1>7 DEF Writes
  <1> QED
    BY <1>8 DEF c

\* What an event was made of stays: its correction was taken, and the one that
\* is written was not.
LEMMA EventsKeepTheirCorrections ==
    ASSUME IInv, NEW key \in Keys, NEW c \in Correction, Undecided(key), Writes(key, c),
           NEW a \in Addresses, NEW i \in DOMAIN moves[a]
    PROVE  /\ moves[a][i].key \in Used /\ moves[a][i].key # key
           /\ corrections'[moves[a][i].key] = corrections[moves[a][i].key]
  <1> DEFINE k == moves[a][i].key
  <1>1. k \in Used
    BY DEF IInv, EventsAreOfCorrections
  <1>2. corrections[k].status \in Taken
    BY DEF IInv, PinIsTheNewest, OnlyTheTakenMoved
  <1>3. k # key
    BY <1>1, <1>2 DEF Undecided, Taken
  <1> QED
    BY <1>1, <1>3 DEF Writes

-----------------------------------------------------------------------------
(* A correction that is not taken *)

\* The pin and its events stay, and so does the invariant.
LEMMA HeldKeepsInvariant ==
    ASSUME IInv, NEW key \in Keys, NEW c \in Correction, Undecided(key), Writes(key, c),
           LeavePin, UNCHANGED clock,
           c.status \notin Taken, c.at <= clock,
           c.status = "SUPERSEDED" => c.at <= pin[c.address].observed
    PROVE  IInv'
  <1>1. CorrectionTypeOK'
    BY DEF IInv, CorrectionTypeOK, Writes, LeavePin
  <1>2. /\ Used' = Used \cup {key}
        /\ pin' = pin /\ moves' = moves /\ clock' = clock
    BY DEF Writes, Used, LeavePin
  <1>3. EventsAreOfCorrections'
    BY <1>2, EventsKeepTheirCorrections DEF EventsAreOfCorrections
  <1>5. ObservedByNow'
    BY <1>2 DEF IInv, ObservedByNow, Writes
  <1>4. ASSUME NEW a \in Addresses
        PROVE  (EventsLeadToThePin(a) /\ OnlyTheTakenMoved(a) /\ NothingNewerPassedOver(a))'
    <2>1. /\ EventsLeadToThePin(a) /\ OnlyTheTakenMoved(a) /\ NothingNewerPassedOver(a)
          /\ moves[a] \in Seq(Move)
      BY DEF IInv, PinIsTheNewest, CorrectionTypeOK
    <2>2. \A i \in DOMAIN moves[a] :
             /\ moves[a][i].key \in Used /\ moves[a][i].key # key
             /\ corrections'[moves[a][i].key] = corrections[moves[a][i].key]
      BY EventsKeepTheirCorrections
    <2>3. EventsLeadToThePin(a)'
      <3>1. \A i \in 2 .. Len(moves[a]) : i \in DOMAIN moves[a] /\ i - 1 \in DOMAIN moves[a]
        BY <2>1
      <3>2. Len(moves[a]) # 0 => Len(moves[a]) \in DOMAIN moves[a]
        BY <2>1
      <3> QED
        BY <1>2, <2>1, <2>2, <3>1, <3>2 DEF EventsLeadToThePin
    <2>4. OnlyTheTakenMoved(a)'
      <3>1. \A k \in Used' : corrections'[k].status \in Taken => k \in Used \ {key}
        BY <1>2 DEF Writes
      <3> QED
        BY <1>2, <2>1, <2>2, <3>1 DEF OnlyTheTakenMoved, Writes
    <2>5. NothingNewerPassedOver(a)'
      <3>1. pin'[a].observed <= clock'
        BY <1>2, <2>1 DEF NothingNewerPassedOver
      <3>2. ASSUME NEW k \in Used', corrections'[k].address = a,
                   corrections'[k].status \in Taken \cup {"SUPERSEDED"}
            PROVE  corrections'[k].at <= pin'[a].observed
        <4>1. CASE k = key
          BY <1>2, <3>2, <4>1 DEF Writes
        <4>2. CASE k # key
          BY <1>2, <2>1, <3>2, <4>2 DEF Writes, NothingNewerPassedOver
        <4> QED
          BY <4>1, <4>2
      <3> QED
        BY <3>1, <3>2 DEF NothingNewerPassedOver
    <2> QED
      BY <2>3, <2>4, <2>5
  <1> QED
    BY <1>1, <1>3, <1>4, <1>5 DEF IInv, PinIsTheNewest

-----------------------------------------------------------------------------
(* A correction that is taken *)

\* It is newer than the pin, so its event ends the chain.
LEMMA TakenKeepsInvariant ==
    ASSUME IInv, NEW key \in Keys, NEW c \in Correction, Undecided(key), Writes(key, c),
           ApplyPin(c.address, key, c.to, c.at), UNCHANGED clock,
           c.status \in Taken, c.at <= clock, ~Overtaken(c.address, c.at),
           c.status = "APPLIED" /\ pin[c.address].location # NoPin
               => ~Far(pin[c.address].location, c.to)
    PROVE  IInv'
  <1> DEFINE b == c.address
             event == [key |-> key, from |-> pin[b].location, to |-> c.to]
             there == [location |-> c.to, observed |-> c.at]
  <1>1. /\ b \in Addresses /\ c.to \in Places /\ c.at \in Times
        /\ pin[b] \in Pin /\ moves[b] \in Seq(Move) /\ clock \in Times
    BY DEF IInv, CorrectionTypeOK, Correction
  <1>2. event \in Move /\ there \in Pin
    BY <1>1 DEF Move, Pin
  <1>3. /\ pin' = [pin EXCEPT ![b] = there]
        /\ moves' = [moves EXCEPT ![b] = Append(@, event)]
        /\ clock' = clock
        /\ Used' = Used \cup {key}
    BY DEF ApplyPin, Writes, Used
  <1>4. pin[b].observed < c.at
    BY <1>1 DEF Overtaken, Never, Times, Pin
  <1> HIDE DEF event, there
  <1>5. /\ pin'[b] = there /\ moves'[b] = Append(moves[b], event)
        /\ \A a \in Addresses \ {b} : pin'[a] = pin[a] /\ moves'[a] = moves[a]
    BY <1>1, <1>3 DEF IInv, CorrectionTypeOK
  <1>6. CorrectionTypeOK'
    <2>1. pin' \in [Addresses -> Pin]
      BY <1>2, <1>3 DEF IInv, CorrectionTypeOK
    <2>2. Append(moves[b], event) \in Seq(Move)
      BY <1>1, <1>2
    <2>3. moves' \in [Addresses -> Seq(Move)]
      BY <1>3, <2>2 DEF IInv, CorrectionTypeOK
    <2> QED
      BY <1>1, <1>3, <2>1, <2>3 DEF CorrectionTypeOK, Writes
  <1>7. EventsAreOfCorrections'
    <2>1. ASSUME NEW a \in Addresses, NEW i \in DOMAIN moves'[a]
          PROVE  moves'[a][i].key \in Used'
      <3>1. CASE a # b
        BY <1>3, <1>5, <3>1, EventsKeepTheirCorrections
      <3>2. CASE a = b /\ i = Len(moves[b]) + 1
        BY <1>1, <1>2, <1>3, <1>5, <3>2 DEF event
      <3>3. CASE a = b /\ i # Len(moves[b]) + 1
        <4>1. i \in DOMAIN moves[b] /\ moves'[b][i] = moves[b][i]
          BY <1>1, <1>2, <1>5, <3>3
        <4> QED
          BY <1>1, <1>3, <3>3, <4>1, EventsKeepTheirCorrections
      <3> QED
        BY <3>1, <3>2, <3>3
    <2> QED
      BY <2>1 DEF EventsAreOfCorrections
  <1>10. ObservedByNow'
    BY <1>3 DEF IInv, ObservedByNow, Writes
  \* Addresses that the correction is not about.
  <1>8. ASSUME NEW a \in Addresses, a # b
        PROVE  (EventsLeadToThePin(a) /\ OnlyTheTakenMoved(a) /\ NothingNewerPassedOver(a))'
    <2>1. /\ EventsLeadToThePin(a) /\ OnlyTheTakenMoved(a) /\ NothingNewerPassedOver(a)
          /\ moves[a] \in Seq(Move)
      BY DEF IInv, PinIsTheNewest, CorrectionTypeOK
    <2>2. \A i \in DOMAIN moves[a] :
             /\ moves[a][i].key \in Used /\ moves[a][i].key # key
             /\ corrections'[moves[a][i].key] = corrections[moves[a][i].key]
      BY EventsKeepTheirCorrections
    <2>3. pin'[a] = pin[a] /\ moves'[a] = moves[a]
      BY <1>5, <1>8
    <2>4. \A k \in Used' : corrections'[k].address = a =>
             k \in Used /\ corrections'[k] = corrections[k]
      BY <1>3, <1>8 DEF Writes
    <2>5. EventsLeadToThePin(a)'
      <3>1. \A i \in 2 .. Len(moves[a]) : i \in DOMAIN moves[a] /\ i - 1 \in DOMAIN moves[a]
        BY <2>1
      <3>2. Len(moves[a]) # 0 => Len(moves[a]) \in DOMAIN moves[a]
        BY <2>1
      <3> QED
        BY <2>1, <2>2, <2>3, <3>1, <3>2 DEF EventsLeadToThePin
    <2>6. OnlyTheTakenMoved(a)'
      BY <2>1, <2>2, <2>3, <2>4 DEF OnlyTheTakenMoved
    <2>7. NothingNewerPassedOver(a)'
      BY <1>3, <2>1, <2>3, <2>4 DEF NothingNewerPassedOver
    <2> QED
      BY <2>5, <2>6, <2>7
  \* The address it moves.
  <1>9. (EventsLeadToThePin(b) /\ OnlyTheTakenMoved(b) /\ NothingNewerPassedOver(b))'
    <2> DEFINE n == Len(moves[b])
    <2>1. /\ EventsLeadToThePin(b) /\ OnlyTheTakenMoved(b) /\ NothingNewerPassedOver(b)
          /\ n \in Nat
      BY <1>1 DEF IInv, PinIsTheNewest
    <2>2. \A i \in DOMAIN moves[b] :
             /\ moves[b][i].key \in Used /\ moves[b][i].key # key
             /\ corrections'[moves[b][i].key] = corrections[moves[b][i].key]
      BY <1>1, EventsKeepTheirCorrections
    <2>3. /\ Len(moves'[b]) = n + 1 /\ DOMAIN moves'[b] = 1 .. n + 1 /\ DOMAIN moves[b] = 1 .. n
          /\ moves'[b][n + 1] = event
          /\ \A i \in 1 .. n : moves'[b][i] = moves[b][i]
      BY <1>1, <1>2, <1>5
    <2>4. /\ event.key = key /\ event.from = pin[b].location /\ event.to = c.to
          /\ there.location = c.to /\ there.observed = c.at
          /\ corrections'[key] = c
      BY DEF event, there, Writes
    <2>5. n # 0 => /\ pin[b].location = moves[b][n].to
                   /\ pin[b].observed = corrections[moves[b][n].key].at
      BY <2>1 DEF EventsLeadToThePin
    <2> HIDE DEF n
    <2>6. EventsLeadToThePin(b)'
      <3>1. ASSUME NEW i \in 2 .. n + 1
            PROVE  /\ moves'[b][i].from = moves'[b][i - 1].to
                   /\ corrections'[moves'[b][i - 1].key].at < corrections'[moves'[b][i].key].at
        <4>1. CASE i = n + 1
          <5>1. n # 0 /\ i - 1 = n /\ n \in 1 .. n
            BY <2>1, <4>1
          <5>2. moves'[b][n] = moves[b][n] /\ moves'[b][n + 1] = event
            BY <2>3, <5>1
          <5>3. corrections'[moves[b][n].key] = corrections[moves[b][n].key]
            BY <2>2, <2>3, <5>1
          <5>4. event.from = moves[b][n].to
            BY <2>4, <2>5, <5>1
          <5>5. corrections[moves[b][n].key].at < c.at
            BY <1>4, <2>5, <5>1
          <5>6. moves'[b][i] = event /\ moves'[b][i - 1] = moves[b][n]
            BY <4>1, <5>1, <5>2
          <5>7. corrections'[event.key].at = c.at
            BY <2>4
          <5> QED
            BY <5>3, <5>4, <5>5, <5>6, <5>7
        <4>2. CASE i # n + 1
          <5>1. i \in 2 .. n /\ i \in 1 .. n /\ i - 1 \in 1 .. n
            BY <2>1, <4>2
          <5>2. moves'[b][i] = moves[b][i] /\ moves'[b][i - 1] = moves[b][i - 1]
            BY <2>3, <5>1
          <5>3. /\ corrections'[moves[b][i].key] = corrections[moves[b][i].key]
                /\ corrections'[moves[b][i - 1].key] = corrections[moves[b][i - 1].key]
            BY <2>2, <2>3, <5>1
          <5>4. /\ moves[b][i].from = moves[b][i - 1].to
                /\ corrections[moves[b][i - 1].key].at < corrections[moves[b][i].key].at
            BY <2>1, <5>1 DEF EventsLeadToThePin, n
          <5> QED
            BY <5>2, <5>3, <5>4
        <4> QED
          BY <4>1, <4>2
      <3>2. Len(moves'[b]) # 0
        BY <2>1, <2>3
      <3>3. pin'[b] = [location |-> moves'[b][n + 1].to,
                       observed |-> corrections'[moves'[b][n + 1].key].at]
        BY <1>5, <2>3, <2>4 DEF there
      <3> QED
        BY <2>3, <3>1, <3>2, <3>3 DEF EventsLeadToThePin
    <2>7. OnlyTheTakenMoved(b)'
      <3>1. ASSUME NEW i \in 1 .. n + 1
            PROVE  LET move == moves'[b][i]
                       d    == corrections'[move.key]
                   IN /\ d.address = b /\ d.to = move.to /\ d.status \in Taken
                      /\ d.status = "APPLIED" /\ move.from # NoPin => ~Far(move.from, move.to)
        <4>1. CASE i = n + 1
          BY <2>3, <2>4, <4>1
        <4>2. CASE i # n + 1
          <5>1. i \in 1 .. n
            BY <2>1, <4>2
          <5>2. moves'[b][i] = moves[b][i] /\ i \in DOMAIN moves[b]
            BY <2>3, <5>1
          <5>3. corrections'[moves[b][i].key] = corrections[moves[b][i].key]
            BY <2>2, <5>2
          <5> QED
            BY <2>1, <5>2, <5>3 DEF OnlyTheTakenMoved
        <4> QED
          BY <4>1, <4>2
      <3>2. ASSUME NEW k \in Used', corrections'[k].address = b, corrections'[k].status \in Taken
            PROVE  \E i \in 1 .. n + 1 : moves'[b][i].key = k
        <4>1. CASE k = key
          BY <2>1, <2>3, <2>4, <4>1
        <4>2. CASE k # key
          <5>1. PICK i \in 1 .. n : moves[b][i].key = k
            BY <1>3, <2>1, <2>3, <3>2, <4>2 DEF OnlyTheTakenMoved, Writes
          <5> QED
            BY <2>1, <2>3, <5>1
        <4> QED
          BY <4>1, <4>2
      <3> QED
        BY <2>3, <3>1, <3>2 DEF OnlyTheTakenMoved
    <2>8. NothingNewerPassedOver(b)'
      <3>1. pin'[b].observed = c.at
        BY <1>5, <2>4
      <3>2. ASSUME NEW k \in Used', corrections'[k].address = b,
                   corrections'[k].status \in Taken \cup {"SUPERSEDED"}
            PROVE  corrections'[k].at <= c.at
        <4>1. CASE k = key
          BY <1>1, <2>4, <4>1 DEF Times
        <4>2. CASE k # key
          <5>1. k \in Used /\ corrections'[k] = corrections[k]
            BY <1>3, <4>2 DEF Writes
          <5>2. corrections[k].at <= pin[b].observed
            BY <2>1, <3>2, <5>1 DEF NothingNewerPassedOver
          <5>3. corrections[k].at \in Times
            BY <5>1, TablesAreFunctions DEF IInv, CorrectionTypeOK, Correction, Used
          <5> QED
            BY <1>1, <1>4, <5>1, <5>2, <5>3 DEF Times, Pin, Never
        <4> QED
          BY <4>1, <4>2
      <3> QED
        BY <1>3, <3>1, <3>2 DEF NothingNewerPassedOver
    <2> QED
      BY <2>6, <2>7, <2>8
  <1> QED
    BY <1>1, <1>6, <1>7, <1>8, <1>9, <1>10 DEF IInv, PinIsTheNewest

-----------------------------------------------------------------------------
(* The steps *)

LEMMA SubmitKeepsInvariant ==
    ASSUME IInv, NEW key \in Keys, NEW by \in People, NEW a \in Addresses, NEW to \in Places,
           NEW device \in 1 .. (MaxTime + ClockSkew), Submit(key, by, a, to, device)
    PROVE  IInv'
  <1> DEFINE at     == RecordedAt(device)
             status == Decide(a, to, at)
             c      == [address |-> a, by |-> by, from |-> pin[a].location, to |-> to,
                        at |-> at, status |-> status]
  <1>1. clock \in Times /\ pin[a] \in Pin /\ MaxTime \in Nat /\ ClockSkew \in Nat
    BY CorrectionAssumption DEF IInv, CorrectionTypeOK
  <1>2. at \in Times /\ at <= clock
    BY <1>1 DEF RecordedAt, Times
  <1> HIDE DEF at
  <1>3. \/ status = "SUPERSEDED" /\ Overtaken(a, at)
        \/ status = "PENDING_REVIEW"
        \/ /\ status = "APPLIED" /\ ~Overtaken(a, at)
           /\ pin[a].location # NoPin => ~Far(pin[a].location, to)
    BY DEF Decide
  <1> HIDE DEF status
  <1>4. c \in Correction
    BY <1>1, <1>2, <1>3 DEF Correction, Decisions, Pin
  <1>5. /\ c.address = a /\ c.to = to /\ c.at = at /\ c.status = status
    OBVIOUS
  <1>6. /\ key \notin Used
        /\ corrections' = [k \in Used \cup {key} |-> IF k = key THEN c ELSE corrections[k]]
        /\ IF status = "APPLIED" THEN ApplyPin(a, key, to, at) ELSE LeavePin
        /\ UNCHANGED clock
    BY DEF Submit, at, status
  <1> HIDE DEF c
  <1>7. Writes(key, c) /\ Undecided(key)
    BY <1>4, <1>6, InsertWrites DEF IInv, Undecided
  <1>8. CASE status = "APPLIED"
    BY <1>2, <1>3, <1>4, <1>5, <1>6, <1>7, <1>8, TakenKeepsInvariant DEF Taken
  <1>9. CASE status # "APPLIED"
    <2>1. c.status \notin Taken
      BY <1>3, <1>5, <1>9 DEF Taken
    <2>2. c.status = "SUPERSEDED" => c.at <= pin[c.address].observed
      BY <1>3, <1>5 DEF Overtaken
    <2> QED
      BY <1>2, <1>4, <1>5, <1>6, <1>7, <1>9, <2>1, <2>2, HeldKeepsInvariant
  <1> QED
    BY <1>8, <1>9

\* What the three reviews have in common.
LEMMA ReviewedRow ==
    ASSUME IInv, NEW key \in Keys, NEW reviewer \in People, Reviewable(key, reviewer),
           NEW status \in Decisions,
           corrections' = [corrections EXCEPT ![key].status = status]
    PROVE  \E c \in Correction :
              /\ Writes(key, c) /\ Undecided(key)
              /\ c.address = corrections[key].address /\ c.to = corrections[key].to
              /\ c.at = corrections[key].at /\ c.status = status
  <1> DEFINE c == [corrections[key] EXCEPT !.status = status]
  <1>1. key \in Used /\ corrections[key].status = "PENDING_REVIEW"
    BY DEF Reviewable
  <1>2. corrections[key] \in Correction
    BY <1>1, TablesAreFunctions DEF IInv, CorrectionTypeOK, Used
  <1>3. /\ c \in Correction /\ c.status = status
        /\ c.address = corrections[key].address /\ c.to = corrections[key].to
        /\ c.at = corrections[key].at
    BY <1>2 DEF Correction
  <1>4. Writes(key, c)
    BY <1>1, ReviewWrites DEF IInv
  <1>5. Undecided(key)
    BY <1>1 DEF Undecided
  <1> QED
    BY <1>3, <1>4, <1>5

LEMMA ApproveKeepsInvariant ==
    ASSUME IInv, NEW key \in Keys, NEW reviewer \in People, Approve(key, reviewer)
    PROVE  IInv'
  <1>1. PICK c \in Correction :
              /\ Writes(key, c) /\ Undecided(key)
              /\ c.address = corrections[key].address /\ c.to = corrections[key].to
              /\ c.at = corrections[key].at /\ c.status = "APPROVED"
    BY ReviewedRow DEF Approve, Decisions
  <1>2. ApplyPin(c.address, key, c.to, c.at) /\ ~Overtaken(c.address, c.at) /\ UNCHANGED clock
    BY <1>1 DEF Approve
  <1>3. c.at <= clock
    BY <1>1 DEF Approve, Reviewable, IInv, ObservedByNow
  <1> QED
    BY <1>1, <1>2, <1>3, TakenKeepsInvariant DEF Taken

LEMMA ApproveTooLateKeepsInvariant ==
    ASSUME IInv, NEW key \in Keys, NEW reviewer \in People, ApproveTooLate(key, reviewer)
    PROVE  IInv'
  <1>1. PICK c \in Correction :
              /\ Writes(key, c) /\ Undecided(key)
              /\ c.address = corrections[key].address /\ c.to = corrections[key].to
              /\ c.at = corrections[key].at /\ c.status = "SUPERSEDED"
    BY ReviewedRow DEF ApproveTooLate, Decisions
  <1>2. LeavePin /\ UNCHANGED clock /\ c.at <= pin[c.address].observed
    BY <1>1 DEF ApproveTooLate, Overtaken
  <1>3. c.at <= clock
    BY <1>1 DEF ApproveTooLate, Reviewable, IInv, ObservedByNow
  <1> QED
    BY <1>1, <1>2, <1>3, HeldKeepsInvariant DEF Taken

LEMMA RejectKeepsInvariant ==
    ASSUME IInv, NEW key \in Keys, NEW reviewer \in People, Reject(key, reviewer)
    PROVE  IInv'
  <1>1. PICK c \in Correction :
              /\ Writes(key, c) /\ Undecided(key)
              /\ c.address = corrections[key].address /\ c.to = corrections[key].to
              /\ c.at = corrections[key].at /\ c.status = "REJECTED"
    BY ReviewedRow DEF Reject, Decisions
  <1>2. LeavePin /\ UNCHANGED clock
    BY DEF Reject
  <1>3. c.at <= clock
    BY <1>1 DEF Reject, Reviewable, IInv, ObservedByNow
  <1> QED
    BY <1>1, <1>2, <1>3, HeldKeepsInvariant DEF Taken

\* What was observed by now was observed by any later time.
LEMMA TickKeepsInvariant ==
    ASSUME IInv, Tick
    PROVE  IInv'
  <1>1. /\ pin' = pin /\ corrections' = corrections /\ moves' = moves
        /\ clock' = clock + 1 /\ clock \in Times /\ clock' \in Times
    BY CorrectionAssumption DEF Tick, IInv, CorrectionTypeOK, Times
  <1>2. CorrectionTypeOK' /\ EventsAreOfCorrections'
    BY <1>1 DEF IInv, CorrectionTypeOK, EventsAreOfCorrections, Used
  <1>3. ObservedByNow'
    <2>1. \A key \in Used : corrections[key].at \in Times /\ corrections[key].at <= clock
      BY TablesAreFunctions DEF IInv, CorrectionTypeOK, Correction, ObservedByNow, Used
    <2> QED
      BY <1>1, <2>1 DEF ObservedByNow, Used, Times
  <1>4. ASSUME NEW a \in Addresses
        PROVE  (EventsLeadToThePin(a) /\ OnlyTheTakenMoved(a) /\ NothingNewerPassedOver(a))'
    <2>1. EventsLeadToThePin(a) /\ OnlyTheTakenMoved(a) /\ NothingNewerPassedOver(a)
      BY DEF IInv, PinIsTheNewest
    <2>2. pin[a].observed \in Times \cup {Never}
      BY DEF IInv, CorrectionTypeOK, Pin
    <2>3. pin[a].observed <= clock'
      BY <1>1, <2>1, <2>2 DEF NothingNewerPassedOver, Times, Never
    <2> QED
      BY <1>1, <2>1, <2>3 DEF EventsLeadToThePin, OnlyTheTakenMoved, NothingNewerPassedOver, Used
  <1> QED
    BY <1>2, <1>3, <1>4 DEF IInv, PinIsTheNewest

-----------------------------------------------------------------------------
(* The specification *)

LEMMA InitHoldsInvariant == CorrectionInit => IInv
  <1> SUFFICES ASSUME CorrectionInit PROVE IInv
    OBVIOUS
  <1>1. /\ pin \in [Addresses -> Pin] /\ \A a \in Addresses : pin[a].observed = Never
        /\ corrections = <<>> /\ Used = {}
        /\ \A a \in Addresses : moves[a] = <<>>
    BY DEF CorrectionInit, Pin, Used
  <1>2. corrections \in Tables
    <2>1. <<>> = [k \in {} |-> k]
      OBVIOUS
    <2>2. [k \in {} |-> k] \in [{} -> Correction]
      OBVIOUS
    <2>3. corrections \in [{} -> Correction]
      BY <1>1, <2>1, <2>2
    <2> QED
      BY <2>3, TablesAreFunctions
  <1>3. CorrectionTypeOK
    BY <1>1, <1>2, CorrectionAssumption DEF CorrectionInit, CorrectionTypeOK, Times
  <1>4. EventsAreOfCorrections /\ ObservedByNow
    BY <1>1 DEF EventsAreOfCorrections, ObservedByNow
  <1>5. ASSUME NEW a \in Addresses
        PROVE  EventsLeadToThePin(a) /\ OnlyTheTakenMoved(a) /\ NothingNewerPassedOver(a)
    BY <1>1 DEF CorrectionInit, EventsLeadToThePin, OnlyTheTakenMoved, NothingNewerPassedOver,
                Never
  <1> QED
    BY <1>3, <1>4, <1>5 DEF IInv, PinIsTheNewest

LEMMA NextKeepsInvariant == IInv /\ [CorrectionNext]_correctionVars => IInv'
  <1> SUFFICES ASSUME IInv, [CorrectionNext]_correctionVars PROVE IInv'
    OBVIOUS
  <1>1. ASSUME NEW key \in Keys, NEW by \in People, NEW a \in Addresses, NEW to \in Places,
               NEW device \in 1 .. (MaxTime + ClockSkew), Submit(key, by, a, to, device)
        PROVE  IInv'
    BY <1>1, SubmitKeepsInvariant
  <1>2. ASSUME NEW key \in Keys, NEW reviewer \in People, Approve(key, reviewer)
        PROVE  IInv'
    BY <1>2, ApproveKeepsInvariant
  <1>3. ASSUME NEW key \in Keys, NEW reviewer \in People, ApproveTooLate(key, reviewer)
        PROVE  IInv'
    BY <1>3, ApproveTooLateKeepsInvariant
  <1>4. ASSUME NEW key \in Keys, NEW reviewer \in People, Reject(key, reviewer)
        PROVE  IInv'
    BY <1>4, RejectKeepsInvariant
  <1>5. CASE Tick
    BY <1>5, TickKeepsInvariant
  <1>6. CASE UNCHANGED correctionVars
    BY <1>6 DEF correctionVars, IInv, CorrectionTypeOK, EventsAreOfCorrections, ObservedByNow,
                PinIsTheNewest, EventsLeadToThePin, OnlyTheTakenMoved, NothingNewerPassedOver,
                Used
  <1> QED
    BY <1>1, <1>2, <1>3, <1>4, <1>5, <1>6 DEF CorrectionNext

LEMMA InvariantHolds == CorrectionSpec => []IInv
  BY InitHoldsInvariant, NextKeepsInvariant, PTL DEF CorrectionSpec

\* AddressCorrectionService: whatever the order in which phones come online and
\* reviewers decide, no older observation puts back a pin.
THEOREM PinStaysTheNewest == CorrectionSpec => []PinIsTheNewest
  <1>1. IInv => PinIsTheNewest
    BY DEF IInv
  <1> QED
    BY <1>1, InvariantHolds, PTL
=============================================================================
