------------------------ MODULE EventDeliveryProofs -------------------------
(***************************************************************************)
(* Theorems about the event backbone, for every number of events, relays,  *)
(* consumers and operators, and any bounds; and, over the specification of *)
(* both consumer groups, about the sending of a notification.              *)
(***************************************************************************)
EXTENDS MCEventDelivery, TLAPS, SequenceTheorems

-----------------------------------------------------------------------------
(* Type correctness *)

LEMMA InitType == Init => TypeOK
<1>1. SUFFICES ASSUME Init PROVE TypeOK
  OBVIOUS
<1>2. Resting \in Batch /\ Polling \in Member(0)
  BY DEF Resting, Batch, Polling, Member, NoItem
<1>3. stream = <<>> /\ Len(stream) = 0
  BY <1>1 DEF Init
<1> QED
  BY <1>1, <1>2, <1>3, DeliveryAssumption DEF Init, TypeOK, Polling, DeliveryAssumption

\* Only the loops change, the tables of the relay do not.
LEMMA MemberStep ==
    ASSUME TypeOK, NEW c \in Consumers, NEW m \in Member(read),
           m.at = "next" <=> m.item = NoItem,
           consumer' = [consumer EXCEPT ![c] = m], read' = read
    PROVE  /\ consumer' \in [Consumers -> Member(read')]
           /\ \A d \in Consumers : consumer'[d].at = "next" <=> consumer'[d].item = NoItem
BY DEF TypeOK

\* XAdd's effect on the stream.
LEMMA AppendStep ==
    ASSUME TypeOK, NEW e \in Events, Append1(e), read' = read
    PROVE  /\ stream' \in Seq([event : Events, tries : Nat, acked : BOOLEAN])
           /\ trimmed' \in Nat
           /\ read' \in 0 .. Len(stream')
           /\ Len(stream') = Len(stream) + 1
           /\ \A i \in 1 .. Len(stream) : stream'[i] = stream[i]
           /\ stream'[Len(stream) + 1] = Entry(e)
           /\ trimmed <= trimmed'
<1> DEFINE s == Entry(e)
<1>1. s \in [event : Events, tries : Nat, acked : BOOLEAN]
  BY DEF Entry
<1>2. stream' = Append(stream, s)
  BY DEF Append1
<1> HIDE DEF s
<1>3. stream' \in Seq([event : Events, tries : Nat, acked : BOOLEAN]) /\ Len(stream') = Len(stream) + 1
  BY <1>1, <1>2 DEF TypeOK
<1>4. trimmed' \in Nat /\ trimmed <= trimmed'
  BY DEF Append1, TypeOK
<1>5. (\A i \in 1 .. Len(stream) : stream'[i] = stream[i]) /\ stream'[Len(stream) + 1] = s
  BY <1>1, <1>2 DEF TypeOK
<1> QED
  BY <1>3, <1>4, <1>5 DEF TypeOK, s

LEMMA RelayType ==
    ASSUME TypeOK, NEW r \in Relays,
           RelayStep(r) \/ RelayCrash(r) \/ \E e \in Events : XAddFails(r, e)
    PROVE  TypeOK'
<1>1. CASE Claim(r)
  <2> DEFINE batch == First({e \in Events \ Locked : outbox[e] = "due"}, RelayBatch)
             b == [claimed |-> batch, todo |-> batch, failed |-> FALSE]
  <2>1. b \in Batch
    BY DEF First, Batch
  <2>2. relay' = [relay EXCEPT ![r] = b]
    BY <1>1 DEF Claim
  <2> HIDE DEF b
  <2> QED
    BY <1>1, <2>1, <2>2 DEF TypeOK, Claim, streamVars, tables
<1>2. CASE Settle(r)
  <2>1. outbox' \in [Events -> {"absent", "due", "resting", "published"}]
    BY <1>2 DEF Settle, TypeOK, Outcome
  <2>2. relay' \in [Relays -> Batch]
    BY <1>2 DEF Settle, TypeOK, Resting, Batch
  <2> QED
    BY <1>2, <2>1, <2>2 DEF TypeOK, Settle, streamVars, tables
<1>3. CASE RelayCrash(r)
  <2>1. relay' \in [Relays -> Batch]
    BY <1>3 DEF RelayCrash, TypeOK, Resting, Batch
  <2>2. faults' \in 0 .. MaxFaults
    BY <1>3, DeliveryAssumption DEF RelayCrash, Fault, TypeOK, DeliveryAssumption
  <2> QED
    BY <1>3, <2>1, <2>2 DEF TypeOK, RelayCrash, streamVars, tables
<1>4. CASE \E e \in Events : XAdd(r, e)
  <2>1. PICK e \in Events : XAdd(r, e)
    BY <1>4
  <2>2. relay' \in [Relays -> Batch]
    BY <2>1 DEF XAdd, TypeOK, Batch
  <2>3. Append1(e) /\ read' = read
    BY <2>1 DEF XAdd
  <2> QED
    BY <2>1, <2>2, <2>3, AppendStep DEF TypeOK, XAdd, tables
<1>5. CASE \E e \in Events : XAddFails(r, e)
  <2>1. PICK e \in Events : XAddFails(r, e)
    BY <1>5
  <2>a. /\ relay' = [relay EXCEPT ![r].todo = @ \ {e}, ![r].failed = TRUE]
        /\ Fault
    BY <2>1 DEF XAddFails
  <2>b. relay \in [Relays -> Batch]
    BY DEF TypeOK
  <2>c. PICK b : b = [relay[r] EXCEPT !.todo = @ \ {e}, !.failed = TRUE]
    OBVIOUS
  <2>d. b \in Batch
    BY <2>b, <2>c DEF Batch
  <2>f. relay' = [relay EXCEPT ![r] = b]
    BY <2>a, <2>b, <2>c
  <2>2. relay' \in [Relays -> Batch]
    BY <2>b, <2>d, <2>f
  <2>3. faults' \in 0 .. MaxFaults
    BY <2>a, DeliveryAssumption DEF Fault, TypeOK, DeliveryAssumption
  <2>4. CASE Append1(e)
    BY <2>1, <2>2, <2>3, <2>4, AppendStep DEF TypeOK, XAddFails, tables
  <2>5. CASE UNCHANGED <<stream, trimmed>>
    BY <2>1, <2>2, <2>3, <2>5 DEF TypeOK, XAddFails, tables
  <2> QED
    BY <2>1, <2>4, <2>5 DEF XAddFails
<1> QED
  BY <1>1, <1>2, <1>3, <1>4, <1>5 DEF RelayStep

\* A step of a member that moves only its record.
LEMMA MoveType ==
    ASSUME TypeOK, NEW c \in Consumers, NEW m \in Member(read),
           m.at = "next" <=> m.item = NoItem,
           consumer' = [consumer EXCEPT ![c] = m],
           UNCHANGED <<relayVars, streamVars, tables, operator, faults>>
    PROVE  TypeOK'
<1>1. /\ consumer' \in [Consumers -> Member(read')]
      /\ \A d \in Consumers : consumer'[d].at = "next" <=> consumer'[d].item = NoItem
  BY MemberStep DEF streamVars
<1> QED
  BY <1>1 DEF TypeOK, relayVars, streamVars, tables

LEMMA GotoMember ==
    ASSUME TypeOK, NEW c \in Consumers, consumer[c].at # "next",
           NEW where \in {"check", "handle", "insert", "mark", "ack", "bury"}, Goto(c, where)
    PROVE  \E m \in Member(read) :
              /\ m.at # "next" /\ m.item # NoItem
              /\ consumer' = [consumer EXCEPT ![c] = m]
<1> DEFINE m == [consumer[c] EXCEPT !.at = where]
<1>1. m \in Member(read) /\ m.at # "next" /\ m.item # NoItem
  BY DEF TypeOK, Member
<1>2. consumer' = [consumer EXCEPT ![c] = m]
  BY DEF Goto, TypeOK
<1> QED
  BY <1>1, <1>2

LEMMA DoneMember ==
    ASSUME TypeOK, NEW c \in Consumers, Done(c)
    PROVE  \E m \in Member(read) :
              /\ m.at = "next" /\ m.item = NoItem
              /\ consumer' = [consumer EXCEPT ![c] = m]
<1> DEFINE m == [consumer[c] EXCEPT !.at = "next", !.item = NoItem]
<1>1. m \in Member(read) /\ m.at = "next" /\ m.item = NoItem
  BY DEF TypeOK, Member
<1>2. consumer' = [consumer EXCEPT ![c] = m]
  BY DEF Done, TypeOK
<1> QED
  BY <1>1, <1>2

LEMMA TakeMember ==
    ASSUME TypeOK, NEW c \in Consumers, NEW item \in consumer[c].todo,
           NEW where \in {"check", "bury"}, Take(c, item, where)
    PROVE  \E m \in Member(read) :
              /\ m.at = where /\ m.item = item /\ m.item # NoItem
              /\ consumer' = [consumer EXCEPT ![c] = m]
<1> DEFINE m == [consumer[c] EXCEPT !.at = where, !.todo = @ \ {item}, !.item = item]
<1>1. item \in Listed(read)
  BY DEF TypeOK, Member
<1>2. m \in Member(read) /\ m.at = where /\ m.item = item
  BY <1>1 DEF TypeOK, Member
<1>3. item # NoItem
  BY <1>1 DEF Listed, NoItem, TypeOK
<1>4. consumer' = [consumer EXCEPT ![c] = m]
  BY DEF Take, TypeOK
<1> QED
  BY <1>2, <1>3, <1>4

\* A member's entry is one of the stream's.
LEMMA ItemInStream ==
    ASSUME TypeOK, NEW c \in Consumers, consumer[c].at # "next"
    PROVE  /\ consumer[c].item.entry \in 1 .. Len(stream)
           /\ EventOf(c) \in Events
<1>1. consumer[c].item \in Listed(read)
  BY DEF TypeOK, Member
<1>2. consumer[c].item.entry \in 1 .. Len(stream)
  BY <1>1 DEF TypeOK, Listed
<1>3. stream[consumer[c].item.entry] \in [event : Events, tries : Nat, acked : BOOLEAN]
  BY <1>2, ElementOfSeq DEF TypeOK
<1> QED
  BY <1>2, <1>3 DEF EventOf

\* Marking an entry keeps the stream's type.
LEMMA StreamExcept ==
    ASSUME TypeOK, NEW i \in 1 .. Len(stream),
           NEW s \in [event : Events, tries : Nat, acked : BOOLEAN],
           stream' = [stream EXCEPT ![i] = s]
    PROVE  /\ stream' \in Seq([event : Events, tries : Nat, acked : BOOLEAN])
           /\ Len(stream') = Len(stream)
<1> DEFINE S == [event : Events, tries : Nat, acked : BOOLEAN]
           n == Len(stream)
<1>1. stream \in Seq(S) /\ n \in Nat
  BY DEF TypeOK
<1> HIDE DEF S
<1>2. stream' \in [1 .. n -> S]
  <2>1. stream \in [1 .. n -> S]
    BY <1>1
  <2>2. s \in S
    BY DEF S
  <2> QED
    BY <2>1, <2>2
<1>3. stream' \in Seq(S) /\ Len(stream') = n
  BY <1>1, <1>2
<1> QED
  BY <1>3 DEF S

\* A step of a member that changes its record and marks an entry.
LEMMA MarkEntryType ==
    ASSUME TypeOK, NEW c \in Consumers, NEW m \in Member(read),
           m.at = "next" <=> m.item = NoItem,
           consumer' = [consumer EXCEPT ![c] = m],
           NEW i \in 1 .. Len(stream),
           NEW s \in [event : Events, tries : Nat, acked : BOOLEAN],
           stream' = [stream EXCEPT ![i] = s],
           UNCHANGED <<relayVars, trimmed, read, tables, operator, faults>>
    PROVE  TypeOK'
<1>1. /\ consumer' \in [Consumers -> Member(read')]
      /\ \A d \in Consumers : consumer'[d].at = "next" <=> consumer'[d].item = NoItem
  BY MemberStep
<1>2. /\ stream' \in Seq([event : Events, tries : Nat, acked : BOOLEAN])
      /\ Len(stream') = Len(stream)
  BY StreamExcept
<1> QED
  BY <1>1, <1>2 DEF TypeOK, relayVars, tables

LEMMA EntryFields ==
    ASSUME TypeOK, NEW i \in 1 .. Len(stream)
    PROVE  /\ stream[i] \in [event : Events, tries : Nat, acked : BOOLEAN]
           /\ DOMAIN stream = 1 .. Len(stream)
<1> DEFINE S == [event : Events, tries : Nat, acked : BOOLEAN]
<1>1. stream \in Seq(S)
  BY DEF TypeOK
<1> HIDE DEF S
<1>2. stream[i] \in S /\ DOMAIN stream = 1 .. Len(stream)
  BY <1>1, ElementOfSeq, LenProperties
<1> QED
  BY <1>2 DEF S

LEMMA ConsumerType ==
    ASSUME TypeOK, NEW c \in Consumers, ConsumerStep(c) \/ ConsumerCrash(c)
    PROVE  TypeOK'
<1>1. ASSUME NEW idle \in SUBSET Pending, ListPending(c, idle) PROVE TypeOK'
  <2> DEFINE list == {[entry |-> i, count |-> stream[i].tries] : i \in idle}
             m == [consumer[c] EXCEPT !.loop = "reclaim", !.todo = list]
  <2>1. \A i \in idle : [entry |-> i, count |-> stream[i].tries] \in Listed(read)
    <3>1. SUFFICES ASSUME NEW i \in idle
                   PROVE [entry |-> i, count |-> stream[i].tries] \in Listed(read)
      OBVIOUS
    <3>2. i \in 1 .. read /\ i \in 1 .. Len(stream)
      BY DEF Pending, TypeOK
    <3> QED
      BY <3>2, EntryFields DEF Listed
  <2>2. list \in SUBSET Listed(read)
    BY <2>1
  <2>3. consumer' = [consumer EXCEPT ![c] = m]
    BY <1>1 DEF ListPending, TypeOK
  <2>a. consumer[c] \in Member(read) /\ (consumer[c].at = "next" <=> consumer[c].item = NoItem)
    BY DEF TypeOK
  <2> HIDE DEF list
  <2>4. m \in Member(read) /\ (m.at = "next" <=> m.item = NoItem)
    BY <2>2, <2>a DEF Member
  <2> QED
    BY <1>1, <2>3, <2>4, MoveType DEF ListPending
<1>2. ASSUME NEW item \in consumer[c].todo, SkipEntry(c, item) PROVE TypeOK'
  <2> DEFINE m == [consumer[c] EXCEPT !.todo = @ \ {item}]
             i == item.entry
             s == [stream[i] EXCEPT !.acked = @ \/ i <= trimmed]
  <2>1. i \in 1 .. Len(stream)
    BY DEF TypeOK, Member, Listed
  <2>2. m \in Member(read) /\ (m.at = "next" <=> m.item = NoItem)
    BY DEF TypeOK, Member
  <2>3. s \in [event : Events, tries : Nat, acked : BOOLEAN]
    BY <2>1, EntryFields
  <2>4. consumer' = [consumer EXCEPT ![c] = m] /\ stream' = [stream EXCEPT ![i] = s]
    BY <1>2, <2>1, EntryFields DEF SkipEntry, TypeOK
  <2> HIDE DEF m, i, s
  <2> QED
    BY <1>2, <2>1, <2>2, <2>3, <2>4, MarkEntryType DEF SkipEntry
<1>3. ASSUME NEW item \in consumer[c].todo, ClaimEntry(c, item) PROVE TypeOK'
  <2> DEFINE i == item.entry
             s == [stream[i] EXCEPT !.tries = @ + 1]
  <2>1. i \in 1 .. Len(stream)
    BY DEF TypeOK, Member, Listed
  <2>2. PICK m \in Member(read) :
            m.at # "next" /\ m.item # NoItem /\ consumer' = [consumer EXCEPT ![c] = m]
    BY <1>3, TakeMember DEF ClaimEntry
  <2>3. s \in [event : Events, tries : Nat, acked : BOOLEAN]
    BY <2>1, EntryFields
  <2>4. stream' = [stream EXCEPT ![i] = s]
    BY <1>3, <2>1, EntryFields DEF ClaimEntry
  <2> HIDE DEF i, s
  <2> QED
    BY <1>3, <2>1, <2>2, <2>3, <2>4, MarkEntryType DEF ClaimEntry
<1>4. ASSUME NEW item \in consumer[c].todo, TakeFresh(c, item) PROVE TypeOK'
  <2>1. PICK m \in Member(read) :
            m.at # "next" /\ m.item # NoItem /\ consumer' = [consumer EXCEPT ![c] = m]
    BY <1>4, TakeMember DEF TakeFresh
  <2> QED
    BY <1>4, <2>1, MoveType DEF TakeFresh
<1>5. ASSUME ReadNew(c) PROVE TypeOK'
  <2> DEFINE from == IF read < trimmed THEN trimmed ELSE read
             upto == IF from + ConsumerBatch < Len(stream) THEN from + ConsumerBatch ELSE Len(stream)
             m == [consumer[c] EXCEPT !.loop = "fresh",
                     !.todo = {[entry |-> i, count |-> 1] : i \in from + 1 .. upto}]
             S == [event : Events, tries : Nat, acked : BOOLEAN]
             n == Len(stream)
  <2>1. /\ n \in Nat /\ from \in Nat /\ upto \in 0 .. n
        /\ read <= from /\ read <= upto /\ read \in Nat
    BY DeliveryAssumption DEF TypeOK, DeliveryAssumption
  <2>2. /\ read' = upto
        /\ stream' = [i \in 1 .. n |->
                       CASE i \in from + 1 .. upto -> [stream[i] EXCEPT !.tries = 1]
                         [] i \in read + 1 .. from -> [stream[i] EXCEPT !.acked = TRUE]
                         [] OTHER -> stream[i]]
        /\ UNCHANGED <<relayVars, trimmed, tables, operator, faults>>
    BY <1>5 DEF ReadNew
  <2>3. consumer' = [consumer EXCEPT ![c] = m]
    BY <1>5 DEF ReadNew, TypeOK
  <2>4. \A i \in 1 .. n : stream[i] \in S
    BY EntryFields
  <2> HIDE DEF from, upto, n
  <2>5. stream' \in [1 .. n -> S]
    BY <2>2, <2>4
  <2>6. stream' \in Seq(S) /\ Len(stream') = n
    <3> HIDE DEF S
    <3> QED
      BY <2>1, <2>5
  <2>7. Listed(read) \subseteq Listed(upto) /\ Member(read) \subseteq Member(upto)
    BY <2>1 DEF Listed, Member
  <2>8. {[entry |-> i, count |-> 1] : i \in from + 1 .. upto} \subseteq Listed(upto)
    BY <2>1 DEF Listed
  <2>9. consumer[c] \in Member(upto) /\ (consumer[c].at = "next" <=> consumer[c].item = NoItem)
    BY <2>7 DEF TypeOK
  <2>10. m \in Member(upto) /\ (m.at = "next" <=> m.item = NoItem)
    BY <2>8, <2>9 DEF Member
  <2> HIDE DEF m
  <2>11. /\ consumer' \in [Consumers -> Member(upto)]
         /\ \A d \in Consumers : consumer'[d].at = "next" <=> consumer'[d].item = NoItem
    BY <2>3, <2>7, <2>10 DEF TypeOK
  <2> QED
    BY <2>1, <2>2, <2>6, <2>11 DEF TypeOK, relayVars, tables
<1>6. ASSUME Check(c) \/ Handle(c) PROVE TypeOK'
  <2>1. PICK where \in {"ack", "handle", "mark", "insert"} : Goto(c, where)
    BY <1>6 DEF Check, Handle
  <2>2. consumer[c].at # "next" /\ UNCHANGED <<relayVars, streamVars, tables, operator, faults>>
    BY <1>6 DEF Check, Handle
  <2> QED
    BY <2>1, <2>2, GotoMember, MoveType
<1>7. ASSUME Insert(c) \/ Mark(c) \/ Bury(c) PROVE TypeOK'
  <2>1. /\ consumer[c].at # "next"
        /\ UNCHANGED <<relayVars, streamVars, operator, faults>>
        /\ Goto(c, "mark") \/ Goto(c, "ack") \/ Done(c)
    BY <1>7 DEF Insert, Mark, Bury
  <2>2. PICK m \in Member(read) :
            (m.at = "next" <=> m.item = NoItem) /\ consumer' = [consumer EXCEPT ![c] = m]
    BY <2>1, GotoMember, DoneMember
  <2>3. /\ consumer' \in [Consumers -> Member(read')]
        /\ \A d \in Consumers : consumer'[d].at = "next" <=> consumer'[d].item = NoItem
    BY <2>1, <2>2, MemberStep DEF streamVars
  <2>4. EventOf(c) \in Events
    BY <2>1, ItemInStream
  <2>5. processed' \subseteq Events /\ posted' \in [Events -> Nat]
        /\ dead' \in [Events -> {"none", "PENDING", "RESOLVED", "DISCARDED"}]
    <3>1. CASE Insert(c)
      <4> DEFINE e == EventOf(c)
      <4>1. posted' = posted \/ posted' = [posted EXCEPT ![e] = @ + 1]
        BY <3>1 DEF Insert
      <4>2. e \in Events
        BY <2>4
      <4>a. posted \in [Events -> Nat]
        BY DEF TypeOK
      <4> HIDE DEF e
      <4>3. posted' \in [Events -> Nat]
        BY <4>1, <4>2, <4>a
      <4> QED
        BY <3>1, <4>3 DEF Insert, TypeOK
    <3>2. CASE Mark(c)
      BY <2>4, <3>2 DEF Mark, TypeOK
    <3>3. CASE Bury(c)
      BY <2>4, <3>3 DEF Bury, Buried, TypeOK
    <3> QED
      BY <1>7, <3>1, <3>2, <3>3
  <2> QED
    BY <2>1, <2>3, <2>5 DEF TypeOK, relayVars, streamVars
<1>8. ASSUME Ack(c) PROVE TypeOK'
  <2> DEFINE i == consumer[c].item.entry
             s == [stream[i] EXCEPT !.acked = TRUE]
  <2>1. i \in 1 .. Len(stream)
    BY <1>8, ItemInStream DEF Ack
  <2>2. PICK m \in Member(read) :
            (m.at = "next" <=> m.item = NoItem) /\ consumer' = [consumer EXCEPT ![c] = m]
    BY <1>8, DoneMember DEF Ack
  <2>3. s \in [event : Events, tries : Nat, acked : BOOLEAN]
    BY <2>1, EntryFields
  <2>4. stream' = [stream EXCEPT ![i] = s]
    BY <1>8, <2>1, EntryFields DEF Ack
  <2> HIDE DEF i, s
  <2> QED
    BY <1>8, <2>1, <2>2, <2>3, <2>4, MarkEntryType DEF Ack
<1>9. ASSUME Fail(c) PROVE TypeOK'
  <2>1. PICK m \in Member(read) :
            (m.at = "next" <=> m.item = NoItem) /\ consumer' = [consumer EXCEPT ![c] = m]
    BY <1>9, DoneMember DEF Fail, Failed
  <2> QED
    BY <1>9, <2>1, MoveType DEF Fail
<1>10. ASSUME ConsumerCrash(c) PROVE TypeOK'
  <2>1. Polling \in Member(read) /\ (Polling.at = "next" <=> Polling.item = NoItem)
    BY DEF Polling, Member
  <2>2. consumer' = [consumer EXCEPT ![c] = Polling] /\ read' = read
    BY <1>10 DEF ConsumerCrash, streamVars
  <2>3. faults' \in 0 .. MaxFaults
    BY <1>10, DeliveryAssumption DEF ConsumerCrash, Fault, TypeOK, DeliveryAssumption
  <2> HIDE DEF Polling
  <2>4. /\ consumer' \in [Consumers -> Member(read')]
        /\ \A d \in Consumers : consumer'[d].at = "next" <=> consumer'[d].item = NoItem
    BY <2>1, <2>2, MemberStep
  <2> QED
    BY <1>10, <2>3, <2>4 DEF TypeOK, ConsumerCrash, relayVars, streamVars, tables
<1> QED
  BY <1>1, <1>2, <1>3, <1>4, <1>5, <1>6, <1>7, <1>8, <1>9, <1>10 DEF ConsumerStep

LEMMA DoVisit ==
    ASSUME TypeOK, NEW o \in Operators, operator[o].at # "away",
           NEW where \in {"handle", "insert", "record", "resolve"}, Do(o, where)
    PROVE  operator' \in [Operators -> {Away} \cup Visit]
<1> DEFINE v == [operator[o] EXCEPT !.at = where]
<1>1. operator[o] \in Visit
  BY DEF TypeOK, Away
<1>2. v \in Visit
  BY <1>1 DEF Visit
<1>3. operator' = [operator EXCEPT ![o] = v]
  BY DEF Do, TypeOK
<1> HIDE DEF v
<1> QED
  BY <1>2, <1>3 DEF TypeOK

LEMMA LeaveVisit ==
    ASSUME TypeOK, NEW o \in Operators, Leave(o)
    PROVE  operator' \in [Operators -> {Away} \cup Visit]
BY DEF Leave, TypeOK

LEMMA OperatorType ==
    ASSUME TypeOK, NEW o \in Operators, OperatorStep(o)
    PROVE  TypeOK'
<1>1. ASSUME NEW e \in Events, NEW what \in {"replay", "resolve", "discard"}, Open(o, e, what)
      PROVE  TypeOK'
  <2> DEFINE v == [at |-> what, event |-> e]
  <2>1. v \in Visit
    BY DEF Visit
  <2>2. operator' = [operator EXCEPT ![o] = v]
    BY <1>1 DEF Open
  <2> HIDE DEF v
  <2> QED
    BY <1>1, <2>1, <2>2 DEF TypeOK, Open, relayVars, streamVars, tables
<1>2. ASSUME ReplayCheck(o) \/ ReplayHandle(o) PROVE TypeOK'
  <2>1. PICK where \in {"resolve", "handle", "record", "insert"} : Do(o, where)
    BY <1>2 DEF ReplayCheck, ReplayHandle
  <2>2. operator[o].at # "away"
    BY <1>2 DEF ReplayCheck, ReplayHandle
  <2>3. operator' \in [Operators -> {Away} \cup Visit]
    BY <2>1, <2>2, DoVisit
  <2> QED
    BY <1>2, <2>3 DEF TypeOK, ReplayCheck, ReplayHandle, relayVars, streamVars, tables
<1>3. ASSUME ReplayInsert(o) PROVE TypeOK'
  <2>1. operator[o].at # "away" /\ (Do(o, "record") \/ Leave(o))
    BY <1>3 DEF ReplayInsert
  <2>2. operator' \in [Operators -> {Away} \cup Visit]
    BY <2>1, DoVisit, LeaveVisit
  <2>3. operator[o].event \in Events
    BY <2>1 DEF TypeOK, Away, Visit
  <2>4. posted' \in [Events -> Nat]
    BY <1>3, <2>3 DEF ReplayInsert, TypeOK
  <2> QED
    BY <1>3, <2>2, <2>4 DEF TypeOK, ReplayInsert, relayVars, streamVars
<1>4. ASSUME ReplayRecord(o) \/ Decide(o) PROVE TypeOK'
  <2>1. operator[o] \in Visit
    BY <1>4 DEF ReplayRecord, Decide, TypeOK, Away
  <2>2. operator' \in [Operators -> {Away} \cup Visit]
    BY <1>4 DEF ReplayRecord, Decide, Leave, TypeOK
  <2>3. /\ processed' \subseteq Events
        /\ dead' \in [Events -> {"none", "PENDING", "RESOLVED", "DISCARDED"}]
    BY <1>4, <2>1 DEF ReplayRecord, Decide, TypeOK, Visit
  <2> QED
    BY <1>4, <2>2, <2>3 DEF TypeOK, ReplayRecord, Decide, relayVars, streamVars
<1>5. ASSUME GiveUp(o) PROVE TypeOK'
  <2>1. operator' \in [Operators -> {Away} \cup Visit]
    BY <1>5 DEF GiveUp, Leave, TypeOK
  <2> QED
    BY <1>5, <2>1 DEF TypeOK, GiveUp, relayVars, streamVars, tables
<1> QED
  BY <1>1, <1>2, <1>3, <1>4, <1>5 DEF OperatorStep

LEMMA NextType == TypeOK /\ [Next]_vars => TypeOK'
<1>1. SUFFICES ASSUME TypeOK, [Next]_vars PROVE TypeOK'
  OBVIOUS
<1>2. ASSUME NEW e \in Events, Commit(e) \/ Wake(e) PROVE TypeOK'
  <2>1. outbox' \in [Events -> {"absent", "due", "resting", "published"}]
    BY <1>1, <1>2 DEF TypeOK, Commit, Wake
  <2> QED
    BY <1>1, <1>2, <2>1 DEF TypeOK, Commit, Wake, streamVars, tables
<1>3. CASE UNCHANGED vars
  BY <1>1, <1>3 DEF TypeOK, vars, relayVars, streamVars, tables
<1> QED
  BY <1>1, <1>2, <1>3, RelayType, ConsumerType, OperatorType DEF Next

\* The tables, the stream and the calls in flight keep their types.
THEOREM BackboneTypes == Spec => []TypeOK
<1> QED
  BY InitType, NextType, PTL DEF Spec

-----------------------------------------------------------------------------
(* What every step keeps *)

\* Entries keep their event and their place; unless the stream was trimmed, an
\* entry is let go of only by the acknowledgement of the member that has it.
StreamKept ==
    \A i \in 1 .. Len(stream) :
        /\ i \in 1 .. Len(stream') /\ stream'[i].event = stream[i].event
        /\ trimmed = 0 /\ ~stream[i].acked =>
              \/ ~stream'[i].acked
              \/ \E c \in Consumers : consumer[c].at = "ack" /\ consumer[c].item.entry = i

LEMMA StreamStep == TypeOK /\ [Next]_vars => StreamKept
<1>1. SUFFICES ASSUME TypeOK, [Next]_vars, NEW i \in 1 .. Len(stream)
      PROVE  /\ i \in 1 .. Len(stream') /\ stream'[i].event = stream[i].event
             /\ trimmed = 0 /\ ~stream[i].acked =>
                   \/ ~stream'[i].acked
                   \/ \E c \in Consumers : consumer[c].at = "ack" /\ consumer[c].item.entry = i
  BY DEF StreamKept
<1>a. stream[i] \in [event : Events, tries : Nat, acked : BOOLEAN] /\ Len(stream) \in Nat
  BY EntryFields, <1>1 DEF TypeOK
<1>2. CASE stream' = stream
  BY <1>2
<1>3. ASSUME NEW e \in Events, Append1(e), read' = read
      PROVE  i \in 1 .. Len(stream') /\ stream'[i] = stream[i]
  BY <1>1, <1>3, <1>a, AppendStep
<1>4. ASSUME NEW k \in 1 .. Len(stream), NEW s, stream' = [stream EXCEPT ![k] = s],
             s.event = stream[k].event
      PROVE  /\ i \in 1 .. Len(stream') /\ stream'[i].event = stream[i].event
             /\ i # k => stream'[i] = stream[i]
             /\ i = k => stream'[i] = s
  <2>1. DOMAIN stream = 1 .. Len(stream)
    BY <1>1, EntryFields
  <2>2. Len(stream') = Len(stream)
    BY <1>4, <2>1, <1>1 DEF TypeOK
  <2> QED
    BY <1>4, <2>1, <2>2, <1>a
<1>5. ASSUME NEW c \in Consumers, NEW item \in consumer[c].todo,
             SkipEntry(c, item) \/ ClaimEntry(c, item)
      PROVE  /\ i \in 1 .. Len(stream') /\ stream'[i].event = stream[i].event
             /\ trimmed = 0 /\ ~stream[i].acked => ~stream'[i].acked
  <2> DEFINE k == item.entry
  <2>1. k \in 1 .. Len(stream) /\ k \in Nat \ {0}
    BY <1>1 DEF TypeOK, Member, Listed
  <2>2. stream[k] \in [event : Events, tries : Nat, acked : BOOLEAN]
        /\ DOMAIN stream = 1 .. Len(stream)
    BY <1>1, <2>1, EntryFields
  <2> DEFINE skip  == [stream[k] EXCEPT !.acked = stream[k].acked \/ k <= trimmed]
             claim == [stream[k] EXCEPT !.tries = stream[k].tries + 1]
  <2>3. \/ stream' = [stream EXCEPT ![k] = skip]
        \/ stream' = [stream EXCEPT ![k] = claim]
    BY <1>5, <2>1, <2>2 DEF SkipEntry, ClaimEntry
  <2>4. /\ skip.event = stream[k].event /\ claim.event = stream[k].event
        /\ trimmed = 0 /\ ~stream[k].acked => ~skip.acked /\ ~claim.acked
    BY <2>1, <2>2
  <2> HIDE DEF k, skip, claim
  <2> QED
    BY <2>1, <2>3, <2>4, <1>4
<1>6. ASSUME NEW c \in Consumers, Ack(c)
      PROVE  /\ i \in 1 .. Len(stream') /\ stream'[i].event = stream[i].event
             /\ ~stream[i].acked =>
                   ~stream'[i].acked \/ (consumer[c].at = "ack" /\ consumer[c].item.entry = i)
  <2> DEFINE k == consumer[c].item.entry
             s == [stream[k] EXCEPT !.acked = TRUE]
  <2>1. k \in 1 .. Len(stream)
    BY <1>1, <1>6, ItemInStream DEF Ack
  <2>2. stream[k] \in [event : Events, tries : Nat, acked : BOOLEAN]
        /\ DOMAIN stream = 1 .. Len(stream)
    BY <1>1, <2>1, EntryFields
  <2>3. stream' = [stream EXCEPT ![k] = s] /\ s.event = stream[k].event
    BY <1>6, <2>1, <2>2 DEF Ack
  <2> HIDE DEF s
  <2>4. /\ i \in 1 .. Len(stream') /\ stream'[i].event = stream[i].event
        /\ i # k => stream'[i] = stream[i]
    BY <1>4, <2>1, <2>3
  <2> QED
    BY <2>4, <1>6 DEF Ack
<1>7. ASSUME NEW c \in Consumers, ReadNew(c)
      PROVE  /\ i \in 1 .. Len(stream') /\ stream'[i].event = stream[i].event
             /\ trimmed = 0 /\ ~stream[i].acked => ~stream'[i].acked
  <2> DEFINE from == IF read < trimmed THEN trimmed ELSE read
             upto == IF from + ConsumerBatch < Len(stream) THEN from + ConsumerBatch ELSE Len(stream)
  <2>1. stream' = [k \in 1 .. Len(stream) |->
                     CASE k \in from + 1 .. upto -> [stream[k] EXCEPT !.tries = 1]
                       [] k \in read + 1 .. from -> [stream[k] EXCEPT !.acked = TRUE]
                       [] OTHER -> stream[k]]
    BY <1>7 DEF ReadNew
  <2>2. trimmed = 0 => i \notin read + 1 .. from
    BY <1>1 DEF TypeOK
  <2>3. stream' \in Seq([event : Events, tries : Nat, acked : BOOLEAN]) /\ TypeOK'
    BY <1>1, <1>7, ConsumerType DEF ConsumerStep, TypeOK
  <2>4. DOMAIN stream' = 1 .. Len(stream') /\ DOMAIN stream' = 1 .. Len(stream)
    BY <2>1, <2>3, LenProperties
  <2> HIDE DEF from, upto
  <2>5. stream'[i].event = stream[i].event /\ (trimmed = 0 /\ ~stream[i].acked => ~stream'[i].acked)
    BY <2>1, <2>2, <1>a
  <2> QED
    BY <2>4, <2>5
<1>8. ASSUME NEW c \in Consumers, ConsumerStep(c), stream' # stream
      PROVE  \/ Ack(c) \/ ReadNew(c)
             \/ \E item \in consumer[c].todo : SkipEntry(c, item) \/ ClaimEntry(c, item)
  BY <1>8 DEF ConsumerStep, ListPending, TakeFresh, Check, Handle, Insert, Mark, Fail, Bury,
              streamVars
<1>9. ASSUME NEW r \in Relays, stream' # stream,
             RelayStep(r) \/ RelayCrash(r) \/ \E e \in Events : XAddFails(r, e)
      PROVE  \E e \in Events : Append1(e) /\ read' = read
  BY <1>9 DEF RelayStep, RelayCrash, XAdd, XAddFails, Claim, Settle, streamVars
<1>10. ASSUME NEW o \in Operators, OperatorStep(o) PROVE stream' = stream
  BY <1>10 DEF OperatorStep, Open, ReplayCheck, ReplayHandle, ReplayInsert, ReplayRecord, Decide,
               GiveUp, streamVars
<1>11. ASSUME NEW e \in Events, Commit(e) \/ Wake(e) PROVE stream' = stream
  BY <1>11 DEF Commit, Wake, streamVars
<1>12. ASSUME NEW c \in Consumers, ConsumerCrash(c) PROVE stream' = stream
  BY <1>12 DEF ConsumerCrash, streamVars
<1>13. CASE UNCHANGED vars
  BY <1>2, <1>13 DEF vars, streamVars
<1> QED
  BY <1>1, <1>2, <1>3, <1>5, <1>6, <1>7, <1>8, <1>9, <1>10, <1>11, <1>12, <1>13 DEF Next

\* The tables only fill up.
TablesKept ==
    /\ processed \subseteq processed'
    /\ \A e \in Events :
          /\ outbox[e] # "absent" => outbox'[e] # "absent"
          /\ dead[e] # "none" => dead'[e] # "none"
          /\ posted[e] <= posted'[e]
    /\ trimmed <= trimmed'

LEMMA TablesStep == TypeOK /\ [Next]_vars => TablesKept
<1>1. SUFFICES ASSUME TypeOK, [Next]_vars PROVE TablesKept
  OBVIOUS
<1>a. (\A e \in Events : posted[e] \in Nat) /\ trimmed \in Nat
  BY <1>1 DEF TypeOK
<1>2. ASSUME NEW e \in Events, Commit(e) \/ Wake(e) PROVE TablesKept
  BY <1>1, <1>a, <1>2 DEF Commit, Wake, TablesKept, TypeOK, streamVars, tables
<1>3. ASSUME NEW r \in Relays,
             RelayStep(r) \/ RelayCrash(r) \/ \E e \in Events : XAddFails(r, e)
      PROVE  TablesKept
  <2>1. UNCHANGED tables
    BY <1>3 DEF RelayStep, RelayCrash, Claim, Settle, XAdd, XAddFails
  <2>2. trimmed' = trimmed \/ \E e \in Events : Append1(e) /\ read' = read
    BY <1>3 DEF RelayStep, RelayCrash, Claim, Settle, XAdd, XAddFails, streamVars
  <2>3. trimmed <= trimmed'
    BY <1>1, <1>a, <2>2, AppendStep
  <2>4. outbox' = outbox \/ Settle(r)
    BY <1>3 DEF RelayStep, RelayCrash, Claim, XAdd, XAddFails
  <2>5. \A e \in Events : outbox[e] # "absent" => outbox'[e] # "absent"
    BY <2>4 DEF Settle, Outcome
  <2> QED
    BY <1>a, <2>1, <2>3, <2>5 DEF TablesKept, tables
<1>4. ASSUME NEW c \in Consumers, ConsumerStep(c) \/ ConsumerCrash(c) PROVE TablesKept
  <2>1. outbox' = outbox /\ trimmed' = trimmed
    BY <1>4 DEF ConsumerStep, ConsumerCrash, ListPending, SkipEntry, ClaimEntry, TakeFresh, ReadNew,
                Check, Handle, Insert, Mark, Ack, Fail, Bury, relayVars, streamVars
  <2>2. UNCHANGED tables \/ Insert(c) \/ Mark(c) \/ Bury(c)
    BY <1>4 DEF ConsumerStep, ConsumerCrash, ListPending, SkipEntry, ClaimEntry, TakeFresh, ReadNew,
                Check, Handle, Ack, Fail
  <2>3. CASE UNCHANGED tables
    BY <1>a, <2>1, <2>3 DEF TablesKept, tables
  <2>4. CASE Insert(c)
    <3>1. /\ UNCHANGED <<processed, dead>>
          /\ posted' = posted \/ posted' = [posted EXCEPT ![EventOf(c)] = @ + 1]
      BY <2>4 DEF Insert
    <3>a. posted \in [Events -> Nat]
      BY <1>1 DEF TypeOK
    <3>2. \A e \in Events : posted[e] <= posted'[e]
      BY <3>a, <3>1
    <3> QED
      BY <2>1, <3>1, <3>2, <1>a DEF TablesKept
  <2>5. CASE Mark(c)
    BY <1>a, <2>1, <2>5 DEF Mark, TablesKept
  <2>6. CASE Bury(c)
    <3>1. /\ UNCHANGED <<processed, posted>>
          /\ dead' = [dead EXCEPT ![EventOf(c)] = Buried(EventOf(c))]
      BY <2>6 DEF Bury
    <3>2. \A e \in Events : dead[e] # "none" => dead'[e] # "none"
      BY <1>1, <3>1 DEF TypeOK, Buried
    <3> QED
      BY <2>1, <3>1, <3>2, <1>a DEF TablesKept
  <2> QED
    BY <2>2, <2>3, <2>4, <2>5, <2>6
<1>5. ASSUME NEW o \in Operators, OperatorStep(o) PROVE TablesKept
  <2>1. outbox' = outbox /\ trimmed' = trimmed
    BY <1>5 DEF OperatorStep, Open, ReplayCheck, ReplayHandle, ReplayInsert, ReplayRecord, Decide,
                GiveUp, relayVars, streamVars
  <2>2. processed \subseteq processed'
    BY <1>5 DEF OperatorStep, Open, ReplayCheck, ReplayHandle, ReplayInsert, ReplayRecord, Decide,
                GiveUp, tables
  <2>3. \A e \in Events : dead[e] # "none" => dead'[e] # "none"
    <3>1. dead' = dead \/ ReplayRecord(o) \/ Decide(o)
      BY <1>5 DEF OperatorStep, Open, ReplayCheck, ReplayHandle, ReplayInsert, GiveUp, tables
    <3> QED
      BY <1>1, <3>1 DEF ReplayRecord, Decide, TypeOK
  <2>4. \A e \in Events : posted[e] <= posted'[e]
    <3>1. posted' = posted \/ posted' = [posted EXCEPT ![operator[o].event] = @ + 1]
      BY <1>5 DEF OperatorStep, Open, ReplayCheck, ReplayHandle, ReplayInsert, ReplayRecord, Decide,
                  GiveUp, tables
    <3>2. posted \in [Events -> Nat]
      BY <1>1 DEF TypeOK
    <3> QED
      BY <3>1, <3>2
  <2> QED
    BY <1>a, <2>1, <2>2, <2>3, <2>4 DEF TablesKept
<1>6. CASE UNCHANGED vars
  BY <1>a, <1>6 DEF TablesKept, vars, relayVars, streamVars, tables
<1> QED
  BY <1>1, <1>2, <1>3, <1>4, <1>5, <1>6 DEF Next

\* Who moves: one member, or nobody.
LEMMA OthersWait ==
    ASSUME TypeOK, NEW c \in Consumers, ConsumerStep(c) \/ ConsumerCrash(c)
    PROVE  \A d \in Consumers : d # c => consumer'[d] = consumer[d]
<1>a. consumer \in [Consumers -> Member(read)]
  BY DEF TypeOK
<1>1. ASSUME NEW where, Goto(c, where) \/ Done(c) \/ ConsumerCrash(c) \/ ReadNew(c)
      PROVE  \A d \in Consumers : d # c => consumer'[d] = consumer[d]
  BY <1>a, <1>1 DEF Goto, Done, ConsumerCrash, ReadNew
<1>2. ASSUME NEW item, NEW where, SkipEntry(c, item) \/ Take(c, item, where)
      PROVE  \A d \in Consumers : d # c => consumer'[d] = consumer[d]
  BY <1>a, <1>2 DEF SkipEntry, Take
<1>3. ASSUME NEW idle, ListPending(c, idle)
      PROVE  \A d \in Consumers : d # c => consumer'[d] = consumer[d]
  BY <1>a, <1>3 DEF ListPending
<1>4. \/ \E where : Goto(c, where) \/ Done(c) \/ ConsumerCrash(c) \/ ReadNew(c)
      \/ \E item, where : SkipEntry(c, item) \/ Take(c, item, where)
      \/ \E idle : ListPending(c, idle)
  BY DEF ConsumerStep, ClaimEntry, TakeFresh, Check, Handle, Insert, Mark, Ack, Fail, Failed, Bury
<1> QED
  BY <1>1, <1>2, <1>3, <1>4

LEMMA OthersIdle ==
    ASSUME TypeOK, NEW o \in Operators, OperatorStep(o)
    PROVE  \A p \in Operators : p # o => operator'[p] = operator[p]
<1>1. \/ \E m : operator' = [operator EXCEPT ![o] = m]
  BY DEF OperatorStep, Open, ReplayCheck, ReplayHandle, ReplayInsert, ReplayRecord, Decide, GiveUp,
         Do, Leave, TypeOK
<1> QED
  BY <1>1 DEF TypeOK

LEMMA OnlyMembersMove ==
    ASSUME TypeOK, [Next]_vars
    PROVE  /\ consumer' = consumer \/ \E c \in Consumers : ConsumerStep(c) \/ ConsumerCrash(c)
           /\ operator' = operator \/ \E o \in Operators : OperatorStep(o)
           /\ relay' = relay \/ \E r \in Relays :
                 RelayStep(r) \/ RelayCrash(r) \/ \E e \in Events : XAddFails(r, e)
BY DEF Next, vars, relayVars, streamVars, Commit, Wake, RelayStep, RelayCrash, Claim, Settle, XAdd, XAddFails,
       ConsumerStep, ConsumerCrash, ListPending, SkipEntry, ClaimEntry, TakeFresh, ReadNew, Check,
       Handle, Insert, Mark, Ack, Fail, Bury, OperatorStep, Open, ReplayCheck, ReplayHandle,
       ReplayInsert, ReplayRecord, Decide, GiveUp

-----------------------------------------------------------------------------
(* Posted at most once, and processed only when posted *)

PostedInv ==
    /\ \A e \in Events : posted[e] <= 1
    /\ \A e \in processed : posted[e] = 1
    /\ \A c \in Consumers : consumer[c].at = "mark" => posted[EventOf(c)] = 1
    /\ \A o \in Operators : operator[o].at = "record" => posted[operator[o].event] = 1

\* Members keep the event of their entry while they work on it.
LEMMA EventStays ==
    ASSUME TypeOK, StreamKept, NEW c \in Consumers, consumer[c].at # "next",
           consumer'[c].item = consumer[c].item
    PROVE  EventOf(c)' = EventOf(c)
<1>1. consumer[c].item.entry \in 1 .. Len(stream)
  BY ItemInStream
<1> QED
  BY <1>1 DEF EventOf, StreamKept

\* Where a working member goes, with its entry.
LEMMA MemberMoves ==
    ASSUME TypeOK, NEW c \in Consumers, ConsumerStep(c) \/ ConsumerCrash(c),
           consumer'[c].at # "next"
    PROVE  \/ consumer[c].at = "next" /\ consumer'[c].at \in {"check", "bury"}
           \/ /\ consumer[c].at # "next" /\ consumer'[c].item = consumer[c].item
              /\ \/ Check(c) \/ Handle(c) \/ Insert(c) \/ Mark(c) \/ Bury(c)
<1>a. consumer[c] \in Member(read) /\ consumer \in [Consumers -> Member(read)]
  BY DEF TypeOK
<1>b. \A where : Goto(c, where) => consumer'[c].item = consumer[c].item
  BY <1>a DEF Goto, Member
<1>c. Done(c) => consumer'[c].at = "next"
  BY <1>a DEF Done, Member
<1>1. ASSUME Check(c) \/ Handle(c) \/ Insert(c) \/ Mark(c) \/ Bury(c)
      PROVE  consumer[c].at # "next" /\ consumer'[c].item = consumer[c].item
  BY <1>1, <1>b, <1>c DEF Check, Handle, Insert, Mark, Bury
<1>2. ASSUME NEW item, ClaimEntry(c, item) \/ TakeFresh(c, item)
      PROVE  consumer[c].at = "next" /\ consumer'[c].at \in {"check", "bury"}
  BY <1>a, <1>2 DEF ClaimEntry, TakeFresh, Turn, Take, Member
<1>3. ASSUME NEW item, SkipEntry(c, item) PROVE FALSE
  BY <1>a, <1>3 DEF SkipEntry, Turn, Member
<1>4. ASSUME ReadNew(c) \/ ConsumerCrash(c) \/ Ack(c) \/ Fail(c) PROVE FALSE
  BY <1>a, <1>c, <1>4 DEF ReadNew, ConsumerCrash, Ack, Fail, Failed, Member, Polling
<1>5. ASSUME NEW idle, ListPending(c, idle) PROVE FALSE
  BY <1>a, <1>5 DEF ListPending, Polling, Member
<1> QED
  BY <1>1, <1>2, <1>3, <1>4, <1>5 DEF ConsumerStep

\* What a step adds to the tables.
LEMMA PostedBy ==
    ASSUME TypeOK, [Next]_vars
    PROVE  \/ posted' = posted
           \/ \E e \in Events : posted[e] = 0 /\ posted' = [posted EXCEPT ![e] = @ + 1]
<1>1. ASSUME NEW c \in Consumers, Insert(c)
      PROVE \/ posted' = posted
            \/ \E e \in Events : posted[e] = 0 /\ posted' = [posted EXCEPT ![e] = @ + 1]
  BY <1>1, ItemInStream DEF Insert, Postable
<1>2. ASSUME NEW o \in Operators, ReplayInsert(o)
      PROVE \/ posted' = posted
            \/ \E e \in Events : posted[e] = 0 /\ posted' = [posted EXCEPT ![e] = @ + 1]
  <2>1. operator[o].event \in Events
    BY <1>2 DEF ReplayInsert, TypeOK, Away, Visit
  <2> QED
    BY <1>2, <2>1 DEF ReplayInsert, Postable
<1>3. \/ posted' = posted
      \/ \E c \in Consumers : Insert(c)
      \/ \E o \in Operators : ReplayInsert(o)
  BY DEF Next, vars, tables, Commit, Wake, RelayStep, RelayCrash, Claim, Settle, XAdd, XAddFails,
         ConsumerStep, ConsumerCrash, ListPending, SkipEntry, ClaimEntry, TakeFresh, ReadNew, Check,
         Handle, Mark, Ack, Fail, Bury, OperatorStep, Open, ReplayCheck, ReplayHandle, ReplayRecord,
         Decide, GiveUp
<1> QED
  BY <1>1, <1>2, <1>3

LEMMA ProcessedBy ==
    ASSUME TypeOK, PostedInv, [Next]_vars, NEW e \in processed' \ processed
    PROVE  posted[e] = 1
<1>1. \/ \E c \in Consumers : Mark(c)
      \/ \E o \in Operators : ReplayRecord(o)
  BY DEF Next, vars, tables, Commit, Wake, RelayStep, RelayCrash, Claim, Settle, XAdd, XAddFails,
         ConsumerStep, ConsumerCrash, ListPending, SkipEntry, ClaimEntry, TakeFresh, ReadNew, Check,
         Handle, Insert, Ack, Fail, Bury, OperatorStep, Open, ReplayCheck, ReplayHandle,
         ReplayInsert, Decide, GiveUp
<1> QED
  BY <1>1 DEF Mark, ReplayRecord, PostedInv

LEMMA PostedStep ==
    ASSUME TypeOK, PostedInv, [Next]_vars
    PROVE  PostedInv'
<1>a. posted \in [Events -> Nat] /\ StreamKept /\ TablesKept /\ TypeOK'
  BY StreamStep, TablesStep, NextType DEF TypeOK
<1>1. \A e \in Events : posted'[e] <= 1 /\ (posted[e] = 1 => posted'[e] = 1)
  <2>1. \A e \in Events : posted[e] <= 1
    BY DEF PostedInv
  <2>2. CASE posted' = posted
    BY <2>1, <2>2
  <2>3. ASSUME NEW e \in Events, posted[e] = 0, posted' = [posted EXCEPT ![e] = @ + 1]
        PROVE  \A f \in Events : posted'[f] <= 1 /\ (posted[f] = 1 => posted'[f] = 1)
    BY <1>a, <2>1, <2>3
  <2> QED
    BY <2>2, <2>3, PostedBy
<1>2. \A e \in processed' : posted'[e] = 1
  <2>1. processed' \subseteq Events
    BY <1>a DEF TypeOK
  <2>2. \A e \in processed' : posted[e] = 1
    BY ProcessedBy DEF PostedInv
  <2> QED
    BY <1>1, <2>1, <2>2
<1>3. ASSUME NEW c \in Consumers, consumer'[c].at = "mark"
      PROVE  posted'[EventOf(c)'] = 1
  <2>1. CASE consumer'[c] = consumer[c]
    <3>1. EventOf(c)' = EventOf(c) /\ EventOf(c) \in Events /\ posted[EventOf(c)] = 1
      BY <1>a, <1>3, <2>1, EventStays, ItemInStream DEF PostedInv
    <3> QED
      BY <1>1, <3>1
  <2>2. CASE consumer'[c] # consumer[c]
    <3>1. ConsumerStep(c) \/ ConsumerCrash(c)
      BY <2>2, OnlyMembersMove, OthersWait
    <3>2. /\ consumer[c].at # "next" /\ consumer'[c].item = consumer[c].item
          /\ Check(c) \/ Handle(c) \/ Insert(c) \/ Mark(c) \/ Bury(c)
      BY <1>3, <3>1, MemberMoves
    <3>3. EventOf(c)' = EventOf(c) /\ EventOf(c) \in Events
      BY <1>a, <3>2, EventStays, ItemInStream
    <3>4. consumer[c] \in Member(read) /\ consumer \in [Consumers -> Member(read)]
      BY DEF TypeOK
    <3>5. CASE Handle(c)
      <4>1. posted[EventOf(c)] > 0
        BY <1>3, <3>4, <3>5 DEF Handle, Goto, Member
      <4> QED
        BY <1>1, <1>a, <3>3, <4>1 DEF PostedInv
    <3>6. CASE Insert(c)
      <4>1. posted[EventOf(c)] = 0 /\ posted' = [posted EXCEPT ![EventOf(c)] = @ + 1]
        BY <1>3, <3>4, <3>6 DEF Insert, Done, Postable, Member
      <4> DEFINE e == EventOf(c)
      <4>2. e \in Events /\ posted[e] = 0 /\ posted' = [posted EXCEPT ![e] = @ + 1]
        BY <3>3, <4>1
      <4> HIDE DEF e
      <4>3. posted'[e] = 1
        BY <1>a, <4>2
      <4> QED
        BY <3>3, <4>3 DEF e
    <3>7. CASE Check(c) \/ Mark(c) \/ Bury(c)
      BY <1>3, <3>4, <3>7 DEF Check, Mark, Bury, Goto, Member
    <3> QED
      BY <3>2, <3>5, <3>6, <3>7
  <2> QED
    BY <2>1, <2>2
<1>4. ASSUME NEW o \in Operators, operator'[o].at = "record"
      PROVE  posted'[operator'[o].event] = 1
  <2>1. operator'[o].event \in Events
    BY <1>a, <1>4 DEF TypeOK, Away, Visit
  <2>2. CASE operator'[o] = operator[o]
    BY <1>1, <1>4, <2>1, <2>2 DEF PostedInv
  <2>3. CASE operator'[o] # operator[o]
    <3>1. OperatorStep(o) /\ operator \in [Operators -> {Away} \cup Visit]
      BY <2>3, OnlyMembersMove, OthersIdle DEF TypeOK
    <3>2. operator[o] \in Visit \/ operator[o] = Away
      BY <3>1
    <3>3. ASSUME NEW where, Do(o, where), operator[o].at # "away"
          PROVE  operator'[o].event = operator[o].event /\ operator'[o].at = where
      BY <3>1, <3>2, <3>3 DEF Do, Visit, Away
    <3>4. Leave(o) => operator'[o].at = "away"
      BY <3>1 DEF Leave, Away
    <3>5. CASE ReplayHandle(o)
      <4>1. operator'[o].event = operator[o].event /\ posted[operator[o].event] > 0
        BY <1>4, <3>3, <3>5 DEF ReplayHandle
      <4> QED
        BY <1>1, <1>a, <2>1, <4>1 DEF PostedInv
    <3>6. CASE ReplayInsert(o)
      <4> DEFINE e == operator[o].event
      <4>1. /\ operator'[o].event = e
            /\ posted[e] = 0 /\ posted' = [posted EXCEPT ![e] = @ + 1]
        BY <1>4, <3>3, <3>4, <3>6 DEF ReplayInsert, Postable
      <4> HIDE DEF e
      <4> QED
        BY <1>a, <2>1, <4>1
    <3>7. CASE ReplayCheck(o)
      BY <1>4, <3>3, <3>7 DEF ReplayCheck
    <3>8. CASE ReplayRecord(o) \/ Decide(o) \/ GiveUp(o)
      BY <1>4, <3>4, <3>8 DEF ReplayRecord, Decide, GiveUp
    <3>9. ASSUME NEW e, NEW what \in {"replay", "resolve", "discard"}, Open(o, e, what)
          PROVE  operator'[o].at # "record"
      BY <3>1, <3>9 DEF Open
    <3> QED
      BY <1>4, <3>1, <3>5, <3>6, <3>7, <3>8, <3>9 DEF OperatorStep
  <2> QED
    BY <2>2, <2>3
<1> QED
  BY <1>1, <1>2, <1>3, <1>4 DEF PostedInv

\* Whatever is retried, stolen or replayed, an event is posted at most once, and
\* processed_events holds it only if it was.
THEOREM PostedOnce == Spec => []ProcessedIsPostedOnce
<1>1. Init => TypeOK /\ PostedInv
  <2>1. SUFFICES ASSUME Init PROVE PostedInv
    BY InitType
  <2> QED
    BY <2>1 DEF Init, PostedInv, Polling, Away
<1>2. TypeOK /\ PostedInv /\ [Next]_vars => TypeOK' /\ PostedInv'
  BY NextType, PostedStep
<1>3. TypeOK /\ PostedInv => ProcessedIsPostedOnce
  BY DEF PostedInv, ProcessedIsPostedOnce
<1> QED
  BY <1>1, <1>2, <1>3, PTL DEF Spec

-----------------------------------------------------------------------------
(* Everything on its way was committed *)

CommittedInv ==
    /\ \A i \in 1 .. Len(stream) : outbox[stream[i].event] # "absent"
    /\ \A r \in Relays : \A e \in relay[r].claimed \cup relay[r].todo : outbox[e] # "absent"
    /\ \A e \in Events : dead[e] # "none" => outbox[e] # "absent"
    /\ \A o \in Operators : operator[o] # Away => dead[operator[o].event] # "none"

\* A new entry of the stream is of an event that a relay holds.
LEMMA NewEntry ==
    ASSUME TypeOK, [Next]_vars, NEW i \in 1 .. Len(stream'), i \notin 1 .. Len(stream)
    PROVE  \E r \in Relays : stream'[i].event \in relay[r].todo
<1>1. PICK r \in Relays, e \in Events : Append1(e) /\ e \in relay[r].todo /\ read' = read
  <2>a. Len(stream') # Len(stream)
    OBVIOUS
  <2>1. \/ \E r \in Relays, e \in Events : XAdd(r, e) \/ XAddFails(r, e)
        \/ \E c \in Consumers : ConsumerStep(c)
        \/ stream' = stream
    BY DEF Next, vars, streamVars, Commit, Wake, RelayStep, RelayCrash, Claim, Settle, ConsumerCrash,
           OperatorStep, Open, ReplayCheck, ReplayHandle, ReplayInsert, ReplayRecord, Decide, GiveUp
  <2>2. ASSUME NEW c \in Consumers, ConsumerStep(c) PROVE Len(stream') = Len(stream)
    <3>a. stream \in Seq([event : Events, tries : Nat, acked : BOOLEAN])
          /\ stream' \in Seq([event : Events, tries : Nat, acked : BOOLEAN])
      BY <2>2, ConsumerType DEF TypeOK
    <3>1. DOMAIN stream' = DOMAIN stream
      <4>1. DOMAIN stream = 1 .. Len(stream)
        BY <3>a, LenProperties
      <4>2. \/ stream' = stream
            \/ \E k, s : stream' = [stream EXCEPT ![k] = s]
            \/ ReadNew(c)
        BY <2>2 DEF ConsumerStep, ListPending, SkipEntry, ClaimEntry, TakeFresh, Check, Handle, Insert,
                    Mark, Ack, Fail, Bury, streamVars
      <4> QED
        BY <4>1, <4>2 DEF ReadNew
    <3> QED
      BY <3>a, <3>1, LenProperties
  <2>3. PICK r \in Relays, e \in Events : XAdd(r, e) \/ XAddFails(r, e)
    BY <2>a, <2>1, <2>2
  <2>4. e \in relay[r].todo /\ read' = read /\ (Append1(e) \/ stream' = stream)
    BY <2>3 DEF XAdd, XAddFails, Due
  <2> QED
    BY <2>a, <2>4
<1>2. i = Len(stream) + 1 /\ stream'[i] = Entry(e)
  BY <1>1, AppendStep DEF TypeOK
<1> QED
  BY <1>1, <1>2 DEF Entry

LEMMA CommittedStep ==
    ASSUME TypeOK, CommittedInv, [Next]_vars
    PROVE  CommittedInv'
<1>a. StreamKept /\ TablesKept /\ TypeOK'
  BY StreamStep, TablesStep, NextType
<1>1. ASSUME NEW i \in 1 .. Len(stream') PROVE outbox'[stream'[i].event] # "absent"
  <2>a. stream'[i].event \in Events
    <3> DEFINE S == [event : Events, tries : Nat, acked : BOOLEAN]
    <3>1. stream' \in Seq(S)
      BY <1>a DEF TypeOK
    <3> HIDE DEF S
    <3>2. stream'[i] \in S
      BY <3>1, ElementOfSeq
    <3> QED
      BY <3>2 DEF S
  <2>1. CASE i \in 1 .. Len(stream)
    BY <1>a, <2>a, <2>1 DEF StreamKept, TablesKept, CommittedInv
  <2>2. CASE i \notin 1 .. Len(stream)
    BY <1>a, <2>a, <2>2, NewEntry DEF TablesKept, CommittedInv
  <2> QED
    BY <2>1, <2>2
<1>2. ASSUME NEW r \in Relays, NEW e \in relay'[r].claimed \cup relay'[r].todo
      PROVE  outbox'[e] # "absent"
  <2>a. e \in Events /\ relay \in [Relays -> Batch]
    BY <1>a DEF TypeOK, Batch
  <2>1. CASE e \in relay[r].claimed \cup relay[r].todo
    BY <1>a, <2>a, <2>1 DEF TablesKept, CommittedInv
  <2>2. CASE e \notin relay[r].claimed \cup relay[r].todo
    <3>1. PICK q \in Relays : RelayStep(q) \/ RelayCrash(q) \/ \E f \in Events : XAddFails(q, f)
      BY <2>2, OnlyMembersMove
    <3>2. Claim(q)
      <4>1. ASSUME NEW f, XAdd(q, f) \/ XAddFails(q, f) PROVE FALSE
        BY <2>a, <2>2, <4>1 DEF XAdd, XAddFails, Batch
      <4>2. ASSUME Settle(q) \/ RelayCrash(q) PROVE FALSE
        BY <2>a, <2>2, <4>2 DEF Settle, RelayCrash, Resting
      <4> QED
        BY <3>1, <4>1, <4>2 DEF RelayStep
    <3>3. outbox[e] = "due"
      <4> DEFINE batch == First({f \in Events \ Locked : outbox[f] = "due"}, RelayBatch)
      <4>1. relay' = [relay EXCEPT ![q] = [claimed |-> batch, todo |-> batch, failed |-> FALSE]]
        BY <3>2 DEF Claim
      <4>2. \A f \in batch : outbox[f] = "due"
        BY DEF First
      <4> HIDE DEF batch
      <4>3. e \in batch
        BY <2>a, <2>2, <4>1
      <4> QED
        BY <4>2, <4>3
    <3> QED
      BY <1>a, <2>a, <3>3 DEF TablesKept
  <2> QED
    BY <2>1, <2>2
<1>3. ASSUME NEW e \in Events, dead'[e] # "none" PROVE outbox'[e] # "absent"
  <2>1. CASE dead[e] # "none"
    BY <1>a, <2>1 DEF TablesKept, CommittedInv
  <2>2. CASE dead[e] = "none"
    <3>1. \/ \E c \in Consumers : Bury(c)
          \/ \E o \in Operators : ReplayRecord(o) \/ Decide(o)
      BY <1>3, <2>2 DEF Next, vars, tables, Commit, Wake, RelayStep, RelayCrash, Claim, Settle, XAdd,
         XAddFails, ConsumerStep, ConsumerCrash, ListPending, SkipEntry, ClaimEntry, TakeFresh, ReadNew,
         Check, Handle, Insert, Mark, Ack, Fail, OperatorStep, Open, ReplayCheck, ReplayHandle,
         ReplayInsert, GiveUp
    <3>2. ASSUME NEW c \in Consumers, Bury(c) PROVE outbox[e] # "absent"
      <4>1. consumer[c].item.entry \in 1 .. Len(stream) /\ EventOf(c) \in Events
        BY <3>2, ItemInStream DEF Bury
      <4>2. e = EventOf(c)
        BY <1>3, <2>2, <3>2, <4>1 DEF Bury, TypeOK
      <4> QED
        BY <4>1, <4>2 DEF EventOf, CommittedInv
    <3>3. ASSUME NEW o \in Operators, ReplayRecord(o) \/ Decide(o) PROVE FALSE
      <4>1. operator[o] # Away /\ operator[o].event \in Events
        BY <3>3 DEF ReplayRecord, Decide, TypeOK, Away, Visit
      <4>2. dead[operator[o].event] # "none"
        BY <4>1 DEF CommittedInv
      <4> QED
        BY <1>3, <2>2, <3>3, <4>1, <4>2 DEF ReplayRecord, Decide, TypeOK
    <3> QED
      BY <1>a, <3>1, <3>2, <3>3 DEF TablesKept
  <2> QED
    BY <2>1, <2>2
<1>4. ASSUME NEW o \in Operators, operator'[o] # Away PROVE dead'[operator'[o].event] # "none"
  <2>a. operator \in [Operators -> {Away} \cup Visit] /\ operator'[o].event \in Events
    BY <1>a, <1>4 DEF TypeOK, Visit
  <2>1. CASE operator[o] # Away /\ operator'[o].event = operator[o].event
    BY <1>a, <2>a, <2>1 DEF TablesKept, CommittedInv
  <2>2. CASE ~(operator[o] # Away /\ operator'[o].event = operator[o].event)
    <3>1. OperatorStep(o)
      BY <1>4, <2>2, OnlyMembersMove, OthersIdle
    <3>2. ASSUME NEW where, Do(o, where), operator[o].at # "away" PROVE FALSE
      BY <2>a, <2>2, <3>2 DEF Do, Away, Visit
    <3>3. ~Leave(o)
      BY <1>4, <2>a DEF Leave
    <3>4. \E e \in Events, what \in {"replay", "resolve", "discard"} : Open(o, e, what)
      BY <3>1, <3>2, <3>3 DEF OperatorStep, ReplayCheck, ReplayHandle, ReplayInsert, ReplayRecord,
                              Decide, GiveUp
    <3>5. PICK e \in Events, what \in {"replay", "resolve", "discard"} : Open(o, e, what)
      BY <3>4
    <3>6. operator'[o].event = e /\ dead[e] = "PENDING"
      BY <2>a, <3>5 DEF Open
    <3> QED
      BY <1>a, <3>6 DEF TablesKept
  <2> QED
    BY <2>1, <2>2
<1> QED
  BY <1>1, <1>2, <1>3, <1>4 DEF CommittedInv

-----------------------------------------------------------------------------
(* While the stream keeps its entries, nothing is lost *)

Recorded(e) == e \in processed \/ dead[e] # "none"
Kept(e) == InFlight(e) \/ Recorded(e)

LossInv ==
    trimmed = 0 =>
        /\ \A e \in Events : outbox[e] = "published" => Kept(e)
        /\ \A r \in Relays : ~relay[r].failed =>
              \A e \in relay[r].claimed \ relay[r].todo : Kept(e)
        /\ \A c \in Consumers : consumer[c].at = "ack" => Recorded(EventOf(c))

\* What the group may still get to, or has recorded, stays so.
LEMMA KeptStep ==
    ASSUME TypeOK, LossInv, [Next]_vars, trimmed' = 0, NEW e \in Events, Kept(e)
    PROVE  Kept(e)'
<1>a. StreamKept /\ TablesKept /\ trimmed = 0
  BY StreamStep, TablesStep DEF TablesKept, TypeOK
<1>1. CASE Recorded(e)
  BY <1>a, <1>1 DEF Recorded, Kept, TablesKept
<1>2. CASE InFlight(e)
  <2>1. PICK i \in 1 .. Len(stream) : stream[i].event = e /\ ~stream[i].acked
    BY <1>a, <1>2 DEF InFlight
  <2>2. /\ i \in 1 .. Len(stream') /\ stream'[i].event = e
        /\ \/ ~stream'[i].acked
           \/ \E c \in Consumers : consumer[c].at = "ack" /\ consumer[c].item.entry = i
    BY <1>a, <2>1 DEF StreamKept
  <2>3. CASE ~stream'[i].acked
    BY <2>2, <2>3 DEF InFlight, Kept
  <2>4. ASSUME NEW c \in Consumers, consumer[c].at = "ack", consumer[c].item.entry = i
        PROVE  Recorded(e)
    BY <1>a, <2>1, <2>4 DEF LossInv, EventOf
  <2> QED
    BY <1>1, <2>2, <2>3, <2>4
<1> QED
  BY <1>1, <1>2 DEF Kept

LEMMA LossStep ==
    ASSUME TypeOK, LossInv, [Next]_vars
    PROVE  LossInv'
<1>a. StreamKept /\ TablesKept /\ TypeOK'
  BY StreamStep, TablesStep, NextType
<1>b. SUFFICES ASSUME trimmed' = 0 PROVE LossInv'
  BY DEF LossInv
<1>c. trimmed = 0
  BY <1>a, <1>b DEF TablesKept, TypeOK
<1>1. ASSUME NEW e \in Events, outbox'[e] = "published" PROVE Kept(e)'
  <2>1. CASE outbox[e] = "published"
    BY <1>b, <1>c, <2>1, KeptStep DEF LossInv
  <2>2. CASE outbox[e] # "published"
    <3>1. \/ \E f \in Events : Commit(f) \/ Wake(f)
          \/ \E r \in Relays : Settle(r)
      BY <1>1, <2>2 DEF Next, vars, relayVars, RelayStep, RelayCrash, Claim, XAdd, XAddFails,
         ConsumerStep, ConsumerCrash, ListPending, SkipEntry, ClaimEntry, TakeFresh, ReadNew,
         Check, Handle, Insert, Mark, Ack, Fail, Bury, OperatorStep, Open, ReplayCheck, ReplayHandle,
         ReplayInsert, ReplayRecord, Decide, GiveUp
    <3>2. PICK r \in Relays : Settle(r)
      BY <1>1, <2>2, <3>1 DEF Commit, Wake, TypeOK
    <3>3. e \in relay[r].claimed \ relay[r].todo /\ ~relay[r].failed
      BY <1>1, <2>2, <3>2 DEF Settle, Outcome
    <3> QED
      BY <1>b, <1>c, <3>3, KeptStep DEF LossInv
  <2> QED
    BY <2>1, <2>2
<1>2. ASSUME NEW r \in Relays, ~relay'[r].failed, NEW e \in relay'[r].claimed \ relay'[r].todo
      PROVE  Kept(e)'
  <2>a. e \in Events /\ relay \in [Relays -> Batch]
    BY <1>a DEF TypeOK, Batch
  <2>1. CASE ~relay[r].failed /\ e \in relay[r].claimed \ relay[r].todo
    BY <1>b, <1>c, <2>a, <2>1, KeptStep DEF LossInv
  <2>2. CASE ~(~relay[r].failed /\ e \in relay[r].claimed \ relay[r].todo)
    <3>1. PICK q \in Relays : RelayStep(q) \/ RelayCrash(q) \/ \E f \in Events : XAddFails(q, f)
      BY <1>2, <2>2, OnlyMembersMove
    <3>2. ASSUME Claim(q) PROVE FALSE
      <4> DEFINE batch == First({f \in Events \ Locked : outbox[f] = "due"}, RelayBatch)
      <4>1. relay' = [relay EXCEPT ![q] = [claimed |-> batch, todo |-> batch, failed |-> FALSE]]
        BY <3>2 DEF Claim
      <4> HIDE DEF batch
      <4> QED
        BY <1>2, <2>a, <2>2, <4>1
    <3>3. ASSUME Settle(q) \/ RelayCrash(q) PROVE FALSE
      BY <1>2, <2>a, <2>2, <3>3 DEF Settle, RelayCrash, Resting
    <3>4. ASSUME NEW f \in Events, XAddFails(q, f) PROVE FALSE
      <4>1. relay' = [relay EXCEPT ![q].todo = @ \ {f}, ![q].failed = TRUE]
        BY <3>4 DEF XAddFails
      <4> QED
        BY <1>2, <2>a, <2>2, <4>1 DEF Batch
    <3>5. PICK f \in Events : XAdd(q, f)
      BY <3>1, <3>2, <3>3, <3>4 DEF RelayStep
    <3>6. e = f
      BY <1>2, <2>a, <2>2, <3>5 DEF XAdd, Batch
    <3>7. Append1(f) /\ read' = read
      BY <3>5 DEF XAdd
    <3>8. /\ Len(stream') = Len(stream) + 1 /\ Len(stream) \in Nat
          /\ stream'[Len(stream) + 1] = Entry(f)
      BY <3>7, AppendStep DEF TypeOK
    <3> QED
      BY <1>b, <3>6, <3>8 DEF Entry, Kept, InFlight
  <2> QED
    BY <2>1, <2>2
<1>3. ASSUME NEW c \in Consumers, consumer'[c].at = "ack" PROVE Recorded(EventOf(c))'
  <2>1. CASE consumer'[c] = consumer[c]
    <3>1. EventOf(c)' = EventOf(c) /\ EventOf(c) \in Events /\ Recorded(EventOf(c))
      BY <1>a, <1>c, <1>3, <2>1, EventStays, ItemInStream DEF LossInv
    <3> QED
      BY <1>a, <3>1 DEF Recorded, TablesKept
  <2>2. CASE consumer'[c] # consumer[c]
    <3>1. ConsumerStep(c) \/ ConsumerCrash(c)
      BY <2>2, OnlyMembersMove, OthersWait
    <3>2. /\ consumer[c].at # "next" /\ consumer'[c].item = consumer[c].item
          /\ Check(c) \/ Handle(c) \/ Insert(c) \/ Mark(c) \/ Bury(c)
      BY <1>3, <3>1, MemberMoves
    <3>3. EventOf(c)' = EventOf(c) /\ EventOf(c) \in Events
      BY <1>a, <3>2, EventStays, ItemInStream
    <3>4. consumer[c] \in Member(read) /\ consumer \in [Consumers -> Member(read)]
      BY DEF TypeOK
    <3>5. CASE Check(c)
      <4>1. EventOf(c) \in processed
        BY <1>3, <3>4, <3>5 DEF Check, Goto, Member
      <4> QED
        BY <1>a, <3>3, <4>1 DEF Recorded, TablesKept
    <3>6. CASE Mark(c)
      BY <3>3, <3>6 DEF Mark, Recorded
    <3>7. CASE Bury(c)
      <4>1. dead'[EventOf(c)] # "none"
        BY <3>3, <3>7 DEF Bury, Buried, TypeOK
      <4> QED
        BY <3>3, <4>1 DEF Recorded
    <3>8. CASE Handle(c) \/ Insert(c)
      BY <1>3, <3>4, <3>8 DEF Handle, Insert, Goto, Done, Member
    <3> QED
      BY <3>2, <3>5, <3>6, <3>7, <3>8
  <2> QED
    BY <2>1, <2>2
<1> QED
  BY <1>1, <1>2, <1>3 DEF LossInv

\* As long as the MAXLEN trimming has removed no entry, the relay forgets only
\* what the stream has and the group only what it recorded or reported.
THEOREM NothingIsLost == Spec => [](trimmed = 0 => NothingLost)
<1>1. Init => TypeOK /\ LossInv
  <2>1. SUFFICES ASSUME Init PROVE LossInv
    BY InitType
  <2> QED
    BY <2>1 DEF Init, LossInv, Polling, Resting
<1>2. TypeOK /\ LossInv /\ [Next]_vars => TypeOK' /\ LossInv'
  BY NextType, LossStep
<1>3. TypeOK /\ LossInv => (trimmed = 0 => NothingLost)
  BY DEF LossInv, NothingLost, Kept, Recorded
<1> QED
  BY <1>1, <1>2, <1>3, PTL DEF Spec

-----------------------------------------------------------------------------
(* Refinement *)

LEMMA PromiseInit == Init => Promise!Init
BY DEF Init, Promise!Init

\* The effect of an event appears once, after its commit.
LEMMA ApplyStep ==
    ASSUME TypeOK, NEW e \in Events, outbox[e] # "absent", posted[e] = 0,
           posted' = [posted EXCEPT ![e] = @ + 1], UNCHANGED <<outbox, dead>>
    PROVE  Promise!Apply(e)
<1>1. posted \in [Events -> Nat]
  BY DEF TypeOK
<1>2. posted'[e] = 1 /\ \A f \in Events : f # e => posted'[f] = posted[f]
  BY <1>1
<1>3. {f \in Events : posted'[f] > 0} = {f \in Events : posted[f] > 0} \cup {e}
  BY <1>1, <1>2
<1> QED
  BY <1>3 DEF Promise!Apply

LEMMA PromiseStep ==
    ASSUME TypeOK, CommittedInv, [Next]_vars
    PROVE  [Promise!Next]_(Promise!vars)
<1>a. TablesKept /\ TypeOK'
  BY TablesStep, NextType
<1>b. ASSUME NEW e \in Events, Promise!Commit(e) \/ Promise!Apply(e) \/ Promise!Report(e)
      PROVE  [Promise!Next]_(Promise!vars)
  BY <1>b DEF Promise!Next
<1>c. ASSUME \A e \in Events : outbox'[e] # "absent" => outbox[e] # "absent",
             \A e \in Events : dead'[e] # "none" => dead[e] # "none",
             posted' = posted
      PROVE  UNCHANGED Promise!vars
  BY <1>a, <1>c DEF Promise!vars, TablesKept
<1>1. ASSUME NEW e \in Events, Commit(e) PROVE Promise!Commit(e)
  <2>1. {f \in Events : outbox'[f] # "absent"} = {f \in Events : outbox[f] # "absent"} \cup {e}
    BY <1>1 DEF Commit, TypeOK
  <2>2. UNCHANGED <<posted, dead>>
    BY <1>1 DEF Commit, tables
  <2> QED
    BY <2>1, <2>2 DEF Promise!Commit
<1>2. ASSUME NEW e \in Events, Wake(e) PROVE UNCHANGED Promise!vars
  BY <1>2, <1>c DEF Wake, tables, TypeOK
<1>3. ASSUME NEW r \in Relays,
             RelayStep(r) \/ RelayCrash(r) \/ \E e \in Events : XAddFails(r, e)
      PROVE  UNCHANGED Promise!vars
  <2>1. UNCHANGED <<posted, dead>> /\ (outbox' = outbox \/ Settle(r))
    BY <1>3 DEF RelayStep, RelayCrash, Claim, Settle, XAdd, XAddFails, tables
  <2>2. \A e \in Events : outbox'[e] # "absent" => outbox[e] # "absent"
    BY <2>1 DEF Settle, CommittedInv
  <2> QED
    BY <1>c, <2>1, <2>2
<1>4. ASSUME NEW c \in Consumers, ConsumerStep(c) \/ ConsumerCrash(c)
      PROVE  [Promise!Next]_(Promise!vars)
  <2>1. outbox' = outbox /\ (UNCHANGED <<posted, dead>> \/ Insert(c) \/ Bury(c))
    BY <1>4 DEF ConsumerStep, ConsumerCrash, ListPending, SkipEntry, ClaimEntry, TakeFresh, ReadNew,
                Check, Handle, Insert, Mark, Ack, Fail, Bury, relayVars, tables
  <2>2. CASE UNCHANGED <<posted, dead>>
    BY <1>c, <2>1, <2>2
  <2>3. ASSUME consumer[c].at # "next"
        PROVE  EventOf(c) \in Events /\ outbox[EventOf(c)] # "absent"
    BY <2>3, ItemInStream DEF EventOf, CommittedInv
  <2>4. CASE Insert(c) /\ ~UNCHANGED <<posted, dead>>
    <3> DEFINE e == EventOf(c)
    <3>1. e \in Events /\ outbox[e] # "absent"
      BY <2>3, <2>4 DEF Insert
    <3>2. posted[e] = 0 /\ posted' = [posted EXCEPT ![e] = @ + 1] /\ UNCHANGED <<outbox, dead>>
      BY <2>1, <2>4 DEF Insert, Postable
    <3> HIDE DEF e
    <3> QED
      BY <1>b, <3>1, <3>2, ApplyStep
  <2>5. CASE Bury(c) /\ ~UNCHANGED <<posted, dead>>
    <3>1. PICK e \in Events : e = EventOf(c) /\ outbox[e] # "absent"
      BY <2>3, <2>5 DEF Bury
    <3>2. dead[e] = "none" /\ dead' = [dead EXCEPT ![e] = "PENDING"] /\ UNCHANGED <<outbox, posted>>
      BY <2>1, <2>5, <3>1 DEF Bury, Buried, TypeOK
    <3>3. {f \in Events : dead'[f] # "none"} = {f \in Events : dead[f] # "none"} \cup {e}
      BY <3>1, <3>2 DEF TypeOK
    <3>4. Promise!Report(e)
      BY <3>1, <3>2, <3>3 DEF Promise!Report
    <3> QED
      BY <1>b, <3>1, <3>4
  <2> QED
    BY <2>1, <2>2, <2>4, <2>5
<1>5. ASSUME NEW o \in Operators, OperatorStep(o)
      PROVE  [Promise!Next]_(Promise!vars)
  <2>1. /\ outbox' = outbox
        /\ UNCHANGED <<posted, dead>> \/ ReplayInsert(o) \/ ReplayRecord(o) \/ Decide(o)
    BY <1>5 DEF OperatorStep, Open, ReplayCheck, ReplayHandle, ReplayInsert, ReplayRecord, Decide,
                GiveUp, relayVars, tables
  <2>a. ASSUME operator[o] # Away
        PROVE  /\ operator[o].event \in Events
               /\ dead[operator[o].event] # "none" /\ outbox[operator[o].event] # "absent"
    BY <2>a DEF TypeOK, Visit, CommittedInv
  <2>2. CASE UNCHANGED <<posted, dead>>
    BY <1>c, <2>1, <2>2
  <2>3. CASE ReplayInsert(o) /\ ~UNCHANGED <<posted, dead>>
    <3> DEFINE e == operator[o].event
    <3>1. e \in Events /\ outbox[e] # "absent"
      BY <2>3, <2>a DEF ReplayInsert, Away
    <3>2. posted[e] = 0 /\ posted' = [posted EXCEPT ![e] = @ + 1] /\ UNCHANGED <<outbox, dead>>
      BY <2>1, <2>3 DEF ReplayInsert, Postable
    <3> HIDE DEF e
    <3> QED
      BY <1>b, <3>1, <3>2, ApplyStep
  <2>4. CASE ReplayRecord(o) \/ Decide(o)
    <3>1. operator[o].event \in Events /\ dead[operator[o].event] # "none"
      BY <2>4, <2>a DEF ReplayRecord, Decide, Away
    <3>2. (\A e \in Events : dead'[e] # "none" => dead[e] # "none") /\ posted' = posted
      BY <2>4, <3>1 DEF ReplayRecord, Decide, TypeOK
    <3> QED
      BY <1>c, <2>1, <3>2
  <2> QED
    BY <2>1, <2>2, <2>3, <2>4
<1>6. CASE UNCHANGED vars
  BY <1>c, <1>6 DEF vars, relayVars, tables
<1> QED
  BY <1>b, <1>1, <1>2, <1>3, <1>4, <1>5, <1>6 DEF Next

\* The backbone implements what it promises to a consumer group, its safety:
\* only committed events take effect, each at most once.
THEOREM BackboneKeepsPromise == Spec => Promise!Safety
<1>1. Init => TypeOK /\ CommittedInv
  <2>1. SUFFICES ASSUME Init PROVE CommittedInv
    BY InitType
  <2> QED
    BY <2>1 DEF Init, CommittedInv, Resting
<1>2. TypeOK /\ CommittedInv /\ [Next]_vars => TypeOK' /\ CommittedInv'
  BY NextType, CommittedStep
<1>3. TypeOK /\ CommittedInv /\ [Next]_vars => [Promise!Next]_(Promise!vars)
  BY PromiseStep
<1> QED
  BY <1>1, <1>2, <1>3, PromiseInit, PTL DEF Spec, Promise!Safety

-----------------------------------------------------------------------------
(* The notification group *)

\* A worker with a receipt in hand has handed the message over, and only such
\* a one writes SENT.
ReceiptBehindSent ==
    /\ worker \in [Consumers -> Notify!Steps]
    /\ handed \in Nat
    /\ \A w \in Consumers : worker[w] = "sent" => handed > 0
    /\ log = "SENT" => handed > 0

LEMMA NotifyStarts == Notify!Init => ReceiptBehindSent
  BY DEF Notify!Init, Notify!Steps, ReceiptBehindSent

\* A worker that goes on to anything but FinaliseSent.
LEMMA GoesOn ==
    ASSUME ReceiptBehindSent, NEW w \in Consumers, NEW where \in Notify!Steps,
           Notify!Goto(w, where), where # "sent", handed' = handed,
           log' = "SENT" => log = "SENT"
    PROVE  ReceiptBehindSent'
  BY DEF ReceiptBehindSent, Notify!Goto

LEMMA NotifyStep ==
    ASSUME ReceiptBehindSent, NEW w \in Consumers, Notify!Step(w)
    PROVE  ReceiptBehindSent'
<1>1. /\ "idle" \in Notify!Steps /\ "check" \in Notify!Steps /\ "gate" \in Notify!Steps
      /\ "record" \in Notify!Steps /\ "skip" \in Notify!Steps /\ "send" \in Notify!Steps
      /\ "sent" \in Notify!Steps /\ "failed" \in Notify!Steps /\ "mark" \in Notify!Steps
      /\ "ack" \in Notify!Steps
  BY DEF Notify!Steps
<1>2. CASE Notify!Deliver(w)
  <2>1. Notify!Goto(w, "check") /\ handed' = handed /\ log' = log
    BY <1>2 DEF Notify!Deliver
  <2> QED
    BY <1>1, <2>1, GoesOn
<1>3. CASE Notify!DeadLetter(w)
  BY <1>3 DEF Notify!DeadLetter, ReceiptBehindSent
<1>4. CASE Notify!Check(w)
  <2>1. PICK where \in {"ack", "gate"} : Notify!Goto(w, where)
    BY <1>4 DEF Notify!Check
  <2>2. handed' = handed /\ log' = log
    BY <1>4 DEF Notify!Check
  <2> QED
    BY <1>1, <2>1, <2>2, GoesOn
<1>5. CASE Notify!Mark(w)
  <2>1. Notify!Goto(w, "ack") /\ handed' = handed /\ log' = log
    BY <1>5 DEF Notify!Mark
  <2> QED
    BY <1>1, <2>1, GoesOn
<1>6. CASE Notify!Ack(w)
  <2>1. Notify!Goto(w, "idle") /\ handed' = handed /\ log' = log
    BY <1>6 DEF Notify!Ack
  <2> QED
    BY <1>1, <2>1, GoesOn
<1>7. CASE Notify!Gate(w)
  <2>1. PICK where \in {"record", "skip"} : Notify!Goto(w, where)
    BY <1>7 DEF Notify!Gate
  <2>2. handed' = handed /\ log' = log
    BY <1>7 DEF Notify!Gate
  <2> QED
    BY <1>1, <2>1, <2>2, GoesOn
<1>8. CASE Notify!Skip(w)
  <2>1. Notify!Goto(w, "mark") /\ handed' = handed /\ (log' = "SKIPPED" \/ log' = log)
    BY <1>8 DEF Notify!Skip, Notify!Recorded
  <2> QED
    BY <1>1, <2>1, GoesOn
<1>9. CASE Notify!Record(w)
  <2>1. handed' = handed /\ (log' = "PENDING" \/ log' = log)
    BY <1>9 DEF Notify!Record, Notify!Recorded
  <2>2. PICK where \in {"send", "mark"} : Notify!Goto(w, where)
    BY <1>9 DEF Notify!Record
  <2> QED
    BY <1>1, <2>1, <2>2, GoesOn
<1>10. CASE Notify!CallProvider(w)
  <2>1. log' = log
    BY <1>10 DEF Notify!CallProvider
  <2>2. CASE handed' = handed /\ Notify!Receipt(w)
    <3>1. Notify!Goto(w, "failed")
      BY <2>2 DEF Notify!Receipt
    <3> QED
      BY <1>1, <2>1, <2>2, <3>1, GoesOn
  <2>3. CASE handed' = handed + 1 /\ (Notify!Goto(w, "sent") \/ Notify!Receipt(w))
    <3>1. PICK where \in {"sent", "failed"} : Notify!Goto(w, where)
      BY <2>3 DEF Notify!Receipt
    <3> QED
      BY <1>1, <2>1, <2>3, <3>1 DEF ReceiptBehindSent, Notify!Goto
  <2> QED
    BY <1>10, <2>2, <2>3 DEF Notify!CallProvider
<1>11. CASE Notify!FinaliseSent(w)
  <2>1. handed > 0 /\ handed' = handed /\ Notify!Goto(w, "mark")
    BY <1>11 DEF Notify!FinaliseSent, Notify!At, ReceiptBehindSent
  <2> QED
    BY <1>1, <2>1 DEF ReceiptBehindSent, Notify!Goto
<1>12. CASE Notify!FinaliseFailed(w)
  <2>1. Notify!Goto(w, "idle") /\ handed' = handed /\ log' = "FAILED"
    BY <1>12 DEF Notify!FinaliseFailed
  <2> QED
    BY <1>1, <2>1, GoesOn
<1> QED
  BY <1>2, <1>3, <1>4, <1>5, <1>6, <1>7, <1>8, <1>9, <1>10, <1>11, <1>12 DEF Notify!Step

LEMMA NotifyKeeps ==
    ReceiptBehindSent /\ [Notify!Next]_notifyVars => ReceiptBehindSent'
<1> SUFFICES ASSUME ReceiptBehindSent, [Notify!Next]_notifyVars PROVE ReceiptBehindSent'
  OBVIOUS
<1>1. CASE Notify!ToggleSms
  BY <1>1 DEF Notify!ToggleSms, ReceiptBehindSent
<1>2. ASSUME NEW w \in Consumers, Notify!Step(w) PROVE ReceiptBehindSent'
  BY <1>2, NotifyStep
<1>3. ASSUME NEW w \in Consumers, Notify!Crash(w) PROVE ReceiptBehindSent'
  <2>1. Notify!Goto(w, "idle") /\ handed' = handed /\ log' = log
    BY <1>3 DEF Notify!Crash
  <2>2. "idle" \in Notify!Steps
    BY DEF Notify!Steps
  <2> QED
    BY <2>1, <2>2, GoesOn
<1>4. CASE UNCHANGED notifyVars
  BY <1>4 DEF notifyVars, ReceiptBehindSent
<1> QED
  BY <1>1, <1>2, <1>3, <1>4 DEF Notify!Next

\* A row that says SENT has a receipt behind it, for any workers that send, however
\* often the message is delivered to them and wherever they crash.
THEOREM SentIsHanded == GroupsSpec => []SentWasHanded
<1>1. GroupsInit => ReceiptBehindSent
  BY NotifyStarts DEF GroupsInit
<1>2. ReceiptBehindSent /\ [GroupsNext]_<<group, vars, notifyVars>> => ReceiptBehindSent'
  <2> SUFFICES ASSUME ReceiptBehindSent, [GroupsNext]_<<group, vars, notifyVars>>
               PROVE  ReceiptBehindSent'
    OBVIOUS
  <2>1. [Notify!Next]_notifyVars
    BY DEF GroupsNext
  <2> QED
    BY <2>1, NotifyKeeps
<1>3. ReceiptBehindSent => SentWasHanded
  BY DEF ReceiptBehindSent, SentWasHanded, Notify!SentWasHanded
<1> QED
  BY <1>1, <1>2, <1>3, PTL DEF GroupsSpec
=============================================================================
