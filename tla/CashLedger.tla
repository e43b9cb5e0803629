----------------------------- MODULE CashLedger -----------------------------
(***************************************************************************)
(* The money of one tenant in one currency: the double-entry ledger with   *)
(* its cached balances, the consumer that posts collected cash, the        *)
(* driver's remittances to a hub, the settlements paid to merchants, the   *)
(* expenses, and the complaints that reverse a collection.  A document is  *)
(* what a ledger transaction is posted for.  A step is one transaction of  *)
(* the database; where the code reads without a lock and writes later, the *)
(* read is a step of its own.                                              *)
(***************************************************************************)
EXTENDS Integers, FiniteSets, Functions, Sequences

CONSTANTS
    Parcels, Drivers, Merchants, Hubs,
    Tenant,         \* owner of the bank, expense and revenue accounts
    Remittances, Settlements, Expenses, Complaints,
    Clerks,         \* the users of the finance office
    Keys,           \* idempotency keys of complaint decisions
    Amounts,        \* the amounts of a collection, a count or an expense
    Nothing,        \* a null column or an idle clerk
    MaxOpened       \* bound: remittances, settlements, expenses and complaints opened

ASSUME LedgerAssumption ==
    /\ Amounts \subseteq Nat /\ MaxOpened \in Nat
    /\ IsFiniteSet(Parcels) /\ IsFiniteSet(Amounts)
    /\ Tenant \notin Drivers \cup Merchants \cup Hubs
    /\ Nothing \notin Merchants \cup Parcels \cup {Tenant}

Account(type, owner) == [type |-> type, owner |-> owner]

Accounts ==
    [type : {"DRIVER_CASH"}, owner : Drivers] \cup
    [type : {"HUB_CASH"}, owner : Hubs] \cup
    [type : {"MERCHANT_PAYABLE"}, owner : Merchants \cup {Tenant}] \cup
    [type : {"BANK", "EXPENSE", "PLATFORM_REVENUE"}, owner : {Tenant}]

Doc(kind, of) == [kind |-> kind, of |-> of]

Documents ==
    [kind : {"collection"}, of : Parcels] \cup
    [kind : {"remittance"}, of : Remittances] \cup
    [kind : {"settlement"}, of : Settlements] \cup
    [kind : {"expense"}, of : Expenses] \cup
    [kind : {"reversal"}, of : Complaints]

VARIABLES
    collection,     \* collection[p]: the cod.collected event of p
    remittance,     \* cod_remittances
    settlement,     \* settlements
    covers,         \* settlement_shipments: pairs of a settlement and a parcel
    expense,        \* expenses
    complaint,      \* complaints
    clerk,          \* clerk[u]: what u has read and not yet written
    posted,         \* posted[d]: how many ledger transactions d has
    balance         \* ledger_accounts.balance_minor

books == <<posted, balance>>
ledgerVars ==
    <<collection, remittance, settlement, covers, expense, complaint, clerk, books>>

\* The documents that people open.
Room ==
    Cardinality({r \in Remittances : remittance[r].status # "none"})
    + Cardinality({s \in Settlements : settlement[s].status # "none"})
    + Cardinality({x \in Expenses : expense[x].status # "none"})
    + Cardinality({c \in Complaints : complaint[c].status # "none"}) < MaxOpened

-----------------------------------------------------------------------------
(* Postings *)

Line(account, direction, amount) ==
    [account |-> account, direction |-> direction, amount |-> amount]

NormalBalance(account) ==
    IF account.type \in {"MERCHANT_PAYABLE", "PLATFORM_REVENUE"} THEN "CREDIT" ELSE "DEBIT"

BalanceDelta(line) ==
    IF line.direction = NormalBalance(line.account) THEN line.amount ELSE -line.amount

Side(lines, direction) ==
    SumFunctionOnSet([l \in lines |-> l.amount], {l \in lines : l.direction = direction})

AssertBalanced(lines) ==
    /\ Cardinality(lines) >= 2
    /\ \A l \in lines : l.amount > 0
    /\ Side(lines, "DEBIT") = Side(lines, "CREDIT")

Effect(lines, account) ==
    SumFunctionOnSet([l \in lines |-> BalanceDelta(l)], {l \in lines : l.account = account})

MovedMutant(account, lines) == Effect(lines, account)

Moved(account, lines) == balance[account] + Effect(lines, account)

\* The entries and the cached balances, in the caller's transaction; an
\* unbalanced posting throws and the caller rolls back.
PostTransaction(doc, lines) ==
    /\ AssertBalanced(lines)
    /\ posted' = [posted EXCEPT ![doc] = @ + 1]
    /\ balance' = [a \in Accounts |-> Moved(a, lines)]

-----------------------------------------------------------------------------
(* Collected cash *)

NoCollection == [state |-> "none", driver |-> Nothing, payee |-> Nothing, amount |-> 0]

\* A delivery writes cod.collected; without a merchant the cash is owed by the
\* tenant to itself.
Collect(p, d, payee, amount) ==
    /\ collection[p].state = "none" /\ amount > 0
    /\ collection' = [collection EXCEPT ![p] =
                        [state |-> "sent", driver |-> d, payee |-> payee, amount |-> amount]]
    /\ UNCHANGED <<remittance, settlement, covers, expense, complaint, clerk, books>>

CollectionLines(p) ==
    {Line(Account("DRIVER_CASH", collection[p].driver), "DEBIT", collection[p].amount),
     Line(Account("MERCHANT_PAYABLE", collection[p].payee), "CREDIT", collection[p].amount)}

HasPostedForEventMutant(p) == FALSE

HasPostedForEvent(p) == posted[Doc("collection", p)] > 0

\* The event is delivered, for the first time or again.
HandleCollected(p) ==
    /\ collection[p].state # "none"
    /\ ~HasPostedForEvent(p)
    /\ PostTransaction(Doc("collection", p), CollectionLines(p))
    /\ collection' = [collection EXCEPT ![p].state = "posted"]
    /\ UNCHANGED <<remittance, settlement, covers, expense, complaint, clerk>>

-----------------------------------------------------------------------------
(* Remittances *)

NoRemittance ==
    [status |-> "none", driver |-> Nothing, hub |-> Nothing, expected |-> 0,
     counted |-> 0, variance |-> 0]

\* The expected amount is the cached balance of the driver at this moment.
SubmitRemittance(r, d, h) ==
    /\ Room /\ remittance[r].status = "none"
    /\ remittance' = [remittance EXCEPT ![r] =
                        [@ EXCEPT !.status = "SUBMITTED", !.driver = d, !.hub = h,
                                  !.expected = balance[Account("DRIVER_CASH", d)]]]
    /\ UNCHANGED <<collection, settlement, covers, expense, complaint, clerk, books>>

RemittanceLines(r, counted) ==
    {Line(Account("HUB_CASH", remittance[r].hub), "DEBIT", counted),
     Line(Account("DRIVER_CASH", remittance[r].driver), "CREDIT", counted)}

Confirmable(r) == remittance[r].status = "SUBMITTED"

\* A variance needs a reason, which the caller may always give.
ConfirmRemittance(r, counted) ==
    /\ Confirmable(r)
    /\ IF counted > 0
       THEN PostTransaction(Doc("remittance", r), RemittanceLines(r, counted))
       ELSE UNCHANGED books
    /\ remittance' = [remittance EXCEPT ![r] =
                        [@ EXCEPT !.status = "CONFIRMED", !.counted = counted,
                                  !.variance = counted - remittance[r].expected]]
    /\ UNCHANGED <<collection, settlement, covers, expense, complaint, clerk>>

MoveRemittance(r, from, to) ==
    /\ remittance[r].status = from
    /\ remittance' = [remittance EXCEPT ![r].status = to]
    /\ UNCHANGED <<collection, settlement, covers, expense, complaint, clerk, books>>

DisputeRemittance(r) == MoveRemittance(r, "SUBMITTED", "DISPUTED")
ResolveRemittance(r) == MoveRemittance(r, "DISPUTED", "RESOLVED")

-----------------------------------------------------------------------------
(* Settlements *)

NoSettlement ==
    [status |-> "none", merchant |-> Nothing, gross |-> 0, fees |-> 0, drafter |-> Nothing]

Covered == {c.parcel : c \in covers}

\* The collections credited to the merchant that no settlement covers.
Settleable(m) ==
    {p \in Parcels :
        /\ collection[p].payee = m
        /\ posted[Doc("collection", p)] > 0
        /\ p \notin Covered}

Gross(parcels) == SumFunctionOnSet([p \in Parcels |-> collection[p].amount], parcels)

Idle == [does |-> "nothing", of |-> Nothing, parcels |-> {}]

\* createDraft reads the entries ...
DraftReads(u, m) ==
    /\ clerk[u] = Idle
    /\ Settleable(m) # {}
    /\ clerk' = [clerk EXCEPT ![u] = [does |-> "draft", of |-> m, parcels |-> Settleable(m)]]
    /\ UNCHANGED <<collection, remittance, settlement, covers, expense, complaint, books>>

NoLineTakenMutant(parcels) == TRUE

\* The unique index of settlement_shipments.
NoLineTaken(parcels) == parcels \cap Covered = {}

FeesFitMutant(parcels, fees) == TRUE

FeesFit(parcels, fees) == fees <= Gross(parcels)

\* ... and writes the settlement with its lines, or is refused and rolls back.
DraftWrites(u, s, fees) ==
    LET call == clerk[u]
    IN /\ call.does = "draft"
       /\ Room /\ settlement[s].status = "none"
       /\ FeesFit(call.parcels, fees)
       /\ NoLineTaken(call.parcels)
       /\ settlement' = [settlement EXCEPT ![s] =
                [status |-> "DRAFT", merchant |-> call.of, gross |-> Gross(call.parcels),
                 fees |-> fees, drafter |-> u]]
       /\ covers' = covers \cup {[settlement |-> s, parcel |-> p] : p \in call.parcels}
       /\ clerk' = [clerk EXCEPT ![u] = Idle]
       /\ UNCHANGED <<collection, remittance, expense, complaint, books>>

DraftAborts(u) ==
    /\ clerk[u].does = "draft" /\ ~NoLineTaken(clerk[u].parcels)
    /\ clerk' = [clerk EXCEPT ![u] = Idle]
    /\ UNCHANGED <<collection, remittance, settlement, covers, expense, complaint, books>>

\* Every clerk holds FINANCE or OWNER.
ApproveSettlement(u, s) ==
    /\ settlement[s].status = "DRAFT"
    /\ u # settlement[s].drafter
    /\ settlement' = [settlement EXCEPT ![s].status = "APPROVED"]
    /\ UNCHANGED <<collection, remittance, covers, expense, complaint, clerk, books>>

\* Legs of nothing are left out.
SettlementLines(s) ==
    LET row == settlement[s]
        Leg(type, amount) ==
            IF amount > 0 THEN {Line(Account(type, Tenant), "CREDIT", amount)} ELSE {}
    IN {Line(Account("MERCHANT_PAYABLE", row.merchant), "DEBIT", row.gross)}
        \cup Leg("BANK", row.gross - row.fees) \cup Leg("PLATFORM_REVENUE", row.fees)

PaySettlement(s) ==
    /\ settlement[s].status = "APPROVED"
    /\ PostTransaction(Doc("settlement", s), SettlementLines(s))
    /\ settlement' = [settlement EXCEPT ![s].status = "PAID"]
    /\ UNCHANGED <<collection, remittance, covers, expense, complaint, clerk>>

Cancellable(s) == settlement[s].status \in {"DRAFT", "APPROVED"}

CancelSettlement(s) ==
    /\ Cancellable(s)
    /\ covers' = {c \in covers : c.settlement # s}
    /\ settlement' = [settlement EXCEPT ![s].status = "CANCELLED"]
    /\ UNCHANGED <<collection, remittance, expense, complaint, clerk, books>>

-----------------------------------------------------------------------------
(* Expenses *)

NoExpense == [status |-> "none", source |-> Nothing, amount |-> 0]

CreateExpense(x, source, amount) ==
    /\ Room /\ expense[x].status = "none" /\ amount > 0
    /\ expense' = [expense EXCEPT ![x] =
                    [status |-> "DRAFT", source |-> source, amount |-> amount]]
    /\ UNCHANGED <<collection, remittance, settlement, covers, complaint, clerk, books>>

\* approve and reject read the draft without a lock ...
ReviewExpense(u, x, verdict) ==
    /\ clerk[u] = Idle
    /\ expense[x].status = "DRAFT"
    /\ clerk' = [clerk EXCEPT ![u] = [does |-> verdict, of |-> x, parcels |-> {}]]
    /\ UNCHANGED <<collection, remittance, settlement, covers, expense, complaint, books>>

ExpenseLines(x) ==
    LET paidFrom == IF expense[x].source = Tenant THEN "BANK" ELSE "HUB_CASH"
    IN {Line(Account("EXPENSE", Tenant), "DEBIT", expense[x].amount),
        Line(Account(paidFrom, expense[x].source), "CREDIT", expense[x].amount)}

StillDraft(x) == expense[x].status = "DRAFT"

\* ... and decide by an UPDATE that asks for DRAFT again: no row, no decision,
\* and the posting before it rolls back.
DecideExpense(u) ==
    LET x == clerk[u].of
    IN /\ clerk[u].does \in {"APPROVED", "REJECTED"}
       /\ clerk' = [clerk EXCEPT ![u] = Idle]
       /\ IF StillDraft(x)
          THEN /\ expense' = [expense EXCEPT ![x].status = clerk[u].does]
               /\ IF clerk[u].does = "APPROVED"
                  THEN PostTransaction(Doc("expense", x), ExpenseLines(x))
                  ELSE UNCHANGED books
          ELSE UNCHANGED <<expense, books>>
       /\ UNCHANGED <<collection, remittance, settlement, covers, complaint>>

-----------------------------------------------------------------------------
(* Complaints *)

NoComplaint ==
    [status |-> "none", type |-> Nothing, parcel |-> Nothing, reversed |-> FALSE, keys |-> {}]

ClosedStatuses == {"RESOLVED", "REJECTED"}

CanComplaintTransition(from, to) ==
    CASE from = "OPEN" -> to \in {"INVESTIGATING", "ESCALATED"} \cup ClosedStatuses
      [] from = "INVESTIGATING" -> to \in {"ESCALATED"} \cup ClosedStatuses
      [] from = "ESCALATED" -> to \in ClosedStatuses
      [] OTHER -> FALSE

\* A complaint is named after the key of its creation: a retry finds it.
RaiseComplaint(c, type, p) ==
    /\ Room /\ complaint[c].status = "none"
    /\ complaint' = [complaint EXCEPT ![c] =
                        [@ EXCEPT !.status = "OPEN", !.type = type, !.parcel = p]]
    /\ UNCHANGED <<collection, remittance, settlement, covers, expense, clerk, books>>

Flip(line) == [line EXCEPT !.direction = IF @ = "DEBIT" THEN "CREDIT" ELSE "DEBIT"]

Reversible(c) ==
    /\ complaint[c].type = "COD_DISPUTE"
    /\ ~complaint[c].reversed
    /\ complaint[c].parcel # Nothing

\* The entries of the collection, each mirrored.
ReverseCod(c) ==
    LET p == complaint[c].parcel
    IN /\ Reversible(c)
       /\ posted[Doc("collection", p)] > 0
       /\ PostTransaction(Doc("reversal", c), {Flip(l) : l \in CollectionLines(p)})

Decided(row, to, reverse, key) ==
    [row EXCEPT !.status = to, !.reversed = @ \/ reverse, !.keys = @ \cup {key}]

\* A key that was used answers for its first call, and nothing changes.
MoveComplaint(c, to, reverse, key) ==
    /\ complaint[c].status \notin {"none"} \cup ClosedStatuses
    /\ key \notin complaint[c].keys
    /\ CanComplaintTransition(complaint[c].status, to)
    /\ reverse => to = "RESOLVED"
    /\ IF reverse THEN ReverseCod(c) ELSE UNCHANGED books
    /\ complaint' = [complaint EXCEPT ![c] = Decided(@, to, reverse, key)]
    /\ UNCHANGED <<collection, remittance, settlement, covers, expense, clerk>>

-----------------------------------------------------------------------------
LedgerInit ==
    /\ collection = [p \in Parcels |-> NoCollection]
    /\ remittance = [r \in Remittances |-> NoRemittance]
    /\ settlement = [s \in Settlements |-> NoSettlement]
    /\ covers = {}
    /\ expense = [x \in Expenses |-> NoExpense]
    /\ complaint = [c \in Complaints |-> NoComplaint]
    /\ clerk = [u \in Clerks |-> Idle]
    /\ posted = [d \in Documents |-> 0]
    /\ balance = [a \in Accounts |-> 0]

LedgerNext ==
    \/ \E p \in Parcels, d \in Drivers, payee \in Merchants \cup {Tenant}, n \in Amounts :
            Collect(p, d, payee, n)
    \/ \E p \in Parcels : HandleCollected(p)
    \/ \E r \in Remittances, d \in Drivers, h \in Hubs : SubmitRemittance(r, d, h)
    \/ \E r \in Remittances, n \in Amounts : ConfirmRemittance(r, n)
    \/ \E r \in Remittances : DisputeRemittance(r) \/ ResolveRemittance(r)
    \/ \E u \in Clerks, m \in Merchants : DraftReads(u, m)
    \/ \E u \in Clerks, s \in Settlements, n \in Amounts : DraftWrites(u, s, n)
    \/ \E u \in Clerks : DraftAborts(u)
    \/ \E u \in Clerks, s \in Settlements : ApproveSettlement(u, s)
    \/ \E s \in Settlements : PaySettlement(s) \/ CancelSettlement(s)
    \/ \E x \in Expenses, source \in Hubs \cup {Tenant}, n \in Amounts :
            CreateExpense(x, source, n)
    \/ \E u \in Clerks, x \in Expenses, v \in {"APPROVED", "REJECTED"} : ReviewExpense(u, x, v)
    \/ \E u \in Clerks : DecideExpense(u)
    \/ \E c \in Complaints, t \in {"COD_DISPUTE", "OTHER"}, p \in Parcels \cup {Nothing} :
            RaiseComplaint(c, t, p)
    \/ \E c \in Complaints, to \in {"INVESTIGATING", "ESCALATED"} \cup ClosedStatuses,
          reverse \in BOOLEAN, k \in Keys : MoveComplaint(c, to, reverse, k)

LedgerSpec == LedgerInit /\ [][LedgerNext]_ledgerVars

-----------------------------------------------------------------------------
(* Properties *)

\* Rows, documents and calls have their types, a cached balance is an integer,
\* and a settlement pays out no less than nothing.
LedgerTypeOK ==
    /\ collection \in [Parcels -> [state : {"none", "sent", "posted"},
            driver : Drivers \cup {Nothing}, payee : Merchants \cup {Tenant, Nothing},
            amount : Nat]]
    /\ remittance \in [Remittances ->
            [status : {"none", "SUBMITTED", "CONFIRMED", "DISPUTED", "RESOLVED"},
             driver : Drivers \cup {Nothing}, hub : Hubs \cup {Nothing},
             expected : Int, counted : Nat, variance : Int]]
    /\ settlement \in [Settlements ->
            [status : {"none", "DRAFT", "APPROVED", "PAID", "CANCELLED"},
             merchant : Merchants \cup {Nothing}, gross : Nat, fees : Nat,
             drafter : Clerks \cup {Nothing}]]
    /\ \A s \in Settlements : settlement[s].fees <= settlement[s].gross
    /\ covers \subseteq [settlement : Settlements, parcel : Parcels]
    /\ expense \in [Expenses -> [status : {"none", "DRAFT", "APPROVED", "REJECTED"},
            source : Hubs \cup {Tenant, Nothing}, amount : Nat]]
    /\ complaint \in [Complaints ->
            [status : {"none", "OPEN", "INVESTIGATING", "ESCALATED"} \cup ClosedStatuses,
             type : {"COD_DISPUTE", "OTHER", Nothing}, parcel : Parcels \cup {Nothing},
             reversed : BOOLEAN, keys : SUBSET Keys]]
    /\ \A u \in Clerks :
        \/ clerk[u] = Idle
        \/ clerk[u] \in [does : {"draft"}, of : Merchants, parcels : SUBSET Parcels]
        \/ clerk[u] \in [does : {"APPROVED", "REJECTED"}, of : Expenses, parcels : {{}}]
    /\ posted \in [Documents -> Nat]
    /\ balance \in [Accounts -> Int]

\* A document that has done its work.
Settled(d) ==
    CASE d.kind = "collection" -> collection[d.of].state = "posted"
      [] d.kind = "remittance" ->
            remittance[d.of].status = "CONFIRMED" /\ remittance[d.of].counted > 0
      [] d.kind = "settlement" -> settlement[d.of].status = "PAID"
      [] d.kind = "expense" -> expense[d.of].status = "APPROVED"
      [] d.kind = "reversal" -> complaint[d.of].reversed

\* Each document moves the money exactly once, and only when its own record
\* says so: whatever is redelivered, retried or decided by two people at once,
\* the ledger and the documents tell one story.
PostedOnceIfSettled == \A d \in Documents : posted[d] = IF Settled(d) THEN 1 ELSE 0

EntriesOf(d) ==
    CASE d.kind = "collection" -> CollectionLines(d.of)
      [] d.kind = "remittance" -> RemittanceLines(d.of, remittance[d.of].counted)
      [] d.kind = "settlement" -> SettlementLines(d.of)
      [] d.kind = "expense" -> ExpenseLines(d.of)
      [] d.kind = "reversal" -> {Flip(l) : l \in CollectionLines(complaint[d.of].parcel)}

\* The cached balance of an account is the sum of its entries (ledger.service,
\* "the truth remains SUM(entries)"), so that what a driver is asked to hand
\* over is what he collected less what he handed over and what was reversed.
BalanceIsTheSum ==
    \A a \in Accounts :
        balance[a] =
            LET entries == [d \in Documents |-> Effect(EntriesOf(d), a)]
            IN SumFunctionOnSet(entries, {d \in Documents : posted[d] > 0})

\* A parcel is on one settlement at most that was not cancelled.
CoveredOnce == \A c1, c2 \in covers : c1.parcel = c2.parcel => c1 = c2

\* A parcel's cash is paid out at most once: of the settlements that are PAID,
\* one covers it, and each paid out what the parcels it covers collected.
PaidOutOnce ==
    /\ CoveredOnce
    /\ \A s \in Settlements :
        settlement[s].status = "PAID" =>
            settlement[s].gross = Gross({c.parcel : c \in {k \in covers : k.settlement = s}})

\* What complaint.service says of a reversal: a second attempt is refused rather
\* than posting the money back twice.  The guard is per complaint, and a parcel
\* may have two.
ReversedOnce ==
    \A c1, c2 \in Complaints :
        /\ complaint[c1].reversed /\ complaint[c2].reversed
        /\ complaint[c1].parcel = complaint[c2].parcel
        => c1 = c2

\* A merchant is never paid more than he is owed.  A draft does not look for
\* the reversal of a collection, so a disputed parcel is paid out all the same.
NeverOverpaid == \A m \in Merchants : balance[Account("MERCHANT_PAYABLE", m)] >= 0
=============================================================================
