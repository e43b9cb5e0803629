------------------------------ MODULE Invoices ------------------------------
(***************************************************************************)
(* Invoices and credit notes of one tenant: drafts, gapless numbers taken  *)
(* from a locked counter, and the triggers that freeze what was issued.    *)
(* Nothing locks the invoice itself: a call reads it, works, and writes it *)
(* at the end, and each of those is a step.  What a call has written and   *)
(* not committed is in call[u].                                            *)
(***************************************************************************)
EXTENDS Integers, Sequences, FiniteSets, Functions

CONSTANTS
    Invoices,       \* the documents of a behaviour
    Accountants,    \* the users who call
    LineLists,      \* lists of line totals a draft may carry
    VatRates,       \* in basis points
    Duties,         \* stamp duties
    Years,
    NoCall, NoDocument

ASSUME InvoiceAssumption ==
    /\ LineLists \subseteq Seq(Nat) /\ <<>> \in LineLists
    /\ VatRates \subseteq 0 .. 10000 /\ Duties \subseteq Nat
    /\ Years \subseteq Nat /\ Years # {}
    /\ NoDocument \notin Invoices

VARIABLES
    invoice,        \* invoices with their invoice_lines
    counter,        \* invoice_sequences.last_number
    settings,       \* billing_settings
    year,           \* the calendar
    call            \* call[u]: what u's transaction has read and written

invoiceVars == <<invoice, counter, settings, year, call>>

Kinds == {"INVOICE", "CREDIT_NOTE"}

-----------------------------------------------------------------------------
(* The arithmetic *)

BasisPoints == 10000

RoundHalfUp(numerator, denominator) == (numerator + denominator \div 2) \div denominator

Subtotal(lines) == SumFunction(lines)

\* On the subtotal, rounded once.
Vat(lines, rate) == RoundHalfUp(Subtotal(lines) * rate, BasisPoints)

ComputeInvoiceTotals(lines, rate, duty) ==
    [subtotal |-> Subtotal(lines), vat |-> Vat(lines, rate),
     total |-> Subtotal(lines) + Vat(lines, rate) + duty]

-----------------------------------------------------------------------------
(* Drafts *)

NoInvoice ==
    [kind |-> "none", status |-> "none", number |-> 0, year |-> 0, lines |-> <<>>,
     rate |-> 0, duty |-> 0, totals |-> ComputeInvoiceTotals(<<>>, 0, 0),
     corrects |-> NoDocument]

Draft(kind, lines, rate, duty, corrects) ==
    [kind |-> kind, status |-> "DRAFT", number |-> 0, year |-> 0, lines |-> lines,
     rate |-> rate, duty |-> duty, totals |-> ComputeInvoiceTotals(lines, rate, duty),
     corrects |-> corrects]

\* The ids are handed out in any order; this one is free.
Free(i) == invoice[i].status = "none"

CreateDraft(i, lines) ==
    /\ Free(i)
    /\ invoice' = [invoice EXCEPT ![i] =
                    Draft("INVOICE", lines, settings.rate, settings.duty, NoDocument)]
    /\ UNCHANGED <<counter, settings, year, call>>

CreditedMutant(original) == settings.rate

Credited(original) == invoice[original].rate

\* The lines of the original unless others are given; its rate and its duty.
CreateCreditNote(i, original, lines) ==
    /\ Free(i)
    /\ invoice[original].kind = "INVOICE"
    /\ invoice[original].status \in {"ISSUED", "PAID"}
    /\ invoice' = [invoice EXCEPT ![i] =
            Draft("CREDIT_NOTE", lines, Credited(original), invoice[original].duty, original)]
    /\ UNCHANGED <<counter, settings, year, call>>

UpdateSettings(rate, duty) ==
    /\ settings' = [rate |-> rate, duty |-> duty]
    /\ UNCHANGED <<invoice, counter, year, call>>

-----------------------------------------------------------------------------
(* The calls *)

Call(does, i, lines, number, in) ==
    [does |-> does, invoice |-> i, lines |-> lines, number |-> number, year |-> in]

Begin(u, does, i, lines) ==
    /\ call[u] = NoCall
    /\ call' = [call EXCEPT ![u] = Call(does, i, lines, 0, year)]
    /\ UNCHANGED <<invoice, counter, settings, year>>

Doing(u, does) == call[u] # NoCall /\ call[u].does = does

\* An error, a refusal by a trigger or a lost connection: all rolls back.
RollBack(u) ==
    /\ call[u] # NoCall
    /\ call' = [call EXCEPT ![u] = NoCall]
    /\ UNCHANGED <<invoice, counter, settings, year>>

\* The row triggers of invoices: a draft is free, what follows it is not.
NotDraftMutant(i) == FALSE

NotDraft(i) == invoice[i].status # "DRAFT"

SetLinesReads(u, i, lines) ==
    /\ invoice[i].status = "DRAFT" /\ lines # <<>>
    /\ Begin(u, "rewrite", i, lines)

\* The lines of an invoice are rewritten by one transaction at a time: another
\* waits for its row locks, or fails on the unique positions.
Rewriting(i) == \E v \in Accountants : Doing(v, "total") /\ call[v].invoice = i

\* The old lines are deleted and the new ones inserted; a trigger looks at the
\* committed status of the invoice.
ReplaceLines(u) ==
    /\ Doing(u, "rewrite")
    /\ ~Rewriting(call[u].invoice)
    /\ ~NotDraft(call[u].invoice)
    /\ call' = [call EXCEPT ![u].does = "total"]
    /\ UNCHANGED <<invoice, counter, settings, year>>

\* The totals are written and all is committed, unless the document was issued
\* meanwhile and the totals are not the ones it has.
SetLinesCommits(u) ==
    LET i == call[u].invoice
        totals == ComputeInvoiceTotals(call[u].lines, invoice[i].rate, invoice[i].duty)
    IN /\ Doing(u, "total")
       /\ NotDraft(i) => totals = invoice[i].totals
       /\ invoice' = [invoice EXCEPT ![i] =
                        [@ EXCEPT !.lines = call[u].lines, !.totals = totals]]
       /\ call' = [call EXCEPT ![u] = NoCall]
       /\ UNCHANGED <<counter, settings, year>>

IssueReads(u, i) ==
    /\ invoice[i].status = "DRAFT" /\ invoice[i].lines # <<>>
    /\ Begin(u, "number", i, <<>>)

CounterFreeMutant(kind, in) == TRUE

\* FOR UPDATE on the counter's row, held to the end of the transaction.
CounterFree(kind, in) ==
    \A v \in Accountants :
        Doing(v, "issue") =>
            <<invoice[call[v].invoice].kind, call[v].year>> # <<kind, in>>

NextSequence(u) ==
    LET kind == invoice[call[u].invoice].kind
    IN /\ Doing(u, "number")
       /\ CounterFree(kind, call[u].year)
       /\ call' = [call EXCEPT ![u].does = "issue",
                               ![u].number = counter[<<kind, call[u].year>>] + 1]
       /\ UNCHANGED <<invoice, counter, settings, year>>

\* The number and the status are written; the counter commits with them.
IssueCommits(u) ==
    LET i == call[u].invoice
    IN /\ Doing(u, "issue")
       /\ ~NotDraft(i)
       /\ invoice' = [invoice EXCEPT ![i] =
                        [@ EXCEPT !.status = "ISSUED", !.number = call[u].number,
                                  !.year = call[u].year]]
       /\ counter' = [counter EXCEPT ![<<invoice[i].kind, call[u].year>>] = call[u].number]
       /\ call' = [call EXCEPT ![u] = NoCall]
       /\ UNCHANGED <<settings, year>>

PayReads(u, i) == invoice[i].status = "ISSUED" /\ Begin(u, "pay", i, <<>>)

CancelReads(u, i) == invoice[i].status = "DRAFT" /\ Begin(u, "cancel", i, <<>>)

\* markPaid: the trigger lets ISSUED become PAID and PAID stay so.
PayCommits(u) ==
    /\ Doing(u, "pay")
    /\ invoice' = [invoice EXCEPT ![call[u].invoice].status = "PAID"]
    /\ call' = [call EXCEPT ![u] = NoCall]
    /\ UNCHANGED <<counter, settings, year>>

\* cancelDraft: a draft becomes CANCELLED, and a cancelled one may stay so.
CancelCommits(u) ==
    /\ Doing(u, "cancel")
    /\ ~NotDraft(call[u].invoice) \/ invoice[call[u].invoice].status = "CANCELLED"
    /\ invoice' = [invoice EXCEPT ![call[u].invoice].status = "CANCELLED"]
    /\ call' = [call EXCEPT ![u] = NoCall]
    /\ UNCHANGED <<counter, settings, year>>

NewYear ==
    /\ year + 1 \in Years
    /\ year' = year + 1
    /\ UNCHANGED <<invoice, counter, settings, call>>

-----------------------------------------------------------------------------
InvoiceInit ==
    /\ invoice = [i \in Invoices |-> NoInvoice]
    /\ counter = [k \in Kinds \X Years |-> 0]
    /\ settings \in [rate : VatRates, duty : Duties]
    /\ year \in {y \in Years : \A z \in Years : y <= z}
    /\ call = [u \in Accountants |-> NoCall]

InvoiceNext ==
    \/ \E i \in Invoices, lines \in LineLists : CreateDraft(i, lines)
    \/ \E i, o \in Invoices, lines \in LineLists : CreateCreditNote(i, o, lines)
    \/ \E r \in VatRates, d \in Duties : UpdateSettings(r, d)
    \/ \E u \in Accountants, i \in Invoices, lines \in LineLists : SetLinesReads(u, i, lines)
    \/ \E u \in Accountants, i \in Invoices :
            IssueReads(u, i) \/ PayReads(u, i) \/ CancelReads(u, i)
    \/ \E u \in Accountants :
            \/ ReplaceLines(u) \/ SetLinesCommits(u) \/ NextSequence(u) \/ IssueCommits(u)
            \/ PayCommits(u) \/ CancelCommits(u) \/ RollBack(u)
    \/ NewYear

InvoiceSpec == InvoiceInit /\ [][InvoiceNext]_invoiceVars

-----------------------------------------------------------------------------
(* Properties *)

Issued(i) == invoice[i].status \in {"ISSUED", "PAID"}

\* Documents, counters and calls have their types, and only an issued document
\* has a number.
InvoiceTypeOK ==
    /\ \A i \in Invoices :
        /\ invoice[i].kind \in Kinds \cup {"none"}
        /\ invoice[i].status \in {"none", "DRAFT", "ISSUED", "PAID", "CANCELLED"}
        /\ invoice[i].lines \in Seq(Nat) /\ invoice[i].rate \in Nat /\ invoice[i].duty \in Nat
        /\ invoice[i].corrects \in Invoices \cup {NoDocument}
        /\ (invoice[i].number > 0) = Issued(i)
    /\ counter \in [Kinds \X Years -> Nat]
    /\ settings \in [rate : VatRates, duty : Duties]
    /\ year \in Years
    /\ \A u \in Accountants : call[u] = NoCall \/ call[u].invoice \in Invoices

\* The numbers of a kind and a year are 1, 2, ... without a gap or a repeat,
\* whatever calls race for one document or one counter and however they end.
SeriesHasNoGap ==
    \A k \in Kinds, y \in Years :
        LET series == {i \in Invoices :
                        Issued(i) /\ invoice[i].kind = k /\ invoice[i].year = y}
        IN /\ {invoice[i].number : i \in series} = 1 .. counter[<<k, y>>]
           /\ Cardinality(series) = counter[<<k, y>>]

\* The totals of every document, issued or not, are those of its lines at the
\* rate it was drafted with, off by half a unit at most, and a credit note taxes
\* as its original did, though the lines, the totals and the settings are
\* changed by different calls.
DocumentsAddUp ==
    \A i \in Invoices :
        /\ invoice[i].status # "none" =>
            invoice[i].totals =
                ComputeInvoiceTotals(invoice[i].lines, invoice[i].rate, invoice[i].duty)
        /\ LET exact == invoice[i].totals.subtotal * invoice[i].rate
               charged == invoice[i].totals.vat * BasisPoints
           IN charged - exact <= 5000 /\ exact - charged <= 5000
        /\ invoice[i].corrects # NoDocument =>
            LET original == invoice[invoice[i].corrects]
            IN invoice[i].lines = original.lines => invoice[i].totals = original.totals

Face(i) == [invoice[i] EXCEPT !.lines = <<>>, !.status = "ISSUED"]

\* What an issued document says never changes, but for being paid.
IssuedIsFrozen ==
    [][\A i \in Invoices : Issued(i) => Face(i)' = Face(i) /\ Issued(i)']_invoiceVars

\* Migration 0032: "Lines of an issued invoice are frozen entirely".  A rewrite
\* that passed its trigger before the issue may commit after it, if the totals
\* are the same.
LinesAreFrozen ==
    [][\A i \in Invoices : Issued(i) => invoice'[i].lines = invoice[i].lines]_invoiceVars
=============================================================================
