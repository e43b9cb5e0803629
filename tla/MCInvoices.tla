----------------------------- MODULE MCInvoices -----------------------------
EXTENDS Invoices, TLC
\* The totals of two lists differ, or their lines only.
SmallLists == {<<>>, <<3, 4>>, <<6>>}
SameSum == {<<>>, <<3, 3>>, <<6>>}

Alike == Permutations(Invoices) \cup Permutations(Accountants)
=============================================================================
