SPECIFICATION InvoiceSpec
CONSTANTS
    Invoices = {i1, i2}
    Accountants = {a1, a2}
    LineLists <- SmallLists
    VatRates = {700, 1900}
    Duties = {1}
    Years = {26, 27}
    NoCall = NoCall
    NoDocument = NoDocument
SYMMETRY Alike
INVARIANTS
    SeriesHasNoGap
    DocumentsAddUp
PROPERTIES
    IssuedIsFrozen
CHECK_DEADLOCK FALSE
