---------------------------- MODULE MCCashLedger ----------------------------
EXTENDS CashLedger, TLC

\* Identities that the rules treat alike; every property of the run is safety.
Alike ==
    Permutations(Parcels) \cup Permutations(Settlements)
        \cup Permutations(Clerks) \cup Permutations(Keys)
=============================================================================
