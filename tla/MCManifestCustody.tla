------------------------- MODULE MCManifestCustody -------------------------
(* Two operators at a small hub for TLC. *)
EXTENDS ManifestCustody, TLC

Alike == Permutations(Operators) \cup Permutations(Parcels)
=============================================================================
