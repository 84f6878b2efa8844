--------------------------- MODULE MCPublicAsset ---------------------------
(* PublicAsset for TLC.                                                    *)
EXTENDS PublicAsset, TLC

Symmetry == Permutations(Requests) \cup Permutations(Cleaners) \cup Permutations(OwnerSlots)
============================================================================
