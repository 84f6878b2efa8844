------------------------- MODULE MCAccountLifecycle -------------------------
(* Two accounts of any onboarding state and role; one request at a time    *)
(* waits for its fence.                                                    *)
EXTENDS AccountLifecycle, TLC

MCSymmetry == Permutations(Users)
=============================================================================
