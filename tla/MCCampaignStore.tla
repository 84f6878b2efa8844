-------------------------- MODULE MCCampaignStore --------------------------
(***************************************************************************)
(* TLC instances of CampaignStore.                                         *)
(***************************************************************************)
EXTENDS CampaignStore, TLC

CONSTANT v1

MCPolicyOf == [r \in LegalRuns |-> v1]

MCSymmetry == Permutations(Members) \cup Permutations(Workers)
=============================================================================
