------------------------- MODULE MCCampaignDelivery -------------------------
(***************************************************************************)
(* TLC instances of CampaignDelivery.                                      *)
(***************************************************************************)
EXTENDS CampaignDelivery, TLC

CONSTANTS v1

MCPolicyOf == [r \in LegalRuns |-> v1]

MCSymmetry ==
    Permutations(Members) \cup Permutations(Workers) \cup Permutations(BulkWorkers)
=============================================================================
