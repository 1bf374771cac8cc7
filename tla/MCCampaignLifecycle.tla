------------------------ MODULE MCCampaignLifecycle ------------------------
(* Small instances of CampaignLifecycle: contents a and b pass the publish *)
(* checks, the name-only content does not.                                 *)
EXTENDS CampaignLifecycle, TLC

Symmetry == Permutations(Requests)
=============================================================================
