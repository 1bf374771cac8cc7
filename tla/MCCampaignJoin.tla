--------------------------- MODULE MCCampaignJoin ---------------------------
(* Model values for the instances of CampaignJoin.                         *)
EXTENDS CampaignJoin, TLC
CONSTANTS r1, r2, j1, j2, j3, a, b, name

(* a and b have different task groups and only a is meant for the user; a  *)
(* campaign with nothing but a name targets everybody and has no tasks.    *)
Groups == (a :> 1) @@ (b :> 2) @@ (name :> 0)

(* The calls differ in nothing else.                                       *)
CallSymmetry == Permutations(Calls) \cup Permutations(Requests)
=============================================================================
