-------------------------- MODULE MCRewardDelivery --------------------------
(* Small instances of RewardDelivery: one campaign, one participant, and   *)
(* the completion of a task that its only rule rewards.                    *)
EXTENDS RewardDelivery, TLC

CONSTANTS u1, c1, p1, p2

Task ==
  [user |-> u1, status |-> "completed", task |-> 1, group |-> 1,
   done |-> 2, total |-> 2]

WithIgnored == {Task, [Task EXCEPT !.status = "other"]}

OneRule == {<<[client |-> "task", ref |-> 1, template |-> 1]>>}

OneEach == p1 :> 1 @@ p2 :> 1
=============================================================================
