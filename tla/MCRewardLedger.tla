--------------------------- MODULE MCRewardLedger ---------------------------
(* Small instances of RewardLedger for TLC: one or two users, one campaign *)
(* and rules on one task and on its task group.                            *)
EXTENDS RewardLedger, TLC

CONSTANTS u1, u2, c1

Task(u) ==
  [user |-> u, status |-> "completed", task |-> 1, group |-> 1,
   done |-> 1, total |-> 2]
LastTask(u) == [Task(u) EXCEPT !.done = 2]
Started(u) == [Task(u) EXCEPT !.status = "other"]

TaskRule == [client |-> "task", ref |-> 1, template |-> 1]
GroupRule == [client |-> "task_group", ref |-> 1, template |-> 2]
UnpaidRule == [TaskRule EXCEPT !.template = 0]

OneEvent == {Task(u1)}
EventsOfTwo == {Started(u1), Task(u1), LastTask(u2)}

OneRule == {<<TaskRule>>}
RuleVariants == {<<GroupRule, TaskRule>>, <<GroupRule, UnpaidRule>>}

Symmetry == Permutations(Workers)
=============================================================================
