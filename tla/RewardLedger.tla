---------------------------- MODULE RewardLedger ----------------------------
(***************************************************************************)
(* How completed tasks become rewards.                                     *)
(*                                                                         *)
(* A worker is one handler invocation slot: the consumer goroutine of one  *)
(* instance of the service.  Several instances of one consumer group, or   *)
(* an instance that still handles a record after its partition was given   *)
(* to another one, run HandleTaskCompleted and HandleRewardResult (service/*)
(* campaign_reward_event_service.go) at the same time on one MySQL         *)
(* database.  No handler holds a transaction over two calls, so a step     *)
(* here is one database statement or one gRPC call, and everything a       *)
(* handler keeps between two of them is in job[w].                         *)
(*                                                                         *)
(* Topics are sets that only grow: a record may be handled again           *)
(* (redelivery, restart from an old offset) and in any order.              *)
(***************************************************************************)
EXTENDS Integers, Sequences, FiniteSets

CONSTANTS
  Users, Campaigns,
  Workers,      \* handler invocations that can run at the same time
  Events,       \* task-completed events that producers may send
  RuleLists,    \* flattened reward rules a publish may install
  Faults,       \* which failures the environment may inject, see FaultKinds
  Dedup,        \* TRUE: the reward service accepts a client_ref_id only once
  MaxRuleId,    \* bound: rule rows ever created
  MaxCalls,     \* bound: distribution requests ever accepted
  None          \* "no event" and "no rule" in an idle worker

RefClients == {"task", "task_group"}

RuleSpec == [client : RefClients, ref : Nat, template : Nat]
RuleRow  == [id : Nat, campaign : Campaigns,
             client : RefClients, ref : Nat, template : Nat]

EventType == [user : Users, status : {"completed", "other"},
              task : Nat, group : Nat, done : Nat, total : Nat]

(* Failures: "abort" ends a handler after any step (database or parse      *)
(* error, crash); "insert" makes INSERT report an error; "lost" drops the  *)
(* answer of an accepted Distribute; "reject" refuses one; "no_voucher"    *)
(* accepts it without a voucher id in the answer; "failed" lets a result   *)
(* event report something else than DISTRIBUTED; "blank" lets it omit the  *)
(* voucher id.                                                             *)
FaultKinds ==
  {"abort", "insert", "lost", "reject", "no_voucher", "failed", "blank"}

ASSUME RewardLedgerAssumption ==
  /\ Events \subseteq EventType
  /\ RuleLists \subseteq Seq(RuleSpec)
  /\ Faults \subseteq FaultKinds
  /\ Dedup \in BOOLEAN
  /\ MaxRuleId \in Nat /\ MaxCalls \in Nat

VARIABLES
  rules,        \* campaign_reward_rules
  nextRuleId,   \* its AUTO_INCREMENT counter
  participants, \* campaign_participants: <<campaign, user>>
  ledgers,      \* campaign_user_rewards_ledger: the id is the position
  completions,  \* topic of task-completed events
  results,      \* topic of reward-distribution results
  calls,        \* requests the reward service accepted; position = voucher id
  job,          \* what each worker is doing
  issued        \* history: every rule row that was ever in the table

vars == <<rules, nextRuleId, participants, ledgers, completions, results,
          calls, job, issued>>

NoVoucher == 0

LedgerStatus ==
  {"pending_distribution", "distributing", "distribute_success",
   "distribute_fail"}
LedgerRow ==
  [user : Users, campaign : Campaigns, rule : Nat,
   status : LedgerStatus, voucher : Nat]

(* "FAILED" is every status other than DISTRIBUTED: an unknown one is      *)
(* logged and then treated as a failure.                                   *)
ResultStatus == {"DISTRIBUTED", "FAILED"}
ResultType   == [ref : Nat, status : ResultStatus, voucher : Nat]

CallType == [ledger : Nat, user : Users, template : Nat]

(* A worker's program point is the next statement it will execute.         *)
RulePC  == {"ledger", "insert", "reread", "call"}        \* works on one rule
EventPC == RulePC \cup {"group_rules", "next", "settle"} \* handles an event
PC      == EventPC \cup {"idle", "record"}

Local == [pc : PC, event : Events \cup {None}, todo : SUBSET RuleRow,
          rule : RuleRow \cup {None}, led : Nat,
          status : LedgerStatus, voucher : Nat]
Job == {j \in Local : /\ j.pc \in EventPC => j.event \in Events
                      /\ j.pc \in RulePC => j.rule \in RuleRow}

Idle == [pc |-> "idle", event |-> None, todo |-> {}, rule |-> None, led |-> 0,
         status |-> "pending_distribution", voucher |-> NoVoucher]

(* Worker w's local state becomes j.                                       *)
Becomes(w, j) == job' = [job EXCEPT ![w] = j]

Init ==
  /\ rules = {} /\ nextRuleId = 1 /\ issued = {}
  /\ participants = {}
  /\ ledgers = << >>
  /\ completions = {} /\ results = {}
  /\ calls = << >>
  /\ job = [w \in Workers |-> Idle]

-----------------------------------------------------------------------------
(* The rest of the service and its environment.                            *)

TableVars == <<rules, nextRuleId, issued, participants>>
TopicVars == <<completions, results>>

(* ReplaceByCampaignID: one transaction deletes the campaign's rules and   *)
(* inserts the new list; ids start at 0 in the rows, so MySQL numbers them *)
(* afresh.                                                                 *)
NewRules(c, list) ==
  {[id |-> nextRuleId + i - 1, campaign |-> c, client |-> list[i].client,
    ref |-> list[i].ref, template |-> list[i].template] : i \in DOMAIN list}

ReplaceRules(c, list) ==
  /\ nextRuleId + Len(list) - 1 <= MaxRuleId
  /\ rules' = {r \in rules : r.campaign # c} \cup NewRules(c, list)
  /\ nextRuleId' = nextRuleId + Len(list)
  /\ issued' = issued \cup NewRules(c, list)
  /\ UNCHANGED <<participants, ledgers, TopicVars, calls, job>>

(* Join's INSERT ... ON CONFLICT DO NOTHING.                               *)
Join(c, u) ==
  /\ participants' = participants \cup {<<c, u>>}
  /\ UNCHANGED <<rules, nextRuleId, issued, ledgers, TopicVars, calls, job>>

(* The task service reports progress of a user's task.                     *)
SendCompletion(e) ==
  /\ completions' = completions \cup {e}
  /\ UNCHANGED <<TableVars, ledgers, results, calls, job>>

(* The reward service reports the outcome of an accepted request, with or  *)
(* without its voucher id.                                                 *)
SendResult(k, s, v) ==
  /\ s # "DISTRIBUTED" => "failed" \in Faults
  /\ v = NoVoucher => "blank" \in Faults
  /\ results' = results \cup
       {[ref |-> calls[k].ledger, status |-> s, voucher |-> v]}
  /\ UNCHANGED <<TableVars, ledgers, completions, calls, job>>

-----------------------------------------------------------------------------
(* HandleTaskCompleted.                                                    *)

ByRef(client, ref) == {r \in rules : r.client = client /\ r.ref = ref}

GroupProgress(e) == e.group > 0 /\ e.total > 0      \* mutant of GroupDone
GroupDone(e) == e.group > 0 /\ e.total > 0 /\ e.done >= e.total

(* The status check and the first query; events of another status are      *)
(* dropped without effect, and so are events without a rule.               *)
ReceiveCompletion(w, e) ==
  /\ job[w].pc = "idle"
  /\ e.status = "completed"
  /\ Becomes(w, [Idle EXCEPT
       !.pc = "group_rules", !.event = e,
       !.todo = IF e.task > 0 THEN ByRef("task", e.task) ELSE {}])
  /\ UNCHANGED <<TableVars, ledgers, TopicVars, calls>>

ListGroupRules(w) ==
  /\ job[w].pc = "group_rules"
  /\ Becomes(w, [job[w] EXCEPT
       !.pc = "next",
       !.todo = @ \cup IF GroupDone(job[w].event)
                       THEN ByRef("task_group", job[w].event.group)
                       ELSE {}])
  /\ UNCHANGED <<TableVars, ledgers, TopicVars, calls>>

(* Rules are handled in the order of the two queries, each by id.          *)
Before(r, q) == \/ r.client = "task" /\ q.client = "task_group"
                \/ r.client = q.client /\ r.id < q.id

IsNext(r, S) == r \in S /\ \A q \in S : ~Before(q, r)

Finish(w) ==
  /\ job[w].pc = "next" /\ job[w].todo = {}
  /\ Becomes(w, Idle)
  /\ UNCHANGED <<TableVars, ledgers, TopicVars, calls>>

Pays(r) == r.template > 0

(* A rule without a reward, or of a campaign the user has not joined, is   *)
(* passed over; the handler goes on and will report success.               *)
SkipRule(w, r) ==
  /\ job[w].pc = "next" /\ IsNext(r, job[w].todo)
  /\ ~Pays(r) \/ <<r.campaign, job[w].event.user>> \notin participants
  /\ Becomes(w, [job[w] EXCEPT !.todo = @ \ {r}])
  /\ UNCHANGED <<TableVars, ledgers, TopicVars, calls>>

PickRule(w, r) ==
  /\ job[w].pc = "next" /\ IsNext(r, job[w].todo)
  /\ Pays(r) /\ <<r.campaign, job[w].event.user>> \in participants
  /\ Becomes(w, [job[w] EXCEPT !.pc = "ledger", !.rule = r,
                               !.todo = @ \ {r}])
  /\ UNCHANGED <<TableVars, ledgers, TopicVars, calls>>

(* The ledger rows of the worker's (user, campaign, rule) key.             *)
Found(w) ==
  {l \in DOMAIN ledgers : /\ ledgers[l].user = job[w].event.user
                          /\ ledgers[l].campaign = job[w].rule.campaign
                          /\ ledgers[l].rule = job[w].rule.id}

(* Mutant of ExistingLedger: the stored voucher is not looked at.          *)
DistributeAnyway(w, l) ==
  Becomes(w, [job[w] EXCEPT !.pc = "call", !.led = l])

(* Mutant of ExistingLedger: a row that exists is never distributed again. *)
LeaveExisting(w, l) == Becomes(w, [job[w] EXCEPT !.pc = "next"])

(* GetByUserCampaignRule found row l: leave it alone when it has a         *)
(* voucher, distribute (again) when it has none.                           *)
ExistingLedger(w, l) ==
  IF ledgers[l].voucher # NoVoucher
  THEN Becomes(w, [job[w] EXCEPT !.pc = "next"])
  ELSE Becomes(w, [job[w] EXCEPT !.pc = "call", !.led = l])

LookupLedger(w) ==
  /\ job[w].pc = "ledger"
  /\ \/ \E l \in Found(w) : ExistingLedger(w, l)
     \/ Found(w) = {} /\ Becomes(w, [job[w] EXCEPT !.pc = "insert"])
  /\ UNCHANGED <<TableVars, ledgers, TopicVars, calls>>

NewLedger(w) ==
  [user |-> job[w].event.user, campaign |-> job[w].rule.campaign,
   rule |-> job[w].rule.id, status |-> "pending_distribution",
   voucher |-> NoVoucher]

NoUniqueKey(w) == TRUE                              \* mutant of CanInsert

(* The unique key (user, campaign, rule) refuses a second row.             *)
CanInsert(w) == Found(w) = {}

InsertLedger(w) ==
  /\ job[w].pc = "insert" /\ CanInsert(w)
  /\ ledgers' = Append(ledgers, NewLedger(w))
  /\ Becomes(w, [job[w] EXCEPT !.pc = "call", !.led = Len(ledgers) + 1])
  /\ UNCHANGED <<TableVars, TopicVars, calls>>

(* INSERT reported an error: a duplicate key, or a failure before or after *)
(* the row was written.                                                    *)
InsertFails(w) ==
  /\ job[w].pc = "insert"
  /\ \/ ~CanInsert(w) /\ UNCHANGED ledgers
     \/ "insert" \in Faults /\ UNCHANGED ledgers
     \/ "insert" \in Faults /\ CanInsert(w)
        /\ ledgers' = Append(ledgers, NewLedger(w))
  /\ Becomes(w, [job[w] EXCEPT !.pc = "reread"])
  /\ UNCHANGED <<TableVars, TopicVars, calls>>

Reread(w) ==
  /\ job[w].pc = "reread"
  /\ \/ \E l \in Found(w) : ExistingLedger(w, l)
     \/ Found(w) = {} /\ Becomes(w, Idle)
  /\ UNCHANGED <<TableVars, ledgers, TopicVars, calls>>

CallsFor(l) == {k \in DOMAIN calls : calls[k].ledger = l}

AttemptRef(w) == Len(calls) + 1                     \* mutant of ClientRef

(* distributeReward reads the campaign row (its budget project is not      *)
(* modelled) and calls Reward with the ledger id as client_ref_id.         *)
ClientRef(w) == job[w].led

(* Mutant of Answered: an accepted request is taken for a delivered reward. *)
AnsweredAsSuccess(w, v) ==
  Becomes(w, [job[w] EXCEPT !.pc = "settle", !.voucher = v,
                            !.status = "distribute_success"])

Answered(w, v) ==
  Becomes(w, [job[w] EXCEPT !.pc = "settle", !.voucher = v,
                            !.status = "distributing"])
CallFailed(w) ==
  Becomes(w, [job[w] EXCEPT !.pc = "settle", !.voucher = NoVoucher,
                            !.status = "distribute_fail"])

NewCall(w) == [ledger |-> ClientRef(w), user |-> job[w].event.user,
               template |-> job[w].rule.template]

(* The service accepts the request: the answer arrives with the voucher,   *)
(* arrives without it, or is lost (deadline, connection).                  *)
Distribute(w) ==
  /\ job[w].pc = "call"
  /\ Dedup => CallsFor(ClientRef(w)) = {}
  /\ Len(calls) < MaxCalls
  /\ calls' = Append(calls, NewCall(w))
  /\ \/ Answered(w, Len(calls) + 1)
     \/ "no_voucher" \in Faults /\ Answered(w, NoVoucher)
     \/ "lost" \in Faults /\ CallFailed(w)
  /\ UNCHANGED <<TableVars, ledgers, TopicVars>>

(* A service that knows the client_ref_id answers with an old voucher.     *)
DistributeAgain(w) ==
  /\ job[w].pc = "call"
  /\ \E k \in CallsFor(ClientRef(w)) :
       \/ Answered(w, k)
       \/ "no_voucher" \in Faults /\ Answered(w, NoVoucher)
       \/ "lost" \in Faults /\ CallFailed(w)
  /\ UNCHANGED <<TableVars, ledgers, TopicVars, calls>>

DistributeRejected(w) ==
  /\ job[w].pc = "call" /\ "reject" \in Faults
  /\ CallFailed(w)
  /\ UNCHANGED <<TableVars, ledgers, TopicVars, calls>>

(* Mutant of Updated: an empty voucher is written too.                     *)
UpdatedBoth(row, s, v) == [row EXCEPT !.status = s, !.voucher = v]

(* UpdateStatusAndVoucher: an unconditional UPDATE by id that leaves the   *)
(* stored voucher alone when it is given none.                             *)
Updated(row, s, v) ==
  [row EXCEPT !.status = s,
              !.voucher = IF v # NoVoucher THEN v ELSE row.voucher]

UpdateStatusAndVoucher(l, s, v) ==
  ledgers' = [ledgers EXCEPT ![l] = Updated(ledgers[l], s, v)]

(* After a failed call the handler returns the error, and the remaining    *)
(* rules of the event are not looked at.                                   *)
Settle(w) ==
  /\ job[w].pc = "settle"
  /\ UpdateStatusAndVoucher(job[w].led, job[w].status, job[w].voucher)
  /\ Becomes(w, IF job[w].status = "distributing"
                THEN [job[w] EXCEPT !.pc = "next"] ELSE Idle)
  /\ UNCHANGED <<TableVars, TopicVars, calls>>

-----------------------------------------------------------------------------
(* HandleRewardResult.                                                     *)

StatusOf(m) == IF m.status = "DISTRIBUTED"
               THEN "distribute_success" ELSE "distribute_fail"

VoucherOf(m) == IF m.voucher # NoVoucher
                THEN m.voucher ELSE ledgers[m.ref].voucher

(* GetByID; a result whose client_ref_id is empty, does not parse, is not  *)
(* positive or names no ledger is an error and changes nothing.            *)
ReceiveResult(w, m) ==
  /\ job[w].pc = "idle"
  /\ m.ref \in DOMAIN ledgers
  /\ Becomes(w, [Idle EXCEPT !.pc = "record", !.led = m.ref,
                    !.status = StatusOf(m), !.voucher = VoucherOf(m)])
  /\ UNCHANGED <<TableVars, ledgers, TopicVars, calls>>

RecordResult(w) ==
  /\ job[w].pc = "record"
  /\ UpdateStatusAndVoucher(job[w].led, job[w].status, job[w].voucher)
  /\ Becomes(w, Idle)
  /\ UNCHANGED <<TableVars, TopicVars, calls>>

-----------------------------------------------------------------------------
(* A database error makes a handler return at once, and a crash loses it:  *)
(* what it wrote stays, the rest is not done.                              *)
Abort(w) ==
  /\ "abort" \in Faults /\ job[w].pc # "idle"
  /\ Becomes(w, Idle)
  /\ UNCHANGED <<TableVars, ledgers, TopicVars, calls>>

HandleTaskCompleted(w) ==
  \/ \E e \in completions : ReceiveCompletion(w, e)
  \/ ListGroupRules(w)
  \/ \E r \in job[w].todo : SkipRule(w, r) \/ PickRule(w, r)
  \/ LookupLedger(w) \/ InsertLedger(w) \/ InsertFails(w) \/ Reread(w)
  \/ Distribute(w) \/ DistributeAgain(w) \/ DistributeRejected(w)
  \/ Settle(w) \/ Finish(w)

HandleRewardResult(w) ==
  \/ \E m \in results : ReceiveResult(w, m)
  \/ RecordResult(w)

Environment ==
  \/ \E c \in Campaigns, list \in RuleLists : ReplaceRules(c, list)
  \/ \E c \in Campaigns, u \in Users : Join(c, u)
  \/ \E e \in Events : SendCompletion(e)
  \/ \E k \in DOMAIN calls, s \in ResultStatus :
       SendResult(k, s, k) \/ SendResult(k, s, NoVoucher)

Next ==
  \/ Environment
  \/ \E w \in Workers :
       HandleTaskCompleted(w) \/ HandleRewardResult(w) \/ Abort(w)

Spec == Init /\ [][Next]_vars

(* A running handler goes on: its goroutine is scheduled until it returns. *)
Proceed(w) ==
  \/ ListGroupRules(w)
  \/ \E r \in job[w].todo : SkipRule(w, r) \/ PickRule(w, r)
  \/ LookupLedger(w) \/ InsertLedger(w) \/ InsertFails(w) \/ Reread(w)
  \/ Distribute(w) \/ DistributeAgain(w) \/ DistributeRejected(w)
  \/ Settle(w) \/ Finish(w) \/ RecordResult(w)

-----------------------------------------------------------------------------
(* Correctness.                                                            *)

(* Every variable keeps its type.                                          *)
TypeOK ==
  /\ rules \subseteq issued
  /\ issued \subseteq RuleRow
  /\ nextRuleId \in Nat \ {0}
  /\ participants \subseteq Campaigns \X Users
  /\ ledgers \in Seq(LedgerRow)
  /\ completions \subseteq Events
  /\ results \subseteq ResultType
  /\ calls \in Seq(CallType)
  /\ job \in [Workers -> Job]

(* What the product promises a reward for, said without the handler's      *)
(* code: the event completes the rule's task or the whole of its group.    *)
Earns(e, r) ==
  /\ e.status = "completed"
  /\ \/ r.client = "task" /\ r.ref = e.task
     \/ r.client = "task_group" /\ r.ref = e.group /\ e.done >= e.total

RuleOf(l, r) == /\ r.campaign = ledgers[l].campaign
                /\ r.id = ledgers[l].rule

(* Each request sent to the reward service is for a stored ledger row of   *)
(* the same user, who has joined the campaign; a rule that was published   *)
(* under the row's rule id offers exactly the requested template, and the  *)
(* task service reported that the user completed what that rule asks.      *)
Justified(k) ==
  LET l == calls[k].ledger IN
  /\ l \in DOMAIN ledgers
  /\ ledgers[l].user = calls[k].user
  /\ <<ledgers[l].campaign, ledgers[l].user>> \in participants
  /\ \E r \in issued, e \in completions :
       /\ RuleOf(l, r) /\ r.template = calls[k].template /\ r.template > 0
       /\ e.user = calls[k].user /\ Earns(e, r)

CallsJustified == \A k \in DOMAIN calls : Justified(k)

(* The voucher stored in a row was issued for that row, and a row is       *)
(* reported as successfully distributed only after the reward service said *)
(* so in a result for that row, whatever the interleaving.                 *)
LedgerFollowsService ==
  \A l \in DOMAIN ledgers :
    /\ ledgers[l].voucher # NoVoucher =>
         ledgers[l].voucher \in CallsFor(l)
    /\ ledgers[l].status = "distribute_success" =>
         \E m \in results : m.ref = l /\ m.status = "DISTRIBUTED"

(* The unique key and the re-read after a refused INSERT: however many     *)
(* handlers race, a user has one ledger row per rule.                      *)
OneLedgerPerKey ==
  \A k, l \in DOMAIN ledgers :
    /\ ledgers[k].user = ledgers[l].user
    /\ ledgers[k].campaign = ledgers[l].campaign
    /\ ledgers[k].rule = ledgers[l].rule
    => k = l

(* No step blanks a recorded voucher, neither a failed distribution that   *)
(* finishes late nor a result that carries none.                           *)
VoucherNeverErased ==
  [][\A l \in DOMAIN ledgers :
       ledgers[l].voucher # NoVoucher => ledgers'[l].voucher # NoVoucher]_vars

(* Once a voucher is recorded and no handler is about to call the service  *)
(* for that row, no handler ever calls it for that row again: redelivered  *)
(* and duplicated events are harmless from then on.                        *)
Closed(l) ==
  /\ l \in DOMAIN ledgers /\ ledgers[l].voucher # NoVoucher
  /\ \A w \in Workers : job[w].pc = "call" => job[w].led # l

ClosedForever ==
  [][\A l \in DOMAIN ledgers : Closed(l) => Closed(l)']_vars

(* While no answer is lost or lacks its voucher and no handler dies, a row *)
(* costs at most one accepted request per concurrent handler, so at most   *)
(* one when records are handled one at a time; a refused request may be    *)
(* repeated.                                                               *)
CallsPerLedgerBounded ==
  \A l \in DOMAIN ledgers :
    Cardinality(CallsFor(l)) <= Cardinality(Workers)

(* With one handler at a time and a service that reports success, with the *)
(* voucher, of what it accepted, success is final: no redelivery and no    *)
(* late result takes a row back.                                           *)
SuccessIsFinal ==
  [][\A l \in DOMAIN ledgers :
       ledgers[l].status = "distribute_success" =>
         ledgers'[l].status = "distribute_success"]_vars

(* If the service answers every request for one client_ref_id with the     *)
(* same voucher, a recorded voucher never changes.                         *)
VoucherStable ==
  [][\A l \in DOMAIN ledgers :
       ledgers[l].voucher # NoVoucher =>
         ledgers'[l].voucher = ledgers[l].voucher]_vars

(* The comment on the retry branch of maybeDistributeForRule: a row        *)
(* without voucher_id was never accepted by the reward service.            *)
RetryOnlyIfNeverAccepted ==
  [][\A w \in Workers :
       (/\ job[w].pc \in {"ledger", "reread"}
        /\ job'[w].pc = "call")
       => CallsFor(job'[w].led) = {}]_vars
=============================================================================
