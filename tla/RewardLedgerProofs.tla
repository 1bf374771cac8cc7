------------------------- MODULE RewardLedgerProofs -------------------------
(* Theorems about RewardLedger, for every set of users, campaigns,         *)
(* workers, events, rule lists and faults.                                 *)
EXTENDS RewardLedger, SequenceTheorems, FiniteSetTheorems, TLAPS

-----------------------------------------------------------------------------
(* Types.                                                                  *)

LEMMA EventTyped ==
  ASSUME NEW e \in Events
  PROVE  e \in EventType
BY RewardLedgerAssumption

LEMMA NewRulesTyped ==
  ASSUME TypeOK, NEW c \in Campaigns, NEW list \in RuleLists
  PROVE  NewRules(c, list) \subseteq RuleRow /\ Len(list) \in Nat
<1>1. list \in Seq(RuleSpec) /\ nextRuleId \in Nat \ {0}
  BY RewardLedgerAssumption DEF TypeOK
<1>2. ASSUME NEW i \in DOMAIN list
      PROVE  list[i] \in RuleSpec /\ nextRuleId + i - 1 \in Nat
  BY <1>1
<1>3. QED
  BY <1>1, <1>2 DEF NewRules, RuleRow, RuleSpec

LEMMA TypeInit == Init => TypeOK
BY DEF Init, TypeOK, Idle, Job, Local, PC, EventPC, RulePC, LedgerStatus, NoVoucher

(* The steps of the environment leave the workers alone.                   *)
LEMMA TypeEnvironment ==
  ASSUME TypeOK, Environment
  PROVE  TypeOK'
<1>1. ASSUME NEW c \in Campaigns, NEW list \in RuleLists, ReplaceRules(c, list)
      PROVE  TypeOK'
  <2>1. NewRules(c, list) \subseteq RuleRow /\ Len(list) \in Nat
    BY NewRulesTyped
  <2>2. QED
    BY <1>1, <2>1 DEF TypeOK, ReplaceRules, TopicVars
<1>2. ASSUME NEW c \in Campaigns, NEW u \in Users, Join(c, u)
      PROVE  TypeOK'
  BY <1>2 DEF TypeOK, Join, TopicVars
<1>3. ASSUME NEW e \in Events, SendCompletion(e)
      PROVE  TypeOK'
  BY <1>3 DEF TypeOK, SendCompletion, TableVars
<1>4. ASSUME NEW k \in DOMAIN calls, NEW s \in ResultStatus,
             NEW v \in {k, NoVoucher}, SendResult(k, s, v)
      PROVE  TypeOK'
  <2>1. calls[k] \in CallType /\ v \in Nat
    BY DEF TypeOK, NoVoucher
  <2>2. [ref |-> calls[k].ledger, status |-> s, voucher |-> v] \in ResultType
    BY <2>1 DEF CallType, ResultType
  <2>3. QED
    BY <1>4, <2>2 DEF TypeOK, SendResult, TableVars
<1>5. QED
  BY <1>1, <1>2, <1>3, <1>4 DEF Environment

(* A step of a worker gives it a typed local state, and may add a ledger   *)
(* row, add a call or change a row.                                        *)
LEMMA TypeBecomes ==
  ASSUME TypeOK, NEW w \in Workers, NEW j \in Job, Becomes(w, j),
         UNCHANGED <<TableVars, TopicVars>>,
         ledgers' \in Seq(LedgerRow), calls' \in Seq(CallType)
  PROVE  TypeOK'
BY DEF TypeOK, TableVars, TopicVars, Becomes

LEMMA IdleTyped == Idle \in Job
BY DEF Idle, Job, Local, PC, EventPC, RulePC, LedgerStatus, NoVoucher

LEMMA JobTyped ==
  ASSUME TypeOK, NEW w \in Workers
  PROVE  job[w] \in Job
BY DEF TypeOK

(* An update of a row by its id.                                           *)
LEMMA UpdateTyped ==
  ASSUME TypeOK, NEW l \in Nat, NEW s \in LedgerStatus, NEW v \in Nat,
         UpdateStatusAndVoucher(l, s, v)
  PROVE  ledgers' \in Seq(LedgerRow) /\ DOMAIN ledgers' = DOMAIN ledgers
<1> DEFINE row == Updated(ledgers[l], s, v)
<1>1. ledgers \in Seq(LedgerRow) /\ ledgers' = [ledgers EXCEPT ![l] = row]
  BY DEF TypeOK, UpdateStatusAndVoucher
<1>2. CASE l \in DOMAIN ledgers
  <2>1. l \in 1 .. Len(ledgers) /\ ledgers[l] \in LedgerRow
    BY <1>1, <1>2
  <2>2. row \in LedgerRow
    BY <2>1 DEF LedgerRow, Updated
  <2> HIDE DEF row
  <2>3. QED
    BY <1>1, <2>1, <2>2, ExceptSeq
<1>3. CASE l \notin DOMAIN ledgers
  <2>1. ledgers' = ledgers
    BY <1>1, <1>3
  <2>2. QED
    BY <1>1, <2>1
<1>4. QED
  BY <1>2, <1>3

(* The local states a worker moves through stay typed.                     *)
LEMMA JobEdits ==
  ASSUME NEW j \in Job, j.pc \in EventPC,
         NEW l \in Nat, NEW s \in LedgerStatus, NEW v \in Nat
  PROVE  /\ [j EXCEPT !.pc = "next"] \in Job
         /\ j.pc \in RulePC => /\ [j EXCEPT !.pc = "insert"] \in Job
                              /\ [j EXCEPT !.pc = "reread"] \in Job
                              /\ [j EXCEPT !.pc = "call", !.led = l] \in Job
         /\ [j EXCEPT !.pc = "settle", !.voucher = v, !.status = s] \in Job
BY DEF Job, Local, PC, EventPC, RulePC

LEMMA HandlerTyped ==
  ASSUME TypeOK, NEW w \in Workers
  PROVE  /\ job[w].pc \in EventPC => job[w].event \in Events
         /\ job[w].pc \in RulePC =>
              /\ job[w].rule \in RuleRow
              /\ NewLedger(w) \in LedgerRow /\ NewCall(w) \in CallType
              /\ Append(ledgers, NewLedger(w)) \in Seq(LedgerRow)
              /\ Append(calls, NewCall(w)) \in Seq(CallType)
<1>1. job[w] \in Job
  BY JobTyped
<1>2. job[w].pc \in EventPC => job[w].event \in Events
  BY <1>1 DEF Job, Local
<1>3. ASSUME job[w].pc \in RulePC
      PROVE  /\ job[w].rule \in RuleRow
             /\ NewLedger(w) \in LedgerRow /\ NewCall(w) \in CallType
  <2>1. job[w].event.user \in Users
    BY <1>2, <1>3, EventTyped DEF EventType, EventPC
  <2>2. job[w].rule \in RuleRow
    BY <1>1, <1>3 DEF Job, Local
  <2>3. job[w].rule.campaign \in Campaigns /\ job[w].rule.id \in Nat
          /\ job[w].rule.template \in Nat /\ job[w].led \in Nat
    BY <1>1, <2>2 DEF Job, Local, RuleRow
  <2>4. QED
    BY <2>1, <2>2, <2>3 DEF NewLedger, LedgerRow, LedgerStatus, NoVoucher,
       NewCall, CallType, ClientRef
<1>4. QED
  BY <1>2, <1>3, AppendProperties DEF TypeOK

LEMMA TypeHandleTaskCompleted ==
  ASSUME TypeOK, NEW w \in Workers, HandleTaskCompleted(w)
  PROVE  TypeOK'
<1> DEFINE HasJob == \E j \in Job : Becomes(w, j)
<1>1. /\ job[w] \in Job /\ Idle \in Job
      /\ ledgers \in Seq(LedgerRow) /\ calls \in Seq(CallType)
  BY JobTyped, IdleTyped DEF TypeOK
<1>2. ASSUME NEW e \in completions, ReceiveCompletion(w, e)
      PROVE  TypeOK'
  <2>1. HasJob
    BY <1>1, <1>2 DEF ReceiveCompletion, TypeOK, Job, Local, PC, EventPC,
       RulePC, ByRef, Idle
  <2>2. QED
    BY <1>1, <1>2, <2>1, TypeBecomes DEF ReceiveCompletion
<1>3. CASE ListGroupRules(w)
  <2>1. HasJob
    BY <1>1, <1>3 DEF ListGroupRules, Job, Local, PC, EventPC, RulePC, ByRef,
       TypeOK
  <2>2. QED
    BY <1>1, <1>3, <2>1, TypeBecomes DEF ListGroupRules
<1>4. ASSUME NEW r \in job[w].todo, SkipRule(w, r) \/ PickRule(w, r)
      PROVE  TypeOK'
  <2>1. HasJob
    BY <1>1, <1>4 DEF SkipRule, PickRule, Job, Local, PC, EventPC, RulePC
  <2>2. QED
    BY <1>1, <1>4, <2>1, TypeBecomes DEF SkipRule, PickRule
<1>5. CASE LookupLedger(w) \/ Reread(w)
  <2>1. job[w].pc \in RulePC /\ job[w].pc \in EventPC
    BY <1>5 DEF LookupLedger, Reread, RulePC, EventPC
  <2>2. ASSUME NEW l \in Found(w), ExistingLedger(w, l)
        PROVE  HasJob
    <3>1. l \in Nat
      BY <1>1 DEF Found
    <3>2. /\ [job[w] EXCEPT !.pc = "next"] \in Job
          /\ [job[w] EXCEPT !.pc = "call", !.led = l] \in Job
      BY <1>1, <2>1, <3>1, JobEdits DEF LedgerStatus
    <3>3. QED
      BY <2>2, <3>2 DEF ExistingLedger
  <2>3. [job[w] EXCEPT !.pc = "insert"] \in Job
    BY <1>1, <2>1, JobEdits DEF LedgerStatus
  <2>4. HasJob
    BY <1>1, <1>5, <2>2, <2>3 DEF LookupLedger, Reread
  <2>5. QED
    BY <1>1, <1>5, <2>4, TypeBecomes DEF LookupLedger, Reread
<1>6. CASE InsertLedger(w) \/ InsertFails(w)
  <2>1. job[w].pc \in RulePC /\ job[w].pc \in EventPC
    BY <1>6 DEF InsertLedger, InsertFails, RulePC, EventPC
  <2>2. ledgers' \in Seq(LedgerRow)
    BY <1>1, <1>6, <2>1, HandlerTyped DEF InsertLedger, InsertFails
  <2>3. Len(ledgers) + 1 \in Nat
    BY <1>1
  <2>4. /\ [job[w] EXCEPT !.pc = "reread"] \in Job
        /\ [job[w] EXCEPT !.pc = "call", !.led = Len(ledgers) + 1] \in Job
    BY <1>1, <2>1, <2>3, JobEdits DEF LedgerStatus
  <2>5. HasJob
    BY <1>6, <2>4 DEF InsertLedger, InsertFails
  <2>6. QED
    BY <1>1, <1>6, <2>2, <2>5, TypeBecomes DEF InsertLedger, InsertFails
<1>7. CASE Distribute(w) \/ DistributeAgain(w) \/ DistributeRejected(w)
  <2>1. job[w].pc \in RulePC /\ job[w].pc \in EventPC
    BY <1>7 DEF Distribute, DistributeAgain, DistributeRejected, RulePC, EventPC
  <2>2. calls' \in Seq(CallType)
    BY <1>1, <1>7, <2>1, HandlerTyped
    DEF Distribute, DistributeAgain, DistributeRejected
  <2>3. ASSUME NEW v \in Nat, Answered(w, v) \/ CallFailed(w)
        PROVE  HasJob
    BY <1>1, <2>1, <2>3, JobEdits
    DEF Answered, CallFailed, LedgerStatus, NoVoucher
  <2>4. Len(calls) + 1 \in Nat /\ NoVoucher \in Nat
          /\ \A l : CallsFor(l) \subseteq Nat
    BY <1>1 DEF CallsFor, NoVoucher
  <2>5. HasJob
    BY <1>7, <2>3, <2>4 DEF Distribute, DistributeAgain, DistributeRejected
  <2>6. QED
    BY <1>1, <1>7, <2>2, <2>5, TypeBecomes
    DEF Distribute, DistributeAgain, DistributeRejected
<1>8. CASE Settle(w)
  <2>1. job[w].pc \in EventPC
    BY <1>8 DEF Settle, EventPC
  <2>2. HasJob
    BY <1>1, <1>8, <2>1, JobEdits DEF Settle, NoVoucher, LedgerStatus
  <2>3. ledgers' \in Seq(LedgerRow)
    BY <1>1, <1>8, UpdateTyped DEF Settle, Job, Local
  <2>4. QED
    BY <1>1, <1>8, <2>2, <2>3, TypeBecomes DEF Settle
<1>9. CASE Finish(w)
  BY <1>1, <1>9, TypeBecomes DEF Finish
<1>10. QED
  BY <1>2, <1>3, <1>4, <1>5, <1>6, <1>7, <1>8, <1>9 DEF HandleTaskCompleted

LEMMA TypeHandleRewardResult ==
  ASSUME TypeOK, NEW w \in Workers, HandleRewardResult(w) \/ Abort(w)
  PROVE  TypeOK'
<1>1. /\ job[w] \in Job /\ Idle \in Job
      /\ ledgers \in Seq(LedgerRow) /\ calls \in Seq(CallType)
  BY JobTyped, IdleTyped DEF TypeOK
<1>2. ASSUME NEW m \in results, ReceiveResult(w, m)
      PROVE  TypeOK'
  <2>1. m \in ResultType /\ ledgers[m.ref] \in LedgerRow
    BY <1>1, <1>2 DEF TypeOK, ReceiveResult
  <2>2. m.ref \in Nat /\ StatusOf(m) \in LedgerStatus /\ VoucherOf(m) \in Nat
    BY <2>1 DEF ResultType, LedgerRow, StatusOf, VoucherOf, LedgerStatus
  <2>3. \E j \in Job : Becomes(w, j)
    BY <1>1, <1>2, <2>2 DEF ReceiveResult, Job, Local, PC, EventPC, RulePC
  <2>4. QED
    BY <1>1, <1>2, <2>3, TypeBecomes DEF ReceiveResult
<1>3. CASE RecordResult(w)
  <2>1. ledgers' \in Seq(LedgerRow)
    BY <1>1, <1>3, UpdateTyped DEF RecordResult, Job, Local
  <2>2. QED
    BY <1>1, <1>3, <2>1, TypeBecomes DEF RecordResult
<1>4. CASE Abort(w)
  BY <1>1, <1>4, TypeBecomes DEF Abort
<1>5. QED
  BY <1>2, <1>3, <1>4 DEF HandleRewardResult

LEMMA TypeNext == TypeOK /\ [Next]_vars => TypeOK'
<1> SUFFICES ASSUME TypeOK, [Next]_vars
             PROVE  TypeOK'
  OBVIOUS
<1>1. CASE Next
  BY <1>1, TypeEnvironment, TypeHandleTaskCompleted, TypeHandleRewardResult
  DEF Next
<1>2. CASE UNCHANGED vars
  BY <1>2 DEF vars, TypeOK
<1>3. QED
  BY <1>1, <1>2

(* Every variable keeps its type, whatever fails and however handlers      *)
(* interleave.                                                             *)
THEOREM TypeCorrect == Spec => []TypeOK
BY TypeInit, TypeNext, PTL DEF Spec

-----------------------------------------------------------------------------
(* What every step leaves in place: history, topics, accepted requests and *)
(* the identity of each ledger row only grow.                              *)

RowKept(l) ==
  /\ l \in DOMAIN ledgers'
  /\ ledgers'[l].user = ledgers[l].user
  /\ ledgers'[l].campaign = ledgers[l].campaign
  /\ ledgers'[l].rule = ledgers[l].rule
  /\ ledgers[l].voucher # NoVoucher => ledgers'[l].voucher # NoVoucher

Grows ==
  /\ issued \subseteq issued'
  /\ participants \subseteq participants'
  /\ completions \subseteq completions'
  /\ results \subseteq results'
  /\ \A k \in DOMAIN calls : k \in DOMAIN calls' /\ calls'[k] = calls[k]
  /\ \A l \in DOMAIN ledgers : RowKept(l)

LEMMA UpdateKeepsRows ==
  ASSUME TypeOK, NEW i \in Nat, NEW s \in LedgerStatus, NEW v \in Nat,
         UpdateStatusAndVoucher(i, s, v)
  PROVE  \A l \in DOMAIN ledgers : RowKept(l)
<1> SUFFICES ASSUME NEW l \in DOMAIN ledgers
             PROVE  RowKept(l)
  OBVIOUS
<1>1. DOMAIN ledgers' = DOMAIN ledgers
  BY UpdateTyped
<1>2. ledgers[l] \in LedgerRow
  BY DEF TypeOK
<1>3. ledgers'[l] = IF l = i THEN Updated(ledgers[l], s, v) ELSE ledgers[l]
  BY DEF UpdateStatusAndVoucher, TypeOK
<1>4. QED
  BY <1>1, <1>2, <1>3 DEF RowKept, Updated, LedgerRow

LEMMA AppendKeeps ==
  ASSUME NEW S, NEW s \in Seq(S), NEW x \in S
  PROVE  \A i \in DOMAIN s : /\ i \in DOMAIN Append(s, x)
                            /\ Append(s, x)[i] = s[i]
<1>1. DOMAIN s = 1 .. Len(s) /\ DOMAIN Append(s, x) = 1 .. Len(s) + 1
  BY AppendProperties
<1>2. QED
  BY <1>1, AppendProperties

LEMMA RowsUnchanged ==
  ASSUME UNCHANGED ledgers
  PROVE  \A l \in DOMAIN ledgers : RowKept(l)
BY DEF RowKept

LEMMA StepGrows ==
  ASSUME TypeOK, [Next]_vars
  PROVE  Grows
<1> USE DEF TableVars, TopicVars
<1>1. CASE Environment
  BY <1>1, RowsUnchanged DEF Environment, ReplaceRules, Join, SendCompletion,
     SendResult, Grows
<1>2. ASSUME NEW w \in Workers, InsertLedger(w) \/ InsertFails(w)
      PROVE  Grows
  <2>1. job[w].pc \in RulePC
    BY <1>2 DEF InsertLedger, InsertFails, RulePC
  <2>2. ledgers \in Seq(LedgerRow) /\ NewLedger(w) \in LedgerRow
    BY <2>1, HandlerTyped DEF TypeOK
  <2>3. ledgers' = ledgers \/ ledgers' = Append(ledgers, NewLedger(w))
    BY <1>2 DEF InsertLedger, InsertFails
  <2>4. \A l \in DOMAIN ledgers : RowKept(l)
    BY <2>2, <2>3, AppendKeeps, RowsUnchanged DEF RowKept
  <2>5. QED
    BY <1>2, <2>4 DEF InsertLedger, InsertFails, Grows
<1>3. ASSUME NEW w \in Workers,
             Distribute(w) \/ DistributeAgain(w) \/ DistributeRejected(w)
      PROVE  Grows
  <2>1. job[w].pc \in RulePC
    BY <1>3 DEF Distribute, DistributeAgain, DistributeRejected, RulePC
  <2>2. calls \in Seq(CallType) /\ NewCall(w) \in CallType
    BY <2>1, HandlerTyped DEF TypeOK
  <2>3. calls' = calls \/ calls' = Append(calls, NewCall(w))
    BY <1>3 DEF Distribute, DistributeAgain, DistributeRejected
  <2>4. \A k \in DOMAIN calls : k \in DOMAIN calls' /\ calls'[k] = calls[k]
    BY <2>2, <2>3, AppendKeeps
  <2>5. QED
    BY <1>3, <2>4, RowsUnchanged
    DEF Distribute, DistributeAgain, DistributeRejected, Grows
<1>4. ASSUME NEW w \in Workers, Settle(w) \/ RecordResult(w)
      PROVE  Grows
  <2>1. job[w] \in Local
    BY JobTyped DEF Job
  <2>2. \A l \in DOMAIN ledgers : RowKept(l)
    BY <1>4, <2>1, UpdateKeepsRows DEF Settle, RecordResult, Local
  <2>3. QED
    BY <1>4, <2>2 DEF Settle, RecordResult, Grows
<1>5. ASSUME NEW w \in Workers,
             \/ \E e \in completions : ReceiveCompletion(w, e)
             \/ ListGroupRules(w)
             \/ \E r \in job[w].todo : SkipRule(w, r) \/ PickRule(w, r)
             \/ LookupLedger(w) \/ Reread(w) \/ Finish(w)
             \/ \E m \in results : ReceiveResult(w, m)
             \/ Abort(w)
      PROVE  Grows
  BY <1>5, RowsUnchanged DEF ReceiveCompletion, ListGroupRules, SkipRule,
     PickRule, LookupLedger, Reread, Finish, ReceiveResult, Abort, Grows
<1>6. CASE UNCHANGED vars
  BY <1>6, RowsUnchanged DEF vars, Grows
<1>7. QED
  BY <1>1, <1>2, <1>3, <1>4, <1>5, <1>6
  DEF Next, HandleTaskCompleted, HandleRewardResult

(* A recorded voucher is never blanked.                                    *)
THEOREM VouchersKept == Spec => VoucherNeverErased
<1>1. TypeOK /\ [Next]_vars =>
        [\A l \in DOMAIN ledgers :
           ledgers[l].voucher # NoVoucher =>
             ledgers'[l].voucher # NoVoucher]_vars
  BY StepGrows DEF Grows, RowKept
<1>2. QED
  BY <1>1, TypeCorrect, PTL DEF Spec, VoucherNeverErased

(* A step moves at most one worker.                                        *)
LEMMA OneMoves ==
  ASSUME TypeOK, [Next]_vars, NEW v \in Workers
  PROVE  \/ UNCHANGED job[v]
         \/ HandleTaskCompleted(v) \/ HandleRewardResult(v) \/ Abort(v)
<1>1. CASE Environment \/ UNCHANGED vars
  BY <1>1 DEF Environment, ReplaceRules, Join, SendCompletion, SendResult, vars
<1>2. ASSUME NEW w \in Workers, w # v,
             HandleTaskCompleted(w) \/ HandleRewardResult(w) \/ Abort(w)
      PROVE  UNCHANGED job[v]
  <2>1. job \in [Workers -> Job]
    BY DEF TypeOK
  <2>2. \E j : Becomes(w, j)
    BY <1>2 DEF HandleTaskCompleted, HandleRewardResult, Abort,
       ReceiveCompletion, ListGroupRules, SkipRule, PickRule, LookupLedger,
       Reread, ExistingLedger, InsertLedger, InsertFails, Distribute,
       DistributeAgain, DistributeRejected, Answered, CallFailed, Settle,
       Finish, ReceiveResult, RecordResult
  <2>3. QED
    BY <1>2, <2>1, <2>2 DEF Becomes
<1>3. QED
  BY <1>1, <1>2 DEF Next

-----------------------------------------------------------------------------
(* Every request is justified.  CallsJustified is not inductive: that a    *)
(* call is justified is established over several steps of its worker, so   *)
(* the invariant also says what each worker has established so far.        *)

EventKnown(w) ==
  job[w].pc \in EventPC =>
    /\ job[w].event \in completions
    /\ job[w].event.status = "completed"
    /\ \A r \in job[w].todo : r \in issued /\ Earns(job[w].event, r)

RuleEarned(w) ==
  job[w].pc \in RulePC =>
    /\ job[w].rule \in issued
    /\ job[w].rule.template > 0
    /\ <<job[w].rule.campaign, job[w].event.user>> \in participants
    /\ Earns(job[w].event, job[w].rule)

LedgerChosen(w) ==
  job[w].pc = "call" =>
    /\ job[w].led \in DOMAIN ledgers
    /\ ledgers[job[w].led].user = job[w].event.user
    /\ ledgers[job[w].led].campaign = job[w].rule.campaign
    /\ ledgers[job[w].led].rule = job[w].rule.id

WorkerInv(w) == EventKnown(w) /\ RuleEarned(w) /\ LedgerChosen(w)

JustifiedInv ==
  /\ TypeOK
  /\ \A w \in Workers : WorkerInv(w)
  /\ CallsJustified

LEMMA JustifiedInit == Init => JustifiedInv
<1> SUFFICES ASSUME Init PROVE JustifiedInv
  OBVIOUS
<1>1. \A w \in Workers : job[w].pc = "idle"
  BY DEF Init, Idle
<1>2. DOMAIN calls = {}
  BY DEF Init
<1>3. QED
  BY <1>1, <1>2, TypeInit DEF JustifiedInv, WorkerInv, EventKnown, RuleEarned,
     LedgerChosen, CallsJustified, EventPC, RulePC

(* What a worker has established stays true while it does not move.        *)
LEMMA WorkerInvStable ==
  ASSUME Grows, NEW w \in Workers, WorkerInv(w), UNCHANGED job[w]
  PROVE  WorkerInv(w)'
<1>1. EventKnown(w)'
  BY DEF WorkerInv, EventKnown, Grows, Earns
<1>2. RuleEarned(w)'
  BY DEF WorkerInv, RuleEarned, Grows, Earns
<1>3. LedgerChosen(w)'
  BY DEF WorkerInv, LedgerChosen, Grows, RowKept
<1>4. QED
  BY <1>1, <1>2, <1>3 DEF WorkerInv

LEMMA JustifiedStable ==
  ASSUME Grows, NEW k \in DOMAIN calls, Justified(k)
  PROVE  Justified(k)'
BY DEF Justified, Grows, RowKept, RuleOf, Earns

(* A worker's own step keeps its part of the invariant.                    *)
LEMMA WorkerInvStep ==
  ASSUME JustifiedInv, Grows, NEW w \in Workers,
         HandleTaskCompleted(w) \/ HandleRewardResult(w) \/ Abort(w)
  PROVE  WorkerInv(w)'
<1> USE DEF Becomes, TableVars, TopicVars
<1>1. TypeOK /\ WorkerInv(w) /\ job \in [Workers -> Job]
        /\ job[w] \in Local /\ rules \subseteq issued
  BY JobTyped DEF JustifiedInv, TypeOK, Job
<1>2. ASSUME job'[w].pc \in {"idle", "record"}
      PROVE  WorkerInv(w)'
  BY <1>2 DEF WorkerInv, EventKnown, RuleEarned, LedgerChosen, EventPC, RulePC
<1>3. ASSUME NEW e \in completions, ReceiveCompletion(w, e)
      PROVE  WorkerInv(w)'
  <2>1. /\ job'[w].pc = "group_rules" /\ job'[w].event = e
        /\ job'[w].todo = IF e.task > 0 THEN ByRef("task", e.task) ELSE {}
    BY <1>1, <1>3 DEF ReceiveCompletion, Idle
  <2>2. \A r \in job'[w].todo : r \in issued /\ Earns(e, r)
    BY <1>1, <1>3, <2>1 DEF ByRef, Earns, ReceiveCompletion
  <2>3. QED
    BY <1>3, <2>1, <2>2 DEF WorkerInv, EventKnown, RuleEarned, LedgerChosen,
       RulePC, ReceiveCompletion, Earns
<1>4. CASE ListGroupRules(w)
  <2> DEFINE e == job[w].event
  <2>1. /\ job'[w].pc = "next" /\ job'[w].event = e
        /\ job'[w].todo = job[w].todo \cup
             IF GroupDone(e) THEN ByRef("task_group", e.group) ELSE {}
    BY <1>1, <1>4 DEF ListGroupRules, Local
  <2>2. e \in completions /\ e.status = "completed"
          /\ \A r \in job[w].todo : r \in issued /\ Earns(e, r)
    BY <1>1, <1>4 DEF ListGroupRules, WorkerInv, EventKnown, EventPC
  <2>3. \A r \in job'[w].todo : r \in issued /\ Earns(e, r)
    BY <1>1, <2>1, <2>2 DEF ByRef, Earns, GroupDone
  <2>4. QED
    BY <1>4, <2>1, <2>2, <2>3 DEF WorkerInv, EventKnown, RuleEarned,
       LedgerChosen, RulePC, ListGroupRules, Earns
<1>5. ASSUME NEW r \in job[w].todo, SkipRule(w, r)
      PROVE  WorkerInv(w)'
  <2>1. /\ job'[w].pc = "next" /\ job'[w].event = job[w].event
        /\ job'[w].todo \subseteq job[w].todo
    BY <1>1, <1>5 DEF SkipRule, Local
  <2>2. QED
    BY <1>1, <1>5, <2>1 DEF WorkerInv, EventKnown, RuleEarned, LedgerChosen,
       RulePC, EventPC, SkipRule, Earns
<1>6. ASSUME NEW r \in job[w].todo, PickRule(w, r)
      PROVE  WorkerInv(w)'
  <2>1. /\ job'[w].pc = "ledger" /\ job'[w].event = job[w].event
        /\ job'[w].rule = r /\ job'[w].todo \subseteq job[w].todo
    BY <1>1, <1>6 DEF PickRule, Local
  <2>2. QED
    BY <1>1, <1>6, <2>1 DEF WorkerInv, EventKnown, RuleEarned, LedgerChosen,
       RulePC, EventPC, PickRule, Earns, Pays
<1>7. ASSUME job[w].pc \in RulePC, UNCHANGED <<completions, issued, participants>>,
             job'[w].event = job[w].event, job'[w].todo = job[w].todo,
             \/ job'[w].pc \in {"next", "settle"}
             \/ /\ job'[w].pc \in {"insert", "reread", "call"}
                /\ job'[w].rule = job[w].rule
                /\ LedgerChosen(w)'
      PROVE  WorkerInv(w)'
  BY <1>1, <1>7 DEF WorkerInv, EventKnown, RuleEarned, LedgerChosen,
     RulePC, EventPC, Earns
<1>8. CASE LookupLedger(w) \/ Reread(w)
  <2>1. job[w].pc \in RulePC
    BY <1>8 DEF LookupLedger, Reread, RulePC
  <2>2. ASSUME NEW l \in Found(w), ExistingLedger(w, l)
        PROVE  WorkerInv(w)'
    <3>1. CASE job' = [job EXCEPT ![w] = [job[w] EXCEPT !.pc = "next"]]
      BY <1>1, <1>7, <1>8, <2>1, <3>1 DEF LookupLedger, Reread, Local
    <3>2. CASE job' = [job EXCEPT ![w] =
                         [job[w] EXCEPT !.pc = "call", !.led = l]]
      <4>1. /\ job'[w].pc = "call" /\ job'[w].led = l
            /\ job'[w].event = job[w].event /\ job'[w].todo = job[w].todo
            /\ job'[w].rule = job[w].rule
        BY <1>1, <3>2 DEF Local
      <4>2. LedgerChosen(w)'
        BY <1>8, <2>2, <4>1 DEF LedgerChosen, Found, LookupLedger, Reread
      <4>3. QED
        BY <1>7, <1>8, <2>1, <4>1, <4>2 DEF LookupLedger, Reread
    <3>3. QED
      BY <2>2, <3>1, <3>2 DEF ExistingLedger
  <2>3. CASE Becomes(w, [job[w] EXCEPT !.pc = "insert"])
    <3>1. /\ job'[w].pc = "insert" /\ job'[w].rule = job[w].rule
          /\ job'[w].event = job[w].event /\ job'[w].todo = job[w].todo
      BY <1>1, <2>3 DEF Local
    <3>2. QED
      BY <1>7, <1>8, <2>1, <3>1 DEF LookupLedger, Reread, LedgerChosen
  <2>4. CASE Becomes(w, Idle)
    BY <1>1, <1>2, <2>4 DEF Idle
  <2>5. QED
    BY <1>8, <2>2, <2>3, <2>4 DEF LookupLedger, Reread
<1>9. CASE InsertLedger(w)
  <2>1. job[w].pc \in RulePC
    BY <1>9 DEF InsertLedger, RulePC
  <2>2. /\ job'[w].pc = "call" /\ job'[w].led = Len(ledgers) + 1
        /\ job'[w].event = job[w].event /\ job'[w].todo = job[w].todo
        /\ job'[w].rule = job[w].rule
    BY <1>1, <1>9 DEF InsertLedger, Local
  <2>3. ledgers \in Seq(LedgerRow) /\ NewLedger(w) \in LedgerRow
    BY <1>1, <2>1, HandlerTyped DEF TypeOK
  <2>4. /\ Len(ledgers) + 1 \in DOMAIN ledgers'
        /\ ledgers'[Len(ledgers) + 1] = NewLedger(w)
    BY <1>9, <2>3, AppendProperties DEF InsertLedger
  <2>5. LedgerChosen(w)'
    BY <2>2, <2>4 DEF LedgerChosen, NewLedger
  <2>6. QED
    BY <1>7, <1>9, <2>1, <2>2, <2>5 DEF InsertLedger
<1>10. CASE InsertFails(w)
  <2>1. job[w].pc \in RulePC
    BY <1>10 DEF InsertFails, RulePC
  <2>2. /\ job'[w].pc = "reread" /\ job'[w].rule = job[w].rule
        /\ job'[w].event = job[w].event /\ job'[w].todo = job[w].todo
    BY <1>1, <1>10 DEF InsertFails, Local
  <2>3. QED
    BY <1>7, <1>10, <2>1, <2>2 DEF InsertFails, LedgerChosen
<1>11. CASE Distribute(w) \/ DistributeAgain(w) \/ DistributeRejected(w)
  <2>1. job[w].pc \in RulePC
    BY <1>11 DEF Distribute, DistributeAgain, DistributeRejected, RulePC
  <2>2. /\ job'[w].pc = "settle"
        /\ job'[w].event = job[w].event /\ job'[w].todo = job[w].todo
    <3>1. CallFailed(w) \/ \E v : Answered(w, v)
      BY <1>11 DEF Distribute, DistributeAgain, DistributeRejected
    <3>2. QED
      BY <1>1, <3>1 DEF Answered, CallFailed, Local
  <2>3. QED
    BY <1>7, <1>11, <2>1, <2>2
    DEF Distribute, DistributeAgain, DistributeRejected
<1>12. CASE Settle(w)
  <2>1. CASE job'[w] = Idle
    BY <1>2, <2>1 DEF Idle
  <2>2. CASE job'[w] = [job[w] EXCEPT !.pc = "next"]
    BY <1>1, <1>12, <2>2 DEF Settle, Local, WorkerInv, EventKnown, RuleEarned,
       LedgerChosen, RulePC, EventPC, Earns
  <2>3. QED
    BY <1>1, <1>12, <2>1, <2>2 DEF Settle
<1>13. CASE Finish(w) \/ RecordResult(w) \/ Abort(w)
  BY <1>1, <1>2, <1>13 DEF Finish, RecordResult, Abort, Idle
<1>14. ASSUME NEW m \in results, ReceiveResult(w, m)
       PROVE  WorkerInv(w)'
  BY <1>1, <1>2, <1>14 DEF ReceiveResult, Idle
<1>15. QED
  BY <1>3, <1>4, <1>5, <1>6, <1>8, <1>9, <1>10, <1>11, <1>12, <1>13, <1>14
  DEF HandleTaskCompleted, HandleRewardResult

LEMMA JustifiedStep ==
  ASSUME JustifiedInv, [Next]_vars
  PROVE  JustifiedInv'
<1>1. TypeOK /\ Grows /\ TypeOK'
  BY StepGrows, TypeNext DEF JustifiedInv
<1>2. \A v \in Workers : WorkerInv(v)'
  <2> SUFFICES ASSUME NEW v \in Workers PROVE WorkerInv(v)'
    OBVIOUS
  <2>1. CASE UNCHANGED job[v]
    BY <1>1, <2>1, WorkerInvStable DEF JustifiedInv
  <2>2. CASE HandleTaskCompleted(v) \/ HandleRewardResult(v) \/ Abort(v)
    BY <1>1, <2>2, WorkerInvStep
  <2>3. QED
    BY <1>1, <2>1, <2>2, OneMoves
<1>3. CallsJustified'
  <2> SUFFICES ASSUME NEW k \in DOMAIN calls' PROVE Justified(k)'
    BY DEF CallsJustified
  <2>1. CASE k \in DOMAIN calls
    BY <1>1, <2>1, JustifiedStable DEF JustifiedInv, CallsJustified
  <2>2. ASSUME k \notin DOMAIN calls
        PROVE  Justified(k)'
    <3>1. PICK w \in Workers : Distribute(w)
      BY <2>2 DEF Next, vars, Environment, ReplaceRules, Join, SendCompletion,
         SendResult, HandleTaskCompleted, HandleRewardResult, Abort,
         ReceiveCompletion, ListGroupRules, SkipRule, PickRule, LookupLedger,
         Reread, InsertLedger, InsertFails, DistributeAgain,
         DistributeRejected, Settle, Finish, ReceiveResult, RecordResult
    <3>2. WorkerInv(w) /\ job[w].pc = "call"
      BY <3>1 DEF JustifiedInv, Distribute
    <3>3. /\ job[w].event \in completions /\ job[w].rule \in issued
          /\ job[w].rule.template > 0
          /\ <<job[w].rule.campaign, job[w].event.user>> \in participants
          /\ Earns(job[w].event, job[w].rule)
          /\ LedgerChosen(w)
      BY <3>2 DEF WorkerInv, EventKnown, RuleEarned, EventPC, RulePC
    <3>4. calls \in Seq(CallType) /\ NewCall(w) \in CallType
      BY <1>1, <3>2, HandlerTyped DEF TypeOK, RulePC
    <3>5. k = Len(calls) + 1 /\ calls'[k] = NewCall(w)
      BY <2>2, <3>1, <3>4, AppendProperties DEF Distribute
    <3>6. UNCHANGED <<ledgers, issued, completions, participants>>
      BY <3>1 DEF Distribute, TableVars, TopicVars
    <3>7. QED
      BY <3>2, <3>3, <3>5, <3>6
      DEF Justified, NewCall, ClientRef, LedgerChosen, RuleOf, Earns
  <2>3. QED
    BY <2>1, <2>2
<1>4. QED
  BY <1>1, <1>2, <1>3 DEF JustifiedInv

(* Whatever fails and however handlers interleave: no request reaches the  *)
(* reward service without a joined user who completed what the rule asks.  *)
THEOREM EveryCallJustified == Spec => []CallsJustified
<1>1. JustifiedInv /\ [Next]_vars => JustifiedInv'
  BY JustifiedStep
<1>2. JustifiedInv => CallsJustified
  BY DEF JustifiedInv
<1>3. QED
  BY JustifiedInit, <1>1, <1>2, PTL DEF Spec

-----------------------------------------------------------------------------
(* The ledger table.                                                       *)

(* How a step may change the table: not at all, a row whose key is new, or *)
(* columns of existing rows other than the key.                            *)
LEMMA LedgerStep ==
  ASSUME TypeOK, [Next]_vars
  PROVE  \/ \E w \in Workers :
              /\ job[w].pc \in RulePC /\ Found(w) = {}
              /\ ledgers' = Append(ledgers, NewLedger(w))
         \/ DOMAIN ledgers' = DOMAIN ledgers
<1>1. ASSUME NEW w \in Workers, Settle(w) \/ RecordResult(w)
      PROVE  DOMAIN ledgers' = DOMAIN ledgers
  <2>1. job[w] \in Local
    BY JobTyped DEF Job
  <2>2. QED
    BY <1>1, <2>1, UpdateTyped DEF Settle, RecordResult, Local
<1>2. QED
  BY <1>1 DEF Next, vars, Environment, ReplaceRules, Join, SendCompletion,
     SendResult, HandleTaskCompleted, HandleRewardResult, Abort,
     ReceiveCompletion, ListGroupRules, SkipRule, PickRule, LookupLedger,
     Reread, InsertLedger, InsertFails, CanInsert, Distribute, DistributeAgain,
     DistributeRejected, Finish, ReceiveResult, RulePC, TableVars, TopicVars

(* However many handlers race to insert, a user has one row per rule.      *)
THEOREM KeysUnique == Spec => []OneLedgerPerKey
<1>1. Init => OneLedgerPerKey
  BY DEF Init, OneLedgerPerKey
<1>2. TypeOK /\ OneLedgerPerKey /\ [Next]_vars => OneLedgerPerKey'
  <2> SUFFICES ASSUME TypeOK, OneLedgerPerKey, [Next]_vars
               PROVE  OneLedgerPerKey'
    OBVIOUS
  <2>1. \A l \in DOMAIN ledgers : RowKept(l)
    BY StepGrows DEF Grows
  <2>2. CASE DOMAIN ledgers' = DOMAIN ledgers
    BY <2>1, <2>2 DEF OneLedgerPerKey, RowKept
  <2>3. ASSUME NEW w \in Workers, job[w].pc \in RulePC, Found(w) = {},
               ledgers' = Append(ledgers, NewLedger(w))
        PROVE  OneLedgerPerKey'
    <3>1. ledgers \in Seq(LedgerRow) /\ NewLedger(w) \in LedgerRow
      BY <2>3, HandlerTyped DEF TypeOK
    <3>2. /\ DOMAIN ledgers' = DOMAIN ledgers \cup {Len(ledgers) + 1}
          /\ ledgers'[Len(ledgers) + 1] = NewLedger(w)
      BY <2>3, <3>1, AppendProperties
    <3>3. \A l \in DOMAIN ledgers :
            ~ /\ ledgers[l].user = NewLedger(w).user
              /\ ledgers[l].campaign = NewLedger(w).campaign
              /\ ledgers[l].rule = NewLedger(w).rule
      BY <2>3 DEF Found, NewLedger
    <3>4. QED
      BY <2>1, <3>2, <3>3 DEF OneLedgerPerKey, RowKept
  <2>4. QED
    BY <2>2, <2>3, LedgerStep
<1>3. QED
  BY <1>1, <1>2, TypeCorrect, PTL DEF Spec

(* A worker comes to call the service only for a row it has just inserted  *)
(* or just read without a voucher.                                         *)
LEMMA CallsStartOpen ==
  ASSUME TypeOK, [Next]_vars, NEW w \in Workers, job'[w].pc = "call",
         NEW l \in DOMAIN ledgers, job'[w].led = l
  PROVE  \/ job[w].pc = "call" /\ job[w].led = l
         \/ ledgers[l].voucher = NoVoucher
<1>1. job \in [Workers -> Job] /\ job[w] \in Local /\ Idle.pc = "idle"
        /\ ledgers \in Seq(LedgerRow)
  BY JobTyped DEF TypeOK, Job, Idle
<1>a. ASSUME NEW j, Becomes(w, j)
      PROVE  job'[w] = j
  BY <1>1, <1>a DEF Becomes
<1>b. ~Becomes(w, Idle)
  BY <1>1, <1>a
<1>c. ASSUME NEW pc, Becomes(w, [job[w] EXCEPT !.pc = pc])
      PROVE  pc = "call"
  BY <1>1, <1>a, <1>c DEF Local
<1>2. CASE UNCHANGED job[w]
  BY <1>2
<1>3. CASE HandleTaskCompleted(w)
  <2>1. CASE LookupLedger(w) \/ Reread(w)
    <3>1. PICK k \in Found(w) : ExistingLedger(w, k)
      BY <1>b, <1>c, <2>1 DEF LookupLedger, Reread
    <3>2. /\ ledgers[k].voucher = NoVoucher
          /\ Becomes(w, [job[w] EXCEPT !.pc = "call", !.led = k])
      BY <1>c, <3>1 DEF ExistingLedger
    <3>3. QED
      BY <1>1, <1>a, <3>2 DEF Local
  <2>2. CASE InsertLedger(w)
    BY <1>1, <2>2 DEF InsertLedger, Becomes, Local
  <2>3. CASE Distribute(w) \/ DistributeAgain(w) \/ DistributeRejected(w)
    <3>1. CallFailed(w) \/ \E v : Answered(w, v)
      BY <2>3 DEF Distribute, DistributeAgain, DistributeRejected
    <3>2. QED
      BY <1>1, <3>1 DEF Answered, CallFailed, Becomes, Local
  <2>4. ~InsertFails(w) /\ ~Settle(w) /\ ~Finish(w)
    BY <1>b, <1>c DEF InsertFails, Settle, Finish
  <2>5. ~ListGroupRules(w)
    BY <1>1, <1>a DEF ListGroupRules, Local
  <2>6. ~ \E e \in completions : ReceiveCompletion(w, e)
    BY <1>a DEF ReceiveCompletion, Idle
  <2>7. ASSUME NEW r \in job[w].todo, SkipRule(w, r) \/ PickRule(w, r)
        PROVE  FALSE
    BY <1>1, <2>7 DEF SkipRule, PickRule, Becomes, Local
  <2>8. QED
    BY <1>3, <2>1, <2>2, <2>3, <2>4, <2>5, <2>6, <2>7 DEF HandleTaskCompleted
<1>4. CASE HandleRewardResult(w) \/ Abort(w)
  <2>1. ~ \E m \in results : ReceiveResult(w, m)
    BY <1>a DEF ReceiveResult, Idle
  <2>2. QED
    BY <1>b, <1>4, <2>1 DEF HandleRewardResult, Abort, RecordResult
<1>5. QED
  BY <1>1, <1>2, <1>3, <1>4, OneMoves

(* Once a row has its voucher and no call for it is pending, none follows. *)
THEOREM ClosedRowsStayClosed == Spec => ClosedForever
<1>1. TypeOK /\ [Next]_vars =>
        [\A l \in DOMAIN ledgers : Closed(l) => Closed(l)']_vars
  <2> SUFFICES ASSUME TypeOK, [Next]_vars, NEW l \in DOMAIN ledgers, Closed(l)
               PROVE  Closed(l)'
    OBVIOUS
  <2>1. l \in DOMAIN ledgers' /\ ledgers'[l].voucher # NoVoucher
    BY StepGrows DEF Grows, RowKept, Closed
  <2>2. ASSUME NEW w \in Workers, job'[w].pc = "call", job'[w].led = l
        PROVE  FALSE
    BY <2>2, CallsStartOpen DEF Closed
  <2>3. QED
    BY <2>1, <2>2 DEF Closed
<1>2. QED
  BY <1>1, TypeCorrect, PTL DEF Spec, ClosedForever

-----------------------------------------------------------------------------
(* The table and the reward service, for requests C and results R.         *)

Issued(C, l, v) == v # NoVoucher => v \in DOMAIN C /\ C[v].ledger = l
Delivered(R, l, s) == s = "distribute_success" =>
                        \E m \in R : m.ref = l /\ m.status = "DISTRIBUTED"

(* What a handler is about to write to its row is the service's word.      *)
Reported(w) ==
  job[w].pc \in {"settle", "record"} =>
    /\ Issued(calls, job[w].led, job[w].voucher)
    /\ Delivered(results, job[w].led, job[w].status)

RowsFollow ==
  \A l \in DOMAIN ledgers : /\ Issued(calls, l, ledgers[l].voucher)
                            /\ Delivered(results, l, ledgers[l].status)

FollowInv ==
  /\ TypeOK
  /\ RowsFollow
  /\ \A m \in results : Issued(calls, m.ref, m.voucher)
  /\ \A w \in Workers : Reported(w)

LEMMA FollowInit == Init => FollowInv
BY TypeInit DEF Init, FollowInv, RowsFollow, Reported, Idle

LEMMA ReportsStay ==
  ASSUME Grows
  PROVE  /\ \A l, v : Issued(calls, l, v) => Issued(calls', l, v)
         /\ \A l, s : Delivered(results, l, s) => Delivered(results', l, s)
BY DEF Grows, Issued, Delivered

LEMMA ResultsIssued ==
  ASSUME FollowInv, Grows, [Next]_vars
  PROVE  \A m \in results' : Issued(calls', m.ref, m.voucher)
<1>1. ASSUME NEW k \in DOMAIN calls, NEW s \in ResultStatus, NEW v \in {k, NoVoucher},
             SendResult(k, s, v), NEW m \in results'
      PROVE  Issued(calls', m.ref, m.voucher)
  <2>1. CASE m \in results
    BY <2>1, ReportsStay DEF FollowInv
  <2>2. CASE m = [ref |-> calls[k].ledger, status |-> s, voucher |-> v]
    BY <1>1, <2>2 DEF SendResult, Issued
  <2>3. QED
    BY <1>1, <2>1, <2>2 DEF SendResult
<1>2. CASE UNCHANGED results
  BY <1>2, ReportsStay DEF FollowInv
<1>3. QED
  BY <1>1, <1>2 DEF Next, vars, Environment, ReplaceRules, Join, SendCompletion,
     HandleTaskCompleted, HandleRewardResult, Abort, ReceiveCompletion,
     ListGroupRules, SkipRule, PickRule, LookupLedger, Reread, InsertLedger,
     InsertFails, Distribute, DistributeAgain, DistributeRejected, Settle,
     Finish, ReceiveResult, RecordResult, TopicVars

(* What a handler learns from a call or a result.                          *)
LEMMA WorkerReports ==
  ASSUME FollowInv, Grows, NEW w \in Workers,
         HandleTaskCompleted(w) \/ HandleRewardResult(w) \/ Abort(w)
  PROVE  Reported(w)'
<1>1. /\ job \in [Workers -> Job] /\ job[w] \in Local
      /\ ledgers \in Seq(LedgerRow) /\ calls \in Seq(CallType)
  BY JobTyped DEF FollowInv, TypeOK, Job
<1>2. ASSUME NEW j, Becomes(w, j) PROVE job'[w] = j
  BY <1>1, <1>2 DEF Becomes
<1>3. ASSUME job'[w].pc \notin {"settle", "record"} PROVE Reported(w)'
  BY <1>3 DEF Reported
<1>a. ASSUME Becomes(w, Idle) PROVE Reported(w)'
  BY <1>2, <1>3, <1>a DEF Idle
<1>b. ASSUME NEW pc \in PC \ {"settle", "record"},
             Becomes(w, [job[w] EXCEPT !.pc = pc])
      PROVE  Reported(w)'
  BY <1>1, <1>2, <1>3, <1>b DEF Local
<1>c. ASSUME NEW l, NEW v, NEW s, Issued(calls', l, v), Delivered(results', l, s),
             job'[w].led = l, job'[w].voucher = v, job'[w].status = s
      PROVE  Reported(w)'
  BY <1>c DEF Reported
<1>4. CASE Distribute(w) \/ DistributeAgain(w) \/ DistributeRejected(w)
  <2>1. CASE CallFailed(w)
    <3>1. job'[w].voucher = NoVoucher /\ job'[w].status = "distribute_fail"
      BY <1>1, <1>2, <2>1 DEF CallFailed, Local
    <3>2. QED
      BY <1>c, <3>1 DEF Issued, Delivered
  <2>2. ASSUME NEW v, Answered(w, v), Issued(calls', job[w].led, v)
        PROVE  Reported(w)'
    <3>1. /\ job'[w].voucher = v /\ job'[w].led = job[w].led
          /\ job'[w].status = "distributing"
      BY <1>1, <1>2, <2>2 DEF Answered, Local
    <3>2. QED
      BY <1>c, <2>2, <3>1 DEF Delivered
  <2>3. CASE Distribute(w)
    <3>1. NewCall(w) \in CallType /\ NewCall(w).ledger = job[w].led
      BY <1>1, <2>3, HandlerTyped DEF Distribute, RulePC, FollowInv, NewCall,
         ClientRef
    <3>2. Issued(calls', job[w].led, Len(calls) + 1)
      BY <1>1, <2>3, <3>1, AppendProperties DEF Distribute, Issued
    <3>3. Issued(calls', job[w].led, NoVoucher)
      BY DEF Issued
    <3>4. QED
      BY <2>1, <2>2, <2>3, <3>2, <3>3 DEF Distribute
  <2>4. CASE DistributeAgain(w)
    <3>1. ASSUME NEW k \in CallsFor(ClientRef(w))
          PROVE  Issued(calls', job[w].led, k)
      BY <2>4, <3>1 DEF DistributeAgain, CallsFor, ClientRef, Issued
    <3>2. Issued(calls', job[w].led, NoVoucher)
      BY DEF Issued
    <3>3. QED
      BY <2>1, <2>2, <2>4, <3>1, <3>2 DEF DistributeAgain
  <2>5. QED
    BY <1>4, <2>1, <2>3, <2>4 DEF DistributeRejected
<1>5. ASSUME NEW m \in results, ReceiveResult(w, m) PROVE Reported(w)'
  <2>1. /\ job'[w].led = m.ref /\ job'[w].status = StatusOf(m)
        /\ job'[w].voucher = VoucherOf(m) /\ m.ref \in DOMAIN ledgers
    BY <1>2, <1>5 DEF ReceiveResult, Idle
  <2>2. Issued(calls', m.ref, VoucherOf(m))
    BY <2>1, ReportsStay DEF VoucherOf, FollowInv, RowsFollow
  <2>3. Delivered(results', m.ref, StatusOf(m))
    BY <1>5 DEF StatusOf, Delivered, ReceiveResult, TopicVars
  <2>4. QED
    BY <1>c, <2>1, <2>2, <2>3
<1>6. CASE Abort(w) \/ RecordResult(w) \/ Finish(w)
  BY <1>a, <1>6 DEF Abort, RecordResult, Finish
<1>7. CASE \E e \in completions : ReceiveCompletion(w, e)
  BY <1>2, <1>3, <1>7 DEF ReceiveCompletion, Idle
<1>8. CASE \/ ListGroupRules(w) \/ InsertLedger(w) \/ InsertFails(w)
           \/ \E r \in job[w].todo : SkipRule(w, r) \/ PickRule(w, r)
  BY <1>1, <1>2, <1>3, <1>8
  DEF ListGroupRules, InsertLedger, InsertFails, SkipRule, PickRule, Local
<1>9. CASE LookupLedger(w) \/ Reread(w)
  <2>1. ASSUME NEW l, ExistingLedger(w, l) PROVE Reported(w)'
    BY <1>1, <1>2, <1>3, <2>1 DEF ExistingLedger, Local
  <2>2. ASSUME Becomes(w, [job[w] EXCEPT !.pc = "insert"]) PROVE Reported(w)'
    BY <1>1, <1>2, <1>3, <2>2 DEF Local
  <2>3. QED
    BY <1>9, <1>a, <2>1, <2>2 DEF LookupLedger, Reread
<1>10. CASE Settle(w)
  <2>1. ASSUME Becomes(w, [job[w] EXCEPT !.pc = "next"]) PROVE Reported(w)'
    BY <1>1, <1>2, <1>3, <2>1 DEF Local
  <2>2. QED
    BY <1>10, <1>a, <2>1 DEF Settle
<1>11. QED
  BY <1>4, <1>5, <1>6, <1>7, <1>8, <1>9, <1>10
  DEF HandleTaskCompleted, HandleRewardResult

LEMMA RowsStep ==
  ASSUME FollowInv, Grows, [Next]_vars
  PROVE  RowsFollow'
<1>1. ledgers \in Seq(LedgerRow)
  BY DEF FollowInv, TypeOK
<1>2. ASSUME NEW w \in Workers, Settle(w) \/ RecordResult(w)
      PROVE  RowsFollow'
  <2> DEFINE i == job[w].led
             s == job[w].status
             v == job[w].voucher
  <2>1. /\ job[w] \in Local /\ UpdateStatusAndVoucher(i, s, v)
        /\ Issued(calls, i, v) /\ Delivered(results, i, s)
    BY <1>2, JobTyped DEF FollowInv, Reported, Settle, RecordResult, Job
  <2>2. DOMAIN ledgers' = DOMAIN ledgers
    BY <2>1, UpdateTyped DEF FollowInv, Local
  <2>3. ASSUME NEW l \in DOMAIN ledgers
        PROVE  /\ Issued(calls', l, ledgers'[l].voucher)
               /\ Delivered(results', l, ledgers'[l].status)
    <3>1. ledgers[l] \in LedgerRow
      BY <1>1
    <3>2. ledgers'[l] = IF l = i THEN Updated(ledgers[l], s, v) ELSE ledgers[l]
      BY <1>1, <2>1 DEF UpdateStatusAndVoucher
    <3>3. /\ Issued(calls', l, ledgers[l].voucher)
          /\ Delivered(results', l, ledgers[l].status)
      BY ReportsStay DEF FollowInv, RowsFollow
    <3>4. Issued(calls', i, v) /\ Delivered(results', i, s)
      BY <2>1, ReportsStay
    <3>5. CASE l = i
      <4>1. /\ ledgers'[l].status = s
            /\ ledgers'[l].voucher = v \/ ledgers'[l].voucher = ledgers[l].voucher
        BY <3>1, <3>2, <3>5 DEF Updated, LedgerRow
      <4>2. QED
        BY <3>3, <3>4, <3>5, <4>1
    <3>6. QED
      BY <3>2, <3>3, <3>5
  <2>4. QED
    BY <2>2, <2>3 DEF RowsFollow
<1>3. ASSUME NEW w \in Workers, job[w].pc \in RulePC,
             ledgers' = Append(ledgers, NewLedger(w))
      PROVE  RowsFollow'
  <2>1. NewLedger(w) \in LedgerRow
    BY <1>3, HandlerTyped DEF FollowInv
  <2>2. /\ DOMAIN ledgers' = DOMAIN ledgers \cup {Len(ledgers) + 1}
        /\ ledgers'[Len(ledgers) + 1] = NewLedger(w)
        /\ \A l \in DOMAIN ledgers : ledgers'[l] = ledgers[l]
    BY <1>1, <1>3, <2>1, AppendProperties
  <2>3. ASSUME NEW l \in DOMAIN ledgers
        PROVE  /\ Issued(calls', l, ledgers'[l].voucher)
               /\ Delivered(results', l, ledgers'[l].status)
    BY <2>2, ReportsStay DEF FollowInv, RowsFollow
  <2>4. /\ Issued(calls', Len(ledgers) + 1, NewLedger(w).voucher)
        /\ Delivered(results', Len(ledgers) + 1, NewLedger(w).status)
    BY DEF NewLedger, Issued, Delivered
  <2>5. QED
    BY <2>2, <2>3, <2>4 DEF RowsFollow
<1>4. CASE UNCHANGED ledgers
  <2>1. \A l \in DOMAIN ledgers :
          /\ Issued(calls', l, ledgers[l].voucher)
          /\ Delivered(results', l, ledgers[l].status)
    BY ReportsStay DEF FollowInv, RowsFollow
  <2>2. QED
    BY <1>4, <2>1 DEF RowsFollow
<1>5. QED
  BY <1>2, <1>3, <1>4 DEF Next, vars, Environment, ReplaceRules, Join,
     SendCompletion, SendResult, HandleTaskCompleted, HandleRewardResult, Abort,
     ReceiveCompletion, ListGroupRules, SkipRule, PickRule, LookupLedger, Reread,
     InsertLedger, InsertFails, Distribute, DistributeAgain, DistributeRejected,
     Finish, ReceiveResult, TableVars, RulePC

LEMMA FollowStep == FollowInv /\ [Next]_vars => FollowInv'
<1> SUFFICES ASSUME FollowInv, [Next]_vars
             PROVE  FollowInv'
  OBVIOUS
<1>1. TypeOK' /\ Grows
  BY TypeNext, StepGrows DEF FollowInv
<1>2. RowsFollow' /\ \A m \in results' : Issued(calls', m.ref, m.voucher)
  BY <1>1, RowsStep, ResultsIssued
<1>3. ASSUME NEW w \in Workers PROVE Reported(w)'
  <2>1. CASE HandleTaskCompleted(w) \/ HandleRewardResult(w) \/ Abort(w)
    BY <1>1, <2>1, WorkerReports
  <2>2. CASE UNCHANGED job[w]
    BY <1>1, <2>2, ReportsStay DEF FollowInv, Reported
  <2>3. QED
    BY <2>1, <2>2, OneMoves DEF FollowInv
<1>4. QED
  BY <1>1, <1>2, <1>3 DEF FollowInv

(* Whatever the handlers' interleaving, deaths and late results, a row's   *)
(* voucher was issued for that row, and a row says its reward was          *)
(* delivered only when the reward service said so of that row.             *)
THEOREM LedgersFollowService == Spec => []LedgerFollowsService
<1>1. FollowInv => LedgerFollowsService
  BY DEF FollowInv, RowsFollow, Issued, Delivered, LedgerFollowsService, CallsFor
<1>2. QED
  BY <1>1, FollowInit, FollowStep, PTL DEF Spec

-----------------------------------------------------------------------------
(* A service that accepts a client_ref_id once gives a row one voucher.    *)
RefsUnique ==
  \A j, k \in DOMAIN calls : calls[j].ledger = calls[k].ledger => j = k

LEMMA RefsStep ==
  ASSUME Dedup, TypeOK, RefsUnique, [Next]_vars
  PROVE  RefsUnique'
<1>1. ASSUME NEW w \in Workers, Distribute(w)
      PROVE  RefsUnique'
  <2>1. calls \in Seq(CallType) /\ NewCall(w) \in CallType
    BY <1>1, HandlerTyped DEF TypeOK, Distribute, RulePC
  <2>2. /\ DOMAIN calls' = DOMAIN calls \cup {Len(calls) + 1}
        /\ calls'[Len(calls) + 1] = NewCall(w)
        /\ \A k \in DOMAIN calls : calls'[k] = calls[k]
    BY <1>1, <2>1, AppendProperties DEF Distribute
  <2>3. \A k \in DOMAIN calls : calls[k].ledger # NewCall(w).ledger
    BY <1>1 DEF Distribute, CallsFor, NewCall
  <2>4. QED
    BY <2>2, <2>3 DEF RefsUnique
<1>2. CASE UNCHANGED calls
  BY <1>2 DEF RefsUnique
<1>3. QED
  BY <1>1, <1>2 DEF Next, vars, Environment, ReplaceRules, Join, SendCompletion,
     SendResult, HandleTaskCompleted, HandleRewardResult, Abort,
     ReceiveCompletion, ListGroupRules, SkipRule, PickRule, LookupLedger, Reread,
     InsertLedger, InsertFails, DistributeAgain, DistributeRejected, Settle,
     Finish, ReceiveResult, RecordResult, TableVars, TopicVars

(* If the service answers every request for a row with one voucher, a      *)
(* recorded voucher never changes, whatever handlers race, fail or repeat. *)
THEOREM VouchersStable == Dedup => (Spec => VoucherStable)
<1> SUFFICES ASSUME Dedup PROVE Spec => VoucherStable
  OBVIOUS
<1>1. Init => RefsUnique
  BY DEF Init, RefsUnique
<1>2. TypeOK /\ RefsUnique /\ [Next]_vars => RefsUnique'
  BY RefsStep
<1>3. /\ TypeOK /\ [Next]_vars /\ RefsUnique' 
      /\ LedgerFollowsService /\ LedgerFollowsService'
      => [\A l \in DOMAIN ledgers :
            ledgers[l].voucher # NoVoucher =>
              ledgers'[l].voucher = ledgers[l].voucher]_vars
  <2> SUFFICES ASSUME TypeOK, [Next]_vars, RefsUnique', LedgerFollowsService,
                      LedgerFollowsService', NEW l \in DOMAIN ledgers,
                      ledgers[l].voucher # NoVoucher
               PROVE  ledgers'[l].voucher = ledgers[l].voucher
    OBVIOUS
  <2>1. Grows
    BY StepGrows
  <2>2. l \in DOMAIN ledgers' /\ ledgers'[l].voucher # NoVoucher
    BY <2>1 DEF Grows, RowKept
  <2>3. ledgers[l].voucher \in DOMAIN calls'
          /\ calls'[ledgers[l].voucher].ledger = l
    BY <2>1 DEF LedgerFollowsService, CallsFor, Grows
  <2>4. ledgers'[l].voucher \in DOMAIN calls'
          /\ calls'[ledgers'[l].voucher].ledger = l
    BY <2>2 DEF LedgerFollowsService, CallsFor
  <2>5. QED
    BY <2>3, <2>4 DEF RefsUnique
<1>4. QED
  BY <1>1, <1>2, <1>3, TypeCorrect, LedgersFollowService, PTL
  DEF Spec, VoucherStable

-----------------------------------------------------------------------------
(* Success is final while handlers run one after the other and the service *)
(* reports no failure.  Rows that say success have a voucher, so no        *)
(* handler calls for them, and none of the others writes to a row that     *)
(* says success, except the success of another result.                     *)

OneHandler ==
  \A v, w \in Workers : job[v].pc # "idle" /\ job[w].pc # "idle" => v = w

Succeeded(l) == ledgers[l].status = "distribute_success"

FinalJob(w) ==
  /\ job[w].pc \in {"call", "settle"} =>
       job[w].led \in DOMAIN ledgers /\ ~Succeeded(job[w].led)
  /\ job[w].pc = "settle" => job[w].status # "distribute_success"
  /\ job[w].pc = "record" =>
       job[w].status = "distribute_success" /\ job[w].voucher # NoVoucher

FinalRows ==
  \A l \in DOMAIN ledgers : Succeeded(l) => ledgers[l].voucher # NoVoucher

FinalInv ==
  /\ TypeOK
  /\ \A m \in results : m.status = "DISTRIBUTED" /\ m.voucher # NoVoucher
  /\ FinalRows
  /\ \A w \in Workers : FinalJob(w)

LEMMA OthersWait ==
  ASSUME TypeOK, OneHandler, OneHandler', NEW w \in Workers,
         HandleTaskCompleted(w) \/ HandleRewardResult(w) \/ Abort(w)
  PROVE  \A v \in Workers \ {w} : job[v].pc = "idle" /\ job'[v] = job[v]
<1>1. job \in [Workers -> Job]
  BY DEF TypeOK
<1>2. \E j : Becomes(w, j)
  BY DEF HandleTaskCompleted, HandleRewardResult, Abort, ReceiveCompletion,
     ListGroupRules, SkipRule, PickRule, LookupLedger, Reread, ExistingLedger,
     InsertLedger, InsertFails, Distribute, DistributeAgain, DistributeRejected,
     Answered, CallFailed, Settle, Finish, ReceiveResult, RecordResult
<1>3. \A v \in Workers \ {w} : job'[v] = job[v]
  BY <1>1, <1>2 DEF Becomes
<1>4. job[w].pc # "idle" \/ job'[w].pc # "idle"
  <2>1. ASSUME NEW e, ReceiveCompletion(w, e) PROVE job'[w].pc # "idle"
    BY <1>1, <2>1 DEF ReceiveCompletion, Becomes, Idle
  <2>2. ASSUME NEW m, ReceiveResult(w, m) PROVE job'[w].pc # "idle"
    BY <1>1, <2>2 DEF ReceiveResult, Becomes, Idle
  <2>3. QED
    BY <2>1, <2>2 DEF HandleTaskCompleted, HandleRewardResult, Abort,
       ListGroupRules, SkipRule, PickRule, LookupLedger, Reread, InsertLedger,
       InsertFails, Distribute, DistributeAgain, DistributeRejected, Settle,
       Finish, RecordResult
<1>5. QED
  BY <1>3, <1>4 DEF OneHandler

(* Steps that write to no row: what the handler is about to do follows     *)
(* from what it read.                                                      *)
LEMMA FinalReads ==
  ASSUME FinalInv, NEW w \in Workers, UNCHANGED ledgers,
         HandleTaskCompleted(w) \/ HandleRewardResult(w) \/ Abort(w),
         ~InsertLedger(w), ~Settle(w), ~RecordResult(w)
  PROVE  FinalJob(w)'
<1>1. job \in [Workers -> Job] /\ job[w] \in Local /\ FinalJob(w)
  BY JobTyped DEF FinalInv, TypeOK, Job
<1>2. ASSUME NEW j, Becomes(w, j) PROVE job'[w] = j
  BY <1>1, <1>2 DEF Becomes
<1>3. ASSUME job'[w].pc \notin {"call", "settle", "record"} PROVE FinalJob(w)'
  BY <1>3 DEF FinalJob
<1>4. CASE Distribute(w) \/ DistributeAgain(w) \/ DistributeRejected(w)
  <2>1. ASSUME NEW v, NEW s \in {"distributing", "distribute_fail"},
               Becomes(w, [job[w] EXCEPT !.pc = "settle", !.voucher = v,
                                         !.status = s])
        PROVE  FinalJob(w)'
    <3>1. job[w].pc = "call"
      BY <1>4 DEF Distribute, DistributeAgain, DistributeRejected
    <3>2. job'[w].pc = "settle" /\ job'[w].status = s /\ job'[w].led = job[w].led
      BY <1>1, <1>2, <2>1 DEF Local
    <3>3. QED
      BY <1>1, <3>1, <3>2 DEF FinalJob, Succeeded
  <2>2. CallFailed(w) \/ \E v : Answered(w, v)
    BY <1>4 DEF Distribute, DistributeAgain, DistributeRejected
  <2>3. QED
    BY <2>1, <2>2 DEF CallFailed, Answered
<1>5. ASSUME NEW m \in results, ReceiveResult(w, m) PROVE FinalJob(w)'
  <2>1. /\ job'[w].pc = "record" /\ job'[w].status = StatusOf(m)
        /\ job'[w].voucher = VoucherOf(m)
    BY <1>2, <1>5 DEF ReceiveResult, Idle
  <2>2. StatusOf(m) = "distribute_success" /\ VoucherOf(m) # NoVoucher
    BY DEF FinalInv, StatusOf, VoucherOf
  <2>3. QED
    BY <2>1, <2>2 DEF FinalJob
<1>6. CASE LookupLedger(w) \/ Reread(w)
  <2>1. ASSUME NEW l \in Found(w), ExistingLedger(w, l) PROVE FinalJob(w)'
    <3>1. CASE ledgers[l].voucher # NoVoucher
      BY <1>1, <1>2, <1>3, <2>1, <3>1 DEF ExistingLedger, Local
    <3>2. CASE ledgers[l].voucher = NoVoucher
      <4>1. job'[w].pc = "call" /\ job'[w].led = l
        BY <1>1, <1>2, <2>1, <3>2 DEF ExistingLedger, Local
      <4>2. l \in DOMAIN ledgers /\ ~Succeeded(l)
        BY <3>2 DEF FinalInv, FinalRows, Found
      <4>3. QED
        BY <4>1, <4>2 DEF FinalJob, Succeeded
    <3>3. QED
      BY <3>1, <3>2
  <2>2. ASSUME NEW pc \in {"insert"}, Becomes(w, [job[w] EXCEPT !.pc = pc])
        PROVE  FinalJob(w)'
    BY <1>1, <1>2, <1>3, <2>2 DEF Local
  <2>3. ASSUME Becomes(w, Idle) PROVE FinalJob(w)'
    BY <1>2, <1>3, <2>3 DEF Idle
  <2>4. QED
    BY <1>6, <2>1, <2>2, <2>3 DEF LookupLedger, Reread
<1>7. CASE Finish(w) \/ Abort(w)
  BY <1>2, <1>3, <1>7 DEF Finish, Abort, Idle
<1>8. ASSUME NEW e \in completions, ReceiveCompletion(w, e) PROVE FinalJob(w)'
  <2>1. job'[w].pc = "group_rules"
    BY <1>2, <1>8 DEF ReceiveCompletion, Idle
  <2>2. QED
    BY <1>3, <2>1
<1>9. CASE \/ ListGroupRules(w) \/ InsertFails(w)
           \/ \E r \in job[w].todo : SkipRule(w, r) \/ PickRule(w, r)
  BY <1>1, <1>2, <1>3, <1>9
  DEF ListGroupRules, InsertFails, SkipRule, PickRule, Local
<1>10. QED
  BY <1>4, <1>5, <1>6, <1>7, <1>8, <1>9
  DEF HandleTaskCompleted, HandleRewardResult

(* A handler's step keeps the invariant and changes no row that succeeded  *)
(* to anything else.                                                       *)
LEMMA FinalStep ==
  ASSUME FinalInv, NEW w \in Workers,
         HandleTaskCompleted(w) \/ HandleRewardResult(w) \/ Abort(w)
  PROVE  /\ FinalRows' /\ FinalJob(w)'
         /\ \A l \in DOMAIN ledgers : Succeeded(l) => Succeeded(l)'
<1>1. /\ job \in [Workers -> Job] /\ job[w] \in Local /\ FinalJob(w)
      /\ ledgers \in Seq(LedgerRow) /\ FinalRows
  BY JobTyped DEF FinalInv, TypeOK, Job
<1>2. ASSUME NEW j, Becomes(w, j) PROVE job'[w] = j
  BY <1>1, <1>2 DEF Becomes
<1>3. ASSUME job'[w].pc \notin {"call", "settle", "record"} PROVE FinalJob(w)'
  BY <1>3 DEF FinalJob
<1>4. ASSUME ledgers' = Append(ledgers, NewLedger(w)), job[w].pc \in RulePC
      PROVE  /\ FinalRows'
             /\ \A l \in DOMAIN ledgers : Succeeded(l) => Succeeded(l)'
             /\ Len(ledgers) + 1 \in DOMAIN ledgers'
             /\ ledgers'[Len(ledgers) + 1].status = "pending_distribution"
  <2>1. NewLedger(w) \in LedgerRow
    BY <1>4, HandlerTyped DEF FinalInv
  <2>2. /\ DOMAIN ledgers' = DOMAIN ledgers \cup {Len(ledgers) + 1}
        /\ ledgers'[Len(ledgers) + 1] = NewLedger(w)
        /\ \A l \in DOMAIN ledgers : ledgers'[l] = ledgers[l]
    BY <1>1, <1>4, <2>1, AppendProperties
  <2>3. NewLedger(w).status = "pending_distribution"
    BY DEF NewLedger
  <2>4. QED
    BY <1>1, <2>2, <2>3 DEF FinalRows, Succeeded
<1>5. CASE UNCHANGED ledgers /\ ~InsertLedger(w) /\ ~Settle(w) /\ ~RecordResult(w)
  BY <1>1, <1>5, FinalReads DEF FinalRows, Succeeded
<1>6. CASE InsertLedger(w)
  <2>1. job'[w].pc = "call" /\ job'[w].led = Len(ledgers) + 1
    BY <1>1, <1>2, <1>6 DEF InsertLedger, Local
  <2>2. QED
    BY <1>4, <1>6, <2>1 DEF InsertLedger, FinalJob, Succeeded, RulePC
<1>7. CASE InsertFails(w) /\ ledgers' = Append(ledgers, NewLedger(w))
  <2>1. job'[w].pc = "reread"
    BY <1>1, <1>2, <1>7 DEF InsertFails, Local
  <2>2. QED
    BY <1>3, <1>4, <1>7, <2>1 DEF InsertFails, RulePC
<1>8. CASE Settle(w) \/ RecordResult(w)
  <2> DEFINE i == job[w].led
             s == job[w].status
             v == job[w].voucher
  <2>1. /\ UpdateStatusAndVoucher(i, s, v)
        /\ DOMAIN ledgers' = DOMAIN ledgers
    BY <1>1, <1>8, UpdateTyped DEF FinalInv, Settle, RecordResult, Local
  <2>2. ASSUME NEW l \in DOMAIN ledgers
        PROVE  /\ l # i => ledgers'[l] = ledgers[l]
               /\ l = i => /\ ledgers'[l].status = s
                           /\ v # NoVoucher => ledgers'[l].voucher = v
    <3>1. ledgers[l] \in LedgerRow
      BY <1>1
    <3>2. ledgers'[l] = IF l = i THEN Updated(ledgers[l], s, v) ELSE ledgers[l]
      BY <1>1, <2>1 DEF UpdateStatusAndVoucher
    <3>3. QED
      BY <3>1, <3>2 DEF Updated, LedgerRow
  <2>3. /\ Settle(w) => s # "distribute_success" /\ ~Succeeded(i)
        /\ RecordResult(w) => s = "distribute_success" /\ v # NoVoucher
    BY <1>1 DEF FinalJob, Settle, RecordResult
  <2>4. /\ FinalRows'
        /\ \A l \in DOMAIN ledgers : Succeeded(l) => Succeeded(l)'
    BY <1>1, <1>8, <2>1, <2>2, <2>3 DEF FinalRows, Succeeded
  <2>5. job'[w].pc \in {"next", "idle"}
    BY <1>1, <1>2, <1>8 DEF Settle, RecordResult, Local, Idle
  <2>6. QED
    BY <1>3, <2>4, <2>5
<1>9. QED
  BY <1>5, <1>6, <1>7, <1>8
  DEF HandleTaskCompleted, HandleRewardResult, Abort, ReceiveCompletion,
      ListGroupRules, SkipRule, PickRule, LookupLedger, Reread, InsertFails,
      Distribute, DistributeAgain, DistributeRejected, Finish, ReceiveResult

LEMMA FinalNext ==
  ASSUME Faults \cap {"failed", "blank"} = {}, FinalInv, OneHandler, OneHandler',
         [Next]_vars
  PROVE  /\ FinalInv'
         /\ \A l \in DOMAIN ledgers : Succeeded(l) => Succeeded(l)'
<1>1. TypeOK' /\ NoVoucher \notin DOMAIN calls
  BY TypeNext DEF FinalInv, TypeOK, NoVoucher
<1>2. ASSUME NEW w \in Workers,
             HandleTaskCompleted(w) \/ HandleRewardResult(w) \/ Abort(w)
      PROVE  /\ FinalInv'
             /\ \A l \in DOMAIN ledgers : Succeeded(l) => Succeeded(l)'
  <2>1. /\ FinalRows' /\ FinalJob(w)'
        /\ \A l \in DOMAIN ledgers : Succeeded(l) => Succeeded(l)'
    BY <1>2, FinalStep
  <2>2. \A v \in Workers \ {w} : FinalJob(v)'
    BY <1>2, OthersWait DEF FinalInv, FinalJob
  <2>3. UNCHANGED results
    BY <1>2 DEF HandleTaskCompleted, HandleRewardResult, Abort,
       ReceiveCompletion, ListGroupRules, SkipRule, PickRule, LookupLedger,
       Reread, InsertLedger, InsertFails, Distribute, DistributeAgain,
       DistributeRejected, Settle, Finish, ReceiveResult, RecordResult, TopicVars
  <2>4. QED
    BY <1>1, <2>1, <2>2, <2>3 DEF FinalInv
<1>3. CASE Environment \/ UNCHANGED vars
  <2>1. UNCHANGED <<ledgers, job>>
    BY <1>3 DEF Environment, ReplaceRules, Join, SendCompletion, SendResult, vars
  <2>2. ASSUME NEW m \in results'
        PROVE  m.status = "DISTRIBUTED" /\ m.voucher # NoVoucher
    <3>1. ASSUME NEW k \in DOMAIN calls, NEW s \in ResultStatus,
                 NEW v \in {k, NoVoucher}, SendResult(k, s, v)
          PROVE  m.status = "DISTRIBUTED" /\ m.voucher # NoVoucher
      <4>1. s = "DISTRIBUTED" /\ v # NoVoucher
        BY <3>1 DEF SendResult
      <4>2. QED
        BY <3>1, <4>1 DEF SendResult, FinalInv
    <3>2. CASE UNCHANGED results
      BY <3>2 DEF FinalInv
    <3>3. QED
      BY <1>3, <3>1, <3>2
      DEF Environment, ReplaceRules, Join, SendCompletion, TopicVars, vars
  <2>3. QED
    BY <1>1, <2>1, <2>2 DEF FinalInv, FinalRows, FinalJob, Succeeded
<1>4. QED
  BY <1>2, <1>3 DEF Next

(* Handlers that run one after the other may die, lose answers or have     *)
(* requests refused at any point: as long as the service reports no        *)
(* failure, and names the voucher, no row goes back from success.          *)
THEOREM SuccessStays ==
  Faults \cap {"failed", "blank"} = {} =>
    (Spec /\ []OneHandler => SuccessIsFinal)
<1> SUFFICES ASSUME Faults \cap {"failed", "blank"} = {}
             PROVE  Spec /\ []OneHandler => SuccessIsFinal
  OBVIOUS
<1>1. Init => FinalInv
  BY TypeInit DEF Init, FinalInv, FinalRows, FinalJob, Idle
<1>2. FinalInv /\ OneHandler /\ OneHandler' /\ [Next]_vars => FinalInv'
  BY FinalNext
<1>3. FinalInv /\ OneHandler /\ OneHandler' /\ [Next]_vars =>
        [\A l \in DOMAIN ledgers :
           ledgers[l].status = "distribute_success" =>
             ledgers'[l].status = "distribute_success"]_vars
  BY FinalNext DEF Succeeded
<1>4. QED
  BY <1>1, <1>2, <1>3, PTL DEF Spec, SuccessIsFinal

-----------------------------------------------------------------------------
(* A row costs at most one request per handler.  The bound is not          *)
(* inductive: it counts requests, and who may still send one depends on    *)
(* the row's voucher.  While a row has none, each request made for it is   *)
(* held by a handler that is about to store its voucher (Held); once it    *)
(* has one, no handler turns to it any more, and the handlers that already *)
(* had are the requests still to come (Spent).                             *)

Callers(l)  == {w \in Workers : job[w].pc = "call" /\ job[w].led = l}
Settlers(l) == {w \in Workers : job[w].pc = "settle" /\ job[w].led = l}

Held(l) ==
  \A k \in CallsFor(l) : \E w \in Settlers(l) : job[w].voucher = k

Spent(l) ==
  Cardinality(CallsFor(l)) + Cardinality(Callers(l)) <= Cardinality(Workers)

BoundInv ==
  \A l \in DOMAIN ledgers :
    IF ledgers[l].voucher = NoVoucher THEN Held(l) ELSE Spent(l)

LEMMA CallsFinite ==
  ASSUME TypeOK, NEW l
  PROVE  /\ IsFiniteSet(CallsFor(l)) /\ Cardinality(CallsFor(l)) \in Nat
         /\ Len(calls) + 1 \notin CallsFor(l)
<1>1. /\ Len(calls) \in Nat /\ DOMAIN calls = 1 .. Len(calls)
      /\ CallsFor(l) \subseteq 1 .. Len(calls)
  BY DEF TypeOK, CallsFor
<1>2. IsFiniteSet(1 .. Len(calls))
  BY <1>1, FS_Interval
<1>3. QED
  BY <1>1, <1>2, FS_Subset, FS_CardinalityType

(* Requests that are held are no more than those that hold them, and none  *)
(* of these is about to make another.                                      *)
LEMMA HeldIsSpent ==
  ASSUME IsFiniteSet(Workers), TypeOK, NEW l, Held(l)
  PROVE  Spent(l)
<1> DEFINE H == {w \in Settlers(l) : job[w].voucher \in CallsFor(l)}
           f == [w \in H |-> job[w].voucher]
<1>1. /\ H \subseteq Workers /\ Callers(l) \subseteq Workers
      /\ H \cap Callers(l) = {}
  BY DEF Settlers, Callers
<1>2. IsFiniteSet(H) /\ IsFiniteSet(Callers(l))
  BY <1>1, FS_Subset
<1>3. f \in Surjection(H, CallsFor(l))
  BY DEF Held, Surjection
<1>4. Cardinality(CallsFor(l)) <= Cardinality(H)
  BY <1>2, <1>3, FS_Surjection
<1>5. Cardinality(H) + Cardinality(Callers(l)) = Cardinality(H \cup Callers(l))
  <2>1. Cardinality({}) = 0
    BY FS_EmptySet
  <2>2. /\ Cardinality(H) \in Nat /\ Cardinality(Callers(l)) \in Nat
        /\ Cardinality(H \cup Callers(l)) =
             Cardinality(H) + Cardinality(Callers(l))
               - Cardinality(H \cap Callers(l))
    BY <1>2, FS_Union, FS_CardinalityType
  <2>3. ASSUME NEW h \in Nat, NEW c \in Nat, NEW u, u = h + c - 0
        PROVE  h + c = u
    BY <2>3
  <2>4. Cardinality(H \cap Callers(l)) = 0
    BY <1>1, <2>1
  <2>5. QED
    BY <2>2, <2>3, <2>4
<1>6. Cardinality(H \cup Callers(l)) <= Cardinality(Workers)
  BY <1>1, FS_Subset
<1>7. /\ Cardinality(H) \in Nat /\ Cardinality(Callers(l)) \in Nat
      /\ Cardinality(CallsFor(l)) \in Nat /\ Cardinality(Workers) \in Nat
      /\ Cardinality(H \cup Callers(l)) \in Nat
  BY <1>2, CallsFinite, FS_CardinalityType, FS_Union
<1>8. QED
  BY <1>4, <1>5, <1>6, <1>7 DEF Spent

(* How the requests for a row and those about to make one change.          *)
Answers(w, l) ==
  /\ job[w].pc = "call" /\ job[w].led = l
  /\ job'[w].pc = "settle" /\ job'[w].led = l
  /\ job'[w].voucher = Len(calls) + 1

LEMMA CallsStep ==
  ASSUME Faults \cap {"lost", "no_voucher"} = {}, TypeOK, [Next]_vars, NEW l
  PROVE  \/ CallsFor(l)' = CallsFor(l)
         \/ /\ CallsFor(l)' = CallsFor(l) \cup {Len(calls) + 1}
            /\ \E w \in Workers : Answers(w, l)
<1>1. ASSUME NEW w \in Workers, Distribute(w)
      PROVE  \/ CallsFor(l)' = CallsFor(l)
             \/ /\ CallsFor(l)' = CallsFor(l) \cup {Len(calls) + 1}
                /\ Answers(w, l)
  <2>1. /\ calls \in Seq(CallType) /\ NewCall(w) \in CallType
        /\ job[w] \in Local /\ job \in [Workers -> Job]
    BY <1>1, HandlerTyped, JobTyped DEF TypeOK, Distribute, RulePC, Job
  <2>2. /\ DOMAIN calls' = DOMAIN calls \cup {Len(calls) + 1}
        /\ calls'[Len(calls) + 1] = NewCall(w)
        /\ \A k \in DOMAIN calls : calls'[k] = calls[k]
    BY <1>1, <2>1, AppendProperties DEF Distribute
  <2>3. CallsFor(l)' = CallsFor(l) \cup
          (IF NewCall(w).ledger = l THEN {Len(calls) + 1} ELSE {})
    BY <2>2 DEF CallsFor
  <2>4. NewCall(w).ledger = job[w].led
    BY DEF NewCall, ClientRef
  <2>5. Answered(w, Len(calls) + 1)
    BY <1>1 DEF Distribute
  <2>6. /\ job'[w].pc = "settle" /\ job'[w].led = job[w].led
        /\ job'[w].voucher = Len(calls) + 1
    BY <2>1, <2>5 DEF Answered, Becomes, Local
  <2>7. QED
    BY <1>1, <2>3, <2>4, <2>6 DEF Answers, Distribute
<1>2. CASE UNCHANGED calls
  BY <1>2 DEF CallsFor
<1>3. QED
  BY <1>1, <1>2 DEF Next, vars, Environment, ReplaceRules, Join, SendCompletion,
     SendResult, HandleTaskCompleted, HandleRewardResult, Abort,
     ReceiveCompletion, ListGroupRules, SkipRule, PickRule, LookupLedger, Reread,
     InsertLedger, InsertFails, DistributeAgain, DistributeRejected, Settle,
     Finish, ReceiveResult, RecordResult, TableVars, TopicVars

(* When a handler leaves "settle" with a voucher, the row has one.         *)
LEMMA SettlerStores ==
  ASSUME Faults \cap {"abort"} = {}, TypeOK, [Next]_vars,
         NEW l \in DOMAIN ledgers, NEW w \in Settlers(l),
         job[w].voucher # NoVoucher
  PROVE  UNCHANGED job[w] \/ ledgers'[l].voucher # NoVoucher
<1>1. /\ w \in Workers /\ job[w].pc = "settle" /\ job[w].led = l
      /\ ledgers \in Seq(LedgerRow) /\ ledgers[l] \in LedgerRow
  BY DEF Settlers, TypeOK
<1>2. CASE UNCHANGED job[w]
  BY <1>2
<1>3. CASE HandleTaskCompleted(w) \/ HandleRewardResult(w) \/ Abort(w)
  <2>1. Settle(w)
    BY <1>1, <1>3 DEF HandleTaskCompleted, HandleRewardResult, Abort,
       ReceiveCompletion, ListGroupRules, SkipRule, PickRule, LookupLedger,
       Reread, InsertLedger, InsertFails, Distribute, DistributeAgain,
       DistributeRejected, Finish, ReceiveResult, RecordResult
  <2>2. ledgers'[l] = Updated(ledgers[l], job[w].status, job[w].voucher)
    BY <1>1, <2>1 DEF Settle, UpdateStatusAndVoucher
  <2>3. QED
    BY <1>1, <2>2 DEF Updated, LedgerRow
<1>4. QED
  BY <1>1, <1>2, <1>3, OneMoves

(* Nobody turns to a row that has a voucher, or gets it in this step.      *)
LEMMA NoNewCallers ==
  ASSUME TypeOK, [Next]_vars, NEW l \in DOMAIN ledgers,
         ledgers'[l].voucher # NoVoucher
  PROVE  Callers(l)' \subseteq Callers(l)
<1> SUFFICES ASSUME NEW w \in Workers, job'[w].pc = "call", job'[w].led = l
             PROVE  job[w].pc = "call" /\ job[w].led = l
  BY DEF Callers
<1>1. CASE ledgers[l].voucher # NoVoucher
  BY <1>1, CallsStartOpen
<1>2. CASE ledgers[l].voucher = NoVoucher /\ ~UNCHANGED job[w]
  <2>1. /\ ledgers \in Seq(LedgerRow) /\ job \in [Workers -> Job]
        /\ job[w] \in Local /\ l \in 1 .. Len(ledgers)
    BY JobTyped DEF TypeOK, Job
  <2>2. HandleTaskCompleted(w) \/ HandleRewardResult(w) \/ Abort(w)
    BY <1>2, OneMoves
  <2>3. ~Settle(w) /\ ~RecordResult(w)
    BY <2>1 DEF Settle, RecordResult, Becomes, Local, Idle
  <2>4. \/ UNCHANGED ledgers
        \/ /\ job[w].pc \in RulePC
           /\ ledgers' = Append(ledgers, NewLedger(w))
    BY <2>2, <2>3 DEF HandleTaskCompleted, HandleRewardResult, Abort,
       ReceiveCompletion, ListGroupRules, SkipRule, PickRule, LookupLedger,
       Reread, InsertLedger, InsertFails, Distribute, DistributeAgain,
       DistributeRejected, Finish, ReceiveResult, RulePC
  <2>5. UNCHANGED ledgers[l]
    BY <2>1, <2>4, HandlerTyped, AppendProperties
  <2>6. QED
    BY <1>2, <2>5
<1>3. CASE UNCHANGED job[w]
  BY <1>3
<1>4. QED
  BY <1>1, <1>2, <1>3

LEMMA BoundStep ==
  ASSUME IsFiniteSet(Workers), Faults \cap {"abort", "lost", "no_voucher"} = {},
         JustifiedInv, BoundInv, [Next]_vars
  PROVE  BoundInv'
<1> SUFFICES ASSUME NEW l \in DOMAIN ledgers'
             PROVE  IF ledgers'[l].voucher = NoVoucher
                    THEN Held(l)' ELSE Spent(l)'
  BY DEF BoundInv
<1>1. TypeOK /\ TypeOK' /\ Grows
  BY TypeNext, StepGrows DEF JustifiedInv
<1>2. CASE l \notin DOMAIN ledgers
  <2>1. CallsFor(l)' = {}
    <3>1. CallsFor(l) = {}
      BY <1>2 DEF JustifiedInv, CallsJustified, Justified, CallsFor
    <3>2. ~ \E w \in Workers : Answers(w, l)
      BY <1>2 DEF JustifiedInv, WorkerInv, LedgerChosen, Answers
    <3>3. QED
      BY <1>1, <3>1, <3>2, CallsStep
  <2>2. ledgers'[l].voucher = NoVoucher
    <3>1. PICK w \in Workers : /\ job[w].pc \in RulePC
                               /\ ledgers' = Append(ledgers, NewLedger(w))
      BY <1>1, <1>2, LedgerStep
    <3>2. /\ ledgers \in Seq(LedgerRow) /\ NewLedger(w) \in LedgerRow
          /\ NewLedger(w).voucher = NoVoucher
      BY <1>1, <3>1, HandlerTyped DEF TypeOK, NewLedger
    <3>3. ledgers'[l] = NewLedger(w)
      BY <1>2, <3>1, <3>2, AppendProperties
    <3>4. QED
      BY <3>2, <3>3
  <2>3. QED
    BY <2>1, <2>2 DEF Held
<1>3. CASE l \in DOMAIN ledgers /\ ledgers'[l].voucher = NoVoucher
  <2>1. Held(l)
    BY <1>1, <1>3 DEF Grows, RowKept, BoundInv
  <2>2. ASSUME NEW k \in CallsFor(l)
        PROVE  \E w \in Settlers(l)' : job'[w].voucher = k
    <3>1. PICK w \in Settlers(l) : job[w].voucher = k
      BY <2>1 DEF Held
    <3>2. k # NoVoucher
      BY <1>1 DEF TypeOK, CallsFor, NoVoucher
    <3>3. UNCHANGED job[w]
      BY <1>1, <1>3, <3>1, <3>2, SettlerStores
    <3>4. QED
      BY <3>1, <3>3 DEF Settlers
  <2>3. ASSUME NEW w \in Workers, Answers(w, l)
        PROVE  \E v \in Settlers(l)' : job'[v].voucher = Len(calls) + 1
    BY <2>3 DEF Answers, Settlers
  <2>4. Held(l)'
    BY <1>1, <2>2, <2>3, CallsStep DEF Held
  <2>5. QED
    BY <1>3, <2>4
<1>4. CASE l \in DOMAIN ledgers /\ ledgers'[l].voucher # NoVoucher
  <2>1. Spent(l)
    BY <1>1, <1>4, HeldIsSpent DEF BoundInv
  <2>2. Callers(l)' \subseteq Callers(l)
    BY <1>1, <1>4, NoNewCallers
  <2>3. /\ IsFiniteSet(Callers(l)) /\ Cardinality(Callers(l)) \in Nat
        /\ IsFiniteSet(CallsFor(l)) /\ Cardinality(CallsFor(l)) \in Nat
        /\ Cardinality(Workers) \in Nat /\ Len(calls) + 1 \notin CallsFor(l)
    <3>1. Callers(l) \subseteq Workers
      BY DEF Callers
    <3>2. QED
      BY <1>1, <3>1, CallsFinite, FS_Subset, FS_CardinalityType
  <2>4. CASE CallsFor(l)' = CallsFor(l)
    <3>1. /\ Cardinality(Callers(l)') \in Nat
          /\ Cardinality(Callers(l)') <= Cardinality(Callers(l))
      BY <2>2, <2>3, FS_Subset, FS_CardinalityType
    <3>2. Cardinality(CallsFor(l)') + Cardinality(Callers(l)')
            <= Cardinality(Workers)
      BY <2>1, <2>3, <2>4, <3>1 DEF Spent
    <3>3. QED
      BY <1>4, <3>2 DEF Spent
  <2>5. ASSUME NEW w \in Workers, Answers(w, l),
               CallsFor(l)' = CallsFor(l) \cup {Len(calls) + 1}
        PROVE  Spent(l)'
    <3>1. w \in Callers(l) /\ Callers(l)' \subseteq Callers(l) \ {w}
      BY <2>2, <2>5 DEF Answers, Callers
    <3>2. /\ IsFiniteSet(Callers(l) \ {w})
          /\ Cardinality(Callers(l) \ {w}) = Cardinality(Callers(l)) - 1
      BY <2>3, <3>1, FS_RemoveElement
    <3>3. /\ Cardinality(Callers(l)') \in Nat
          /\ Cardinality(Callers(l)') <= Cardinality(Callers(l)) - 1
      BY <3>1, <3>2, FS_Subset, FS_CardinalityType
    <3>4. Cardinality(CallsFor(l)') = Cardinality(CallsFor(l)) + 1
      BY <2>3, <2>5, FS_AddElement
    <3>5. Cardinality(CallsFor(l)') + Cardinality(Callers(l)')
            <= Cardinality(Workers)
      BY <2>1, <2>3, <3>3, <3>4 DEF Spent
    <3>6. QED
      BY <3>5 DEF Spent
  <2>6. QED
    BY <1>1, <1>4, <2>4, <2>5, CallsStep
<1>5. QED
  BY <1>2, <1>3, <1>4

(* Whichever handlers race for a row, requests are refused and INSERTs     *)
(* fail: while no call is lost or answered without a voucher and no        *)
(* handler dies, they send at most one request each for it.                *)
THEOREM CallsBounded ==
  IsFiniteSet(Workers) /\ Faults \cap {"abort", "lost", "no_voucher"} = {} =>
    (Spec => []CallsPerLedgerBounded)
<1> SUFFICES ASSUME IsFiniteSet(Workers),
                    Faults \cap {"abort", "lost", "no_voucher"} = {}
             PROVE  Spec => []CallsPerLedgerBounded
  OBVIOUS
<1>1. Init => BoundInv
  BY DEF Init, BoundInv
<1>2. JustifiedInv /\ BoundInv /\ [Next]_vars => JustifiedInv' /\ BoundInv'
  BY JustifiedStep, BoundStep
<1>3. ASSUME JustifiedInv, BoundInv, NEW l \in DOMAIN ledgers
      PROVE  Cardinality(CallsFor(l)) <= Cardinality(Workers)
  <2>1. TypeOK /\ Spent(l)
    BY <1>3, HeldIsSpent DEF BoundInv, JustifiedInv
  <2>2. Callers(l) \subseteq Workers
    BY DEF Callers
  <2>3. /\ Cardinality(Callers(l)) \in Nat /\ Cardinality(Workers) \in Nat
        /\ Cardinality(CallsFor(l)) \in Nat
    BY <2>1, <2>2, CallsFinite, FS_Subset, FS_CardinalityType
  <2>4. QED
    BY <2>1, <2>3 DEF Spent
<1>4. JustifiedInv /\ BoundInv => CallsPerLedgerBounded
  BY <1>3 DEF CallsPerLedgerBounded
<1>5. QED
  BY JustifiedInit, <1>1, <1>2, <1>4, PTL DEF Spec
=============================================================================
