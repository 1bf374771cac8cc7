------------------------ MODULE RewardDeliveryProofs ------------------------
(* Theorems about RewardDelivery, for any number of members, partitions,   *)
(* records, rules, restarts and reassignments and with every failure.      *)
EXTENDS RewardDelivery, RewardLedgerProofs, KafkaConsumerProofs

-----------------------------------------------------------------------------
(* The two components in the composition.                                  *)

(* Every entry of the log came from its topic, and was sent by a user who  *)
(* had joined the campaigns it names; what is polled is in the log.        *)
InLog(r) ==
  r.partition \in Partitions /\ r.offset + 1 \in DOMAIN log[r.partition]

LogInv ==
  /\ log \in [Partitions -> Seq(Entry)]
  /\ \A p \in Partitions : end[p] = Len(log[p])
  /\ \A p \in Completions : \A i \in DOMAIN log[p] :
       /\ log[p][i].body \in completions
       /\ \A c \in log[p][i].joined : <<c, log[p][i].body.user>> \in participants
  /\ \A p \in Outcomes : \A i \in DOMAIN log[p] : log[p][i].body \in results
  /\ \A m \in Members : \A r \in loop[m].todo : InLog(r)

BaseInv == TypeOK /\ ConsumerTypeOK /\ LogInv

(* What a member's handler is at. *)
OnRecord(m) ==
  /\ attempt[m] = NoAttempt <=> job[m].pc = "idle"
  /\ job[m].pc # "idle" => NextRecord(m, attempt[m].record)
  /\ job[m].pc \in EventPC =>
       /\ attempt[m].record.partition \in Completions
       /\ job[m].event = Content(attempt[m].record).body
  /\ job[m].pc = "record" => attempt[m].record.partition \in Outcomes

(* Every rule the handler found is still to be looked at, is being worked  *)
(* on or is served; and what is about to be settled was requested.         *)
Progress(m) ==
  /\ job[m].pc \in EventPC \ {"group_rules"} =>
       \A rule \in attempt[m].rules :
         \/ rule \in job[m].todo
         \/ job[m].pc # "next" /\ rule = job[m].rule
         \/ Served(attempt[m].record, rule)
  /\ job[m].pc = "settle" /\ job[m].status = "distributing" =>
       Requested(job[m].event.user, job[m].rule)

HandledInv ==
  \A r \in handled : /\ InLog(r)
                     /\ r.partition \in Completions => Ignored(r) \/ Rewarded(r)

DeliveryInv ==
  /\ \A m \in Members : OnRecord(m) /\ Progress(m)
  /\ HandledInv

-----------------------------------------------------------------------------
LEMMA DeliveryIsConsumer ==
  ASSUME [DeliveryNext]_deliveryVars
  PROVE  [ConsumerNext]_consumerVars
<1>1. CASE UNCHANGED deliveryVars \/ Publishing
  BY <1>1 DEF deliveryVars, Publishing
<1>2. ASSUME NEW p \in Partitions, Produce(p)
      PROVE  ConsumerNext
  BY <1>2 DEF ConsumerNext
<1>3. ASSUME NEW p \in Completions, NEW e \in Events, ProduceCompletion(p, e)
      PROVE  ConsumerNext
  BY <1>2, <1>3, RewardDeliveryAssumption DEF ProduceCompletion, AppendRecord
<1>4. ASSUME NEW p \in Outcomes, NEW k \in DOMAIN calls, NEW s \in ResultStatus,
             NEW v, ProduceResult(p, k, s, v)
      PROVE  ConsumerNext
  BY <1>2, <1>4, RewardDeliveryAssumption DEF ProduceResult, AppendRecord
<1>5. ASSUME NEW p \in Partitions, NEW m \in Members, Reassign(p, m)
      PROVE  ConsumerNext
  BY <1>5 DEF Reassign, ConsumerNext
<1>6. ASSUME NEW m \in Members, Crash(m)
      PROVE  ConsumerNext
  BY <1>6 DEF Crash, ConsumerNext
<1>7. ASSUME NEW m \in Members, Consume(m)
      PROVE  ConsumerNext
  BY <1>7 DEF Consume, ConsumerNext, Run
<1>8. ASSUME NEW m \in Members, NEW r, HandlersSucceed(m, r) \/ HandlersFail(m, r)
      PROVE  ConsumerNext
  <2>1. r \in loop[m].todo
    BY <1>8 DEF HandlersSucceed, HandlersFail, NextRecord
  <2>2. QED
    BY <1>8, <2>1 DEF ConsumerNext, Run
<1>9. ASSUME NEW m \in Members, Work(m)
      PROVE  [ConsumerNext]_consumerVars
  BY <1>7, <1>8, <1>9 DEF Work, Handle, HandleIgnored, GoOn, Return, Fail
<1>10. QED
  BY <1>1, <1>3, <1>4, <1>5, <1>6, <1>9 DEF DeliveryNext

(* Around the handlers runs the consumer as it is described on its own:    *)
(* whatever holds of the consumer's steps holds of the composition.        *)
THEOREM ConsumesAsConsumer == DeliverySpec => ConsumerSpec
<1>1. DeliveryInit => ConsumerInit
  BY DEF DeliveryInit
<1>2. [DeliveryNext]_deliveryVars => [ConsumerNext]_consumerVars
  BY DeliveryIsConsumer
<1>3. QED
  BY <1>1, <1>2, PTL DEF DeliverySpec, ConsumerSpec

(* The handlers see only records of the log, which came from the topics.   *)
LEMMA DeliveryIsLedger ==
  ASSUME LogInv, [DeliveryNext]_deliveryVars
  PROVE  [Next]_vars
<1> USE RewardDeliveryAssumption
<1>1. CASE UNCHANGED deliveryVars
  BY <1>1 DEF deliveryVars
<1>2. CASE Publishing
  BY <1>2 DEF Publishing, Next, Environment
<1>3. ASSUME NEW p \in Completions, NEW e \in Events, ProduceCompletion(p, e)
      PROVE  Next
  BY <1>3 DEF ProduceCompletion, Next, Environment
<1>4. ASSUME NEW p \in Outcomes, NEW k \in DOMAIN calls, NEW s \in ResultStatus,
             ProduceResult(p, k, s, k) \/ ProduceResult(p, k, s, NoVoucher)
      PROVE  Next
  BY <1>4 DEF ProduceResult, Next, Environment
<1>5. ASSUME NEW m \in Members, Crash(m)
      PROVE  [Next]_vars
  BY <1>5 DEF Crash, Next
<1>6. ASSUME NEW m \in Members, NEW r \in loop[m].todo, Handle(m, r)
      PROVE  Next
  <2>1. r.partition \in Completions => Content(r).body \in completions
    BY DEF LogInv, InLog, Content
  <2>2. r.partition \in Outcomes => Content(r).body \in results
    BY DEF LogInv, InLog, Content
  <2>3. HandleTaskCompleted(m) \/ HandleRewardResult(m)
    BY <1>6, <2>1, <2>2 DEF Handle, HandleTaskCompleted, HandleRewardResult
  <2>4. QED
    BY <2>3 DEF Next
<1>7. ASSUME NEW m \in Members, GoOn(m) \/ Return(m) \/ Fail(m)
      PROVE  Next
  BY <1>7 DEF GoOn, Proceed, Return, ReturnsNil, Fail, ReturnsError, Next,
     HandleTaskCompleted, HandleRewardResult
<1>8. ASSUME NEW m \in Members, Work(m)
      PROVE  [Next]_vars
  BY <1>6, <1>7, <1>8 DEF Work, Consume, HandleIgnored
<1>9. ASSUME NEW p \in Partitions, NEW m \in Members, Reassign(p, m)
      PROVE  UNCHANGED vars
  BY <1>9 DEF Reassign
<1>10. QED
  BY <1>1, <1>2, <1>3, <1>4, <1>5, <1>8, <1>9 DEF DeliveryNext

-----------------------------------------------------------------------------
(* The log only grows, by entries that come from the topics.               *)

Entered(p, x) ==
  /\ log' = [log EXCEPT ![p] = Append(@, x)]
  /\ end' = [end EXCEPT ![p] = end[p] + 1]
  /\ p \in Completions =>
       /\ x.body \in completions'
       /\ \A c \in x.joined : <<c, x.body.user>> \in participants'
  /\ p \in Outcomes => x.body \in results'

LEMMA LogStep ==
  ASSUME BaseInv, [DeliveryNext]_deliveryVars
  PROVE  \/ UNCHANGED <<log, end>>
         \/ \E p \in Partitions, x \in Entry : Entered(p, x)
<1> USE RewardDeliveryAssumption
<1>1. ASSUME NEW p \in Completions, NEW e \in Events, ProduceCompletion(p, e)
      PROVE  \E x \in Entry : Entered(p, x)
  <2> DEFINE x == [body |-> e,
                   joined |-> {c \in Campaigns : <<c, e.user>> \in participants},
                   offers |-> {r.campaign : r \in {q \in rules : Pays(q) /\ Earns(e, q)}}]
  <2>1. \A r \in rules : r.campaign \in Campaigns
    BY DEF BaseInv, TypeOK, RuleRow
  <2>2. x \in Entry
    BY <2>1 DEF Entry
  <2>3. log' = [log EXCEPT ![p] = Append(@, x)]
    BY <1>1 DEF ProduceCompletion, AppendRecord
  <2>4. /\ end' = [end EXCEPT ![p] = end[p] + 1]
        /\ e \in completions' /\ participants' = participants
    BY <1>1
    DEF ProduceCompletion, AppendRecord, Produce, SendCompletion, TableVars
  <2>5. /\ x.body = e
        /\ \A c \in x.joined : <<c, e.user>> \in participants
    OBVIOUS
  <2>6. Entered(p, x)
    <3> HIDE DEF x
    <3> QED
      BY <2>3, <2>4, <2>5 DEF Entered
  <2>7. QED
    BY <2>2, <2>6
<1>2. ASSUME NEW p \in Outcomes, NEW k \in DOMAIN calls, NEW s \in ResultStatus,
             NEW v \in {k, NoVoucher}, ProduceResult(p, k, s, v)
      PROVE  \E x \in Entry : Entered(p, x)
  <2> DEFINE b == [ref |-> calls[k].ledger, status |-> s, voucher |-> v]
             x == [body |-> b, joined |-> {}, offers |-> {}]
  <2>1. calls[k] \in CallType /\ v \in Nat
    BY DEF BaseInv, TypeOK, NoVoucher
  <2>2. b \in ResultType
    BY <2>1 DEF CallType, ResultType
  <2>3. x \in Entry
    BY <2>2 DEF Entry
  <2>4. log' = [log EXCEPT ![p] = Append(@, x)]
    BY <1>2 DEF ProduceResult, AppendRecord
  <2>5. end' = [end EXCEPT ![p] = end[p] + 1] /\ b \in results'
    BY <1>2 DEF ProduceResult, AppendRecord, Produce, SendResult
  <2>6. x.body = b /\ p \notin Completions
    OBVIOUS
  <2>7. Entered(p, x)
    <3> HIDE DEF x, b
    <3> QED
      BY <2>4, <2>5, <2>6 DEF Entered
  <2>8. QED
    BY <2>3, <2>7
<1>3. CASE UNCHANGED deliveryVars \/ Publishing
  BY <1>3 DEF deliveryVars, Publishing, consumerVars
<1>4. ASSUME NEW m \in Members, NEW p \in Partitions, Reassign(p, m) \/ Crash(m)
      PROVE  UNCHANGED <<log, end>>
  BY <1>4 DEF Reassign, Assign, Crash, Restart
<1>5. ASSUME NEW m \in Members, Crash(m)
      PROVE  UNCHANGED <<log, end>>
  BY <1>5 DEF Crash, Restart
<1>6. ASSUME NEW m \in Members, Work(m)
      PROVE  UNCHANGED <<log, end>>
  BY <1>6 DEF Work, Consume, PollFetches, PollErrors, EndOfFetch, CommitRecords,
     CommitFails, Handle, HandleIgnored, HandlersSucceed, GoOn, Return, Fail,
     HandlersFail, consumerVars
<1>7. QED
  BY <1>1, <1>2, <1>3, <1>4, <1>5, <1>6 DEF DeliveryNext

LEMMA LogKept ==
  ASSUME BaseInv, [DeliveryNext]_deliveryVars
  PROVE  /\ log' \in [Partitions -> Seq(Entry)]
         /\ \A p \in Partitions : end'[p] = Len(log'[p])
         /\ \A p \in Partitions : \A i \in DOMAIN log[p] :
              i \in DOMAIN log'[p] /\ log'[p][i] = log[p][i]
<1>1. /\ log \in [Partitions -> Seq(Entry)] /\ end \in [Partitions -> Nat]
      /\ \A p \in Partitions : end[p] = Len(log[p])
  BY DEF BaseInv, LogInv, ConsumerTypeOK
<1>2. ASSUME NEW q \in Partitions, NEW x \in Entry, Entered(q, x)
      PROVE  /\ log' \in [Partitions -> Seq(Entry)]
             /\ \A p \in Partitions : end'[p] = Len(log'[p])
             /\ \A p \in Partitions : \A i \in DOMAIN log[p] :
                  i \in DOMAIN log'[p] /\ log'[p][i] = log[p][i]
  <2>1. /\ log[q] \in Seq(Entry) /\ Append(log[q], x) \in Seq(Entry)
        /\ Len(Append(log[q], x)) = Len(log[q]) + 1
    BY <1>1, AppendProperties
  <2>2. /\ log'[q] = Append(log[q], x)
        /\ end'[q] = end[q] + 1
        /\ \A p \in Partitions : p # q => log'[p] = log[p] /\ end'[p] = end[p]
    BY <1>1, <1>2 DEF Entered
  <2>3. \A i \in DOMAIN log[q] : i \in DOMAIN log'[q] /\ log'[q][i] = log[q][i]
    BY <2>1, <2>2, AppendKeeps
  <2>4. log' \in [Partitions -> Seq(Entry)]
    BY <1>1, <1>2, <2>1 DEF Entered
  <2>5. QED
    BY <1>1, <2>1, <2>2, <2>3, <2>4
<1>3. QED
  BY <1>1, <1>2, LogStep

(* What a member holds it held before, or has just been polled.            *)
LEMMA TodoStep ==
  ASSUME ConsumerTypeOK, [ConsumerNext]_consumerVars,
         NEW m \in Members, NEW r \in loop'[m].todo
  PROVE  \/ r \in loop[m].todo
         \/ r \in Record /\ r.offset < end[r.partition]
<1> SUFFICES ASSUME r \notin loop[m].todo
             PROVE  r \in Record /\ r.offset < end[r.partition]
  OBVIOUS
<1>0. loop \in [Members -> Loop]
  BY DEF ConsumerTypeOK
<1>1. ASSUME NEW n \in Members, NEW j, LoopBecomes(n, j), j.todo \subseteq loop[n].todo
      PROVE  FALSE
  BY <1>0, <1>1 DEF LoopBecomes
<1>2. PICK n \in Members : PollFetches(n)
  <2>1. ~ UNCHANGED loop
    OBVIOUS
  <2>2. ASSUME NEW n \in Members
        PROVE  ~ Restart(n) /\ ~ EndOfFetch(n)
    BY <1>1 DEF Restart, EndOfFetch, AtPoll
  <2>3. ASSUME NEW n \in Members
        PROVE  ~ CommitRecords(n) /\ ~ CommitFails(n)
    <3>1. [loop[n] EXCEPT !.pc = "each", !.rec = NoRecord].todo = loop[n].todo
      BY <1>0 DEF Loop
    <3>2. QED
      BY <1>1, <3>1 DEF CommitRecords, CommitFails
  <2>4. ASSUME NEW n \in Members, NEW q
        PROVE  ~ SkipRecord(n, q) /\ ~ HandlersSucceed(n, q) /\ ~ HandlersFail(n, q)
    <3>1. [loop[n] EXCEPT !.todo = loop[n].todo \ {q}].todo \subseteq loop[n].todo
      BY <1>0 DEF Loop
    <3>2. [pc |-> "commit", todo |-> loop[n].todo \ {q}, rec |-> q].todo
            \subseteq loop[n].todo
      OBVIOUS
    <3>3. QED
      BY <1>1, <3>1, <3>2 DEF SkipRecord, HandlersSucceed, HandlersFail
  <2>5. QED
    BY <2>1, <2>2, <2>3, <2>4
    DEF ConsumerNext, consumerVars, Produce, Assign, Run, PollErrors
<1>3. PICK upto \in Upto : /\ Fetch(n, upto)
            /\ LoopBecomes(n,
                 [AtPoll EXCEPT !.pc = "each", !.todo = Fetched(upto)])
  BY <1>2 DEF PollFetches
<1>4. r \in Fetched(upto)
  BY <1>0, <1>3 DEF LoopBecomes, AtPoll
<1>5. PICK p \in Partitions :
        r \in {[partition |-> p, offset |-> o] : o \in position[p] .. upto[p] - 1}
  BY <1>4 DEF Fetched
<1>6. /\ position[p] \in Nat /\ upto[p] \in Nat /\ end[p] \in Nat
      /\ upto[p] <= end[p]
  BY <1>3, FetchTyped DEF ConsumerTypeOK, Fetch
<1>7. PICK o \in position[p] .. upto[p] - 1 : r = [partition |-> p, offset |-> o]
  BY <1>5
<1>8. o \in Nat /\ o < end[p]
  BY <1>6
<1>9. QED
  BY <1>7, <1>8 DEF Record

LEMMA BaseInit == DeliveryInit => BaseInv
<1> SUFFICES ASSUME DeliveryInit PROVE BaseInv
  OBVIOUS
<1>1. TypeOK /\ ConsumerTypeOK
  BY TypeInit, ConsumerTypeInit DEF DeliveryInit
<1>2. \A p \in Partitions : log[p] = << >> /\ end[p] = 0
  BY DEF DeliveryInit, ConsumerInit
<1>3. \A m \in Members : loop[m].todo = {}
  BY DEF DeliveryInit, ConsumerInit, AtPoll
<1>4. log \in [Partitions -> Seq(Entry)]
  BY DEF DeliveryInit
<1>5. QED
  BY <1>1, <1>2, <1>3, <1>4, RewardDeliveryAssumption DEF BaseInv, LogInv

LEMMA BaseStep ==
  ASSUME BaseInv, [DeliveryNext]_deliveryVars
  PROVE  BaseInv' /\ [Next]_vars /\ [ConsumerNext]_consumerVars /\ Grows
<1>1. [Next]_vars /\ [ConsumerNext]_consumerVars
  BY DeliveryIsLedger, DeliveryIsConsumer DEF BaseInv
<1>2. TypeOK' /\ ConsumerTypeOK' /\ Grows
  BY <1>1, TypeNext, ConsumerTypeNext, StepGrows DEF BaseInv
<1>3. /\ log' \in [Partitions -> Seq(Entry)]
      /\ \A p \in Partitions : end'[p] = Len(log'[p])
      /\ \A p \in Partitions : \A i \in DOMAIN log[p] :
           i \in DOMAIN log'[p] /\ log'[p][i] = log[p][i]
  BY LogKept
<1>4. ASSUME NEW p \in Partitions, NEW i \in DOMAIN log'[p]
      PROVE  /\ p \in Completions =>
                  /\ log'[p][i].body \in completions'
                  /\ \A c \in log'[p][i].joined :
                       <<c, log'[p][i].body.user>> \in participants'
             /\ p \in Outcomes => log'[p][i].body \in results'
  <2>1. CASE i \in DOMAIN log[p]
    <3>1. log'[p][i] = log[p][i]
      BY <1>3, <2>1
    <3>2. QED
      BY <1>2, <2>1, <3>1 DEF BaseInv, LogInv, Grows
  <2>2. CASE i \notin DOMAIN log[p]
    <3>1. PICK q \in Partitions, x \in Entry : Entered(q, x)
      BY <2>2, LogStep
    <3>2. log \in [Partitions -> Seq(Entry)]
      BY DEF BaseInv, LogInv
    <3>3. p = q /\ log'[p] = Append(log[p], x)
      BY <2>2, <3>1, <3>2 DEF Entered
    <3>4. i = Len(log[p]) + 1 /\ log'[p][i] = x
      BY <2>2, <3>2, <3>3, AppendProperties
    <3>5. QED
      BY <3>1, <3>3, <3>4 DEF Entered
  <2>3. QED
    BY <2>1, <2>2
<1>5. ASSUME NEW m \in Members, NEW r \in loop'[m].todo
      PROVE  InLog(r)'
  <2>1. CASE r \in loop[m].todo
    BY <1>3, <2>1 DEF BaseInv, LogInv, InLog
  <2>2. CASE r \in Record /\ r.offset < end[r.partition]
    <3>1. r.partition \in Partitions /\ r.offset \in Nat
      BY <2>2 DEF Record
    <3>2. /\ log[r.partition] \in Seq(Entry)
          /\ end[r.partition] = Len(log[r.partition])
      BY <3>1 DEF BaseInv, LogInv
    <3>3. r.offset + 1 \in DOMAIN log[r.partition]
      BY <2>2, <3>1, <3>2
    <3>4. QED
      BY <1>3, <3>1, <3>3 DEF InLog
  <2>3. QED
    BY <1>1, <2>1, <2>2, TodoStep DEF BaseInv
<1>6. LogInv'
  BY <1>3, <1>4, <1>5, RewardDeliveryAssumption DEF LogInv
<1>7. QED
  BY <1>1, <1>2, <1>6 DEF BaseInv

LEMMA BaseCorrect == DeliverySpec => []BaseInv
<1>1. BaseInv /\ [DeliveryNext]_deliveryVars => BaseInv'
  BY BaseStep
<1>2. QED
  BY BaseInit, <1>1, PTL DEF DeliverySpec

(* The members' handlers work as RewardLedger describes handlers on their  *)
(* own: whatever holds of its steps holds of the composition.              *)
THEOREM HandlesAsLedger == DeliverySpec => Spec
<1>1. DeliveryInit => Init
  BY DEF DeliveryInit
<1>2. BaseInv /\ [DeliveryNext]_deliveryVars => [Next]_vars
  BY BaseStep
<1>3. QED
  BY <1>1, <1>2, BaseCorrect, PTL DEF DeliverySpec, Spec

-----------------------------------------------------------------------------
(* Types.                                                                  *)

AttemptsTyped == attempt \in [Members -> Attempt] /\ settled \subseteq Attempt

LEMMA AttemptTyped ==
  ASSUME AttemptsTyped, BaseInv, BaseInv', [DeliveryNext]_deliveryVars
  PROVE  AttemptsTyped'
<1>1. NoAttempt \in Attempt
  BY DEF NoAttempt, Attempt
<1>2. ASSUME NEW m \in Members, NEW a \in Attempt, Tries(m, a), UNCHANGED settled
      PROVE  AttemptsTyped'
  BY <1>2 DEF Tries, AttemptsTyped
<1>3. CASE UNCHANGED <<attempt, settled>>
  BY <1>3 DEF AttemptsTyped
<1>4. ASSUME NEW m \in Members, Crash(m) \/ Fail(m)
      PROVE  AttemptsTyped'
  BY <1>1, <1>2, <1>4 DEF Crash, Fail
<1>5. ASSUME NEW m \in Members, NEW r \in loop[m].todo, Handle(m, r)
      PROVE  AttemptsTyped'
  <2>1. r \in Record
    BY DEF BaseInv, ConsumerTypeOK, Loop
  <2>2. [record |-> r, rules |-> {}] \in Attempt
    BY <2>1 DEF Attempt
  <2>3. QED
    BY <1>2, <1>5, <2>2 DEF Handle
<1>6. ASSUME NEW m \in Members, GoOn(m)
      PROVE  AttemptsTyped'
  <2>1. attempt[m] \in Attempt
    BY DEF AttemptsTyped
  <2>2. job' \in [Workers -> Job] /\ m \in Workers
    BY RewardDeliveryAssumption DEF BaseInv, TypeOK
  <2>3. job'[m].todo \in SUBSET RuleRow
    BY <2>2 DEF Job, Local
  <2>4. [attempt[m] EXCEPT !.rules = job'[m].todo] \in Attempt
    BY <2>1, <2>3 DEF Attempt
  <2>5. QED
    BY <1>2, <1>6, <2>1, <2>4 DEF GoOn
<1>7. ASSUME NEW m \in Members, Return(m)
      PROVE  AttemptsTyped'
  BY <1>1, <1>7 DEF Return, Tries, AttemptsTyped
<1>8. CASE Publishing \/ UNCHANGED deliveryVars
  BY <1>3, <1>8 DEF Publishing, deliveryVars
<1>9. ASSUME NEW p, NEW b, NEW j, NEW o, AppendRecord(p, b, j, o)
      PROVE  AttemptsTyped'
  BY <1>3, <1>9 DEF AppendRecord
<1>10. ASSUME NEW p, NEW m, Reassign(p, m) \/ Consume(m) \/ \E r : HandleIgnored(m, r)
       PROVE  AttemptsTyped'
  BY <1>3, <1>10 DEF Reassign, Consume, HandleIgnored
<1>11. QED
  BY <1>4, <1>5, <1>6, <1>7, <1>8, <1>9, <1>10
  DEF DeliveryNext, Work, ProduceCompletion, ProduceResult

(* Every variable of the composition keeps its type.                       *)
THEOREM DeliveryTypeCorrect == DeliverySpec => []DeliveryTypeOK
<1>1. DeliveryInit => AttemptsTyped
  BY DEF DeliveryInit, AttemptsTyped, NoAttempt, Attempt
<1>2. /\ AttemptsTyped /\ BaseInv /\ BaseInv' /\ [DeliveryNext]_deliveryVars
      => AttemptsTyped'
  BY AttemptTyped
<1>3. BaseInv /\ AttemptsTyped => DeliveryTypeOK
  BY DEF BaseInv, LogInv, AttemptsTyped, DeliveryTypeOK
<1>4. QED
  BY <1>1, <1>2, <1>3, BaseCorrect, PTL DEF DeliverySpec

-----------------------------------------------------------------------------
(* What was found out about a record stays true.                           *)

LEMMA ContentKept ==
  ASSUME BaseInv, [DeliveryNext]_deliveryVars, NEW r, InLog(r)
  PROVE  /\ InLog(r)' /\ Content(r)' = Content(r)
         /\ Ignored(r) => Ignored(r)'
<1>1. InLog(r)' /\ Content(r)' = Content(r)
  BY LogKept DEF InLog, Content
<1>2. QED
  BY <1>1 DEF Ignored

LEMMA RequestedKept ==
  ASSUME Grows, NEW u, NEW rule, Requested(u, rule)
  PROVE  Requested(u, rule)'
<1>1. PICK l \in DOMAIN ledgers :
        ledgers[l].user = u /\ RuleOf(l, rule) /\ CallsFor(l) # {}
  BY DEF Requested
<1>2. l \in DOMAIN ledgers' /\ ledgers'[l].user = u /\ RuleOf(l, rule)'
  BY <1>1 DEF Grows, RowKept, RuleOf
<1>3. CallsFor(l)' # {}
  BY <1>1 DEF Grows, CallsFor
<1>4. QED
  BY <1>2, <1>3 DEF Requested

LEMMA ServedKept ==
  ASSUME BaseInv, [DeliveryNext]_deliveryVars, NEW r, InLog(r),
         NEW rule, Served(r, rule)
  PROVE  Served(r, rule)'
<1>1. Grows /\ Content(r)' = Content(r)
  BY BaseStep, ContentKept
<1>2. CASE Pays(rule) /\ rule.campaign \in Content(r).joined
  BY <1>1, <1>2, RequestedKept DEF Served
<1>3. CASE ~ (Pays(rule) /\ rule.campaign \in Content(r).joined)
  BY <1>1, <1>3 DEF Served
<1>4. QED
  BY <1>2, <1>3

LEMMA SettledKept ==
  ASSUME [DeliveryNext]_deliveryVars
  PROVE  settled \subseteq settled'
BY DEF DeliveryNext, deliveryVars, Publishing, ProduceCompletion, ProduceResult,
   AppendRecord, Reassign, Crash, Work, Consume, Handle, HandleIgnored, GoOn,
   Return, Fail

LEMMA RewardedKept ==
  ASSUME BaseInv, [DeliveryNext]_deliveryVars, NEW r, InLog(r), Rewarded(r)
  PROVE  Rewarded(r)'
<1>1. PICK a \in settled : a.record = r /\ \A rule \in a.rules : Served(r, rule)
  BY DEF Rewarded
<1>2. \A rule \in a.rules : Served(r, rule)'
  BY <1>1, ServedKept
<1>3. QED
  BY <1>1, <1>2, SettledKept DEF Rewarded

-----------------------------------------------------------------------------
(* Members.                                                                *)

LEMMA OwnJob ==
  ASSUME BaseInv, NEW m \in Members, NEW n \in Members, m # n,
         HandleTaskCompleted(n) \/ HandleRewardResult(n) \/ Abort(n)
  PROVE  UNCHANGED job[m]
<1>1. job \in [Members -> Job]
  BY RewardDeliveryAssumption DEF BaseInv, TypeOK
<1>2. \E j : Becomes(n, j)
  BY DEF HandleTaskCompleted, HandleRewardResult, Abort,
     ReceiveCompletion, ListGroupRules, SkipRule, PickRule, LookupLedger,
     Reread, ExistingLedger, InsertLedger, InsertFails, Distribute,
     DistributeAgain, DistributeRejected, Answered, CallFailed, Settle,
     Finish, ReceiveResult, RecordResult
<1>3. QED
  BY <1>1, <1>2 DEF Becomes

LEMMA OwnLoop ==
  ASSUME BaseInv, NEW m \in Members, NEW n \in Members, m # n,
         Restart(n) \/ Run(n)
  PROVE  UNCHANGED loop[m]
<1>1. loop \in [Members -> Loop]
  BY DEF BaseInv, ConsumerTypeOK
<1>2. UNCHANGED loop \/ \E j : LoopBecomes(n, j)
  BY DEF Restart, Run, PollFetches, PollErrors, EndOfFetch, SkipRecord,
     HandlersSucceed, HandlersFail, CommitRecords, CommitFails
<1>3. QED
  BY <1>1, <1>2 DEF LoopBecomes

(* Only a member itself changes what it is doing.                          *)
LEMMA OneMemberMoves ==
  ASSUME BaseInv, AttemptsTyped, [DeliveryNext]_deliveryVars, NEW m \in Members
  PROVE  \/ UNCHANGED <<job[m], loop[m], attempt[m]>>
         \/ Crash(m) \/ Work(m)
<1> USE RewardDeliveryAssumption
<1>1. CASE UNCHANGED <<job, loop, attempt>>
  BY <1>1
<1>2. CASE Publishing \/ UNCHANGED deliveryVars
  BY <1>1, <1>2 DEF Publishing, ReplaceRules, Join, deliveryVars, vars, consumerVars
<1>3. ASSUME NEW p, NEW e, ProduceCompletion(p, e)
      PROVE  UNCHANGED <<job, loop, attempt>>
  BY <1>3 DEF ProduceCompletion, SendCompletion, AppendRecord, Produce
<1>4. ASSUME NEW p, NEW k, NEW s, NEW v, ProduceResult(p, k, s, v)
      PROVE  UNCHANGED <<job, loop, attempt>>
  BY <1>4 DEF ProduceResult, SendResult, AppendRecord, Produce
<1>5. ASSUME NEW p, NEW n, Reassign(p, n)
      PROVE  UNCHANGED <<job, loop, attempt>>
  BY <1>5 DEF Reassign, Assign, vars
<1>6. ASSUME NEW n \in Members, n # m, Crash(n) \/ Work(n)
      PROVE  UNCHANGED <<job[m], loop[m], attempt[m]>>
  <2>1. UNCHANGED attempt \/ \E a : Tries(n, a)
    BY <1>6 DEF Crash, Work, Consume, Handle, HandleIgnored, GoOn, Return, Fail
  <2>2. UNCHANGED attempt[m]
    BY <1>6, <2>1 DEF Tries, AttemptsTyped
  <2>3. \/ UNCHANGED vars
        \/ HandleTaskCompleted(n) \/ HandleRewardResult(n) \/ Abort(n)
    <3>1. CASE Crash(n) \/ Consume(n)
      BY <3>1 DEF Crash, Consume
    <3>2. ASSUME NEW r \in loop[n].todo, Handle(n, r)
          PROVE  HandleTaskCompleted(n) \/ HandleRewardResult(n)
      <4>1. /\ r.partition \in Completions => Content(r).body \in completions
            /\ r.partition \in Outcomes => Content(r).body \in results
        BY DEF BaseInv, LogInv, InLog, Content
      <4>2. QED
        BY <3>2, <4>1 DEF Handle, HandleTaskCompleted, HandleRewardResult
    <3>3. CASE \E r \in loop[n].todo : HandleIgnored(n, r)
      BY <3>3 DEF HandleIgnored
    <3>4. CASE GoOn(n) \/ Return(n) \/ Fail(n)
      BY <3>4 DEF GoOn, Proceed, Return, ReturnsNil, Fail, ReturnsError,
         HandleTaskCompleted, HandleRewardResult
    <3>5. QED
      BY <1>6, <3>1, <3>2, <3>3, <3>4 DEF Work
  <2>4. UNCHANGED job[m]
    BY <1>6, <2>3, OwnJob DEF vars
  <2>5. UNCHANGED loop \/ Restart(n) \/ Run(n)
    <3>1. CASE Crash(n) \/ Consume(n)
      BY <3>1 DEF Crash, Consume, Run
    <3>2. ASSUME NEW r, HandlersSucceed(n, r) \/ HandlersFail(n, r)
          PROVE  Run(n)
      BY <3>2 DEF HandlersSucceed, HandlersFail, NextRecord, Run
    <3>3. CASE Work(n) /\ ~ Consume(n)
      BY <3>2, <3>3
      DEF Work, Handle, HandleIgnored, GoOn, Return, Fail, consumerVars
    <3>4. QED
      BY <1>6, <3>1, <3>3
  <2>6. UNCHANGED loop[m]
    BY <1>6, <2>5, OwnLoop
  <2>7. QED
    BY <2>2, <2>4, <2>6
<1>7. QED
  BY <1>1, <1>2, <1>3, <1>4, <1>5, <1>6 DEF DeliveryNext

LEMMA AttemptInLog ==
  ASSUME BaseInv, NEW m \in Members, OnRecord(m), job[m].pc # "idle"
  PROVE  attempt[m].record \in loop[m].todo /\ InLog(attempt[m].record)
BY DEF OnRecord, NextRecord, BaseInv, LogInv

(* A handler that goes on goes on with the same event, and is past its     *)
(* second query.                                                           *)
LEMMA GoOnEvent ==
  ASSUME BaseInv, NEW m \in Members, GoOn(m)
  PROVE  /\ job[m].pc \in EventPC /\ job'[m].pc \in EventPC \ {"group_rules"}
         /\ job'[m].event = job[m].event
<1> USE RewardDeliveryAssumption
<1>1. job \in [Members -> Job] /\ job[m] \in Local
  BY DEF BaseInv, TypeOK, Job
<1>2. Proceed(m) /\ job'[m].pc # "idle"
  BY DEF GoOn
<1>3. \A j : Becomes(m, j) => job'[m] = j
  BY <1>1 DEF Becomes
<1>4. CASE ListGroupRules(m)
  BY <1>1, <1>3, <1>4 DEF ListGroupRules, EventPC, Local
<1>5. ASSUME NEW r, SkipRule(m, r) \/ PickRule(m, r)
      PROVE  /\ job[m].pc \in EventPC /\ job'[m].pc \in EventPC \ {"group_rules"}
             /\ job'[m].event = job[m].event
  BY <1>1, <1>3, <1>5 DEF SkipRule, PickRule, EventPC, RulePC, Local
<1>6. CASE LookupLedger(m) \/ Reread(m)
  <2>1. \A l : ExistingLedger(m, l) =>
          job'[m].pc \in {"next", "call"} /\ job'[m].event = job[m].event
    BY <1>1, <1>3 DEF ExistingLedger, Local
  <2>2. CASE LookupLedger(m)
    BY <1>1, <1>3, <2>1, <2>2 DEF LookupLedger, EventPC, RulePC, Local
  <2>3. CASE Reread(m)
    BY <1>1, <1>2, <1>3, <2>1, <2>3 DEF Reread, EventPC, RulePC, Idle
  <2>4. QED
    BY <1>6, <2>2, <2>3
<1>7. CASE InsertLedger(m) \/ InsertFails(m)
  BY <1>1, <1>3, <1>7 DEF InsertLedger, InsertFails, EventPC, RulePC, Local
<1>8. CASE Distribute(m) \/ DistributeAgain(m) \/ DistributeRejected(m)
  BY <1>1, <1>3, <1>8 DEF Distribute, DistributeAgain, DistributeRejected,
     Answered, CallFailed, EventPC, RulePC, Local
<1>9. CASE Settle(m)
  BY <1>1, <1>2, <1>3, <1>9 DEF Settle, EventPC, RulePC, Local, Idle
<1>10. CASE Finish(m) \/ RecordResult(m)
  BY <1>2, <1>3, <1>10 DEF Finish, RecordResult, Idle
<1>11. QED
  BY <1>2, <1>4, <1>5, <1>6, <1>7, <1>8, <1>9, <1>10 DEF Proceed

(* A member whose handler is over.                                         *)
LEMMA AtRest ==
  ASSUME NEW m \in Members, attempt'[m] = NoAttempt, job'[m].pc = "idle"
  PROVE  OnRecord(m)' /\ Progress(m)'
BY DEF OnRecord, Progress, EventPC, RulePC

LEMMA HandlerEnds ==
  ASSUME BaseInv, AttemptsTyped, NEW m \in Members, OnRecord(m),
         Crash(m) \/ Return(m) \/ Fail(m)
  PROVE  attempt'[m] = NoAttempt /\ job'[m].pc = "idle"
<1> USE RewardDeliveryAssumption
<1>1. /\ job \in [Members -> Job] /\ attempt \in [Members -> Attempt]
      /\ \A j : Becomes(m, j) => job'[m] = j
      /\ \A a : Tries(m, a) => attempt'[m] = a
  BY DEF BaseInv, TypeOK, AttemptsTyped, Becomes, Tries
<1>2. attempt'[m] = NoAttempt
  BY <1>1 DEF Crash, Return, Fail
<1>3. Abort(m) \/ Finish(m) \/ RecordResult(m) => job'[m].pc = "idle"
  BY <1>1 DEF Abort, Finish, RecordResult, Idle
<1>4. CASE Crash(m)
  BY <1>2, <1>3, <1>4 DEF Crash, OnRecord, vars
<1>5. CASE Return(m) \/ Fail(m)
  BY <1>2, <1>3, <1>5 DEF Return, ReturnsNil, Fail, ReturnsError
<1>6. QED
  BY <1>2, <1>4, <1>5

(* While a handler runs, its member's loop waits.                          *)
LEMMA ConsumesAtRest ==
  ASSUME BaseInv, NEW m \in Members, OnRecord(m), Consume(m)
  PROVE  job[m].pc = "idle" /\ UNCHANGED <<job, attempt>>
<1>1. loop[m].pc # "each" \/ loop[m].todo = {}
  BY DEF Consume, PollFetches, PollErrors, EndOfFetch, CommitRecords, CommitFails
<1>2. QED
  BY <1>1 DEF OnRecord, NextRecord, Consume, vars

LEMMA OnRecordStep ==
  ASSUME BaseInv, AttemptsTyped, [DeliveryNext]_deliveryVars,
         NEW m \in Members, OnRecord(m)
  PROVE  OnRecord(m)'
<1> USE RewardDeliveryAssumption
<1>1. /\ job \in [Members -> Job] /\ attempt \in [Members -> Attempt]
      /\ \A j : Becomes(m, j) => job'[m] = j
      /\ \A a : Tries(m, a) => attempt'[m] = a
  BY DEF BaseInv, TypeOK, AttemptsTyped, Becomes, Tries
<1>2. /\ \A r : InLog(r) => Content(r)' = Content(r)
      /\ job[m].pc # "idle" => InLog(attempt[m].record)
  BY AttemptInLog, ContentKept
<1>3. CASE UNCHANGED <<job[m], loop[m], attempt[m]>>
  BY <1>2, <1>3 DEF OnRecord, NextRecord, EventPC, RulePC, Content
<1>4. CASE Crash(m) \/ Return(m) \/ Fail(m)
  BY <1>4, HandlerEnds, AtRest
<1>5. CASE Consume(m)
  BY <1>5, ConsumesAtRest, AtRest DEF OnRecord
<1>6. ASSUME NEW r, HandleIgnored(m, r)
      PROVE  OnRecord(m)'
  BY <1>6, AtRest DEF HandleIgnored, OnRecord, vars
<1>7. ASSUME NEW r \in loop[m].todo, Handle(m, r)
      PROVE  OnRecord(m)'
  <2>1. /\ r \in Record /\ InLog(r)
    BY DEF BaseInv, ConsumerTypeOK, LogInv, Loop
  <2>2. attempt'[m] = [record |-> r, rules |-> {}] /\ attempt'[m] # NoAttempt
    BY <1>1, <1>7, <2>1, KafkaConsumerAssumption DEF Handle, NoAttempt, Record
  <2>3. NextRecord(m, r)' /\ Content(r)' = Content(r)
    BY <1>7, <2>1, ContentKept DEF Handle, NextRecord, consumerVars
  <2>4. CASE r.partition \in Completions /\ ReceiveCompletion(m, Content(r).body)
    <3>1. job'[m].pc = "group_rules" /\ job'[m].event = Content(r).body
      BY <1>1, <2>4 DEF ReceiveCompletion, Idle
    <3>2. QED
      BY <2>2, <2>3, <2>4, <3>1 DEF OnRecord, Content
  <2>5. CASE r.partition \in Outcomes /\ ReceiveResult(m, Content(r).body)
    <3>1. job'[m].pc = "record"
      BY <1>1, <2>5 DEF ReceiveResult, Idle
    <3>2. QED
      BY <2>2, <2>3, <2>5, <3>1 DEF OnRecord, EventPC, RulePC
  <2>6. QED
    BY <1>7, <2>4, <2>5 DEF Handle
<1>8. CASE GoOn(m)
  <2>1. /\ job[m].pc \in EventPC /\ job'[m].pc \in EventPC
        /\ job'[m].event = job[m].event
    BY <1>8, GoOnEvent
  <2>2. job[m].pc # "idle" /\ job'[m].pc \notin {"idle", "record"}
    BY <2>1 DEF EventPC, RulePC
  <2>3. attempt'[m].record = attempt[m].record
    BY <1>1, <1>8 DEF GoOn, Attempt
  <2>4. attempt[m].record # NoRecord
    BY <2>2, AttemptInLog, KafkaConsumerAssumption
    DEF BaseInv, ConsumerTypeOK, Loop, Record
  <2>5. attempt'[m] # NoAttempt
    BY <2>3, <2>4 DEF NoAttempt
  <2>6. NextRecord(m, attempt[m].record)'
    BY <1>8, <2>2, <2>3 DEF OnRecord, NextRecord, GoOn, consumerVars
  <2>7. QED
    BY <1>2, <2>1, <2>2, <2>3, <2>5, <2>6 DEF OnRecord, Content
<1>9. QED
  BY <1>3, <1>4, <1>5, <1>6, <1>7, <1>8, OneMemberMoves DEF Work

(* A row with a voucher was requested, and so is one just answered.        *)
LEMMA FoundRequested ==
  ASSUME FollowInv, NEW m \in Members, NEW l \in Found(m),
         ledgers[l].voucher # NoVoucher
  PROVE  Requested(job[m].event.user, job[m].rule)
<1>1. /\ l \in DOMAIN ledgers /\ ledgers[l].user = job[m].event.user
      /\ RuleOf(l, job[m].rule)
  BY DEF Found, RuleOf
<1>2. ledgers[l].voucher \in CallsFor(l)
  BY <1>1 DEF FollowInv, RowsFollow, Issued, CallsFor
<1>3. QED
  BY <1>1, <1>2 DEF Requested

LEMMA CallRequests ==
  ASSUME JustifiedInv, NEW m \in Workers, Distribute(m) \/ DistributeAgain(m)
  PROVE  /\ job'[m].pc = "settle" /\ job'[m].todo = job[m].todo
         /\ job'[m].event = job[m].event /\ job'[m].rule = job[m].rule
         /\ Requested(job[m].event.user, job[m].rule)'
<1>1. /\ job \in [Workers -> Job] /\ job[m] \in Local /\ calls \in Seq(CallType)
      /\ job[m].pc = "call" /\ LedgerChosen(m)
  BY JobTyped
  DEF JustifiedInv, TypeOK, Job, WorkerInv, Distribute, DistributeAgain
<1>2. /\ job'[m].pc = "settle" /\ job'[m].todo = job[m].todo
      /\ job'[m].event = job[m].event /\ job'[m].rule = job[m].rule
  <2>1. CallFailed(m) \/ \E v : Answered(m, v)
    BY DEF Distribute, DistributeAgain
  <2>2. CASE CallFailed(m)
    BY <1>1, <2>2 DEF CallFailed, Becomes, Local
  <2>3. ASSUME NEW v, Answered(m, v)
        PROVE  /\ job'[m].pc = "settle" /\ job'[m].todo = job[m].todo
               /\ job'[m].event = job[m].event /\ job'[m].rule = job[m].rule
    BY <1>1, <2>3 DEF Answered, Becomes, Local
  <2>4. QED
    BY <2>1, <2>2, <2>3
<1>3. PICK l : l = job[m].led
  OBVIOUS
<1>4. \E k \in DOMAIN calls' : calls'[k].ledger = l
  <2>1. CASE Distribute(m)
    <3>1. calls' = Append(calls, NewCall(m)) /\ NewCall(m) \in CallType
      BY <1>1, <2>1, HandlerTyped DEF Distribute, RulePC, JustifiedInv
    <3>2. /\ Len(calls) + 1 \in DOMAIN calls'
          /\ calls'[Len(calls) + 1] = NewCall(m)
      BY <1>1, <3>1, AppendProperties
    <3>3. QED
      BY <1>3, <3>2 DEF NewCall, ClientRef
  <2>2. CASE DistributeAgain(m)
    BY <1>3, <2>2 DEF DistributeAgain, CallsFor, ClientRef
  <2>3. QED
    BY <2>1, <2>2
<1>5. CallsFor(l)' # {}
  BY <1>4 DEF CallsFor
<1>6. /\ l \in DOMAIN ledgers' /\ ledgers'[l].user = job'[m].event.user
      /\ RuleOf(l, job[m].rule)'
  BY <1>1, <1>2, <1>3
  DEF LedgerChosen, RuleOf, Distribute, DistributeAgain
<1>7. QED
  BY <1>2, <1>5, <1>6 DEF Requested

LEMMA GoOnProgress ==
  ASSUME BaseInv, AttemptsTyped, JustifiedInv, FollowInv,
         [DeliveryNext]_deliveryVars,
         NEW m \in Members, OnRecord(m), Progress(m), GoOn(m)
  PROVE  Progress(m)'
<1> USE RewardDeliveryAssumption
<1>1. /\ job \in [Members -> Job] /\ job[m] \in Local
      /\ attempt \in [Members -> Attempt]
      /\ \A j : Becomes(m, j) => job'[m] = j
      /\ \A a : Tries(m, a) => attempt'[m] = a
  BY DEF BaseInv, TypeOK, Job, AttemptsTyped, Becomes, Tries
<1>2. PICK r0 : r0 = attempt[m].record
  OBVIOUS
<1>3. /\ job[m].pc \in EventPC /\ job'[m].pc \in EventPC \ {"group_rules"}
      /\ job[m].pc # "idle" /\ job'[m].pc # "idle"
  BY GoOnEvent DEF EventPC, RulePC
<1>4. /\ r0.partition \in Completions /\ InLog(r0)
      /\ job[m].event = Content(r0).body
  BY <1>2, <1>3, AttemptInLog DEF OnRecord
<1>5. \A rule : Served(r0, rule) => Served(r0, rule)'
  BY <1>4, ServedKept
<1>6. /\ attempt'[m].record = r0
      /\ job[m].pc = "group_rules" => attempt'[m].rules = job'[m].todo
      /\ job[m].pc # "group_rules" => attempt'[m].rules = attempt[m].rules
  BY <1>1, <1>2 DEF GoOn, Attempt
<1>7. CASE ListGroupRules(m)
  <2>1. job[m].pc = "group_rules" /\ job'[m].pc = "next"
    BY <1>1, <1>7 DEF ListGroupRules, Local
  <2>2. QED
    BY <1>6, <2>1 DEF Progress
(* What a step must do with the rules that are not served yet.             *)
<1>8. ASSUME job[m].pc # "group_rules",
             \A rule : rule \in job[m].todo => \/ rule \in job'[m].todo
                                               \/ job'[m].pc # "next" /\ rule = job'[m].rule
                                               \/ Served(r0, rule)',
             job[m].pc # "next" =>
               \/ job'[m].pc # "next" /\ job'[m].rule = job[m].rule
               \/ Served(r0, job[m].rule),
             job'[m].pc = "settle" /\ job'[m].status = "distributing" =>
               Requested(job[m].event.user, job[m].rule)'
      PROVE  Progress(m)'
  <2>1. ASSUME NEW rule \in attempt[m].rules
        PROVE  \/ rule \in job[m].todo
               \/ job[m].pc # "next" /\ rule = job[m].rule
               \/ Served(r0, rule)
    BY <1>2, <1>3, <1>8 DEF Progress
  <2>2. \A rule \in attempt'[m].rules :
          \/ rule \in job'[m].todo
          \/ job'[m].pc # "next" /\ rule = job'[m].rule
          \/ Served(r0, rule)'
    BY <1>5, <1>6, <1>8, <2>1
  <2>3. QED
    BY <1>6, <1>8, <2>2 DEF Progress, Served, Content
<1>9. ASSUME Requested(job[m].event.user, job[m].rule)
      PROVE  Served(r0, job[m].rule)
  BY <1>4, <1>9 DEF Served
<1>10. ASSUME NEW r \in job[m].todo, SkipRule(m, r)
       PROVE  Progress(m)'
  <2>1. /\ job[m].pc = "next" /\ job'[m].pc = "next"
        /\ job'[m].todo = job[m].todo \ {r}
    BY <1>1, <1>10 DEF SkipRule, Local
  <2>2. ~ (Pays(r) /\ r.campaign \in Content(r0).joined)
    BY <1>4, <1>10 DEF SkipRule, BaseInv, LogInv, InLog, Content
  <2>3. Served(r0, r)'
    BY <1>5, <2>2 DEF Served
  <2>4. QED
    BY <1>8, <2>1, <2>3
<1>11. ASSUME NEW r \in job[m].todo, PickRule(m, r)
       PROVE  Progress(m)'
  <2>1. /\ job[m].pc = "next" /\ job'[m].pc = "ledger" /\ job'[m].rule = r
        /\ job'[m].todo = job[m].todo \ {r}
    BY <1>1, <1>11 DEF PickRule, Local
  <2>2. QED
    BY <1>8, <2>1
<1>12. ASSUME NEW l \in Found(m), ExistingLedger(m, l), job[m].pc \in {"ledger", "reread"}
       PROVE  Progress(m)'
  <2>1. CASE ledgers[l].voucher # NoVoucher
    <3>1. job'[m].pc = "next" /\ job'[m].todo = job[m].todo
      BY <1>1, <1>12, <2>1 DEF ExistingLedger, Local
    <3>2. Served(r0, job[m].rule)
      BY <1>9, <2>1, FoundRequested
    <3>3. QED
      BY <1>8, <1>12, <3>1, <3>2
  <2>2. CASE ledgers[l].voucher = NoVoucher
    <3>1. /\ job'[m].pc = "call" /\ job'[m].todo = job[m].todo
          /\ job'[m].rule = job[m].rule
      BY <1>1, <1>12, <2>2 DEF ExistingLedger, Local
    <3>2. QED
      BY <1>8, <1>12, <3>1
  <2>3. QED
    BY <2>1, <2>2
<1>13. CASE LookupLedger(m)
  <2>1. CASE Becomes(m, [job[m] EXCEPT !.pc = "insert"])
    <3>1. /\ job'[m].pc = "insert" /\ job'[m].todo = job[m].todo
          /\ job'[m].rule = job[m].rule /\ job[m].pc = "ledger"
      BY <1>1, <1>13, <2>1 DEF LookupLedger, Local
    <3>2. QED
      BY <1>8, <3>1
  <2>2. QED
    BY <1>12, <1>13, <2>1 DEF LookupLedger
<1>14. CASE Reread(m)
  <2>1. ~ Becomes(m, Idle)
    BY <1>1, <1>3 DEF Idle
  <2>2. QED
    BY <1>12, <1>14, <2>1 DEF Reread
<1>15. CASE InsertLedger(m) \/ InsertFails(m)
  <2>1. /\ job'[m].pc \in {"call", "reread"} /\ job'[m].todo = job[m].todo
        /\ job'[m].rule = job[m].rule /\ job[m].pc = "insert"
    BY <1>1, <1>15 DEF InsertLedger, InsertFails, Local
  <2>2. QED
    BY <1>8, <2>1
<1>16. CASE Distribute(m) \/ DistributeAgain(m)
  <2>1. job[m].pc = "call"
    BY <1>16 DEF Distribute, DistributeAgain
  <2>2. QED
    BY <1>8, <1>16, <2>1, CallRequests
<1>17. CASE DistributeRejected(m)
  <2>1. /\ job'[m].pc = "settle" /\ job'[m].todo = job[m].todo
        /\ job'[m].rule = job[m].rule /\ job[m].pc = "call"
        /\ job'[m].status = "distribute_fail"
    BY <1>1, <1>17 DEF DistributeRejected, CallFailed, Local
  <2>2. QED
    BY <1>8, <2>1
<1>18. CASE Settle(m)
  <2>1. /\ job[m].pc = "settle" /\ job[m].status = "distributing"
        /\ job'[m].pc = "next" /\ job'[m].todo = job[m].todo
    BY <1>1, <1>3, <1>18 DEF Settle, Idle, Local
  <2>2. Served(r0, job[m].rule)
    BY <1>9, <2>1 DEF Progress
  <2>3. QED
    BY <1>8, <2>1, <2>2
<1>19. CASE Finish(m) \/ RecordResult(m)
  BY <1>1, <1>3, <1>19 DEF Finish, RecordResult, Idle
<1>20. QED
  BY <1>7, <1>10, <1>11, <1>13, <1>14, <1>15, <1>16, <1>17, <1>18, <1>19
  DEF GoOn, Proceed

LEMMA ProgressStep ==
  ASSUME BaseInv, AttemptsTyped, JustifiedInv, FollowInv,
         [DeliveryNext]_deliveryVars,
         NEW m \in Members, OnRecord(m), Progress(m)
  PROVE  Progress(m)'
<1>1. CASE UNCHANGED <<job[m], loop[m], attempt[m]>>
  <2>1. PICK r0 : r0 = attempt[m].record
    OBVIOUS
  <2>2. Grows
    BY BaseStep
  <2>3. PICK u, q : u = job[m].event.user /\ q = job[m].rule
    OBVIOUS
  <2>4. Requested(u, q) => Requested(u, q)'
    BY <2>2, RequestedKept
  <2>5. job[m].pc # "idle" => \A rule : Served(r0, rule) => Served(r0, rule)'
    BY <2>1, AttemptInLog, ServedKept
  <2>6. "idle" \notin EventPC
    BY DEF EventPC, RulePC
  <2>7. QED
    BY <1>1, <2>1, <2>3, <2>4, <2>5, <2>6
    DEF Progress, Served, Content, Requested
<1>2. CASE Crash(m) \/ Return(m) \/ Fail(m)
  BY <1>2, HandlerEnds, AtRest
<1>3. CASE Consume(m)
  BY <1>3, ConsumesAtRest, AtRest DEF OnRecord
<1>4. ASSUME NEW r, HandleIgnored(m, r)
      PROVE  Progress(m)'
  BY <1>4, AtRest DEF HandleIgnored, OnRecord, vars
<1>5. ASSUME NEW r, Handle(m, r)
      PROVE  Progress(m)'
  <2>1. job \in [Workers -> Job] /\ m \in Workers
    BY RewardDeliveryAssumption DEF BaseInv, TypeOK
  <2>2. job'[m].pc \in {"group_rules", "record"}
    BY <1>5, <2>1 DEF Handle, ReceiveCompletion, ReceiveResult, Becomes, Idle
  <2>3. QED
    BY <2>2 DEF Progress, EventPC, RulePC
<1>6. CASE GoOn(m)
  BY <1>6, GoOnProgress
<1>7. QED
  BY <1>1, <1>2, <1>3, <1>4, <1>5, <1>6, OneMemberMoves DEF Work

-----------------------------------------------------------------------------
(* Records.                                                                *)

(* Of a completion that was handled, all is served.                        *)
LEMMA ReturnRewards ==
  ASSUME BaseInv, AttemptsTyped, [DeliveryNext]_deliveryVars,
         NEW m \in Members, OnRecord(m), Progress(m), Return(m),
         NEW r, r = attempt[m].record, r.partition \in Completions
  PROVE  Rewarded(r)'
<1> USE RewardDeliveryAssumption
<1>1. PICK a : a = attempt[m]
  OBVIOUS
<1>2. job[m].pc # "idle" /\ ~ RecordResult(m)
  BY DEF OnRecord, RecordResult, Return, ReturnsNil, Finish
<1>3. job[m].pc = "next" /\ job[m].todo = {}
  BY <1>2 DEF Return, ReturnsNil, Finish
<1>4. \A rule \in a.rules : Served(a.record, rule)
  BY <1>1, <1>3 DEF Progress, EventPC
<1>5. InLog(a.record)
  BY <1>1, <1>2, AttemptInLog
<1>6. \A rule \in a.rules : Served(a.record, rule)'
  BY <1>4, <1>5, ServedKept
<1>7. a \in settled' /\ a.record = r
  BY <1>1 DEF Return
<1>8. QED
  BY <1>6, <1>7 DEF Rewarded

LEMMA HandledStep ==
  ASSUME BaseInv, AttemptsTyped, [DeliveryNext]_deliveryVars, HandledInv,
         \A m \in Members : OnRecord(m) /\ Progress(m)
  PROVE  HandledInv'
<1>1. \A r \in handled : /\ InLog(r)'
                         /\ r.partition \in Completions => Ignored(r)' \/ Rewarded(r)'
  BY ContentKept, RewardedKept DEF HandledInv
<1>2. ASSUME NEW m \in Members, NEW r, HandleIgnored(m, r)
      PROVE  HandledInv'
  <2>1. InLog(r) /\ Ignored(r) /\ handled' = handled \cup {r}
    BY <1>2 DEF HandleIgnored, HandlersSucceed, NextRecord, BaseInv, LogInv
  <2>2. InLog(r)' /\ Ignored(r)'
    BY <2>1, ContentKept
  <2>3. QED
    BY <1>1, <2>1, <2>2 DEF HandledInv
<1>3. ASSUME NEW m \in Members, Return(m)
      PROVE  HandledInv'
  <2>1. PICK r : r = attempt[m].record
    OBVIOUS
  <2>2. handled' = handled \cup {r} /\ InLog(r)
    BY <1>3, <2>1 DEF Return, HandlersSucceed, NextRecord, BaseInv, LogInv
  <2>3. r.partition \in Completions => Rewarded(r)'
    BY <1>3, <2>1, ReturnRewards
  <2>4. InLog(r)'
    BY <2>2, ContentKept
  <2>5. QED
    BY <1>1, <2>2, <2>3, <2>4 DEF HandledInv
<1>4. CASE UNCHANGED handled
  BY <1>1, <1>4 DEF HandledInv
<1>5. CASE Publishing \/ UNCHANGED deliveryVars
  BY <1>4, <1>5 DEF Publishing, deliveryVars, consumerVars
<1>6. ASSUME NEW p, NEW b, NEW j, NEW o, AppendRecord(p, b, j, o)
      PROVE  HandledInv'
  BY <1>4, <1>6 DEF AppendRecord, Produce, History
<1>7. ASSUME NEW p, NEW m, Reassign(p, m) \/ Crash(m)
      PROVE  HandledInv'
  BY <1>4, <1>7 DEF Reassign, Assign, Crash, Restart, History
<1>8. ASSUME NEW m \in Members, Consume(m) \/ GoOn(m) \/ Fail(m) \/ \E r : Handle(m, r)
      PROVE  HandledInv'
  BY <1>4, <1>8 DEF Consume, PollFetches, PollErrors, EndOfFetch, CommitRecords,
     CommitFails, GoOn, Fail, HandlersFail, Handle, consumerVars, History
<1>9. QED
  BY <1>2, <1>3, <1>5, <1>6, <1>7, <1>8
  DEF DeliveryNext, Work, ProduceCompletion, ProduceResult

LEMMA DeliveryInvInit == DeliveryInit => DeliveryInv
<1> SUFFICES ASSUME DeliveryInit PROVE DeliveryInv
  OBVIOUS
<1>1. \A m \in Members : attempt[m] = NoAttempt /\ job[m].pc = "idle"
  BY RewardDeliveryAssumption DEF DeliveryInit, Init, Idle
<1>2. \A m \in Members : OnRecord(m) /\ Progress(m)
  BY <1>1 DEF OnRecord, Progress, EventPC, RulePC
<1>3. QED
  BY <1>2 DEF DeliveryInv, HandledInv, DeliveryInit, ConsumerInit

(* Whatever fails, restarts, moves or is published, the group's offset     *)
(* passes a completion only if it was ignored or rewarded, or if an error  *)
(* was logged and a later record of its partition was handled.             *)
THEOREM OffsetMeansRewarded == DeliverySpec => []RewardedBehindOffset
<1>1. DeliveryInit => AttemptsTyped
  BY DEF DeliveryInit, AttemptsTyped, NoAttempt, Attempt
<1>2. /\ AttemptsTyped /\ BaseInv /\ BaseInv' /\ [DeliveryNext]_deliveryVars
      => AttemptsTyped'
  BY AttemptTyped
<1>3. /\ DeliveryInv /\ BaseInv /\ AttemptsTyped /\ JustifiedInv /\ FollowInv
      /\ [DeliveryNext]_deliveryVars
      => DeliveryInv'
  BY OnRecordStep, ProgressStep, HandledStep DEF DeliveryInv
<1>4. Spec => []JustifiedInv /\ []FollowInv
  <2>1. JustifiedInv /\ [Next]_vars => JustifiedInv'
    BY JustifiedStep
  <2>2. QED
    BY JustifiedInit, <2>1, FollowInit, FollowStep, PTL DEF Spec
<1>5. NothingSkipped /\ CommitFollowsSuccess /\ DeliveryInv
        => RewardedBehindOffset
  <2> SUFFICES ASSUME NothingSkipped, CommitFollowsSuccess, HandledInv,
                      NEW p \in Completions, NEW o \in 0 .. committed[p] - 1
               PROVE  LET r == [partition |-> p, offset |-> o] IN
                      \/ Ignored(r) \/ Rewarded(r)
                      \/ /\ r \in failed \cup passed
                         /\ \E q \in handled : q.partition = p /\ q.offset > o
    BY DEF RewardedBehindOffset, DeliveryInv
  <2> DEFINE r == [partition |-> p, offset |-> o]
  <2>1. p \in Partitions /\ r.partition = p
    BY RewardDeliveryAssumption
  <2>2. CASE r \in handled
    BY <2>1, <2>2 DEF HandledInv
  <2>3. CASE r \notin handled
    <3>1. r \in failed \cup passed
      BY <2>1, <2>3 DEF NothingSkipped, Seen
    <3>2. \E q \in handled : q.partition = p /\ q.offset > o
      BY <2>1, <2>3 DEF CommitFollowsSuccess
    <3>3. QED
      BY <3>1, <3>2
  <2>4. QED
    BY <2>2, <2>3
<1>6. QED
  BY <1>1, <1>2, <1>3, <1>4, <1>5, DeliveryInvInit, BaseCorrect,
     HandlesAsLedger, ConsumesAsConsumer, NoRecordSkipped,
     OffsetFollowsSuccess, PTL DEF DeliverySpec
=============================================================================
