--------------------------- MODULE RewardDelivery ---------------------------
(***************************************************************************)
(* From the records of the two topics to the rewards: the consumer group   *)
(* of KafkaConsumer whose handlers are those of RewardLedger.  A member    *)
(* polls, runs the handler of one record statement by statement, and       *)
(* commits the record if the handler returned without error (kafka/        *)
(* listener/consumer.go and handlers.go).  RewardLedger's worker is the    *)
(* member's goroutine inside a handler, described by job, and the loop     *)
(* around it is described by loop.                                         *)
(***************************************************************************)
EXTENDS RewardLedger, KafkaConsumer

CONSTANTS
  Completions,  \* partitions of task.events.completed
  Outcomes      \* partitions of reward.distribution.result

ASSUME RewardDeliveryAssumption ==
  /\ Members = Workers
  /\ Partitions = Completions \cup Outcomes /\ Completions \cap Outcomes = {}
  /\ Registered = Partitions
  /\ Faults \cap {"insert", "lost", "reject"} # {} => "handler" \in LoopFaults

VARIABLES
  log,      \* the records in each partition
  attempt,  \* the record a member's handler works on, and the rules it found
  settled   \* history: the attempts that returned without error

deliveryVars == <<vars, consumerVars, log, attempt, settled>>

(* A record knows, beside its content, which campaigns the user had joined *)
(* when it was sent, and which then offered a reward for the completion.   *)
Entry == [body : Events \cup ResultType,
          joined : SUBSET Campaigns, offers : SUBSET Campaigns]

Content(r) == log[r.partition][r.offset + 1]

Attempt == [record : Record \cup {NoRecord}, rules : SUBSET RuleRow]
NoAttempt == [record |-> NoRecord, rules |-> {}]

DeliveryInit ==
  /\ Init /\ ConsumerInit
  /\ log = [p \in Partitions |-> << >>]
  /\ attempt = [m \in Members |-> NoAttempt]
  /\ settled = {}

Tries(m, a) == attempt' = [attempt EXCEPT ![m] = a]

-----------------------------------------------------------------------------
(* The other services and Kafka.                                           *)

AppendRecord(p, body, joined, offers) ==
  /\ Produce(p)
  /\ log' = [log EXCEPT ![p] =
       Append(@, [body |-> body, joined |-> joined, offers |-> offers])]
  /\ UNCHANGED <<attempt, settled>>

ProduceCompletion(p, e) ==
  /\ SendCompletion(e)
  /\ AppendRecord(p, e, {c \in Campaigns : <<c, e.user>> \in participants},
                  {r.campaign : r \in {q \in rules : Pays(q) /\ Earns(e, q)}})

ProduceResult(p, k, s, v) ==
  /\ SendResult(k, s, v)
  /\ AppendRecord(p, [ref |-> calls[k].ledger, status |-> s, voucher |-> v], {}, {})

Reassign(p, m) ==
  /\ Assign(p, m)
  /\ UNCHANGED <<vars, log, attempt, settled>>

(* The process ends, in the middle of a handler or not, and starts again.  *)
Crash(m) ==
  /\ Restart(m)
  /\ \/ attempt[m] = NoAttempt /\ UNCHANGED vars
     \/ Abort(m)
  /\ Tries(m, NoAttempt)
  /\ UNCHANGED <<log, settled>>

-----------------------------------------------------------------------------
(* The consumer's loop, as far as no handler runs.                         *)
Consume(m) ==
  /\ \/ PollFetches(m) \/ PollErrors(m) \/ EndOfFetch(m)
     \/ CommitRecords(m) \/ CommitFails(m)
  /\ UNCHANGED <<vars, log, attempt, settled>>

(* handleRecord calls the handler of the record's topic.                   *)
Handle(m, r) ==
  /\ attempt[m] = NoAttempt /\ NextRecord(m, r)
  /\ \/ r.partition \in Completions /\ ReceiveCompletion(m, Content(r).body)
     \/ r.partition \in Outcomes /\ ReceiveResult(m, Content(r).body)
  /\ Tries(m, [record |-> r, rules |-> {}])
  /\ UNCHANGED <<consumerVars, log, settled>>

(* A completion of another status: its handler returns at once.            *)
Ignored(r) ==
  r.partition \in Completions /\ Content(r).body.status # "completed"

HandleIgnored(m, r) ==
  /\ attempt[m] = NoAttempt /\ Ignored(r)
  /\ HandlersSucceed(m, r)
  /\ UNCHANGED <<vars, log, attempt, settled>>

(* The handler goes on, and has found its rules after the second query.    *)
GoOn(m) ==
  /\ Proceed(m) /\ job'[m].pc # "idle"
  /\ Tries(m, IF job[m].pc = "group_rules"
              THEN [attempt[m] EXCEPT !.rules = job'[m].todo]
              ELSE attempt[m])
  /\ UNCHANGED <<consumerVars, log, settled>>

(* Mutant of ReturnsNil: a failed distribution is not reported.            *)
ReturnsAnyway(m) ==
  \/ Finish(m) \/ RecordResult(m)
  \/ Settle(m) /\ job'[m].pc = "idle"

ReturnsNil(m) == Finish(m) \/ RecordResult(m)

Return(m) ==
  /\ ReturnsNil(m)
  /\ HandlersSucceed(m, attempt[m].record)
  /\ settled' = settled \cup {attempt[m]}
  /\ Tries(m, NoAttempt)
  /\ UNCHANGED log

(* A refused or unanswered request, a failed INSERT whose row is not found *)
(* either, or a database error at any statement.                           *)
ReturnsError(m) ==
  \/ (Settle(m) \/ Reread(m)) /\ job'[m].pc = "idle"
  \/ Abort(m)

Fail(m) ==
  /\ ReturnsError(m)
  /\ HandlersFail(m, attempt[m].record)
  /\ Tries(m, NoAttempt)
  /\ UNCHANGED <<log, settled>>

-----------------------------------------------------------------------------
Work(m) ==
  \/ Consume(m)
  \/ \E r \in loop[m].todo : Handle(m, r) \/ HandleIgnored(m, r)
  \/ GoOn(m) \/ Return(m) \/ Fail(m)

(* Publishing and joining go on as in RewardLedger.                        *)
Publishing ==
  /\ \/ \E c \in Campaigns, list \in RuleLists : ReplaceRules(c, list)
     \/ \E c \in Campaigns, u \in Users : Join(c, u)
  /\ UNCHANGED <<consumerVars, log, attempt, settled>>

DeliveryNext ==
  \/ Publishing
  \/ \E p \in Completions, e \in Events : ProduceCompletion(p, e)
  \/ \E p \in Outcomes, k \in DOMAIN calls, s \in ResultStatus :
       ProduceResult(p, k, s, k) \/ ProduceResult(p, k, s, NoVoucher)
  \/ \E p \in Partitions, m \in Members : Reassign(p, m)
  \/ \E m \in Members : Crash(m) \/ Work(m)

DeliverySpec == DeliveryInit /\ [][DeliveryNext]_deliveryVars

(* The loop never rests, and its handlers return.                          *)
FairDelivery ==
  DeliverySpec /\ \A m \in Members : WF_deliveryVars(Work(m))

-----------------------------------------------------------------------------
(* Correctness.                                                            *)

(* Every variable keeps its type.                                          *)
DeliveryTypeOK ==
  /\ TypeOK /\ ConsumerTypeOK
  /\ log \in [Partitions -> Seq(Entry)]
  /\ attempt \in [Members -> Attempt]
  /\ settled \subseteq Attempt

Requested(u, r) ==
  \E l \in DOMAIN ledgers :
    ledgers[l].user = u /\ RuleOf(l, r) /\ CallsFor(l) # {}

(* If the rule pays and the user had joined its campaign when the task was *)
(* reported, the reward service has accepted a request.                    *)
Served(r, rule) ==
  Pays(rule) /\ rule.campaign \in Content(r).joined =>
    Requested(Content(r).body.user, rule)

(* Some attempt at the record returned without error, and every rule that  *)
(* it found is served.                                                     *)
Rewarded(r) ==
  \E a \in settled : a.record = r /\ \A rule \in a.rules : Served(r, rule)

(* What the group's offset says about rewards: every completion behind it  *)
(* was ignored or is rewarded, or an error was logged and a later record   *)
(* of its partition was handled.                                           *)
RewardedBehindOffset ==
  \A p \in Completions : \A o \in 0 .. committed[p] - 1 :
    LET r == [partition |-> p, offset |-> o] IN
    \/ Ignored(r) \/ Rewarded(r)
    \/ /\ r \in failed \cup passed
       /\ \E q \in handled : q.partition = p /\ q.offset > o

(* A completion reported after the user had joined is rewarded in each     *)
(* campaign that offered it, although members die in the middle of         *)
(* handling it, partitions move and commits fail, unless its handler       *)
(* returned an error or the poll that fetched it reported one.             *)
RewardComes ==
  \A p \in Completions, c \in Campaigns : \A o \in 1 .. MaxRecords[p] :
    /\ o <= Len(log[p]) /\ c \in log[p][o].joined \cap log[p][o].offers
    ~> \/ [partition |-> p, offset |-> o - 1] \in failed \cup passed
       \/ \E l \in DOMAIN ledgers :
            /\ o <= Len(log[p]) /\ ledgers[l].user = log[p][o].body.user
            /\ ledgers[l].campaign = c /\ CallsFor(l) # {}
=============================================================================
