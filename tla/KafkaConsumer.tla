--------------------------- MODULE KafkaConsumer ---------------------------
(***************************************************************************)
(* The consumer loop of kafka/listener/consumer.go, run by every instance  *)
(* of the service in one consumer group.  A member is one instance: a      *)
(* goroutine that polls, handles the polled records one after the other    *)
(* and commits each one after its handlers succeeded.                      *)
(*                                                                         *)
(* The broker and the group protocol (franz-go) are modelled from how the  *)
(* loop uses them: a poll advances the client's position whatever happens  *)
(* to the records afterwards, a commit overwrites the group's offset, and  *)
(* a partition that changes hands is read again from that offset.          *)
(***************************************************************************)
EXTENDS Integers

CONSTANTS
  Members, Partitions,
  Registered,  \* partitions of topics that have a handler
  LoopFaults,  \* see LoopFaultKinds
  MaxRecords,  \* bound: how many records each partition gets
  MaxMoves,    \* bound: reassignments and restarts
  NoRecord     \* no record to commit

(* "handler": a handler returns an error; "fetch": a poll reports one;     *)
(* "commit": a commit is refused.                                          *)
LoopFaultKinds == {"handler", "fetch", "commit"}

ASSUME KafkaConsumerAssumption ==
  /\ Registered \subseteq Partitions
  /\ LoopFaults \subseteq LoopFaultKinds
  /\ MaxRecords \in [Partitions -> Nat] /\ MaxMoves \in Nat
  /\ NoRecord \notin [partition : Partitions, offset : Nat]

VARIABLES
  end,       \* records in each partition
  committed, \* the group's offset in each partition
  owner,     \* the member a partition is assigned to
  position,  \* where its owner will fetch next
  loop,      \* what each member is doing
  moves,     \* counts reassignments and restarts, for the bound
  handled, failed, passed  \* history: what became of a record, see Seen

consumerVars == <<end, committed, owner, position, loop, moves,
                  handled, failed, passed>>

Record == [partition : Partitions, offset : Nat]

LoopPC == {"poll", "each", "commit"}

(* todo is the rest of what was polled, rec the record to be committed.    *)
Loop == {j \in [pc : LoopPC, todo : SUBSET Record,
                 rec : Record \cup {NoRecord}] :
           j.pc = "commit" => j.rec \in Record}

AtPoll == [pc |-> "poll", todo |-> {}, rec |-> NoRecord]

(* The group has been formed and nothing has been produced.                *)
ConsumerInit ==
  /\ end = [p \in Partitions |-> 0]
  /\ committed = [p \in Partitions |-> 0]
  /\ owner \in [Partitions -> Members]
  /\ position = [p \in Partitions |-> 0]
  /\ loop = [m \in Members |-> AtPoll]
  /\ moves = 0
  /\ handled = {} /\ failed = {} /\ passed = {}

LoopBecomes(m, j) == loop' = [loop EXCEPT ![m] = j]

History == <<handled, failed, passed>>
Group == <<owner, position, moves>>

-----------------------------------------------------------------------------
(* Kafka.                                                                  *)

Produce(p) ==
  /\ end[p] < MaxRecords[p]
  /\ end' = [end EXCEPT ![p] = end[p] + 1]
  /\ UNCHANGED <<committed, Group, loop, History>>

(* The group coordinator gives p to m.  A former owner is not interrupted: *)
(* it keeps the records it has polled.                                     *)
Assign(p, m) ==
  /\ owner[p] # m /\ moves < MaxMoves
  /\ owner' = [owner EXCEPT ![p] = m]
  /\ position' = [position EXCEPT ![p] = committed[p]]
  /\ moves' = moves + 1
  /\ UNCHANGED <<end, committed, loop, History>>

(* The process ends, at any point, and starts again.                       *)
Restart(m) ==
  /\ moves < MaxMoves
  /\ LoopBecomes(m, AtPoll)
  /\ position' = [p \in Partitions |->
                    IF owner[p] = m THEN committed[p] ELSE position[p]]
  /\ moves' = moves + 1
  /\ UNCHANGED <<end, committed, owner, History>>

-----------------------------------------------------------------------------
(* run.                                                                    *)

(* What m may be given: of each of its partitions, a segment that starts   *)
(* at the position.                                                        *)
Fetch(m, upto) ==
  /\ \A p \in Partitions :
       /\ position[p] <= upto[p] /\ upto[p] <= end[p]
       /\ owner[p] # m => upto[p] = position[p]
  /\ upto # position
  /\ position' = upto

Fetched(upto) ==
  UNION {{[partition |-> p, offset |-> o] : o \in position[p] .. upto[p] - 1} :
         p \in Partitions}

Upto == [Partitions -> UNION {0 .. end[p] : p \in Partitions}]

PollFetches(m) ==
  /\ loop[m].pc = "poll"
  /\ \E upto \in Upto :
       /\ Fetch(m, upto)
       /\ LoopBecomes(m, [AtPoll EXCEPT !.pc = "each", !.todo = Fetched(upto)])
  /\ UNCHANGED <<end, committed, owner, moves, History>>

(* When any fetch of a poll has an error, the loop goes on to the next     *)
(* poll: the records that came with it are dropped.                        *)
PollErrors(m) ==
  /\ loop[m].pc = "poll" /\ "fetch" \in LoopFaults
  /\ \E upto \in Upto : Fetch(m, upto) /\ passed' = passed \cup Fetched(upto)
  /\ UNCHANGED <<end, committed, owner, moves, loop, handled, failed>>

EndOfFetch(m) ==
  /\ loop[m].pc = "each" /\ loop[m].todo = {}
  /\ LoopBecomes(m, AtPoll)
  /\ UNCHANGED <<end, committed, Group, History>>

-----------------------------------------------------------------------------
(* handleRecord, in the order of the offsets within a partition; the order *)
(* between partitions is left open.                                        *)
NextRecord(m, r) ==
  /\ loop[m].pc = "each" /\ r \in loop[m].todo
  /\ \A q \in loop[m].todo : q.partition = r.partition => r.offset <= q.offset

(* No handler is registered: logged, not committed.                        *)
SkipRecord(m, r) ==
  /\ NextRecord(m, r) /\ r.partition \notin Registered
  /\ passed' = passed \cup {r}
  /\ LoopBecomes(m, [loop[m] EXCEPT !.todo = loop[m].todo \ {r}])
  /\ UNCHANGED <<end, committed, Group, handled, failed>>

HandlersSucceed(m, r) ==
  /\ NextRecord(m, r) /\ r.partition \in Registered
  /\ handled' = handled \cup {r}
  /\ LoopBecomes(m, [pc |-> "commit", todo |-> loop[m].todo \ {r}, rec |-> r])
  /\ UNCHANGED <<end, committed, Group, failed, passed>>

(* Mutant of HandlersFail: the record is committed all the same.           *)
CommitFailed(m, r) ==
  /\ NextRecord(m, r) /\ r.partition \in Registered
  /\ "handler" \in LoopFaults
  /\ failed' = failed \cup {r}
  /\ LoopBecomes(m, [pc |-> "commit", todo |-> loop[m].todo \ {r}, rec |-> r])
  /\ UNCHANGED <<end, committed, Group, handled, passed>>

(* An error of any handler: the record is not committed, the loop goes on  *)
(* with the next one.                                                      *)
HandlersFail(m, r) ==
  /\ NextRecord(m, r) /\ r.partition \in Registered
  /\ "handler" \in LoopFaults
  /\ failed' = failed \cup {r}
  /\ LoopBecomes(m, [loop[m] EXCEPT !.todo = loop[m].todo \ {r}])
  /\ UNCHANGED <<end, committed, Group, handled, passed>>

(* Mutants of NextOffset: the offset before the record; everything the     *)
(* client has polled.                                                      *)
LastOffset(r) == r.offset - 1
PolledOffset(r) == position[r.partition]

NextOffset(r) == r.offset + 1

CommitRecords(m) ==
  /\ loop[m].pc = "commit"
  /\ committed' = [committed EXCEPT
       ![loop[m].rec.partition] = NextOffset(loop[m].rec)]
  /\ LoopBecomes(m, [loop[m] EXCEPT !.pc = "each", !.rec = NoRecord])
  /\ UNCHANGED <<end, Group, History>>

(* The broker refuses the commit, or the member has been expelled: logged. *)
CommitFails(m) ==
  /\ loop[m].pc = "commit"
  /\ "commit" \in LoopFaults \/ owner[loop[m].rec.partition] # m
  /\ LoopBecomes(m, [loop[m] EXCEPT !.pc = "each", !.rec = NoRecord])
  /\ UNCHANGED <<end, committed, Group, History>>

-----------------------------------------------------------------------------
Run(m) ==
  \/ PollFetches(m) \/ PollErrors(m) \/ EndOfFetch(m)
  \/ \E r \in loop[m].todo :
       SkipRecord(m, r) \/ HandlersSucceed(m, r) \/ HandlersFail(m, r)
  \/ CommitRecords(m) \/ CommitFails(m)

ConsumerNext ==
  \/ \E p \in Partitions : Produce(p) \/ \E m \in Members : Assign(p, m)
  \/ \E m \in Members : Restart(m) \/ Run(m)

ConsumerSpec == ConsumerInit /\ [][ConsumerNext]_consumerVars

(* The loop never rests.                                                   *)
FairConsumer == ConsumerSpec /\ \A m \in Members : WF_consumerVars(Run(m))

-----------------------------------------------------------------------------
(* Correctness.                                                            *)

(* Every variable keeps its type.                                          *)
ConsumerTypeOK ==
  /\ end \in [Partitions -> Nat]
  /\ committed \in [Partitions -> Nat]
  /\ owner \in [Partitions -> Members]
  /\ position \in [Partitions -> Nat]
  /\ loop \in [Members -> Loop]
  /\ moves \in Nat
  /\ handled \subseteq Record /\ failed \subseteq Record
  /\ passed \subseteq Record

Seen == handled \cup failed \cup passed

(* The committed offset never passes a record that no member has looked    *)
(* at: whatever restarts and reassignments happen, a record is lost only   *)
(* by an error that was logged.                                            *)
NothingSkipped ==
  \A p \in Partitions : \A o \in 0 .. committed[p] - 1 :
    [partition |-> p, offset |-> o] \in Seen

(* A record whose handling failed stays behind the committed offset, to be *)
(* read again after a restart, until a later record of its partition       *)
(* succeeds; that is when it is lost.                                      *)
CommitFollowsSuccess ==
  \A p \in Partitions : \A o \in 0 .. committed[p] - 1 :
    [partition |-> p, offset |-> o] \in handled
    \/ \E r \in handled : r.partition = p /\ r.offset > o

(* Every record is eventually looked at by some member, although members   *)
(* restart and partitions move while it is under way.                      *)
EveryRecordSeen ==
  \A p \in Partitions : \A o \in 0 .. MaxRecords[p] - 1 :
    end[p] > o ~> [partition |-> p, offset |-> o] \in Seen
=============================================================================
