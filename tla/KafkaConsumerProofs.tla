------------------------ MODULE KafkaConsumerProofs ------------------------
(* Theorems about KafkaConsumer, for any number of members, partitions,    *)
(* records, restarts and reassignments and with every failure.             *)
EXTENDS KafkaConsumer, TLAPS

USE KafkaConsumerAssumption

LEMMA ConsumerTypeInit == ConsumerInit => ConsumerTypeOK
BY DEF ConsumerInit, ConsumerTypeOK, Loop, AtPoll, LoopPC

LEMMA FetchTyped ==
  ASSUME ConsumerTypeOK, NEW m \in Members, NEW upto \in Upto, Fetch(m, upto)
  PROVE  /\ upto \in [Partitions -> Nat] /\ position' = upto
         /\ Fetched(upto) \subseteq Record
<1>1. /\ \A p \in Partitions : position[p] \in Nat /\ end[p] \in Nat
      /\ position' = upto
  BY DEF ConsumerTypeOK, Fetch
<1>2. upto \in [Partitions -> Nat]
  BY <1>1 DEF Upto
<1>3. \A p \in Partitions : position[p] .. upto[p] - 1 \subseteq Nat
  BY <1>1, <1>2
<1>4. Fetched(upto) \subseteq Record
  BY <1>3 DEF Fetched, Record
<1>5. QED
  BY <1>1, <1>2, <1>4

LEMMA ConsumerTypeNext ==
  ConsumerTypeOK /\ [ConsumerNext]_consumerVars => ConsumerTypeOK'
<1> SUFFICES ASSUME ConsumerTypeOK, [ConsumerNext]_consumerVars
             PROVE  ConsumerTypeOK'
  OBVIOUS
<1> USE DEF LoopBecomes, History, Group
<1>1. \A m \in Members : /\ loop[m] \in Loop /\ loop[m].todo \subseteq Record
                         /\ loop[m].rec \in Record \cup {NoRecord}
  BY DEF ConsumerTypeOK, Loop
<1>2. AtPoll \in Loop
  BY DEF AtPoll, Loop, LoopPC
<1>3. ASSUME NEW p \in Partitions, Produce(p)
      PROVE  ConsumerTypeOK'
  BY <1>3 DEF Produce, ConsumerTypeOK
<1>4. ASSUME NEW p \in Partitions, NEW m \in Members, Assign(p, m)
      PROVE  ConsumerTypeOK'
  BY <1>4 DEF Assign, ConsumerTypeOK
<1>5. ASSUME NEW m \in Members, Restart(m)
      PROVE  ConsumerTypeOK'
  BY <1>2, <1>5 DEF Restart, ConsumerTypeOK
<1>6. ASSUME NEW m \in Members, PollFetches(m)
      PROVE  ConsumerTypeOK'
  <2>1. PICK upto \in Upto : /\ Fetch(m, upto)
              /\ LoopBecomes(m,
                   [AtPoll EXCEPT !.pc = "each", !.todo = Fetched(upto)])
    BY <1>6 DEF PollFetches
  <2>2. [AtPoll EXCEPT !.pc = "each", !.todo = Fetched(upto)] \in Loop
    BY <2>1, FetchTyped DEF AtPoll, Loop, LoopPC
  <2>3. QED
    BY <1>6, <2>1, <2>2, FetchTyped DEF PollFetches, ConsumerTypeOK
<1>7. ASSUME NEW m \in Members, PollErrors(m)
      PROVE  ConsumerTypeOK'
  <2>1. PICK upto \in Upto : Fetch(m, upto) /\ passed' = passed \cup Fetched(upto)
    BY <1>7 DEF PollErrors
  <2>2. QED
    BY <1>7, <2>1, FetchTyped DEF PollErrors, ConsumerTypeOK
<1>8. ASSUME NEW m \in Members, EndOfFetch(m)
      PROVE  ConsumerTypeOK'
  BY <1>2, <1>8 DEF EndOfFetch, ConsumerTypeOK
<1>9. ASSUME NEW m \in Members, NEW r \in loop[m].todo,
             SkipRecord(m, r) \/ HandlersSucceed(m, r) \/ HandlersFail(m, r)
      PROVE  ConsumerTypeOK'
  <2>1. /\ r \in Record
        /\ [loop[m] EXCEPT !.todo = loop[m].todo \ {r}] \in Loop
        /\ [pc |-> "commit", todo |-> loop[m].todo \ {r}, rec |-> r] \in Loop
    BY <1>1 DEF Loop, LoopPC
  <2>2. QED
    BY <1>9, <2>1 DEF SkipRecord, HandlersSucceed, HandlersFail, ConsumerTypeOK
<1>10. ASSUME NEW m \in Members, CommitRecords(m) \/ CommitFails(m)
       PROVE  ConsumerTypeOK'
  <2>1. [loop[m] EXCEPT !.pc = "each", !.rec = NoRecord] \in Loop
    BY <1>1 DEF Loop, LoopPC
  <2>2. CASE CommitFails(m)
    BY <2>1, <2>2 DEF CommitFails, ConsumerTypeOK
  <2>3. CASE CommitRecords(m)
    <3>1. loop[m].rec \in Record
      BY <1>1, <2>3 DEF CommitRecords, Loop
    <3>2. QED
      BY <2>1, <2>3, <3>1 DEF CommitRecords, NextOffset, Record, ConsumerTypeOK
  <2>4. QED
    BY <1>10, <2>2, <2>3
<1>11. CASE UNCHANGED consumerVars
  BY <1>11 DEF consumerVars, ConsumerTypeOK
<1>12. QED
  BY <1>3, <1>4, <1>5, <1>6, <1>7, <1>8, <1>9, <1>10, <1>11
  DEF ConsumerNext, Run

(* Every variable keeps its type, whatever fails.                          *)
THEOREM ConsumerTypeCorrect == ConsumerSpec => []ConsumerTypeOK
BY ConsumerTypeInit, ConsumerTypeNext, PTL DEF ConsumerSpec

-----------------------------------------------------------------------------
(* The committed offset never passes a record nobody has looked at.  What  *)
(* lies below a member's position, below a record it still has to handle   *)
(* and below the record it is about to commit was looked at or is still to *)
(* be handled by that very member.                                         *)

Rec(p, o) == [partition |-> p, offset |-> o]

Below(m, p, o) == Rec(p, o) \in Seen \/ Rec(p, o) \in loop[m].todo

PollEmpty == \A m \in Members : loop[m].pc = "poll" => loop[m].todo = {}

PositionBelow ==
  \A p \in Partitions : \A o \in 0 .. position[p] - 1 : Below(owner[p], p, o)

TodoBelow ==
  \A m \in Members : \A r \in loop[m].todo : \A o \in 0 .. r.offset - 1 :
    Below(m, r.partition, o)

CommitBelow ==
  \A m \in Members : loop[m].pc = "commit" =>
    \A o \in 0 .. loop[m].rec.offset : Rec(loop[m].rec.partition, o) \in Seen

SkipInv ==
  /\ ConsumerTypeOK
  /\ NothingSkipped
  /\ PollEmpty /\ PositionBelow /\ TodoBelow /\ CommitBelow

LEMMA SkipInit == ConsumerInit => SkipInv
BY ConsumerTypeInit
DEF ConsumerInit, SkipInv, NothingSkipped, PollEmpty, PositionBelow,
   TodoBelow, CommitBelow, AtPoll

(* Steps that move no offset and leave records only for Seen.              *)
LEMMA OffsetsKept ==
  ASSUME SkipInv, UNCHANGED <<committed, position, owner>>, Seen \subseteq Seen',
         \A m \in Members : /\ loop'[m].todo \subseteq loop[m].todo
                            /\ loop[m].todo \subseteq loop'[m].todo \cup Seen'
  PROVE  NothingSkipped' /\ PositionBelow' /\ TodoBelow'
<1>1. \A m \in Members, p \in Partitions, o \in Nat :
        Below(m, p, o) => Below(m, p, o)'
  BY DEF Below
<1>2. /\ owner \in [Partitions -> Members]
      /\ \A p \in Partitions : position[p] \in Nat
      /\ \A m \in Members : \A r \in loop[m].todo :
           r.partition \in Partitions /\ r.offset \in Nat
  BY DEF SkipInv, ConsumerTypeOK, Loop, Record
<1>3. NothingSkipped'
  BY DEF SkipInv, NothingSkipped
<1>4. PositionBelow'
  BY <1>1, <1>2 DEF SkipInv, PositionBelow
<1>5. TodoBelow'
  BY <1>1, <1>2 DEF SkipInv, TodoBelow
<1>6. QED
  BY <1>3, <1>4, <1>5

(* A poll hands out exactly the records between the old and the new        *)
(* position, and none of a partition that is not its own.                  *)
LEMMA FetchFacts ==
  ASSUME SkipInv, NEW m \in Members, NEW upto \in Upto, Fetch(m, upto),
         loop[m].pc = "poll"
  PROVE  /\ \A p \in Partitions : \A o \in 0 .. upto[p] - 1 :
              \/ Rec(p, o) \in Fetched(upto)
              \/ o \in 0 .. position[p] - 1
         /\ \A r \in Fetched(upto) : /\ r.partition \in Partitions
                                     /\ owner[r.partition] = m
                                     /\ r.offset < upto[r.partition]
                                     /\ r.offset \in Nat
         /\ \A p \in Partitions : owner[p] = m =>
              \A o \in 0 .. position[p] - 1 : Rec(p, o) \in Seen
<1>1. /\ \A p \in Partitions : position[p] \in Nat /\ upto[p] \in Nat
      /\ loop[m].todo = {}
  BY FetchTyped DEF SkipInv, ConsumerTypeOK, PollEmpty
<1>2. ASSUME NEW p \in Partitions, NEW o \in 0 .. upto[p] - 1,
             o \notin 0 .. position[p] - 1
      PROVE  Rec(p, o) \in Fetched(upto)
  <2>1. o \in position[p] .. upto[p] - 1
    BY <1>1, <1>2
  <2>2. QED
    BY <2>1 DEF Fetched, Rec
<1>3. ASSUME NEW r \in Fetched(upto)
      PROVE  /\ r.partition \in Partitions /\ owner[r.partition] = m
             /\ r.offset < upto[r.partition] /\ r.offset \in Nat
  <2>1. PICK p \in Partitions :
          r \in {[partition |-> p, offset |-> o] : o \in position[p] .. upto[p] - 1}
    BY <1>3 DEF Fetched
  <2>2. PICK o \in position[p] .. upto[p] - 1 :
          r = [partition |-> p, offset |-> o]
    BY <2>1
  <2>3. r.partition = p /\ r.offset = o
    BY <2>2
  <2>4. o \in Nat /\ position[p] <= o /\ o < upto[p]
    BY <1>1, <2>2
  <2>5. owner[p] = m
    BY <1>1, <2>4 DEF Fetch
  <2>6. QED
    BY <2>3, <2>4, <2>5
<1>4. ASSUME NEW p \in Partitions, owner[p] = m, NEW o \in 0 .. position[p] - 1
      PROVE  Rec(p, o) \in Seen
  BY <1>1, <1>4 DEF SkipInv, PositionBelow, Below
<1>5. QED
  BY <1>2, <1>3, <1>4

LEMMA PollFetchesSkip ==
  ASSUME SkipInv, NEW m \in Members, PollFetches(m)
  PROVE  NothingSkipped' /\ PollEmpty' /\ PositionBelow' /\ TodoBelow'
         /\ CommitBelow'
<1>1. PICK upto \in Upto : /\ Fetch(m, upto)
            /\ LoopBecomes(m,
                   [AtPoll EXCEPT !.pc = "each", !.todo = Fetched(upto)])
  BY DEF PollFetches
<1>2. /\ loop[m].pc = "poll" /\ UNCHANGED <<committed, owner, Seen>>
      /\ position' = upto /\ loop[m].todo = {}
  BY <1>1 DEF PollFetches, Fetch, History, Seen, SkipInv, PollEmpty
<1>3. /\ loop'[m].pc = "each" /\ loop'[m].todo = Fetched(upto)
      /\ \A q \in Members : q # m => loop'[q] = loop[q]
  BY <1>1 DEF LoopBecomes, AtPoll, SkipInv, ConsumerTypeOK
<1>4. /\ \A p \in Partitions : \A o \in 0 .. upto[p] - 1 :
            Rec(p, o) \in Fetched(upto) \/ o \in 0 .. position[p] - 1
      /\ \A r \in Fetched(upto) : /\ r.partition \in Partitions
                                  /\ owner[r.partition] = m
                                  /\ r.offset < upto[r.partition]
                                  /\ r.offset \in Nat
      /\ \A p \in Partitions : owner[p] = m =>
            \A o \in 0 .. position[p] - 1 : Rec(p, o) \in Seen
  BY <1>1, <1>2, FetchFacts
<1>5. NothingSkipped'
  BY <1>2 DEF SkipInv, NothingSkipped
<1>6. PollEmpty' /\ CommitBelow'
  BY <1>2, <1>3 DEF SkipInv, PollEmpty, CommitBelow
<1>7. ASSUME NEW p \in Partitions, owner[p] = m, NEW o \in 0 .. upto[p] - 1
      PROVE  Below(m, p, o)'
  BY <1>2, <1>3, <1>4, <1>7 DEF Below
<1>8. PositionBelow'
  <2> SUFFICES ASSUME NEW p \in Partitions, NEW o \in 0 .. upto[p] - 1
               PROVE  Below(owner[p], p, o)'
    BY <1>2 DEF PositionBelow, Below
  <2>1. CASE owner[p] = m
    <3>1. Below(m, p, o)'
      BY <1>7, <2>1
    <3>2. QED
      BY <1>2, <2>1, <3>1 DEF Below
  <2>2. CASE owner[p] # m
    <3>1. upto[p] = position[p] /\ owner[p] \in Members
      BY <1>1, <2>2 DEF Fetch, SkipInv, ConsumerTypeOK
    <3>2. Below(owner[p], p, o)
      BY <3>1 DEF SkipInv, PositionBelow
    <3>3. QED
      BY <1>2, <1>3, <2>2, <3>1, <3>2 DEF Below
  <2>3. QED
    BY <2>1, <2>2
<1>9. TodoBelow'
  <2> SUFFICES ASSUME NEW q \in Members, NEW r \in loop'[q].todo,
                      NEW o \in 0 .. r.offset - 1
               PROVE  Below(q, r.partition, o)'
    BY DEF TodoBelow, Below
  <2>1. CASE q = m
    <3>1. /\ r.partition \in Partitions /\ owner[r.partition] = m
          /\ r.offset < upto[r.partition] /\ r.offset \in Nat
          /\ upto[r.partition] \in Nat
      BY <1>1, <1>3, <1>4, <2>1, FetchTyped DEF SkipInv
    <3>2. o \in 0 .. upto[r.partition] - 1
      BY <3>1
    <3>3. QED
      BY <1>7, <2>1, <3>1, <3>2
  <2>2. CASE q # m
    BY <1>2, <1>3, <2>2 DEF SkipInv, TodoBelow, Below
  <2>3. QED
    BY <2>1, <2>2
<1>10. QED
  BY <1>5, <1>6, <1>8, <1>9

LEMMA PollErrorsSkip ==
  ASSUME SkipInv, NEW m \in Members, PollErrors(m)
  PROVE  NothingSkipped' /\ PollEmpty' /\ PositionBelow' /\ TodoBelow'
         /\ CommitBelow'
<1>1. PICK upto \in Upto : Fetch(m, upto) /\ passed' = passed \cup Fetched(upto)
  BY DEF PollErrors
<1>2. /\ loop[m].pc = "poll" /\ UNCHANGED <<committed, owner, loop>>
      /\ position' = upto /\ Seen' = Seen \cup Fetched(upto)
  BY <1>1 DEF PollErrors, Fetch, Seen
<1>3. /\ \A p \in Partitions : \A o \in 0 .. upto[p] - 1 :
            Rec(p, o) \in Fetched(upto) \/ o \in 0 .. position[p] - 1
      /\ \A p \in Partitions : owner[p] = m =>
            \A o \in 0 .. position[p] - 1 : Rec(p, o) \in Seen
  BY <1>1, <1>2, FetchFacts
<1>4. NothingSkipped' /\ PollEmpty' /\ TodoBelow' /\ CommitBelow'
  BY <1>2 DEF SkipInv, NothingSkipped, PollEmpty, TodoBelow, CommitBelow, Below
<1>5. PositionBelow'
  <2> SUFFICES ASSUME NEW p \in Partitions, NEW o \in 0 .. upto[p] - 1
               PROVE  Below(owner[p], p, o)'
    BY <1>2 DEF PositionBelow, Below
  <2>1. CASE Rec(p, o) \in Fetched(upto)
    BY <1>2, <2>1 DEF Below
  <2>2. CASE o \in 0 .. position[p] - 1
    BY <1>2, <2>2 DEF SkipInv, PositionBelow, Below
  <2>3. QED
    BY <1>3, <2>1, <2>2
<1>6. QED
  BY <1>4, <1>5

(* An assignment and a restart go back to the committed offset.            *)
LEMMA MoveSkip ==
  ASSUME SkipInv,
         \/ \E p \in Partitions, m \in Members : Assign(p, m)
         \/ \E m \in Members : Restart(m)
  PROVE  NothingSkipped' /\ PollEmpty' /\ PositionBelow' /\ TodoBelow'
         /\ CommitBelow'
<1>1. /\ \A p \in Partitions : committed[p] \in Nat /\ owner[p] \in Members
      /\ position \in [Partitions -> Nat] /\ owner \in [Partitions -> Members]
      /\ loop \in [Members -> Loop]
  BY DEF SkipInv, ConsumerTypeOK
<1>2. UNCHANGED <<committed, Seen>>
  BY DEF Assign, Restart, History, Seen
<1>3. NothingSkipped'
  BY <1>2 DEF SkipInv, NothingSkipped
<1>4. ASSUME NEW p \in Partitions, NEW m \in Members, Assign(p, m)
      PROVE  PollEmpty' /\ PositionBelow' /\ TodoBelow' /\ CommitBelow'
  <2>1. PollEmpty' /\ TodoBelow' /\ CommitBelow'
    BY <1>2, <1>4
    DEF Assign, SkipInv, PollEmpty, TodoBelow, CommitBelow, Below
  <2>2. ASSUME NEW q \in Partitions, NEW o \in 0 .. position'[q] - 1
        PROVE  Below(owner[q], q, o)'
    <3>1. CASE q = p
      <4>1. position'[q] = committed[q]
        BY <1>1, <1>4, <3>1 DEF Assign
      <4>2. Rec(q, o) \in Seen
        BY <2>2, <4>1 DEF SkipInv, NothingSkipped, Rec
      <4>3. QED
        BY <1>2, <4>2 DEF Below
    <3>2. CASE q # p
      BY <1>1, <1>2, <1>4, <2>2, <3>2 DEF Assign, SkipInv, PositionBelow, Below
    <3>3. QED
      BY <3>1, <3>2
  <2>3. QED
    BY <2>1, <2>2 DEF PositionBelow, Below
<1>5. ASSUME NEW m \in Members, Restart(m)
      PROVE  PollEmpty' /\ PositionBelow' /\ TodoBelow' /\ CommitBelow'
  <2>1. /\ loop'[m].pc = "poll" /\ loop'[m].todo = {} /\ UNCHANGED owner
        /\ \A q \in Members : q # m => loop'[q] = loop[q]
    BY <1>1, <1>5 DEF Restart, LoopBecomes, AtPoll
  <2>2. PollEmpty' /\ TodoBelow' /\ CommitBelow'
    BY <1>2, <2>1 DEF SkipInv, PollEmpty, TodoBelow, CommitBelow, Below
  <2>3. ASSUME NEW q \in Partitions, NEW o \in 0 .. position'[q] - 1
        PROVE  Below(owner[q], q, o)'
    <3>1. CASE owner[q] = m
      <4>1. position'[q] = committed[q]
        BY <1>5, <3>1 DEF Restart
      <4>2. Rec(q, o) \in Seen
        BY <2>3, <4>1 DEF SkipInv, NothingSkipped, Rec
      <4>3. QED
        BY <1>2, <4>2 DEF Below
    <3>2. CASE owner[q] # m
      <4>1. position'[q] = position[q]
        BY <1>5, <3>2 DEF Restart
      <4>2. Below(owner[q], q, o)
        BY <2>3, <4>1 DEF SkipInv, PositionBelow
      <4>3. QED
        BY <1>1, <1>2, <2>1, <3>2, <4>2 DEF Below
    <3>3. QED
      BY <3>1, <3>2
  <2>4. QED
    BY <2>1, <2>2, <2>3 DEF PositionBelow, Below
<1>6. QED
  BY <1>3, <1>4, <1>5

(* Handling a record: all earlier ones of its partition are done.          *)
LEMMA HandleSkip ==
  ASSUME SkipInv, NEW m \in Members, NEW r \in loop[m].todo,
         SkipRecord(m, r) \/ HandlersSucceed(m, r) \/ HandlersFail(m, r)
  PROVE  NothingSkipped' /\ PollEmpty' /\ PositionBelow' /\ TodoBelow'
         /\ CommitBelow'
<1>1. /\ loop \in [Members -> Loop] /\ r \in Record /\ NextRecord(m, r)
      /\ \A q \in loop[m].todo : q \in Record
  BY DEF SkipInv, ConsumerTypeOK, Loop, SkipRecord, HandlersSucceed,
     HandlersFail
<1>2. UNCHANGED <<committed, position, owner>> /\ Seen' = Seen \cup {r}
  BY DEF SkipRecord, HandlersSucceed, HandlersFail, Group, Seen
<1>3. /\ loop'[m].todo = loop[m].todo \ {r}
      /\ \A q \in Members : q # m => loop'[q] = loop[q]
  BY <1>1 DEF SkipRecord, HandlersSucceed, HandlersFail, LoopBecomes, Loop
<1>4. \/ loop'[m].pc = "each"
      \/ loop'[m].pc = "commit" /\ loop'[m].rec = r
  BY <1>1
  DEF SkipRecord, HandlersSucceed, HandlersFail, LoopBecomes, Loop, NextRecord
<1>5. NothingSkipped' /\ PositionBelow' /\ TodoBelow'
  BY <1>2, <1>3, OffsetsKept
<1>6. PollEmpty'
  BY <1>3, <1>4 DEF SkipInv, PollEmpty
<1>7. \A o \in 0 .. r.offset - 1 : Rec(r.partition, o) \in Seen
  <2> SUFFICES ASSUME NEW o \in 0 .. r.offset - 1,
                      Rec(r.partition, o) \in loop[m].todo
               PROVE  FALSE
    BY DEF SkipInv, TodoBelow, Below
  <2>1. r.offset \in Nat /\ o < r.offset /\ o \in Nat
    BY <1>1 DEF Record
  <2>2. r.offset <= o
    BY <1>1 DEF NextRecord, Rec
  <2>3. QED
    BY <2>1, <2>2
<1>8. \A o \in 0 .. r.offset : Rec(r.partition, o) \in Seen'
  <2>1. Rec(r.partition, r.offset) = r /\ r.offset \in Nat
    BY <1>1 DEF Rec, Record
  <2>2. QED
    BY <1>2, <1>7, <2>1
<1>9. CommitBelow'
  BY <1>2, <1>3, <1>4, <1>8 DEF SkipInv, CommitBelow
<1>10. QED
  BY <1>5, <1>6, <1>9

LEMMA CommitSkip ==
  ASSUME SkipInv, NEW m \in Members, CommitRecords(m) \/ CommitFails(m)
  PROVE  NothingSkipped' /\ PollEmpty' /\ PositionBelow' /\ TodoBelow'
         /\ CommitBelow'
<1> DEFINE r == loop[m].rec
<1>1. /\ loop \in [Members -> Loop] /\ loop[m].pc = "commit" /\ r \in Record
      /\ committed \in [Partitions -> Nat]
  BY DEF SkipInv, ConsumerTypeOK, Loop, CommitRecords, CommitFails
<1>2. /\ loop'[m].pc = "each" /\ loop'[m].todo = loop[m].todo
      /\ \A q \in Members : q # m => loop'[q] = loop[q]
      /\ UNCHANGED <<position, owner, Seen>>
  <2>1. LoopBecomes(m, [loop[m] EXCEPT !.pc = "each", !.rec = NoRecord])
    BY DEF CommitRecords, CommitFails
  <2>2. loop[m] \in Loop
    BY <1>1
  <2>3. /\ loop'[m] = [loop[m] EXCEPT !.pc = "each", !.rec = NoRecord]
        /\ \A q \in Members : q # m => loop'[q] = loop[q]
    BY <1>1, <2>1 DEF LoopBecomes
  <2>4. loop'[m].pc = "each" /\ loop'[m].todo = loop[m].todo
    BY <2>2, <2>3 DEF Loop
  <2>5. UNCHANGED <<position, owner, Seen>>
    BY DEF CommitRecords, CommitFails, Group, History, Seen
  <2>6. QED
    BY <2>3, <2>4, <2>5
<1>3. PollEmpty' /\ PositionBelow' /\ TodoBelow' /\ CommitBelow'
  BY <1>2
  DEF SkipInv, ConsumerTypeOK, PollEmpty, PositionBelow, TodoBelow,
      CommitBelow, Below
<1>4. NothingSkipped'
  <2> SUFFICES ASSUME NEW p \in Partitions, NEW o \in 0 .. committed'[p] - 1
               PROVE  Rec(p, o) \in Seen
    BY <1>2 DEF NothingSkipped, Rec
  <2>1. CASE committed'[p] = committed[p]
    BY <2>1 DEF SkipInv, NothingSkipped, Rec
  <2>2. CASE p = r.partition /\ committed'[p] = r.offset + 1
    <3>1. o \in 0 .. r.offset
      BY <1>1, <2>2 DEF Record
    <3>2. QED
      BY <1>1, <2>2, <3>1 DEF SkipInv, CommitBelow
  <2>3. QED
    BY <1>1, <2>1, <2>2 DEF CommitRecords, CommitFails, NextOffset
<1>5. QED
  BY <1>3, <1>4

LEMMA SkipNext == SkipInv /\ [ConsumerNext]_consumerVars => SkipInv'
<1> SUFFICES ASSUME SkipInv, [ConsumerNext]_consumerVars PROVE SkipInv'
  OBVIOUS
<1>1. ConsumerTypeOK'
  BY ConsumerTypeNext DEF SkipInv
<1>2. CASE UNCHANGED consumerVars
  BY <1>1, <1>2
  DEF consumerVars, SkipInv, NothingSkipped, PollEmpty, PositionBelow,
     TodoBelow, CommitBelow, Below, Seen
<1>3. ASSUME NEW p \in Partitions, Produce(p)
      PROVE  SkipInv'
  BY <1>1, <1>3
  DEF Produce, Group, History, SkipInv, NothingSkipped, PollEmpty,
     PositionBelow, TodoBelow, CommitBelow, Below, Seen
<1>4. ASSUME NEW m \in Members, EndOfFetch(m)
      PROVE  SkipInv'
  <2>1. /\ loop'[m].pc = "poll" /\ loop'[m].todo = {} /\ loop[m].todo = {}
        /\ \A q \in Members : q # m => loop'[q] = loop[q]
        /\ UNCHANGED <<committed, position, owner, Seen>>
    BY <1>4
    DEF EndOfFetch, LoopBecomes, AtPoll, Group, History, Seen, SkipInv,
        ConsumerTypeOK
  <2>2. NothingSkipped' /\ PositionBelow' /\ TodoBelow'
    BY <2>1, OffsetsKept
  <2>3. PollEmpty' /\ CommitBelow'
    BY <2>1 DEF SkipInv, PollEmpty, CommitBelow
  <2>4. QED
    BY <1>1, <2>2, <2>3 DEF SkipInv
<1>5. QED
  BY <1>1, <1>2, <1>3, <1>4, PollFetchesSkip, PollErrorsSkip, MoveSkip,
     HandleSkip, CommitSkip
  DEF ConsumerNext, Run, SkipInv

(* No record is skipped unseen, whatever restarts, moves and fails.        *)
THEOREM NoRecordSkipped == ConsumerSpec => []NothingSkipped
<1>1. SkipInv => NothingSkipped
  BY DEF SkipInv
<1>2. QED
  BY SkipInit, SkipNext, <1>1, PTL DEF ConsumerSpec

-----------------------------------------------------------------------------
(* The offset of a partition is behind a record that was handled, and so   *)
(* is the one that is about to be committed.                               *)
SuccessInv ==
  /\ ConsumerTypeOK
  /\ \A m \in Members : loop[m].pc = "commit" => loop[m].rec \in handled
  /\ \A p \in Partitions :
       committed[p] = 0 \/ Rec(p, committed[p] - 1) \in handled

LEMMA SuccessInit == ConsumerInit => SuccessInv
BY ConsumerTypeInit DEF ConsumerInit, SuccessInv, AtPoll

(* A member that is not about to commit, or that has handled its record.   *)
LEMMA SuccessJobs ==
  ASSUME SuccessInv, ConsumerTypeOK', UNCHANGED committed, handled \subseteq handled',
         NEW m \in Members, NEW j, LoopBecomes(m, j),
         j.pc = "commit" => j.rec \in handled'
  PROVE  SuccessInv'
BY DEF SuccessInv, ConsumerTypeOK, LoopBecomes

LEMMA SuccessNext == SuccessInv /\ [ConsumerNext]_consumerVars => SuccessInv'
<1> SUFFICES ASSUME SuccessInv, [ConsumerNext]_consumerVars PROVE SuccessInv'
  OBVIOUS
<1>0. ConsumerTypeOK /\ ConsumerTypeOK'
  BY ConsumerTypeNext DEF SuccessInv
<1>1. CASE UNCHANGED <<committed, loop, handled>>
  BY <1>0, <1>1 DEF SuccessInv
<1>2. ASSUME NEW m \in Members, Restart(m) PROVE SuccessInv'
  BY <1>0, <1>2, SuccessJobs DEF Restart, History, AtPoll
<1>3. ASSUME NEW m \in Members, Run(m) PROVE SuccessInv'
  <2>1. CASE PollFetches(m)
    BY <1>0, <2>1, SuccessJobs DEF PollFetches, History, AtPoll
  <2>2. CASE PollErrors(m)
    BY <1>1, <2>2 DEF PollErrors
  <2>3. CASE EndOfFetch(m)
    BY <1>0, <2>3, SuccessJobs DEF EndOfFetch, History, AtPoll
  <2>4. ASSUME NEW r \in loop[m].todo, SkipRecord(m, r) \/ HandlersFail(m, r)
        PROVE  SuccessInv'
    BY <1>0, <2>4, SuccessJobs
    DEF SkipRecord, HandlersFail, NextRecord, ConsumerTypeOK, Loop
  <2>5. ASSUME NEW r \in loop[m].todo, HandlersSucceed(m, r) PROVE SuccessInv'
    BY <1>0, <2>5, SuccessJobs DEF HandlersSucceed
  <2>6. CASE CommitRecords(m)
    <3>1. loop[m].rec \in Record /\ loop[m].rec \in handled
      BY <1>0, <2>6 DEF CommitRecords, SuccessInv, ConsumerTypeOK, Loop
    <3>2. PICK p \in Partitions, o \in Nat : loop[m].rec = Rec(p, o)
      BY <3>1 DEF Record, Rec
    <3>3. /\ committed' = [committed EXCEPT ![p] = o + 1]
          /\ Rec(p, (o + 1) - 1) \in handled
      BY <2>6, <3>1, <3>2 DEF CommitRecords, NextOffset, Rec
    <3>4. \A q \in Partitions :
            committed'[q] = 0 \/ Rec(q, committed'[q] - 1) \in handled'
      BY <1>0, <2>6, <3>3
      DEF SuccessInv, ConsumerTypeOK, CommitRecords, History
    <3>5. \A n \in Members : loop'[n].pc = "commit" => loop'[n].rec \in handled'
      BY <1>0, <2>6
      DEF SuccessInv, ConsumerTypeOK, CommitRecords, LoopBecomes, History
    <3>6. QED
      BY <1>0, <3>4, <3>5 DEF SuccessInv
  <2>7. CASE CommitFails(m)
    <3>1. [loop[m] EXCEPT !.pc = "each", !.rec = NoRecord].pc = "each"
      BY <1>0 DEF ConsumerTypeOK, Loop
    <3>2. QED
      BY <1>0, <2>7, <3>1, SuccessJobs DEF CommitFails, History
  <2>8. QED
    BY <1>3, <2>1, <2>2, <2>3, <2>4, <2>5, <2>6, <2>7 DEF Run
<1>4. QED
  BY <1>1, <1>2, <1>3 DEF ConsumerNext, Produce, Assign, History, consumerVars

(* Whatever fails or moves, a record the offset has passed was handled, or *)
(* a later one of its partition was: only a later success loses a record.  *)
THEOREM OffsetFollowsSuccess == ConsumerSpec => []CommitFollowsSuccess
<1>1. SuccessInv => CommitFollowsSuccess
  <2> SUFFICES ASSUME SuccessInv, NEW p \in Partitions,
                      NEW o \in 0 .. committed[p] - 1
               PROVE  \/ Rec(p, o) \in handled
                      \/ \E r \in handled : r.partition = p /\ r.offset > o
    BY DEF CommitFollowsSuccess, Rec
  <2>1. committed[p] \in Nat /\ Rec(p, committed[p] - 1) \in handled
    BY DEF SuccessInv, ConsumerTypeOK
  <2>2. CASE o = committed[p] - 1
    BY <2>1, <2>2
  <2>3. CASE o # committed[p] - 1
    BY <2>1, <2>3 DEF Rec
  <2>4. QED
    BY <2>2, <2>3
<1>2. QED
  BY SuccessInit, SuccessNext, <1>1, PTL DEF ConsumerSpec
=============================================================================
