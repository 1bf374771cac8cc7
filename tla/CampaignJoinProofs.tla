------------------------- MODULE CampaignJoinProofs -------------------------
(* Theorems about CampaignJoin: any number of calls of the user and of     *)
(* requests of administrators, any contents and task groups, and calls and *)
(* requests that fail anywhere.                                            *)
EXTENDS CampaignJoin, CampaignLifecycleProofs

USE CampaignJoinAssumption, CampaignJoinRowsAssumption

WasLive(g, ever) == g = 0 \/ \E c \in ever : TaskGroup[c] = g

(* What a call relies on from the statements behind it: p is the user's    *)
(* row, en the enrolments, ever the contents the campaign was live with.   *)
Knows(c, p, en, ever) ==
  /\ c.pc \notin {"campaign", "done"} => c.target \in ever
  /\ c.pc \in {"participant", "match", "enrol", "insert", "reread"} =>
       c.kind = "join"
  /\ c.kind = "join" /\ c.pc \in {"rules", "enrol", "insert", "reread"} =>
       c.target \in Eligible
  /\ c.pc = "insert" => c.group = 0 \/ c.group \in en
  /\ c.pc = "reread" => p # None
  /\ c.pc # "done" => c.answer = None
  /\ WasLive(c.group, ever)
  /\ c.answer = "joined" => p # None /\ c.joinedAt = p.joinedAt

(* A call that explains an enrolment without participant.                  *)
Explains(c, en) == /\ c.kind = "join" /\ c.group \in en
                   /\ c.pc = "insert" \/ c.answer = "error"

(* The rules, and what a publisher makes them, are of a content that went  *)
(* live before.                                                            *)
RulesWereLive ==
  /\ Live \subseteq everLive
  /\ rules # None => rules \in everLive
  /\ \A r \in Requests : req[r].pc = "rules" => req[r].content \in everLive

JoinInv ==
  /\ TypeInv /\ JoinTypeOK /\ RulesWereLive
  /\ \A j \in Calls : Knows(call[j], participant, enrolled, everLive)
  /\ JoinedIsEnrolled
  /\ enrolled # {} /\ participant = None =>
       \E j \in Calls : Explains(call[j], enrolled)
  /\ participant # None \/ enrolled # {} => everLive \cap Eligible # {}
  /\ \A g \in enrolled : WasLive(g, everLive)

-----------------------------------------------------------------------------
LEMMA JoinInvInit == JoinInit => JoinInv
<1> SUFFICES ASSUME JoinInit PROVE JoinInv
  OBVIOUS
<1>1. Init /\ TypeInv
  BY TypeInit DEF JoinInit
<1>2. PICK k \in [Calls -> Kinds] : call = [j \in Calls |-> NewCall(k[j])]
  BY DEF JoinInit
<1>3. \A j \in Calls : NewCall(k[j]) \in Call
  BY <1>2 DEF NewCall, Call, CallPC
<1>4. call \in [Calls -> Call]
  BY <1>2, <1>3
<1>5. \A j \in Calls : Knows(call[j], participant, enrolled, everLive)
  BY <1>2 DEF NewCall, Knows, WasLive, Answers
<1>6. everLive \subseteq Contents /\ RulesWereLive
  BY <1>1 DEF JoinInit, Init, Live, RulesWereLive, Row, Idle
<1>7. QED
  BY <1>1, <1>4, <1>5, <1>6 DEF JoinInit, JoinInv, JoinTypeOK, TypeInv,
     JoinedIsEnrolled

(* What is there stays: the row, the enrolments, the history.              *)
Grows ==
  /\ participant # None => participant' = participant
  /\ enrolled \subseteq enrolled' /\ everLive \subseteq everLive'

LEMMA StillKnows ==
  ASSUME Grows, NEW c, Knows(c, participant, enrolled, everLive)
  PROVE  Knows(c, participant', enrolled', everLive')
<1>1. WasLive(c.group, everLive')
  BY DEF Grows, Knows, WasLive
<1>2. QED
  BY <1>1 DEF Grows, Knows

LEMMA CallsKnow ==
  ASSUME JoinInv, Grows, NEW j \in Calls, NEW c \in Call, CallBecomes(j, c),
         Knows(c, participant', enrolled', everLive')
  PROVE  /\ call' \in [Calls -> Call] /\ call'[j] = c
         /\ \A i \in Calls : i # j => call'[i] = call[i]
         /\ \A i \in Calls : Knows(call'[i], participant', enrolled', everLive')
<1>1. /\ call' \in [Calls -> Call] /\ call'[j] = c
      /\ \A i \in Calls : i # j => call'[i] = call[i]
  BY DEF CallBecomes, JoinInv, JoinTypeOK
<1>2. ASSUME NEW i \in Calls, i # j
      PROVE  Knows(call'[i], participant', enrolled', everLive')
  BY <1>1, <1>2, StillKnows DEF JoinInv
<1>3. QED
  BY <1>1, <1>2

LEMMA TablesKept ==
  ASSUME JoinInv, UNCHANGED Tables
  PROVE  TypeInv' /\ RulesWereLive' /\ (everLive \subseteq Contents)'
<1>1. UNCHANGED <<row, drafts, rules, req, everLive>>
  BY DEF Tables, vars
<1>2. TypeInv'
  BY <1>1 DEF JoinInv, TypeInv, TypeOK, VersionsExist, Latest
<1>3. QED
  BY <1>1, <1>2 DEF JoinInv, RulesWereLive, Live, JoinTypeOK

(* A call that only reads, or ends.                                        *)
LEMMA CallMoves ==
  ASSUME JoinInv, NEW j \in Calls, NEW c \in Call, CallBecomes(j, c),
         UNCHANGED <<Tables, participant, enrolled>>,
         Knows(c, participant, enrolled, everLive),
         participant = None /\ Explains(call[j], enrolled) => Explains(c, enrolled)
  PROVE  JoinInv'
<1>1. UNCHANGED <<participant, enrolled, everLive>> /\ Grows
  BY DEF Tables, Grows
<1>2. /\ call' \in [Calls -> Call] /\ call'[j] = c
      /\ \A i \in Calls : i # j => call'[i] = call[i]
      /\ \A i \in Calls : Knows(call'[i], participant', enrolled', everLive')
  BY <1>1, CallsKnow
<1>3. enrolled' # {} /\ participant' = None =>
        \E i \in Calls : Explains(call'[i], enrolled')
  BY <1>1, <1>2 DEF JoinInv
<1>4. QED
  BY <1>1, <1>2, <1>3, TablesKept DEF JoinInv, TypeInv, JoinTypeOK,
     JoinedIsEnrolled

-----------------------------------------------------------------------------
(* The user's calls.                                                       *)

LEMMA Ends ==
  ASSUME JoinInv, NEW j \in Calls, NEW a \in Answers, a # "joined",
         call[j].pc # "done", call[j].pc # "insert", Answer(j, a),
         UNCHANGED <<Tables, participant, enrolled>>
  PROVE  JoinInv'
<1> DEFINE c == [call[j] EXCEPT !.pc = "done", !.answer = a]
<1>1. call[j] \in Call /\ Knows(call[j], participant, enrolled, everLive)
  BY DEF JoinInv, JoinTypeOK
<1>2. c \in Call
  BY <1>1 DEF Call, CallPC
<1>3. Knows(c, participant, enrolled, everLive)
  BY <1>1 DEF Knows, Call
<1>4. ~Explains(call[j], enrolled)
  BY <1>1 DEF Explains, Knows, Answers
<1>5. QED
  BY <1>2, <1>3, <1>4, CallMoves DEF Answer

LEMMA AnswersJoined ==
  ASSUME JoinInv, NEW j \in Calls, participant # None,
         AnswerJoined(j, participant.joinedAt),
         UNCHANGED <<Tables, participant, enrolled>>
  PROVE  JoinInv'
<1> DEFINE c == [call[j] EXCEPT !.pc = "done", !.answer = "joined",
                                !.joinedAt = participant.joinedAt]
<1>1. /\ call[j] \in Call /\ Knows(call[j], participant, enrolled, everLive)
      /\ participant.joinedAt \in Calls
  BY DEF JoinInv, JoinTypeOK, Participant
<1>2. c \in Call
  BY <1>1 DEF Call, CallPC, Answers
<1>3. Knows(c, participant, enrolled, everLive)
  BY <1>1 DEF Knows, Call
<1>4. QED
  BY <1>2, <1>3, CallMoves DEF AnswerJoined

LEMMA Goes ==
  ASSUME JoinInv, NEW j \in Calls, NEW pc \in {"match", "rules", "reread"},
         call[j].kind = "join", call[j].pc \notin {"campaign", "done"},
         pc = "rules" => call[j].target \in Eligible,
         pc = "reread" => participant # None /\ call[j].target \in Eligible,
         pc # "reread" => call[j].pc # "insert",
         Goto(j, pc), UNCHANGED <<Tables, participant, enrolled>>
  PROVE  JoinInv'
<1> DEFINE c == [call[j] EXCEPT !.pc = pc]
<1>1. call[j] \in Call /\ Knows(call[j], participant, enrolled, everLive)
  BY DEF JoinInv, JoinTypeOK
<1>2. c \in Call
  BY <1>1 DEF Call, CallPC
<1>3. Knows(c, participant, enrolled, everLive)
  BY <1>1 DEF Knows, Call, Answers
<1>4. participant = None => ~Explains(call[j], enrolled)
  BY <1>1 DEF Explains, Knows, Answers
<1>5. QED
  BY <1>2, <1>3, <1>4, CallMoves DEF Goto

LEMMA CampaignRead ==
  ASSUME JoinInv, NEW j \in Calls, ReadCampaign(j)
  PROVE  JoinInv'
<1> DEFINE c == [call[j] EXCEPT
                   !.pc = IF call[j].kind = "join" THEN "participant" ELSE "rules",
                   !.target = row.content]
<1>1. /\ call[j] \in Call /\ Knows(call[j], participant, enrolled, everLive)
      /\ call[j].pc = "campaign" /\ everLive \subseteq Contents
  BY DEF JoinInv, JoinTypeOK, ReadCampaign
<1>2. row.content \in everLive
  BY DEF ReadCampaign, MayJoin, Live, JoinInv, RulesWereLive
<1>3. c \in Call
  BY <1>1, <1>2 DEF Call, CallPC
<1>4. Knows(c, participant, enrolled, everLive)
  BY <1>1, <1>2 DEF Knows, Call
<1>5. ~Explains(call[j], enrolled)
  BY <1>1 DEF Explains, Knows, Answers
<1>6. QED
  BY <1>3, <1>4, <1>5, CallMoves DEF ReadCampaign

LEMMA RulesRead ==
  ASSUME JoinInv, NEW j \in Calls, ReadRules(j)
  PROVE  JoinInv'
<1> DEFINE g == resolveTaskGroupID
           join == call[j].kind = "join"
           c == [call[j] EXCEPT !.group = g,
                   !.pc = IF join THEN AfterRules(g) ELSE "done",
                   !.answer = IF join THEN None ELSE "seen"]
<1>1. /\ call[j] \in Call /\ Knows(call[j], participant, enrolled, everLive)
      /\ call[j].pc = "rules" /\ everLive \subseteq Contents
  BY DEF JoinInv, JoinTypeOK, ReadRules
<1>2. g \in Nat /\ WasLive(g, everLive)
  BY DEF JoinInv, JoinTypeOK, TypeOK, RulesWereLive, resolveTaskGroupID, WasLive
<1>3. AfterRules(g) \in {"enrol", "insert"} /\ (AfterRules(g) = "insert" => g = 0)
  BY <1>2 DEF AfterRules
<1>4. c \in Call
  BY <1>1, <1>2, <1>3 DEF Call, CallPC, Answers
<1>5. Knows(c, participant, enrolled, everLive)
  BY <1>1, <1>2, <1>3 DEF Knows, Call, Answers
<1>6. ~Explains(call[j], enrolled)
  BY <1>1 DEF Explains, Knows, Answers
<1>7. QED
  BY <1>4, <1>5, <1>6, CallMoves DEF ReadRules

(* The user becomes enrolled: the call explains it.                        *)
LEMMA Enrols ==
  ASSUME JoinInv, NEW j \in Calls, EnrollTaskGroup(j) \/ EnrollAnswerLost(j)
  PROVE  JoinInv'
<1> DEFINE went == [call[j] EXCEPT !.pc = "insert"]
           lost == [call[j] EXCEPT !.pc = "done", !.answer = "error"]
<1>1. /\ call[j] \in Call /\ Knows(call[j], participant, enrolled, everLive)
      /\ call[j].pc = "enrol" /\ enrolled \subseteq Nat
      /\ enrolled' = enrolled \cup {call[j].group}
      /\ UNCHANGED <<Tables, participant>>
  BY DEF JoinInv, JoinTypeOK, EnrollTaskGroup, EnrollAnswerLost
<1>2. UNCHANGED <<participant, everLive>> /\ Grows
  BY <1>1 DEF Tables, Grows
<1>3. /\ call[j].target \in everLive \cap Eligible /\ call[j].group \in Nat
      /\ call[j].kind = "join" /\ WasLive(call[j].group, everLive)
  BY <1>1 DEF Knows, Call
<1>4. went \in Call /\ lost \in Call
  BY <1>1 DEF Call, CallPC, Answers
<1>5. /\ Knows(went, participant', enrolled', everLive')
      /\ Knows(lost, participant', enrolled', everLive')
  BY <1>1, <1>2, <1>3 DEF Knows, Call, Answers
<1>6. Explains(went, enrolled') /\ Explains(lost, enrolled')
  BY <1>1, <1>3 DEF Explains, Call
<1>7. PICK c \in {went, lost} : CallBecomes(j, c)
  BY DEF EnrollTaskGroup, EnrollAnswerLost, Goto, Answer, AfterEnrol
<1>8. /\ call' \in [Calls -> Call] /\ call'[j] = c
      /\ \A i \in Calls : Knows(call'[i], participant', enrolled', everLive')
  BY <1>2, <1>4, <1>5, <1>7, CallsKnow
<1>9. Explains(call'[j], enrolled')
  BY <1>6, <1>7, <1>8
<1>10. TypeInv' /\ RulesWereLive' /\ (everLive \subseteq Contents)'
  BY <1>1, TablesKept
<1>11. \A g \in enrolled' : WasLive(g, everLive')
  BY <1>1, <1>2, <1>3 DEF JoinInv
<1>12. JoinedIsEnrolled' /\ everLive' \cap Eligible # {} /\ enrolled' \subseteq Nat
       /\ participant' \in Participant \cup {None}
  BY <1>1, <1>2, <1>3 DEF JoinInv, JoinTypeOK, JoinedIsEnrolled
<1>13. QED
  BY <1>8, <1>9, <1>10, <1>11, <1>12 DEF JoinInv, JoinTypeOK, TypeInv

(* The user becomes a participant.                                         *)
LEMMA Joins ==
  ASSUME JoinInv, NEW j \in Calls, Join(j)
  PROVE  JoinInv'
<1> DEFINE p == [joinedAt |-> j, group |-> call[j].group]
           c == [call[j] EXCEPT !.pc = "done", !.answer = "joined",
                                !.joinedAt = j]
<1>1. /\ call[j] \in Call /\ Knows(call[j], participant, enrolled, everLive)
      /\ call[j].pc = "insert" /\ participant = None /\ participant' = p
      /\ CallBecomes(j, c) /\ UNCHANGED <<Tables, enrolled>>
  BY DEF JoinInv, JoinTypeOK, Join, CanJoin, AnswerJoined
<1>2. p \in Participant /\ p # None
  BY <1>1 DEF Participant, Call
<1>3. UNCHANGED <<enrolled, everLive>> /\ Grows
  BY <1>1 DEF Tables, Grows
<1>4. c \in Call
  BY <1>1 DEF Call, CallPC, Answers
<1>5. Knows(c, participant', enrolled', everLive')
  BY <1>1, <1>2, <1>3 DEF Knows, Call
<1>6. /\ call' \in [Calls -> Call]
      /\ \A i \in Calls : Knows(call'[i], participant', enrolled', everLive')
  BY <1>1, <1>3, <1>4, <1>5, CallsKnow
<1>7. JoinedIsEnrolled' /\ everLive' \cap Eligible # {}
  BY <1>1, <1>2, <1>3 DEF Knows, JoinedIsEnrolled
<1>8. QED
  BY <1>1, <1>2, <1>3, <1>6, <1>7, TablesKept DEF JoinInv, JoinTypeOK, TypeInv

(* A failure leaves an enrolment behind, and explains it.                  *)
LEMMA Fails ==
  ASSUME JoinInv, NEW j \in Calls, CallFails(j)
  PROVE  JoinInv'
<1> DEFINE c == [call[j] EXCEPT !.pc = "done", !.answer = "error"]
<1>1. /\ call[j] \in Call /\ Knows(call[j], participant, enrolled, everLive)
      /\ CallBecomes(j, c) /\ UNCHANGED <<Tables, participant, enrolled>>
  BY DEF JoinInv, JoinTypeOK, CallFails, Answer
<1>2. c \in Call
  BY <1>1 DEF Call, CallPC, Answers
<1>3. Knows(c, participant, enrolled, everLive)
  BY <1>1 DEF Knows, Call
<1>4. Explains(call[j], enrolled) => Explains(c, enrolled)
  BY <1>1 DEF Explains, Call
<1>5. QED
  BY <1>1, <1>2, <1>3, <1>4, CallMoves

LEMMA CallStepInv ==
  ASSUME JoinInv, NEW j \in Calls, CallStep(j)
  PROVE  JoinInv'
<1>1. call[j] \in Call /\ Knows(call[j], participant, enrolled, everLive)
  BY DEF JoinInv, JoinTypeOK
<1>2. CASE NoCampaign(j)
  <2>1. PICK a \in {"seen", "not_found"} : Answer(j, a)
    BY <1>2 DEF NoCampaign
  <2>2. QED
    BY <1>2, <2>1, Ends DEF NoCampaign, Answers
<1>3. CASE NotEligible(j)
  BY <1>3, Ends DEF NotEligible, Answers
<1>4. CASE AlreadyJoined(j)
  BY <1>4, AnswersJoined DEF AlreadyJoined
<1>5. CASE ReadExisting(j)
  BY <1>1, <1>5, AnswersJoined DEF ReadExisting, Knows
<1>6. CASE NotJoinedYet(j)
  BY <1>1, <1>6, Goes DEF NotJoinedYet, Knows
<1>7. CASE MatchUserGroup(j)
  BY <1>1, <1>7, Goes DEF MatchUserGroup, Knows
<1>8. CASE JoinConflict(j)
  BY <1>1, <1>8, Goes DEF JoinConflict, CanJoin, Knows
<1>9. QED
  BY <1>2, <1>3, <1>4, <1>5, <1>6, <1>7, <1>8, CampaignRead, RulesRead, Enrols,
     Joins, Fails DEF CallStep

-----------------------------------------------------------------------------
(* The administrators.                                                     *)

LEMMA ApplyGoesLive ==
  ASSUME JoinInv, Administer, NEW r \in Requests, ApplyToCampaign(r)
  PROVE  /\ req[r].content \in everLive' /\ req[r].content \in Contents
         /\ rules' = rules /\ req' = [req EXCEPT ![r].pc = "rules"]
<1>1. req[r] \in Local /\ req \in [Requests -> Local]
  BY DEF JoinInv, TypeInv, TypeOK
<1>2. req[r].content \in Contents
  BY <1>1 DEF Local
<1>3. row' = [status |-> "published", content |-> req[r].content] /\ row' \in Row
  BY <1>2 DEF ApplyToCampaign, Row, Status
<1>4. Live' = {req[r].content}
  BY <1>3 DEF Live
<1>5. QED
  BY <1>1, <1>2, <1>4 DEF Administer, ApplyToCampaign, Becomes

LEMMA AdministerRules ==
  ASSUME JoinInv, Administer
  PROVE  RulesWereLive'
<1>1. /\ everLive' = everLive \cup Live' /\ Next
      /\ req \in [Requests -> Local]
  BY DEF Administer, JoinInv, TypeInv, TypeOK
<1> USE DEF Becomes
<1>2. Live' \subseteq everLive'
  BY <1>1
<1>3. CASE CreateCampaign
  BY <1>1, <1>2, <1>3 DEF CreateCampaign, JoinInv, RulesWereLive
<1>4. ASSUME NEW r \in Requests, Step(r) PROVE RulesWereLive'
  <2>1. CASE ApplyToCampaign(r)
    <3>1. /\ req[r].content \in everLive' /\ rules' = rules
          /\ req' = [req EXCEPT ![r].pc = "rules"]
      BY <2>1, ApplyGoesLive
    <3>2. \A q \in Requests :
            req'[q].pc = "rules" => req'[q].content \in everLive'
      <4>1. \A q \in Requests : req'[q].content = req[q].content
        BY <1>1, <3>1 DEF Local
      <4>2. \A q \in Requests : q # r => req'[q].pc = req[q].pc
        BY <1>1, <3>1
      <4>3. QED
        BY <1>1, <3>1, <4>1, <4>2 DEF JoinInv, RulesWereLive
    <3>3. QED
      BY <1>1, <1>2, <3>1, <3>2 DEF JoinInv, RulesWereLive
  <2>2. CASE ReplaceRules(r)
    BY <1>1, <1>2, <2>2 DEF ReplaceRules, JoinInv, RulesWereLive
  <2>3. CASE MarkPublished(r) \/ WriteEdit(r) \/ Abort(r)
    BY <1>1, <1>2, <2>3 DEF MarkPublished, WriteEdit, Abort, Idle, JoinInv,
       RulesWereLive
  <2>4. CASE StartVersion(r) \/ CopyContent(r) \/ StartPublish(r)
    <3>1. /\ rules' = rules
          /\ \A q \in Requests : q # r => req'[q] = req[q]
      BY <1>1, <2>4 DEF StartVersion, CopyContent, StartPublish
    <3>2. req'[r].pc # "rules"
      <4>1. CASE StartVersion(r)
        BY <1>1, <4>1 DEF StartVersion, Idle
      <4>2. CASE CopyContent(r)
        BY <1>1, <4>2 DEF CopyContent, Local
      <4>3. CASE StartPublish(r)
        BY <1>1, <4>3 DEF StartPublish
      <4>4. QED
        BY <2>4, <4>1, <4>2, <4>3
    <3>3. QED
      BY <1>1, <1>2, <3>1, <3>2 DEF JoinInv, RulesWereLive
  <2>5. CASE InsertVersion(r) \/ InsertConflict(r)
    BY <1>1, <1>2, <2>5 DEF InsertVersion, InsertConflict, Idle, JoinInv,
       RulesWereLive
  <2>6. CASE \E v \in DOMAIN drafts, c \in Contents : StartEdit(r, v, c)
    BY <1>1, <1>2, <2>6 DEF StartEdit, JoinInv, RulesWereLive
  <2>7. QED
    BY <1>4, <2>1, <2>2, <2>3, <2>4, <2>5, <2>6 DEF Step
<1>5. QED
  BY <1>1, <1>3, <1>4 DEF Next

LEMMA AdministerInv ==
  ASSUME JoinInv, Administer
  PROVE  JoinInv'
<1>1. /\ Next /\ everLive' = everLive \cup Live'
      /\ UNCHANGED <<participant, enrolled, call>>
  BY DEF Administer, joinVars
<1>2. TypeInv'
  BY <1>1, TypeNext DEF JoinInv
<1>3. Grows
  BY <1>1 DEF Grows
<1>4. \A j \in Calls : Knows(call'[j], participant', enrolled', everLive')
  BY <1>1, <1>3, StillKnows DEF JoinInv
<1>5. Live' \subseteq Contents
  BY <1>2 DEF TypeInv, TypeOK, Live, Row
<1>6. \A g \in enrolled' : WasLive(g, everLive')
  BY <1>1 DEF JoinInv, WasLive
<1>7. QED
  BY <1>1, <1>2, <1>4, <1>5, <1>6, AdministerRules DEF JoinInv, JoinTypeOK,
     TypeInv, JoinedIsEnrolled

LEMMA JoinInvNext == JoinInv /\ [JoinNext]_allVars => JoinInv'
<1> SUFFICES ASSUME JoinInv, [JoinNext]_allVars PROVE JoinInv'
  OBVIOUS
<1>1. CASE UNCHANGED allVars
  <2>1. UNCHANGED <<participant, enrolled, call>> /\ UNCHANGED Tables
    BY <1>1 DEF allVars, joinVars, Tables
  <2>2. QED
    BY <2>1, TablesKept DEF JoinInv, JoinTypeOK, TypeInv, JoinedIsEnrolled, Tables
<1>2. QED
  BY <1>1, CallStepInv, AdministerInv DEF JoinNext

-----------------------------------------------------------------------------
(* Every state of the user's row, enrolments and calls is well typed.      *)
THEOREM JoinTypeCorrect == JoinSpec => []JoinTypeOK
BY JoinInvInit, JoinInvNext, PTL DEF JoinSpec, JoinInv

(* All answers to a user's joins agree with the one row that is stored.    *)
THEOREM JoinsAgree == JoinSpec => []JoinAnswersAgree
<1>1. JoinInv => JoinAnswersAgree
  BY DEF JoinInv, Knows, JoinAnswersAgree
<1>2. QED
  BY JoinInvInit, JoinInvNext, <1>1, PTL DEF JoinSpec

(* Nobody participates who is not enrolled, wherever a join stops.         *)
THEOREM ParticipantsEnrolled == JoinSpec => []JoinedIsEnrolled
BY JoinInvInit, JoinInvNext, PTL DEF JoinSpec, JoinInv

(* An enrolment without participant is the trace of a failure, or about to *)
(* become a participation.                                                 *)
THEOREM OrphansAreFailures == JoinSpec => []EnrolledAloneOnlyByFailure
<1>1. JoinInv => EnrolledAloneOnlyByFailure
  BY DEF JoinInv, Explains, EnrolledAloneOnlyByFailure
<1>2. QED
  BY JoinInvInit, JoinInvNext, <1>1, PTL DEF JoinSpec

(* What users join on was live, however publishes overlap.                 *)
THEOREM JoinsOnLiveContent == JoinSpec => []OnLiveContent
<1>1. JoinInv => OnLiveContent
  BY DEF JoinInv, Knows, WasLive, OnLiveContent
<1>2. QED
  BY JoinInvInit, JoinInvNext, <1>1, PTL DEF JoinSpec

(* The user's calls leave the administration alone: seen on its tables,    *)
(* the composition behaves like CampaignLifecycle, whose theorems hold for *)
(* it as well.                                                             *)
THEOREM JoinLeavesAdministration == JoinSpec => Spec
<1>1. JoinInit => Init
  BY DEF JoinInit
<1>2. [JoinNext]_allVars => [Next]_vars
  BY DEF JoinNext, Administer, CallStep, ReadCampaign, NoCampaign,
     AlreadyJoined, NotJoinedYet, MatchUserGroup, NotEligible, ReadRules,
     EnrollTaskGroup, EnrollAnswerLost, Join, JoinConflict, ReadExisting,
     CallFails, Tables, allVars, vars
<1>3. QED
  BY <1>1, <1>2, PTL DEF JoinSpec, Spec

(* Only validated content is joined on.                                    *)
THEOREM JoinedContentValidated == JoinSpec => LiveContentValidated
BY JoinLeavesAdministration, OnlyValidatedGoesLive, PTL
=============================================================================
