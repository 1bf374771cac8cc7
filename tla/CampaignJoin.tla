---------------------------- MODULE CampaignJoin ----------------------------
(***************************************************************************)
(* One user's requests to a campaign that is being administered:           *)
(* service/web_campaign_service.go (JoinCampaign, GetCampaignRules) and    *)
(* service/admin_participant_service.go (ListParticipants) on the tables   *)
(* of CampaignLifecycle and campaign_participants.                         *)
(*                                                                         *)
(* (campaign, user) is the key of a participant, so one user stands for    *)
(* all.  No two statements share a transaction, and the remote calls lie   *)
(* between them: a step is one statement or one call.                      *)
(***************************************************************************)
EXTENDS CampaignLifecycle

CONSTANTS
  Calls,       \* the user's requests, each made once, also concurrently
  Kinds,       \* which operations the calls may be
  Eligible,    \* contents whose target user group the user belongs to
  TaskGroup    \* TaskGroup[c]: task group of the rules of content c, 0: none

AllKinds == {"join", "rules", "list"}

ASSUME CampaignJoinAssumption ==
  /\ Kinds \subseteq AllKinds
  /\ Eligible \subseteq Contents
  /\ TaskGroup \in [Contents -> Nat]
  /\ None \notin Calls

VARIABLES
  participant,  \* the user's row of campaign_participants, or None
  enrolled,     \* task service: task groups the user is enrolled in
  call,         \* the user's requests
  everLive      \* history: every content the campaign was live with

joinVars == <<participant, enrolled, call>>
allVars  == <<vars, joinVars, everLive>>

(* joinedAt names the call whose clock was read; group is the task group   *)
(* that the call found, kept in participant as a history.                  *)
Participant == [joinedAt : Calls, group : Nat]

CallPC == {"campaign", "participant", "match", "rules", "enrol", "insert",
           "reread", "done"}
Answers == {"joined", "not_eligible", "not_found", "error", "seen"}

ASSUME CampaignJoinRowsAssumption ==
  None \notin Row \cup Participant \cup Answers

Call == [kind : Kinds, pc : CallPC, target : Contents \cup {None},
         group : Nat, answer : Answers \cup {None},
         joinedAt : Calls \cup {None}]

NewCall(k) == [kind |-> k, pc |-> "campaign", target |-> None, group |-> 0,
               answer |-> None, joinedAt |-> None]

Live == IF row = None \/ row.status = "draft" THEN {} ELSE {row.content}

JoinInit ==
  /\ Init
  /\ participant = None
  /\ enrolled = {}
  /\ \E k \in [Calls -> Kinds] : call = [j \in Calls |-> NewCall(k[j])]
  /\ everLive = Live

CallBecomes(j, c) == call' = [call EXCEPT ![j] = c]

Goto(j, pc) == CallBecomes(j, [call[j] EXCEPT !.pc = pc])

Answer(j, a) == CallBecomes(j, [call[j] EXCEPT !.pc = "done", !.answer = a])

AnswerJoined(j, at) ==
  CallBecomes(j, [call[j] EXCEPT !.pc = "done", !.answer = "joined",
                                 !.joinedAt = at])

Tables == <<vars, everLive>>   \* what the user's calls only read

-----------------------------------------------------------------------------
(* Mutant of MayJoin: any campaign that exists.                            *)
RowExists == row # None

(* requirePublishedCampaign.                                               *)
MayJoin == Live # {}

(* The first read of every operation.  Without a published campaign the    *)
(* user's operations answer 404, the administrator's list is empty.        *)
ReadCampaign(j) ==
  /\ call[j].pc = "campaign" /\ MayJoin
  /\ CallBecomes(j, [call[j] EXCEPT
       !.pc = IF call[j].kind = "join" THEN "participant" ELSE "rules",
       !.target = row.content])
  /\ UNCHANGED <<Tables, participant, enrolled>>

NoCampaign(j) ==
  /\ call[j].pc = "campaign" /\ ~MayJoin
  /\ Answer(j, IF call[j].kind = "list" /\ row # None THEN "seen"
               ELSE "not_found")
  /\ UNCHANGED <<Tables, participant, enrolled>>

(* "Idempotent: already joined": the stored row is the answer.             *)
AlreadyJoined(j) ==
  /\ call[j].pc = "participant" /\ participant # None
  /\ AnswerJoined(j, participant.joinedAt)
  /\ UNCHANGED <<Tables, participant, enrolled>>

NotJoinedYet(j) ==
  /\ call[j].pc = "participant" /\ participant = None
  /\ Goto(j, "match")
  /\ UNCHANGED <<Tables, participant, enrolled>>

(* MatchUserGroup for the target group of the row read before; group 0     *)
(* matches everybody without a call.                                       *)
MatchUserGroup(j) ==
  /\ call[j].pc = "match" /\ call[j].target \in Eligible
  /\ Goto(j, "rules")
  /\ UNCHANGED <<Tables, participant, enrolled>>

NotEligible(j) ==
  /\ call[j].pc = "match" /\ call[j].target \notin Eligible
  /\ Answer(j, "not_eligible")
  /\ UNCHANGED <<Tables, participant, enrolled>>

(* The first task-group rule of the rules as they are now.                 *)
resolveTaskGroupID == IF rules = None THEN 0 ELSE TaskGroup[rules]

(* Mutant of AfterRules: the row is written before the user is enrolled.   *)
InsertFirst(g) == "insert"

AfterRules(g) == IF g > 0 THEN "enrol" ELSE "insert"

ReadRules(j) ==
  /\ call[j].pc = "rules"
  /\ CallBecomes(j, [call[j] EXCEPT
       !.group = resolveTaskGroupID,
       !.pc = IF call[j].kind = "join" THEN AfterRules(resolveTaskGroupID)
              ELSE "done",
       !.answer = IF call[j].kind = "join" THEN None ELSE "seen"])
  /\ UNCHANGED <<Tables, participant, enrolled>>

(* Mutant of AfterEnrol: the participant row is left for later.            *)
AnswerAtOnce == "done"

AfterEnrol == "insert"

EnrollTaskGroup(j) ==
  /\ call[j].pc = "enrol"
  /\ enrolled' = enrolled \cup {call[j].group}
  /\ Goto(j, AfterEnrol)
  /\ UNCHANGED <<Tables, participant>>

(* The task service enrols the user, but its answer is lost.               *)
EnrollAnswerLost(j) ==
  /\ MayAbort /\ call[j].pc = "enrol"
  /\ enrolled' = enrolled \cup {call[j].group}
  /\ Answer(j, "error")
  /\ UNCHANGED <<Tables, participant>>

(* Mutant of CanJoin: the insert replaces a row that is there.             *)
Upsert == TRUE

(* ON CONFLICT (campaign_id, user_id) DO NOTHING.                          *)
CanJoin == participant = None

Join(j) ==
  /\ call[j].pc = "insert" /\ CanJoin
  /\ participant' = [joinedAt |-> j, group |-> call[j].group]
  /\ AnswerJoined(j, j)
  /\ UNCHANGED <<Tables, enrolled>>

JoinConflict(j) ==
  /\ call[j].pc = "insert" /\ ~CanJoin
  /\ Goto(j, "reread")
  /\ UNCHANGED <<Tables, participant, enrolled>>

ReadExisting(j) ==
  /\ call[j].pc = "reread"
  /\ AnswerJoined(j, participant.joinedAt)
  /\ UNCHANGED <<Tables, participant, enrolled>>

(* A statement or a remote call fails, or the client has gone and its      *)
(* context is cancelled: the rest of the request does not happen.          *)
CallFails(j) ==
  /\ MayAbort /\ call[j].pc # "done"
  /\ Answer(j, "error")
  /\ UNCHANGED <<Tables, participant, enrolled>>

-----------------------------------------------------------------------------
CallStep(j) ==
  \/ ReadCampaign(j) \/ NoCampaign(j)
  \/ AlreadyJoined(j) \/ NotJoinedYet(j)
  \/ MatchUserGroup(j) \/ NotEligible(j)
  \/ ReadRules(j) \/ EnrollTaskGroup(j) \/ EnrollAnswerLost(j)
  \/ Join(j) \/ JoinConflict(j) \/ ReadExisting(j)
  \/ CallFails(j)

Administer ==
  /\ Next
  /\ everLive' = everLive \cup Live'
  /\ UNCHANGED joinVars

JoinNext == Administer \/ \E j \in Calls : CallStep(j)

JoinSpec == JoinInit /\ [][JoinNext]_allVars

-----------------------------------------------------------------------------
(* Correctness.                                                            *)

(* Every variable keeps its type.                                          *)
JoinTypeOK ==
  /\ TypeOK
  /\ participant \in Participant \cup {None}
  /\ enrolled \subseteq Nat
  /\ call \in [Calls -> Call]
  /\ everLive \subseteq Contents

(* "Idempotent": whichever calls race, repeat or fail, all that answer     *)
(* that the user has joined give the one time that is stored.              *)
JoinAnswersAgree ==
  \A j \in Calls : call[j].answer = "joined" =>
    participant # None /\ call[j].joinedAt = participant.joinedAt

(* A user is a participant only once enrolled for the task group that the  *)
(* join found: otherwise completions of its tasks would never arrive.      *)
JoinedIsEnrolled ==
  participant # None => participant.group = 0 \/ participant.group \in enrolled

(* The other way round an enrolment without participant row remains only   *)
(* while a call is about to insert the row, or after a call that failed;   *)
(* a call that was refused has enrolled nobody.                            *)
EnrolledAloneOnlyByFailure ==
  enrolled # {} /\ participant = None =>
    \E j \in Calls : /\ call[j].kind = "join" /\ call[j].group \in enrolled
                     /\ call[j].pc = "insert" \/ call[j].answer = "error"

(* Whatever administrators publish meanwhile, a join and an enrolment rest *)
(* on contents the campaign really was live with: one that admitted the    *)
(* user and one that had the task group.  The same holds for the group     *)
(* that the read operations answer.                                        *)
OnLiveContent ==
  /\ participant # None \/ enrolled # {} => everLive \cap Eligible # {}
  /\ \A g \in enrolled \cup {call[j].group : j \in Calls} :
       g = 0 \/ \E c \in everLive : TaskGroup[c] = g
=============================================================================
