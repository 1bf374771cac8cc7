------------------------ MODULE CampaignVersionsProofs ------------------------
(* While requests follow one another, CampaignLifecycle implements         *)
(* CampaignVersions, whichever statements of a request fail.               *)
(*                                                                         *)
(* Alone is assumed of the behaviour and not of the set of requests: any   *)
(* number of clients may call, as long as none calls while a request runs. *)
EXTENDS CampaignLifecycleProofs

(* At most one request is in progress.                                     *)
Alone ==
  \A r, q \in Requests : req[r].pc # "idle" /\ req[q].pc # "idle" => r = q

(* What the request in progress knows still holds: nobody else writes.     *)
Holds(r) ==
  /\ req[r].pc # "idle" => req[r].version = Latest
  /\ req[r].pc \in {"copy", "insert"} => NeedsVersion
  /\ req[r].pc = "insert" =>
       req[r].content = IF Latest > 0 THEN drafts[Latest].content ELSE NameOnly
  /\ req[r].pc = "edit" => Latest > 0 /\ drafts[Latest].status = "draft"
  /\ Carrying(r) =>
       /\ Latest > 0
       /\ drafts[Latest] = [status |-> "draft", content |-> req[r].content]
  /\ Publishing(r) =>
       row = [status |-> "published", content |-> req[r].content]
  /\ req[r].pc = "mark" => rules = req[r].content

Live(c) == row = [status |-> "published", content |-> c] /\ rules = c

OneInv ==
  /\ ValidInv
  /\ OnlyLatestDraft
  /\ row = None => drafts = << >> /\ Quiet
  /\ \A r \in Requests : Holds(r)
  /\ Latest > 0 /\ drafts[Latest].status = "published" =>
       Live(drafts[Latest].content)
  /\ ~MayAbort /\ Latest > 1 /\ drafts[Latest].status = "draft" =>
       Live(drafts[Latest - 1].content) \/ \E r \in Requests : Publishing(r)

-----------------------------------------------------------------------------
(* A step is that of the only request in progress.                         *)
LEMMA OthersIdle ==
  ASSUME TypeOK, Alone, Alone', NEW r \in Requests, Step(r)
  PROVE  /\ \A q \in Requests \ {r} : req[q].pc = "idle" /\ req'[q] = req[q]
         /\ req \in [Requests -> Local] /\ req[r] \in Local
<1> USE DEF Becomes
<1>1. req \in [Requests -> Local] /\ req[r] \in Local /\ Idle.pc = "idle"
  BY DEF TypeOK, Idle
<1>2. ASSUME NEW j, Becomes(r, j)
      PROVE  req'[r] = j /\ \A q \in Requests \ {r} : req'[q] = req[q]
  BY <1>1, <1>2
<1>3. \A q \in Requests \ {r} : req'[q] = req[q]
  BY <1>2 DEF Step, StartVersion, CopyContent, InsertVersion, InsertConflict,
     StartEdit, WriteEdit, StartPublish, ApplyToCampaign, ReplaceRules,
     MarkPublished, Abort
<1>4. req[r].pc # "idle" \/ req'[r].pc # "idle"
  <2>1. CASE StartVersion(r)
    BY <1>1, <1>2, <2>1 DEF StartVersion, Idle
  <2>2. ASSUME NEW v \in DOMAIN drafts, NEW c \in Contents, StartEdit(r, v, c)
        PROVE  req'[r].pc # "idle"
    BY <1>1, <1>2, <2>2 DEF StartEdit
  <2>3. CASE StartPublish(r)
    BY <1>2, <2>3 DEF StartPublish
  <2>4. QED
    BY <2>1, <2>2, <2>3 DEF Step, CopyContent, InsertVersion, InsertConflict,
       WriteEdit, ApplyToCampaign, ReplaceRules, MarkPublished, Abort
<1>5. QED
  BY <1>1, <1>3, <1>4 DEF Alone

LEMMA OneInit == Init => OneInv
<1> SUFFICES ASSUME Init PROVE OneInv
  OBVIOUS
<1>1. ValidInv
  BY TypeInit DEF Init, ValidInv, Carrying, Idle, Published
<1>2. Latest = 0 /\ \A r \in Requests : req[r] = Idle
  BY DEF Init, Latest
<1>3. QED
  BY <1>1, <1>2 DEF OneInv, Init, OnlyLatestDraft, Holds, Idle, Carrying,
     Publishing, Quiet

(* The versions before the newest are published, the newest is either.     *)
LEMMA VersionFacts ==
  ASSUME OneInv
  PROVE  /\ TypeInv /\ TypeOK /\ Latest \in Nat /\ drafts \in Seq(Draft)
         /\ DOMAIN drafts = 1 .. Latest
         /\ \A v \in DOMAIN drafts :
              /\ drafts[v] \in Draft
              /\ v < Latest => drafts[v].status = "published"
BY RowsTyped DEF OneInv, ValidInv, TypeInv, OnlyLatestDraft

LEMMA ValidStep == ValidInv /\ [Next]_vars => ValidInv'
BY TypeNext, ValidRequests, ValidVersions DEF ValidInv, Published

(* Steps that start a request or take it further without writing.          *)
LEMMA QuietSteps ==
  ASSUME OneInv, Alone, Alone', ValidInv', NEW r \in Requests,
         \/ StartVersion(r) \/ CopyContent(r) \/ InsertConflict(r)
         \/ \E v \in DOMAIN drafts, c \in Contents : StartEdit(r, v, c)
         \/ StartPublish(r) \/ Abort(r)
  PROVE  OneInv'
<1> USE DEF Becomes
<1>1. /\ Step(r) /\ UNCHANGED <<row, drafts, rules>>
      /\ Holds(r) /\ Idle.pc = "idle"
  BY DEF Step, StartVersion, CopyContent, InsertConflict, StartEdit,
     StartPublish, Abort, OneInv, Idle
<1>2. /\ \A q \in Requests \ {r} : req[q].pc = "idle" /\ req'[q] = req[q]
      /\ req \in [Requests -> Local] /\ req[r] \in Local
  BY <1>1, OthersIdle, VersionFacts
<1>3. Holds(r)'
  <2>1. CASE Becomes(r, Idle)
    BY <1>1, <1>2, <2>1 DEF Holds, Carrying, Publishing
  <2>2. CASE StartVersion(r)
    <3>1. req'[r].pc = "copy" /\ req'[r].version = Latest /\ NeedsVersion
      BY <1>2, <2>2 DEF StartVersion, Idle
    <3>2. QED
      BY <1>1, <3>1 DEF Holds, Carrying, Publishing, Latest, NeedsVersion
  <2>3. CASE CopyContent(r)
    <3>1. /\ req[r].version = Latest /\ NeedsVersion
          /\ req'[r].pc = "insert" /\ req'[r].version = Latest
          /\ req'[r].content = IF Latest > 0 THEN drafts[Latest].content
                               ELSE NameOnly
      BY <1>1, <1>2, <2>3 DEF CopyContent, Holds, Local
    <3>2. QED
      BY <1>1, <3>1 DEF Holds, Carrying, Publishing, Latest, NeedsVersion
  <2>4. ASSUME NEW v \in DOMAIN drafts, NEW c \in Contents, StartEdit(r, v, c)
        PROVE  Holds(r)'
    <3>1. v = Latest /\ Latest > 0 /\ drafts[Latest].status = "draft"
      BY <2>4, VersionFacts DEF StartEdit, Editable
    <3>2. req'[r].pc = "edit" /\ req'[r].version = Latest
      BY <1>2, <2>4, <3>1 DEF StartEdit
    <3>3. QED
      BY <1>1, <3>1, <3>2 DEF Holds, Carrying, Publishing, Latest
  <2>5. CASE StartPublish(r)
    <3>1. /\ req'[r].pc = "apply" /\ req'[r].version = Latest /\ Latest > 0
          /\ req'[r].content = drafts[Latest].content
          /\ drafts[Latest].status = "draft"
      BY <1>2, <2>5 DEF StartPublish
    <3>2. drafts[Latest] = [status |-> "draft", content |-> req'[r].content]
      BY <3>1, VersionFacts DEF Draft
    <3>3. QED
      BY <1>1, <3>1, <3>2 DEF Holds, Carrying, Publishing, Latest
  <2>6. QED
    BY <2>1, <2>2, <2>3, <2>4, <2>5 DEF InsertConflict, Abort
<1>4. \A q \in Requests : Holds(q)'
  BY <1>1, <1>2, <1>3 DEF Holds, Carrying, Publishing
<1>5. row = None => Quiet'
  <2> SUFFICES ASSUME row = None PROVE FALSE
    OBVIOUS
  <2>1. drafts = << >> /\ Latest = 0 /\ req[r].pc = "idle"
    BY DEF OneInv, Quiet, Latest
  <2>2. QED
    BY <2>1 DEF StartVersion, CopyContent, InsertConflict, StartEdit,
       StartPublish, Abort
<1>6. ASSUME ~MayAbort, Latest > 1, drafts[Latest].status = "draft"
      PROVE  Live(drafts[Latest - 1].content) \/ \E q \in Requests : Publishing(q)'
  <2>1. Live(drafts[Latest - 1].content) \/ \E q \in Requests : Publishing(q)
    BY <1>6 DEF OneInv
  <2>2. ~Publishing(r)
    BY <1>6 DEF Publishing, StartVersion, CopyContent, InsertConflict,
       StartEdit, StartPublish, Abort
  <2>3. QED
    BY <1>2, <2>1, <2>2 DEF Publishing
<1>7. QED
  BY <1>1, <1>4, <1>5, <1>6 DEF OneInv, OnlyLatestDraft, Live, Latest

(* Steps that write versions, the campaign row or its rules.               *)
LEMMA WriteSteps ==
  ASSUME OneInv, Alone, Alone', ValidInv', NEW r \in Requests,
         \/ InsertVersion(r) \/ WriteEdit(r) \/ MarkPublished(r)
         \/ ApplyToCampaign(r) \/ ReplaceRules(r)
  PROVE  OneInv'
<1> USE DEF Becomes
<1>1. /\ \A q \in Requests \ {r} : req[q].pc = "idle" /\ req'[q] = req[q]
      /\ req \in [Requests -> Local] /\ req[r] \in Local
      /\ Holds(r) /\ Idle.pc = "idle" /\ req[r].pc # "idle"
  BY OthersIdle, VersionFacts DEF Step, OneInv, Idle, InsertVersion, WriteEdit,
     MarkPublished, ApplyToCampaign, ReplaceRules
<1>2. /\ TypeInv /\ Latest \in Nat /\ DOMAIN drafts = 1 .. Latest
      /\ drafts \in Seq(Draft) /\ row # None
      /\ req[r].version = Latest
  BY <1>1, VersionFacts DEF OneInv, Quiet, Holds
<1>3. ASSUME Holds(r)' PROVE \A q \in Requests : Holds(q)'
  BY <1>1, <1>3 DEF Holds, Carrying, Publishing
<1>4. ASSUME Becomes(r, Idle) PROVE \A q \in Requests : Holds(q)'
  BY <1>1, <1>3, <1>4 DEF Holds, Carrying, Publishing
<1>5. CASE InsertVersion(r)
  <2>1. /\ DOMAIN drafts' = DOMAIN drafts \cup {Latest + 1}
        /\ Latest' = Latest + 1
        /\ \A v \in DOMAIN drafts : drafts'[v] = drafts[v]
        /\ drafts'[Latest + 1].status = "draft"
        /\ UNCHANGED <<row, rules>> /\ Becomes(r, Idle)
        /\ req[r].pc = "insert"
    BY <1>2, <1>5, InsertFacts DEF InsertVersion
  <2>2. Latest > 0 => drafts[Latest].status = "published"
    BY <1>1, <1>2, <2>1, VersionFacts DEF Holds, NeedsVersion, Draft, Status
  <2>3. OnlyLatestDraft'
    BY <1>2, <2>1, <2>2, VersionFacts DEF OnlyLatestDraft
  <2>4. ASSUME Latest > 0
        PROVE  Live(drafts[Latest].content) /\ drafts'[Latest] = drafts[Latest]
    BY <1>2, <2>1, <2>2, <2>4 DEF OneInv
  <2>5. QED
    BY <1>2, <1>4, <2>1, <2>3, <2>4 DEF OneInv, Live
<1>6. CASE WriteEdit(r)
  <2>1. /\ DOMAIN drafts' = DOMAIN drafts /\ Latest' = Latest
        /\ \A v \in DOMAIN drafts : v # Latest => drafts'[v] = drafts[v]
        /\ drafts'[Latest] = [status |-> "draft", content |-> req[r].content]
        /\ UNCHANGED <<row, rules>> /\ Becomes(r, Idle)
        /\ drafts[Latest].status = "draft" /\ Latest > 0
    <3>1. ~MarkPublished(r) /\ req[r].status = "draft" /\ Latest > 0
            /\ drafts[Latest].status = "draft"
      BY <1>1, <1>6 DEF WriteEdit, MarkPublished, OneInv, ValidInv, Holds
    <3>2. drafts'[Latest] = [status |-> IF MarkPublished(r) THEN "published"
                                        ELSE req[r].status,
                             content |-> req[r].content]
      BY <1>2, <1>6, <3>1, WriteFacts
    <3>3. QED
      BY <1>2, <1>6, <3>1, <3>2, WriteFacts DEF WriteEdit
  <2>2. OnlyLatestDraft'
    BY <1>2, <2>1, VersionFacts DEF OnlyLatestDraft
  <2>3. ASSUME ~MayAbort, Latest > 1
        PROVE  /\ Live(drafts[Latest - 1].content)
               /\ drafts'[Latest - 1] = drafts[Latest - 1]
    <3>1. ~ \E q \in Requests : Publishing(q)
      BY <1>1, <1>6 DEF Publishing, WriteEdit
    <3>2. QED
      BY <1>2, <2>1, <2>3, <3>1 DEF OneInv
  <2>4. QED
    BY <1>2, <1>4, <2>1, <2>2, <2>3 DEF OneInv, Live
<1>7. CASE MarkPublished(r)
  <2>1. /\ DOMAIN drafts' = DOMAIN drafts /\ Latest' = Latest
        /\ \A v \in DOMAIN drafts : v # Latest => drafts'[v] = drafts[v]
        /\ drafts'[Latest] =
             [status |-> "published", content |-> req[r].content]
        /\ UNCHANGED <<row, rules>> /\ Becomes(r, Idle)
        /\ Latest > 0 /\ row.content = req[r].content /\ rules = req[r].content
        /\ row = [status |-> "published", content |-> req[r].content]
    <3>1. /\ Latest > 0 /\ rules = req[r].content
          /\ row = [status |-> "published", content |-> req[r].content]
      BY <1>1, <1>7 DEF MarkPublished, Holds, Carrying, Publishing
    <3>2. drafts'[Latest] = [status |-> IF MarkPublished(r) THEN "published"
                                        ELSE req[r].status,
                             content |-> req[r].content]
      BY <1>2, <1>7, <3>1, WriteFacts
    <3>3. QED
      BY <1>2, <1>7, <3>1, <3>2, WriteFacts DEF MarkPublished
  <2>2. OnlyLatestDraft'
    BY <1>2, <2>1, VersionFacts DEF OnlyLatestDraft
  <2>3. QED
    BY <1>2, <1>4, <2>1, <2>2 DEF OneInv, Live
<1>8. CASE ApplyToCampaign(r)
  <2>1. /\ req'[r].pc = "rules" /\ req'[r].version = Latest
        /\ req'[r].content = req[r].content
        /\ row' = [status |-> "published", content |-> req[r].content]
        /\ UNCHANGED <<drafts, rules>> /\ req[r].pc = "apply"
    BY <1>1, <1>2, <1>8 DEF ApplyToCampaign, Local
  <2>2. /\ Latest > 0
        /\ drafts[Latest] = [status |-> "draft", content |-> req[r].content]
    BY <1>1, <2>1 DEF Holds, Carrying
  <2>3. Holds(r)'
    BY <2>1, <2>2 DEF Holds, Carrying, Publishing, Latest
  <2>4. row' # None /\ Publishing(r)'
    <3>1. row' \in Row
      BY <1>1, <2>1 DEF Local, Row, Status
    <3>2. QED
      BY <2>1, <3>1, CampaignLifecycleAssumption DEF Publishing
  <2>5. QED
    BY <1>3, <2>1, <2>2, <2>3, <2>4 DEF OneInv, OnlyLatestDraft, Latest
<1>9. CASE ReplaceRules(r)
  <2>1. /\ req'[r].pc = "mark" /\ req'[r].version = Latest
        /\ req'[r].content = req[r].content /\ rules' = req[r].content
        /\ UNCHANGED <<row, drafts>> /\ req[r].pc = "rules"
    BY <1>1, <1>2, <1>9 DEF ReplaceRules, Local
  <2>2. /\ Latest > 0
        /\ drafts[Latest] = [status |-> "draft", content |-> req[r].content]
        /\ row = [status |-> "published", content |-> req[r].content]
    BY <1>1, <2>1 DEF Holds, Carrying, Publishing
  <2>3. Holds(r)' /\ Publishing(r)'
    BY <2>1, <2>2 DEF Holds, Carrying, Publishing, Latest
  <2>4. QED
    BY <1>2, <1>3, <2>1, <2>2, <2>3 DEF OneInv, OnlyLatestDraft, Latest
<1>10. QED
  BY <1>5, <1>6, <1>7, <1>8, <1>9

LEMMA OneStep == OneInv /\ Alone /\ Alone' /\ [Next]_vars => OneInv'
<1> SUFFICES ASSUME OneInv, Alone, Alone', [Next]_vars PROVE OneInv'
  OBVIOUS
<1>1. ValidInv'
  BY ValidStep DEF OneInv
<1>2. CASE CreateCampaign
  <2>1. /\ Quiet /\ Quiet' /\ UNCHANGED req /\ Latest' = 1
        /\ drafts' = <<[status |-> "draft", content |-> NameOnly]>>
        /\ row' = [status |-> "draft", content |-> NameOnly]
    BY <1>2 DEF CreateCampaign, OneInv, Quiet, Latest
  <2>2. row' # None
    BY <2>1, CampaignLifecycleAssumption DEF Row, Status
  <2>3. \A r \in Requests : Holds(r)'
    BY <2>1 DEF Holds, Quiet, Carrying, Publishing
  <2>4. QED
    BY <1>1, <2>1, <2>2, <2>3 DEF OneInv, OnlyLatestDraft
<1>3. CASE UNCHANGED vars
  BY <1>1, <1>3 DEF vars, OneInv, OnlyLatestDraft, Holds, Quiet, Live,
     Carrying, Publishing, Latest, NeedsVersion
<1>4. QED
  BY <1>1, <1>2, <1>3, QuietSteps, WriteSteps DEF Next, Step

-----------------------------------------------------------------------------
(* The invariant holds as long as requests have followed one another.      *)
LEMMA OneCorrect == Spec /\ []Alone => []OneInv
BY OneInit, OneStep, PTL DEF Spec

(* A publish that stopped half way can be repeated: unless campaign row    *)
(* and rules are those of the newest version, that version is a draft.     *)
THEOREM TornPublishCanRepeat == Spec /\ []Alone => []TornPublishRepeatable
<1>1. OneInv => TornPublishRepeatable
  <2> SUFFICES ASSUME OneInv, Published # {}, drafts[Latest].status # "draft"
               PROVE  row.content = drafts[Latest].content
                      /\ rules = drafts[Latest].content
    BY DEF TornPublishRepeatable
  <2>1. Latest > 0 /\ drafts[Latest].status = "published"
    BY VersionFacts DEF Published, Draft, Status
  <2>2. QED
    BY <2>1 DEF OneInv, Live
<1>2. QED
  BY <1>1, OneCorrect, PTL

(* Without failures, the campaign and its rules are those of the newest    *)
(* published version whenever no request is in progress.                   *)
THEOREM UnfailingPublishIsLive ==
  ~MayAbort => (Spec /\ []Alone => []LiveIsLatestPublished)
<1> SUFFICES ASSUME ~MayAbort
             PROVE  Spec /\ []Alone => []LiveIsLatestPublished
  OBVIOUS
<1>1. OneInv => LiveIsLatestPublished
  <2> SUFFICES ASSUME OneInv, Quiet, Published # {}
               PROVE  Live(drafts[LatestPublished].content)
    BY DEF LiveIsLatestPublished, Live
  <2> DEFINE n == IF drafts[Latest].status = "published" THEN Latest
                  ELSE Latest - 1
  <2>1. /\ n \in Published /\ \A v \in Published : v <= n
        /\ n # Latest => Latest > 1 /\ drafts[Latest].status = "draft"
    BY VersionFacts DEF Published, Draft, Status
  <2>2. LatestPublished = n
    <3>1. LatestPublished \in Published /\ n <= LatestPublished
      BY <2>1 DEF LatestPublished
    <3>2. QED
      BY <2>1, <3>1, VersionFacts DEF Published
  <2>3. ~ \E r \in Requests : Publishing(r)
    BY DEF Quiet, Publishing
  <2>4. QED
    BY <2>1, <2>2, <2>3, VersionFacts DEF OneInv, Published
<1>2. QED
  BY <1>1, OneCorrect, PTL

-----------------------------------------------------------------------------
(* The refinement.                                                         *)

LEMMA InitImplements == Init => Abstract!Init
<1> SUFFICES ASSUME Init PROVE Abstract!Init
  OBVIOUS
<1>1. ShownVersions = << >>
  BY DEF Init, ShownVersions
<1>2. ShownLive \in Contents \cup {None}
  BY DEF Init, Row, ShownLive
<1>3. AnyPublishing = FALSE
  BY DEF Init, AnyPublishing, Publishing, Idle
<1>4. QED
  BY <1>1, <1>2, <1>3 DEF Abstract!Init

(* The versions the mapping shows, for drafts d and requests q.            *)
Busy(q, r) == q[r].pc \in {"rules", "mark"}
Shown(d, q) ==
  [v \in DOMAIN d |->
     IF \E r \in Requests : Busy(q, r) /\ q[r].version = v
     THEN [d[v] EXCEPT !.status = "published"] ELSE d[v]]

LEMMA ShownQuiet ==
  ASSUME NEW d \in Seq(Draft), NEW q, \A r \in Requests : ~Busy(q, r)
  PROVE  Shown(d, q) = d
<1>1. d = [v \in DOMAIN d |-> d[v]]
  OBVIOUS
<1>2. QED
  BY <1>1 DEF Shown

LEMMA ShownBusy ==
  ASSUME NEW d \in Seq(Draft), NEW q, NEW n \in DOMAIN d,
         \E r \in Requests : Busy(q, r),
         \A r \in Requests : Busy(q, r) => q[r].version = n
  PROVE  Shown(d, q) =
           [d EXCEPT ![n] = [status |-> "published", content |-> d[n].content]]
<1>1. \A v \in DOMAIN d :
        /\ d[v] \in Draft
        /\ v = n <=> \E r \in Requests : Busy(q, r) /\ q[r].version = v
  OBVIOUS
<1>2. [d[n] EXCEPT !.status = "published"] =
        [status |-> "published", content |-> d[n].content]
  BY <1>1 DEF Draft
<1>3. DOMAIN d = 1 .. Len(d)
  OBVIOUS
<1>4. QED
  BY <1>1, <1>2, <1>3 DEF Shown

LEMMA MappingShows ==
  /\ ShownVersions = Shown(drafts, req) /\ ShownVersions' = Shown(drafts', req')
  /\ AnyPublishing = (\E r \in Requests : Busy(req, r))
  /\ AnyPublishing' = (\E r \in Requests : Busy(req', r))
BY DEF ShownVersions, Shown, AnyPublishing, Marked, Publishing, Busy

(* The invariant in terms of the mapping.                                  *)
LEMMA ShownState ==
  ASSUME OneInv
  PROVE  /\ (\A r \in Requests : ~Busy(req, r)) => ShownVersions = drafts
         /\ (\E r \in Requests : Busy(req, r)) =>
              /\ Latest \in DOMAIN drafts
              /\ ShownVersions =
                   [drafts EXCEPT ![Latest] = [status |-> "published",
                                      content |-> drafts[Latest].content]]
<1>1. \A r \in Requests : Busy(req, r) => req[r].version = Latest /\ Latest > 0
  BY DEF OneInv, Holds, Busy, Carrying
<1>2. drafts \in Seq(Draft) /\ DOMAIN drafts = 1 .. Latest /\ Latest \in Nat
  BY VersionFacts
<1>3. QED
  BY <1>1, <1>2, ShownQuiet, ShownBusy, MappingShows

LEMMA ShownStateNext ==
  ASSUME OneInv'
  PROVE  /\ (\A r \in Requests : ~Busy(req', r)) => ShownVersions' = drafts'
         /\ (\E r \in Requests : Busy(req', r)) =>
              /\ Latest' \in DOMAIN drafts'
              /\ ShownVersions' =
                   [drafts' EXCEPT ![Latest'] = [status |-> "published",
                                      content |-> drafts'[Latest'].content]]
<1>1. \A r \in Requests :
        Busy(req', r) => req'[r].version = Latest' /\ Latest' > 0
  BY DEF OneInv, Holds, Busy, Carrying
<1>2. drafts' \in Seq(Draft) /\ DOMAIN drafts' = 1 .. Latest' /\ Latest' \in Nat
  BY DEF OneInv, ValidInv, TypeInv, TypeOK, Latest
<1>3. QED
  BY <1>1, <1>2, ShownQuiet, ShownBusy, MappingShows

(* A step that writes nothing the mapping shows.                           *)
LEMMA StutterSteps ==
  ASSUME OneInv, OneInv', Alone, Alone', NEW r \in Requests,
         \/ StartVersion(r) \/ CopyContent(r) \/ InsertConflict(r)
         \/ \E v \in DOMAIN drafts, c \in Contents : StartEdit(r, v, c)
         \/ StartPublish(r) \/ ReplaceRules(r)
         \/ Abort(r) /\ ~Busy(req, r)
  PROVE  UNCHANGED Abstract!vars
<1> USE DEF Becomes
<1>1. /\ \A q \in Requests \ {r} : req[q].pc = "idle" /\ req'[q] = req[q]
      /\ req \in [Requests -> Local] /\ req[r] \in Local /\ Idle.pc = "idle"
  BY OthersIdle, VersionFacts DEF Step, Idle
<1>2. UNCHANGED <<row, drafts>>
  BY DEF StartVersion, CopyContent, InsertConflict, StartEdit, StartPublish,
     ReplaceRules, Abort
<1>3. Busy(req', r) <=> Busy(req, r)
  <2>1. CASE StartVersion(r)
    BY <1>1, <2>1 DEF StartVersion, Busy, Idle
  <2>2. CASE CopyContent(r)
    BY <1>1, <2>2 DEF CopyContent, Busy, Local
  <2>3. ASSUME NEW v \in DOMAIN drafts, NEW c \in Contents, StartEdit(r, v, c)
        PROVE  Busy(req', r) <=> Busy(req, r)
    BY <1>1, <2>3 DEF StartEdit, Busy
  <2>4. CASE StartPublish(r)
    BY <1>1, <2>4 DEF StartPublish, Busy
  <2>5. CASE ReplaceRules(r)
    BY <1>1, <2>5 DEF ReplaceRules, Busy, Local
  <2>6. CASE InsertConflict(r)
    BY <1>1, <2>6 DEF InsertConflict, Busy
  <2>7. ASSUME Abort(r), ~Busy(req, r)
        PROVE  ~Busy(req', r)
    BY <1>1, <2>7 DEF Abort, Busy
  <2>8. QED
    BY <2>1, <2>2, <2>3, <2>4, <2>5, <2>6, <2>7
<1>4. \A q \in Requests : Busy(req', q) <=> Busy(req, q)
  BY <1>1, <1>3 DEF Busy
<1>5. UNCHANGED ShownVersions
  BY <1>2, <1>4, ShownState, ShownStateNext DEF Latest
<1>6. UNCHANGED AnyPublishing
  BY <1>4, MappingShows
<1>7. QED
  BY <1>2, <1>5, <1>6 DEF Abstract!vars, ShownLive

(* Creating a campaign and creating a version add the next version.        *)
LEMMA NewVersionSteps ==
  ASSUME OneInv, OneInv', Alone, Alone',
         CreateCampaign \/ \E r \in Requests : InsertVersion(r)
  PROVE  Abstract!NewVersion
<1>1. CASE CreateCampaign
  <2>1. /\ ~AnyPublishing /\ ~AnyPublishing' /\ ShownVersions = drafts
        /\ ShownVersions' = drafts' /\ ShownVersions = << >>
    BY <1>1, MappingShows, ShownState, ShownStateNext
    DEF CreateCampaign, OneInv, Quiet, Busy
  <2>2. ShownVersions' =
          Append(ShownVersions, [status |-> "draft", content |-> NameOnly])
    BY <1>1, <2>1 DEF CreateCampaign
  <2>3. UNCHANGED <<ShownLive, AnyPublishing>>
    BY <1>1, <2>1 DEF CreateCampaign, ShownLive, AnyPublishing
  <2>4. QED
    BY <2>1, <2>2, <2>3 DEF Abstract!NewVersion, Abstract!HasDraft
<1>2. ASSUME NEW r \in Requests, InsertVersion(r)
      PROVE  Abstract!NewVersion
  <2>1. /\ \A q \in Requests : req[q].pc \notin {"rules", "mark"}
        /\ \A q \in Requests : req'[q].pc \notin {"rules", "mark"}
        /\ Holds(r) /\ UNCHANGED row
    <3>1. \A q \in Requests \ {r} : req[q].pc = "idle" /\ req'[q] = req[q]
          /\ req \in [Requests -> Local]
      BY <1>2, OthersIdle, VersionFacts DEF Step
    <3>2. QED
      BY <1>2, <3>1 DEF InsertVersion, Becomes, Idle, OneInv
  <2>2. /\ ~AnyPublishing /\ ~AnyPublishing'
        /\ ShownVersions = drafts /\ ShownVersions' = drafts'
    BY <2>1, MappingShows, ShownState, ShownStateNext DEF Busy
  <2>3. /\ Latest > 0 => drafts[Latest].status # "draft"
        /\ drafts' = Append(drafts,
             [status |-> "draft",
              content |-> IF drafts = << >> THEN NameOnly
                          ELSE drafts[Len(drafts)].content])
    BY <1>2, <2>1, VersionFacts DEF InsertVersion, Holds, NeedsVersion, Latest
  <2>4. UNCHANGED <<ShownLive, AnyPublishing>>
    BY <2>1, <2>2 DEF ShownLive, AnyPublishing
  <2>5. drafts # << >> => Latest > 0
    BY VersionFacts DEF Latest
  <2>6. QED
    BY <2>2, <2>3, <2>4, <2>5
    DEF Abstract!NewVersion, Abstract!HasDraft, Abstract!Newest, Latest
<1>3. QED
  BY <1>1, <1>2

LEMMA EditSteps ==
  ASSUME OneInv, OneInv', Alone, Alone', NEW r \in Requests, WriteEdit(r)
  PROVE  Abstract!Edit(req[r].content)
<1>1. /\ \A q \in Requests : req[q].pc \notin {"rules", "mark"}
      /\ \A q \in Requests : req'[q].pc \notin {"rules", "mark"}
      /\ Holds(r) /\ UNCHANGED row
  <2>1. \A q \in Requests \ {r} : req[q].pc = "idle" /\ req'[q] = req[q]
        /\ req \in [Requests -> Local]
    BY OthersIdle, VersionFacts DEF Step
  <2>2. QED
    BY <2>1 DEF WriteEdit, Becomes, Idle, OneInv
<1>2. /\ ~AnyPublishing /\ ~AnyPublishing'
      /\ ShownVersions = drafts /\ ShownVersions' = drafts'
  BY <1>1, MappingShows, ShownState, ShownStateNext DEF Busy
<1>3. /\ req[r].version = Latest /\ req[r].status = "draft"
      /\ Latest \in DOMAIN drafts /\ drafts[Latest].status = "draft"
      /\ drafts[Latest] \in Draft
  BY <1>1, VersionFacts DEF Holds, WriteEdit, OneInv, ValidInv
<1>4. [drafts[Latest] EXCEPT !.content = req[r].content] =
        [status |-> "draft", content |-> req[r].content]
  BY <1>3 DEF Draft
<1>5. drafts' = [drafts EXCEPT ![Len(drafts)].content = req[r].content]
  BY <1>3, <1>4 DEF WriteEdit, UpdateDraft, Latest
<1>6. UNCHANGED <<ShownLive, AnyPublishing>>
  BY <1>1, <1>2 DEF ShownLive, AnyPublishing
<1>7. QED
  BY <1>2, <1>3, <1>5, <1>6, VersionFacts
  DEF Abstract!Edit, Abstract!HasDraft, Abstract!Newest, Latest

(* A publish takes effect when it writes the campaign row, ...             *)
LEMMA PublishSteps ==
  ASSUME OneInv, OneInv', Alone, Alone', NEW r \in Requests, ApplyToCampaign(r)
  PROVE  Abstract!Publish
<1>1. /\ \A q \in Requests \ {r} : req[q].pc = "idle" /\ req'[q] = req[q]
      /\ req \in [Requests -> Local] /\ req[r] \in Local
      /\ Holds(r) /\ req[r].pc = "apply" /\ req[r].content \in Publishable
  BY OthersIdle, VersionFacts
  DEF Step, OneInv, ValidInv, Carrying, ApplyToCampaign
<1>2. /\ req'[r].pc = "rules" /\ UNCHANGED drafts
      /\ row' = [status |-> "published", content |-> req[r].content]
  BY <1>1 DEF ApplyToCampaign, Becomes, Local
<1>3. /\ Latest \in DOMAIN drafts
      /\ drafts[Latest] = [status |-> "draft", content |-> req[r].content]
  BY <1>1, VersionFacts DEF Holds, Carrying
<1>4. /\ \A q \in Requests : ~Busy(req, q)
      /\ \E q \in Requests : Busy(req', q)
  BY <1>1, <1>2 DEF Busy
<1>5. /\ ShownVersions = drafts /\ AnyPublishing' = TRUE
      /\ ShownVersions' =
           [drafts EXCEPT ![Latest] =
              [status |-> "published", content |-> drafts[Latest].content]]
  BY <1>2, <1>4, MappingShows, ShownState, ShownStateNext DEF Latest
<1>6. [drafts[Latest] EXCEPT !.status = "published"] =
        [status |-> "published", content |-> drafts[Latest].content]
  BY <1>3
<1>7. ShownVersions' = [drafts EXCEPT ![Len(drafts)].status = "published"]
  BY <1>3, <1>5, <1>6 DEF Latest
<1>8. ShownLive' = drafts[Latest].content
  <2>1. row' # None
    BY <1>1, <1>2, CampaignLifecycleAssumption DEF Row, Status
  <2>2. QED
    BY <1>2, <1>3, <2>1 DEF ShownLive
<1>9. /\ Abstract!Newest = drafts[Latest] /\ Abstract!HasDraft
      /\ Abstract!SetNewest("published")
  <2>1. Abstract!Newest = drafts[Latest]
    BY <1>5 DEF Abstract!Newest, Latest
  <2>2. ShownVersions # << >>
    BY <1>3, <1>5
  <2>3. Abstract!HasDraft
    BY <1>3, <2>1, <2>2 DEF Abstract!HasDraft
  <2>4. Abstract!SetNewest("published")
    BY <1>5, <1>7 DEF Abstract!SetNewest
  <2>5. QED
    BY <2>1, <2>3, <2>4
<1>10. QED
  BY <1>1, <1>3, <1>5, <1>8, <1>9 DEF Abstract!Publish

(* ... is certain when it has written the version's status, ...            *)
LEMMA ConfirmSteps ==
  ASSUME OneInv, OneInv', Alone, Alone', NEW r \in Requests, MarkPublished(r)
  PROVE  Abstract!Confirm
<1>1. /\ \A q \in Requests \ {r} : req[q].pc = "idle" /\ req'[q] = req[q]
      /\ req \in [Requests -> Local] /\ Holds(r) /\ req[r].pc = "mark"
  BY OthersIdle, VersionFacts DEF Step, OneInv, MarkPublished
<1>2. req'[r].pc = "idle" /\ UNCHANGED row
  BY <1>1 DEF MarkPublished, Becomes, Idle
<1>3. /\ \E q \in Requests : Busy(req, q)
      /\ \A q \in Requests : ~Busy(req', q)
  BY <1>1, <1>2 DEF Busy
<1>4. /\ req[r].version = Latest
      /\ drafts[Latest].content = req[r].content
  BY <1>1 DEF Holds, Carrying
<1>5. ShownVersions' = ShownVersions
  BY <1>3, <1>4, ShownState, ShownStateNext DEF MarkPublished, UpdateDraft
<1>6. QED
  BY <1>2, <1>3, <1>5, MappingShows DEF Abstract!Confirm, ShownLive

(* ... and its version is a draft again when it stops in between.          *)
LEMMA FailSteps ==
  ASSUME OneInv, OneInv', Alone, Alone', NEW r \in Requests,
         Abort(r), Busy(req, r)
  PROVE  Abstract!Fail
<1>1. /\ \A q \in Requests \ {r} : req[q].pc = "idle" /\ req'[q] = req[q]
      /\ req \in [Requests -> Local] /\ Holds(r)
  BY OthersIdle, VersionFacts DEF Step, OneInv
<1>2. req'[r].pc = "idle" /\ UNCHANGED <<row, drafts>>
  BY <1>1 DEF Abort, Becomes, Idle
<1>3. \A q \in Requests : ~Busy(req', q)
  BY <1>1, <1>2 DEF Busy
<1> DEFINE d == [drafts EXCEPT ![Latest] =
                  [status |-> "published", content |-> drafts[Latest].content]]
<1>4. /\ ShownVersions = d /\ Latest \in DOMAIN drafts
      /\ ShownVersions' = drafts
      /\ drafts[Latest] = [status |-> "draft", content |-> req[r].content]
  BY <1>1, <1>2, <1>3, ShownState, ShownStateNext DEF Busy, Holds, Carrying
<1>5. /\ d[Latest] = [status |-> "published", content |-> drafts[Latest].content]
      /\ Len(d) = Latest
  <2>1. drafts \in Seq(Draft)
          /\ [status |-> "published", content |-> drafts[Latest].content] \in Draft
    BY <1>4, VersionFacts DEF Draft, Status
  <2>2. QED
    BY <1>4, <2>1, VersionFacts, ExceptSeq DEF Latest
<1>6. [d[Latest] EXCEPT !.status = "draft"] = drafts[Latest]
  BY <1>4, <1>5
<1>7. drafts = [d EXCEPT ![Len(d)].status = "draft"]
  <2>1. /\ drafts = [v \in DOMAIN drafts |-> drafts[v]]
        /\ DOMAIN d = DOMAIN drafts
        /\ \A v \in DOMAIN drafts : v # Latest => d[v] = drafts[v]
    BY VersionFacts
  <2> HIDE DEF d
  <2>2. QED
    BY <1>4, <1>5, <1>6, <2>1
<1>8. QED
  BY <1>2, <1>3, <1>4, <1>7, MappingShows
  DEF Abstract!Fail, Abstract!SetNewest, ShownLive

LEMMA StepImplements ==
  OneInv /\ OneInv' /\ Alone /\ Alone' /\ [Next]_vars
    => [Abstract!Next]_(Abstract!vars)
<1> SUFFICES ASSUME OneInv, OneInv', Alone, Alone', [Next]_vars
             PROVE  Abstract!Next \/ UNCHANGED Abstract!vars
  OBVIOUS
<1>1. CASE CreateCampaign \/ \E r \in Requests : InsertVersion(r)
  BY <1>1, NewVersionSteps DEF Abstract!Next
<1>2. ASSUME NEW r \in Requests, WriteEdit(r)
      PROVE  Abstract!Next
  <2>1. req[r].content \in Contents
    BY VersionFacts DEF TypeOK, Local
  <2>2. QED
    BY <1>2, <2>1, EditSteps DEF Abstract!Next
<1>3. ASSUME NEW r \in Requests, ApplyToCampaign(r)
      PROVE  Abstract!Next
  BY <1>3, PublishSteps DEF Abstract!Next
<1>4. ASSUME NEW r \in Requests, MarkPublished(r)
      PROVE  Abstract!Next
  BY <1>4, ConfirmSteps DEF Abstract!Next
<1>5. ASSUME NEW r \in Requests, Abort(r), Busy(req, r)
      PROVE  Abstract!Next
  BY <1>5, FailSteps DEF Abstract!Next
<1>6. CASE UNCHANGED vars
  BY <1>6 DEF vars, Abstract!vars, ShownVersions, ShownLive, AnyPublishing,
     Marked, Publishing
<1>7. QED
  BY <1>1, <1>2, <1>3, <1>4, <1>5, <1>6, StutterSteps DEF Next, Step

(* While no two requests overlap, every request is one atomic step of      *)
(* CampaignVersions: statements that fail, requests that stop half way and *)
(* publishes that are repeated included.                                   *)
THEOREM RequestsAreAtomic == Spec /\ []Alone => ImplementsVersions
<1>1. QED
  BY InitImplements, StepImplements, OneCorrect, PTL
  DEF Spec, Abstract!Spec, ImplementsVersions
=============================================================================
