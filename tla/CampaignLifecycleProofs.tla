---------------------- MODULE CampaignLifecycleProofs ----------------------
(* Theorems about CampaignLifecycle, for every set of contents and any     *)
(* number of overlapping requests, with and without failures.              *)
EXTENDS CampaignLifecycle, SequenceTheorems, TLAPS

USE CampaignLifecycleAssumption

LEMMA RowsTyped ==
  ASSUME TypeOK
  PROVE  /\ drafts \in Seq(Draft) /\ Latest \in Nat
         /\ DOMAIN drafts = 1 .. Latest
         /\ \A v \in DOMAIN drafts : /\ drafts[v].status \in Status
                                     /\ drafts[v].content \in Contents
<1>1. drafts \in Seq(Draft)
  BY DEF TypeOK
<1>2. \A v \in DOMAIN drafts : drafts[v] \in Draft
  BY <1>1
<1>3. QED
  BY <1>1, <1>2 DEF Latest, Draft

LEMMA UpdateTyped ==
  ASSUME TypeOK, NEW v \in Nat, NEW s \in Status, NEW c \in Contents,
         UpdateDraft(v, s, c)
  PROVE  /\ drafts' \in Seq(Draft) /\ DOMAIN drafts' = DOMAIN drafts
         /\ \A u \in DOMAIN drafts :
              drafts'[u] = IF u = v THEN [status |-> s, content |-> c]
                           ELSE drafts[u]
<1> DEFINE d == [status |-> s, content |-> c]
<1>1. drafts \in Seq(Draft) /\ d \in Draft /\ drafts' = [drafts EXCEPT ![v] = d]
  BY DEF TypeOK, Draft, UpdateDraft
<1> HIDE DEF d
<1>2. CASE v \in DOMAIN drafts
  <2>1. v \in 1 .. Len(drafts)
    BY <1>1, <1>2
  <2>2. QED
    BY <1>1, <2>1, ExceptSeq DEF d
<1>3. CASE v \notin DOMAIN drafts
  <2>1. drafts' = drafts
    BY <1>1, <1>3
  <2>2. QED
    BY <1>1, <1>3, <2>1
<1>4. QED
  BY <1>2, <1>3

(* TypeOK is not inductive: CopyContent reads the version that the request *)
(* found before, which must still be there.                                *)
VersionsExist == \A r \in Requests : req[r].version <= Latest

TypeInv == TypeOK /\ VersionsExist

LEMMA TypeInit == Init => TypeInv
BY DEF Init, TypeInv, TypeOK, VersionsExist, Row, Status, Local, PC, Idle, Latest

LEMMA TypeStep ==
  ASSUME TypeInv, NEW r \in Requests, Step(r)
  PROVE  TypeOK'
<1> USE DEF Becomes
<1>1. /\ req[r] \in Local /\ Idle \in Local /\ req \in [Requests -> Local]
      /\ drafts \in Seq(Draft) /\ Latest \in Nat
      /\ TypeOK /\ req[r].version <= Latest
  BY RowsTyped DEF TypeInv, VersionsExist, TypeOK, Idle, Local, PC, Status
<1>2. CASE StartVersion(r)
  BY <1>1, <1>2 DEF StartVersion, TypeOK, Local, PC
<1>3. CASE CopyContent(r)
  <2>1. req[r].version > 0 => drafts[req[r].version].content \in Contents
    BY <1>1, RowsTyped DEF Local
  <2>2. QED
    BY <1>1, <1>3, <2>1 DEF CopyContent, TypeOK, Local, PC
<1>4. CASE InsertVersion(r)
  <2>1. [status |-> "draft", content |-> req[r].content] \in Draft
    BY <1>1 DEF Draft, Status, Local
  <2>2. drafts' \in Seq(Draft)
    BY <1>1, <1>4, <2>1, AppendProperties DEF InsertVersion
  <2>3. QED
    BY <1>1, <1>4, <2>2 DEF InsertVersion, TypeOK
<1>5. ASSUME NEW v \in DOMAIN drafts, NEW c \in Contents, StartEdit(r, v, c)
      PROVE  TypeOK'
  BY <1>1, <1>5, RowsTyped DEF StartEdit, TypeOK, Local, PC
<1>6. CASE WriteEdit(r) \/ MarkPublished(r)
  <2>1. /\ req[r].version \in Nat /\ req[r].content \in Contents
        /\ req[r].status \in Status /\ "published" \in Status
    BY <1>1 DEF Local, Status
  <2>2. PICK s \in Status : UpdateDraft(req[r].version, s, req[r].content)
    BY <1>6, <2>1 DEF WriteEdit, MarkPublished
  <2>3. drafts' \in Seq(Draft)
    BY <2>1, <2>2, UpdateTyped DEF TypeInv
  <2>4. QED
    BY <1>1, <1>6, <2>3 DEF WriteEdit, MarkPublished, TypeOK
<1>7. CASE StartPublish(r)
  <2>1. Latest \in DOMAIN drafts
    BY <1>1, <1>7, RowsTyped DEF StartPublish
  <2>2. QED
    BY <1>1, <1>7, <2>1, RowsTyped DEF StartPublish, TypeOK, Local, PC, Status
<1>8. CASE ApplyToCampaign(r)
  BY <1>1, <1>8 DEF ApplyToCampaign, TypeOK, Local, PC, Row, Status
<1>9. CASE ReplaceRules(r)
  BY <1>1, <1>9 DEF ReplaceRules, TypeOK, Local, PC
<1>10. CASE InsertConflict(r) \/ Abort(r)
  BY <1>1, <1>10 DEF InsertConflict, Abort, TypeOK
<1>11. QED
  BY <1>2, <1>3, <1>4, <1>5, <1>6, <1>7, <1>8, <1>9, <1>10 DEF Step

(* The versions never become fewer, and a request remembers one of them.   *)
LEMMA VersionsStep ==
  ASSUME TypeInv, TypeOK', NEW r \in Requests, Step(r)
  PROVE  VersionsExist'
<1> USE DEF Becomes
<1>1. /\ req[r] \in Local /\ Idle.version = 0 /\ req \in [Requests -> Local]
      /\ drafts \in Seq(Draft) /\ Latest \in Nat /\ Latest' \in Nat
      /\ \A q \in Requests : req[q].version \in Nat /\ req[q].version <= Latest
  BY RowsTyped DEF TypeInv, VersionsExist, TypeOK, Idle, Local, Latest
<1>2. Latest <= Latest'
  <2>1. CASE InsertVersion(r)
    <3>1. [status |-> "draft", content |-> req[r].content] \in Draft
      BY <1>1 DEF Draft, Status, Local
    <3>2. QED
      BY <1>1, <2>1, <3>1, AppendProperties DEF InsertVersion, Latest
  <2>2. CASE WriteEdit(r) \/ MarkPublished(r)
    <3>1. DOMAIN drafts' = DOMAIN drafts
      BY <1>1, <2>2, UpdateTyped
      DEF WriteEdit, MarkPublished, Local, Status, TypeInv
    <3>2. QED
      BY <1>1, <3>1, RowsTyped DEF TypeInv, TypeOK, Latest
  <2>3. CASE UNCHANGED drafts
    BY <1>1, <2>3 DEF Latest
  <2>4. QED
    BY <2>1, <2>2, <2>3 DEF Step, StartVersion, CopyContent, InsertConflict,
       StartEdit, StartPublish, ApplyToCampaign, ReplaceRules, Abort
<1>3. req'[r].version <= Latest /\ req'[r].version \in Nat
  <2>1. CASE Becomes(r, Idle)
    BY <1>1, <2>1
  <2>2. CASE CopyContent(r) \/ ApplyToCampaign(r) \/ ReplaceRules(r)
    <3>1. CASE CopyContent(r)
      BY <1>1, <3>1 DEF CopyContent, Local
    <3>2. CASE ApplyToCampaign(r)
      BY <1>1, <3>2 DEF ApplyToCampaign, Local
    <3>3. CASE ReplaceRules(r)
      BY <1>1, <3>3 DEF ReplaceRules, Local
    <3>4. QED
      BY <2>2, <3>1, <3>2, <3>3
  <2>3. CASE StartVersion(r)
    BY <1>1, <2>3 DEF StartVersion, Idle
  <2>4. ASSUME NEW v \in DOMAIN drafts, NEW c \in Contents, StartEdit(r, v, c)
        PROVE  req'[r].version <= Latest /\ req'[r].version \in Nat
    BY <1>1, <2>4 DEF StartEdit, Latest
  <2>5. CASE StartPublish(r)
    BY <1>1, <2>5 DEF StartPublish
  <2>6. QED
    BY <2>1, <2>2, <2>3, <2>4, <2>5 DEF Step, InsertVersion, InsertConflict,
       WriteEdit, MarkPublished, Abort
<1>4. \A q \in Requests : q # r => req'[q] = req[q]
  BY <1>1 DEF Step, StartVersion, CopyContent, InsertVersion, InsertConflict,
     StartEdit, WriteEdit, StartPublish, ApplyToCampaign, ReplaceRules,
     MarkPublished, Abort
<1>5. QED
  BY <1>1, <1>2, <1>3, <1>4 DEF VersionsExist

LEMMA TypeNext == TypeInv /\ [Next]_vars => TypeInv'
<1> SUFFICES ASSUME TypeInv, [Next]_vars PROVE TypeInv'
  OBVIOUS
<1>1. CASE CreateCampaign
  <2>1. Latest = 0
    BY <1>1 DEF CreateCampaign, Latest
  <2>2. \A r \in Requests : req[r].version \in Nat /\ req[r].version <= 0
    BY <2>1 DEF TypeInv, TypeOK, Local, VersionsExist
  <2>3. Latest' = 1 /\ TypeOK'
    BY <1>1 DEF CreateCampaign, TypeInv, TypeOK, Row, Draft, Status, Latest
  <2>4. QED
    BY <1>1, <2>2, <2>3 DEF CreateCampaign, TypeInv, VersionsExist
<1>2. CASE UNCHANGED vars
  BY <1>2 DEF vars, TypeInv, TypeOK, VersionsExist, Latest
<1>3. QED
  BY <1>1, <1>2, TypeStep, VersionsStep DEF Next, TypeInv

(* Every variable keeps its type, whatever requests overlap or fail.       *)
THEOREM TypeCorrect == Spec => []TypeOK
<1>1. TypeInv => TypeOK
  BY DEF TypeInv
<1>2. QED
  BY TypeInit, TypeNext, <1>1, PTL DEF Spec

-----------------------------------------------------------------------------
(* How a step may change the versions.                                     *)
LEMMA DraftsStep ==
  ASSUME TypeInv, [Next]_vars
  PROVE  \/ UNCHANGED drafts
         \/ CreateCampaign
         \/ \E r \in Requests : InsertVersion(r)
         \/ \E r \in Requests : WriteEdit(r) \/ MarkPublished(r)
BY DEF Next, Step, vars, StartVersion, CopyContent, InsertConflict, StartEdit,
   StartPublish, ApplyToCampaign, ReplaceRules, Abort

(* How a step may change the campaign row and its rules.                   *)
LEMMA CampaignStep ==
  ASSUME [Next]_vars
  PROVE  \/ UNCHANGED <<row, rules>>
         \/ CreateCampaign
         \/ \E r \in Requests : ApplyToCampaign(r) \/ ReplaceRules(r)
BY DEF Next, Step, vars, StartVersion, CopyContent, InsertVersion,
   InsertConflict, StartEdit, WriteEdit, StartPublish, MarkPublished, Abort

(* InsertVersion adds the next version and touches no other.               *)
LEMMA InsertFacts ==
  ASSUME TypeInv, NEW r \in Requests, InsertVersion(r)
  PROVE  /\ DOMAIN drafts' = DOMAIN drafts \cup {Latest + 1}
         /\ Latest' = Latest + 1
         /\ \A v \in DOMAIN drafts : drafts'[v] = drafts[v]
         /\ drafts'[Latest + 1].status = "draft"
<1>1. drafts \in Seq(Draft) /\ req[r].content \in Contents
  BY DEF TypeInv, TypeOK, Local
<1>2. [status |-> "draft", content |-> req[r].content] \in Draft
  BY <1>1 DEF Draft, Status
<1>3. QED
  BY <1>1, <1>2, AppendProperties DEF InsertVersion, Latest

(* WriteEdit and MarkPublished replace one version.                        *)
LEMMA WriteFacts ==
  ASSUME TypeInv, NEW r \in Requests, WriteEdit(r) \/ MarkPublished(r)
  PROVE  /\ DOMAIN drafts' = DOMAIN drafts /\ Latest' = Latest
         /\ \A v \in DOMAIN drafts :
              /\ v # req[r].version => drafts'[v] = drafts[v]
              /\ v = req[r].version =>
                   drafts'[v] =
                     [status |-> IF MarkPublished(r) THEN "published"
                                 ELSE req[r].status,
                      content |-> req[r].content]
<1> DEFINE s == IF MarkPublished(r) THEN "published" ELSE req[r].status
<1>1. TypeOK /\ req[r].version \in Nat /\ req[r].content \in Contents /\ s \in Status
  BY DEF TypeInv, TypeOK, Local, Status
<1>2. UpdateDraft(req[r].version, s, req[r].content)
  BY DEF WriteEdit, MarkPublished
<1> HIDE DEF s
<1>3. /\ drafts' \in Seq(Draft) /\ DOMAIN drafts' = DOMAIN drafts
      /\ \A u \in DOMAIN drafts :
           drafts'[u] = IF u = req[r].version
                        THEN [status |-> s, content |-> req[r].content]
                        ELSE drafts[u]
  BY <1>1, <1>2, UpdateTyped
<1>4. drafts \in Seq(Draft)
  BY <1>1 DEF TypeOK
<1>5. Len(drafts') = Len(drafts)
  BY <1>3, <1>4
<1>6. QED
  BY <1>3, <1>5 DEF s, Latest

-----------------------------------------------------------------------------
(* Only validated content goes live.  A request carries what it validated  *)
(* from StartPublish to its last write.                                    *)

Carrying(r) == req[r].pc \in {"apply", "rules", "mark"}

ValidInv ==
  /\ TypeInv
  /\ \A r \in Requests : /\ Carrying(r) => req[r].content \in Publishable
                         /\ req[r].pc = "edit" => req[r].status = "draft"
  /\ \A v \in Published : drafts[v].content \in Publishable

LEMMA ValidRequests ==
  ASSUME ValidInv, [Next]_vars, NEW q \in Requests
  PROVE  /\ Carrying(q)' => req'[q].content \in Publishable
         /\ req'[q].pc = "edit" => req'[q].status = "draft"
<1> USE DEF Becomes
<1>1. /\ req \in [Requests -> Local] /\ req[q] \in Local /\ Idle.pc = "idle"
      /\ Carrying(q) => req[q].content \in Publishable
      /\ req[q].pc = "edit" => req[q].status = "draft"
  BY DEF ValidInv, TypeInv, TypeOK, Idle
<1>2. CASE UNCHANGED req[q]
  BY <1>1, <1>2 DEF Carrying
<1>3. ASSUME NEW r \in Requests, Step(r), r # q
      PROVE  UNCHANGED req[q]
  BY <1>1, <1>3 DEF Step, StartVersion, CopyContent, InsertVersion,
     InsertConflict, StartEdit, WriteEdit, StartPublish, ApplyToCampaign,
     ReplaceRules, MarkPublished, Abort
<1>4. CASE Step(q)
  <2>1. CASE Becomes(q, Idle)
    BY <1>1, <2>1 DEF Carrying
  <2>2. CASE StartVersion(q)
    BY <1>1, <2>2 DEF StartVersion, Carrying, Idle
  <2>3. CASE CopyContent(q)
    BY <1>1, <2>3 DEF CopyContent, Carrying, Local
  <2>4. ASSUME NEW v \in DOMAIN drafts, NEW c \in Contents, StartEdit(q, v, c)
        PROVE  /\ Carrying(q)' => req'[q].content \in Publishable
               /\ req'[q].pc = "edit" => req'[q].status = "draft"
    BY <1>1, <2>4 DEF StartEdit, Editable, Carrying
  <2>5. CASE StartPublish(q)
    BY <1>1, <2>5 DEF StartPublish, validatePublishContent, Carrying
  <2>6. CASE ApplyToCampaign(q)
    BY <1>1, <2>6 DEF ApplyToCampaign, Carrying, Local
  <2>7. CASE ReplaceRules(q)
    BY <1>1, <2>7 DEF ReplaceRules, Carrying, Local
  <2>8. QED
    BY <1>4, <2>1, <2>2, <2>3, <2>4, <2>5, <2>6, <2>7
    DEF Step, InsertVersion, InsertConflict, WriteEdit, MarkPublished, Abort
<1>5. QED
  BY <1>2, <1>3, <1>4 DEF Next, CreateCampaign, vars

LEMMA ValidVersions ==
  ASSUME ValidInv, [Next]_vars, NEW v \in DOMAIN drafts',
         drafts'[v].status = "published"
  PROVE  drafts'[v].content \in Publishable
<1>1. TypeInv /\ \A u \in DOMAIN drafts :
        drafts[u].status = "published" => drafts[u].content \in Publishable
  BY DEF ValidInv, Published
<1>2. CASE UNCHANGED drafts
  BY <1>1, <1>2
<1>3. CASE CreateCampaign
  BY <1>3 DEF CreateCampaign
<1>4. ASSUME NEW r \in Requests, InsertVersion(r)
      PROVE  drafts'[v].content \in Publishable
  BY <1>1, <1>4, InsertFacts
<1>5. ASSUME NEW r \in Requests, WriteEdit(r)
      PROVE  drafts'[v].content \in Publishable
  <2>1. req[r].status = "draft" /\ ~MarkPublished(r)
    BY <1>5 DEF ValidInv, WriteEdit, MarkPublished
  <2>2. v \in DOMAIN drafts /\ (v # req[r].version => drafts'[v] = drafts[v])
    BY <1>1, <1>5, WriteFacts
  <2>3. CASE v = req[r].version
    <3>1. drafts'[v] = [status |-> IF MarkPublished(r) THEN "published"
                                   ELSE req[r].status,
                        content |-> req[r].content]
      BY <1>1, <1>5, <2>2, <2>3, WriteFacts
    <3>2. drafts'[v].status = "draft"
      BY <2>1, <3>1
    <3>3. QED
      BY <3>2
  <2>4. QED
    BY <1>1, <2>2, <2>3
<1>6. ASSUME NEW r \in Requests, MarkPublished(r)
      PROVE  drafts'[v].content \in Publishable
  <2>1. req[r].content \in Publishable
    BY <1>6 DEF ValidInv, MarkPublished, Carrying
  <2>2. v \in DOMAIN drafts /\ (v # req[r].version => drafts'[v] = drafts[v])
    BY <1>1, <1>6, WriteFacts
  <2>3. CASE v = req[r].version
    <3>1. drafts'[v] = [status |-> IF MarkPublished(r) THEN "published"
                                   ELSE req[r].status,
                        content |-> req[r].content]
      BY <1>1, <1>6, <2>2, <2>3, WriteFacts
    <3>2. QED
      BY <2>1, <3>1
  <2>4. QED
    BY <1>1, <2>2, <2>3
<1>7. QED
  BY <1>1, <1>2, <1>3, <1>4, <1>5, <1>6, DraftsStep

(* Whatever requests overlap or fail, only validated content goes live.    *)
THEOREM OnlyValidatedGoesLive == Spec => LiveContentValidated
<1>1. Init => ValidInv
  BY TypeInit DEF Init, ValidInv, Carrying, Idle, Published
<1>2. ValidInv /\ [Next]_vars => ValidInv'
  BY TypeNext, ValidRequests, ValidVersions DEF ValidInv, Published
<1>3. ValidInv /\ [Next]_vars =>
        [/\ row' # row => row'.status = "draft" \/ row'.content \in Publishable
         /\ rules' # rules => rules' \in Publishable
         /\ \A v \in DOMAIN drafts' :
              drafts'[v].status = "published" =>
                drafts'[v].content \in Publishable]_vars
  <2> SUFFICES ASSUME ValidInv, [Next]_vars
               PROVE  /\ row' # row =>
                           row'.status = "draft" \/ row'.content \in Publishable
                      /\ rules' # rules => rules' \in Publishable
    BY ValidVersions
  <2>1. ASSUME NEW r \in Requests, ApplyToCampaign(r) \/ ReplaceRules(r)
        PROVE  req[r].content \in Publishable
    BY <2>1 DEF ValidInv, ApplyToCampaign, ReplaceRules, Carrying
  <2>2. CASE UNCHANGED <<row, rules>>
    BY <2>2
  <2>3. CASE CreateCampaign
    BY <2>3 DEF CreateCampaign
  <2>4. ASSUME NEW r \in Requests, ApplyToCampaign(r) \/ ReplaceRules(r)
        PROVE  /\ row' # row => row'.content \in Publishable
               /\ rules' # rules => rules' \in Publishable
    <3>1. CASE ApplyToCampaign(r)
      BY <2>1, <3>1 DEF ApplyToCampaign
    <3>2. CASE ReplaceRules(r)
      BY <2>1, <3>2 DEF ReplaceRules
    <3>3. QED
      BY <2>4, <3>1, <3>2
  <2>5. QED
    BY <2>2, <2>3, <2>4, CampaignStep
<1>4. QED
  BY <1>1, <1>2, <1>3, PTL DEF Spec, LiveContentValidated
-----------------------------------------------------------------------------
(* When no edit overlaps another request, published versions never change, *)
(* however publishes and version creations overlap, fail and stop.  A      *)
(* version that is created follows published ones only; a publish writes   *)
(* the content that its version still has.                                 *)

Remembers(r) ==
  /\ req[r].pc \in {"copy", "insert"} =>
       \A v \in DOMAIN drafts :
         v <= req[r].version => drafts[v].status = "published"
  /\ req[r].pc = "edit" =>
       /\ req[r].version \in DOMAIN drafts
       /\ drafts[req[r].version].status = "draft" /\ req[r].status = "draft"
  /\ Carrying(r) =>
       /\ req[r].version \in DOMAIN drafts
       /\ drafts[req[r].version].content = req[r].content

Apart ==
  \A r, q \in Requests : req[r].pc = "edit" /\ q # r => req[q].pc = "idle"

SerialInv ==
  /\ TypeInv
  /\ Apart
  /\ OnlyLatestDraft
  /\ \A r \in Requests : Remembers(r)

(* A step keeps every version, its content unless it is an edit, and a     *)
(* published version altogether.                                           *)
LEMMA VersionsKept ==
  ASSUME SerialInv, [Next]_vars, NEW v \in DOMAIN drafts
  PROVE  /\ v \in DOMAIN drafts'
         /\ drafts[v].status = "published" => drafts'[v] = drafts[v]
         /\ (\A r \in Requests : req[r].pc # "edit") =>
              drafts'[v].content = drafts[v].content
<1>1. TypeInv /\ drafts \in Seq(Draft) /\ drafts[v] \in Draft
  BY DEF SerialInv, TypeInv, TypeOK
<1>2. CASE UNCHANGED drafts
  BY <1>2
<1>3. CASE CreateCampaign
  BY <1>3 DEF CreateCampaign
<1>4. ASSUME NEW r \in Requests, InsertVersion(r)
      PROVE  v \in DOMAIN drafts' /\ drafts'[v] = drafts[v]
  BY <1>1, <1>4, InsertFacts
<1>5. ASSUME NEW r \in Requests, WriteEdit(r) \/ MarkPublished(r)
      PROVE  /\ v \in DOMAIN drafts'
             /\ v # req[r].version => drafts'[v] = drafts[v]
  BY <1>1, <1>5, WriteFacts
<1>6. ASSUME NEW r \in Requests, WriteEdit(r), v = req[r].version
      PROVE  drafts[v].status # "published" /\ req[r].pc = "edit"
  BY <1>6 DEF SerialInv, Remembers, WriteEdit
<1>7. ASSUME NEW r \in Requests, MarkPublished(r), v = req[r].version
      PROVE  /\ drafts[v].status = "published" => drafts'[v] = drafts[v]
             /\ drafts'[v].content = drafts[v].content
  <2>1. drafts[v].content = req[r].content
    BY <1>7 DEF SerialInv, Remembers, MarkPublished, Carrying
  <2>2. drafts'[v] = [status |-> "published", content |-> req[r].content]
    <3>1. drafts'[v] = [status |-> IF MarkPublished(r) THEN "published"
                                   ELSE req[r].status,
                        content |-> req[r].content]
      BY <1>1, <1>7, WriteFacts
    <3>2. QED
      BY <1>7, <3>1
  <2>3. QED
    BY <1>1, <2>1, <2>2 DEF Draft
<1>8. QED
  BY <1>1, <1>2, <1>3, <1>4, <1>5, <1>6, <1>7, DraftsStep

(* A version is inserted only after published ones.                        *)
LEMMA OnlyLatestDraftStep ==
  ASSUME SerialInv, [Next]_vars
  PROVE  OnlyLatestDraft'
<1> SUFFICES ASSUME NEW v \in DOMAIN drafts', v < Latest'
             PROVE  drafts'[v].status = "published"
  BY DEF OnlyLatestDraft
<1>1. /\ TypeInv /\ Latest \in Nat /\ DOMAIN drafts = 1 .. Latest
      /\ \A u \in DOMAIN drafts : u < Latest => drafts[u].status = "published"
  BY RowsTyped DEF SerialInv, TypeInv, OnlyLatestDraft
<1>2. CASE UNCHANGED drafts
  BY <1>1, <1>2 DEF Latest
<1>3. CASE CreateCampaign
  BY <1>3 DEF CreateCampaign, Latest
<1>4. ASSUME NEW r \in Requests, InsertVersion(r)
      PROVE  drafts'[v].status = "published"
  <2>1. /\ DOMAIN drafts' = DOMAIN drafts \cup {Latest + 1}
        /\ Latest' = Latest + 1
        /\ \A u \in DOMAIN drafts : drafts'[u] = drafts[u]
    BY <1>1, <1>4, InsertFacts
  <2>2. v \in DOMAIN drafts
    BY <1>1, <2>1
  <2>3. req[r].version >= Latest /\ req[r].pc = "insert"
    <3>1. req[r].version + 1 \notin 1 .. Latest /\ req[r].version \in Nat
      BY <1>1, <1>4 DEF InsertVersion, VersionFree, TypeInv, TypeOK, Local
    <3>2. QED
      BY <1>1, <1>4, <3>1 DEF InsertVersion
  <2>4. v <= req[r].version
    BY <1>1, <2>2, <2>3 DEF TypeInv, TypeOK, Local
  <2>5. drafts[v].status = "published"
    BY <2>2, <2>3, <2>4 DEF SerialInv, Remembers
  <2>6. QED
    BY <2>1, <2>2, <2>5
<1>5. ASSUME NEW r \in Requests, WriteEdit(r) \/ MarkPublished(r)
      PROVE  drafts'[v].status = "published"
  <2>1. DOMAIN drafts' = DOMAIN drafts /\ Latest' = Latest
    BY <1>1, <1>5, WriteFacts
  <2>2. v \in DOMAIN drafts /\ drafts[v].status = "published"
    BY <1>1, <2>1
  <2>3. drafts'[v] = drafts[v]
    BY <2>2, VersionsKept
  <2>4. QED
    BY <2>2, <2>3
<1>6. QED
  BY <1>2, <1>3, <1>4, <1>5, <1>1, DraftsStep

(* What a request remembers stays true under the steps of the others ...   *)
LEMMA OthersRemember ==
  ASSUME SerialInv, Apart', NEW r \in Requests, NEW q \in Requests,
         Step(r), q # r
  PROVE  Remembers(q)'
<1> USE DEF Becomes
<1>1. /\ req \in [Requests -> Local] /\ TypeInv /\ Remembers(q) /\ [Next]_vars
      /\ Idle.pc = "idle"
  BY DEF SerialInv, TypeInv, TypeOK, Next, Idle
<1>2. req'[q] = req[q]
  BY <1>1 DEF Step, StartVersion, CopyContent, InsertVersion, InsertConflict,
     StartEdit, WriteEdit, StartPublish, ApplyToCampaign, ReplaceRules,
     MarkPublished, Abort
<1>3. CASE req[q].pc = "idle"
  BY <1>2, <1>3 DEF Remembers, Carrying
<1>4. req[q].pc # "edit"
  <2> SUFFICES ASSUME req[q].pc = "edit" PROVE FALSE
    OBVIOUS
  <2>1. req[r].pc = "idle" /\ req'[r].pc = "idle"
    BY <1>2 DEF SerialInv, Apart
  <2>2. CASE StartVersion(r)
    BY <1>1, <2>1, <2>2 DEF StartVersion, Idle
  <2>3. CASE StartPublish(r)
    BY <1>1, <2>1, <2>3 DEF StartPublish
  <2>4. ASSUME NEW v \in DOMAIN drafts, NEW c \in Contents, StartEdit(r, v, c)
        PROVE  FALSE
    BY <1>1, <2>1, <2>4 DEF StartEdit
  <2>5. QED
    BY <2>1, <2>2, <2>3, <2>4
    DEF Step, CopyContent, InsertVersion, InsertConflict, WriteEdit,
        ApplyToCampaign, ReplaceRules, MarkPublished, Abort
<1>5. CASE req[q].pc \in {"copy", "insert"}
  <2> SUFFICES ASSUME NEW v \in DOMAIN drafts', v <= req[q].version
               PROVE  drafts'[v].status = "published"
    BY <1>2, <1>5 DEF Remembers, Carrying
  <2>1. v \in DOMAIN drafts
    <3>1. v \in Nat /\ v >= 1
      BY <1>1, TypeNext DEF TypeInv, TypeOK
    <3>2. DOMAIN drafts = 1 .. Latest /\ req[q].version <= Latest
          /\ req[q].version \in Nat /\ Latest \in Nat
      BY <1>1, RowsTyped DEF TypeInv, VersionsExist, TypeOK, Local
    <3>3. QED
      BY <3>1, <3>2
  <2>2. drafts[v].status = "published"
    BY <1>1, <1>5, <2>1 DEF Remembers
  <2>3. QED
    BY <1>1, <2>1, <2>2, VersionsKept
<1>6. CASE Carrying(q)
  <2>1. \A p \in Requests : req[p].pc # "edit"
    BY <1>4, <1>6 DEF SerialInv, Apart, Carrying
  <2>2. QED
    BY <1>1, <1>2, <1>4, <1>6, <2>1, VersionsKept DEF Remembers, Carrying
<1>7. QED
  BY <1>1, <1>3, <1>4, <1>5, <1>6 DEF Carrying, Local, PC

(* ... and under its own.                                                  *)
LEMMA SelfRemembers ==
  ASSUME SerialInv, NEW r \in Requests, Step(r)
  PROVE  Remembers(r)'
<1> USE DEF Becomes
<1>1. /\ req \in [Requests -> Local] /\ req[r] \in Local /\ TypeInv
      /\ Remembers(r) /\ Idle.pc = "idle"
  BY DEF SerialInv, TypeInv, TypeOK, Idle
<1>2. CASE Becomes(r, Idle)
  BY <1>1, <1>2 DEF Remembers, Carrying
<1>3. CASE StartVersion(r)
  <2>1. /\ req'[r].pc = "copy" /\ req'[r].version = Latest /\ UNCHANGED drafts
    BY <1>1, <1>3 DEF StartVersion, Idle
  <2>2. \A v \in DOMAIN drafts : drafts[v].status = "published"
    <3>1. drafts \in Seq(Draft) /\ DOMAIN drafts = 1 .. Latest /\ Latest \in Nat
      BY <1>1, RowsTyped DEF TypeInv
    <3>2. Latest > 0 => drafts[Latest].status = "published"
      BY <1>1, <1>3, <3>1, RowsTyped DEF StartVersion, NeedsVersion, TypeInv, Status
    <3>3. QED
      BY <3>1, <3>2 DEF SerialInv, OnlyLatestDraft
  <2>3. QED
    BY <2>1, <2>2 DEF Remembers, Carrying
<1>4. CASE CopyContent(r)
  <2>1. /\ req'[r].pc = "insert" /\ req'[r].version = req[r].version
        /\ UNCHANGED drafts /\ req[r].pc = "copy"
    BY <1>1, <1>4 DEF CopyContent, Local
  <2>2. QED
    BY <1>1, <2>1 DEF Remembers, Carrying
<1>5. ASSUME NEW v \in DOMAIN drafts, NEW c \in Contents, StartEdit(r, v, c)
      PROVE  Remembers(r)'
  BY <1>1, <1>5 DEF StartEdit, Editable, Remembers, Carrying
<1>6. CASE StartPublish(r)
  <2>1. Latest \in DOMAIN drafts
    BY <1>1, <1>6, RowsTyped DEF StartPublish, TypeInv
  <2>2. QED
    BY <1>1, <1>6, <2>1 DEF StartPublish, Remembers, Carrying
<1>7. CASE ApplyToCampaign(r)
  <2>1. /\ req'[r].pc = "rules" /\ req'[r].version = req[r].version
        /\ req'[r].content = req[r].content /\ req[r].pc = "apply"
        /\ UNCHANGED drafts
    BY <1>1, <1>7 DEF ApplyToCampaign, Local
  <2>2. QED
    BY <1>1, <2>1 DEF Remembers, Carrying
<1>8. CASE ReplaceRules(r)
  <2>1. /\ req'[r].pc = "mark" /\ req'[r].version = req[r].version
        /\ req'[r].content = req[r].content /\ req[r].pc = "rules"
        /\ UNCHANGED drafts
    BY <1>1, <1>8 DEF ReplaceRules, Local
  <2>2. QED
    BY <1>1, <2>1 DEF Remembers, Carrying
<1>9. QED
  BY <1>2, <1>3, <1>4, <1>5, <1>6, <1>7, <1>8
  DEF Step, InsertVersion, InsertConflict, WriteEdit, MarkPublished, Abort

(* Requests that are started as EditsAlone demands stay apart.             *)
LEMMA StayApart ==
  ASSUME EditsAlone, SerialInv, [Next]_vars
  PROVE  Apart'
<1> USE DEF Becomes
<1>1. /\ req \in [Requests -> Local] /\ Idle.pc = "idle"
      /\ \A r, q \in Requests : req[r].pc = "edit" /\ q # r => req[q].pc = "idle"
  BY DEF SerialInv, TypeInv, TypeOK, Idle, Apart
<1>2. CASE UNCHANGED req
  BY <1>1, <1>2 DEF Apart
<1>3. ASSUME NEW r \in Requests, Becomes(r, Idle)
      PROVE  Apart'
  BY <1>1, <1>3 DEF Apart
<1>4. ASSUME NEW r \in Requests,
             CopyContent(r) \/ ApplyToCampaign(r) \/ ReplaceRules(r)
      PROVE  Apart'
  <2>1. /\ req[r].pc \notin {"idle", "edit"} /\ req'[r].pc # "edit"
        /\ \A q \in Requests \ {r} : req'[q] = req[q] /\ req[q].pc # "edit"
    <3>1. req[r] \in Local /\ req[r].pc \notin {"idle", "edit"}
      BY <1>1, <1>4 DEF CopyContent, ApplyToCampaign, ReplaceRules
    <3>2. \A q \in Requests \ {r} : req'[q] = req[q] /\ req[q].pc # "edit"
      BY <1>1, <1>4, <3>1 DEF CopyContent, ApplyToCampaign, ReplaceRules
    <3>3. CASE CopyContent(r)
      BY <1>1, <3>1, <3>2, <3>3 DEF CopyContent, Local
    <3>4. CASE ApplyToCampaign(r)
      BY <1>1, <3>1, <3>2, <3>4 DEF ApplyToCampaign, Local
    <3>5. CASE ReplaceRules(r)
      BY <1>1, <3>1, <3>2, <3>5 DEF ReplaceRules, Local
    <3>6. QED
      BY <1>4, <3>3, <3>4, <3>5
  <2>2. QED
    BY <2>1 DEF Apart
<1>5. ASSUME NEW r \in Requests, StartVersion(r) \/ StartPublish(r)
      PROVE  Apart'
  <2>1. /\ req'[r].pc # "edit"
        /\ \A q \in Requests \ {r} : req'[q] = req[q] /\ req[q].pc # "edit"
    <3>1. \A q \in Requests : req[q].pc # "edit"
      BY <1>5 DEF StartVersion, StartPublish, MayStart
    <3>2. CASE StartVersion(r)
      BY <1>1, <3>1, <3>2 DEF StartVersion, Idle
    <3>3. CASE StartPublish(r)
      BY <1>1, <3>1, <3>3 DEF StartPublish
    <3>4. QED
      BY <1>5, <3>2, <3>3
  <2>2. QED
    BY <2>1 DEF Apart
<1>6. ASSUME NEW r \in Requests, NEW v \in DOMAIN drafts, NEW c \in Contents,
             StartEdit(r, v, c)
      PROVE  Apart'
  <2>1. \A q \in Requests \ {r} : req'[q] = req[q] /\ req[q].pc = "idle"
    BY <1>1, <1>6 DEF StartEdit, MayEdit, Quiet
  <2>2. QED
    BY <2>1 DEF Apart
<1>7. QED
  BY <1>2, <1>3, <1>4, <1>5, <1>6
  DEF Next, Step, vars, CreateCampaign, InsertVersion, InsertConflict, WriteEdit,
      MarkPublished, Abort

LEMMA SerialNext == EditsAlone /\ SerialInv /\ [Next]_vars => SerialInv'
<1> SUFFICES ASSUME EditsAlone, SerialInv, [Next]_vars PROVE SerialInv'
  OBVIOUS
<1>1. TypeInv' /\ OnlyLatestDraft'
  BY TypeNext, OnlyLatestDraftStep DEF SerialInv
<1>2. Apart'
  BY StayApart
<1>3. CASE UNCHANGED vars
  <2>1. \A r \in Requests : Remembers(r)'
    BY <1>3 DEF SerialInv, Remembers, Carrying, vars
  <2>2. QED
    BY <1>1, <1>2, <2>1 DEF SerialInv
<1>4. CASE CreateCampaign
  <2>1. \A r \in Requests : req'[r] = req[r] /\ req[r] \in Local /\ Remembers(r)
    BY <1>4 DEF CreateCampaign, SerialInv, TypeInv, TypeOK
  <2>2. \A r \in Requests : req[r].version = 0
    BY <1>4 DEF CreateCampaign, SerialInv, TypeInv, TypeOK, VersionsExist,
                Latest, Local
  <2>3. DOMAIN drafts = {} /\ DOMAIN drafts' = {1}
    BY <1>4 DEF CreateCampaign
  <2>4. \A r \in Requests : Remembers(r)'
    BY <2>1, <2>2, <2>3 DEF Remembers, Carrying
  <2>5. QED
    BY <1>1, <1>2, <2>4 DEF SerialInv
<1>5. ASSUME NEW r \in Requests, Step(r), NEW q \in Requests
      PROVE  Remembers(q)'
  BY <1>2, <1>5, OthersRemember, SelfRemembers
<1>6. QED
  BY <1>1, <1>2, <1>3, <1>4, <1>5 DEF SerialInv, Next

LEMMA SerialInit == Init => SerialInv
BY TypeInit
DEF Init, SerialInv, Apart, OnlyLatestDraft, Remembers, Carrying, Idle

(* Without overlapping edits, versions are worked on one after the other:  *)
(* the numbers CreateVersion gives out and the status checks suffice.      *)
THEOREM SerialEditsKeepOrder == EditsAlone => (Spec => []OnlyLatestDraft)
<1> SUFFICES ASSUME EditsAlone PROVE Spec => []OnlyLatestDraft
  OBVIOUS
<1>1. SerialInv => OnlyLatestDraft
  BY DEF SerialInv
<1>2. SerialInv /\ [Next]_vars => SerialInv'
  BY SerialNext
<1>3. QED
  BY SerialInit, <1>1, <1>2, PTL DEF Spec

(* Without overlapping edits, a published version keeps content and status.*)
THEOREM SerialEditsKeepPublished == EditsAlone => (Spec => PublishedVersionImmutable)
<1> SUFFICES ASSUME EditsAlone PROVE Spec => PublishedVersionImmutable
  OBVIOUS
<1>1. SerialInv /\ [Next]_vars =>
        [\A v \in Published : v \in DOMAIN drafts' /\ drafts'[v] = drafts[v]]_vars
  BY VersionsKept DEF Published
<1>2. SerialInv /\ [Next]_vars => SerialInv'
  BY SerialNext
<1>3. QED
  BY SerialInit, <1>1, <1>2, PTL DEF Spec, PublishedVersionImmutable
=============================================================================
