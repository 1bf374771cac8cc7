------------------------- MODULE CampaignLifecycle -------------------------
(***************************************************************************)
(* Administration of one campaign: service/campaign_admin_service.go on    *)
(* the tables campaigns, campaign_drafts and campaign_reward_rules.        *)
(* Campaigns share no row, so one of them stands for all.                  *)
(*                                                                         *)
(* A request slot is one HTTP request in progress.  Except in              *)
(* CreateCampaign no transaction spans two statements, so a step is one    *)
(* statement and req[r] is what the request remembers between two of them. *)
(***************************************************************************)
EXTENDS Naturals, Sequences

CONSTANTS
  Requests,     \* requests that may be in progress at the same time
  Ops,          \* which operations clients call
  MayAbort,     \* TRUE: a statement may fail or the process may stop
  EditsAlone,   \* TRUE: clients let an edit overlap no other request
  Contents, Publishable, NameOnly,
  MaxVersion,   \* bound: versions ever created
  None

AllOps == {"create_version", "edit", "publish"}

Status == {"draft", "published"}
Draft  == [status : Status, content : Contents]
Row    == [status : Status, content : Contents]

ASSUME CampaignLifecycleAssumption ==
  /\ Ops \subseteq AllOps
  /\ MayAbort \in BOOLEAN /\ EditsAlone \in BOOLEAN
  /\ Publishable \subseteq Contents
  /\ NameOnly \in Contents
  /\ None \notin Contents \cup Row
  /\ MaxVersion \in Nat

VARIABLES
  row,     \* campaigns: [status, content], or None before it exists
  drafts,  \* campaign_drafts: version v is drafts[v]
  rules,   \* content the campaign's reward rules were flattened from
  req      \* requests in progress

vars == <<row, drafts, rules, req>>

PC == {"idle", "copy", "insert", "edit", "apply", "rules", "mark"}

(* version and draft are what the request read first; content is what it   *)
(* is going to write.                                                      *)
Local == [pc : PC, version : Nat, status : Status, content : Contents]

Idle == [pc |-> "idle", version |-> 0, status |-> "draft",
         content |-> NameOnly]

(* The tables are empty, or hold a campaign that was migrated from the     *)
(* schema without drafts; its rules were dropped with the column they were *)
(* in.                                                                     *)
Init ==
  /\ row \in {None} \cup Row
  /\ drafts = << >> /\ rules = None
  /\ req = [r \in Requests |-> Idle]

Becomes(r, j) == req' = [req EXCEPT ![r] = j]

(* Nothing in the server keeps requests apart; with EditsAlone its clients  *)
(* start nothing during an edit, and an edit only when nothing else runs.  *)
Quiet == \A r \in Requests : req[r].pc = "idle"

MayStart == EditsAlone => \A r \in Requests : req[r].pc # "edit"
MayEdit  == EditsAlone => Quiet

Latest == Len(drafts)   \* ORDER BY version DESC LIMIT 1; 0: no row

-----------------------------------------------------------------------------
(* CreateCampaign inserts the campaign and draft version 1 in one          *)
(* transaction.                                                            *)
CreateCampaign ==
  /\ row = None /\ drafts = << >>
  /\ row' = [status |-> "draft", content |-> NameOnly]
  /\ drafts' = <<[status |-> "draft", content |-> NameOnly]>>
  /\ UNCHANGED <<rules, req>>

-----------------------------------------------------------------------------
(* Mutant of NeedsVersion: the latest version is not looked at.            *)
AnyTime == TRUE

(* CreateVersion.  A latest version that is still draft is returned as it  *)
(* is; that changes nothing and is no step here.                           *)
NeedsVersion == Latest > 0 => drafts[Latest].status # "draft"

StartVersion(r) ==
  /\ "create_version" \in Ops /\ req[r].pc = "idle" /\ MayStart
  /\ row # None /\ Latest < MaxVersion
  /\ NeedsVersion
  /\ Becomes(r, [Idle EXCEPT !.pc = "copy", !.version = Latest])
  /\ UNCHANGED <<row, drafts, rules>>

(* initialDraftContent reads that version again; without one it takes the  *)
(* campaign's name.                                                        *)
CopyContent(r) ==
  /\ req[r].pc = "copy"
  /\ Becomes(r, [req[r] EXCEPT
       !.pc = "insert",
       !.content = IF req[r].version > 0
                   THEN drafts[req[r].version].content ELSE NameOnly])
  /\ UNCHANGED <<row, drafts, rules>>

(* Mutant of VersionFree: (activity_id, version) is not unique.            *)
AlwaysFree(v) == TRUE

(* The unique key (activity_id, version).                                  *)
VersionFree(v) == v \notin DOMAIN drafts

InsertVersion(r) ==
  /\ req[r].pc = "insert"
  /\ VersionFree(req[r].version + 1)
  /\ drafts' = Append(drafts, [status |-> "draft", content |-> req[r].content])
  /\ Becomes(r, Idle)
  /\ UNCHANGED <<row, rules>>

(* A concurrent request created the version first: the error is returned.  *)
InsertConflict(r) ==
  /\ req[r].pc = "insert"
  /\ ~VersionFree(req[r].version + 1)
  /\ Becomes(r, Idle)
  /\ UNCHANGED <<row, drafts, rules>>

-----------------------------------------------------------------------------
(* Mutant of UpdateDraft: two columns exchanged.                           *)
UpdateSwapped(v, s, c) ==
  drafts' = [drafts EXCEPT ![v] = [status |-> c, content |-> s]]

(* drafts.Update writes content and status of the row the request read,    *)
(* whatever the row says now.                                              *)
UpdateDraft(v, s, c) ==
  drafts' = [drafts EXCEPT ![v] = [status |-> s, content |-> c]]

(* Mutant of Editable: any version that exists.                            *)
Exists(v) == v \in DOMAIN drafts

Editable(v) == v \in DOMAIN drafts /\ drafts[v].status = "draft"

(* EditVersion: ErrCampaignDraftNotEditable unless the version is draft.   *)
StartEdit(r, v, c) ==
  /\ "edit" \in Ops /\ req[r].pc = "idle" /\ MayEdit
  /\ Editable(v)
  /\ Becomes(r, [pc |-> "edit", version |-> v,
                 status |-> drafts[v].status, content |-> c])
  /\ UNCHANGED <<row, drafts, rules>>

WriteEdit(r) ==
  /\ req[r].pc = "edit"
  /\ UpdateDraft(req[r].version, req[r].status, req[r].content)
  /\ Becomes(r, Idle)
  /\ UNCHANGED <<row, rules>>

-----------------------------------------------------------------------------
(* PublishCampaign.                                                        *)

(* Mutant of validatePublishContent.                                       *)
AcceptAll(c) == c \in Contents

validatePublishContent(c) == c \in Publishable

(* Mutant of StartPublish: the version is marked before anything else.     *)
MarkFirst(r) ==
  /\ "publish" \in Ops /\ req[r].pc = "idle" /\ MayStart
  /\ Latest > 0
  /\ drafts[Latest].status = "draft"
  /\ validatePublishContent(drafts[Latest].content)
  /\ Becomes(r, [pc |-> "apply", version |-> Latest,
                 status |-> "draft", content |-> drafts[Latest].content])
  /\ UpdateDraft(Latest, "published", drafts[Latest].content)
  /\ UNCHANGED <<row, rules>>

StartPublish(r) ==
  /\ "publish" \in Ops /\ req[r].pc = "idle" /\ MayStart
  /\ Latest > 0
  /\ drafts[Latest].status = "draft"
  /\ validatePublishContent(drafts[Latest].content)
  /\ Becomes(r, [pc |-> "apply", version |-> Latest,
                 status |-> "draft", content |-> drafts[Latest].content])
  /\ UNCHANGED <<row, drafts, rules>>

(* applyContentToCampaign and campaigns.Update: every content column and   *)
(* the status.                                                             *)
ApplyToCampaign(r) ==
  /\ req[r].pc = "apply"
  /\ row' = [status |-> "published", content |-> req[r].content]
  /\ Becomes(r, [req[r] EXCEPT !.pc = "rules"])
  /\ UNCHANGED <<drafts, rules>>

(* ReplaceByCampaignID, in a transaction of its own.                       *)
ReplaceRules(r) ==
  /\ req[r].pc = "rules"
  /\ rules' = req[r].content
  /\ Becomes(r, [req[r] EXCEPT !.pc = "mark"])
  /\ UNCHANGED <<row, drafts>>

MarkPublished(r) ==
  /\ req[r].pc = "mark"
  /\ UpdateDraft(req[r].version, "published", req[r].content)
  /\ Becomes(r, Idle)
  /\ UNCHANGED <<row, rules>>

-----------------------------------------------------------------------------
(* A failed statement makes the request return its error; what it had      *)
(* written before stays.                                                   *)
Abort(r) ==
  /\ MayAbort /\ req[r].pc # "idle"
  /\ Becomes(r, Idle)
  /\ UNCHANGED <<row, drafts, rules>>

Step(r) ==
  \/ StartVersion(r) \/ CopyContent(r) \/ InsertVersion(r) \/ InsertConflict(r)
  \/ \E v \in DOMAIN drafts, c \in Contents : StartEdit(r, v, c)
  \/ WriteEdit(r)
  \/ StartPublish(r) \/ ApplyToCampaign(r) \/ ReplaceRules(r) \/ MarkPublished(r)
  \/ Abort(r)

Next == CreateCampaign \/ \E r \in Requests : Step(r)

Spec == Init /\ [][Next]_vars

-----------------------------------------------------------------------------
(* Correctness.                                                            *)

(* Every variable keeps its type.                                          *)
TypeOK ==
  /\ row \in Row \cup {None}
  /\ drafts \in Seq(Draft)
  /\ rules \in Contents \cup {None}
  /\ req \in [Requests -> Local]

(* Versions are worked on one after the other: everything before the       *)
(* newest version is published.                                            *)
OnlyLatestDraft ==
  \A v \in DOMAIN drafts : v < Latest => drafts[v].status = "published"

Published == {v \in DOMAIN drafts : drafts[v].status = "published"}

LatestPublished == CHOOSE v \in Published : \A u \in Published : u <= v

Publishing(r) == req[r].pc \in {"rules", "mark"}

(* PublishCampaign's promise: between requests, the campaign and its       *)
(* reward rules are those of the newest published version.                 *)
LiveIsLatestPublished ==
  Quiet /\ Published # {} =>
    /\ row.status = "published"
    /\ row.content = drafts[LatestPublished].content
    /\ rules = drafts[LatestPublished].content

(* A publish that stopped half way (campaign row written, rules or version *)
(* status not) leaves the newest version a draft, so it can be repeated.   *)
TornPublishRepeatable ==
  Quiet /\ row # None /\ Published # {} =>
    \/ drafts[Latest].status = "draft"
    \/ row.content = drafts[Latest].content /\ rules = drafts[Latest].content

(* The check at the start of PublishCampaign is enough: whatever requests  *)
(* overlap or fail, only validated content reaches campaigns and rules     *)
(* (a migrated campaign's row was there before), and no version counts as  *)
(* published with content that was never validated.                        *)
LiveContentValidated ==
  [][/\ row' # row => row'.status = "draft" \/ row'.content \in Publishable
     /\ rules' # rules => rules' \in Publishable
     /\ \A v \in DOMAIN drafts' :
          drafts'[v].status = "published" => drafts'[v].content \in Publishable
    ]_vars

(* "Only draft campaign versions can be edited": a published version keeps *)
(* its content and its status.                                             *)
PublishedVersionImmutable ==
  [][\A v \in Published : v \in DOMAIN drafts' /\ drafts'[v] = drafts[v]]_vars

(* One request at a time: the steps of a request together are the atomic   *)
(* request of CampaignVersions, whichever of its statements fails.  A      *)
(* publish takes effect when it writes the campaign row; until it has      *)
(* written the version's status, that version already counts as published. *)
Marked(v) == \E r \in Requests : Publishing(r) /\ req[r].version = v

ShownVersions ==
  [v \in DOMAIN drafts |->
     IF Marked(v) THEN [drafts[v] EXCEPT !.status = "published"] ELSE drafts[v]]

ShownLive == IF row = None \/ row.status = "draft" THEN None ELSE row.content

AnyPublishing == \E r \in Requests : Publishing(r)

Abstract == INSTANCE CampaignVersions WITH
  versions <- ShownVersions, live <- ShownLive, publishing <- AnyPublishing

ImplementsVersions == Abstract!Spec
=============================================================================
