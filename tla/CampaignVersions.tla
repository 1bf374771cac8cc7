-------------------------- MODULE CampaignVersions --------------------------
(***************************************************************************)
(* What campaign administration promises, one atomic step per request:     *)
(* versions are numbered from 1, only the newest may be a draft, only a    *)
(* draft is edited, and publishing makes the newest draft's content live.  *)
(* A publish that fails half way has put its content live, but its version *)
(* is a draft again and can be edited and published anew.                  *)
(***************************************************************************)
EXTENDS Naturals, Sequences

CONSTANTS Contents,    \* what a version may say
          Publishable, \* contents that pass the publish checks
          NameOnly,    \* content of a version that starts from nothing
          None         \* nothing is live

VARIABLES versions, live,
          publishing   \* the newest version's publish may still fail

vars == <<versions, live, publishing>>

Init ==
  /\ versions = << >>
  /\ live \in Contents \cup {None}
  /\ publishing = FALSE

Newest == versions[Len(versions)]

HasDraft == versions # << >> /\ Newest.status = "draft"

SetNewest(s) == versions' = [versions EXCEPT ![Len(versions)].status = s]

NewVersion ==
  /\ ~HasDraft /\ ~publishing
  /\ versions' = Append(versions,
       [status |-> "draft",
        content |-> IF versions = << >> THEN NameOnly ELSE Newest.content])
  /\ UNCHANGED <<live, publishing>>

Edit(c) ==
  /\ HasDraft /\ ~publishing
  /\ versions' = [versions EXCEPT ![Len(versions)].content = c]
  /\ UNCHANGED <<live, publishing>>

Publish ==
  /\ HasDraft /\ Newest.content \in Publishable
  /\ SetNewest("published")
  /\ live' = Newest.content
  /\ publishing' = TRUE

Confirm == publishing /\ publishing' = FALSE /\ UNCHANGED <<versions, live>>

Fail ==
  /\ publishing /\ publishing' = FALSE
  /\ SetNewest("draft")
  /\ UNCHANGED live

Next ==
  NewVersion \/ Publish \/ Confirm \/ Fail \/ \E c \in Contents : Edit(c)

Spec == Init /\ [][Next]_vars
=============================================================================
