------------------------------- MODULE HttpApi -------------------------------
(***************************************************************************)
(* What the handlers of http/api answer: the operations of router.go, the  *)
(* ways their services refuse or fail, and the status of each.             *)
(*                                                                         *)
(* Outcomes of a service: "ok"; refusals that changed nothing; "failed", a *)
(* statement or a call of another service failed; "failed_steps", the      *)
(* database refused a statement and names a column steps or faq;           *)
(* "store_refused", the object store's error says too large, unsupported   *)
(* or empty file; and "db_disabled", there is no database.  Errors with    *)
(* such words are assumed to come from a statement or request that was     *)
(* refused as a whole.  4001 stands for HTTP 200 with the business code    *)
(* 4001.                                                                   *)
(***************************************************************************)
EXTENDS Naturals

CampaignAdminOps ==
  {"AdminCreateCampaign", "AdminCreateCampaignVersion",
   "AdminEditCampaignVersion", "AdminListCampaigns", "AdminGetCampaign",
   "AdminPublishCampaign"}

LandingPageOps ==
  {"AdminGenerateLandingTranslation", "AdminListLandingPageTranslatedLangs",
   "AdminPutLandingTranslation", "AdminCreateLandingPage",
   "AdminUpdateLandingPage", "AdminListLandingPages",
   "AdminGetLandingPageLocaleDetail", "AdminGetLandingPage",
   "AdminPublishLandingPage"}

AdminOps == CampaignAdminOps \cup LandingPageOps
            \cup {"AdminGetCampaignUser", "AdminListCampaignUsers",
                  "AdminUploadImage"}

WebOps == {"UserListCampaigns", "UserGetCampaignLanding",
           "UserGetCampaignRules", "UserJoinCampaign"}

Operations == {"Ping"} \cup AdminOps \cup WebOps

Writes == {"AdminCreateCampaign", "AdminCreateCampaignVersion",
           "AdminEditCampaignVersion", "AdminPublishCampaign",
           "AdminPutLandingTranslation", "AdminCreateLandingPage",
           "AdminUpdateLandingPage", "AdminPublishLandingPage",
           "AdminUploadImage", "UserJoinCampaign"}

(* The typed errors of the services.                                       *)
Refusals(op) ==
  CASE op = "AdminCreateCampaign"             -> {"name_required"}
    [] op = "AdminEditCampaignVersion"        -> {"not_found", "not_editable"}
    [] op = "AdminPublishCampaign"            -> {"not_found", "no_draft",
                                                  "publish_invalid"}
    [] op = "AdminCreateLandingPage"          -> {"validation"}
    [] op = "AdminPutLandingTranslation"      -> {"validation", "not_found"}
    [] op = "AdminUpdateLandingPage"          -> {"validation", "not_found",
                                                  "not_draft"}
    [] op = "AdminGenerateLandingTranslation" -> {"not_found", "source_empty",
                                                  "not_configured"}
    [] op = "AdminUploadImage"                -> {"bad_image", "not_configured"}
    [] op = "UserJoinCampaign"                -> {"not_found", "not_eligible"}
    [] op \in {"Ping", "AdminListCampaigns", "AdminListLandingPages",
               "UserListCampaigns"}           -> {}
    [] OTHER                                  -> {"not_found"}

Outcomes(op) == Refusals(op) \cup (IF op = "Ping" THEN {} ELSE {"failed"})
                \cup (IF op \in LandingPageOps \cap Writes THEN {"failed_steps"}
                      ELSE {})
                \cup (IF op = "AdminUploadImage" THEN {"store_refused"} ELSE {})

-----------------------------------------------------------------------------
(* Mutant of handleRepoErr: every error is called temporary.               *)
AllUnavailable(o) == 503

handleRepoErr(o) == IF o = "db_disabled" THEN 503 ELSE 500

(* The errors a handler knows, and the rest.                               *)
Known(t, o) == IF o \in DOMAIN t THEN t[o] ELSE handleRepoErr(o)

handleCampaignAdminErr(o) ==
  Known([not_found |-> 404, not_editable |-> 409, no_draft |-> 400,
         publish_invalid |-> 400, name_required |-> 400], o)

(* It looks for the words steps and faq in the text of the error.          *)
isLandingPageValidationErr(o) == o \in {"validation", "failed_steps"}

AdminCreateLandingPage(o) ==
  IF isLandingPageValidationErr(o) THEN 400 ELSE handleRepoErr(o)

AdminUpdateLandingPage(o) ==
  IF isLandingPageValidationErr(o) THEN 400
  ELSE Known([not_draft |-> 409, not_found |-> 404], o)

AdminPutLandingTranslation(o) ==
  IF isLandingPageValidationErr(o) THEN 400
  ELSE Known([not_found |-> 404], o)

AdminGenerateLandingTranslation(o) ==
  Known([not_configured |-> 503, source_empty |-> 400, not_found |-> 404], o)

(* Bad images are told by the same words as the store's errors.            *)
AdminUploadImage(o) ==
  CASE o = "not_configured"                -> 503
    [] o \in {"bad_image", "store_refused"} -> 400
    [] OTHER                               -> 500

UserJoinCampaign(o) == Known([not_eligible |-> 4001, not_found |-> 404], o)

(* What only knows that a row may be missing.                              *)
FoundOrNot(o) == Known([not_found |-> 404], o)

AdminGetLandingPage(o)                 == FoundOrNot(o)
AdminPublishLandingPage(o)             == FoundOrNot(o)
AdminListLandingPageTranslatedLangs(o) == FoundOrNot(o)
AdminCampaignUsers(o)                  == FoundOrNot(o)
UserReads(o)                           == FoundOrNot(o)

StatusOf(op, o) ==
  IF o = "ok" THEN 200 ELSE
  CASE op \in CampaignAdminOps -> handleCampaignAdminErr(o)
    [] op = "AdminCreateLandingPage" -> AdminCreateLandingPage(o)
    [] op = "AdminUpdateLandingPage" -> AdminUpdateLandingPage(o)
    [] op = "AdminPutLandingTranslation" -> AdminPutLandingTranslation(o)
    [] op = "AdminGenerateLandingTranslation" ->
         AdminGenerateLandingTranslation(o)
    [] op = "AdminPublishLandingPage" -> AdminPublishLandingPage(o)
    [] op = "AdminListLandingPageTranslatedLangs" ->
         AdminListLandingPageTranslatedLangs(o)
    [] op = "AdminListLandingPages" -> handleRepoErr(o)
    [] op \in {"AdminGetLandingPage", "AdminGetLandingPageLocaleDetail"} ->
         AdminGetLandingPage(o)
    [] op \in {"AdminGetCampaignUser", "AdminListCampaignUsers"} ->
         AdminCampaignUsers(o)
    [] op = "AdminUploadImage" -> AdminUploadImage(o)
    [] op = "UserJoinCampaign" -> UserJoinCampaign(o)
    [] op \in WebOps \ {"UserJoinCampaign"} -> UserReads(o)

-----------------------------------------------------------------------------
(* Before the service is asked: a foreign origin, outside the access log;  *)
(* a missing user or a wrong role; a path, query or body that does not     *)
(* parse.                                                                  *)
corsMiddleware == {403}

RequireUser == {401}
RequireRole == {401, 403}

Unauthorized(op) == CASE op \in AdminOps -> RequireRole
                      [] op \in WebOps   -> RequireUser
                      [] OTHER           -> {}

(* AdminListLandingPages reads unusable numbers as absent ones.            *)
BadInput(op) ==
  IF op \in {"Ping", "AdminListLandingPages", "UserListCampaigns"} THEN {}
  ELSE {400}
=============================================================================
