---------------------------- MODULE LandingPages ----------------------------
(***************************************************************************)
(* One landing page, its translations and its audit log:                   *)
(* service/landing_page_admin_service.go, landing_page_translation_        *)
(* service.go and loadLandingContent of web_campaign_service.go.  Pages    *)
(* share no row, so one of them stands for all.                            *)
(*                                                                         *)
(* Only PublishLandingPage is a transaction.  The other requests read and  *)
(* write in separate statements; req[r] is what a request remembers        *)
(* between two of them.  A request that is refused (400, 404, 409) changes *)
(* nothing and is no step.  A page of white space only is left out: all    *)
(* that is special about it is that it is not translated.                  *)
(***************************************************************************)
EXTENDS Naturals, Sequences

CONSTANTS
  Requests,      \* requests that may be in progress at the same time
  Langs,
  Copies,        \* wordings, each of them in every language
  Valid,         \* wordings whose steps and faq are complete and few enough
  Operators,
  MaxPublishes,  \* bound: publishes of the page
  None

ASSUME LandingPagesAssumption ==
  /\ Valid \subseteq Copies
  /\ MaxPublishes \in Nat
  /\ None \notin Operators \cup Langs

VARIABLES
  page,          \* campaign_landing_pages, or None before it is created
  translations,  \* campaign_landing_page_translations, in order of id
  audits,        \* operators of the PUBLISH rows in audit_logs
  req,           \* requests in progress
  view           \* the last answer that showed text

vars == <<page, translations, audits, req, view>>

(* A text knows the language it is written in, whatever label it gets.     *)
Text == [lang : Langs, copy : Copies]
InLang(l, c) == [lang |-> l, copy |-> c]

Page == [status : {"draft", "published"}, default_lang : Langs, text : Text,
         updated_by : Operators \cup {None}]

ASSUME NoPageAssumption == None \notin Page

Translation == [lang : Langs, text : Text,
                created_by : Operators, updated_by : Operators]

(* A view: its label, and the language of the text under it.               *)
View == [lang : Langs, written : Langs]

Idle == [pc |-> "idle"]

Request ==
  {Idle}
  \cup [pc : {"write"}, row : Page]
  \cup [pc : {"find", "insert"}, row : Translation]
  \cup [pc : {"update"}, row : Translation, id : Nat]
  \cup [pc : {"overlay"}, lang : Langs, found : View]
  \cup [pc : {"translate"}, lang : Langs]

Init ==
  /\ page = None
  /\ translations = << >>
  /\ audits = << >>
  /\ req = [r \in Requests |-> Idle]
  /\ view = None

Becomes(r, q) == req' = [req EXCEPT ![r] = q]

Starts(r, q) == req[r] = Idle /\ page # None /\ Becomes(r, q)

-----------------------------------------------------------------------------
(* The page itself.                                                        *)

(* Mutant of validateLandingPageContent.                                   *)
AcceptAll(c) == c \in Copies

validateLandingPageContent(c) == c \in Valid

CreateLandingPage(l, c) ==
  /\ page = None
  /\ validateLandingPageContent(c)
  /\ page' = [status |-> "draft", default_lang |-> l, text |-> InLang(l, c),
              updated_by |-> None]
  /\ UNCHANGED <<translations, audits, req, view>>

(* Mutant of Editable: any page that exists.                               *)
Exists == page # None

(* ErrLandingPageNotDraft otherwise.                                       *)
Editable == page # None /\ page.status = "draft"

(* UpdateDraftLandingPage reads the row, puts the new content into it ...  *)
UpdateDraftLandingPage(r, l, c) ==
  /\ validateLandingPageContent(c) /\ Editable
  /\ Starts(r, [pc |-> "write",
                row |-> [page EXCEPT !.default_lang = l,
                                     !.text = InLang(l, c)]])
  /\ UNCHANGED <<page, translations, audits, view>>

(* Mutant of Update: every column, as the campaign drafts' Update does.    *)
UpdateAll(row) == page' = row

(* ... and writes it, with its old updated_by but not its status.          *)
Update(row) == page' = [row EXCEPT !.status = page.status]

WritePage(r) ==
  /\ req[r].pc = "write"
  /\ Update(req[r].row)
  /\ Becomes(r, Idle)
  /\ UNCHANGED <<translations, audits, view>>

(* Status, operator and audit row in one transaction; a published page may *)
(* be published again.  A repetition by the same operator in the same      *)
(* millisecond changes no row and is answered 404.                         *)
PublishLandingPage(o) ==
  /\ page # None /\ Len(audits) < MaxPublishes
  /\ page' = [page EXCEPT !.status = "published", !.updated_by = o]
  /\ audits' = Append(audits, o)
  /\ UNCHANGED <<translations, req, view>>

-----------------------------------------------------------------------------
(* Its translations.                                                       *)

RowsOf(l) == {i \in DOMAIN translations : translations[i].lang = l}

(* First(): the row with the smallest id.                                  *)
First(l) == CHOOSE i \in RowsOf(l) : \A k \in RowsOf(l) : i <= k

(* The creator of a row that is there, or the operator.                    *)
buildTranslationRow(l, c, o) ==
  [lang |-> l, text |-> InLang(l, c), updated_by |-> o,
   created_by |-> IF RowsOf(l) = {} THEN o
                  ELSE translations[First(l)].created_by]

(* SaveTranslation checks that the page exists and looks for the row ...   *)
SaveTranslation(r, l, c, o) ==
  /\ validateLandingPageContent(c)
  /\ Starts(r, [pc |-> "find", row |-> buildTranslationRow(l, c, o)])
  /\ UNCHANGED <<page, translations, audits, view>>

(* ... Upsert looks for it again to decide between insert and update.      *)
FindTranslation(r) ==
  /\ req[r].pc = "find"
  /\ LET row == req[r].row IN
       Becomes(r, IF RowsOf(row.lang) = {}
                  THEN [pc |-> "insert", row |-> row]
                  ELSE [pc |-> "update", row |-> row, id |-> First(row.lang)])
  /\ UNCHANGED <<page, translations, audits, view>>

(* Mutant of LangFree: the table has no key on the language.               *)
AlwaysFree(l) == l \in Langs

(* uk_landing_page_lang.                                                   *)
LangFree(l) == RowsOf(l) = {}

InsertTranslation(r) ==
  /\ req[r].pc = "insert" /\ LangFree(req[r].row.lang)
  /\ translations' = Append(translations, req[r].row)
  /\ Becomes(r, Idle)
  /\ UNCHANGED <<page, audits, view>>

(* Another request inserted it first: the error is answered.               *)
InsertConflict(r) ==
  /\ req[r].pc = "insert" /\ ~LangFree(req[r].row.lang)
  /\ Becomes(r, Idle)
  /\ UNCHANGED <<page, translations, audits, view>>

(* Mutant of Written: the whole row is saved.                              *)
WrittenWhole(old, new) == new

(* created_by and created_at are not among the columns.                    *)
Written(old, new) == [new EXCEPT !.created_by = old.created_by]

UpdateTranslation(r) ==
  /\ req[r].pc = "update"
  /\ translations' = [translations EXCEPT
       ![req[r].id] = Written(translations[req[r].id], req[r].row)]
  /\ Becomes(r, Idle)
  /\ UNCHANGED <<page, audits, view>>

-----------------------------------------------------------------------------
(* Showing the page.                                                       *)

(* landingPageViewFromRow.                                                 *)
PageView == [lang |-> page.default_lang, written |-> page.text.lang]

(* GetLandingPage and the user's loadLandingContent read the page, in      *)
(* whatever status it is, and are done if its own language is asked for.   *)
GetLandingPage(r, l) ==
  /\ page # None
  /\ IF l = page.default_lang
     THEN Starts(r, Idle) /\ view' = PageView
     ELSE /\ Starts(r, [pc |-> "overlay", lang |-> l, found |-> PageView])
          /\ UNCHANGED view
  /\ UNCHANGED <<page, translations, audits>>

(* Mutant of Untranslated: the view gets the language that was asked for.  *)
LabelAsAsked(found, l) == [found EXCEPT !.lang = l]

(* Without a translation the page is shown in its own language.            *)
Untranslated(found, l) == found

applyTranslationToView(l) ==
  [lang |-> l, written |-> translations[First(l)].text.lang]

OverlayTranslation(r) ==
  /\ req[r].pc = "overlay"
  /\ LET l == req[r].lang IN
       view' = IF RowsOf(l) = {} THEN Untranslated(req[r].found, l)
               ELSE applyTranslationToView(l)
  /\ Becomes(r, Idle)
  /\ UNCHANGED <<page, translations, audits>>

(* GenerateTranslation reads the page and lets the translator translate it *)
(* or the words that came with the request.  The translation is answered,  *)
(* not stored: a client saves it or does not.                              *)
GenerateTranslation(r, l) ==
  /\ Starts(r, [pc |-> "translate", lang |-> l])
  /\ UNCHANGED <<page, translations, audits, view>>

Translate(r) ==
  /\ req[r].pc = "translate"
  /\ view' = [lang |-> req[r].lang, written |-> req[r].lang]
  /\ Becomes(r, Idle)
  /\ UNCHANGED <<page, translations, audits>>

-----------------------------------------------------------------------------
(* A statement or the call of the translator fails, or the client is gone. *)
Abort(r) ==
  /\ req[r] # Idle
  /\ Becomes(r, Idle)
  /\ UNCHANGED <<page, translations, audits, view>>

Proceed(r) ==
  \/ WritePage(r)
  \/ FindTranslation(r) \/ InsertTranslation(r) \/ InsertConflict(r)
  \/ UpdateTranslation(r)
  \/ OverlayTranslation(r) \/ Translate(r)

Start(r, l) ==
  \/ GetLandingPage(r, l) \/ GenerateTranslation(r, l)
  \/ \E c \in Copies :
       \/ UpdateDraftLandingPage(r, l, c)
       \/ \E o \in Operators : SaveTranslation(r, l, c, o)

Next ==
  \/ \E l \in Langs, c \in Copies : CreateLandingPage(l, c)
  \/ \E o \in Operators : PublishLandingPage(o)
  \/ \E r \in Requests : Proceed(r) \/ Abort(r)
  \/ \E r \in Requests, l \in Langs : Start(r, l)

Spec == Init /\ [][Next]_vars

(* A request that is being handled goes on, if only to its error.          *)
FairSpec == Spec /\ \A r \in Requests : WF_vars(Proceed(r) \/ Abort(r))

-----------------------------------------------------------------------------
(* Correctness.                                                            *)

(* Every variable keeps its type, and what is stored is complete.          *)
TypeOK ==
  /\ page \in Page \cup {None}
  /\ page # None => page.text.copy \in Valid
  /\ translations \in Seq(Translation)
  /\ \A i \in DOMAIN translations : translations[i].text.copy \in Valid
  /\ audits \in Seq(Operators)
  /\ req \in [Requests -> Request]
  /\ view \in View \cup {None}

(* A page is published exactly if its audit log says so: an update that    *)
(* overtakes or is overtaken by a publish never takes the status back.     *)
PublishedIsAudited ==
  page # None => (page.status = "published" <=> audits # << >>)

(* However many saves of a language overlap, it has one translation.       *)
OneRowPerLang ==
  \A i, k \in DOMAIN translations :
    translations[i].lang = translations[k].lang => i = k

(* Whoever saved a language first stays its creator, also when a later     *)
(* save decided who creates the row before it was there.                   *)
CreatorKept ==
  [][\A i \in DOMAIN translations :
       /\ i \in DOMAIN translations'
       /\ translations'[i].lang = translations[i].lang
       /\ translations'[i].created_by = translations[i].created_by]_vars

(* The label of a view is the language of the text under it, also when the *)
(* page changes its language or a translation appears between the reads.   *)
ViewLabelledRight ==
  view # None => view.lang = view.written

(* Updates that were under way when the page was published may still       *)
(* change it, but then its content stays.                                  *)
PublishedSettles ==
  <>(audits # << >>) => <>[][page = None \/ page'.text = page.text]_page
=============================================================================
