------------------------- MODULE LandingPagesProofs -------------------------
(* Theorems about LandingPages, for any number of overlapping requests,    *)
(* languages, wordings and operators, wherever requests stop.              *)
EXTENDS LandingPages, TLAPS

USE LandingPagesAssumption

(* What a request carries between two statements still fits the tables, p  *)
(* and tr, when it goes on: an update writes to a page that is there, an   *)
(* upsert to a row of its language, and a text is written in the language  *)
(* of its label.                                                           *)
Ready(q, p, tr) ==
  /\ q.pc = "write" => /\ p # None /\ q.row \in Page
                       /\ q.row.text.copy \in Valid
                       /\ q.row.text.lang = q.row.default_lang
  /\ q.pc \in {"find", "insert", "update"} =>
       /\ q.row \in Translation /\ q.row.text.copy \in Valid
       /\ q.row.text.lang = q.row.lang
  /\ q.pc = "update" => q.id \in DOMAIN tr /\ tr[q.id].lang = q.row.lang
  /\ q.pc = "overlay" => /\ q.lang \in Langs /\ q.found \in View
                         /\ q.found.lang = q.found.written
  /\ q.pc = "translate" => q.lang \in Langs

Labelled ==
  /\ page # None => page.text.lang = page.default_lang
  /\ \A i \in DOMAIN translations :
       translations[i].text.lang = translations[i].lang

Inv ==
  /\ TypeOK /\ PublishedIsAudited /\ OneRowPerLang /\ ViewLabelledRight
  /\ Labelled /\ (page = None => audits = << >>)
  /\ \A r \in Requests : Ready(req[r], page, translations)

-----------------------------------------------------------------------------
LEMMA InvInit == Init => Inv
BY DEF Init, Inv, TypeOK, Idle, Request, PublishedIsAudited, OneRowPerLang,
   ViewLabelledRight, Labelled, Ready

(* What the tables can become: the page stays, translations keep their     *)
(* language.                                                               *)
Grow ==
  /\ page # None => page' # None
  /\ \A i \in DOMAIN translations :
       i \in DOMAIN translations' /\ translations'[i].lang = translations[i].lang

LEMMA StillReady ==
  ASSUME Grow, NEW q, Ready(q, page, translations)
  PROVE  Ready(q, page', translations')
BY DEF Grow, Ready

(* A request that goes on or ends leaves the others as they are.           *)
LEMMA RequestsReady ==
  ASSUME Inv, Grow, NEW r \in Requests, NEW q \in Request, Becomes(r, q),
         Ready(q, page', translations')
  PROVE  /\ req' \in [Requests -> Request]
         /\ \A s \in Requests : Ready(req'[s], page', translations')
<1>1. req' \in [Requests -> Request]
  BY DEF Becomes, Inv, TypeOK
<1>2. ASSUME NEW s \in Requests PROVE Ready(req'[s], page', translations')
  <2>1. CASE s = r
    BY <2>1 DEF Becomes, Inv, TypeOK
  <2>2. CASE s # r
    <3>1. req'[s] = req[s] /\ Ready(req[s], page, translations)
      BY <2>2 DEF Becomes, Inv, TypeOK
    <3>2. QED
      BY <3>1, StillReady
  <2>3. QED
    BY <2>1, <2>2
<1>3. QED
  BY <1>1, <1>2

LEMMA IdleReady ==
  ASSUME NEW p, NEW tr PROVE Idle \in Request /\ Ready(Idle, p, tr)
BY DEF Idle, Request, Ready

(* A step that leaves the tables alone.                                    *)
LEMMA ReadStep ==
  ASSUME Inv, NEW r \in Requests, NEW q \in Request, Becomes(r, q),
         Ready(q, page, translations),
         UNCHANGED <<page, translations, audits>>,
         view' \in View \cup {None}, view' # None => view'.lang = view'.written
  PROVE  Inv'
<1>1. Grow
  BY DEF Grow
<1>2. /\ req' \in [Requests -> Request]
      /\ \A s \in Requests : Ready(req'[s], page', translations')
  BY <1>1, RequestsReady
<1>3. QED
  BY <1>2 DEF Inv, TypeOK, PublishedIsAudited, OneRowPerLang, ViewLabelledRight,
     Labelled

LEMMA ViewKept ==
  ASSUME Inv, UNCHANGED view
  PROVE  view' \in View \cup {None} /\ (view' # None => view'.lang = view'.written)
BY DEF Inv, TypeOK, ViewLabelledRight

(* As there is one row of a language, First is that row.                   *)
LEMMA FirstRow ==
  ASSUME Inv, NEW l \in Langs, RowsOf(l) # {}
  PROVE  /\ First(l) \in DOMAIN translations
         /\ translations[First(l)].lang = l
         /\ translations[First(l)] \in Translation
<1>1. translations \in Seq(Translation) /\ DOMAIN translations \subseteq Nat
  BY DEF Inv, TypeOK
<1>2. PICK i \in RowsOf(l) : TRUE
  OBVIOUS
<1>3. \A k \in RowsOf(l) : i <= k
  BY <1>1, <1>2 DEF Inv, OneRowPerLang, RowsOf
<1>4. First(l) \in RowsOf(l)
  BY <1>2, <1>3 DEF First
<1>5. QED
  BY <1>1, <1>4 DEF RowsOf

-----------------------------------------------------------------------------
(* Steps that only read.                                                   *)

LEMMA StartReads ==
  ASSUME Inv, NEW r \in Requests, NEW l \in Langs,
         GetLandingPage(r, l) \/ GenerateTranslation(r, l)
  PROVE  Inv'
<1>1. CASE GenerateTranslation(r, l)
  <2>1. [pc |-> "translate", lang |-> l] \in Request
    BY DEF Request
  <2>2. Ready([pc |-> "translate", lang |-> l], page, translations)
    BY DEF Ready
  <2>3. QED
    BY <1>1, <2>1, <2>2, ReadStep, ViewKept DEF GenerateTranslation, Starts
<1>2. CASE GetLandingPage(r, l)
  <2>1. /\ page # None /\ page \in Page /\ PageView \in View
        /\ PageView.lang = PageView.written
    BY <1>2 DEF GetLandingPage, Inv, TypeOK, Labelled, PageView, View, Page, Text
  <2>2. CASE l = page.default_lang
    <3>1. Becomes(r, Idle) /\ view' = PageView
          /\ UNCHANGED <<page, translations, audits>>
      BY <1>2, <2>2 DEF GetLandingPage, Starts
    <3>2. QED
      BY <2>1, <3>1, IdleReady, ReadStep
  <2>3. CASE l # page.default_lang
    <3>1. [pc |-> "overlay", lang |-> l, found |-> PageView] \in Request
      BY <2>1 DEF Request
    <3>2. Ready([pc |-> "overlay", lang |-> l, found |-> PageView], page,
                translations)
      BY <2>1 DEF Ready
    <3>3. /\ Becomes(r, [pc |-> "overlay", lang |-> l, found |-> PageView])
          /\ UNCHANGED <<page, translations, audits, view>>
      BY <1>2, <2>3 DEF GetLandingPage, Starts
    <3>4. QED
      BY <3>1, <3>2, <3>3, ReadStep, ViewKept
  <2>4. QED
    BY <2>2, <2>3
<1>3. QED
  BY <1>1, <1>2

LEMMA StartUpdate ==
  ASSUME Inv, NEW r \in Requests, NEW l \in Langs, NEW c \in Copies,
         UpdateDraftLandingPage(r, l, c)
  PROVE  Inv'
<1> DEFINE new == [page EXCEPT !.default_lang = l, !.text = InLang(l, c)]
           q == [pc |-> "write", row |-> new]
<1>1. page # None /\ page \in Page /\ c \in Valid
  BY DEF UpdateDraftLandingPage, Editable, validateLandingPageContent, Inv, TypeOK
<1>2. new \in Page /\ new.text.copy \in Valid /\ new.text.lang = new.default_lang
  BY <1>1 DEF Page, Text, InLang
<1>3. q \in Request /\ Ready(q, page, translations)
  BY <1>1, <1>2 DEF Request, Ready
<1>4. Becomes(r, q) /\ UNCHANGED <<page, translations, audits, view>>
  BY DEF UpdateDraftLandingPage, Starts
<1>5. QED
  BY <1>3, <1>4, ReadStep, ViewKept

LEMMA StartSave ==
  ASSUME Inv, NEW r \in Requests, NEW l \in Langs, NEW c \in Copies,
         NEW o \in Operators, SaveTranslation(r, l, c, o)
  PROVE  Inv'
<1> DEFINE new == buildTranslationRow(l, c, o)
           q == [pc |-> "find", row |-> new]
<1>1. c \in Valid
  BY DEF SaveTranslation, validateLandingPageContent
<1>2. (IF RowsOf(l) = {} THEN o ELSE translations[First(l)].created_by) \in Operators
  BY FirstRow DEF Translation
<1>3. new \in Translation /\ new.text.copy \in Valid /\ new.text.lang = new.lang
  BY <1>1, <1>2 DEF buildTranslationRow, Translation, Text, InLang
<1>4. q \in Request /\ Ready(q, page, translations)
  BY <1>3 DEF Request, Ready
<1>5. Becomes(r, q) /\ UNCHANGED <<page, translations, audits, view>>
  BY DEF SaveTranslation, Starts
<1>6. QED
  BY <1>4, <1>5, ReadStep, ViewKept

LEMMA FindStep ==
  ASSUME Inv, NEW r \in Requests, FindTranslation(r)
  PROVE  Inv'
<1> DEFINE row == req[r].row
<1>1. /\ row \in Translation /\ row.text.copy \in Valid /\ row.lang \in Langs
      /\ row.text.lang = row.lang
  BY DEF FindTranslation, Inv, Ready, Translation
<1>2. UNCHANGED <<page, translations, audits, view>>
  BY DEF FindTranslation
<1>3. CASE RowsOf(row.lang) = {}
  <2>1. /\ [pc |-> "insert", row |-> row] \in Request
        /\ Ready([pc |-> "insert", row |-> row], page, translations)
    BY <1>1 DEF Request, Ready
  <2>2. Becomes(r, [pc |-> "insert", row |-> row])
    BY <1>3 DEF FindTranslation
  <2>3. QED
    BY <1>2, <2>1, <2>2, ReadStep, ViewKept
<1>4. CASE RowsOf(row.lang) # {}
  <2> DEFINE q == [pc |-> "update", row |-> row, id |-> First(row.lang)]
  <2>1. First(row.lang) \in DOMAIN translations /\ First(row.lang) \in Nat
        /\ translations[First(row.lang)].lang = row.lang
    BY <1>1, <1>4, FirstRow DEF Inv, TypeOK
  <2>2. q \in Request /\ Ready(q, page, translations)
    BY <1>1, <2>1 DEF Request, Ready
  <2>3. Becomes(r, q)
    BY <1>4 DEF FindTranslation
  <2>4. QED
    BY <1>2, <2>2, <2>3, ReadStep, ViewKept
<1>5. QED
  BY <1>3, <1>4

LEMMA ShowStep ==
  ASSUME Inv, NEW r \in Requests, OverlayTranslation(r) \/ Translate(r)
  PROVE  Inv'
<1>1. Becomes(r, Idle) /\ UNCHANGED <<page, translations, audits>>
  BY DEF OverlayTranslation, Translate
<1>2. CASE Translate(r)
  <2>1. req[r].lang \in Langs
    BY <1>2 DEF Translate, Inv, Ready
  <2>2. view' \in View /\ view'.lang = view'.written
    BY <1>2, <2>1 DEF Translate, View
  <2>3. QED
    BY <1>1, <2>2, IdleReady, ReadStep
<1>3. CASE OverlayTranslation(r)
  <2> DEFINE l == req[r].lang
  <2>1. l \in Langs /\ req[r].found \in View
        /\ req[r].found.lang = req[r].found.written
    BY <1>3 DEF OverlayTranslation, Inv, Ready
  <2>2. CASE RowsOf(l) = {}
    <3>1. view' = req[r].found
      BY <1>3, <2>2 DEF OverlayTranslation, Untranslated
    <3>2. QED
      BY <1>1, <2>1, <3>1, IdleReady, ReadStep
  <2>3. CASE RowsOf(l) # {}
    <3>1. view' = [lang |-> l, written |-> translations[First(l)].text.lang]
      BY <1>3, <2>3 DEF OverlayTranslation, applyTranslationToView
    <3>2. translations[First(l)].text.lang = l
      BY <2>1, <2>3, FirstRow DEF Inv, Labelled
    <3>3. view' \in View /\ view'.lang = view'.written
      BY <2>1, <3>1, <3>2 DEF View
    <3>4. QED
      BY <1>1, <3>3, IdleReady, ReadStep
  <2>4. QED
    BY <2>2, <2>3
<1>4. QED
  BY <1>2, <1>3

LEMMA EndStep ==
  ASSUME Inv, NEW r \in Requests, InsertConflict(r) \/ Abort(r)
  PROVE  Inv'
<1>1. Becomes(r, Idle) /\ UNCHANGED <<page, translations, audits, view>>
  BY DEF InsertConflict, Abort
<1>2. QED
  BY <1>1, IdleReady, ReadStep, ViewKept

-----------------------------------------------------------------------------
(* Steps that write.                                                       *)

LEMMA CreateStep ==
  ASSUME Inv, NEW l \in Langs, NEW c \in Copies, CreateLandingPage(l, c)
  PROVE  Inv'
<1>1. /\ page' \in Page /\ page'.text.copy \in Valid
      /\ page'.text.lang = page'.default_lang /\ page'.status = "draft"
      /\ page = None /\ UNCHANGED <<translations, audits, req, view>>
  BY DEF CreateLandingPage, validateLandingPageContent, Page, Text, InLang
<1>2. \A r \in Requests : Ready(req'[r], page', translations')
  BY <1>1 DEF Inv, Ready
<1>3. QED
  BY <1>1, <1>2 DEF Inv, TypeOK, PublishedIsAudited, OneRowPerLang,
     ViewLabelledRight, Labelled

LEMMA PublishStep ==
  ASSUME Inv, NEW o \in Operators, PublishLandingPage(o)
  PROVE  Inv'
<1>1. /\ page # None /\ page \in Page
      /\ page' = [page EXCEPT !.status = "published", !.updated_by = o]
      /\ audits' = Append(audits, o) /\ audits \in Seq(Operators)
      /\ UNCHANGED <<translations, req, view>>
  BY DEF PublishLandingPage, Inv, TypeOK
<1>2. /\ page' \in Page /\ page'.status = "published"
      /\ page'.text = page.text /\ page'.default_lang = page.default_lang
  BY <1>1 DEF Page
<1>3. audits' \in Seq(Operators) /\ audits' # << >>
  BY <1>1
<1>4. page' # None
  BY <1>1, <1>2, NoPageAssumption
<1>5. Grow
  BY <1>1, <1>4 DEF Grow
<1>6. \A r \in Requests : Ready(req'[r], page', translations')
  BY <1>1, <1>5, StillReady DEF Inv
<1>7. QED
  BY <1>1, <1>2, <1>3, <1>4, <1>6 DEF Inv, TypeOK, PublishedIsAudited,
     OneRowPerLang, ViewLabelledRight, Labelled

LEMMA WriteStep ==
  ASSUME Inv, NEW r \in Requests, WritePage(r)
  PROVE  Inv'
<1> DEFINE row == req[r].row
<1>1. /\ page # None /\ page \in Page /\ row \in Page
      /\ row.text.copy \in Valid /\ row.text.lang = row.default_lang
  BY DEF WritePage, Inv, TypeOK, Ready
<1>2. /\ page' = [row EXCEPT !.status = page.status]
      /\ Becomes(r, Idle) /\ UNCHANGED <<translations, audits, view>>
  BY DEF WritePage, Update
<1>3. /\ page' \in Page /\ page'.status = page.status
      /\ page'.text = row.text /\ page'.default_lang = row.default_lang
  BY <1>1, <1>2 DEF Page
<1>4. page' # None
  BY <1>3, NoPageAssumption
<1>5. Grow
  BY <1>2, <1>4 DEF Grow
<1>6. /\ req' \in [Requests -> Request]
      /\ \A s \in Requests : Ready(req'[s], page', translations')
  BY <1>2, <1>5, IdleReady, RequestsReady
<1>7. QED
  BY <1>1, <1>2, <1>3, <1>4, <1>6 DEF Inv, TypeOK, PublishedIsAudited,
     OneRowPerLang, ViewLabelledRight, Labelled

LEMMA InsertStep ==
  ASSUME Inv, NEW r \in Requests, InsertTranslation(r)
  PROVE  Inv' /\ Grow
<1> DEFINE row == req[r].row
           n == Len(translations) + 1
<1>1. /\ row \in Translation /\ row.text.copy \in Valid
      /\ row.text.lang = row.lang
  BY DEF InsertTranslation, Inv, Ready
<1>2. /\ translations \in Seq(Translation) /\ RowsOf(row.lang) = {}
      /\ translations' = Append(translations, row)
      /\ Becomes(r, Idle) /\ UNCHANGED <<page, audits, view>>
  BY DEF InsertTranslation, LangFree, Inv, TypeOK
<1>3. /\ translations' \in Seq(Translation)
      /\ DOMAIN translations' = DOMAIN translations \cup {n}
      /\ translations'[n] = row
      /\ \A i \in DOMAIN translations : translations'[i] = translations[i]
  BY <1>1, <1>2
<1>4. Grow
  BY <1>2, <1>3 DEF Grow
<1>5. \A i \in DOMAIN translations : translations[i].lang # row.lang
  BY <1>2 DEF RowsOf
<1>6. OneRowPerLang'
  BY <1>3, <1>5 DEF Inv, OneRowPerLang
<1>7. /\ \A i \in DOMAIN translations' : translations'[i].text.copy \in Valid
      /\ \A i \in DOMAIN translations' :
           translations'[i].text.lang = translations'[i].lang
  BY <1>1, <1>3 DEF Inv, TypeOK, Labelled
<1>8. /\ req' \in [Requests -> Request]
      /\ \A s \in Requests : Ready(req'[s], page', translations')
  BY <1>2, <1>4, IdleReady, RequestsReady
<1>9. QED
  BY <1>2, <1>3, <1>4, <1>6, <1>7, <1>8 DEF Inv, TypeOK, PublishedIsAudited,
     ViewLabelledRight, Labelled

LEMMA UpdateStep ==
  ASSUME Inv, NEW r \in Requests, UpdateTranslation(r)
  PROVE  Inv' /\ Grow
<1> DEFINE row == req[r].row
           old == translations[req[r].id]
           new == [row EXCEPT !.created_by = old.created_by]
<1>1. /\ row \in Translation /\ row.text.copy \in Valid
      /\ row.text.lang = row.lang
      /\ req[r].id \in DOMAIN translations /\ old.lang = row.lang
  BY DEF UpdateTranslation, Inv, Ready
<1>2. /\ translations \in Seq(Translation)
      /\ translations' = [translations EXCEPT ![req[r].id] = new]
      /\ Becomes(r, Idle) /\ UNCHANGED <<page, audits, view>>
  BY DEF UpdateTranslation, Written, Inv, TypeOK
<1>3. old \in Translation
  BY <1>1, <1>2
<1>4. new \in Translation /\ new.text = row.text /\ new.lang = row.lang
  BY <1>1, <1>3 DEF Translation
<1>5. /\ translations' \in Seq(Translation)
      /\ DOMAIN translations' = DOMAIN translations
      /\ translations'[req[r].id] = new
      /\ \A i \in DOMAIN translations :
           i # req[r].id => translations'[i] = translations[i]
  BY <1>1, <1>2, <1>4
<1>6. \A i \in DOMAIN translations : translations'[i].lang = translations[i].lang
  BY <1>1, <1>4, <1>5
<1>7. Grow
  BY <1>2, <1>5, <1>6 DEF Grow
<1>8. OneRowPerLang'
  BY <1>5, <1>6 DEF Inv, OneRowPerLang
<1>9. /\ \A i \in DOMAIN translations' : translations'[i].text.copy \in Valid
      /\ \A i \in DOMAIN translations' :
           translations'[i].text.lang = translations'[i].lang
  BY <1>1, <1>4, <1>5 DEF Inv, TypeOK, Labelled
<1>10. /\ req' \in [Requests -> Request]
       /\ \A s \in Requests : Ready(req'[s], page', translations')
  BY <1>2, <1>7, IdleReady, RequestsReady
<1>11. QED
  BY <1>2, <1>5, <1>7, <1>8, <1>9, <1>10 DEF Inv, TypeOK, PublishedIsAudited,
     ViewLabelledRight, Labelled

-----------------------------------------------------------------------------
LEMMA InvNext == Inv /\ [Next]_vars => Inv'
<1> SUFFICES ASSUME Inv, [Next]_vars PROVE Inv'
  OBVIOUS
<1>1. CASE UNCHANGED vars
  BY <1>1 DEF vars, Inv, TypeOK, PublishedIsAudited, OneRowPerLang,
     ViewLabelledRight, Labelled
<1>2. ASSUME NEW r \in Requests, NEW l \in Langs, Start(r, l) PROVE Inv'
  BY <1>2, StartReads, StartUpdate, StartSave DEF Start
<1>3. ASSUME NEW r \in Requests, Proceed(r) \/ Abort(r) PROVE Inv'
  BY <1>3, WriteStep, FindStep, InsertStep, UpdateStep, ShowStep, EndStep
  DEF Proceed
<1>4. QED
  BY <1>1, <1>2, <1>3, CreateStep, PublishStep DEF Next

(* Every state of the page, its translations and the requests is well      *)
(* typed, and nothing incomplete is ever stored.                           *)
THEOREM TypeCorrect == Spec => []TypeOK
BY InvInit, InvNext, PTL DEF Spec, Inv

(* An update never takes back a publish, whenever it read the page.        *)
THEOREM StatusIsAudited == Spec => []PublishedIsAudited
BY InvInit, InvNext, PTL DEF Spec, Inv

(* One translation per language, however many saves overlap.               *)
THEOREM LanguagesUnique == Spec => []OneRowPerLang
BY InvInit, InvNext, PTL DEF Spec, Inv

(* No answer mixes the label of one language with the text of another.     *)
THEOREM LabelsRight == Spec => []ViewLabelledRight
BY InvInit, InvNext, PTL DEF Spec, Inv

-----------------------------------------------------------------------------
CreatorsStay ==
  \A i \in DOMAIN translations :
    /\ i \in DOMAIN translations'
    /\ translations'[i].lang = translations[i].lang
    /\ translations'[i].created_by = translations[i].created_by

LEMMA CreatorsNext == Inv /\ [Next]_vars => [CreatorsStay]_vars
<1> SUFFICES ASSUME Inv, [Next]_vars PROVE CreatorsStay
  BY DEF vars
<1>1. CASE UNCHANGED translations
  BY <1>1 DEF CreatorsStay
<1>2. ASSUME NEW r \in Requests, InsertTranslation(r) PROVE CreatorsStay
  <2>1. /\ translations \in Seq(Translation) /\ req[r].row \in Translation
        /\ translations' = Append(translations, req[r].row)
    BY <1>2 DEF InsertTranslation, Inv, TypeOK, Ready
  <2>2. QED
    BY <2>1 DEF CreatorsStay
<1>3. ASSUME NEW r \in Requests, UpdateTranslation(r) PROVE CreatorsStay
  <2> DEFINE new == [req[r].row EXCEPT
                       !.created_by = translations[req[r].id].created_by]
  <2>1. /\ translations \in Seq(Translation) /\ req[r].row \in Translation
        /\ req[r].id \in DOMAIN translations
        /\ translations[req[r].id].lang = req[r].row.lang
        /\ translations' = [translations EXCEPT ![req[r].id] = new]
    BY <1>3 DEF UpdateTranslation, Written, Inv, TypeOK, Ready
  <2>2. /\ new.lang = translations[req[r].id].lang
        /\ new.created_by = translations[req[r].id].created_by
    BY <2>1 DEF Translation
  <2>3. QED
    BY <2>1, <2>2 DEF CreatorsStay
<1>4. CASE \E r \in Requests : Proceed(r) \/ Abort(r)
  <2>1. PICK r \in Requests : Proceed(r) \/ Abort(r)
    BY <1>4
  <2>2. CASE InsertTranslation(r) \/ UpdateTranslation(r)
    BY <2>2, <1>2, <1>3
  <2>3. CASE ~(InsertTranslation(r) \/ UpdateTranslation(r))
    BY <2>1, <2>3, <1>1 DEF Proceed, WritePage, FindTranslation, InsertConflict,
       OverlayTranslation, Translate, Abort
  <2>4. QED
    BY <2>2, <2>3
<1>5. CASE \E r \in Requests, l \in Langs : Start(r, l)
  BY <1>1, <1>5 DEF Start, GetLandingPage, GenerateTranslation,
     UpdateDraftLandingPage, SaveTranslation
<1>6. QED
  BY <1>1, <1>4, <1>5 DEF Next, vars, CreateLandingPage, PublishLandingPage

(* Whoever saved a language first stays its creator.                       *)
THEOREM CreatorsKept == Spec => CreatorKept
<1>1. Inv /\ [Next]_vars => [CreatorsStay]_vars
  BY CreatorsNext
<1>2. QED
  BY InvInit, InvNext, <1>1, PTL DEF Spec, CreatorKept, CreatorsStay
=============================================================================
