---------------------------- MODULE ServerProofs ----------------------------
(* Theorems about Server, for any deployments, numbers of requests, rows   *)
(* and images, and wherever the process ends.                              *)
EXTENDS Server, FiniteSetTheorems, TLAPS

AllUp == {"config", "logger", "mysql", "telemetry"}

(* What is set up follows from the step main is at, and what serves from   *)
(* there being something to serve it.                                      *)
ReadyInv ==
  /\ main \in {"down", "config"} => up = {}
  /\ main = "logger" => up = {"config"}
  /\ main = "mysql" => up = {"config", "logger"}
  /\ main = "telemetry" => up = {"config", "logger", "mysql"}
  /\ main \in {"kafka", "http", "notify", "wait", "flush"} => up = AllUp
  /\ http # "off" => main \in {"notify", "wait", "flush"}
  /\ consumer # "off" => main \in {"http", "notify", "wait", "flush"}
  /\ \A r \in Slots : slot[r].pc # "idle" => http # "off"

LEMMA EndsReady == ProcessEnds => ReadyInv'
BY DEF ProcessEnds, ReadyInv, Idle

(* A request is at work, and leaves the process alone.                     *)
LEMMA ProceedsServed ==
  ASSUME NEW r \in Slots, Refuse(r) \/ Proceed(r)
  PROVE  slot[r].pc # "idle" /\ UNCHANGED Rest
<1>1. CASE Refuse(r) \/ GetService(r) \/ BuildService(r) \/ NilService(r)
  BY <1>1 DEF Refuse, GetService, BuildService, NilService, At
<1>2. CASE ServiceBuilt(r) \/ BuildPanics(r) \/ Serve(r) \/ ListFails(r)
  BY <1>2 DEF ServiceBuilt, BuildPanics, Serve, ListFails, At
<1>3. CASE ServeList(r) \/ ServeListRest(r)
  BY <1>3 DEF ServeList, ServeListRest, At
<1>4. CASE TakeImage(r) \/ StoreImage(r) \/ Return(r)
  BY <1>4 DEF TakeImage, StoreImage, Return, At
<1>5. QED
  BY <1>1, <1>2, <1>3, <1>4 DEF Proceed

LEMMA MainReady == ReadyInv /\ Main => ReadyInv'
<1> SUFFICES ASSUME ReadyInv, Main PROVE ReadyInv'
  OBVIOUS
<1>1. CASE LoadConfig
  BY <1>1 DEF LoadConfig, SetsUp, MainGoes, ReadyInv
<1>2. CASE InitLogger
  BY <1>2 DEF InitLogger, SetsUp, MainGoes, ReadyInv
<1>3. CASE MysqlInit
  BY <1>3 DEF MysqlInit, SetsUp, MainGoes, ReadyInv
<1>4. CASE TelemetryInit
  BY <1>4 DEF TelemetryInit, SetsUp, MainGoes, ReadyInv, AllUp
<1>5. CASE ConfigFails \/ MysqlFails \/ Exit
  BY <1>5, EndsReady DEF ConfigFails, MysqlFails, Exit
<1>6. CASE KafkaInit
  BY <1>6 DEF KafkaInit, MainGoes, ReadyInv
<1>7. CASE StartHttp
  BY <1>7 DEF StartHttp, MainGoes, ReadyInv
<1>8. CASE Notify \/ ReceiveSignal
  BY <1>8 DEF Notify, ReceiveSignal, MainGoes, ReadyInv
<1>9. QED
  BY <1>1, <1>2, <1>3, <1>4, <1>5, <1>6, <1>7, <1>8 DEF Main

LEMMA ReadyNext == ReadyInv /\ [Next]_vars => ReadyInv'
<1> SUFFICES ASSUME ReadyInv, [Next]_vars PROVE ReadyInv'
  OBVIOUS
<1>1. CASE UNCHANGED processVars
  BY <1>1 DEF processVars, ReadyInv
<1>2. CASE Start
  BY <1>2 DEF Start, MainGoes, ReadyInv
<1>3. CASE Terminate
  BY <1>3, EndsReady DEF Terminate, ReadyInv
<1>4. CASE HttpPanics \/ HttpListens \/ HttpFails \/ SendInterrupt
  BY <1>4, EndsReady DEF HttpPanics, HttpListens, HttpFails, SendInterrupt, ReadyInv
<1>5. CASE Poll \/ HandleRecord \/ ConsumerStops \/ HandlerPanics
  BY <1>5, EndsReady DEF Poll, HandleRecord, ConsumerStops, HandlerPanics, ReadyInv
<1>6. ASSUME NEW r \in Slots, Refuse(r) \/ Proceed(r) PROVE ReadyInv'
  BY <1>6, ProceedsServed DEF Rest, ReadyInv
<1>7. ASSUME NEW r \in Slots, NEW op \in Operations, Accept(r, op)
      PROVE  ReadyInv'
  BY <1>7 DEF Accept, Rest, ReadyInv
<1>8. QED
  BY <1>1, <1>2, <1>3, <1>4, <1>5, <1>6, <1>7, MainReady DEF Next, vars

LEMMA ReadyInit == ServerInit => ReadyInv
BY DEF ServerInit, ReadyInv, Idle

(* Nothing is served before configuration, logger, database and tracer are *)
(* there, however often the process fails to start or is ended.            *)
THEOREM NothingServedEarly == Spec => []ServedOnlyWhenReady
<1>1. ReadyInv => ServedOnlyWhenReady
  BY DEF ReadyInv, ServedOnlyWhenReady, AllUp
<1>2. QED
  BY ReadyInit, ReadyNext, <1>1, PTL DEF Spec

-----------------------------------------------------------------------------
(* Images.                                                                 *)

UploadStep ==
  \/ \E r \in Slots : \/ \E p \in Payloads, n \in Names : CheckImage(r, p, n)
                     \/ PutObject(r) \/ PutFails(r) \/ UploadGivenUp(r)
  \/ UploadsLost /\ UNCHANGED <<objects, urls>>

LEMMA RequestUploads ==
  ASSUME NEW r \in Slots, Refuse(r) \/ Proceed(r)
  PROVE  UploadStep \/ UNCHANGED uploadVars
<1>1. CASE Refuse(r) \/ GetService(r) \/ BuildService(r) \/ NilService(r)
  BY <1>1 DEF Refuse, GetService, BuildService, NilService, Data
<1>2. CASE ServiceBuilt(r) \/ BuildPanics(r) \/ Serve(r) \/ ListFails(r)
  BY <1>2 DEF ServiceBuilt, BuildPanics, Serve, ListFails, Data
<1>3. CASE ServeList(r) \/ ServeListRest(r) \/ Return(r)
  BY <1>3 DEF ServeList, ServeListRest, Return
<1>4. CASE TakeImage(r) \/ StoreImage(r)
  BY <1>4 DEF TakeImage, StoreImage, UploadStep
<1>5. QED
  BY <1>1, <1>2, <1>3, <1>4 DEF Proceed

LEMMA EndsUploads == ProcessEnds => UploadStep
BY DEF ProcessEnds, UploadStep

(* What main and its goroutines leave alone, unless they end the process.  *)
LEMMA ProcessData ==
  Start \/ Main \/ Terminate \/ HttpPanics \/ HttpListens \/ HttpFails
    \/ SendInterrupt \/ Poll \/ HandleRecord \/ HandlerPanics \/ ConsumerStops
  => ProcessEnds \/ UNCHANGED Data
BY DEF Start, Main, Terminate, HttpPanics, HttpListens, HttpFails,
   SendInterrupt, Poll, HandleRecord, HandlerPanics, ConsumerStops, LoadConfig, InitLogger,
   MysqlInit, TelemetryInit, SetsUp, ConfigFails, MysqlFails, KafkaInit,
   StartHttp, Notify, ReceiveSignal, Exit

LEMMA Uploads == [Next]_vars => UploadStep \/ UNCHANGED uploadVars
<1> SUFFICES ASSUME [Next]_vars PROVE UploadStep \/ UNCHANGED uploadVars
  OBVIOUS
<1>1. CASE ProcessEnds \/ UNCHANGED Data
  BY <1>1, EndsUploads DEF Data
<1>2. ASSUME NEW r \in Slots, Refuse(r) \/ Proceed(r)
      PROVE  UploadStep \/ UNCHANGED uploadVars
  BY <1>2, RequestUploads
<1>3. ASSUME NEW r \in Slots, NEW op \in Operations, Accept(r, op)
      PROVE  UNCHANGED uploadVars
  BY <1>3 DEF Accept, Data
<1>4. QED
  BY <1>1, <1>2, <1>3, ProcessData DEF Next, vars

(* A key tells which image it was made for.                                *)
UrlInv ==
  /\ DOMAIN upload = Slots
  /\ \A r \in Slots : upload[r] # Nothing => upload[r].key.hash = upload[r].image
  /\ \A o \in objects : o.key.hash = o.image
  /\ \A u \in urls : u.key.hash = u.image
  /\ UrlKeepsItsImage

LEMMA StoredKeeps ==
  ASSUME UrlInv, NEW r \in Slots, upload[r] # Nothing
  PROVE  /\ \A o \in Stored(upload[r]) : o.key.hash = o.image
         /\ \A u \in urls : \E o \in Stored(upload[r]) :
              o.key = u.key /\ o.image = u.image
         /\ upload[r] \in Stored(upload[r])
BY DEF UrlInv, UrlKeepsItsImage, Stored

LEMMA UrlNext == UrlInv /\ [Next]_vars => UrlInv'
<1> SUFFICES ASSUME UrlInv, UploadStep \/ UNCHANGED uploadVars PROVE UrlInv'
  BY Uploads
<1>1. ASSUME NEW r \in Slots, NEW p \in Payloads, NEW n \in Names,
             CheckImage(r, p, n)
      PROVE  UrlInv'
  BY <1>1 DEF CheckImage, Key, UrlInv, UrlKeepsItsImage
<1>2. ASSUME NEW r \in Slots, PutObject(r) PROVE UrlInv'
  <2>1. /\ upload[r].key.hash = upload[r].image
        /\ objects' = Stored(upload[r])
        /\ urls' = urls \cup {[key |-> upload[r].key, image |-> upload[r].image]}
        /\ upload' = [upload EXCEPT ![r] = Nothing]
    BY <1>2 DEF PutObject, UrlInv
  <2>2. UrlKeepsItsImage' /\ \A o \in objects' : o.key.hash = o.image
    BY <1>2, <2>1, StoredKeeps DEF UrlKeepsItsImage, PutObject
  <2>3. QED
    BY <2>1, <2>2 DEF UrlInv
<1>3. ASSUME NEW r \in Slots, PutFails(r) PROVE UrlInv'
  BY <1>3, StoredKeeps DEF PutFails, UrlInv, UrlKeepsItsImage
<1>4. ASSUME NEW r \in Slots, UploadGivenUp(r) PROVE UrlInv'
  BY <1>4 DEF UploadGivenUp, UrlInv, UrlKeepsItsImage
<1>5. CASE UploadsLost /\ UNCHANGED <<objects, urls>>
  BY <1>5 DEF UploadsLost, UrlInv, UrlKeepsItsImage
<1>6. CASE UNCHANGED uploadVars
  BY <1>6 DEF uploadVars, UrlInv, UrlKeepsItsImage
<1>7. QED
  BY <1>1, <1>2, <1>3, <1>4, <1>5, <1>6 DEF UploadStep

LEMMA UrlInit == ServerInit => UrlInv
BY DEF ServerInit, UploadInit, UrlInv, UrlKeepsItsImage

(* A URL that was answered shows its image for good, whatever is uploaded  *)
(* under which name, and however uploads and processes fail.               *)
THEOREM UrlsKeepTheirImages == Spec => []UrlKeepsItsImage
<1>1. UrlInv => UrlKeepsItsImage
  BY DEF UrlInv
<1>2. QED
  BY UrlInit, UrlNext, <1>1, PTL DEF Spec

-----------------------------------------------------------------------------
(* Lists.                                                                  *)

RowStep(i) == PublishRow(i) \/ MarkVersion(i) \/ CreateVersion(i)
              \/ \E l \in Langs : EditPage(i, l)

TableStep == \/ \E l \in Langs \cup {None} : InsertRow(l)
             \/ \E i \in DOMAIN table : RowStep(i)

ListStep ==
  \/ FindPage \/ LatestSummaries \/ FindPublished \/ AnswerWebList
  \/ PageArrives /\ UNCHANGED <<table, clock, web>>
  \/ /\ PageLost \/ UNCHANGED walk
     /\ WebListLost \/ UNCHANGED web
     /\ UNCHANGED <<table, clock>>
  \/ \E l \in Lists, f \in Filters, s \in Nat : StartWalk(l, f, s)
  \/ TableStep \/ Tick

LEMMA RequestLists ==
  ASSUME NEW r \in Slots, Refuse(r) \/ Proceed(r)
  PROVE  ListStep \/ UNCHANGED listVars
<1>1. CASE Refuse(r) \/ GetService(r) \/ BuildService(r) \/ NilService(r)
  BY <1>1 DEF Refuse, GetService, BuildService, NilService, Data
<1>2. CASE ServiceBuilt(r) \/ BuildPanics(r) \/ Serve(r)
  BY <1>2 DEF ServiceBuilt, BuildPanics, Serve, Data
<1>3. CASE TakeImage(r) \/ StoreImage(r)
  BY <1>3 DEF TakeImage, StoreImage
<1>4. CASE ListFails(r)
  BY <1>4 DEF ListFails, ListStep
<1>5. CASE ServeList(r) \/ ServeListRest(r)
  BY <1>5 DEF ServeList, ServeListRest, ListStep
<1>6. CASE Return(r)
  BY <1>6 DEF Return, ListStep, listVars
<1>7. QED
  BY <1>1, <1>2, <1>3, <1>4, <1>5, <1>6 DEF Proceed

LEMMA ListSteps ==
  conf \in Deployments /\ [Next]_vars => ListStep \/ UNCHANGED listVars
<1> SUFFICES ASSUME conf \in Deployments, [Next]_vars
             PROVE  ListStep \/ UNCHANGED listVars
  OBVIOUS
<1>0. conf \in Deployments
  OBVIOUS
<1>1. CASE ProcessEnds \/ UNCHANGED Data
  BY <1>1 DEF Data, ProcessEnds, ListStep
<1>2. ASSUME NEW r \in Slots, Refuse(r) \/ Proceed(r)
      PROVE  ListStep \/ UNCHANGED listVars
  BY <1>2, RequestLists
<1>3. ASSUME NEW r \in Slots, NEW op \in Operations, Accept(r, op)
      PROVE  UNCHANGED listVars
  BY <1>3 DEF Accept, Data
<1>4. CASE Elsewhere
  <2>1. \A op : ListOf(op) \in Lists
    BY DEF ListOf, Lists
  <2>2. CASE \E op \in WalkOps \cap conf.traffic, q \in conf.queries :
               StartWalk(ListOf(op), q.filter, q.size)
    <3>1. \A q \in conf.queries : q.filter \in Filters /\ q.size \in Nat
      BY <1>0, ServerAssumption
    <3>2. QED
      BY <2>1, <2>2, <3>1 DEF ListStep
  <2>3. QED
    BY <1>4, <2>2 DEF Elsewhere, LangsOf, ListStep, TableStep, RowStep
<1>5. QED
  BY <1>1, <1>2, <1>3, <1>4, ProcessData DEF Next, vars

(* A published newest version is that of a live campaign, and every row of *)
(* a page or of the user's list is there, with the status it was found by. *)
TableInv ==
  /\ table \in Seq(Row) /\ Len(table) <= MaxRows /\ clock \in Times
  /\ \A i \in DOMAIN table :
       table[i].latest = "published" => table[i].status = "published"

WalkInv ==
  /\ walk \in Walk /\ walk.found \cup walk.shown \subseteq DOMAIN table
  /\ ShownPublishedIsLive

WebInv ==
  /\ web \in Web /\ web.rows \subseteq Matching(Published)
  /\ ShownByWindow

ListInv == TableInv /\ WalkInv /\ WebInv

(* Rows stay, and so does being published.                                 *)
TableGrows ==
  \A i \in DOMAIN table :
    /\ i \in DOMAIN table'
    /\ table[i].status = "published" => table'[i].status = "published"

LEMMA TableKeeps ==
  ASSUME ListInv, TableInv', TableGrows, walk' \in Walk,
         walk'.found = walk.found, walk'.shown = walk.shown, UNCHANGED web
  PROVE  ListInv'
<1>1. Matching(Published) \subseteq Matching(Published)'
  BY DEF TableGrows, Matching, Matches, Published, Unfiltered
<1>2. WalkInv'
  BY DEF ListInv, WalkInv, TableGrows, ShownPublishedIsLive
<1>3. WebInv'
  BY <1>1 DEF ListInv, WebInv, ShownByWindow, Begun, NotEnded
<1>4. QED
  BY <1>2, <1>3 DEF ListInv

(* What a row that changes does to the client that reads the list.         *)
RowLeaves(i) ==
  /\ Reading /\ i \in Matching(walk.filter)
  /\ Matching(walk.filter)' = Matching(walk.filter) \ {i}
  /\ walk' = [walk EXCEPT !.owed = walk.owed \ {i}, !.left = walk.left + 1]

RowStays ==
  UNCHANGED walk /\ (Reading => Matching(walk.filter) \subseteq Matching(walk.filter)')

LEMMA RowChanges ==
  ASSUME ListInv, NEW i \in DOMAIN table, NEW row \in Row,
         row.latest = "published" => row.status = "published",
         table[i].status = "published" => row.status = "published",
         Becomes(i, row)
  PROVE  /\ ListInv' /\ TableGrows
         /\ RowStays \/ (RowLeaves(i) /\ ~OnlyGrows(walk.filter))
<1>1. /\ DOMAIN table' = DOMAIN table /\ Len(table') = Len(table)
      /\ table' \in Seq(Row)
  BY DEF ListInv, TableInv, Becomes
<1>2. \A k \in DOMAIN table : table'[k] = IF k = i THEN row ELSE table[k]
  BY DEF ListInv, TableInv, Becomes
<1>3. TableInv' /\ TableGrows
  BY <1>1, <1>2 DEF ListInv, TableInv, TableGrows, Becomes
<1>4. \A f : Matching(f)' = {k \in DOMAIN table :
                            Matches(IF k = i THEN row ELSE table[k], f)}
  BY <1>1, <1>2 DEF Matching
<1>5. walk \in Walk /\ UNCHANGED web
  BY DEF ListInv, WalkInv, Becomes
<1> DEFINE leaves == Reading /\ i \in Matching(walk.filter)
                     /\ ~Matches(row, walk.filter)
<1>6. CASE leaves
  <2>1. walk' = [walk EXCEPT !.owed = walk.owed \ {i}, !.left = walk.left + 1]
    BY <1>6 DEF Becomes
  <2>2. walk' \in Walk /\ walk'.found = walk.found /\ walk'.shown = walk.shown
    <3>1. walk.owed \ {i} \in SUBSET (1..MaxRows) /\ walk.left + 1 \in Nat
      BY <1>5 DEF Walk
    <3>2. QED
      BY <1>5, <2>1, <3>1 DEF Walk
  <2>3. Matching(walk.filter)' = Matching(walk.filter) \ {i}
    <3>1. walk'.filter = walk.filter
      BY <1>5, <2>1 DEF Walk
    <3>2. QED
      BY <1>4, <1>6, <3>1 DEF Matching
  <2>4. ~OnlyGrows(walk.filter)
    <3>1. walk.filter.status \in {"draft", "published", None}
      <4>1. walk.filter \in Filters
        BY <1>5 DEF Walk
      <4>2. QED
        BY <4>1 DEF Filters, Status
    <3>2. Matches(table[i], walk.filter) /\ ~Matches(row, walk.filter)
      BY <1>6 DEF Matching
    <3>3. QED
      BY <3>1, <3>2 DEF Matches, OnlyGrows
  <2>5. QED
    BY <1>3, <1>5, <1>6, <2>1, <2>2, <2>3, <2>4, TableKeeps DEF RowLeaves
<1>7. CASE ~leaves
  <2>1. UNCHANGED walk
    BY <1>7 DEF Becomes
  <2>2. Reading => Matching(walk.filter) \subseteq Matching(walk.filter)'
    BY <1>4, <1>7, <2>1 DEF Matching
  <2>3. QED
    BY <1>3, <1>5, <2>1, <2>2, TableKeeps DEF RowStays
<1>8. QED
  BY <1>6, <1>7

LEMMA RowNext ==
  ASSUME ListInv, NEW i \in DOMAIN table, RowStep(i)
  PROVE  /\ ListInv' /\ TableGrows
         /\ RowStays \/ (RowLeaves(i) /\ ~OnlyGrows(walk.filter))
<1>1. PICK old \in Row :
        table[i] = old /\ (old.latest = "published" => old.status = "published")
  BY DEF ListInv, TableInv
<1>2. CASE PublishRow(i)
  <2> DEFINE row == [old EXCEPT !.status = "published"]
  <2>1. row \in Row /\ row.status = "published"
    BY DEF Row, Status
  <2>2. Becomes(i, row)
    BY <1>1, <1>2 DEF PublishRow
  <2> HIDE DEF row
  <2>3. QED
    BY <2>1, <2>2, RowChanges
<1>3. CASE MarkVersion(i)
  <2> DEFINE row == [old EXCEPT !.latest = "published"]
  <2>1. row \in Row /\ row.status = old.status
    BY DEF Row, Status
  <2>2. Becomes(i, row) /\ old.status = "published"
    BY <1>1, <1>3 DEF MarkVersion
  <2> HIDE DEF row
  <2>3. QED
    BY <1>1, <2>1, <2>2, RowChanges
<1>4. CASE CreateVersion(i)
  <2> DEFINE row == [old EXCEPT !.latest = "draft"]
  <2>1. row \in Row /\ row.status = old.status /\ row.latest = "draft"
    BY DEF Row, Status
  <2>2. Becomes(i, row)
    BY <1>1, <1>4 DEF CreateVersion
  <2> HIDE DEF row
  <2>3. QED
    BY <1>1, <2>1, <2>2, RowChanges
<1>5. ASSUME NEW l \in Langs, EditPage(i, l)
      PROVE  /\ ListInv' /\ TableGrows
             /\ RowStays \/ (RowLeaves(i) /\ ~OnlyGrows(walk.filter))
  <2> DEFINE row == [old EXCEPT !.lang = l]
  <2>1. row \in Row /\ row.status = old.status /\ row.latest = old.latest
    BY DEF Row
  <2>2. Becomes(i, row)
    BY <1>1, <1>5 DEF EditPage
  <2> HIDE DEF row
  <2>3. QED
    BY <1>1, <2>1, <2>2, RowChanges
<1>6. QED
  BY <1>2, <1>3, <1>4, <1>5 DEF RowStep

LEMMA InsertNext ==
  ASSUME ListInv, NEW l \in Langs \cup {None}, InsertRow(l)
  PROVE  ListInv' /\ TableGrows /\ RowStays
<1> DEFINE row == [status |-> "draft", latest |-> "draft", lang |-> l]
<1>1. row \in Row /\ row.latest = "draft"
  BY DEF Row, Status
<1>2. table' = Append(table, row) /\ Len(table) < MaxRows
      /\ UNCHANGED <<clock, walk, web>>
  BY DEF InsertRow
<1> HIDE DEF row
<1>3. TableInv' /\ \A i \in DOMAIN table : i \in DOMAIN table' /\ table'[i] = table[i]
  BY <1>1, <1>2, ListingAssumption DEF ListInv, TableInv
<1>4. TableGrows /\ RowStays
  BY <1>2, <1>3 DEF TableGrows, RowStays, Matching
<1>5. QED
  BY <1>2, <1>3, <1>4, TableKeeps DEF ListInv, WalkInv

LEMMA TableNext ==
  ASSUME ListInv, TableStep \/ Tick
  PROVE  ListInv'
<1>1. CASE TableStep
  BY <1>1, RowNext, InsertNext DEF TableStep
<1>2. CASE Tick
  BY <1>2, TableKeeps, ListingAssumption
     DEF Tick, ListInv, TableInv, TableGrows, Times, WalkInv
<1>3. QED
  BY <1>1, <1>2

LEMMA NewestIn == \A S, skip, n : Newest(S, skip, n) \subseteq S
BY DEF Newest

LEMMA MatchingIn ==
  ASSUME ListInv, NEW f
  PROVE  Matching(f) \subseteq DOMAIN table /\ DOMAIN table \subseteq 1..MaxRows
BY ListingAssumption DEF ListInv, TableInv, Matching

LEMMA WalkNext ==
  ASSUME ListInv, UNCHANGED table,
         \/ FindPage \/ LatestSummaries \/ PageArrives \/ PageLost
         \/ \E l \in Lists, f \in Filters, s \in Nat : StartWalk(l, f, s)
         \/ UNCHANGED walk
  PROVE  WalkInv'
<1> USE DEF Walk, WalkInv, ShownPublishedIsLive
<1>0. WalkInv
  BY DEF ListInv
<1>1. CASE FindPage
  <2>1. walk'.found \subseteq DOMAIN table
    BY <1>1, <1>0, NewestIn, MatchingIn DEF FindPage
  <2>2. walk' \in Walk /\ walk'.shown = walk.shown
    BY <1>1, <1>0, <2>1, MatchingIn DEF FindPage
  <2>3. QED
    BY <1>0, <2>1, <2>2
<1>2. CASE LatestSummaries
  BY <1>2, <1>0 DEF LatestSummaries, campaignToListVO, ListInv, TableInv
<1>3. CASE PageArrives /\ walk' # walk
  <2>1. walk.page + 1 \in Nat /\ walk.seen \cup walk.found \subseteq 1..MaxRows
    BY <1>0
  <2>2. walk' \in Walk /\ walk'.found = {} /\ walk'.shown = walk.shown
    BY <1>3, <1>0, <2>1 DEF PageArrives
  <2>3. QED
    BY <1>0, <2>2
<1>4. CASE PageLost /\ walk' # walk
  BY <1>4, <1>0 DEF PageLost
<1>5. ASSUME NEW l \in Lists, NEW f \in Filters, NEW s \in Nat,
             StartWalk(l, f, s)
      PROVE  WalkInv'
  <2>1. walk' = [pc |-> "find", list |-> l, filter |-> f, size |-> s,
                 page |-> 1, left |-> 0, owed |-> Matching(f), seen |-> {},
                 found |-> {}, shown |-> {}]
    BY <1>5 DEF StartWalk, NoWalk
  <2>2. QED
    BY <2>1, MatchingIn, ListingAssumption
<1>6. CASE walk' = walk
  BY <1>0, <1>6
<1>7. QED
  BY <1>1, <1>2, <1>3, <1>4, <1>5, <1>6

(* The code's distinction of windows, read as sets of rows.                *)
LEMMA WindowClass ==
  ASSUME NEW now \in Times, NEW i \in 1..MaxRows
  PROVE  LET w == WindowOf[i]
             begun == w.start = None \/ w.start <= now
             open == w.end = None \/ now <= w.end
         IN /\ classifyCampaignWindow(now, w) = "ongoing" <=> begun /\ open
            /\ classifyCampaignWindow(now, w) = "upcoming" <=> ~begun
<1>1. WindowOf[i] \in [start : Times \cup {None}, end : Times \cup {None}]
  BY ListingAssumption
<1>2. QED
  BY <1>1, ListingAssumption DEF classifyCampaignWindow, Times

LEMMA WebNext ==
  ASSUME ListInv, UNCHANGED table,
         FindPublished \/ AnswerWebList \/ WebListLost \/ UNCHANGED web
  PROVE  WebInv'
<1> USE DEF Web, WebInv
<1>0. /\ WebInv /\ clock \in Times /\ 0 \in Times
      /\ Matching(Published)' = Matching(Published)
      /\ Matching(Published) \subseteq 1..MaxRows
  BY MatchingIn, ListingAssumption DEF Matching, ListInv, TableInv, Times
<1>1. CASE FindPublished
  <2>1. /\ web' = [NoWeb EXCEPT !.pc = "found",
                                !.rows = Newest(Matching(Published), 0, WebLimit)]
        /\ Newest(Matching(Published), 0, WebLimit) \subseteq Matching(Published)
    BY <1>1, NewestIn DEF FindPublished
  <2>2. QED
    BY <1>0, <2>1 DEF NoWeb, ShownByWindow
<1>2. CASE web' = NoWeb
  BY <1>0, <1>2 DEF NoWeb, ShownByWindow
<1>3. CASE web' = web
  BY <1>0, <1>3 DEF ShownByWindow, Begun, NotEnded
<1>4. CASE AnswerWebList
  <2>1. web' = [web EXCEPT !.pc = "answered", !.at = clock,
          !.ongoing = {i \in web.rows :
                       classifyCampaignWindow(clock, WindowOf[i]) = "ongoing"},
          !.upcoming = {i \in web.rows :
                       classifyCampaignWindow(clock, WindowOf[i]) = "upcoming"}]
    BY <1>4 DEF AnswerWebList
  <2>2. web' \in Web /\ web'.rows = web.rows /\ web'.at = clock
    BY <1>0, <2>1
  <2>3. /\ web'.ongoing = {i \in web.rows : Begun(i)' /\ NotEnded(i)'}
        /\ web'.upcoming = {i \in web.rows : ~Begun(i)'}
    BY <1>0, <2>1, <2>2, WindowClass DEF Begun, NotEnded
  <2>4. QED
    BY <1>0, <2>2, <2>3 DEF ShownByWindow
<1>5. QED
  BY <1>1, <1>2, <1>3, <1>4 DEF WebListLost

LEMMA ListNext ==
  conf \in Deployments /\ ListInv /\ [Next]_vars => ListInv'
<1> SUFFICES ASSUME ListInv, ListStep \/ UNCHANGED listVars PROVE ListInv'
  BY ListSteps
<1>1. UNCHANGED <<table, clock>> => TableInv'
  BY DEF ListInv, TableInv
<1>2. CASE TableStep \/ Tick
  BY <1>2, TableNext
<1>3. CASE \/ FindPage \/ LatestSummaries
           \/ PageArrives /\ UNCHANGED <<table, clock, web>>
           \/ \E l \in Lists, f \in Filters, s \in Nat : StartWalk(l, f, s)
  <2>1. UNCHANGED <<table, clock, web>>
    BY <1>3 DEF FindPage, LatestSummaries, StartWalk
  <2>2. QED
    BY <1>1, <1>3, <2>1, WalkNext, WebNext DEF ListInv
<1>4. CASE FindPublished \/ AnswerWebList
  BY <1>1, <1>4, WalkNext, WebNext DEF FindPublished, AnswerWebList, ListInv
<1>5. CASE /\ PageLost \/ UNCHANGED walk
           /\ WebListLost \/ UNCHANGED web
           /\ UNCHANGED <<table, clock>>
  BY <1>1, <1>5, WalkNext, WebNext DEF ListInv
<1>6. CASE UNCHANGED listVars
  BY <1>1, <1>6, WalkNext, WebNext DEF listVars, ListInv
<1>7. QED
  BY <1>2, <1>3, <1>4, <1>5, <1>6 DEF ListStep

LEMMA ConfStays == conf \in Deployments /\ [Next]_vars => (conf \in Deployments)'
<1> SUFFICES ASSUME [Next]_vars PROVE conf' = conf
  OBVIOUS
<1>1. CASE UNCHANGED conf
  BY <1>1
<1>2. CASE Start \/ Main \/ Terminate
  BY <1>2 DEF Start, Main, Terminate, LoadConfig, InitLogger, MysqlInit,
     TelemetryInit, SetsUp, ConfigFails, MysqlFails, KafkaInit, StartHttp,
     Notify, ReceiveSignal, Exit, ProcessEnds
<1>3. CASE HttpPanics \/ HttpListens \/ HttpFails \/ SendInterrupt
           \/ Poll \/ HandleRecord \/ HandlerPanics \/ ConsumerStops
  BY <1>3 DEF HttpPanics, HttpListens, HttpFails, SendInterrupt, Poll,
     HandleRecord, HandlerPanics, ConsumerStops, ProcessEnds
<1>4. ASSUME NEW r \in Slots, Refuse(r) \/ Proceed(r) PROVE conf' = conf
  BY <1>4, ProceedsServed DEF Rest
<1>5. ASSUME NEW r \in Slots, NEW op \in Operations, Accept(r, op)
      PROVE  conf' = conf
  BY <1>5 DEF Accept, Rest
<1>6. QED
  BY <1>1, <1>2, <1>3, <1>4, <1>5 DEF Next, vars

(* The lists, with what clients ask.                                       *)
ConfListInv == conf \in Deployments /\ ListInv

LEMMA ConfListNext == ConfListInv /\ [Next]_vars => ConfListInv'
BY ConfStays, ListNext DEF ConfListInv

LEMMA ListInitial == ServerInit => ConfListInv
<1> SUFFICES ASSUME ServerInit PROVE ConfListInv
  OBVIOUS
<1>0. conf \in Deployments
  BY DEF ServerInit
<1>1. table = << >> /\ clock = 0 /\ walk = NoWalk /\ web = NoWeb
  BY DEF ServerInit, ListInit
<1>2. TableInv
  BY <1>1, ListingAssumption DEF TableInv, Times
<1>3. WalkInv
  BY <1>1 DEF WalkInv, NoWalk, Walk, Lists, Unfiltered, Filters, ShownPublishedIsLive
<1>4. WebInv
  BY <1>1, ListingAssumption DEF WebInv, NoWeb, Web, ShownByWindow, Times
<1>5. QED
  BY <1>0, <1>2, <1>3, <1>4 DEF ConfListInv, ListInv

(* A campaign the administrators' list calls published is live, whatever   *)
(* is created, published and edited between the list's statements.         *)
THEOREM ListedPublishedIsLive == Spec => []ShownPublishedIsLive
<1>1. ConfListInv => ShownPublishedIsLive
  BY DEF ConfListInv, ListInv, WalkInv
<1>2. QED
  BY ListInitial, ConfListNext, <1>1, PTL DEF Spec

(* The user's list tells running from coming campaigns by their windows,   *)
(* at the time it is answered, and shows live ones only.                   *)
THEOREM ListedByWindow == Spec => []ShownByWindow
<1>1. ConfListInv => ShownByWindow
  BY DEF ConfListInv, ListInv, WebInv
<1>2. QED
  BY ListInitial, ConfListNext, <1>1, PTL DEF Spec

-----------------------------------------------------------------------------
(* Answers.                                                                *)

Codes == {200, 400, 401, 403, 404, 409, 500, 503, 4001}

(* Which handler answers an operation, and what it makes of each outcome.  *)
LEMMA Handlers ==
  ASSUME NEW op, NEW o, o # "ok"
  PROVE  /\ op \in CampaignAdminOps => StatusOf(op, o) = handleCampaignAdminErr(o)
         /\ op = "AdminCreateLandingPage" =>
              StatusOf(op, o) = AdminCreateLandingPage(o)
         /\ op = "AdminUpdateLandingPage" =>
              StatusOf(op, o) = AdminUpdateLandingPage(o)
         /\ op = "AdminPutLandingTranslation" =>
              StatusOf(op, o) = AdminPutLandingTranslation(o)
         /\ op = "AdminGenerateLandingTranslation" =>
              StatusOf(op, o) = AdminGenerateLandingTranslation(o)
         /\ op = "AdminListLandingPages" => StatusOf(op, o) = handleRepoErr(o)
         /\ op = "AdminUploadImage" => StatusOf(op, o) = AdminUploadImage(o)
         /\ op = "UserJoinCampaign" => StatusOf(op, o) = UserJoinCampaign(o)
BY DEF StatusOf, CampaignAdminOps, WebOps

FoundOps ==
  {"AdminListLandingPageTranslatedLangs", "AdminGetLandingPageLocaleDetail",
   "AdminGetLandingPage", "AdminPublishLandingPage", "AdminGetCampaignUser",
   "AdminListCampaignUsers", "UserListCampaigns", "UserGetCampaignLanding",
   "UserGetCampaignRules"}

LEMMA FoundHandlers ==
  ASSUME NEW op \in FoundOps, NEW o, o # "ok"
  PROVE  StatusOf(op, o) = FoundOrNot(o)
BY DEF FoundOps, StatusOf, CampaignAdminOps, WebOps, AdminPublishLandingPage,
   AdminListLandingPageTranslatedLangs, AdminGetLandingPage, AdminCampaignUsers,
   UserReads

(* An answer that is true: a typed refusal does not have the status of a   *)
(* fault, and what another status is given to has changed nothing.         *)
AnyOutcome == {"ok", "refused", "panic", "db_disabled"}
              \cup UNION {Outcomes(op) : op \in Operations}

Honest(op, o, status, changed) ==
  /\ o \in AnyOutcome /\ status \in Codes /\ changed \in BOOLEAN
  /\ status \notin {200, 500} => ~changed
  /\ o \in Refusals(op) => status # 500

LEMMA RefusalsHonest ==
  ASSUME NEW op \in Operations, NEW o \in Refusals(op)
  PROVE  /\ o \notin {"ok", "failed", "failed_steps", "db_disabled", "panic"}
         /\ o # "store_refused" /\ StatusOf(op, o) \in Codes \ {200, 500}
<1> USE DEF Known, handleRepoErr
<1>1. CASE op \in CampaignAdminOps
  <2>1. Refusals(op) \subseteq {"not_found", "not_editable", "no_draft",
                               "publish_invalid", "name_required"}
    BY <1>1 DEF CampaignAdminOps, Refusals
  <2>2. handleCampaignAdminErr(o) \in {400, 404, 409}
    BY <2>1 DEF handleCampaignAdminErr
  <2>3. QED
    BY <1>1, <2>1, <2>2, Handlers DEF Codes
<1>2. CASE op \in {"AdminCreateLandingPage", "AdminUpdateLandingPage",
                   "AdminPutLandingTranslation"}
  <2>1. CASE op = "AdminCreateLandingPage"
    <3>1. o = "validation"
      BY <2>1 DEF Refusals
    <3>2. QED
      BY <2>1, <3>1, Handlers
         DEF Codes, AdminCreateLandingPage, isLandingPageValidationErr
  <2>2. CASE op = "AdminUpdateLandingPage"
    <3>1. o \in {"validation", "not_found", "not_draft"}
      BY <2>2 DEF Refusals
    <3>2. AdminUpdateLandingPage(o) \in {400, 404, 409}
      BY <3>1 DEF AdminUpdateLandingPage, isLandingPageValidationErr
    <3>3. QED
      BY <2>2, <3>1, <3>2, Handlers DEF Codes
  <2>3. CASE op = "AdminPutLandingTranslation"
    <3>1. o \in {"validation", "not_found"}
      BY <2>3 DEF Refusals
    <3>2. AdminPutLandingTranslation(o) \in {400, 404}
      BY <3>1 DEF AdminPutLandingTranslation, isLandingPageValidationErr
    <3>3. QED
      BY <2>3, <3>1, <3>2, Handlers DEF Codes
  <2>4. QED
    BY <1>2, <2>1, <2>2, <2>3
<1>3. CASE op = "AdminGenerateLandingTranslation"
  <2>1. o \in {"not_found", "source_empty", "not_configured"}
    BY <1>3 DEF Refusals
  <2>2. AdminGenerateLandingTranslation(o) \in {400, 404, 503}
    BY <2>1 DEF AdminGenerateLandingTranslation
  <2>3. QED
    BY <1>3, <2>1, <2>2, Handlers DEF Codes
<1>4. CASE op = "AdminUploadImage"
  <2>1. o \in {"bad_image", "not_configured"}
    BY <1>4 DEF Refusals
  <2>2. QED
    BY <1>4, <2>1, Handlers DEF Codes, AdminUploadImage
<1>5. CASE op = "UserJoinCampaign"
  <2>1. o \in {"not_found", "not_eligible"}
    BY <1>5 DEF Refusals
  <2>2. UserJoinCampaign(o) \in {404, 4001}
    BY <2>1 DEF UserJoinCampaign
  <2>3. QED
    BY <1>5, <2>1, <2>2, Handlers DEF Codes
<1>6. CASE op \in FoundOps
  <2>1. o = "not_found"
    BY <1>6 DEF FoundOps, Refusals
  <2>2. FoundOrNot(o) = 404
    BY <2>1 DEF FoundOrNot
  <2>3. QED
    BY <1>6, <2>1, <2>2, FoundHandlers DEF Codes
<1>7. CASE op \in {"Ping", "AdminListLandingPages"}
  BY <1>7 DEF Refusals
<1>8. QED
  BY <1>1, <1>2, <1>3, <1>4, <1>5, <1>6, <1>7
     DEF Operations, AdminOps, WebOps, LandingPageOps, FoundOps

LEMMA FaultStatus ==
  ASSUME NEW op \in Operations \ {"Ping"}
  PROVE  /\ StatusOf(op, "failed") = 500
         /\ StatusOf(op, "db_disabled") \in {500, 503}
         /\ StatusOf(op, "failed_steps") \in {400, 500}
         /\ op = "AdminUploadImage" => StatusOf(op, "store_refused") = 400
<1> DEFINE Faults == {"failed", "db_disabled", "failed_steps"}
<1> USE DEF Known, handleRepoErr
<1>1. \A o \in Faults : FoundOrNot(o) = handleRepoErr(o)
                         /\ handleCampaignAdminErr(o) = handleRepoErr(o)
                         /\ AdminGenerateLandingTranslation(o) = handleRepoErr(o)
                         /\ AdminUploadImage(o) = 500
                         /\ UserJoinCampaign(o) = handleRepoErr(o)
  BY DEF FoundOrNot, handleCampaignAdminErr, AdminGenerateLandingTranslation,
     AdminUploadImage, UserJoinCampaign
<1>2. \A o \in Faults \ {"failed_steps"} :
        /\ AdminCreateLandingPage(o) = handleRepoErr(o)
        /\ AdminUpdateLandingPage(o) = handleRepoErr(o)
        /\ AdminPutLandingTranslation(o) = handleRepoErr(o)
  BY DEF AdminCreateLandingPage, AdminUpdateLandingPage,
     AdminPutLandingTranslation, isLandingPageValidationErr
<1>3. /\ AdminCreateLandingPage("failed_steps") = 400
      /\ AdminUpdateLandingPage("failed_steps") = 400
      /\ AdminPutLandingTranslation("failed_steps") = 400
  BY DEF AdminCreateLandingPage, AdminUpdateLandingPage,
     AdminPutLandingTranslation, isLandingPageValidationErr
<1>4. \A o \in Faults :
        \/ StatusOf(op, o) = handleRepoErr(o)
        \/ StatusOf(op, o) = 500
        \/ StatusOf(op, o) = 400 /\ o = "failed_steps"
  <2>1. CASE op \in FoundOps
    BY <1>1, <2>1, FoundHandlers
  <2>2. CASE op \notin FoundOps
    BY <1>1, <1>2, <1>3, <2>2, Handlers
       DEF FoundOps, Operations, AdminOps, WebOps, LandingPageOps
  <2>3. QED
    BY <2>1, <2>2
<1>5. op = "AdminUploadImage" => StatusOf(op, "store_refused") = 400
  BY Handlers DEF AdminUploadImage
<1>6. QED
  BY <1>4, <1>5

LEMMA ServeHonest ==
  ASSUME NEW op \in Operations,
         NEW o \in {"ok"} \cup Outcomes(op)
                   \cup (IF op = "Ping" THEN {} ELSE {"db_disabled"}),
         NEW changed \in Changed(op, o)
  PROVE  Honest(op, o, StatusOf(op, o), changed)
<1>1. o \in AnyOutcome
  BY DEF AnyOutcome
<1>2. changed \in BOOLEAN /\ (o \notin {"ok", "failed"} => ~changed)
  BY DEF Changed
<1>3. CASE o = "ok"
  <2>1. StatusOf(op, o) = 200
    BY <1>3 DEF StatusOf
  <2>2. QED
    BY <1>1, <1>2, <2>1 DEF Honest, Codes
<1>4. CASE o \in Refusals(op)
  BY <1>1, <1>2, <1>4, RefusalsHonest DEF Honest
<1>5. CASE o \in {"failed", "failed_steps", "db_disabled"} /\ op # "Ping"
  <2>1. o \notin Refusals(op)
    BY <1>5, RefusalsHonest
  <2>2. QED
    BY <1>1, <1>2, <1>5, <2>1, FaultStatus DEF Honest, Codes
<1>6. CASE o = "store_refused" /\ op = "AdminUploadImage"
  <2>1. o \notin Refusals(op)
    BY <1>6, RefusalsHonest
  <2>2. QED
    BY <1>1, <1>2, <1>6, <2>1, FaultStatus DEF Honest, Codes
<1>7. o \in Outcomes(op) => \/ o \in Refusals(op)
                            \/ op # "Ping" /\ o \in {"failed", "failed_steps"}
                            \/ op = "AdminUploadImage" /\ o = "store_refused"
  BY DEF Outcomes, LandingPageOps
<1>8. QED
  BY <1>3, <1>4, <1>5, <1>6, <1>7

SlotInv == slot \in [Slots -> Request] /\ AnswersHonest

LEMMA AnswerKeeps ==
  ASSUME SlotInv, NEW r \in Slots, NEW o, NEW status, NEW changed,
         slot[r].op \in Operations, Honest(slot[r].op, o, status, changed),
         Answers(r, o, status, changed)
  PROVE  SlotInv'
<1> DEFINE answer == [pc |-> "answer", op |-> slot[r].op, outcome |-> o,
                      status |-> status, changed |-> changed]
<1>1. slot' = [slot EXCEPT ![r] = answer] /\ answer \in Request
  BY DEF Answers, Request, Honest, AnyOutcome, Codes
<1>2. /\ answer.status \notin {200, 500} => ~answer.changed
      /\ answer.outcome \in Refusals(answer.op) => answer.status # 500
  BY DEF Honest
<1> HIDE DEF answer
<1>3. QED
  BY <1>1, <1>2 DEF SlotInv, AnswersHonest, At

LEMMA MoveKeeps ==
  ASSUME SlotInv, NEW r \in Slots, NEW pc \in {"building", "service", "next"},
         slot[r].pc \in {"handler", "building", "service"}, Moves(r, pc)
  PROVE  SlotInv'
<1>1. PICK op \in Operations : slot[r] = [pc |-> slot[r].pc, op |-> op]
  BY DEF SlotInv, Request, Idle
<1>2. slot' = [slot EXCEPT ![r] = [pc |-> pc, op |-> op]]
  <2>1. slot' = [slot EXCEPT ![r] = [slot[r] EXCEPT !.pc = pc]]
    BY DEF Moves
  <2>2. [slot[r] EXCEPT !.pc = pc] = [pc |-> pc, op |-> op]
    BY <1>1
  <2>3. QED
    BY <2>1, <2>2
<1>3. [pc |-> pc, op |-> op] \in Request
  BY DEF Request
<1>4. QED
  BY <1>2, <1>3 DEF SlotInv, AnswersHonest, At

LEMMA Busy ==
  ASSUME SlotInv, NEW r \in Slots, slot[r].pc # "idle"
  PROVE  slot[r].op \in Operations
BY DEF SlotInv, Request, Idle

LEMMA RefuseKeeps ==
  ASSUME SlotInv, NEW r \in Slots, Refuse(r)
  PROVE  SlotInv'
<1>1. slot[r].op \in Operations
  BY Busy DEF Refuse, At
<1>2. Unauthorized(slot[r].op) \subseteq {401, 403}
  BY DEF Unauthorized, AdminOps, CampaignAdminOps, LandingPageOps, WebOps,
     RequireRole, RequireUser
<1>3. PICK status \in {400, 401, 403} : Answers(r, "refused", status, FALSE)
  <2>1. BadInput(slot[r].op) \subseteq {400} /\ corsMiddleware = {403}
    BY DEF BadInput, corsMiddleware
  <2>2. PICK status \in corsMiddleware \cup Unauthorized(slot[r].op)
                          \cup BadInput(slot[r].op) :
          Answers(r, "refused", status, FALSE)
    BY DEF Refuse
  <2>3. status \in {400, 401, 403}
    BY <1>2, <2>1
  <2>4. QED
    BY <2>2, <2>3
<1>4. Honest(slot[r].op, "refused", status, FALSE)
  BY <1>3 DEF Honest, AnyOutcome, Codes
<1>5. QED
  BY <1>1, <1>3, <1>4, AnswerKeeps

(* A service that cannot be built, or was not.                             *)
LEMMA PanicKeeps ==
  ASSUME SlotInv, NEW r \in Slots, slot[r].pc # "idle",
         Answers(r, "panic", 500, FALSE)
  PROVE  SlotInv'
<1>1. slot[r].op \in Operations
  BY Busy
<1>2. "panic" \notin Refusals(slot[r].op)
  BY <1>1, RefusalsHonest
<1>3. Honest(slot[r].op, "panic", 500, FALSE)
  BY <1>2 DEF Honest, AnyOutcome, Codes
<1>4. QED
  BY <1>1, <1>3, AnswerKeeps

(* An outcome with the status its handler gives it.                        *)
LEMMA ReplyKeeps ==
  ASSUME SlotInv, NEW r \in Slots, slot[r].pc # "idle", NEW o,
         o \in {"ok"} \cup Outcomes(slot[r].op)
               \cup (IF slot[r].op = "Ping" THEN {} ELSE {"db_disabled"}),
         NEW changed, Replies(r, o, changed),
         \/ changed \in Changed(slot[r].op, o)
         \/ slot[r].op \in Writes /\ o = "failed" /\ changed \in BOOLEAN
         \/ changed = FALSE
  PROVE  SlotInv'
<1>1. slot[r].op \in Operations
  BY Busy
<1>2. PICK c \in Changed(slot[r].op, o) : TRUE
  BY DEF Changed
<1>3. Honest(slot[r].op, o, StatusOf(slot[r].op, o), c)
  BY <1>1, ServeHonest
<1>4. Honest(slot[r].op, o, StatusOf(slot[r].op, o), changed)
  <2>1. CASE changed = FALSE
    BY <1>3, <2>1 DEF Honest
  <2>2. CASE changed \in Changed(slot[r].op, o)
    BY <1>1, <2>2, ServeHonest
  <2>3. CASE slot[r].op \in Writes /\ o = "failed" /\ changed \in BOOLEAN
    BY <2>2, <2>3 DEF Changed
  <2>4. QED
    BY <2>1, <2>2, <2>3
<1>5. QED
  BY <1>1, <1>4, AnswerKeeps DEF Replies

LEMMA ProceedKeeps ==
  ASSUME SlotInv, NEW r \in Slots, Proceed(r)
  PROVE  SlotInv'
<1>1. CASE GetService(r) \/ BuildService(r) \/ ServiceBuilt(r)
  BY <1>1, MoveKeeps DEF GetService, BuildService, ServiceBuilt, At
<1>2. CASE BuildPanics(r) \/ NilService(r)
  BY <1>2, PanicKeeps DEF BuildPanics, NilService, At
<1>3. CASE Serve(r)
  <2>1. PICK o \in IF "mysql" \in up \/ slot[r].op = "Ping"
                   THEN {"ok"} \cup Outcomes(slot[r].op) ELSE {"db_disabled"} :
          \E changed \in Changed(slot[r].op, o) : Replies(r, o, changed)
    BY <1>3 DEF Serve
  <2>2. PICK changed \in Changed(slot[r].op, o) : Replies(r, o, changed)
    BY <2>1
  <2>3. QED
    BY <1>3, <2>1, <2>2, ReplyKeeps DEF Serve, At
<1>4. CASE ListFails(r)
  <2>1. "failed" \in Outcomes(slot[r].op)
    BY <1>4 DEF ListFails, ListOps, WalkOps, Outcomes
  <2>2. QED
    BY <1>4, <2>1, ReplyKeeps DEF ListFails
<1>5. CASE ServeList(r)
  BY <1>5, MoveKeeps, ReplyKeeps DEF ServeList, At
<1>6. CASE ServeListRest(r)
  BY <1>6, ReplyKeeps DEF ServeListRest, At
<1>7. CASE TakeImage(r)
  <2>1. "bad_image" \in Outcomes(slot[r].op)
    BY <1>7 DEF TakeImage, Outcomes, Refusals
  <2>2. QED
    BY <1>7, <2>1, MoveKeeps, ReplyKeeps DEF TakeImage, At
<1>8. CASE StoreImage(r)
  <2>1. {"failed", "not_configured", "store_refused"} \subseteq Outcomes(slot[r].op)
    BY <1>8 DEF StoreImage, Outcomes, Refusals
  <2>2. TRUE \in Changed(slot[r].op, "ok") /\ slot[r].op \in Writes
    BY <1>8 DEF StoreImage, Changed, Writes
  <2>3. QED
    BY <1>8, <2>1, <2>2, ReplyKeeps DEF StoreImage, At
<1>9. CASE Return(r)
  BY <1>9 DEF Return, SlotInv, AnswersHonest, Request, At, Idle
<1>10. QED
  BY <1>1, <1>2, <1>3, <1>4, <1>5, <1>6, <1>7, <1>8, <1>9 DEF Proceed

LEMMA EndsKeeps == ProcessEnds => SlotInv'
BY DEF ProcessEnds, SlotInv, Request, AnswersHonest, At, Idle

(* Main and its goroutines leave requests alone.                           *)
LEMMA ProcessSlots ==
  Start \/ Main \/ Terminate \/ HttpPanics \/ HttpListens \/ HttpFails
    \/ SendInterrupt \/ Poll \/ HandleRecord \/ HandlerPanics \/ ConsumerStops
  => ProcessEnds \/ UNCHANGED slot
BY DEF Start, Main, Terminate, HttpPanics, HttpListens, HttpFails,
   SendInterrupt, Poll, HandleRecord, HandlerPanics, ConsumerStops, LoadConfig, InitLogger,
   MysqlInit, TelemetryInit, SetsUp, ConfigFails, MysqlFails, KafkaInit,
   StartHttp, Notify, ReceiveSignal, Exit

LEMMA SlotNext == SlotInv /\ [Next]_vars => SlotInv'
<1> SUFFICES ASSUME SlotInv, [Next]_vars PROVE SlotInv'
  OBVIOUS
<1>1. CASE ProcessEnds
  BY <1>1, EndsKeeps
<1>2. CASE UNCHANGED slot
  BY <1>2 DEF SlotInv, AnswersHonest, At
<1>3. ASSUME NEW r \in Slots, Refuse(r) \/ Proceed(r) PROVE SlotInv'
  BY <1>3, RefuseKeeps, ProceedKeeps
<1>4. ASSUME NEW r \in Slots, NEW op \in Operations, Accept(r, op)
      PROVE  SlotInv'
  <2>1. [pc |-> "handler", op |-> op] \in Request
    BY DEF Request
  <2>2. QED
    BY <1>4, <2>1 DEF Accept, SlotInv, AnswersHonest, At
<1>5. QED
  BY <1>1, <1>2, <1>3, <1>4, ProcessSlots DEF Next, vars, processVars

LEMMA SlotInit == ServerInit => SlotInv
BY DEF ServerInit, SlotInv, Request, AnswersHonest, At, Idle

(* No answer but 200 and 500 leaves open whether anything was changed, and *)
(* a typed refusal is never answered like a fault, whatever fails.         *)
THEOREM AnswersAreHonest == Spec => []AnswersHonest
<1>1. SlotInv => AnswersHonest
  BY DEF SlotInv
<1>2. QED
  BY SlotInit, SlotNext, <1>1, PTL DEF Spec

-----------------------------------------------------------------------------
(* Types.                                                                  *)

ProcessInv ==
  /\ conf \in Deployments /\ sig \in 0..1
  /\ main \in {"down", "config", "logger", "mysql", "telemetry", "kafka", "http",
               "notify", "wait", "flush"}
  /\ up \subseteq AllUp
  /\ http \in {"off", "starting", "listening", "failed", "gone"}
  /\ consumer \in {"off", "polling", "handling", "stopped"}
  /\ inst \in [web : {"new", "building", "ready", "broken"},
               reward : {"new", "ready"}]

LEMMA EndsTyped == ProcessInv /\ ProcessEnds => ProcessInv'
BY DEF ProcessInv, ProcessEnds, NewInst

LEMMA MainTyped == ProcessInv /\ Main => ProcessInv'
<1> SUFFICES ASSUME ProcessInv, Main PROVE ProcessInv'
  OBVIOUS
<1>1. CASE LoadConfig \/ InitLogger
  BY <1>1 DEF LoadConfig, InitLogger, SetsUp, MainGoes, ProcessInv, AllUp
<1>2. CASE MysqlInit \/ TelemetryInit
  BY <1>2 DEF MysqlInit, TelemetryInit, SetsUp, MainGoes, ProcessInv, AllUp
<1>3. CASE ConfigFails \/ MysqlFails \/ Exit
  BY <1>3, EndsTyped DEF ConfigFails, MysqlFails, Exit
<1>4. CASE KafkaInit
  BY <1>4 DEF KafkaInit, MainGoes, ProcessInv
<1>5. CASE StartHttp \/ Notify \/ ReceiveSignal
  BY <1>5 DEF StartHttp, Notify, ReceiveSignal, MainGoes, ProcessInv
<1>6. QED
  BY <1>1, <1>2, <1>3, <1>4, <1>5 DEF Main

LEMMA RequestTyped ==
  ASSUME ProcessInv, NEW r \in Slots, Refuse(r) \/ Proceed(r)
  PROVE  ProcessInv'
<1> USE DEF ProcessInv
<1>1. CASE BuildService(r) \/ ServiceBuilt(r) \/ BuildPanics(r)
  <2>1. PICK s \in {"building", "ready", "broken"} :
          inst' = [inst EXCEPT !.web = s] /\ UNCHANGED Rest
    BY <1>1 DEF BuildService, ServiceBuilt, BuildPanics
  <2>2. QED
    BY <2>1 DEF Rest
<1>2. CASE ~(BuildService(r) \/ ServiceBuilt(r) \/ BuildPanics(r))
  <2>1. UNCHANGED <<Rest, inst>>
    BY <1>2 DEF Refuse, Proceed, GetService, NilService, Serve, ListFails,
       ServeList, ServeListRest, TakeImage, StoreImage, Return
  <2>2. QED
    BY <2>1 DEF Rest
<1>3. QED
  BY <1>1, <1>2

LEMMA ProcessNext == ProcessInv /\ [Next]_vars => ProcessInv'
<1> SUFFICES ASSUME ProcessInv, [Next]_vars PROVE ProcessInv'
  OBVIOUS
<1>1. CASE UNCHANGED <<conf, processVars>>
  BY <1>1 DEF processVars, ProcessInv
<1>2. CASE Start
  BY <1>2 DEF Start, MainGoes, ProcessInv
<1>3. CASE Terminate
  BY <1>3, EndsTyped DEF Terminate, ProcessInv
<1>4. CASE HttpPanics \/ HttpListens \/ HttpFails \/ SendInterrupt
  BY <1>4, EndsTyped DEF HttpPanics, HttpListens, HttpFails, SendInterrupt, ProcessInv
<1>5. CASE Poll \/ HandleRecord \/ ConsumerStops \/ HandlerPanics
  BY <1>5, EndsTyped DEF Poll, HandleRecord, ConsumerStops, HandlerPanics, ProcessInv
<1>6. ASSUME NEW r \in Slots, Refuse(r) \/ Proceed(r) PROVE ProcessInv'
  BY <1>6, RequestTyped
<1>7. ASSUME NEW r \in Slots, NEW op \in Operations, Accept(r, op)
      PROVE  ProcessInv'
  BY <1>7 DEF Accept, Rest, ProcessInv
<1>8. QED
  BY <1>1, <1>2, <1>3, <1>4, <1>5, <1>6, <1>7, MainTyped DEF Next, vars

LEMMA ProcessInit == ServerInit => ProcessInv
BY DEF ServerInit, ProcessInv, NewInst

(* Every reachable state of the process, its requests and the lists is     *)
(* well typed; sigCh never holds more than its one signal.                 *)
THEOREM TypeCorrect == Spec => []ServerTypeOK
<1>1. ProcessInv /\ SlotInv /\ ConfListInv => ServerTypeOK
  BY DEF ProcessInv, AllUp, ConfListInv, SlotInv, ListInv, TableInv, WalkInv, WebInv,
     ServerTypeOK, ListTypeOK
<1>2. Spec => [](ProcessInv /\ SlotInv /\ ConfListInv)
  <2>1. ServerInit => ProcessInv /\ SlotInv /\ ConfListInv
    BY ProcessInit, SlotInit, ListInitial
  <2>2. (ProcessInv /\ SlotInv /\ ConfListInv) /\ [Next]_vars
          => (ProcessInv /\ SlotInv /\ ConfListInv)'
    BY ProcessNext, SlotNext, ConfListNext
  <2>3. QED
    BY <2>1, <2>2, PTL DEF Spec
<1>3. QED
  BY <1>1, <1>2, PTL

-----------------------------------------------------------------------------
(* What a walk through a list may miss: what needs counting, for any       *)
(* number of rows and pages of any size.                                   *)

(* How many newer rows of S there are: the position in the list, from 0.   *)
Newer(S, i) == {k \in S : k > i}
Rank(S, i) == Cardinality(Newer(S, i))

LEMMA RankBounds ==
  ASSUME NEW S, IsFiniteSet(S), NEW i
  PROVE  Rank(S, i) \in Nat /\ Rank(S, i) <= Cardinality(S)
         /\ IsFiniteSet(Newer(S, i))
BY FS_Subset, FS_CardinalityType DEF Rank, Newer

(* A row has a position of its own.                                        *)
LEMMA RankApart ==
  ASSUME NEW S \in SUBSET Nat, IsFiniteSet(S), NEW i \in S, NEW j \in S, i < j
  PROVE  Rank(S, i) # Rank(S, j)
<1>1. i \in Nat /\ j \in Nat
  OBVIOUS
<1>2. j \in Newer(S, i) /\ j \notin Newer(S, j)
  BY <1>1 DEF Newer
<1>3. Newer(S, j) \in SUBSET Newer(S, i)
  <2>1. \A k \in S : k \in Nat /\ (k > j => k > i)
    BY <1>1
  <2>2. QED
    BY <2>1 DEF Newer
<1>4. QED
  BY <1>2, <1>3, FS_Subset, RankBounds DEF Rank

(* All positions are taken.                                                *)
LEMMA RankOnto ==
  ASSUME NEW S \in SUBSET Nat, IsFiniteSet(S), NEW n \in Nat, n < Cardinality(S)
  PROVE  \E i \in S : Rank(S, i) = n
<1> DEFINE c == Cardinality(S)
           f == [i \in S |-> Rank(S, i)]
<1>1. c \in Nat /\ IsFiniteSet(0..(c - 1)) /\ Cardinality(0..(c - 1)) = c
  <2>1. c \in Nat
    BY FS_CardinalityType
  <2>2. 0 \in Int /\ c - 1 \in Int
    BY <2>1
  <2>3. QED
    BY <2>1, <2>2, FS_Interval
<1>2. ASSUME NEW i \in S PROVE Rank(S, i) \in 0..(c - 1)
  <2>1. Newer(S, i) # S
    BY DEF Newer
  <2>2. Newer(S, i) \in SUBSET S
    BY DEF Newer
  <2>3. Rank(S, i) <= c /\ Rank(S, i) # c /\ Rank(S, i) \in Nat
    BY <2>1, <2>2, FS_Subset, RankBounds DEF Rank
  <2>4. QED
    BY <1>1, <2>3
<1>3. \A i, j \in S : i < j => Rank(S, i) # Rank(S, j)
  BY RankApart
<1>4. f \in Injection(S, 0..(c - 1))
  <2>1. f \in [S -> 0..(c - 1)]
    BY <1>2
  <2>2. \A i, j \in S : f[i] = f[j] => i = j
    <3>1. \A i, j \in S : i < j \/ j < i \/ i = j
      OBVIOUS
    <3>2. QED
      BY <1>3, <3>1
  <2> HIDE DEF f
  <2>3. QED
    BY <2>1, <2>2 DEF Injection, IsInjective
<1>5. f \in Surjection(S, 0..(c - 1))
  BY <1>1, <1>4, FS_Injection
<1>6. QED
  <2>1. n \in 0..(c - 1)
    BY <1>1
  <2>2. PICK i \in S : f[i] = n
    BY <1>5, <2>1 DEF Surjection
  <2>3. QED
    BY <2>2

LEMMA RankGrows ==
  ASSUME NEW S, NEW T, IsFiniteSet(T), S \subseteq T, NEW i
  PROVE  Rank(S, i) <= Rank(T, i)
<1>1. Newer(S, i) \in SUBSET Newer(T, i)
  BY DEF Newer
<1>2. QED
  BY <1>1, RankBounds, FS_Subset DEF Rank

LEMMA OneMore ==
  ASSUME NEW S, IsFiniteSet(S), NEW x
  PROVE  /\ IsFiniteSet(S \cup {x}) /\ Cardinality(S \cup {x}) \in Nat
         /\ Cardinality(S \cup {x}) <= Cardinality(S) + 1
<1>1. Cardinality(S) \in Nat
  BY FS_CardinalityType
<1>2. /\ IsFiniteSet(S \cup {x})
      /\ Cardinality(S \cup {x}) =
           IF x \in S THEN Cardinality(S) ELSE Cardinality(S) + 1
  BY FS_AddElement
<1>3. QED
  BY <1>1, <1>2

(* A row that leaves moves those behind it forward by one.                 *)
LEMMA RankShrinks ==
  ASSUME NEW S, IsFiniteSet(S), NEW x, NEW i
  PROVE  Rank(S, i) <= Rank(S \ {x}, i) + 1
<1> DEFINE rest == Newer(S \ {x}, i)
<1>1. IsFiniteSet(S \ {x})
  BY FS_Subset
<1>2. IsFiniteSet(rest) /\ Cardinality(rest) \in Nat
  BY <1>1, RankBounds DEF Rank
<1>3. Newer(S, i) \in SUBSET (rest \cup {x})
  BY DEF Newer
<1> HIDE DEF rest
<1>4. /\ IsFiniteSet(rest \cup {x})
      /\ Cardinality(rest \cup {x}) <= Cardinality(rest) + 1
  BY <1>2, OneMore
<1>5. Cardinality(Newer(S, i)) <= Cardinality(rest \cup {x})
  BY <1>3, <1>4, FS_Subset
<1>6. Cardinality(Newer(S, i)) \in Nat /\ Cardinality(rest \cup {x}) \in Nat
  BY <1>3, <1>4, FS_Subset, FS_CardinalityType
<1>7. QED
  BY <1>2, <1>4, <1>5, <1>6 DEF Rank, rest

-----------------------------------------------------------------------------
(* The size of a page, whatever the client asked for.                      *)
PageLimit == IF walk.list = "campaigns" THEN Clamp(walk.size)
             ELSE IF walk.size < 1 THEN DefaultPageSize ELSE walk.size

Place(i) == Rank(Matching(walk.filter), i)

(* The rows owed to the client that are not among V, and lie before place  *)
(* b: if the first b places were read as V, they are missed.               *)
Passed(V, b) == {i \in walk.owed \ V : Place(i) < b}

(* No more rows were passed over than left the list, by the pages that     *)
(* were read and by the one being read; none is left behind an empty page. *)
CountInv ==
  /\ walk.page >= 1
  /\ OnlyGrows(walk.filter) => walk.left = 0
  /\ Reading =>
       /\ walk.owed \subseteq Matching(walk.filter)
       /\ Cardinality(Passed(walk.seen, (walk.page - 1) * PageLimit)) <= walk.left
  /\ walk.pc \in {"summaries", "read"} =>
       /\ Cardinality(Passed(walk.seen \cup walk.found, walk.page * PageLimit))
            <= walk.left
       /\ walk.found = {} => Cardinality(walk.owed \ walk.seen) <= walk.left
  /\ walk.pc = "done" => Cardinality(walk.owed \ walk.seen) <= walk.left

LEMMA LimitType ==
  ASSUME WalkInv
  PROVE  PageLimit \in Nat \ {0}
BY ListingAssumption DEF WalkInv, Walk, PageLimit, Clamp

LEMMA PageProduct ==
  ASSUME NEW p \in Nat, p >= 1, NEW n \in Nat
  PROVE  /\ (p - 1) * n \in Nat /\ p * n \in Nat
         /\ p * n = (p - 1) * n + n
         /\ (p + 1) - 1 = p
OBVIOUS

LEMMA RowsFinite ==
  ASSUME NEW S \in SUBSET (1..MaxRows)
  PROVE  IsFiniteSet(S) /\ S \in SUBSET Nat /\ Cardinality(S) \in Nat
<1>1. IsFiniteSet(1..MaxRows)
  BY ListingAssumption, FS_Interval
<1>2. 1..MaxRows \subseteq Nat
  OBVIOUS
<1>3. QED
  BY <1>1, <1>2, FS_Subset, FS_CardinalityType

(* Fewer rows are no more.                                                 *)
LEMMA Fewer ==
  ASSUME NEW S \in SUBSET (1..MaxRows), NEW T \in SUBSET S, NEW n \in Nat,
         Cardinality(S) <= n
  PROVE  Cardinality(T) <= n
<1>1. IsFiniteSet(S) /\ IsFiniteSet(T) /\ Cardinality(T) <= Cardinality(S)
  BY RowsFinite, FS_Subset
<1>2. Cardinality(S) \in Nat /\ Cardinality(T) \in Nat
  BY <1>1, FS_CardinalityType
<1>3. QED
  BY <1>1, <1>2

(* What a page leaves out lies in front of it or behind it.                *)
LEMMA PageFinds ==
  ASSUME NEW S \in SUBSET Nat, IsFiniteSet(S), NEW skip \in Nat,
         NEW n \in Nat \ {0}, NEW i \in S, Rank(S, i) >= skip
  PROVE  /\ i \notin Newest(S, skip, n) => Rank(S, i) >= skip + n
         /\ Newest(S, skip, n) # {}
<1>1. \A k \in S : k \in Newest(S, skip, n) <=> Rank(S, k) \in skip..(skip + n - 1)
  BY DEF Newest, Rank, Newer
<1>2. Rank(S, i) \in Nat /\ Newer(S, i) # S /\ Newer(S, i) \in SUBSET S
  <2>1. i \notin Newer(S, i) /\ Newer(S, i) \in SUBSET S
    BY DEF Newer
  <2>2. QED
    BY <2>1, RankBounds
<1>3. skip < Cardinality(S)
  BY <1>2, FS_Subset, FS_CardinalityType DEF Rank
<1>4. PICK k \in S : Rank(S, k) = skip
  BY <1>3, RankOnto
<1>5. QED
  BY <1>1, <1>2, <1>4

(* The types the counting needs.                                           *)
LEMMA Counted ==
  ASSUME ListInv
  PROVE  /\ walk \in Walk /\ PageLimit \in Nat \ {0}
         /\ walk.page \in Nat /\ walk.left \in Nat
         /\ walk.owed \in SUBSET (1..MaxRows)
         /\ Matching(walk.filter) \in SUBSET (1..MaxRows)
         /\ \A i : Place(i) \in Nat
         /\ \A V, b : Passed(V, b) \in SUBSET (1..MaxRows)
<1>1. walk \in Walk /\ PageLimit \in Nat \ {0}
  BY LimitType DEF ListInv, WalkInv
<1>2. /\ walk.page \in Nat /\ walk.left \in Nat
      /\ walk.owed \in SUBSET (1..MaxRows)
  BY <1>1 DEF Walk
<1>3. Matching(walk.filter) \in SUBSET (1..MaxRows)
  BY MatchingIn
<1>4. \A i : Place(i) \in Nat
  BY <1>3, RowsFinite, RankBounds DEF Place
<1>5. QED
  BY <1>1, <1>2, <1>3, <1>4 DEF Passed

(* A list that grows in front passes nothing over.                         *)
LEMMA StayCounts ==
  ASSUME ListInv, ListInv', CountInv, RowStays
  PROVE  CountInv'
<1> DEFINE M == Matching(walk.filter)
           N == Matching(walk.filter)'
<1>1. walk' = walk /\ PageLimit' = PageLimit
  BY DEF RowStays, PageLimit
<1>2. CASE ~Reading
  BY <1>1, <1>2 DEF CountInv, Reading, OnlyGrows
<1>3. CASE Reading
  <2>1. M \subseteq N /\ M \in SUBSET (1..MaxRows) /\ N \in SUBSET (1..MaxRows)
    BY <1>1, <1>3, Counted, MatchingIn, ListingAssumption
       DEF RowStays, Matching, ListInv, TableInv
  <2>2. \A i : Rank(M, i) <= Rank(N, i) /\ Rank(M, i) \in Nat /\ Rank(N, i) \in Nat
    BY <2>1, RowsFinite, RankGrows, RankBounds
  <2>3. \A i : Place(i) = Rank(M, i) /\ Place(i)' = Rank(N, i)
    BY DEF Place
  <2> HIDE DEF M, N
  <2>4. \A i : \A b \in Nat : Place(i)' < b => Place(i) < b
    BY <2>2, <2>3
  <2>5. /\ (walk.page - 1) * PageLimit \in Nat /\ walk.page * PageLimit \in Nat
    BY Counted, PageProduct DEF CountInv
  <2>6. /\ Passed(walk.seen, (walk.page - 1) * PageLimit)'
             \subseteq Passed(walk.seen, (walk.page - 1) * PageLimit)
        /\ Passed(walk.seen \cup walk.found, walk.page * PageLimit)'
             \subseteq Passed(walk.seen \cup walk.found, walk.page * PageLimit)
    BY <1>1, <2>4, <2>5 DEF Passed
  <2>7. Cardinality(Passed(walk.seen, (walk.page - 1) * PageLimit)') <= walk.left
    BY <1>3, <2>6, Counted, Fewer DEF CountInv
  <2>8. walk.pc \in {"summaries", "read"} =>
          Cardinality(Passed(walk.seen \cup walk.found, walk.page * PageLimit)')
            <= walk.left
    <3>1. walk.pc \in {"summaries", "read"} =>
            Cardinality(Passed(walk.seen \cup walk.found, walk.page * PageLimit))
              <= walk.left
      BY DEF CountInv
    <3>2. QED
      BY <2>6, <3>1, Counted, Fewer
  <2>9. walk.owed \subseteq Matching(walk.filter)'
    BY <1>3, <2>1 DEF CountInv, M, N
  <2>10. QED
    BY <1>1, <2>7, <2>8, <2>9 DEF CountInv, OnlyGrows
<1>4. QED
  BY <1>2, <1>3

(* A row that leaves may pass one other over: the one that moves to the    *)
(* last place already read.                                                *)
LEMMA LeaveCounts ==
  ASSUME ListInv, ListInv', CountInv, NEW x, RowLeaves(x),
         ~OnlyGrows(walk.filter)
  PROVE  CountInv'
<1> DEFINE M == Matching(walk.filter)
<1>1. /\ walk' = [walk EXCEPT !.owed = walk.owed \ {x}, !.left = walk.left + 1]
      /\ Reading /\ Matching(walk.filter)' = M \ {x}
  BY DEF RowLeaves
<1>2. /\ walk'.owed = walk.owed \ {x} /\ walk'.left = walk.left + 1
      /\ walk'.filter = walk.filter /\ walk'.list = walk.list
      /\ walk'.size = walk.size /\ walk'.page = walk.page /\ walk'.pc = walk.pc
      /\ walk'.seen = walk.seen /\ walk'.found = walk.found
  BY <1>1, Counted DEF Walk
<1>3. PageLimit' = PageLimit /\ walk.owed \subseteq M
  BY <1>1, <1>2 DEF PageLimit, CountInv
<1>4. M \in SUBSET (1..MaxRows) /\ IsFiniteSet(M) /\ M \in SUBSET Nat
  BY Counted, RowsFinite
<1>5. /\ \A i : Place(i) = Rank(M, i) /\ Place(i)' = Rank(M \ {x}, i)
      /\ \A i : Place(i) \in Nat /\ Place(i)' \in Nat
      /\ \A i : Place(i) <= Place(i)' + 1
  <2>1. \A i : Place(i) = Rank(M, i) /\ Place(i)' = Rank(M \ {x}, i)
    BY <1>1, <1>2 DEF Place
  <2>2. IsFiniteSet(M \ {x})
    BY <1>4, FS_Subset
  <2>3. \A i : /\ Rank(M, i) \in Nat /\ Rank(M \ {x}, i) \in Nat
               /\ Rank(M, i) <= Rank(M \ {x}, i) + 1
    BY <1>4, <2>2, RankBounds, RankShrinks
  <2> HIDE DEF M
  <2>4. QED
    BY <2>1, <2>3
<1> HIDE DEF M
<1>6. ASSUME NEW V, NEW b \in Nat, Cardinality(Passed(V, b)) <= walk.left
      PROVE  Cardinality({i \in walk'.owed \ V : Place(i)' < b}) <= walk'.left
  <2> DEFINE passed == Passed(V, b)
             after == {i \in walk'.owed \ V : Place(i)' < b}
  <2>1. passed \in SUBSET (1..MaxRows) /\ IsFiniteSet(passed)
        /\ Cardinality(passed) \in Nat
    BY Counted, RowsFinite
  <2>2. \A i \in after : i \in M /\ (i \in passed \/ Rank(M, i) = b)
    BY <1>2, <1>3, <1>5 DEF Passed
  <2>3. PICK y : after \subseteq passed \cup {y}
    <3>1. CASE \A i \in after : i \in passed
      BY <3>1
    <3>2. CASE \E y \in after : y \notin passed
      <4>1. PICK y \in after : y \notin passed
        BY <3>2
      <4>2. \A i \in after : i \in passed \/ i = y
        <5>1. y \in M /\ Rank(M, y) = b
          BY <2>2, <4>1
        <5>2. \A i \in M : i \in Nat /\ y \in Nat
          BY <1>4, <5>1
        <5>3. \A i \in M : Rank(M, i) = b => ~(i < y) /\ ~(y < i)
          BY <1>4, <5>1, RankApart
        <5>4. QED
          BY <2>2, <5>2, <5>3
      <4>3. QED
        BY <4>2
    <3>3. QED
      BY <3>1, <3>2
  <2> HIDE DEF passed, after
  <2>4. /\ IsFiniteSet(passed \cup {y})
        /\ Cardinality(passed \cup {y}) <= Cardinality(passed) + 1
        /\ Cardinality(passed \cup {y}) \in Nat
    BY <2>1, OneMore
  <2>5. Cardinality(after) <= Cardinality(passed \cup {y}) /\ Cardinality(after) \in Nat
    BY <2>3, <2>4, FS_Subset, FS_CardinalityType
  <2>6. Cardinality(passed) <= walk.left /\ walk.left \in Nat
    BY <1>6, Counted DEF passed
  <2>7. Cardinality(after) <= walk'.left
    BY <1>2, <2>1, <2>4, <2>5, <2>6
  <2>8. QED
    BY <2>7 DEF after
<1>7. (walk.page - 1) * PageLimit \in Nat /\ walk.page * PageLimit \in Nat
  BY Counted, PageProduct DEF CountInv
<1>8. Cardinality(Passed(walk.seen, (walk.page - 1) * PageLimit)') <= walk'.left
  <2>1. Passed(walk.seen, (walk.page - 1) * PageLimit)' =
          {i \in walk'.owed \ walk.seen : Place(i)' < (walk.page - 1) * PageLimit}
    BY <1>2, <1>3 DEF Passed
  <2>2. Cardinality(Passed(walk.seen, (walk.page - 1) * PageLimit)) <= walk.left
    BY <1>1 DEF CountInv
  <2>3. QED
    BY <1>6, <1>7, <2>1, <2>2
<1>9. walk.pc \in {"summaries", "read"} =>
        Cardinality(Passed(walk.seen \cup walk.found, walk.page * PageLimit)')
          <= walk'.left
  <2>1. Passed(walk.seen \cup walk.found, walk.page * PageLimit)' =
          {i \in walk'.owed \ (walk.seen \cup walk.found) :
             Place(i)' < walk.page * PageLimit}
    BY <1>2, <1>3 DEF Passed
  <2>2. walk.pc \in {"summaries", "read"} =>
          Cardinality(Passed(walk.seen \cup walk.found, walk.page * PageLimit))
            <= walk.left
    BY DEF CountInv
  <2>3. QED
    BY <1>6, <1>7, <2>1, <2>2
<1>10. walk.pc \in {"summaries", "read"} /\ walk.found = {} =>
         Cardinality(walk'.owed \ walk.seen) <= walk'.left
  <2>1. walk.owed \ walk.seen \in SUBSET (1..MaxRows)
        /\ walk'.owed \ walk.seen \in SUBSET (walk.owed \ walk.seen)
        /\ walk.left \in Nat
    BY <1>2, Counted
  <2>2. /\ Cardinality(walk.owed \ walk.seen) \in Nat
        /\ Cardinality(walk'.owed \ walk.seen) \in Nat
    BY <2>1, RowsFinite
  <2>3. Cardinality(walk.owed \ walk.seen) <= walk.left =>
          Cardinality(walk'.owed \ walk.seen) <= walk.left
    BY <2>1, Fewer
  <2>4. QED
    BY <1>2, <2>1, <2>2, <2>3 DEF CountInv
<1>11. walk'.owed \subseteq Matching(walk.filter)'
  BY <1>1, <1>2, <1>3
<1>12. walk.pc # "done" /\ ~OnlyGrows(walk'.filter)
  BY <1>1, <1>2 DEF Reading
<1>13. QED
  BY <1>2, <1>8, <1>9, <1>10, <1>11, <1>12 DEF CountInv

LEMMA WalkCounts ==
  ASSUME ListInv, CountInv, UNCHANGED table,
         \/ FindPage \/ LatestSummaries \/ PageArrives \/ PageLost
         \/ \E l \in Lists, f \in Filters, s \in Nat : StartWalk(l, f, s)
         \/ UNCHANGED walk
  PROVE  CountInv'
<1>1. /\ walk \in Walk /\ walk.page \in Nat /\ walk.page >= 1
      /\ PageLimit \in Nat \ {0} /\ walk.left \in Nat
  BY Counted DEF CountInv
<1>2. \A f : Matching(f)' = Matching(f)
  BY DEF Matching
<1>3. ASSUME walk'.filter = walk.filter, walk'.list = walk.list,
             walk'.size = walk.size, walk'.owed = walk.owed
      PROVE  /\ PageLimit' = PageLimit
             /\ \A V, b : Passed(V, b) = {i \in walk'.owed \ V : Place(i)' < b}
  BY <1>2, <1>3 DEF PageLimit, Place, Passed
<1>4. CASE FindPage
  <2> DEFINE M == Matching(walk.filter)
             skip == (walk.page - 1) * PageLimit
             V == walk.seen \cup walk'.found
  <2>1. /\ walk.pc = "find" /\ walk'.pc \in {"summaries", "read"}
        /\ walk'.found = Newest(M, skip, PageLimit)
        /\ \A x \in {"filter", "list", "size", "page", "left", "owed", "seen"} :
             walk'[x] = walk[x]
    BY <1>1, <1>4 DEF FindPage, pageToOffsetLimit, LandingOffsetLimit, PageLimit, Walk
  <2>2. M \in SUBSET (1..MaxRows) /\ IsFiniteSet(M) /\ M \in SUBSET Nat
    BY MatchingIn, RowsFinite
  <2>3. skip \in Nat /\ walk.page * PageLimit = skip + PageLimit
    BY <1>1, PageProduct
  <2>4. /\ walk.owed \subseteq M /\ Cardinality(Passed(walk.seen, skip)) <= walk.left
        /\ \A i : Place(i) = Rank(M, i) /\ Place(i) \in Nat
    BY <2>1, Counted DEF CountInv, Reading, Place
  <2> HIDE DEF M, skip
  <2>5. ASSUME NEW i \in walk.owed \ walk.seen, Place(i) >= skip
        PROVE  /\ i \notin walk'.found => Place(i) >= skip + PageLimit
               /\ walk'.found # {}
    BY <1>1, <2>1, <2>2, <2>3, <2>4, <2>5, PageFinds
  <2>6. \A i \in walk.owed \ walk.seen :
          \/ Place(i) < skip
          \/ walk'.found # {} /\ (i \notin walk'.found => Place(i) >= skip + PageLimit)
    BY <2>3, <2>4, <2>5
  <2>7. Passed(V, skip + PageLimit) \subseteq Passed(walk.seen, skip)
    BY <1>1, <2>3, <2>4, <2>6 DEF Passed
  <2>8. walk'.found = {} => walk.owed \ walk.seen \subseteq Passed(walk.seen, skip)
    BY <2>6 DEF Passed
  <2>9. /\ Cardinality(Passed(V, skip + PageLimit)) <= walk.left
        /\ walk'.found = {} => Cardinality(walk.owed \ walk.seen) <= walk.left
    BY <1>1, <2>4, <2>7, <2>8, Counted, Fewer
  <2>10. /\ PageLimit' = PageLimit /\ V = (walk.seen \cup walk.found)'
         /\ \A W, b : Passed(W, b) = {i \in walk'.owed \ W : Place(i)' < b}
    BY <1>3, <2>1
  <2> HIDE DEF V
  <2>11. /\ Cardinality(Passed(walk.seen, (walk.page - 1) * PageLimit)') <= walk'.left
         /\ Cardinality(Passed(walk.seen \cup walk.found, walk.page * PageLimit)')
              <= walk'.left
         /\ walk'.found = {} => Cardinality(walk'.owed \ walk'.seen) <= walk'.left
    <3>1. Passed(walk.seen, (walk.page - 1) * PageLimit)' = Passed(walk.seen, skip)
      BY <2>1, <2>10 DEF Passed, skip
    <3>2. Passed(walk.seen \cup walk.found, walk.page * PageLimit)'
            = Passed(V, skip + PageLimit)
      BY <2>1, <2>3, <2>10 DEF Passed
    <3>3. QED
      BY <2>1, <2>4, <2>9, <3>1, <3>2
  <2>12. /\ walk'.owed \subseteq Matching(walk.filter)'
         /\ walk'.page >= 1 /\ walk'.pc # "done"
         /\ OnlyGrows(walk'.filter) => walk'.left = 0
    BY <1>1, <1>2, <2>1, <2>4 DEF M, CountInv
  <2>13. QED
    BY <2>11, <2>12 DEF CountInv
<1>5. CASE LatestSummaries
  <2>1. /\ walk.pc = "summaries" /\ walk'.pc = "read"
        /\ \A x \in {"filter", "list", "size", "page", "left", "owed", "seen",
                     "found"} : walk'[x] = walk[x]
    BY <1>1, <1>5 DEF LatestSummaries, Walk
  <2>2. /\ Passed(walk.seen, (walk.page - 1) * PageLimit)'
             = Passed(walk.seen, (walk.page - 1) * PageLimit)
        /\ Passed(walk.seen \cup walk'.found, walk.page * PageLimit)
             = Passed(walk.seen \cup walk.found, walk.page * PageLimit)'
    BY <1>3, <2>1 DEF Passed
  <2>3. QED
    BY <1>1, <1>2, <2>1, <2>2 DEF CountInv, Reading
<1>6. CASE PageArrives /\ walk' # walk
  <2>1. /\ walk.pc = "read"
        /\ walk'.pc = IF walk.found = {} THEN "done" ELSE "find"
        /\ walk'.page = walk.page + 1 /\ walk'.seen = walk.seen \cup walk.found
        /\ \A x \in {"filter", "list", "size", "left", "owed"} : walk'[x] = walk[x]
    BY <1>1, <1>6 DEF PageArrives, Walk
  <2>2. /\ PageLimit' = PageLimit /\ walk'.page - 1 = walk.page
        /\ \A V, b : Passed(V, b) = {i \in walk'.owed \ V : Place(i)' < b}
    BY <1>1, <1>3, <2>1
  <2>3. Passed(walk.seen, (walk.page - 1) * PageLimit)'
          = Passed(walk.seen \cup walk.found, walk.page * PageLimit)
    BY <2>1, <2>2 DEF Passed
  <2>4. walk'.pc = "done" => Cardinality(walk'.owed \ walk'.seen) <= walk'.left
    <3>1. walk'.pc = "done" => walk'.owed \ walk'.seen = walk.owed \ walk.seen
      BY <2>1
    <3>2. QED
      BY <2>1, <3>1 DEF CountInv
  <2>5. walk'.pc \notin {"summaries", "read"} /\ walk'.page >= 1
    BY <1>1, <2>1
  <2>6. /\ walk'.owed \subseteq Matching(walk.filter)'
        /\ Cardinality(Passed(walk.seen, (walk.page - 1) * PageLimit)') <= walk'.left
        /\ OnlyGrows(walk'.filter) => walk'.left = 0
    BY <1>2, <2>1, <2>3 DEF CountInv, Reading
  <2>7. QED
    BY <2>4, <2>5, <2>6 DEF CountInv
<1>7. CASE PageLost /\ walk' # walk
  <2>1. /\ walk.pc \in {"summaries", "read"} /\ walk'.pc = "find"
        /\ \A x \in {"filter", "list", "size", "page", "left", "owed", "seen"} :
             walk'[x] = walk[x]
    BY <1>1, <1>7 DEF PageLost, Walk
  <2>2. /\ Passed(walk.seen, (walk.page - 1) * PageLimit)'
             = Passed(walk.seen, (walk.page - 1) * PageLimit)
        /\ Passed(walk.seen \cup walk'.found, walk.page * PageLimit)
             = Passed(walk.seen \cup walk.found, walk.page * PageLimit)'
    BY <1>3, <2>1 DEF Passed
  <2>3. QED
    BY <1>1, <1>2, <2>1, <2>2 DEF CountInv, Reading
<1>8. ASSUME NEW l \in Lists, NEW f \in Filters, NEW s \in Nat, StartWalk(l, f, s)
      PROVE  CountInv'
  <2>1. /\ walk'.pc = "find" /\ walk'.page = 1 /\ walk'.seen = {}
        /\ walk'.owed = Matching(f) /\ walk'.filter = f /\ walk'.left = 0
        /\ walk'.list = l /\ walk'.size = s
    BY <1>8 DEF StartWalk, NoWalk
  <2>2. \A i : Place(i)' = Rank(Matching(f), i) /\ Rank(Matching(f), i) \in Nat
    BY <1>2, <2>1, MatchingIn, RowsFinite, RankBounds DEF Place
  <2>3. (walk'.page - 1) * PageLimit' = 0
    <3>1. PageLimit' \in Nat
      BY <2>1, ListingAssumption DEF PageLimit, Clamp
    <3>2. \A n \in Nat : (1 - 1) * n = 0
      OBVIOUS
    <3>3. QED
      BY <2>1, <3>1, <3>2
  <2>4. Passed(walk.seen, (walk.page - 1) * PageLimit)' = {}
    BY <2>2, <2>3 DEF Passed
  <2>5. Cardinality(Passed(walk.seen, (walk.page - 1) * PageLimit)') <= walk'.left
    <3>1. Cardinality({}) = 0 /\ 0 <= 0
      BY FS_EmptySet
    <3>2. Cardinality(Passed(walk.seen, (walk.page - 1) * PageLimit)') = 0
      BY <2>4, <3>1
    <3>3. QED
      BY <2>1, <3>1, <3>2
  <2>6. walk'.owed \subseteq Matching(walk.filter)' /\ walk'.page >= 1
    BY <1>2, <2>1
  <2>7. QED
    BY <2>1, <2>5, <2>6 DEF CountInv
<1>9. CASE UNCHANGED walk
  <2>1. /\ Passed(walk.seen, (walk.page - 1) * PageLimit)'
             = Passed(walk.seen, (walk.page - 1) * PageLimit)
        /\ Passed(walk.seen \cup walk.found, walk.page * PageLimit)'
             = Passed(walk.seen \cup walk.found, walk.page * PageLimit)
    BY <1>3, <1>9 DEF Passed
  <2>2. QED
    BY <1>2, <1>9, <2>1 DEF CountInv, Reading
<1>10. QED
  BY <1>4, <1>5, <1>6, <1>7, <1>8, <1>9

LEMMA CountNext ==
  ConfListInv /\ ConfListInv' /\ CountInv /\ [Next]_vars => CountInv'
<1> SUFFICES ASSUME ListInv, ListInv', CountInv, ListStep \/ UNCHANGED listVars
             PROVE  CountInv'
  BY ListSteps DEF ConfListInv
<1>1. CASE TableStep
  BY <1>1, InsertNext, RowNext, StayCounts, LeaveCounts DEF TableStep
<1>2. CASE ~TableStep
  <2>1. UNCHANGED table
    BY <1>2 DEF ListStep, listVars, FindPage, LatestSummaries, FindPublished,
       AnswerWebList, StartWalk, Tick
  <2>2. \/ FindPage \/ LatestSummaries \/ PageArrives \/ PageLost
        \/ \E l \in Lists, f \in Filters, s \in Nat : StartWalk(l, f, s)
        \/ UNCHANGED walk
    BY <1>2 DEF ListStep, listVars, FindPublished, AnswerWebList, Tick
  <2>3. QED
    BY <2>1, <2>2, WalkCounts
<1>3. QED
  BY <1>1, <1>2

LEMMA CountInit == ServerInit => CountInv
BY DEF ServerInit, ListInit, CountInv, NoWalk, Reading

(* A client that reads pages of any size until one is empty has missed, of *)
(* the rows that matched all the time, at most as many as rows left the    *)
(* list meanwhile, and none in a list that only grows; whatever is         *)
(* created, published, edited or lost.                                     *)
THEOREM WalksMissOnlyLeavers == Spec => []MissedOnlyByLeaving
<1>1. ConfListInv /\ CountInv => MissedOnlyByLeaving
  <2> SUFFICES ASSUME ConfListInv, CountInv, walk.pc = "done",
                      OnlyGrows(walk.filter)
               PROVE  walk.owed \subseteq walk.seen
    BY DEF CountInv, MissedOnlyByLeaving
  <2>1. Cardinality(walk.owed \ walk.seen) <= 0
    BY DEF CountInv
  <2>2. walk.owed \ walk.seen \in SUBSET (1..MaxRows)
    BY Counted DEF ConfListInv
  <2>3. walk.owed \ walk.seen = {}
    BY <2>1, <2>2, RowsFinite, FS_EmptySet
  <2>4. QED
    BY <2>3
<1>2. Spec => []ConfListInv
  BY ListInitial, ConfListNext, PTL DEF Spec
<1>3. QED
  BY CountInit, CountNext, <1>1, <1>2, PTL DEF Spec
=============================================================================
