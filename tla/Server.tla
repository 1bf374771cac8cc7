------------------------------- MODULE Server -------------------------------
(***************************************************************************)
(* One process of the server: main.go brings it up and down, its HTTP      *)
(* goroutine serves the operations of HttpApi, its consumer handles        *)
(* records, and singletons are built when first asked for.  The platform   *)
(* starts it again when it has ended; the database, the object store and   *)
(* the clients live on.                                                    *)
(*                                                                         *)
(* The lists are served with the steps of Listing and images with those of *)
(* ImageUpload.  What the other operations do is the matter of modules of  *)
(* their own: here a service only has an outcome.                          *)
(***************************************************************************)
EXTENDS Listing, ImageUpload, HttpApi

ListOf(op) == IF op = "AdminListCampaigns" THEN "campaigns" ELSE "landing_pages"
WalkOps == {"AdminListCampaigns", "AdminListLandingPages"}
ListOps == WalkOps \cup {"UserListCampaigns"}

CONSTANT Deployments   \* configurations, with what clients and brokers send

(* kafka: enabled with brokers; keys: credentials of the object store;     *)
(* calm, a bound: once started, this process stays; slots: requests at the *)
(* same time, one where a client reads a list; queries: the filters and    *)
(* page sizes it asks for.                                                 *)
ASSUME ServerAssumption ==
  \A d \in Deployments :
    /\ {d.kafka, d.keys, d.calm} \subseteq BOOLEAN
    /\ d.traffic \subseteq Operations /\ d.slots \subseteq Slots
    /\ d.queries \subseteq [filter : Filters, size : Nat]
    /\ d.traffic \cap ListOps # {} => Cardinality(d.slots) = 1

VARIABLES
  conf,      \* the deployment
  main,      \* the step main is about to take, or "down"
  up,        \* what main has set up
  http,      \* the HTTP goroutine; "failed" is about to send an interrupt
  sig,       \* signals in sigCh, a channel of capacity 1
  consumer,  \* the consumer's goroutine
  inst,      \* singletons that panic if a client cannot be made
  slot       \* slot[r]: request r

processVars == <<main, up, http, sig, consumer, inst, slot>>
vars == <<conf, processVars, listVars, uploadVars>>

Idle == [pc |-> "idle"]

NewInst == [web |-> "new", reward |-> "new"]

ServerInit ==
  /\ conf \in Deployments
  /\ main = "down" /\ up = {} /\ http = "off" /\ sig = 0 /\ consumer = "off"
  /\ inst = NewInst /\ slot = [r \in Slots |-> Idle]
  /\ ListInit /\ UploadInit

Data == <<listVars, uploadVars>>

-----------------------------------------------------------------------------
(* main                                                                    *)

(* The process ends: what was under way is cut off, its clients see no     *)
(* answer.                                                                 *)
ProcessEnds ==
  /\ main' = "down" /\ up' = {} /\ http' = "off" /\ sig' = 0
  /\ consumer' = "off" /\ inst' = NewInst /\ slot' = [r \in Slots |-> Idle]
  /\ PageLost /\ WebListLost /\ UploadsLost
  /\ UNCHANGED <<conf, table, clock, objects, urls>>

MainGoes(from, to) == main = from /\ main' = to

Start ==
  /\ MainGoes("down", "config")
  /\ UNCHANGED <<conf, up, http, sig, consumer, inst, slot, Data>>

SetsUp(step, next) ==
  /\ MainGoes(step, next)
  /\ up' = up \cup {step}
  /\ UNCHANGED <<conf, http, sig, consumer, inst, slot, Data>>

LoadConfig == SetsUp("config", "logger")
InitLogger == SetsUp("logger", "mysql")
MysqlInit  == SetsUp("mysql", "telemetry")

(* A local tracer takes the place of an exporter that cannot be made.      *)
TelemetryInit == SetsUp("telemetry", "kafka")

(* An unreadable file, a log file that cannot be opened: panic.            *)
ConfigFails == ~conf.calm /\ main \in {"config", "logger"} /\ ProcessEnds

(* Mutant of MysqlFails: the server goes on without a database.            *)
MysqlOptional ==
  /\ MainGoes("mysql", "telemetry")
  /\ UNCHANGED <<conf, up, http, sig, consumer, inst, slot, Data>>

(* No DSN, no connection, no migration: Fatal.                             *)
MysqlFails == ~conf.calm /\ main = "mysql" /\ ProcessEnds

(* A consumer that cannot be made is only logged.                          *)
KafkaInit ==
  /\ MainGoes("kafka", "http")
  /\ consumer' \in {"off"} \cup (IF conf.kafka THEN {"polling"} ELSE {})
  /\ UNCHANGED <<conf, up, http, sig, inst, slot, Data>>

StartHttp ==
  /\ MainGoes("http", "notify")
  /\ http' = "starting"
  /\ UNCHANGED <<conf, up, sig, consumer, inst, slot, Data>>

Notify ==
  /\ MainGoes("notify", "wait")
  /\ UNCHANGED <<conf, up, http, sig, consumer, inst, slot, Data>>

(* The consumer's context is cancelled; then the spans are flushed.        *)
ReceiveSignal ==
  /\ sig = 1 /\ MainGoes("wait", "flush")
  /\ sig' = 0
  /\ UNCHANGED <<conf, up, http, consumer, inst, slot, Data>>

Exit == main = "flush" /\ ProcessEnds

Main == LoadConfig \/ InitLogger \/ ConfigFails \/ MysqlInit \/ MysqlFails
        \/ TelemetryInit \/ KafkaInit \/ StartHttp \/ Notify \/ ReceiveSignal
        \/ Exit

(* The platform asks it to stop: until Notify that ends it at once, then   *)
(* it is a value in sigCh unless one is waiting there already.             *)
Terminate ==
  /\ ~conf.calm
  /\ \/ main \notin {"down", "wait", "flush"} /\ ProcessEnds
     \/ /\ main \in {"wait", "flush"} /\ sig = 0
        /\ sig' = 1
        /\ UNCHANGED <<conf, main, up, http, consumer, inst, slot, Data>>

-----------------------------------------------------------------------------
(* http.Init, the HTTP goroutine.                                          *)

(* NewRouter panics if no origin is allowed: nothing recovers from it.     *)
HttpPanics == ~conf.calm /\ http = "starting" /\ ProcessEnds

HttpListens ==
  /\ http = "starting" /\ http' = "listening"
  /\ UNCHANGED <<conf, main, up, sig, consumer, inst, slot, Data>>

(* The port is taken, or accepting fails later.                            *)
HttpFails ==
  /\ ~conf.calm /\ http \in {"starting", "listening"} /\ http' = "failed"
  /\ UNCHANGED <<conf, main, up, sig, consumer, inst, slot, Data>>

(* Mutant of SendInterrupt: lost if nobody is waiting for it.              *)
OfferInterrupt ==
  /\ http = "failed" /\ http' = "gone"
  /\ sig' = IF main = "wait" THEN 1 ELSE sig
  /\ UNCHANGED <<conf, main, up, consumer, inst, slot, Data>>

(* Mutant of SendInterrupt: a channel with room for two.                   *)
QueueInterrupt ==
  /\ http = "failed" /\ http' = "gone" /\ sig' = sig + 1
  /\ UNCHANGED <<conf, main, up, consumer, inst, slot, Data>>

(* Blocked while sigCh is full.                                            *)
SendInterrupt ==
  /\ http = "failed" /\ http' = "gone"
  /\ sig = 0 /\ sig' = 1
  /\ UNCHANGED <<conf, main, up, consumer, inst, slot, Data>>

-----------------------------------------------------------------------------
(* The consumer.                                                           *)

Poll ==
  /\ consumer = "polling" /\ main # "flush"
  /\ consumer' = "handling"
  /\ UNCHANGED <<conf, main, up, http, sig, inst, slot, Data>>

(* The first record builds the service of reward events; whether handling  *)
(* succeeds does not matter here.                                          *)
HandleRecord ==
  /\ consumer = "handling"
  /\ consumer' = "polling"
  /\ inst' = [inst EXCEPT !.reward = "ready"]
  /\ UNCHANGED <<conf, main, up, http, sig, slot, Data>>

(* Its client cannot be made: a panic in a goroutine of its own, which     *)
(* nothing recovers from, ends the process.                                *)
HandlerPanics ==
  /\ consumer = "handling" /\ inst.reward = "new"
  /\ ProcessEnds

ConsumerStops ==
  /\ consumer = "polling" /\ main = "flush"
  /\ consumer' = "stopped"
  /\ UNCHANGED <<conf, main, up, http, sig, inst, slot, Data>>

-----------------------------------------------------------------------------
(* Requests.                                                               *)

Rest == <<conf, main, up, http, sig, consumer>>

At(r, pc) == slot[r].pc = pc
Moves(r, pc) == slot' = [slot EXCEPT ![r].pc = pc]

(* status is answered; changed: the operation changed something lasting.   *)
Answers(r, o, status, changed) ==
  slot' = [slot EXCEPT ![r] = [pc |-> "answer", op |-> slot[r].op, outcome |-> o,
                               status |-> status, changed |-> changed]]

(* What clients send; the pages of a walk one after the other.             *)
Accept(r, op) ==
  /\ http = "listening" /\ At(r, "idle")
  /\ op \in conf.traffic /\ r \in conf.slots
  /\ op \in WalkOps => walk.pc = "find" /\ walk.list = ListOf(op)
  /\ slot' = [slot EXCEPT ![r] = [pc |-> "handler", op |-> op]]
  /\ UNCHANGED <<Rest, inst, Data>>

Refuse(r) ==
  /\ At(r, "handler")
  /\ \E status \in corsMiddleware \cup Unauthorized(slot[r].op)
                   \cup BadInput(slot[r].op) :
       Answers(r, "refused", status, FALSE)
  /\ UNCHANGED <<Rest, inst, Data>>

(* The singletons of the other services cannot fail to be built.           *)
GetService(r) ==
  /\ At(r, "handler")
  /\ slot[r].op \in WebOps => inst.web = "ready"
  /\ Moves(r, "service")
  /\ UNCHANGED <<Rest, inst, Data>>

(* GetWebCampaignService: the first request builds inside sync.Once, the   *)
(* others wait for it.                                                     *)
BuildService(r) ==
  /\ At(r, "handler") /\ slot[r].op \in WebOps /\ inst.web = "new"
  /\ inst' = [inst EXCEPT !.web = "building"]
  /\ Moves(r, "building")
  /\ UNCHANGED <<Rest, Data>>

ServiceBuilt(r) ==
  /\ At(r, "building")
  /\ inst' = [inst EXCEPT !.web = "ready"]
  /\ Moves(r, "service")
  /\ UNCHANGED <<Rest, Data>>

(* Mutant of BuildPanics: the others are not told.                         *)
BuildAbandoned(r) ==
  /\ At(r, "building")
  /\ Answers(r, "panic", 500, FALSE)
  /\ UNCHANGED <<Rest, inst, Data>>

(* A client of another service cannot be made: RecoveryMiddleware answers, *)
(* and sync.Once counts as done.                                           *)
BuildPanics(r) ==
  /\ At(r, "building")
  /\ inst' = [inst EXCEPT !.web = "broken"]
  /\ Answers(r, "panic", 500, FALSE)
  /\ UNCHANGED <<Rest, Data>>

(* From then on, until a restart, the service is nil.                      *)
NilService(r) ==
  /\ At(r, "handler") /\ slot[r].op \in WebOps /\ inst.web = "broken"
  /\ Answers(r, "panic", 500, FALSE)
  /\ UNCHANGED <<Rest, inst, Data>>

Replies(r, o, changed) == Answers(r, o, StatusOf(slot[r].op, o), changed)

(* The services return their typed errors before they write anything, and  *)
(* a statement that was refused writes nothing; what failed otherwise may  *)
(* have changed everything, something or nothing.                          *)
Changed(op, o) == IF op \in Writes /\ o = "ok" THEN {TRUE}
                  ELSE IF op \in Writes /\ o = "failed" THEN BOOLEAN ELSE {FALSE}

Stepwise == ListOps \cup {"AdminUploadImage"}

Serve(r) ==
  /\ At(r, "service")
  /\ LET op == slot[r].op
     IN /\ op \notin Stepwise
        /\ \E o \in IF "mysql" \in up \/ op = "Ping"
                    THEN {"ok"} \cup Outcomes(op) ELSE {"db_disabled"} :
             \E changed \in Changed(op, o) : Replies(r, o, changed)
  /\ UNCHANGED <<Rest, inst, Data>>

(* A statement of a list fails.                                            *)
ListFails(r) ==
  /\ slot[r].pc \in {"service", "next"}
  /\ slot[r].op \in ListOps
  /\ Replies(r, "failed", FALSE)
  /\ IF slot[r].op \in WalkOps THEN PageLost /\ UNCHANGED web
     ELSE WebListLost /\ UNCHANGED walk
  /\ UNCHANGED <<Rest, inst, table, clock, uploadVars>>

ServeList(r) ==
  /\ At(r, "service")
  /\ \/ /\ slot[r].op = "AdminListCampaigns"
        /\ FindPage /\ Moves(r, "next")
     \/ /\ slot[r].op = "AdminListLandingPages"
        /\ FindPage /\ Replies(r, "ok", FALSE)
     \/ /\ slot[r].op = "UserListCampaigns"
        /\ FindPublished /\ Moves(r, "next")
  /\ UNCHANGED <<Rest, inst, uploadVars>>

ServeListRest(r) ==
  /\ At(r, "next")
  /\ \/ slot[r].op = "AdminListCampaigns" /\ LatestSummaries
     \/ slot[r].op = "UserListCampaigns" /\ AnswerWebList
  /\ Replies(r, "ok", FALSE)
  /\ UNCHANGED <<Rest, inst, uploadVars>>

TakeImage(r) ==
  /\ At(r, "service") /\ slot[r].op = "AdminUploadImage"
  /\ \E p \in Payloads, n \in Names :
       \/ /\ ~Accepted(p, n)
          /\ Replies(r, "bad_image", FALSE) /\ UNCHANGED uploadVars
       \/ CheckImage(r, p, n) /\ Moves(r, "next")
  /\ UNCHANGED <<Rest, inst, listVars>>

StoreImage(r) ==
  /\ At(r, "next") /\ slot[r].op = "AdminUploadImage"
  /\ \/ conf.keys /\ PutObject(r) /\ Replies(r, "ok", TRUE)
     \/ /\ conf.keys /\ PutFails(r)
        /\ Replies(r, "failed", objects' # objects)
     \/ /\ UploadGivenUp(r)
        /\ Replies(r, IF conf.keys THEN "store_refused" ELSE "not_configured", FALSE)
  /\ UNCHANGED <<Rest, inst, listVars>>

Return(r) ==
  /\ At(r, "answer")
  /\ slot' = [slot EXCEPT ![r] = Idle]
  /\ IF slot[r].op \in WalkOps THEN PageArrives ELSE UNCHANGED walk
  /\ UNCHANGED <<Rest, inst, table, clock, web, uploadVars>>

Proceed(r) ==
  \/ GetService(r) \/ BuildService(r) \/ ServiceBuilt(r)
  \/ BuildPanics(r) \/ NilService(r) \/ Serve(r) \/ ListFails(r)
  \/ ServeList(r) \/ ServeListRest(r) \/ TakeImage(r) \/ StoreImage(r)
  \/ Return(r)

-----------------------------------------------------------------------------
(* Clients and other instances of the server.                              *)

LangsOf == IF "AdminListLandingPages" \in conf.traffic THEN Langs ELSE {None}

Elsewhere ==
  \/ \E op \in WalkOps \cap conf.traffic, q \in conf.queries :
       StartWalk(ListOf(op), q.filter, q.size)
  \/ /\ conf.traffic \cap ListOps # {}
     /\ \/ \E l \in LangsOf : InsertRow(l)
        \/ \E i \in DOMAIN table : PublishRow(i)
  \/ /\ "AdminListCampaigns" \in conf.traffic
     /\ \E i \in DOMAIN table : MarkVersion(i) \/ CreateVersion(i)
  \/ /\ "AdminListLandingPages" \in conf.traffic
     /\ \E i \in DOMAIN table, l \in Langs : EditPage(i, l)
  \/ "UserListCampaigns" \in conf.traffic /\ Tick

Next ==
  \/ Start \/ Main \/ Terminate
  \/ HttpPanics \/ HttpListens \/ HttpFails \/ SendInterrupt
  \/ Poll \/ HandleRecord \/ HandlerPanics \/ ConsumerStops
  \/ \E r \in Slots :
       Refuse(r) \/ Proceed(r) \/ \E op \in Operations : Accept(r, op)
  \/ Elsewhere /\ UNCHANGED <<conf, processVars, uploadVars>>

(* Goroutines that can go on do; statements and calls of other services    *)
(* come back; nobody has to start the server or to send it anything, and   *)
(* a request that waits for a service is not refused any more.             *)
Fairness == /\ WF_vars(Main) /\ WF_vars(SendInterrupt)
            /\ \A r \in Slots : WF_vars(Proceed(r))

Spec == ServerInit /\ [][Next]_vars /\ Fairness

-----------------------------------------------------------------------------
(* Correctness.                                                            *)

Request ==
  {Idle} \cup [pc : {"handler", "building", "service", "next"}, op : Operations]
  \cup [pc : {"answer"}, op : Operations,
        outcome : {"ok", "refused", "panic", "db_disabled"}
                  \cup UNION {Outcomes(op) : op \in Operations},
        status : {200, 400, 401, 403, 404, 409, 500, 503, 4001},
        changed : BOOLEAN]

ServerTypeOK ==
  /\ conf \in Deployments /\ sig \in 0..1
  /\ main \in {"down", "config", "logger", "mysql", "telemetry", "kafka", "http",
               "notify", "wait", "flush"}
  /\ up \subseteq {"config", "logger", "mysql", "telemetry"}
  /\ http \in {"off", "starting", "listening", "failed", "gone"}
  /\ consumer \in {"off", "polling", "handling", "stopped"}
  /\ inst \in [web : {"new", "building", "ready", "broken"},
               reward : {"new", "ready"}]
  /\ slot \in [Slots -> Request]
  /\ ListTypeOK

(* Whatever a service of the API has done, who is told that the request    *)
(* was refused, or may be sent again later, can rely on it having changed  *)
(* nothing, and a refusal with a name of its own never reads as a fault    *)
(* of the server.                                                          *)
AnswersHonest ==
  \A r \in Slots : At(r, "answer") =>
    /\ slot[r].status \notin {200, 500} => ~slot[r].changed
    /\ slot[r].outcome \in Refusals(slot[r].op) => slot[r].status # 500

(* A request or a record reaches a service only when configuration,        *)
(* logger, database and tracer are there, however the start went.          *)
ServedOnlyWhenReady ==
  (consumer = "handling" \/ \E r \in Slots : slot[r].pc \in {"service", "next"})
    => up = {"config", "logger", "mysql", "telemetry"}

(* A server that cannot listen, or no longer can, does not stay: even if   *)
(* that happens before main listens for signals, or while one is waiting.  *)
ListenFailureEndsProcess == http \in {"failed", "gone"} ~> http = "off"

(* Every request comes to an end, also one that waits for a service that   *)
(* cannot be built.                                                        *)
RequestsEnd == \A r \in Slots : slot[r] # Idle ~> slot[r] = Idle
=============================================================================
