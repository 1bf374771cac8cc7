# TLA+ models of campaign-center-api

Specifications, model-checking configurations and proofs for the service in
`src/server`: the administration of campaigns, joining them, the rewards paid
for completed tasks, the Kafka consumer that feeds them, landing pages with
their translations, and the server process with its HTTP API. Run everything
from this directory:

    tlc -workers 2 -config RewardLedger_races.cfg MCRewardLedger
    tlapm RewardLedgerProofs.tla

`PROJECT.json` lists the components, the runs, the definitions with the source
lines they model, the mutants (definitions with a plausible bug, each of which
breaks a property), the hazards, the findings and the theorems.

## 1. The system

One stateless process (several instances may run) on one MySQL database. It is
driven by HTTP requests of administrators and users and by two Kafka topics; it
calls a task, a user-group and a reward service over gRPC, a translator and an
object store over HTTP.

| component | state it keeps | operations |
|---|---|---|
| campaign administration (`service/campaign_admin_service.go`) | `campaigns`, `campaign_drafts` (numbered versions), `campaign_reward_rules` | CreateCampaign, CreateVersion, EditVersion, PublishCampaign; list, get |
| reward events (`service/campaign_reward_event_service.go`) | `campaign_user_rewards_ledger` | HandleTaskCompleted, HandleRewardResult |
| Kafka consumer (`kafka/listener/consumer.go`) | offsets of the consumer group, position of the client | poll, handle a record, commit it |
| joining and user reads (`service/web_campaign_service.go`) | `campaign_participants`; enrolments in the task service | JoinCampaign; list, landing and rules reads |
| landing pages (`service/landing_page_admin_service.go`) | `campaign_landing_pages`, `audit_logs` | create, update draft, publish, list, get |
| translations (`service/landing_page_translation_service.go`) | `campaign_landing_page_translations` | save, generate, list languages |
| participant administration (`service/admin_participant_service.go`) | none | list, get |
| image upload (`service/image_upload_service.go`, `proxy/oss.go`) | objects in the store | upload |
| HTTP API (`http/`) | none | one handler per operation; statuses |
| process (`main.go`, `http/init.go`, `kafka/listener`, `config`, `log`, `telemetry`) | what is set up, the signal channel, services built on first use | start, serve, stop |

How they interact. Publishing a version writes the campaign row and replaces the
campaign's reward rules; joining reads both. A task-completed record makes the
event handler look up the rules of the task and of its group, check that the
user has joined each rule's campaign, create a ledger row and ask the reward
service for a voucher with the ledger id as `client_ref_id`. The reward service
answers with a voucher and later sends a result record for that id, which the
other handler writes into the same row. The consumer commits a record after its
handlers succeeded. The user's reads put a campaign, its landing page and a
translation together from separate statements. The HTTP goroutine and the
consumer share the process: what ends one ends the other.

What is hard. No service method spans its statements with a transaction
(CreateCampaign, the replacement of rules and the publish of a landing page apart),
so every request interleaves with every other between any two statements:

- an edit or a publish writes back a row it read earlier;
- a publish is three commits, and can stop between them;
- a republish deletes the rules a handler is working on and numbers them afresh;
- a record is delivered again, to another instance, or while the first handler
  still runs; the synchronous answer of the reward service races its result
  record, and a lost answer looks like a refusal;
- a failed record is neither retried nor committed, and a later commit passes it;
- a user joins while all of this goes on, and the remote calls of a join lie
  between its statements;
- saves of a translation decide twice, at different times, whether it exists;
- lists are read page by page while rows are inserted, and join or leave the
  filter that was asked for;
- services are built once, by whichever request comes first, and may fail to be;
- the process ends at any time, by a signal, a panic or a port that is taken.

What makes each component correct, in short: versions go live in order, once,
validated, and never change afterwards; a reward is requested only when it was
earned, a user has one ledger row per rule, a voucher once recorded stays and
ends the requests for its row; no record is passed over unseen, and each is
seen eventually; all join requests of a user agree, and whoever participates is
enrolled; a page is published exactly if its audit log says so, has one
translation per language and is shown under the right label; a list misses
no row but for those that left it; an uploaded image keeps its URL; an answer says truly whether anything
was changed; and nothing is served before the process is ready, or waits forever.
Section 4 says which of this holds, and under which circumstances it does not.

## 2. The modules

### RewardLedger

State: the tables `rules`, `participants`, `ledgers` (the id is the position),
the topics `completions` and `results` (sets that only grow: a record may be
handled again, and in any order), the requests the reward service accepted
(`calls`; the position is the voucher id), and per worker the program point and
local variables of its handler (`job`). `issued` is a history of all rules ever
published. A worker is a slot for one running handler; two of them are two
instances, or an instance that still works on a partition it has lost.

Each action is one statement of a handler: one query, one update or one gRPC
call. `ReceiveCompletion`, `ListGroupRules` and `PickRule`/`SkipRule` are
HandleTaskCompleted and the head of maybeDistributeForRule (the participant
lookup included); `LookupLedger`, `InsertLedger`, `InsertFails`, `Reread` its rest; `Distribute*`
and `Settle` are distributeReward; `ReceiveResult` and `RecordResult`
HandleRewardResult. `Abort` is a database error or the end of the process
between any two of them. `Environment` holds what others do: the publish
of new rules, the join, the producers. The constant `Faults` says which failures
may happen in a run, `Dedup` whether the reward service always
recognises a `client_ref_id`; otherwise it may or may not. Nothing in this
repository says that it does.

Abstracted: the budget project of a request, time stamps, spans and wording.
Malformed records only make a handler return an error and change nothing.

### CampaignLifecycle and CampaignVersions

State: the campaign `row`, its versions `drafts`, the content its `rules` were
flattened from, and per request slot what the request remembers between two
statements (`req`). Campaigns share no row, so one stands for all. A content is
one value; `Publishable` are those that pass validatePublishContent, `NameOnly`
is the content a new campaign starts with. EditVersion is `StartEdit`,
`WriteEdit`; CreateVersion `StartVersion`, `CopyContent`, `InsertVersion` or
`InsertConflict`; PublishCampaign `StartPublish`, `ApplyToCampaign`,
`ReplaceRules`, `MarkPublished`. The initial states include a campaign migrated
from the schema before drafts, live or not, but without any version and without
rules: the migration drops the column they were in.

`CampaignVersions` is the abstract specification: each request is one atomic
step on a list of versions and the live content. `CampaignLifecycle!Abstract`
maps the tables to it; a publish takes effect with the campaign row, and the
version counts as published from there on.

The constant `EditsAlone` keeps edits from overlapping any other request. The
code has no such lock: the constant says what clients (or a lock) would gain,
and that the overlap of an edit is the only thing that breaks two of the
properties.

### CampaignJoin

Extends CampaignLifecycle with one user's calls: `join` is JoinCampaign, `rules`
GetCampaignRules, `list` the administrator's ListParticipants, which reads the
same tables in the same order. State: the user's `participant` row, the task
groups the task service has the user `enrolled` in, and per call what it
remembers (`call`). `everLive` is a history of the contents the campaign was
live with. Each action is one statement or one remote call: `ReadCampaign`,
`AlreadyJoined`/`NotJoinedYet`, `MatchUserGroup`/`NotEligible`, `ReadRules`,
`EnrollTaskGroup`, `Join` (the insert that does nothing on a conflict) or
`JoinConflict` with `ReadExisting`. `CallFails` and `EnrollAnswerLost` are the
errors between them. `Administer` is every step of CampaignLifecycle.

### LandingPages

State: the `page`, its `translations`, the publishes in its audit log, per
request what it remembers (`req`) and the last `view` that was answered. A text
knows the language it was written in, whatever label the code gives it; of a
wording the model knows only whether it is complete. `UpdateDraftLandingPage` and
`WritePage` are the read and the write of one method; `SaveTranslation` with
`FindTranslation` and an insert or update is the service and the repository's
Upsert; `GetLandingPage` and `OverlayTranslation` are the service method of that
name and the user's loadLandingContent, which reads in the same way;
`GenerateTranslation` and `Translate` answer a translation and store nothing.

### Server with Listing, ImageUpload and HttpApi

`Listing` has the lists: `FindPage` and `LatestSummaries` are the statements of
AdminListCampaigns (of AdminListLandingPages the first only), `FindPublished` and
`AnswerWebList` the user's list. `table` stands for the campaigns or the landing
pages; a row has the status and the default language a list can be filtered by.
`walk` is a client that reads page after page, under one of the `Filters`, until
one is empty. It has a history: `owed` are the rows that matched ever since it
began, `left` counts how often a matching row left the list. Every change of a
row is `Becomes`, which keeps these up to date: a publish takes a row out of the
drafts, `EditPage` (the update of a landing page) out of the pages of a language.
`pageToOffsetLimit` and `classifyCampaignWindow` are the functions of that name.

`ImageUpload` has the upload: `CheckImage` names the object by its bytes and the
type that was accepted, `PutObject` stores it. An empty file and one that is too
large are both `BadSize`.

`HttpApi` has no state. It lists the operations of the router, the ways each
service refuses or fails (`Refusals`, `Outcomes`) and the status each handler
answers (`StatusOf`). Two handlers tell a client's fault by words in the error's
text, which an error of the database (`failed_steps`) or of the object store
(`store_refused`) may contain as well. It is assumed that what reads like this
was refused as a whole, and changed nothing.

`Server` puts them into a process. `main` is the step main.go takes next, with
one action for each; `http`, `sig` and `consumer` are the HTTP goroutine, the
signal channel and the consumer's goroutine; `inst` are the services of users
and of reward events, which panic if a client cannot be made (the others
cannot fail); `HttpPanics` is NewRouter, which panics if no origin is allowed;
`slot` are requests, from the middleware (`Refuse`) over the
service they get or build (`GetService`, `BuildService`) to the answer. Lists
and uploads take the steps of their modules; the other operations have one step
with any of their outcomes, because their own modules say what they do.
`ProcessEnds` is whatever ends the process; a request that was served is cut off.

### KafkaConsumer

State: the records in each partition (`end`), the offset of the group
(`committed`), the `owner` of each partition and where it fetches next
(`position`), and per member what it is doing (`loop`). `handled`, `failed` and
`passed` are histories of what became of a record: its handlers succeeded, one
of them failed, or nobody handled it (no handler, or a poll with an error).
`PollFetches`, `PollErrors` and `EndOfFetch` are `run`; `SkipRecord`,
`HandlersSucceed`, `HandlersFail`, `CommitRecords` and `CommitFails` are
handleRecord. The handlers of a record run in parallel but are waited for, and
what they do is RewardLedger's subject, so their outcome is one step here.
`Assign`, `Restart` and `Fetch` are Kafka and franz-go, modelled from how the
loop uses them: a poll moves the position whatever happens to the records, a
commit overwrites the offset, a partition that changes hands is read again from
the committed offset, and its former owner is not interrupted.

### RewardDelivery

Composes the two: it extends RewardLedger and KafkaConsumer, and a member of the
group is the worker whose handler it runs. State of its own: what each record
says (`log`), the `attempt` a member is making (the record its handler works on,
and the rules the handler found), and a history of the attempts that returned
without error (`settled`). A record keeps, beside its content, which campaigns
the user had joined and which campaigns offered a reward for it when it was
sent; the code sees neither.

`Handle` is the call of the record's handler, `GoOn` each of the handler's
statements, `Return` and `Fail` its return without and with an error, which is
all that handleRecord knows of it. Each is a step of RewardLedger together with
one of KafkaConsumer, or with none; so is `Crash`, the end of the process in
the middle of a handler or between two. `HandleIgnored` is a completion of
another status, for which the handler returns at once. `Consume` is the rest of
the loop, `Publishing` the publishes and joins. The failures are those of
the two modules; a handler that may return an error needs both to allow it.

### MC modules and proofs

The `MC` modules give TLC its small instances. The theorems are in
`RewardLedgerProofs`, `KafkaConsumerProofs`, `RewardDeliveryProofs` (which cites
their lemmas for the composition), `CampaignLifecycleProofs`, and
`CampaignVersionsProofs` and `CampaignJoinProofs`, which build on it,
`LandingPagesProofs`, and `ServerProofs` with those of Listing.

## 3. Runs and bounds

| run | instance | shows |
|---|---|---|
| reward_races | 2 workers, 1 user, 1 rule, every failure, up to 2 accepted requests | OneLedgerPerKey, LedgerFollowsService, VoucherNeverErased, ClosedForever |
| reward_groups | 1 worker, 2 users, task and group rules, a republish, requests refused | CallsJustified, CallsPerLedgerBounded, SuccessIsFinal |
| reward_retry | 2 workers, no failure | RetryOnlyIfNeverAccepted is violated |
| campaign_serial | 1 request at a time that may stop anywhere, 3 versions | TornPublishRepeatable, ImplementsVersions, TypeOK |
| campaign_publishers | 3 overlapping requests that may stop, edits alone, 3 versions | OnlyLatestDraft, PublishedVersionImmutable |
| campaign_join | 2 calls of a user, 2 overlapping requests of administrators, all of which may stop | JoinAnswersAgree, JoinedIsEnrolled, EnrolledAloneOnlyByFailure, OnLiveContent, LiveContentValidated, JoinTypeOK |
| campaign_editrace | 2 overlapping requests | PublishedVersionImmutable is violated |
| campaign_stale | 2 overlapping requests | LiveIsLatestPublished is violated |
| landing_pages | 2 fair requests that may stop, 2 languages, 2 operators, 1 publish | PublishedIsAudited, OneRowPerLang, CreatorKept, ViewLabelledRight, PublishedSettles, TypeOK |
| server | 25 deployments, 2 requests at a time, 3 rows, 2 languages, 4 files | MissedOnlyByLeaving, ShownPublishedIsLive, ShownByWindow, UrlKeepsItsImage, AnswersHonest, ServedOnlyWhenReady, ListenFailureEndsProcess, RequestsEnd, ServerTypeOK |
| kafka_group | 2 members, 3 records in 2 partitions, every failure, 2 moves | NothingSkipped, CommitFollowsSuccess, EveryRecordSeen |
| reward_delivery | 2 fair members, 1 completion (which may be ignored) and 1 result in a partition each, 1 rule, a republish, every failure of loop and handler, 1 crash or reassignment, a service that recognises `client_ref_id` | RewardedBehindOffset, RewardComes, VoucherStable, DeliveryTypeOK |

Why these bounds are enough for what each run asks. A race of the ledger is
between two handlers of one key; two workers on one rule give every
interleaving of two of them, with the results of up to `MaxCalls` requests
delivered in any order and any number of times, because topics are sets that are
never emptied. In reward_groups and reward_delivery `MaxRuleId` lets the rules be
published twice, so that a handler holds deleted rows while the same rules have
new ids. Group progress needs two users: one that has finished the group and one
that has not. Three versions let a slow publisher be overtaken by a creation and
a publish of the next version; two are enough for a version to be edited while
it is published and another one created (campaign_editrace).

campaign_join starts from a campaign in any state, published or not, and creates
at most one version more: the user's calls then overlap a first publish or the
replacement of the content the campaign was live with. The two contents have
different task groups, and the user is meant for only one of them, so a call that
mixes two publishes shows. Two calls are enough for two joins to race, or a join
and a repetition of it after a failure.

landing_pages lets the one publish overlap two other requests: an update that
checked the status before, two saves of one language, a view between two
changes. One publish is enough, as a second one finds the status as it is.

server tries each operation by itself, as `traffic` of a deployment of its own:
the handlers share nothing but the process, and two slots are enough for one
request to wait for the service another one builds. One deployment has a
consumer and two operations. Lists are read with one request at a time by a
process that stays (`calm`), while rows are inserted, published and edited at
every step: the request and the other instances' writes interleave, and failed
requests are repeated. Three rows, pages of at most two and sizes of 0 and 3 give
the default, a capped page, several pages and an empty last one. The lists are
read without a filter, by either status and by a language; a page leaves the
language that is read once at most by an edit (`MaxLeft`), and each row leaves the
drafts at most once by a publish, so that one row, and more than one, can be
missed. The four files are an image, a text, one too large and an empty one. The
windows of the three campaigns have both ends equal, no end at all, and an end
before the beginning.

In Kafka, two moves are a partition that changes hands and
comes back, or a reassignment with a restart, and two records in a partition are
the least for one commit to pass another record.

In reward_delivery one completion is interrupted after any statement of its
handler, by a crash or by a second member that starts on the same record, while
rules are republished, INSERTs and requests fail and answers get lost; a result
record races the handler that has still to store its answer. What a second
record of the partition changes, that its commit passes a failed one, is
kafka_group's question; the theorem of section 5 has any number. The bound on
requests, 4, stands for no limit of the code: with a service that recognises
`client_ref_id` there is one for each of at most two ledger rows. The types of
RewardLedger and KafkaConsumer are checked here, as conjuncts of DeliveryTypeOK.

The bounds stand in the guards of `ReplaceRules`, `Distribute`, `StartVersion`,
`Produce`, `Assign`, `Restart`, `PublishLandingPage`, `InsertRow`, `EditPage` and
`Tick`;
worker and request slots are interchangeable, hence the symmetry in the runs
without liveness.

`CHECK_DEADLOCK FALSE` is set where the bounded system may come to rest: the
administrators of a campaign stop at `MaxVersion`, the producers at
`MaxRecords`.

Fairness. `KafkaConsumer!FairConsumer` asks that the loop of each member never rests. It
assumes that a poll does not report errors forever without moving on, and a
handler that never returns would stop the loop for good. Nothing is asked of the broker:
records need not be produced, and partitions need not move.
`RewardDelivery!FairDelivery` asks the same of each member, loop and handler as
one: its goroutine is scheduled, each statement and call returns (an error is a
return), and the next is begun. A handler is not a single step there, so that it
returns is a consequence and no assumption. Nothing is asked of producers or
publishers.
`LandingPages!FairSpec` asks that a request that has begun goes on, if only to
its error. `Server!Fairness` asks the same of the steps of main, of the HTTP
goroutine's interrupt, and of each request that is not refused: statements and
calls of other services return. The platform need not restart the process, no
client need send anything, and records need not be polled.

## 4. What the checks show

Rewards. However handlers race and whatever fails: a user has one ledger row per
rule, every accepted request was earned (its rule was published, the user had
joined and the completion was reported), a row's voucher was issued for it and it
reports success only after the reward service did, no recorded voucher is blanked, and once
a row holds a voucher and no request for it is under way, there will be none.
More holds only under conditions. A row costs no more accepted requests than
handlers can run at the same time, as long as no answer is lost or lacks its
voucher and no handler dies; refusals and failed INSERTs do no harm. Success is
final if handlers run one after the other and the service reports nothing but
success with its voucher; handlers may die and answers get lost. A voucher that
never changes needs a service that recognises `client_ref_id`, and nothing else.
Otherwise a row may go back from success: a handler that stores its answer after
the result was handled sets it to distributing, and of several results the last
one written stays. Its status is in any case one that the service reported.

A republish gives the same rules new ids, so a completion that is delivered again
after one is rewarded again under the new id. `OneLedgerPerKey` and
`CallsPerLedgerBounded` are about ledger rows, and do not exclude this.

Campaigns. One request at a time, the statements of each request are together
the abstract request or one of its named failures. A publish that stopped half
way can be repeated. With overlapping requests only
validated content goes live; versions keep their order and stay as they were
published as long as no edit overlaps another request.

Kafka. No record is passed unseen: one is lost only by a logged error, namely
a failed handler followed by a later success in the same partition, or a poll
that reported an error followed by one. Every record is eventually seen, even
when members restart and partitions move while it is under way.

From completion to reward. A completion that the group's offset has passed was
ignored because of its status, or some attempt at it came through: every rule
which that attempt found, and whose campaign the user had joined when the task
was reported, has a ledger row with an accepted request. Otherwise its loss is in the
log, and a later record of the partition was handled. A completion reported after
the user had joined is rewarded in each campaign that offered it, although
members die in the middle of its handler, partitions move, commits fail and rules
are published again, unless its handler returned an error or the poll that
fetched it reported one.

Two limits of this. A completion reported before the user's participant row is
there is passed over and committed, and joining later does not bring it back.
And a handler asks for the rules of the task and of the group in two queries: a
republish in between that turns the group's rule into one of the task is seen by
neither, and the record is committed without reward. reward_delivery therefore
republishes the same rules; `RewardedBehindOffset` speaks of the rules that were
found.

Joining. Whatever overlaps or fails, all answers to a user's joins give the one
time that is stored, a participant is enrolled in the task group the join found,
an enrolment without participant is the trace of a request that failed or is
about to insert, and what is joined on was live at some time. Two things the
code does are not excluded by this: during the first publish of a campaign a
join finds no rules and enrols nobody; and the target group may be that of the
content before a publish while the task group is that of the content after it.

Landing pages. Status and audit log agree although an update writes back what it
read before a publish, because its statement leaves the status alone; but
the content of a published page may still change once, by updates under way when
it was published. Overlapping saves leave one translation per language with its
first creator; the loser of a first save is answered with an error. No view
mixes the label of one language with the text of another. Users see landing
pages in whatever status they are: the read does not ask for it.

Lists. A client reads page after page until one is empty, with sizes that are
absent, capped or usual. Without a filter, and under status published, rows only
join the list, in front or in between: the client misses none of the rows it
could see at first. Under status draft, or a default language, rows also leave
the list while it reads (a draft is published, a page is edited), and those
behind move forward, the first of them to a page that was read already: a row
that matched all the time is then missed, one at most for each that left
(`MissedOnlyByLeaving`). A client that stops at the first page shorter than it
asked for would miss more, since the capped size is not answered.

Server. A campaign shown as published is live. Refusals and temporary errors
changed nothing, and only answers 200 and 500 leave that open, provided that a
statement or an upload whose error reads like a bad request was refused as a
whole. Nothing is served before the database is connected, and a server that
cannot listen ends, also if the signal channel is full. A service of users that
could not be built once is answered with 500 until the process is restarted, but
no request waits for it forever. The answer 503 for a missing database is in the
code of every handler and is never given, as main does not go on without one; a
database that fails later is answered with 500.

Findings (each is a run that TLC finds violated):

1. reward_retry: the comment in `maybeDistributeForRule` takes a row without
   voucher for a reward that was never accepted. Another handler's request for
   it may have been accepted just before.
2. campaign_editrace: EditVersion checks that the version is a draft, and later
   writes the whole row it read. A publish in between is undone and the
   published version has other content.
3. campaign_stale: two requests publish the same version, and an edit that began
   before them is written between their reads. The one that read the edited
   content writes campaign and rules first, the other one overwrites them with the
   content from before the edit, and the first marks the version last. All have
   succeeded, and the published version has another content than what is live.
   AdminPublishCampaign "publishes the latest draft version onto campaigns".

## 5. What is proved

All theorems hold for every value of the constants that meets the modules'
assumptions, hence for any number of users, workers, requests, members, records,
languages, rows, images and failures. The assumptions only give the constants
their types and keep `None` apart from rows, answers and other real values.

| theorem | statement | argument |
|---|---|---|
| RewardLedgerProofs!TypeCorrect | `Spec => []TypeOK` | inductive as it stands: `Job` says which local variables a program point has set |
| VouchersKept | VoucherNeverErased | every write to a row is `Updated`, which keeps a voucher when it is given none |
| EveryCallJustified | CallsJustified | what a handler has still to do (its rules, its ledger row, its call) is justified already; participants, issued rules and completions only grow |
| KeysUnique | OneLedgerPerKey | a row is appended only by an insert that finds none with its key |
| ClosedRowsStayClosed | ClosedForever | a handler reaches the call only through a row without voucher |
| LedgersFollowService | LedgerFollowsService | `FollowInv`: every result names the voucher of a request for its row, and what a handler is about to write came from such a request or result; requests and results only grow |
| CallsBounded | CallsPerLedgerBounded if `Workers` is finite and nothing in `Faults` loses a voucher ("abort", "lost", "no_voucher") | `BoundInv`: while a row has no voucher, each of its requests is held by a handler about to store one (`Held`); afterwards nobody turns to the row any more, and requests made and still to come together are at most the workers (`Spent`) |
| SuccessStays | SuccessIsFinal if `[]OneHandler` and `Faults` has neither "failed" nor "blank" | `FinalInv`: a successful row has a voucher, no handler that will call or settle has a successful row, and results only say success |
| VouchersStable | VoucherStable if `Dedup` | with LedgersFollowService: both vouchers were issued for the row, and a row has one request (`RefsUnique`) |
| CampaignLifecycleProofs!TypeCorrect | `Spec => []TypeOK` | with `VersionsExist`: CopyContent reads the version found before, which must still be there |
| OnlyValidatedGoesLive | LiveContentValidated | what a publisher carries was validated when it started, and only publishers write |
| SerialEditsKeepOrder, SerialEditsKeepPublished | OnlyLatestDraft, PublishedVersionImmutable if `EditsAlone` | a publisher's version still holds the content it read, and a request never carries a version that does not exist |
| CampaignVersionsProofs!RequestsAreAtomic | `Spec /\ []Alone => ImplementsVersions` | `OneInv`: what the request in progress carries is still what the tables hold (`Holds`), so each statement maps to the atomic request, to one of its failures or to no step; one lemma per action of CampaignVersions |
| TornPublishCanRepeat | TornPublishRepeatable if `[]Alone` | `OneInv`: a published newest version is live with its rules |
| UnfailingPublishIsLive | LiveIsLatestPublished if `[]Alone` and `~MayAbort` | `OneInv`: while the newest version is a draft, the one before it is live, unless its publish is in progress |
| JoinTypeCorrect, JoinsAgree | JoinTypeOK, JoinAnswersAgree | `Knows` says of each step of a call which of its reads still holds: an answer has the time of the stored row, and the row never changes |
| ParticipantsEnrolled, OrphansAreFailures | JoinedIsEnrolled (of the group the join found in the rules it read), EnrolledAloneOnlyByFailure | a call about to insert has enrolled the user for the group it found, and as long as there is no participant some call `Explains` the enrolment |
| JoinsOnLiveContent | OnLiveContent | `RulesWereLive`: the rules, and those a publisher is about to write, are of a content that was live |
| JoinLeavesAdministration, JoinedContentValidated | `JoinSpec => Spec`, LiveContentValidated | a user's step leaves what CampaignLifecycle knows alone, so its theorems hold here too |
| LandingPagesProofs!TypeCorrect, StatusIsAudited, LanguagesUnique, LabelsRight | TypeOK, PublishedIsAudited, OneRowPerLang, ViewLabelledRight | `Ready`: what a request carries to its next statement still fits the tables, as rows are never deleted and keep their language |
| CreatorsKept | CreatorKept, of translations | an update of a translation finds the only row of its language |
| ServerProofs!TypeCorrect, NothingServedEarly | ServerTypeOK, ServedOnlyWhenReady | `ReadyInv`: the step main is at says what is set up, and requests exist only while the server listens |
| UrlsKeepTheirImages | UrlKeepsItsImage | every key, stored, answered or about to be stored, has the hash of its image |
| AnswersAreHonest | AnswersHonest | by operation and outcome: a typed refusal has a status of its own, a fault one of 200, 400, 500, 503 that fits what it changed |
| ListedPublishedIsLive, ListedByWindow | ShownPublishedIsLive, ShownByWindow | a published newest version is that of a live campaign, and a campaign stays live |
| WalksMissOnlyLeavers | MissedOnlyByLeaving | by counting, `CountInv`: no more of the rows owed to the client were passed over than left the list. A row that joins moves others back only; one that leaves moves them forward by one place (`RankShrinks`), and only one row has the place that comes to lie on a page already read (`RankApart`); every place is taken (`RankOnto`), so an empty page has nothing behind it |
| KafkaConsumerProofs!ConsumerTypeCorrect | `ConsumerSpec => []ConsumerTypeOK` | inductive as it stands: a member about to commit has a record |
| NoRecordSkipped | NothingSkipped | everything below a member's position, below a record it still has to handle and below the record it is about to commit was seen or is still to be handled by that very member |
| OffsetFollowsSuccess | CommitFollowsSuccess | `SuccessInv`: a member about to commit has handled its record, so the record just below an offset is always a handled one |
| RewardDeliveryProofs!ConsumesAsConsumer | `DeliverySpec => ConsumerSpec` | step by step: a statement of a handler is a stutter, its return `HandlersSucceed` or `HandlersFail` |
| HandlesAsLedger | `DeliverySpec => Spec` | step by step: the content of the record handled was sent (`LogInv`), and a crash is an `Abort` or a stutter |
| DeliveryTypeCorrect | DeliveryTypeOK | those two, with `AttemptsTyped` |
| OffsetMeansRewarded | RewardedBehindOffset | see below |

Most of the safety properties are not inductive themselves. `CallsJustified`, for instance,
says nothing of a handler that holds a rule and is about to make the call, and
`NothingSkipped` nothing of the record about to be committed; the invariants in
the proof modules say it.

`OffsetMeansRewarded` puts together what holds of each part. From KafkaConsumer,
through `ConsumesAsConsumer`, come NothingSkipped and CommitFollowsSuccess: a
record behind the offset was handled, or failed or passed with a later one
handled. From RewardLedger, through `HandlesAsLedger`, come TypeOK and the
invariants behind CallsJustified and LedgerFollowsService: they say that a row
with a voucher has a request.
The composition's own invariants join them: `OnRecord` ties a running handler to
the record its member is at, `Progress` says that every rule the handler found is
served or still before it, at whatever statement it is, and `HandledInv` that a
handled record was ignored or has a settled attempt whose rules are all served.
Served rules stay so, as requests and rows are never removed.

Four theorems assume something of the behaviour or of the failures, because the
code does not rule it out: `OneHandler` (at most one handler runs at any time,
in whichever instance) and `Alone` (at most one administrator's request of a
campaign is in progress) hold of the behaviours in which records are handled,
or requests sent, one after the other, for any number of workers or clients.
Without them reward_retry and campaign_stale show what happens. The runs check
the same properties with one worker or one request, or with a bound on both.

Only model-checked: the liveness properties (EveryRecordSeen, RewardComes,
PublishedSettles, ListenFailureEndsProcess, RequestsEnd; liveness under fairness
is beyond the prover). Every other property that a run finds satisfied is also a
theorem.

## 6. Not modelled

- The gRPC greeting service (main.go does not start it), the redis client
  (nothing uses it), AuditRepository (nothing calls it) and Kafka tracing (spans
  and log lines) have no behaviour a property could be about.
- The generated swagger documents and the mocks.
- What is logged and exported; the contents of configuration, which only decides
  between the deployments of Server.
- The query for one campaign by its id, the totals of lists, counted by a statement of their own, and the joined flags
  of the user's list; GetCampaign and GetParticipant, single reads.
- The limits of 1000 campaigns and 200 participants, beyond which rows are not
  shown (the first as a limit of the model, the second not at all).
- A publish of a landing page that is repeated within a millisecond, and page
  numbers whose product with the size overflows.

MySQL is taken at statement granularity: each statement is atomic and sees what
was committed before it.

## 7. Plan

Done: RewardLedger, KafkaConsumer and their composition RewardDelivery;
CampaignLifecycle with CampaignVersions and CampaignJoin; LandingPages; Server
with Listing, ImageUpload and HttpApi; the theorems of section 5. Next:

- CampaignJoin with RewardDelivery, so that the enrolment in the task service and
  the participant row, and what is reported between them, are in one model;
- that LandingPages implements an abstract page with one text per language;
- that LiveIsLatestPublished survives overlapping publishes as long as edits are
  alone and nothing fails (UnfailingPublishIsLive has one request at a time).
