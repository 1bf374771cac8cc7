------------------------------- MODULE Listing -------------------------------
(***************************************************************************)
(* The lists: AdminListCampaigns and AdminListLandingPages page by page,   *)
(* and the user's list of running and coming campaigns, while rows are     *)
(* created, published and edited.  One table, newest row first, stands for *)
(* campaigns or campaign_landing_pages; its rows change by requests to any *)
(* instance of the server, and are never deleted.                          *)
(*                                                                         *)
(* The statements of a list share no transaction.  Left out: the total,    *)
(* counted by a statement before the page, the user's joined flags, and    *)
(* the query for one campaign by its id.                                   *)
(***************************************************************************)
EXTENDS Naturals, Sequences, FiniteSets

CONSTANTS
  MaxRows,          \* bound: rows ever inserted
  MaxLeft,          \* bound: no edits after so many rows left a list being read
  Langs,            \* default languages of landing pages
  DefaultPageSize, MaxPageSize, WebLimit,   \* 10, 100 and 1000 in the code
  MaxTime,          \* bound: last reading of the clock
  WindowOf,         \* WindowOf[i]: start and end of campaign i, or None
  None

Times == 0..MaxTime

ASSUME ListingAssumption ==
  /\ {MaxRows, MaxLeft, MaxTime} \subseteq Nat
  /\ {DefaultPageSize, MaxPageSize, WebLimit} \subseteq Nat \ {0}
  /\ WindowOf \in [1..MaxRows -> [start : Times \cup {None},
                                  end : Times \cup {None}]]

VARIABLES
  table,  \* table[i]: row with id i
  clock,
  walk,   \* a client that reads a list page by page
  web     \* the user's list: the rows it found, and what it answered

listVars == <<table, clock, walk, web>>

Status == {"draft", "published"}

(* status is the row's, latest that of the newest version of a campaign,   *)
(* lang the default language of a landing page.                            *)
Row == [status : Status, latest : Status, lang : Langs \cup {None}]

Lists == {"campaigns", "landing_pages"}

(* CampaignQuery and LandingPageListFilter; None: not asked for.           *)
Filters == [status : Status \cup {None}, lang : Langs \cup {None}]

Unfiltered == [status |-> None, lang |-> None]
Published == [Unfiltered EXCEPT !.status = "published"]

(* found: rows of the page being read; seen: all rows that arrived; shown: *)
(* those of the last page that were given the status published.  History   *)
(* of the table since the walk began: owed, the rows that matched all the  *)
(* time; left, how often a matching row left the list.                     *)
Walk == [pc : {"idle", "find", "summaries", "read", "done"}, list : Lists,
         filter : Filters, size : Nat, page : Nat, left : Nat,
         owed : SUBSET (1..MaxRows), seen : SUBSET (1..MaxRows),
         found : SUBSET (1..MaxRows), shown : SUBSET (1..MaxRows)]

Web == [pc : {"idle", "found", "answered"}, rows : SUBSET (1..MaxRows),
        ongoing : SUBSET (1..MaxRows), upcoming : SUBSET (1..MaxRows),
        at : Times]

NoWalk == [pc |-> "idle", list |-> "campaigns", filter |-> Unfiltered,
           size |-> 0, page |-> 1, left |-> 0, owed |-> {}, seen |-> {},
           found |-> {}, shown |-> {}]

NoWeb == [pc |-> "idle", rows |-> {}, ongoing |-> {}, upcoming |-> {}, at |-> 0]

ListInit ==
  /\ table = << >> /\ clock = 0
  /\ walk = NoWalk /\ web = NoWeb

-----------------------------------------------------------------------------
(* The table under the lists.                                              *)

Matches(row, f) == /\ f.status \in {None, row.status}
                   /\ f.lang \in {None, row.lang}

Matching(f) == {i \in DOMAIN table : Matches(table[i], f)}

Reading == walk.pc \in {"find", "summaries", "read"}

InsertRow(l) ==
  /\ Len(table) < MaxRows
  /\ table' = Append(table, [status |-> "draft", latest |-> "draft", lang |-> l])
  /\ UNCHANGED <<clock, walk, web>>

(* Row i becomes row, and may leave the list that is being read.           *)
Becomes(i, row) ==
  /\ table' = [table EXCEPT ![i] = row]
  /\ walk' = IF Reading /\ i \in Matching(walk.filter) /\ ~Matches(row, walk.filter)
             THEN [walk EXCEPT !.owed = @ \ {i}, !.left = @ + 1] ELSE walk
  /\ UNCHANGED <<clock, web>>

(* PublishCampaign writes the campaign row, landingPageRepository.Publish  *)
(* that of the page ...                                                    *)
PublishRow(i) ==
  /\ table[i].latest = "draft"
  /\ Becomes(i, [table[i] EXCEPT !.status = "published"])

(* Mutant of MarkVersion: the version is marked before the campaign.       *)
MarkVersionFirst(i) ==
  /\ table[i].latest = "draft"
  /\ Becomes(i, [table[i] EXCEPT !.latest = "published"])

(* ... and PublishCampaign marks the version at last.                      *)
MarkVersion(i) ==
  /\ table[i].status = "published" /\ table[i].latest = "draft"
  /\ Becomes(i, [table[i] EXCEPT !.latest = "published"])

CreateVersion(i) ==
  /\ table[i].latest = "published"
  /\ Becomes(i, [table[i] EXCEPT !.latest = "draft"])

(* The update of a landing page; that it is a draft was checked before,    *)
(* and may no longer be true.                                              *)
EditPage(i, l) ==
  /\ walk.left < MaxLeft
  /\ Becomes(i, [table[i] EXCEPT !.lang = l])

Tick == clock < MaxTime /\ clock' = clock + 1 /\ UNCHANGED <<table, walk, web>>

-----------------------------------------------------------------------------
(* Reading page by page.                                                   *)

(* ORDER BY id DESC LIMIT n OFFSET skip.                                   *)
Newest(S, skip, n) ==
  {i \in S : Cardinality({k \in S : k > i}) \in skip..(skip + n - 1)}

Clamp(size) == IF size < 1 THEN DefaultPageSize
               ELSE IF size > MaxPageSize THEN MaxPageSize ELSE size

(* Mutant of pageToOffsetLimit: pages counted from 0.                      *)
PagesFromZero(page, size) ==
  [offset |-> page * Clamp(size), limit |-> Clamp(size)]

pageToOffsetLimit(page, size) ==
  [offset |-> ((IF page < 1 THEN 1 ELSE page) - 1) * Clamp(size),
   limit |-> Clamp(size)]

(* landingPageRepository.List: no greatest page size.                      *)
LandingOffsetLimit(page, size) ==
  LET s == IF size < 1 THEN DefaultPageSize ELSE size
  IN [offset |-> ((IF page < 1 THEN 1 ELSE page) - 1) * s, limit |-> s]

StartWalk(l, f, s) ==
  /\ walk.pc = "idle"
  /\ l = "campaigns" => f.lang = None
  /\ walk' = [NoWalk EXCEPT !.pc = "find", !.list = l, !.filter = f, !.size = s,
                            !.owed = Matching(f)]
  /\ UNCHANGED <<table, clock, web>>

FindPage ==
  /\ walk.pc = "find"
  /\ LET campaigns == walk.list = "campaigns"
         p == IF campaigns THEN pageToOffsetLimit(walk.page, walk.size)
              ELSE LandingOffsetLimit(walk.page, walk.size)
     IN walk' = [walk EXCEPT
          !.pc = IF campaigns THEN "summaries" ELSE "read",
          !.found = Newest(Matching(walk.filter), p.offset, p.limit)]
  /\ UNCHANGED <<table, clock, web>>

(* The status of the newest version takes the place of the campaign's.     *)
campaignToListVO(i) == table[i].latest

LatestSummaries ==
  /\ walk.pc = "summaries"
  /\ walk' = [walk EXCEPT
       !.pc = "read",
       !.shown = {i \in walk.found : campaignToListVO(i) = "published"}]
  /\ UNCHANGED <<table, clock, web>>

(* The client has the page, and goes on until one is empty.  It cannot     *)
(* stop at a page shorter than it asked for: its size may have been        *)
(* capped.                                                                 *)
PageArrives ==
  IF walk.pc = "read"
  THEN walk' = [walk EXCEPT !.pc = IF walk.found = {} THEN "done" ELSE "find",
                            !.page = walk.page + 1,
                            !.seen = walk.seen \cup walk.found, !.found = {}]
  ELSE UNCHANGED walk

(* The page does not arrive: the client asks for it again.                 *)
PageLost == IF walk.pc \in {"summaries", "read"}
            THEN walk' = [walk EXCEPT !.pc = "find", !.found = {}]
            ELSE UNCHANGED walk

-----------------------------------------------------------------------------
(* The user's list.                                                        *)

FindPublished ==
  /\ web.pc # "found"
  /\ web' = [NoWeb EXCEPT !.pc = "found",
                          !.rows = Newest(Matching(Published), 0, WebLimit)]
  /\ UNCHANGED <<table, clock, walk>>

(* Mutant of classifyCampaignWindow: the last moment does not count.       *)
EndExcluded(now, w) ==
  IF w.start # None /\ now < w.start THEN "upcoming"
  ELSE IF w.end # None /\ now >= w.end THEN "ended" ELSE "ongoing"

(* In this order: a window that ends before it starts is upcoming, then    *)
(* ended.                                                                  *)
classifyCampaignWindow(now, w) ==
  IF w.start # None /\ now < w.start THEN "upcoming"
  ELSE IF w.end # None /\ now > w.end THEN "ended" ELSE "ongoing"

(* Titles and windows are those of the rows found before, the time is now. *)
AnswerWebList ==
  /\ web.pc = "found"
  /\ LET In(c) == {i \in web.rows : classifyCampaignWindow(clock, WindowOf[i]) = c}
     IN web' = [web EXCEPT !.pc = "answered", !.at = clock,
                           !.ongoing = In("ongoing"), !.upcoming = In("upcoming")]
  /\ UNCHANGED <<table, clock, walk>>

WebListLost == IF web.pc = "found" THEN web' = NoWeb ELSE UNCHANGED web

-----------------------------------------------------------------------------
(* Correctness.                                                            *)

ListTypeOK ==
  /\ table \in Seq(Row) /\ Len(table) <= MaxRows
  /\ clock \in Times /\ walk \in Walk /\ web \in Web

(* A list of a status other than draft, in any language, only grows.       *)
OnlyGrows(f) == f.status # "draft" /\ f.lang = None

(* A client that reads pages until one is empty has seen all rows that     *)
(* matched all the time, but for as many as rows left the list under it:   *)
(* each that leaves moves those behind it forward, the first of them to a  *)
(* page already read.  A list that only grows misses nothing, whatever is  *)
(* created and published meanwhile.                                        *)
MissedOnlyByLeaving ==
  walk.pc = "done" =>
    /\ Cardinality(walk.owed \ walk.seen) <= walk.left
    /\ OnlyGrows(walk.filter) => walk.owed \subseteq walk.seen

(* The list's two statements never call a campaign published that users    *)
(* cannot see yet.                                                         *)
ShownPublishedIsLive ==
  \A i \in walk.shown : table[i].status = "published"

(* The user sees as ongoing what has begun and has not ended, both ends    *)
(* included, as upcoming what has not begun, and always a live campaign;   *)
(* one that ends before it starts is never ongoing.                        *)
Begun(i)    == WindowOf[i].start = None \/ WindowOf[i].start <= web.at
NotEnded(i) == WindowOf[i].end = None \/ web.at <= WindowOf[i].end

ShownByWindow ==
  web.pc = "answered" =>
    /\ web.ongoing = {i \in web.rows : Begun(i) /\ NotEnded(i)}
    /\ web.upcoming = {i \in web.rows : ~Begun(i)}
    /\ web.rows \subseteq Matching(Published)
=============================================================================
