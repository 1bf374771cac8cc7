------------------------------ MODULE MCServer ------------------------------
(* An instance of Server: every operation with traffic of its own, the     *)
(* lists while rows change, uploads, and a consumer.                       *)
EXTENDS Server, TLC

CONSTANTS r1, r2, png, text, big, empty

MCWindowOf == <<[start |-> 1, end |-> 1], [start |-> None, end |-> None],
                [start |-> 2, end |-> 1]>>
MCByExtension == [a_png |-> "png", notes |-> Nothing]
MCSniffed == (png :> "png") @@ (text :> "text") @@ (big :> "png") @@ (empty :> "text")

Query(f, s) == [filter |-> f, size |-> s]

(* Sizes that are absent, capped and, for landing pages, not capped.       *)
MCQueries(op) ==
  CASE op = "AdminListCampaigns" ->
         {Query(Unfiltered, 0), Query(Unfiltered, 3), Query(Published, 3),
          Query([Unfiltered EXCEPT !.status = "draft"], 0)}
    [] op = "AdminListLandingPages" ->
         {Query([Unfiltered EXCEPT !.status = "draft"], 0),
          Query([Unfiltered EXCEPT !.lang = "en"], 0), Query(Published, 3)}
    [] OTHER -> {}

Deployment(t, kafka, keys) ==
  [traffic |-> t, kafka |-> kafka, keys |-> keys, calm |-> FALSE, slots |-> Slots,
   queries |-> {}]

MCDeployments ==
  {Deployment({op}, FALSE, FALSE) : op \in Operations \ Stepwise}
  \cup {[Deployment({op}, FALSE, FALSE) EXCEPT !.calm = TRUE, !.slots = {r1},
                                              !.queries = MCQueries(op)] :
          op \in ListOps}
  \cup {Deployment({"AdminUploadImage"}, FALSE, keys) : keys \in BOOLEAN}
  \cup {Deployment({"UserJoinCampaign", "UserGetCampaignRules"}, TRUE, FALSE)}
=============================================================================
