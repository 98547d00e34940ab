-------------------------------- MODULE Pages --------------------------------
(***************************************************************************)
(* The pages of web/: what each asks for when it is mounted, what it keeps *)
(* of the answer, and what it then shows.  All of them start by loading    *)
(* and send one request; they differ in what they do with a failure.       *)
(*                                                                         *)
(* A mounted page is a record                                              *)
(*   page, item   which component, and the parameter it was mounted with   *)
(*   loading      as in the source                                         *)
(*   data         models, model, slots, slot, history, ... of the source   *)
(*   failed       error is set (only two pages have it)                    *)
(***************************************************************************)
EXTENDS ScanApi

Route(page, item) == [page |-> page, item |-> item]
To(page) == Route(page, NoItem)

ItemRoutes == {Route("model", m) : m \in Models} \cup {Route("slot", s) : s \in Slots}

\* An empty list or null, as the script initialises it: the page was told nothing.
Initial == Body("own", 0, NoItem)
Outcome(data, failed) == [data |-> data, failed |-> failed]

\* A refused connection is thrown by fetch, any bad status by api() itself.
Answers(replies) == replies \cup {Refused}
Api(reply) == reply.ok

\* catch {}: the page keeps what it was initialised with.
Quietly(reply) == Outcome(IF Api(reply) THEN reply.body ELSE Initial, FALSE)

\* catch (e) { error = ... }
Loudly(reply) == Outcome(IF Api(reply) THEN reply.body ELSE Initial, ~Api(reply))

DashboardLoads(n) == {Loudly(r) : r \in Answers(ListModels(n))}
ModelsLoads(n) == {Quietly(r) : r \in Answers(ListModels(n))}
ModelLoads(n, id) == {Loudly(r) : r \in Answers(GetModel(n, id))}
CompareLoads(n) == {Quietly(r) : r \in Answers(ListModels(n))}
SlotsLoads(n) == {Quietly(r) : r \in Answers(ListSlots(n))}
SlotLoads(n, slot) == {Quietly(r) : r \in Answers(GetSlot(n, slot))}
LatestLoads(n) == {Quietly(r) : r \in Answers(GetLatestScan(n))}
HistoryLoads(n) == {Quietly(r) : r \in Answers(ScanHistory(n))}
ProvidersLoads(n) == {Quietly(r) : r \in Answers(ListProviders(n))}

\* The text of the error becomes the patch, which is nothing the API said either.
ConfigLoads(n) == {Quietly(r) : r \in Answers(ConfigPreview(n))}

\* The outcomes of a page's one request when the handler reads the n-th scan.
Loads(page, item, n) ==
    CASE page = "dashboard" -> DashboardLoads(n)
      [] page = "models" -> ModelsLoads(n)
      [] page = "model" -> ModelLoads(n, item)
      [] page = "compare" -> CompareLoads(n)
      [] page = "slots" -> SlotsLoads(n)
      [] page = "slot" -> SlotLoads(n, item)
      [] page = "latest" -> LatestLoads(n)
      [] page = "history" -> HistoryLoads(n)
      [] page = "providers" -> ProvidersLoads(n)
      [] page = "config" -> ConfigLoads(n)

-----------------------------------------------------------------------------
(* What is on the screen: a placeholder, an error, a sentence that there is *)
(* nothing, a part that failed to render, or things.                        *)

Screen(says, things) == [says |-> says, things |-> things]
Skeleton == Screen("skeleton", {})
Failure == Screen("failure", {})
NothingThere == Screen("nothing", {})
Broken == Screen("broken", {})
Shown(things) == Screen("things", things)

\* Without data the four cards say 0; an error object has no filter().
DashboardShows(p) ==
    IF p.loading THEN Skeleton
    ELSE IF p.failed THEN Failure
    ELSE IF p.data.kind = "error" THEN Broken
    ELSE Shown(Listed(p.data.scan))

\* {models.length} total models, and no row (see WebControls).
ModelsShows(p) ==
    IF p.loading THEN Skeleton
    ELSE IF p.data.kind = "error" THEN Broken
    ELSE Shown({})

ModelShows(p) ==
    IF p.loading THEN Skeleton
    ELSE IF p.failed THEN Failure
    ELSE Shown({p.data.item})

\* Nothing is selected yet: the prompt to search.
CompareShows(p) == IF p.loading THEN Skeleton ELSE NothingThere

\* {#each} over an error object: no slot.
SlotsShows(p) ==
    IF p.loading THEN Skeleton
    ELSE Shown(IF p.data.kind = "array" THEN Slots ELSE {})

SlotShows(p) ==
    IF p.loading THEN Skeleton
    ELSE IF p.data = Initial THEN NothingThere
    ELSE Shown({p.data.item})

LatestShows(p) ==
    IF p.loading THEN Skeleton
    ELSE IF p.data.kind # "scan" THEN NothingThere
    ELSE Shown(Listed(p.data.scan))

\* An error object has no length, so it does not count as the empty list.
ListShows(p, rows) ==
    IF p.loading THEN Skeleton
    ELSE IF p.data.kind = "error" THEN Shown({})
    ELSE IF rows = {} THEN NothingThere
    ELSE Shown(rows)

\* One row per scan.
HistoryShows(p) == ListShows(p, 1..p.data.scan)

\* A card per provider of the models listed.
ProvidersShows(p) == ListShows(p, Listed(p.data.scan))

ConfigShows(p) == IF p.loading THEN Skeleton ELSE Shown({p.data.scan})

-----------------------------------------------------------------------------
(* Links that the router follows within the document.                      *)

NavItems == {To("dashboard"), To("models"), To("slots"), To("compare"), To("latest"),
             To("history"), To("config"), To("providers")}

\* The five best models, as the API orders them: which ones is left open.
DashboardLinks(p) ==
    LET shown == IF p.page = "dashboard" THEN DashboardShows(p).things ELSE {}
    IN  {Route("model", m) : m \in shown}

SlotsLinks(p) ==
    LET shown == IF p.page = "slots" THEN SlotsShows(p).things ELSE {}
    IN  {Route("slot", s) : s \in shown}

LinksToSiblings(p) ==
    NavItems \cup DashboardLinks(p) \cup SlotsLinks(p)
        \cup (IF p.page = "model" THEN {Route("model", m) : m \in Models} ELSE {})

\* The ways back lead where the sidebar leads.
Links(p) == NavItems \cup DashboardLinks(p) \cup SlotsLinks(p)
==============================================================================
