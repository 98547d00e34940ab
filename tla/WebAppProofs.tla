---------------------------- MODULE WebAppProofs ----------------------------
(***************************************************************************)
(* What holds of a tab for every catalogue, every number of scans and any  *)
(* length of history, whenever requests are answered and the user moves.   *)
(***************************************************************************)
EXTENDS WebApp, TLAPS

\* An item is the one asked for, or stands in for a model the scan left out.
ItemFits(b, name, item) ==
    b.kind = "item" => b.item = item \/ (name = "model" /\ item \notin Listed(b.scan))

\* A body the API sends when the n-th scan is the last.
BodyFits(b, name, item, n) ==
    b \in Bodies /\ b.scan = n /\ b.kind # "own" /\ ItemFits(b, name, item)

ReplyFits(r, name, item, n) ==
    r = Refused \/ (r.ok = TRUE /\ BodyFits(r.body, name, item, n))

\* What a page makes of a reply: nothing, or the body.
OutcomeFits(o, name, item, n) ==
    /\ o \in Outcomes /\ o # NoAnswer
    /\ o.data = Initial \/ BodyFits(o.data, name, item, n)

-----------------------------------------------------------------------------
(* The API and the pages.                                                  *)

LEMMA Parameters ==
    /\ MaxScans \in Nat
    /\ \A n \in 1..MaxScans : Catalogue[n] \subseteq Models
    /\ \A m \in Models : Namesakes[m] \subseteq Models
BY ScanApiAssumption DEF ScanApiAssumption

LEMMA ListedTyped ==
    ASSUME NEW n \in ScanCounts
    PROVE  Listed(n) \subseteq Models
BY Parameters DEF Listed, ScanCounts

\* Bodies without an item fit any page.
LEMMA PlainFits ==
    ASSUME NEW n \in ScanCounts, NEW name, NEW item,
           NEW kind \in {"array", "error", "scan", "no scan", "text"}
    PROVE  BodyFits(Body(kind, n, NoItem), name, item, n)
BY DEF Body, BodyFits, ItemFits, Bodies

LEMMA ItemBodyFits ==
    ASSUME NEW n \in ScanCounts, NEW name, NEW item, NEW m \in Models \cup Slots,
           m = item \/ (name = "model" /\ item \notin Listed(n))
    PROVE  BodyFits(Item(n, m), name, item, n)
BY DEF Item, Body, BodyFits, ItemFits, Bodies

\* The answer with an ok status to which no exception led.
LEMMA OkFits ==
    ASSUME NEW b, NEW name, NEW item, NEW n, BodyFits(b, name, item, n)
    PROVE  ReplyFits(Ok(b), name, item, n)
<1>1. Ok(b).ok = TRUE /\ Ok(b).body = b
  BY DEF Ok
<1>2. QED
  BY <1>1 DEF ReplyFits

LEMMA QuietFits ==
    ASSUME NEW r, NEW name, NEW item, NEW n, ReplyFits(r, name, item, n)
    PROVE  OutcomeFits(Quietly(r), name, item, n)
<1>1. Initial \in Bodies
  BY Parameters DEF Initial, Body, Bodies, ScanCounts
<1>2. CASE r = Refused
  <2>1. Quietly(r) = [data |-> Initial, failed |-> FALSE]
    BY <1>2 DEF Quietly, Api, Refused, Outcome
  <2>2. QED
    BY <1>1, <2>1 DEF OutcomeFits, Outcomes, NoAnswer, Outcome
<1>3. CASE r.ok = TRUE /\ BodyFits(r.body, name, item, n)
  <2>1. Quietly(r) = [data |-> r.body, failed |-> FALSE]
    BY <1>3 DEF Quietly, Api, Outcome
  <2>2. r.body \in Bodies
    BY <1>3 DEF BodyFits
  <2>3. QED
    BY <1>3, <2>1, <2>2 DEF OutcomeFits, Outcomes, NoAnswer, Outcome
<1>4. QED
  BY <1>2, <1>3 DEF ReplyFits

LEMMA LoudFits ==
    ASSUME NEW r, NEW name, NEW item, NEW n, ReplyFits(r, name, item, n)
    PROVE  OutcomeFits(Loudly(r), name, item, n)
<1>1. Initial \in Bodies /\ Initial # ErrorObject(0)
  BY Parameters DEF Initial, Body, Bodies, ScanCounts, ErrorObject
<1>2. CASE r = Refused
  <2>1. Loudly(r) = [data |-> Initial, failed |-> TRUE]
    BY <1>2 DEF Loudly, Api, Refused, Outcome
  <2>2. QED
    BY <1>1, <2>1 DEF OutcomeFits, Outcomes, NoAnswer, Outcome
<1>3. CASE r.ok = TRUE /\ BodyFits(r.body, name, item, n)
  <2>1. Loudly(r) = [data |-> r.body, failed |-> FALSE]
    BY <1>3 DEF Loudly, Api, Outcome
  <2>2. r.body \in Bodies
    BY <1>3 DEF BodyFits
  <2>3. QED
    BY <1>3, <2>1, <2>2 DEF OutcomeFits, Outcomes, NoAnswer, Outcome
<1>4. QED
  BY <1>2, <1>3 DEF ReplyFits

LEMMA ListRepliesFit ==
    ASSUME NEW n \in ScanCounts, NEW name, NEW item,
           NEW r \in Answers({Ok(Array(n)), Ok(ErrorObject(n))})
    PROVE  ReplyFits(r, name, item, n)
<1>1. BodyFits(Array(n), name, item, n) /\ BodyFits(ErrorObject(n), name, item, n)
  BY PlainFits DEF Array, ErrorObject
<1>2. r = Ok(Array(n)) \/ r = Ok(ErrorObject(n)) \/ r = Refused
  BY DEF Answers
<1>3. ReplyFits(Ok(Array(n)), name, item, n) /\ ReplyFits(Ok(ErrorObject(n)), name, item, n)
  BY <1>1, OkFits
<1>4. ReplyFits(Refused, name, item, n)
  BY Zenon DEF ReplyFits
<1>5. QED
  BY <1>2, <1>3, <1>4, Zenon

LEMMA ModelRepliesFit ==
    ASSUME NEW n \in ScanCounts, NEW id \in Models, NEW r \in Answers(GetModel(n, id))
    PROVE  ReplyFits(r, "model", id, n)
<1>1. CASE r = Refused
  BY <1>1 DEF ReplyFits
<1>2. CASE r # Refused
  <2>1. PICK m \in (IF id \in Listed(n) THEN {id} ELSE Namesakes[id] \cap Listed(n)) :
               r = Ok(Item(n, m))
    BY <1>2 DEF Answers, GetModel
  <2>2. m \in Models /\ (m = id \/ id \notin Listed(n))
    BY <2>1, ListedTyped
  <2>3. QED
    BY <2>1, <2>2, ItemBodyFits, OkFits
<1>3. QED
  BY <1>1, <1>2

LEMMA SlotRepliesFit ==
    ASSUME NEW n \in ScanCounts, NEW slot \in Slots, NEW r \in Answers(GetSlot(n, slot))
    PROVE  ReplyFits(r, "slot", slot, n)
<1>1. CASE r = Refused
  BY <1>1 DEF ReplyFits
<1>2. CASE r = Ok(Item(n, slot))
  BY <1>2, ItemBodyFits, OkFits
<1>3. QED
  BY <1>1, <1>2 DEF Answers, GetSlot

LEMMA OtherRepliesFit ==
    ASSUME NEW n \in ScanCounts, NEW name, NEW item,
           NEW r \in Answers(GetLatestScan(n)) \cup Answers(ConfigPreview(n))
    PROVE  ReplyFits(r, name, item, n)
<1>1. /\ BodyFits(ScanReport(n), name, item, n) /\ BodyFits(NoScanYet(n), name, item, n)
      /\ BodyFits(PatchText(n), name, item, n)
  BY PlainFits DEF ScanReport, NoScanYet, PatchText
<1>2. r = Ok(ScanReport(n)) \/ r = Ok(NoScanYet(n)) \/ r = Ok(PatchText(n)) \/ r = Refused
  BY DEF Answers, GetLatestScan, ConfigPreview
<1>3. /\ ReplyFits(Ok(ScanReport(n)), name, item, n) /\ ReplyFits(Ok(NoScanYet(n)), name, item, n)
      /\ ReplyFits(Ok(PatchText(n)), name, item, n)
  BY <1>1, OkFits
<1>4. ReplyFits(Refused, name, item, n)
  BY Zenon DEF ReplyFits
<1>5. QED
  BY <1>2, <1>3, <1>4, Zenon

NavPages == {"dashboard", "models", "slots", "compare", "latest", "history", "config",
             "providers"}

\* The addresses of the two detail pages carry an item, the others none.
LEMMA RoutesAre ==
    ASSUME NEW name, NEW item, Route(name, item) \in Routes
    PROVE  \/ name \in NavPages /\ item = NoItem
           \/ name = "model" /\ item \in Models
           \/ name = "slot" /\ item \in Slots
<1>1. CASE Route(name, item) \in NavItems
  BY <1>1 DEF NavItems, NavPages, To, Route
<1>2. CASE Route(name, item) \in ItemRoutes
  BY <1>2 DEF ItemRoutes, Route
<1>3. QED
  BY <1>1, <1>2 DEF Routes

\* Whatever page asks: what it keeps of the answer is what it was initialised
\* with, or what the handler read at that moment of what the page asked for.
LEMMA LoadsFit ==
    ASSUME NEW name, NEW item, Route(name, item) \in Routes, NEW n \in ScanCounts,
           NEW o \in Loads(name, item, n)
    PROVE  OutcomeFits(o, name, item, n)
<1>1. CASE name = "dashboard"
  <2>1. PICK r \in Answers(ListModels(n)) : o = Loudly(r)
    BY <1>1 DEF Loads, DashboardLoads
  <2>2. QED
    BY <2>1, ListRepliesFit, LoudFits DEF ListModels
<1>2. CASE name = "models" \/ name = "compare"
  <2>1. PICK r \in Answers(ListModels(n)) : o = Quietly(r)
    BY <1>2 DEF Loads, ModelsLoads, CompareLoads
  <2>2. QED
    BY <2>1, ListRepliesFit, QuietFits DEF ListModels
<1>3. CASE name = "slots"
  <2>1. PICK r \in Answers(ListSlots(n)) : o = Quietly(r)
    BY <1>3 DEF Loads, SlotsLoads
  <2>2. QED
    BY <2>1, ListRepliesFit, QuietFits DEF ListSlots
<1>4. CASE name = "history"
  <2>1. PICK r \in Answers(ScanHistory(n)) : o = Quietly(r)
    BY <1>4 DEF Loads, HistoryLoads
  <2>2. QED
    BY <2>1, ListRepliesFit, QuietFits DEF ScanHistory
<1>5. CASE name = "providers"
  <2>1. PICK r \in Answers(ListProviders(n)) : o = Quietly(r)
    BY <1>5 DEF Loads, ProvidersLoads
  <2>2. QED
    BY <2>1, ListRepliesFit, QuietFits DEF ListProviders
<1>6. CASE name = "latest"
  <2>1. PICK r \in Answers(GetLatestScan(n)) : o = Quietly(r)
    BY <1>6 DEF Loads, LatestLoads
  <2>2. QED
    BY <2>1, OtherRepliesFit, QuietFits
<1>7. CASE name = "config"
  <2>1. PICK r \in Answers(ConfigPreview(n)) : o = Quietly(r)
    BY <1>7 DEF Loads, ConfigLoads
  <2>2. QED
    BY <2>1, OtherRepliesFit, QuietFits
<1>8. CASE name = "model" /\ item \in Models
  <2>1. PICK r \in Answers(GetModel(n, item)) : o = Loudly(r)
    BY <1>8 DEF Loads, ModelLoads
  <2>2. QED
    BY <1>8, <2>1, ModelRepliesFit, LoudFits
<1>9. CASE name = "slot" /\ item \in Slots
  <2>1. PICK r \in Answers(GetSlot(n, item)) : o = Quietly(r)
    BY <1>9 DEF Loads, SlotLoads
  <2>2. QED
    BY <1>9, <2>1, SlotRepliesFit, QuietFits
<1>10. QED
  BY <1>1, <1>2, <1>3, <1>4, <1>5, <1>6, <1>7, <1>8, <1>9, RoutesAre DEF NavPages

-----------------------------------------------------------------------------
(* The tab.                                                                *)

\* What the page holds and what is on its way to it were read at or after its
\* mounting, and speak of its item.
HoldsFor(b) == b = Initial \/ (b.scan >= page.since /\ ItemFits(b, page.page, page.item))

PageInv ==
    /\ page.since <= scans
    /\ page.loading => page.data = Initial
    /\ HoldsFor(page.data)
    /\ page.answer # NoAnswer => HoldsFor(page.answer.data)

\* ShownSinceMount says of a page what PageInv says of its data; the answer on
\* its way and the page's own mounting are what a step needs to preserve it.
IInv == TypeOK /\ PageInv

LEMMA InitialTyped == Initial \in Bodies /\ NoAnswer \in Outcomes
BY Parameters DEF Initial, NoAnswer, Outcome, Outcomes, ErrorObject, Body, Bodies, ScanCounts

\* A page that was just mounted.
LEMMA MountedFits ==
    ASSUME NEW route \in Routes, scans \in ScanCounts
    PROVE  /\ Mounted(route) \in PageStates
           /\ Mounted(route).page = route.page /\ Mounted(route).item = route.item
           /\ Mounted(route).loading = TRUE /\ Mounted(route).failed = FALSE
           /\ Mounted(route).data = Initial /\ Mounted(route).answer = NoAnswer
           /\ Mounted(route).since = scans
<1>1. route.page \in {r.page : r \in Routes} /\ route.item \in {r.item : r \in Routes}
  OBVIOUS
<1>2. QED
  BY <1>1, InitialTyped DEF Mounted, Page, PageStates

LEMMA RouteOfItself ==
    ASSUME NEW route \in Routes
    PROVE  Route(route.page, route.item) = route
<1>1. \E name, item : route = Route(name, item)
  BY DEF Routes, NavItems, ItemRoutes, To
<1>2. PICK name, item : route = Route(name, item)
  BY <1>1
<1>3. route.page = name /\ route.item = item
  BY <1>2 DEF Route
<1>4. QED
  BY <1>2, <1>3

\* A document or a component starts at an address.
LEMMA MountsSound ==
    ASSUME NEW route \in Routes, scans \in ScanCounts,
           page' = Mounted(route), scans' = scans
    PROVE  /\ page' \in PageStates /\ Route(page'.page, page'.item) \in Routes
           /\ page'.page = route.page /\ page'.item = route.item
           /\ page'.failed => ~page'.loading
           /\ PageInv'
<1>1. page'.since = scans /\ page'.data = Initial /\ page'.answer = NoAnswer
  BY MountedFits
<1>2. PageInv'
  BY <1>1 DEF PageInv, HoldsFor, ScanCounts
<1>3. Route(page'.page, page'.item) \in Routes
  BY MountedFits, RouteOfItself
<1>4. QED
  BY <1>2, <1>3, MountedFits

\* The history after a link was followed.
LEMMA Appended ==
    ASSUME entries \in Seq(Routes), pos \in 1 .. Len(entries), NEW route \in Routes
    PROVE  /\ Append(SubSeq(entries, 1, pos), route) \in Seq(Routes)
           /\ Len(Append(SubSeq(entries, 1, pos), route)) = pos + 1
           /\ Append(SubSeq(entries, 1, pos), route)[pos + 1] = route
<1>1. SubSeq(entries, 1, pos) \in Seq(Routes) /\ Len(SubSeq(entries, 1, pos)) = pos
  OBVIOUS
<1>2. \A s \in Seq(Routes) : /\ Append(s, route) \in Seq(Routes)
                             /\ Len(Append(s, route)) = Len(s) + 1
                             /\ Append(s, route)[Len(s) + 1] = route
  OBVIOUS
<1>3. QED
  BY <1>1, <1>2

\* The router changes the page only together with its kind.
LEMMA RoutesSound ==
    ASSUME IInv, NEW route \in Routes, RouteTo(route)
    PROVE  /\ scans' = scans /\ late' \in ScanCounts \cup {NothingLate}
           /\ page' \in PageStates /\ Route(page'.page, page'.item) \in Routes
           /\ page'.page = route.page
           /\ page'.failed => ~page'.loading
           /\ PageInv'
<1>1. scans' = scans /\ scans \in ScanCounts /\ page \in PageStates
  BY DEF RouteTo, IInv, TypeOK
<1>2. CASE route.page = page.page
  <2>1. page' = page /\ late' = late
    BY <1>2 DEF RouteTo
  <2>2. PageInv'
    BY <1>1, <2>1 DEF IInv, PageInv, HoldsFor
  <2>3. QED
    BY <1>1, <1>2, <2>1, <2>2 DEF IInv, TypeOK
<1>3. CASE route.page # page.page
  <2>1. page' = Mounted(route)
    BY <1>3 DEF RouteTo
  <2>2. page.answer.data.scan \in ScanCounts
    BY <1>1 DEF PageStates, Outcomes, Bodies
  <2>3. late' \in ScanCounts \cup {NothingLate}
    BY <1>3, <2>2 DEF RouteTo, IInv, TypeOK
  <2>4. QED
    BY <1>1, <2>1, <2>3, MountsSound
<1>4. QED
  BY <1>2, <1>3

LEMMA FollowSound ==
    ASSUME IInv, NEW route \in Routes, Follow(route)
    PROVE  IInv'
<1>1. RouteTo(route) /\ pos < MaxEntries
  BY DEF Follow
<1>2. entries \in Seq(Routes) /\ pos \in 1 .. Len(entries) /\ Len(entries) \in 1..MaxEntries
  BY DEF IInv, TypeOK
<1>3. entries' = Append(SubSeq(entries, 1, pos), route) /\ pos' = pos + 1
  BY DEF Follow
<1>4. entries' \in Seq(Routes) /\ Len(entries') = pos' /\ entries'[pos'] = route
  BY <1>2, <1>3, Appended
<1>5. pos' \in 1..Len(entries') /\ Len(entries') \in 1..MaxEntries
  BY <1>1, <1>2, <1>3, <1>4, WebAppAssumption DEF WebAppAssumption
<1>6. Address' = route
  BY <1>4 DEF Address
<1>7. QED
  BY <1>1, <1>4, <1>5, <1>6, RoutesSound DEF IInv, TypeOK

LEMMA JumpSound ==
    ASSUME IInv, NEW i, Jump(i)
    PROVE  IInv'
<1>1. i \in 1 .. Len(entries) /\ entries[i] \in Routes
  BY DEF Jump, IInv, TypeOK
<1>2. entries' = entries /\ pos' = i /\ RouteTo(entries[i])
  BY DEF Jump
<1>3. Address' = entries[i]
  BY <1>2 DEF Address
<1>4. QED
  BY <1>1, <1>2, <1>3, RoutesSound DEF IInv, TypeOK

LEMMA StartSound ==
    ASSUME IInv, NEW route \in Routes, DocumentLoads(route), Address' = route,
           entries' \in Seq(Routes), Len(entries') \in 1..MaxEntries, pos' \in 1..Len(entries')
    PROVE  IInv'
<1>1. page' = Mounted(route) /\ scans' = scans /\ late' = NothingLate
  BY DEF DocumentLoads
<1>2. scans \in ScanCounts
  BY DEF IInv, TypeOK
<1>3. QED
  BY <1>1, <1>2, MountsSound DEF IInv, TypeOK

LEMMA OpenSound ==
    ASSUME IInv, NEW route \in Routes, Open(route)
    PROVE  IInv'
<1>1. DocumentLoads(route) /\ entries' = <<route>> /\ pos' = 1
  BY DEF Open
<1>2. <<route>> \in Seq(Routes) /\ Len(<<route>>) = 1 /\ <<route>>[1] = route
  OBVIOUS
<1>3. 1 \in 1..MaxEntries
  BY WebAppAssumption DEF WebAppAssumption
<1>4. Address' = route
  BY <1>1, <1>2 DEF Address
<1>5. QED
  BY <1>1, <1>2, <1>3, <1>4, StartSound

LEMMA ReloadSound ==
    ASSUME IInv, NEW i, Reload(i)
    PROVE  IInv'
<1>1. i \in 1 .. Len(entries) /\ entries[i] \in Routes
  BY DEF Reload, IInv, TypeOK
<1>2. DocumentLoads(entries[i]) /\ entries' = entries /\ pos' = i
  BY DEF Reload
<1>3. Address' = entries[i]
  BY <1>2 DEF Address
<1>4. QED
  BY <1>1, <1>2, <1>3, StartSound DEF IInv, TypeOK

LEMMA AnswerSound ==
    ASSUME IInv, Answer
    PROVE  IInv'
<1>1. PICK o \in Loads(page.page, page.item, scans) : page' = [page EXCEPT !.answer = o]
  BY DEF Answer
<1>2. page \in PageStates /\ Route(page.page, page.item) \in Routes /\ scans \in ScanCounts
  BY DEF IInv, TypeOK
<1>3. OutcomeFits(o, page.page, page.item, scans)
  BY <1>2, LoadsFit
<1>4. UNCHANGED <<scans, entries, pos, late>>
  BY DEF Answer, place
<1>5. /\ page' \in PageStates /\ page'.answer = o
      /\ page'.page = page.page /\ page'.item = page.item /\ page'.loading = page.loading
      /\ page'.data = page.data /\ page'.failed = page.failed /\ page'.since = page.since
  BY <1>1, <1>2, <1>3 DEF OutcomeFits, PageStates
<1>6. TypeOK'
  BY <1>4, <1>5 DEF IInv, TypeOK, Address
<1>7. HoldsFor(o.data)
  BY <1>2, <1>3 DEF OutcomeFits, BodyFits, HoldsFor, IInv, PageInv, PageStates, ScanCounts
<1>8. PageInv'
  BY <1>4, <1>5, <1>7 DEF IInv, PageInv, HoldsFor
<1>9. QED
  BY <1>6, <1>8 DEF IInv

LEMMA ArriveSound ==
    ASSUME IInv, Arrive
    PROVE  IInv'
<1>1. page \in PageStates /\ page.answer # NoAnswer
  BY DEF IInv, TypeOK, Arrive
<1>2. UNCHANGED <<scans, entries, pos, late>>
  BY DEF Arrive, place
<1>3. /\ page' \in PageStates /\ page'.answer = NoAnswer
      /\ page'.page = page.page /\ page'.item = page.item /\ page'.loading = FALSE
      /\ page'.data = page.answer.data /\ page'.since = page.since
  BY <1>1, InitialTyped DEF Arrive, PageStates, Outcomes
<1>4. TypeOK'
  BY <1>2, <1>3 DEF IInv, TypeOK, Address
<1>5. PageInv'
  BY <1>1, <1>2, <1>3 DEF IInv, PageInv, HoldsFor
<1>6. QED
  BY <1>4, <1>5 DEF IInv

LEMMA OthersSound ==
    ASSUME IInv, ArriveLate \/ SaveScan \/ UNCHANGED vars
    PROVE  IInv'
<1>1. UNCHANGED <<entries, pos, page>>
  BY DEF ArriveLate, SaveScan, vars, place
<1>2. scans' \in ScanCounts /\ scans' >= scans
  BY Parameters DEF ArriveLate, SaveScan, vars, IInv, TypeOK, ScanCounts
<1>3. late' \in ScanCounts \cup {NothingLate}
  BY DEF ArriveLate, SaveScan, vars, IInv, TypeOK
<1>4. TypeOK'
  BY <1>1, <1>2, <1>3 DEF IInv, TypeOK, Address
<1>5. page.since \in ScanCounts /\ scans \in ScanCounts
  BY DEF IInv, TypeOK, PageStates
<1>6. PageInv'
  BY <1>1, <1>2, <1>5 DEF IInv, PageInv, HoldsFor, ScanCounts
<1>7. QED
  BY <1>4, <1>6 DEF IInv

LEMMA Inductive == IInv /\ [Next]_vars => IInv'
BY FollowSound, JumpSound, OpenSound, ReloadSound, AnswerSound, ArriveSound, OthersSound
   DEF Next, Leave

LEMMA InitSound == Init => IInv
<1> SUFFICES ASSUME Init PROVE IInv
  OBVIOUS
<1>1. PICK route \in Routes : entries = <<route>> /\ page = Mounted(route)
  BY DEF Init
<1>2. scans \in ScanCounts /\ pos = 1 /\ late = NothingLate
  BY DEF Init
<1>3. entries \in Seq(Routes) /\ Len(entries) = 1 /\ entries[1] = route
  BY <1>1
<1>4. 1 \in 1..MaxEntries
  BY WebAppAssumption DEF WebAppAssumption
<1>5. /\ page \in PageStates /\ page.page = route.page /\ page.item = route.item
      /\ page.loading = TRUE /\ page.failed = FALSE
      /\ page.data = Initial /\ page.answer = NoAnswer /\ page.since = scans
  BY <1>1, <1>2, MountedFits
<1>6. Route(page.page, page.item) \in Routes
  BY <1>5, RouteOfItself
<1>7. TypeOK
  BY <1>2, <1>3, <1>4, <1>5, <1>6 DEF TypeOK, Address
<1>8. PageInv
  BY <1>2, <1>5 DEF PageInv, HoldsFor, ScanCounts
<1>9. QED
  BY <1>7, <1>8 DEF IInv

\* Every page has what it holds from its own mounting and for its own item.
THEOREM InvariantHolds == FairSpec => []IInv
BY InitSound, Inductive, PTL DEF FairSpec

\* Type correctness, and the page is always of the kind its address names.
THEOREM TypeCorrect == FairSpec => []TypeOK
<1>1. IInv => TypeOK
  BY DEF IInv
<1>2. QED
  BY <1>1, InvariantHolds, PTL

\* No page takes an answer for its own that was sent to an earlier one.
THEOREM NothingOlderIsShown == FairSpec => []ShownSinceMount
<1>1. IInv => ShownSinceMount
  BY DEF IInv, PageInv, HoldsFor, ShownSinceMount
<1>2. QED
  BY <1>1, InvariantHolds, PTL

\* As long as no jump misled it, a detail page shows the item of its address or
\* a namesake of a model the scan left out.
THEOREM AddressIsShown == FairSpec => []ShownIsAddressed
<1>1. IInv => ShownIsAddressed
  <2> SUFFICES ASSUME IInv, page.data.kind = "item", page.item = Address.item
               PROVE  \/ page.data.item = Address.item
                      \/ page.page = "model" /\ Address.item \notin Listed(page.data.scan)
    BY DEF ShownIsAddressed, Misled
  <2>1. page.data # Initial
    BY DEF Initial, Body
  <2>2. QED
    BY <2>1 DEF IInv, PageInv, HoldsFor, ItemFits
<1>2. QED
  BY <1>1, InvariantHolds, PTL

-----------------------------------------------------------------------------
(* Misleading steps.                                                       *)

\* No page links to another item of its own kind.
LEMMA NoSiblings ==
    ASSUME NEW route \in Links(page), route.page = page.page
    PROVE  route.page \in NavPages /\ route.item = NoItem
<1>1. CASE route \in NavItems
  BY <1>1 DEF NavItems, NavPages, To, Route
<1>2. CASE route \in DashboardLinks(page)
  <2>1. page.page = "dashboard"
    BY <1>2 DEF DashboardLinks
  <2>2. route.page = "model"
    BY <1>2 DEF DashboardLinks, Route
  <2>3. QED
    BY <2>1, <2>2
<1>3. CASE route \in SlotsLinks(page)
  <2>1. page.page = "slots"
    BY <1>3 DEF SlotsLinks
  <2>2. route.page = "slot"
    BY <1>3 DEF SlotsLinks, Route
  <2>3. QED
    BY <2>1, <2>2
<1>4. QED
  BY <1>1, <1>2, <1>3 DEF Links

LEMMA FollowLeads ==
    ASSUME IInv, NEW route \in Routes, Follow(route)
    PROVE  ~Misled'
<1>1. entries \in Seq(Routes) /\ pos \in 1 .. Len(entries) /\ Route(page.page, page.item) \in Routes
  BY DEF IInv, TypeOK
<1>2. Address' = route
  BY <1>1, Appended DEF Follow, Address
<1>3. CASE route.page = page.page
  <2>1. page' = page /\ route \in Links(page)
    BY <1>3 DEF Follow, RouteTo
  <2>2. route.item = NoItem /\ page.page \in NavPages
    BY <1>3, <2>1, NoSiblings
  <2>3. page.item = NoItem
    BY <1>1, <2>2, RoutesAre DEF NavPages
  <2>4. QED
    BY <1>2, <2>1, <2>2, <2>3 DEF Misled
<1>4. CASE route.page # page.page
  <2>1. page' = Mounted(route)
    BY <1>4 DEF Follow, RouteTo
  <2>2. page'.item = route.item
    BY <2>1, MountedFits DEF IInv, TypeOK
  <2>3. QED
    BY <1>2, <2>2 DEF Misled
<1>5. QED
  BY <1>3, <1>4

LEMMA StartLeads ==
    ASSUME IInv, NEW route \in Routes, DocumentLoads(route), Address' = route
    PROVE  ~Misled'
<1>1. page' = Mounted(route) /\ scans \in ScanCounts
  BY DEF DocumentLoads, IInv, TypeOK
<1>2. page'.item = route.item
  BY <1>1, MountedFits
<1>3. QED
  BY <1>2 DEF Misled

\* Only a jump between two entries of one kind leads to a page that does not
\* belong to its address; links, addresses typed and reloads do not.
THEOREM JumpsMislead == FairSpec => OnlyJumpsMislead
<1>1. IInv /\ [Next]_vars => [Misled' => \/ Misled /\ UNCHANGED place
                                         \/ \E i \in DOMAIN entries : Jump(i)]_vars
  <2> SUFFICES ASSUME IInv, Next, Misled'
               PROVE  (Misled /\ UNCHANGED place) \/ \E i \in DOMAIN entries : Jump(i)
    OBVIOUS
  <2>1. ASSUME NEW route \in Routes, Follow(route)
        PROVE  FALSE
    BY <2>1, FollowLeads
  <2>2. ASSUME NEW route \in Routes, Open(route)
        PROVE  FALSE
    <3>1. DocumentLoads(route) /\ entries' = <<route>> /\ pos' = 1
      BY <2>2 DEF Open
    <3>2. Address' = route
      BY <3>1 DEF Address
    <3>3. QED
      BY <3>1, <3>2, StartLeads
  <2>3. ASSUME NEW i, Reload(i)
        PROVE  FALSE
    <3>1. DocumentLoads(entries[i]) /\ entries' = entries /\ pos' = i
      BY <2>3 DEF Reload
    <3>2. entries[i] \in Routes
      BY <2>3 DEF Reload, IInv, TypeOK
    <3>3. Address' = entries[i]
      BY <3>1 DEF Address
    <3>4. QED
      BY <3>1, <3>2, <3>3, StartLeads
  <2>4. ASSUME NEW i, Jump(i)
        PROVE  \E j \in DOMAIN entries : Jump(j)
    BY <2>4 DEF Jump
  <2>5. CASE Answer \/ Arrive \/ ArriveLate \/ SaveScan
    <3>1. UNCHANGED place
      BY <2>5 DEF Answer, Arrive, ArriveLate, SaveScan
    <3>2. page'.item = page.item
      BY <2>5 DEF Answer, Arrive, ArriveLate, SaveScan, IInv, TypeOK, PageStates
    <3>3. QED
      BY <3>1, <3>2 DEF Misled, Address, place
  <2>6. QED
    BY <2>1, <2>2, <2>3, <2>4, <2>5 DEF Next, Leave
<1>2. QED
  BY <1>1, InvariantHolds, PTL DEF FairSpec, OnlyJumpsMislead
==============================================================================
