-------------------------------- MODULE WebApp --------------------------------
(***************************************************************************)
(* One browser tab of web/, the API behind it and the scanner that feeds   *)
(* it.  The router mounts a page when the route's component changes and    *)
(* reuses it when only the parameter does.  A page sends its request when  *)
(* it is mounted, the handler reads the database at some later moment, and *)
(* the answer arrives later still: the user may be elsewhere by then.      *)
(***************************************************************************)
EXTENDS Pages, Sequences

CONSTANTS MaxEntries    \* how much of the tab's history is remembered

ASSUME WebAppAssumption == MaxEntries \in Nat \ {0}

VARIABLES
    scans,          \* how many scans the database holds
    entries, pos,   \* the history of this document, and where the tab is in it
    page,           \* the mounted page
    late            \* the scan an answer tells of whose page is gone, while it is
                    \* on its way

place == <<entries, pos>>
vars == <<scans, place, page, late>>

Routes == NavItems \cup ItemRoutes
Address == entries[pos]

\* answer is what the handler has sent, since is a history variable: the scans
\* there were when the page was mounted.
NoAnswer == Outcome(ErrorObject(0), TRUE)
Page(route, loading, data, failed, answer, since) ==
    [page |-> route.page, item |-> route.item, loading |-> loading, data |-> data,
     failed |-> failed, answer |-> answer, since |-> since]

Outcomes == [data : Bodies, failed : BOOLEAN]
PageStates == [page : {r.page : r \in Routes}, item : {r.item : r \in Routes},
               loading : BOOLEAN, data : Bodies, failed : BOOLEAN,
               answer : Outcomes, since : ScanCounts]

NothingLate == -1

TypeOK ==
    /\ scans \in ScanCounts
    /\ entries \in Seq(Routes) /\ Len(entries) \in 1..MaxEntries
    /\ pos \in 1..Len(entries)
    /\ page \in PageStates /\ Route(page.page, page.item) \in Routes
    /\ late \in ScanCounts \cup {NothingLate}
    /\ page.page = Address.page
    /\ page.failed => ~page.loading

Mounted(route) == Page(route, TRUE, Initial, FALSE, NoAnswer, scans)

-----------------------------------------------------------------------------
(* Moving about.                                                           *)

\* The router within the document.  Of the page it leaves, only a request that
\* is still out remains; the latest that has been answered is remembered.
RouteTo(route) ==
    /\ IF route.page = page.page
       THEN UNCHANGED <<page, late>>
       ELSE /\ page' = Mounted(route)
            /\ late' = IF page.loading /\ page.answer # NoAnswer
                        THEN page.answer.data.scan ELSE late
    /\ UNCHANGED scans

\* A link; one to where the tab is already replaces the entry by itself.
Follow(route) ==
    /\ route \in Links(page) /\ route # Address
    /\ pos < MaxEntries
    /\ entries' = Append(SubSeq(entries, 1, pos), route)
    /\ pos' = pos + 1
    /\ RouteTo(route)

\* Back, forward, or any entry of the history's menu.
Jump(i) ==
    /\ i \in DOMAIN entries \ {pos}
    /\ pos' = i
    /\ entries' = entries
    /\ RouteTo(entries[i])

\* A document starts: nothing is in flight.
DocumentLoads(route) ==
    /\ page' = Mounted(route)
    /\ late' = NothingLate
    /\ UNCHANGED scans

\* An address typed, a bookmark, or a row of a table (location.href): whatever
\* other documents left in the history can be reached this way as well.
Open(route) ==
    /\ entries' = <<route>>
    /\ pos' = 1
    /\ DocumentLoads(route)

\* F5, or coming back to an entry from another document.
Reload(i) ==
    /\ i \in DOMAIN entries
    /\ pos' = i
    /\ entries' = entries
    /\ DocumentLoads(entries[i])

-----------------------------------------------------------------------------
(* Requests.                                                               *)

\* The handler of the page's request reads the database, or the connection
\* breaks before that.
Answer ==
    /\ page.loading /\ page.answer = NoAnswer
    /\ \E outcome \in Loads(page.page, page.item, scans) :
          page' = [page EXCEPT !.answer = outcome]
    /\ UNCHANGED <<scans, place, late>>

ArriveWithoutFinally ==
    /\ page.loading /\ page.answer # NoAnswer
    /\ page' = [page EXCEPT !.loading = (page.answer.data = Initial),
                            !.data = page.answer.data, !.failed = page.answer.failed]
    /\ UNCHANGED <<scans, place, late>>

\* try, catch and finally of the page's onMount.
Arrive ==
    /\ page.loading /\ page.answer # NoAnswer
    /\ page' = [page EXCEPT !.loading = FALSE, !.data = page.answer.data,
                            !.failed = page.answer.failed, !.answer = NoAnswer]
    /\ UNCHANGED <<scans, place, late>>

ArriveLateAnywhere ==
    /\ late # NothingLate
    /\ late' = NothingLate
    /\ page' = [page EXCEPT !.loading = FALSE, !.data = Array(late)]
    /\ UNCHANGED <<scans, place>>

\* The component that asked is destroyed: its variables are on no screen.
ArriveLate ==
    /\ late # NothingLate
    /\ late' = NothingLate
    /\ UNCHANGED <<scans, place, page>>

SaveScan ==
    /\ scans < MaxScans
    /\ scans' = scans + 1
    /\ UNCHANGED <<place, page, late>>

-----------------------------------------------------------------------------

Init ==
    /\ scans \in ScanCounts
    /\ \E route \in Routes : entries = <<route>> /\ page = Mounted(route)
    /\ pos = 1
    /\ late = NothingLate

Leave == (\E route \in Routes : Follow(route) \/ Open(route))
         \/ (\E i \in 1..MaxEntries : Jump(i) \/ Reload(i))

Next == Leave \/ Answer \/ Arrive \/ ArriveLate \/ SaveScan

\* A request is answered or its connection breaks; what has been answered arrives.
\* Nothing is assumed of the user or of the scanner.
FairSpec == Init /\ [][Next]_vars /\ WF_vars(Answer) /\ WF_vars(Arrive)

-----------------------------------------------------------------------------

\* A page that loads for ever is one the user keeps leaving: every other request
\* ends in data or in a failure, and either ends the loading.
PagesSettle == <>[]page.loading => []<><<Leave>>_vars

\* No page shows what was read before it was mounted: an answer that was on its
\* way to the page before it is not taken for its own.
ShownSinceMount ==
    ~page.loading /\ page.data # Initial => page.data.scan >= page.since

\* The page and the address in the bar name different things.
Misled == page.item # Address.item

\* Only a jump through the history, between two entries of one kind, leaves the
\* tab with a page that does not belong to its address; no link, address or
\* reload does, and the next of those ends it.
OnlyJumpsMislead ==
    [][Misled' => \/ Misled /\ UNCHANGED place
                  \/ \E i \in DOMAIN entries : Jump(i)]_vars

\* Otherwise a detail page shows the item of its address, unless the scan it
\* was answered from no longer lists it (then a namesake stands in).
ShownIsAddressed ==
    page.data.kind = "item" /\ ~Misled =>
        \/ page.data.item = Address.item
        \/ /\ page.page = "model"
           /\ Address.item \notin Listed(page.data.scan)
==============================================================================
