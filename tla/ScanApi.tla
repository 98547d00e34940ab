------------------------------- MODULE ScanApi -------------------------------
(***************************************************************************)
(* What api/main.py may answer, from the database of one moment.  A scan   *)
(* is committed in one transaction and its rows do not change after that,  *)
(* so the moment is known by the number of scans saved: every handler      *)
(* reads the last of them.  Each operator gives the set of answers of one  *)
(* endpoint, those of its exception handlers included.                     *)
(***************************************************************************)
EXTENDS Integers, FiniteSets

CONSTANTS
    Models,         \* model ids
    Slots,          \* the slots of the grid
    MaxScans,       \* how many scans are saved
    Catalogue,      \* the models the n-th scan lists
    Namesakes       \* for a model, those whose id ends in the same last segment

ASSUME ScanApiAssumption ==
    /\ MaxScans \in Nat
    /\ Catalogue \in [1..MaxScans -> SUBSET Models]
    /\ Namesakes \in [Models -> SUBSET Models]
    /\ "none" \notin Models \cup Slots

ScanCounts == 0..MaxScans

Listed(n) == IF n = 0 THEN {} ELSE Catalogue[n]

\* A body is a JSON array, an object that only holds an error, the latest scan
\* (or none), one item, or text; it says what it does as of the n-th scan.
NoItem == "none"
Body(kind, scan, item) == [kind |-> kind, scan |-> scan, item |-> item]
Array(n) == Body("array", n, NoItem)
ErrorObject(n) == Body("error", n, NoItem)
ScanReport(n) == Body("scan", n, NoItem)
NoScanYet(n) == Body("no scan", n, NoItem)
Item(n, item) == Body("item", n, item)
PatchText(n) == Body("text", n, NoItem)

Bodies == [kind : {"array", "error", "scan", "no scan", "item", "text", "own"},
           scan : ScanCounts, item : Models \cup Slots \cup {NoItem}]

\* A status outside 200-299, whatever it is.
Ok(body) == [ok |-> TRUE, body |-> body]
Refused == [ok |-> FALSE, body |-> Body("error", 0, NoItem)]

\* The lists answer an exception with 200 and an object, also when there is no
\* database: get_db's 503 is an exception like the others here.  How many items a
\* page asks for (20, 200) is left out.
ListModels(n) == {Ok(Array(n)), Ok(ErrorObject(n))}

ListSlots(n) == {Ok(Array(n)), Ok(ErrorObject(n))}

ScanHistory(n) == {Ok(Array(n)), Ok(ErrorObject(n))}

ListProviders(n) == {Ok(Array(n)), Ok(ErrorObject(n))}

GetModelLike(n, id) ==
    LET found == (Namesakes[id] \cup {id}) \cap Listed(n)
    IN  {Refused} \cup {Ok(Item(n, m)) : m \in found}

\* The model of that very id, or else any whose id ends like it.
GetModel(n, id) ==
    LET found == IF id \in Listed(n) THEN {id} ELSE Namesakes[id] \cap Listed(n)
    IN  {Refused} \cup {Ok(Item(n, m)) : m \in found}

GetSlot(n, slot) == {Refused} \cup (IF n = 0 THEN {} ELSE {Ok(Item(n, slot))})

\* Without a results file an exception is answered as if there were no scan;
\* with one, the fallback raises as well: the file holds a list.
GetLatestScan(n) ==
    {Refused, Ok(NoScanYet(n))} \cup (IF n = 0 THEN {} ELSE {Ok(ScanReport(n))})

ConfigPreview(n) == {Ok(PatchText(n))}
==============================================================================
