----------------------------- MODULE FileReplace -----------------------------
(***************************************************************************)
(* How the published files are written: to a temporary file beside the     *)
(* target, which then takes its name.  routing_snapshot.py gets a name of  *)
(* its own from mkstemp and syncs the file; quota_meter.py,                *)
(* gateway_bridge.py and adaptive_limiter.py append ".tmp" to the target's *)
(* name and do not sync.  An open file follows the file, not the name.     *)
(***************************************************************************)
CONSTANTS
    Writers,    \* processes that write the same target at the same time
    Values,     \* the documents they write
    Nothing,    \* no file
    Empty,      \* a file just opened for writing
    Mixed,      \* parts of two documents
    TmpOf,      \* the temporary name of each writer
    Syncs,      \* whether a writer syncs before it renames, and cleans up
    PowerFails  \* whether the host may lose power

ASSUME FileReplaceAssumption ==
    /\ Values \cap {Nothing, Empty, Mixed} = {}
    /\ Nothing \notin {Empty, Mixed}
    /\ DOMAIN TmpOf = Writers
    /\ Syncs \in BOOLEAN /\ PowerFails \in BOOLEAN

Names == {TmpOf[w] : w \in Writers}
Contents == Values \cup {Nothing, Empty, Mixed}

VARIABLES
    target,     \* what a reader of the target finds
    tmp,        \* what each temporary name holds
    durable,    \* whether the target's content is on the disk
    place,      \* where each writer's open file is by now
    pc,
    doc         \* the document each writer has in hand

fileVars == <<target, tmp, durable, place, pc, doc>>

FileTypeOK ==
    /\ target \in Contents
    /\ tmp \in [Names -> Contents]
    /\ durable \in BOOLEAN
    /\ place \in [Writers -> {"tmp", "target", "gone"}]
    /\ pc \in [Writers -> {"idle", "opened", "written"}]
    /\ doc \in [Writers -> Values \cup {Nothing}]
    /\ \A w \in Writers : pc[w] = "idle" <=> doc[w] = Nothing

-----------------------------------------------------------------------------
(* One write *)

\* Opening a name that is still there empties the file it names.
Open(w) ==
    /\ pc[w] = "idle"
    /\ \E v \in Values : doc' = [doc EXCEPT ![w] = v]
    /\ tmp' = [tmp EXCEPT ![TmpOf[w]] = Empty]
    /\ place' = [place EXCEPT ![w] = "tmp"]
    /\ pc' = [pc EXCEPT ![w] = "opened"]
    /\ UNCHANGED <<target, durable>>

\* What a write at the start of a file may leave: over an empty file the document,
\* over what another writer put there perhaps the tail of the longer one.
Over(old, v) == IF old = Empty THEN {v} ELSE {v, Mixed}

\* The document goes to the file, under whichever name that is by now.
Write(w) ==
    /\ pc[w] = "opened"
    /\ CASE place[w] = "tmp" ->
              /\ \E c \in Over(tmp[TmpOf[w]], doc[w]) : tmp' = [tmp EXCEPT ![TmpOf[w]] = c]
              /\ UNCHANGED <<target, durable>>
         [] place[w] = "target" ->
              /\ target' \in Over(target, doc[w])
              /\ durable' = FALSE
              /\ UNCHANGED tmp
         [] place[w] = "gone" -> UNCHANGED <<target, tmp, durable>>
    /\ pc' = [pc EXCEPT ![w] = "written"]
    /\ UNCHANGED <<place, doc>>

Done(w) ==
    /\ pc' = [pc EXCEPT ![w] = "idle"]
    /\ doc' = [doc EXCEPT ![w] = Nothing]

\* The other open files move along with their names.
Moved(w) ==
    [x \in Writers |->
        CASE x = w \/ place[x] = "target" -> "gone"
          [] x # w /\ place[x] = "tmp" ->
                 IF TmpOf[x] = TmpOf[w] THEN "target" ELSE "tmp"
          [] OTHER -> "gone"]

RenameUnwritten(w) ==
    /\ pc[w] # "idle"
    /\ target' = tmp[TmpOf[w]]
    /\ tmp' = [tmp EXCEPT ![TmpOf[w]] = Nothing]
    /\ durable' = Syncs
    /\ place' = Moved(w)
    /\ Done(w)

\* The temporary name becomes the target, unless another writer already took it
\* away: FileNotFoundError.
Rename(w) ==
    /\ pc[w] = "written"
    /\ IF tmp[TmpOf[w]] = Nothing
       THEN UNCHANGED <<target, tmp, durable, place>>
       ELSE /\ target' = tmp[TmpOf[w]]
            /\ tmp' = [tmp EXCEPT ![TmpOf[w]] = Nothing]
            /\ durable' = Syncs
            /\ place' = Moved(w)
    /\ Done(w)

-----------------------------------------------------------------------------
(* What may happen in between *)

AbortUnlinksTarget(w) ==
    /\ Syncs /\ pc[w] # "idle"
    /\ target' = Nothing
    /\ Done(w)
    /\ UNCHANGED <<tmp, durable, place>>

\* An exception: write_snapshot unlinks its temporary file.
Abort(w) ==
    /\ Syncs /\ pc[w] # "idle"
    /\ tmp' = [tmp EXCEPT ![TmpOf[w]] = Nothing]
    /\ Done(w)
    /\ UNCHANGED <<target, durable, place>>

\* The process is killed, and its temporary file stays where it is.
Die(w) ==
    /\ pc[w] # "idle"
    /\ Done(w)
    /\ UNCHANGED <<target, tmp, durable, place>>

\* The host loses power: of what was not synced only the name may be left.
PowerLoss ==
    /\ PowerFails
    /\ target' \in IF durable THEN {target} ELSE {target, Empty}
    /\ durable' = TRUE
    /\ tmp' = [n \in Names |-> IF tmp[n] = Nothing THEN Nothing ELSE Empty]
    /\ place' = [w \in Writers |-> "gone"]
    /\ pc' = [w \in Writers |-> "idle"]
    /\ doc' = [w \in Writers |-> Nothing]

FileInit ==
    /\ target = Nothing /\ durable = TRUE
    /\ tmp = [n \in Names |-> Nothing]
    /\ place = [w \in Writers |-> "gone"]
    /\ pc = [w \in Writers |-> "idle"]
    /\ doc = [w \in Writers |-> Nothing]

FileNext ==
    \/ \E w \in Writers : Open(w) \/ Write(w) \/ Rename(w) \/ Abort(w) \/ Die(w)
    \/ PowerLoss

FileSpec == FileInit /\ [][FileNext]_fileVars

-----------------------------------------------------------------------------
(* Properties *)

\* "Atomically write": whatever the other writers are doing, and after any crash,
\* a reader finds no file or one whole document.
WholeOrNothing == target \notin {Empty, Mixed}

\* Each write takes effect at one instant or not at all, and in full.
Register == INSTANCE AtomicFile WITH content <- target, hand <- doc
WritesAreAtomic == Register!Spec
===============================================================================
