------------------------------ MODULE ScanRun -------------------------------
(***************************************************************************)
(* Scans and the bad-model list (dink.py).  A scan loads bad_models.json,  *)
(* lists the catalogues, leaves out the models that failed for good five   *)
(* times within seven days, probes the others at the same time, records    *)
(* every outcome in the copy it loaded and writes that copy back, minutes  *)
(* later and in place.  Another scan, --rehabilitate and --clear-cache     *)
(* work on the same file without a lock.                                   *)
(***************************************************************************)
EXTENDS Integers, Sequences, FiniteSets, Functions

CONSTANTS
    Processes,       \* concurrent invocations of the program
    Models, Blocklist,
    Alternates,      \* models with a second endpoint (OCGO_ANTHROPIC_MODELS)
    Window,          \* ROLLING_WINDOW_DAYS, in units of Tick
    Threshold,       \* BAD_THRESHOLD
    MaxKept,         \* failures kept per model, 30 in the code
    NoFile, Torn,    \* no file; a file that does not parse
    Legacy           \* the plain integer of the list's former format

ASSUME ScanAssumption ==
    /\ Blocklist \subseteq Models /\ Alternates \subseteq Models
    /\ Window \in Nat \ {0} /\ Threshold \in Nat \ {0}
    /\ MaxKept \in Nat /\ MaxKept >= Threshold

VARIABLES
    file,    \* bad_models.json
    pc,      \* process -> step
    bad,     \* process -> the list it holds
    listed,  \* process -> candidates it is probing
    seen     \* ghost: model -> age -> permanent failures recorded (capped)

vars == <<file, pc, bad, listed, seen>>

Failure == [permanent : BOOLEAN, age : 0..Window]

Verdicts == {"accessible", "permanent", "passing", "lost"}

Empty == [m \in {} |-> <<>>]

IsList(b, values) ==
    /\ DOMAIN b \subseteq Models
    /\ \A m \in DOMAIN b : b[m] \in values

TypeOK ==
    /\ \/ file \in {NoFile, Torn}
       \/ IsList(file, Seq(Failure) \cup {Legacy})
    /\ pc \in [Processes -> {"idle", "loaded", "probing", "save", "saving",
                             "migrate", "migrating"}]
    /\ DOMAIN bad = Processes
    /\ \A r \in Processes :
          /\ IsList(bad[r], Seq(Failure))
          /\ \A m \in DOMAIN bad[r] : Len(bad[r][m]) <= MaxKept
    /\ listed \in [Processes -> SUBSET (Models \ Blocklist)]
    /\ seen \in [Models -> [0..Window - 1 -> 0..Threshold]]

-----------------------------------------------------------------------------
(* The list *)

IsParsed(f) == f \notin {NoFile, Torn}

HasLegacy(f) == IsParsed(f) /\ \E m \in DOMAIN f : f[m] = Legacy

\* load_bad: whatever does not parse is an empty list, an integer no failures.
Loaded(f) ==
    IF IsParsed(f) THEN [m \in DOMAIN f |-> IF f[m] = Legacy THEN <<>> ELSE f[m]]
    ELSE Empty

Failures(b, m) == IF m \in DOMAIN b THEN b[m] ELSE <<>>

SkippedOnAnyClass(b, m) ==
    LET fs == Failures(b, m) IN
    Cardinality({i \in DOMAIN fs : fs[i].age < Window}) >= Threshold

SkippedForGood(b, m) ==
    LET fs == Failures(b, m) IN
    Cardinality({i \in DOMAIN fs : fs[i].permanent}) >= Threshold

Skipped(b, m) ==
    LET fs     == Failures(b, m)
        recent == {i \in DOMAIN fs : fs[i].permanent /\ fs[i].age < Window}
    IN  Cardinality(recent) >= Threshold

RecordFailureUntrimmed(fs, permanent) ==
    Append(fs, [permanent |-> permanent, age |-> 0])

RecordFailure(fs, permanent) ==
    LET all == Append(fs, [permanent |-> permanent, age |-> 0])
    IN  SubSeq(all, IF Len(all) > MaxKept THEN Len(all) - MaxKept + 1 ELSE 1, Len(all))

\* The permanent failures, in their order.
RecordSuccess(fs) ==
    LET kept     == {i \in DOMAIN fs : fs[i].permanent}
        Place(i) == Cardinality({j \in kept : j <= i})
    IN  [n \in 1..Cardinality(kept) |-> fs[CHOOSE i \in kept : Place(i) = n]]

\* The list after the verdicts v; only a failure adds a key.
Updated(b, v) ==
    LET failing == {m \in DOMAIN v : v[m] \in {"permanent", "passing"}} IN
    [m \in DOMAIN b \cup failing |->
        IF m \in failing THEN RecordFailure(Failures(b, m), v[m] = "permanent")
        ELSE IF m \in DOMAIN v /\ v[m] = "accessible" THEN RecordSuccess(b[m])
        ELSE b[m]]

-----------------------------------------------------------------------------
(* A probe *)

\* What a provider may do with a request: 401/403 (denied), 429 (limited),
\* 400/422 (rejected), another status above 400 (broken), a 200 that is good,
\* empty or unparsable (empty; so is a redirect), or of a shape the parser raises
\* on (garbled).
Answers == {"good", "empty", "garbled", "denied", "limited", "rejected",
            "broken", "timeout", "network"}

\* The class of the last answer: an empty 200 falls through to "unknown".
Final(a) ==
    CASE a = "good"                                          -> "ok"
      [] a = "garbled"                                       -> "raised"
      [] a \in {"timeout", "network"}                        -> a
      [] a = "empty"                                         -> "unknown"
      [] a \in {"denied", "limited", "rejected", "broken"}   -> "http_error"

\* probe_one: a second endpoint is tried after a format error only, and its
\* 401 is not told apart from any other error.
FailClass(m, first, second) ==
    CASE first = "denied"                         -> "auth_error"
      [] first = "limited"                        -> "rate_limit"
      [] first = "rejected" /\ m \in Alternates   -> Final(second)
      [] OTHER                                    -> Final(first)

PermanentFailClasses == {"auth_error", "empty_response", "schema_error"}

Verdict(class) ==
    CASE class = "ok"                    -> "accessible"
      [] class = "raised"                -> "lost"
      [] class \in PermanentFailClasses  -> "permanent"
      [] OTHER                           -> "passing"

PossibleVerdicts(m) == {Verdict(FailClass(m, a, b)) : a, b \in Answers}

-----------------------------------------------------------------------------
(* Steps *)

Become(r, step) == pc' = [pc EXCEPT ![r] = step]

\* run_scan starts; a list in the former format is written back first.
Load(r) ==
    /\ pc[r] = "idle"
    /\ bad' = [bad EXCEPT ![r] = Loaded(file)]
    /\ Become(r, IF HasLegacy(file) THEN "migrate" ELSE "loaded")
    /\ UNCHANGED <<file, listed, seen>>

\* --rehabilitate: without an entry for the model nothing is written.  (Of two
\* writes of a list in the former format only the second is kept apart.)
Rehabilitate(r, m) ==
    /\ pc[r] = "idle" /\ m \in DOMAIN Loaded(file)
    /\ bad' = [bad EXCEPT ![r] = Restrict(Loaded(file), DOMAIN Loaded(file) \ {m})]
    /\ Become(r, "save")
    /\ UNCHANGED <<file, listed, seen>>

\* Every provider lists some of its models, none when the request fails.
List(r, catalogue) ==
    /\ pc[r] = "loaded"
    /\ listed' = [listed EXCEPT ![r] =
                    {m \in catalogue \ Blocklist : ~Skipped(bad[r], m)}]
    /\ Become(r, "probing")
    /\ UNCHANGED <<file, bad, seen>>

\* gather has returned, in whatever order the probes ended: the verdicts go
\* into the copy loaded at the start.
Record(r) ==
    /\ pc[r] = "probing"
    /\ \E v \in [listed[r] -> Verdicts] :
          /\ \A m \in listed[r] : v[m] \in PossibleVerdicts(m)
          /\ bad' = [bad EXCEPT ![r] = Updated(@, v)]
          /\ seen' = [m \in Models |->
                        IF m \in listed[r] /\ v[m] = "permanent"
                           /\ seen[m][0] < Threshold
                        THEN [seen[m] EXCEPT ![0] = @ + 1] ELSE seen[m]]
    /\ listed' = [listed EXCEPT ![r] = {}]
    /\ Become(r, "save")
    /\ UNCHANGED file

\* save_bad's write_text truncates the file, then writes it.
OpenBad(r) ==
    /\ pc[r] \in {"save", "migrate"}
    /\ file' = Torn
    /\ Become(r, IF pc[r] = "save" THEN "saving" ELSE "migrating")
    /\ UNCHANGED <<bad, listed, seen>>

\* Over what another writer wrote since, the end of a longer text may remain.
WriteBad(r) ==
    /\ pc[r] \in {"saving", "migrating"}
    /\ file' = bad[r] \/ (file # Torn /\ file' = Torn)
    /\ IF pc[r] = "saving"
       THEN Become(r, "idle") /\ bad' = [bad EXCEPT ![r] = Empty]
       ELSE Become(r, "loaded") /\ UNCHANGED bad
    /\ UNCHANGED <<listed, seen>>

\* load_bad swallows an error of its own save and returns an empty list.
MigrationFails(r) ==
    /\ pc[r] = "migrating"
    /\ file' = Torn
    /\ bad' = [bad EXCEPT ![r] = Empty]
    /\ Become(r, "loaded")
    /\ UNCHANGED <<listed, seen>>

\* The program stops: no provider has a key, daily mode, an error, a signal.
Stop(r) ==
    /\ pc[r] # "idle"
    /\ Become(r, "idle")
    /\ bad' = [bad EXCEPT ![r] = Empty]
    /\ listed' = [listed EXCEPT ![r] = {}]
    /\ UNCHANGED file \/ (pc[r] \in {"saving", "migrating"} /\ file' = Torn)
    /\ UNCHANGED seen

ClearCache ==
    /\ file # NoFile
    /\ file' = NoFile
    /\ UNCHANGED <<pc, bad, listed, seen>>

Aged(fs) ==
    [i \in DOMAIN fs |->
        [fs[i] EXCEPT !.age = IF @ < Window THEN @ + 1 ELSE @]]

Tick ==
    /\ file' = IF IsParsed(file)
               THEN [m \in DOMAIN file |->
                        IF file[m] = Legacy THEN Legacy ELSE Aged(file[m])]
               ELSE file
    /\ bad' = [r \in Processes |-> [m \in DOMAIN bad[r] |-> Aged(bad[r][m])]]
    /\ seen' = [m \in Models |-> [a \in 0..Window - 1 |->
                    IF a = 0 THEN 0 ELSE seen[m][a - 1]]]
    /\ UNCHANGED <<pc, listed>>

-----------------------------------------------------------------------------
Init ==
    /\ file \in {NoFile, [m \in Models |-> Legacy]}
    /\ pc = [r \in Processes |-> "idle"]
    /\ bad = [r \in Processes |-> Empty]
    /\ listed = [r \in Processes |-> {}]
    /\ seen = [m \in Models |-> [a \in 0..Window - 1 |-> 0]]

Proceed(r) == Record(r) \/ OpenBad(r) \/ WriteBad(r)

Next ==
    \/ \E r \in Processes :
          \/ Load(r)
          \/ \E m \in Models : Rehabilitate(r, m)
          \/ \E catalogue \in SUBSET Models : List(r, catalogue)
          \/ Proceed(r)
          \/ MigrationFails(r)
          \/ Stop(r)
    \/ ClearCache
    \/ Tick

\* Scans are started again and again, now and then every catalogue answers, and
\* not every scan is killed; a request ends by its timeout; time passes.
Fairness ==
    /\ \A r \in Processes :
          SF_vars(Load(r)) /\ SF_vars(List(r, Models)) /\ SF_vars(Proceed(r))
    /\ WF_vars(Tick)

Spec == Init /\ [][Next]_vars

FairSpec == Spec /\ Fairness

-----------------------------------------------------------------------------
(* Properties *)

\* The permanent failures of m that scans recorded within the window, each known by
\* its age and its number among those of that age (no more than Threshold are kept).
Recorded(m) ==
    {p \in (0..Window - 1) \X (1..Threshold) : p[2] <= seen[m][p[1]]}

\* "These models had persistent failures": a scan that leaves a model out for
\* its record can point at Threshold permanent failures that scans recorded
\* within the window, whatever overlapping scans, torn writes and
\* rehabilitations did to the file in between.
SkippedForCause ==
    \A r \in Processes, m \in Models :
        pc[r] \in {"loaded", "probing"} /\ Skipped(bad[r], m) =>
            Cardinality(Recorded(m)) >= Threshold

\* No verdict is for ever: a model that is not blocklisted is probed again
\* once its failures have left the window, with nobody rehabilitating it.
SecondChance ==
    \A m \in Models \ Blocklist :
        []<>(\E r \in Processes : m \in listed[r])
=============================================================================
