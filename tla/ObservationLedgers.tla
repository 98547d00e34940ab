------------------------- MODULE ObservationLedgers -------------------------
(***************************************************************************)
(* How the gateway's callback workers record a request outcome in the      *)
(* spend ledger (spend_ledger.py) and then in the quota ledger             *)
(* (quota_meter.py), as gateway_bridge.observe does.  Both are append-only *)
(* JSONL files under an flock, deduplicated by request id over a bounded   *)
(* tail.  Workers crash, writes fail half-way and the gateway delivers its *)
(* callbacks at least once.                                                *)
(***************************************************************************)
EXTENDS Integers, Sequences, FiniteSets

CONSTANTS
    Workers,         \* callback threads and processes
    Events,          \* request outcomes
    Keyed,           \* those whose callback carries a stable request id
    Costed, Metered, \* those with a cost; with known rate-limit headers
    RowsScanned,     \* MAX_ROWS_SCANNED = MAX_LEDGER_ROWS_SCANNED
    MaxRedeliveries, \* bound on deliveries of outcomes already handled
    MaxInterruptions,\* bound on crashes and failed writes
    Nobody

ASSUME LedgerAssumption ==
    /\ Keyed \subseteq Events /\ Costed \subseteq Events /\ Metered \subseteq Events
    /\ RowsScanned \in Nat \ {0}
    /\ MaxRedeliveries \in Nat /\ MaxInterruptions \in Nat
    /\ Nobody \notin Workers \cup Events

Ledgers == {"spend", "quota"}

VARIABLES
    file,           \* ledger -> physical lines
    lock,           \* ledger -> flock holder or Nobody
    pc, at, job,    \* worker -> step, ledger it is busy with, outcome
    returned,       \* outcomes whose callback returned to the gateway
    recorded,       \* <<ledger, outcome>> acknowledged as recorded or duplicate
    failed,         \* <<ledger, outcome>> reported as spend_error, quota_error
    redeliveries, interruptions

vars == <<file, lock, pc, at, job, returned, recorded, failed,
          redeliveries, interruptions>>

\* A line parses (ok) or not, and is ended by its newline or not.
Line == [e : Events, ok : BOOLEAN, ended : BOOLEAN]

TypeOK ==
    /\ file \in [Ledgers -> Seq(Line)]
    /\ lock \in [Ledgers -> Workers \cup {Nobody}]
    /\ pc \in [Workers -> {"idle", "open", "scan", "append"}]
    /\ at \in [Workers -> Ledgers]
    /\ job \in [Workers -> Events \cup {Nobody}]
    /\ returned \subseteq Events
    /\ recorded \subseteq Ledgers \X Events
    /\ failed \subseteq Ledgers \X Events
    /\ redeliveries \in Nat
    /\ interruptions \in Nat
    /\ \A w \in Workers : pc[w] # "idle" => job[w] \in Events

-----------------------------------------------------------------------------
(* The file *)

\* The tail every reader and every duplicate check looks at.
Scanned(l) == {i \in 1..Len(file[l]) : i > Len(file[l]) - RowsScanned}

Readable(l) == {i \in Scanned(l) : file[l][i].ok}

DuplicateStopsAtTorn(l, e) ==
    \E i \in Readable(l) :
        file[l][i].e = e /\ \A j \in Scanned(l) : j < i => j \in Readable(l)

Duplicate(l, e) == \E i \in Readable(l) : file[l][i].e = e

PutNoNewline(l, e, whole, ended) ==
    LET n == Len(file[l]) IN
    IF n > 0 /\ ~file[l][n].ended
    THEN file' = [file EXCEPT ![l][n] = [e |-> e, ok |-> FALSE, ended |-> FALSE]]
    ELSE file' = [file EXCEPT ![l] =
                    Append(@, [e |-> e, ok |-> whole, ended |-> FALSE])]

\* What a write leaves: an unended last line and the new text become one line,
\* which parses only if the last line had been ended.
Put(l, e, whole, ended) ==
    LET n == Len(file[l]) IN
    IF n > 0 /\ ~file[l][n].ended
    THEN file' = [file EXCEPT ![l][n] = [e |-> e, ok |-> FALSE, ended |-> ended]]
    ELSE file' = [file EXCEPT ![l] =
                    Append(@, [e |-> e, ok |-> whole, ended |-> ended])]

\* An interrupted write: nothing, a torn record, or a record without newline.
PutPart(l, e) ==
    \/ UNCHANGED file
    \/ Put(l, e, FALSE, FALSE)
    \/ Put(l, e, TRUE, FALSE)

-----------------------------------------------------------------------------
(* observe *)

\* The ledgers an outcome goes to, and the first and the next of them.
Targets(e) == {l \in Ledgers : IF l = "spend" THEN e \in Costed ELSE e \in Metered}

OpenDropsJob(w, e, l) ==
    /\ pc' = [pc EXCEPT ![w] = "open"]
    /\ at' = [at EXCEPT ![w] = l]
    /\ job' = [job EXCEPT ![w] = Nobody]
    /\ UNCHANGED returned

Open(w, e, l) ==
    /\ pc' = [pc EXCEPT ![w] = "open"]
    /\ at' = [at EXCEPT ![w] = l]
    /\ job' = [job EXCEPT ![w] = e]
    /\ UNCHANGED returned

Return(w, e) ==
    /\ pc' = [pc EXCEPT ![w] = "idle"]
    /\ job' = [job EXCEPT ![w] = Nobody]
    /\ at' = [at EXCEPT ![w] = "spend"]
    /\ returned' = returned \cup {e}

\* The gateway delivers an outcome; one that was handled may come again.
\* litellm_success_callback declines an outcome without a request id.
Deliver(w, e) ==
    /\ pc[w] = "idle"
    /\ IF e \in returned
       THEN /\ redeliveries < MaxRedeliveries
            /\ redeliveries' = redeliveries + 1
       ELSE UNCHANGED redeliveries
    /\ IF e \notin Keyed \/ Targets(e) = {} THEN Return(w, e)
       ELSE IF "spend" \in Targets(e) THEN Open(w, e, "spend")
       ELSE Open(w, e, "quota")
    /\ UNCHANGED <<file, lock, recorded, failed, interruptions>>

ProceedReturnsEarly(w) == Return(w, job[w])

\* Whatever became of the spend ledger, the quota ledger is attempted too.
Proceed(w) ==
    IF at[w] = "spend" /\ "quota" \in Targets(job[w])
    THEN Open(w, job[w], "quota")
    ELSE Return(w, job[w])

LockIgnored(w) ==
    /\ pc[w] = "open"
    /\ lock' = [lock EXCEPT ![at[w]] = w]
    /\ pc' = [pc EXCEPT ![w] = "scan"]
    /\ UNCHANGED <<file, at, job, returned, recorded, failed, redeliveries,
                   interruptions>>

\* flock(LOCK_EX); closing the file releases it.
Lock(w) ==
    /\ pc[w] = "open" /\ lock[at[w]] = Nobody
    /\ lock' = [lock EXCEPT ![at[w]] = w]
    /\ pc' = [pc EXCEPT ![w] = "scan"]
    /\ UNCHANGED <<file, at, job, returned, recorded, failed, redeliveries,
                   interruptions>>

Unlock(w) == lock' = [lock EXCEPT ![at[w]] = Nobody]

ScanDuplicateKeepsLock(w) ==
    /\ pc[w] = "scan" /\ Duplicate(at[w], job[w])
    /\ recorded' = recorded \cup {<<at[w], job[w]>>}
    /\ UNCHANGED lock
    /\ Proceed(w)
    /\ UNCHANGED <<file, failed, redeliveries, interruptions>>

ScanDuplicate(w) ==
    /\ pc[w] = "scan" /\ Duplicate(at[w], job[w])
    /\ recorded' = recorded \cup {<<at[w], job[w]>>}
    /\ Unlock(w)
    /\ Proceed(w)
    /\ UNCHANGED <<file, failed, redeliveries, interruptions>>

ScanFresh(w) ==
    /\ pc[w] = "scan" /\ ~Duplicate(at[w], job[w])
    /\ pc' = [pc EXCEPT ![w] = "append"]
    /\ UNCHANGED <<file, lock, at, job, returned, recorded, failed,
                   redeliveries, interruptions>>

AppendLine(w) ==
    /\ pc[w] = "append"
    /\ Put(at[w], job[w], TRUE, TRUE)
    /\ recorded' = recorded \cup {<<at[w], job[w]>>}
    /\ Unlock(w)
    /\ Proceed(w)
    /\ UNCHANGED <<failed, redeliveries, interruptions>>

\* write, flush or fsync raises OSError: observe reports it and goes on.
AppendFails(w) ==
    /\ pc[w] = "append" /\ interruptions < MaxInterruptions
    /\ PutPart(at[w], job[w]) \/ Put(at[w], job[w], TRUE, TRUE)
    /\ failed' = failed \cup {<<at[w], job[w]>>}
    /\ interruptions' = interruptions + 1
    /\ Unlock(w)
    /\ Proceed(w)
    /\ UNCHANGED <<recorded, redeliveries>>

\* The worker dies: the kernel drops its lock, the gateway delivers again.
Crash(w) ==
    /\ pc[w] # "idle" /\ interruptions < MaxInterruptions
    /\ interruptions' = interruptions + 1
    /\ IF pc[w] = "append"
       THEN PutPart(at[w], job[w]) \/ Put(at[w], job[w], TRUE, TRUE)
       ELSE UNCHANGED file
    /\ IF pc[w] \in {"scan", "append"} THEN Unlock(w) ELSE UNCHANGED lock
    /\ pc' = [pc EXCEPT ![w] = "idle"]
    /\ at' = [at EXCEPT ![w] = "spend"]
    /\ job' = [job EXCEPT ![w] = Nobody]
    /\ UNCHANGED <<returned, recorded, failed, redeliveries>>

-----------------------------------------------------------------------------
Init ==
    /\ file = [l \in Ledgers |-> <<>>]
    /\ lock = [l \in Ledgers |-> Nobody]
    /\ pc = [w \in Workers |-> "idle"]
    /\ at = [w \in Workers |-> "spend"]
    /\ job = [w \in Workers |-> Nobody]
    /\ returned = {} /\ recorded = {} /\ failed = {}
    /\ redeliveries = 0 /\ interruptions = 0

Observe(w) ==
    Lock(w) \/ ScanDuplicate(w) \/ ScanFresh(w) \/ AppendLine(w)

Next ==
    \E w \in Workers :
        \/ \E e \in Events : Deliver(w, e)
        \/ Observe(w)
        \/ AppendFails(w)
        \/ Crash(w)

\* A worker that runs finishes its call, and an outcome whose callback has not
\* returned is delivered again: at-least-once delivery.
Fairness ==
    /\ \A w \in Workers : WF_vars(Observe(w))
    /\ \A e \in Events :
          SF_vars(e \notin returned /\ \E w \in Workers : Deliver(w, e))

Spec == Init /\ [][Next]_vars

FairSpec == Spec /\ Fairness

-----------------------------------------------------------------------------
(* Properties *)

\* "concurrent callback workers cannot count the same request twice": among the
\* lines a reader sees, each request appears at most once.
NoDoubleCount ==
    \A l \in Ledgers : \A i, j \in Readable(l) :
        file[l][i].e = file[l][j].e => i = j

\* A callback that returned left every ledger its outcome concerns either
\* written or reported as failed, whatever crashed between the two ledgers.
ReturnedIsAccounted ==
    \A e \in returned \cap Keyed : \A l \in Targets(e) :
        <<l, e>> \in recorded \cup failed

\* The outcomes some line of a ledger still records, and the acknowledged ones
\* that no line records any more.
Kept(l) == {file[l][i].e : i \in {j \in DOMAIN file[l] : file[l][j].ok}}

Lost == {r \in recorded : r[2] \notin Kept(r[1])}

\* An interruption spoils at most one line already acknowledged and the next
\* record glued to it: acknowledged outcomes lost from the file, beyond the
\* window or not, number at most two per interruption.
LossBounded == Cardinality(Lost) <= 2 * interruptions

\* Every outcome delivered at least once is eventually handled for good.
EveryCallbackReturns == <>[](Events \subseteq returned)

\* Either ledger, as its readers see it, implements the account book in which
\* a request counts at most once and a step counts at most one request.
Count(l) == [e \in Events |-> Cardinality({i \in Readable(l) : file[l][i].e = e})]

SpendBook == INSTANCE OnceBook WITH Requests <- Events, book <- Count("spend")
QuotaBook == INSTANCE OnceBook WITH Requests <- Events, book <- Count("quota")

CountsOnce == SpendBook!Spec /\ QuotaBook!Spec
=============================================================================
