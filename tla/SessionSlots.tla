---------------------------- MODULE SessionSlots ----------------------------
(***************************************************************************)
(* The session manager's slot pool (session_manager.py).  Three SQLite     *)
(* tables are shared by every process that imports the module: the gateway,*)
(* the scanner and the agents' own helpers.  One action is one SQL         *)
(* transaction (or one read), so the interleavings of the processes are    *)
(* those SQLite allows.                                                    *)
(***************************************************************************)
EXTENDS Integers, FiniteSets

CONSTANTS
    Procs,          \* operating-system processes using the module
    Sessions,       \* agent sessions
    Providers,
    Tiers,          \* slot tiers ("S", "A", "B", "C" in the code)
    Limit,          \* PROVIDER_CONCURRENCY_LIMITS, provider -> tier -> slots
    Priority,       \* SESSION_PRIORITIES of the program each session runs
    Threshold,      \* PREEMPTION_CONFIG["low_priority_threshold"]
    None            \* no tier, no victim, no argument

ASSUME SlotAssumption ==
    /\ IsFiniteSet(Procs) /\ Procs # {}
    /\ IsFiniteSet(Sessions)
    /\ Limit \in [Providers -> [Tiers -> Nat \ {0}]]
    /\ Priority \in [Sessions -> Nat]
    /\ Threshold \in Nat
    /\ None \notin Tiers \cup Sessions

VARIABLES
    slots,       \* provider_slots: provider -> session -> tier or None
    rowState,    \* session_quota.state, "none" while the session has no row
    used,        \* providers named by the session's rows of quota_entries
    file,        \* what ~/.hermes/sessions says: busy, lapsed or absent
    pc, arg,     \* the call each process is in, and its arguments
    victim,      \* preempt_session as has_capacity_for returned it
    releasing,   \* release_session: its session and the providers
    todo,        \* it has still to release
    answer       \* what the process's last request_session_slot returned

table == <<slots, rowState, used>>
call  == <<pc, arg, victim, releasing, todo, answer>>
vars  == <<table, file, call>>

Request  == [s : Sessions, v : Providers, t : Tiers]
Answers  == {"none", "granted", "no capacity", "allocation failed"}

TypeOK ==
    /\ slots \in [Providers -> [Sessions -> Tiers \cup {None}]]
    /\ rowState \in [Sessions -> {"none", "active", "paused"}]
    /\ used \in [Sessions -> SUBSET Providers]
    /\ file \in [Sessions -> {"busy", "lapsed", "absent"}]
    /\ pc \in [Procs -> {"idle", "capacity", "preemptible", "count",
                         "insert", "release"}]
    /\ arg \in [Procs -> Request \cup {None}]
    /\ victim \in [Procs -> Sessions \cup {None}]
    /\ releasing \in [Procs -> Sessions \cup {None}]
    /\ todo \in [Procs -> SUBSET Providers]
    /\ answer \in [Procs -> Answers]
    /\ \A p \in Procs :
          /\ pc[p] \notin {"idle", "release"} => arg[p] \in Request
          /\ pc[p] = "release" => releasing[p] \in Sessions

-----------------------------------------------------------------------------
(* Queries *)

Rows(v, t) == {s \in Sessions : slots[v][s] = t}

\* SELECT COUNT(*) FROM provider_slots WHERE provider = ?: every tier counts.
InUse(v) == Cardinality({s \in Sessions : slots[v][s] # None})

\* find_preemption_candidates.  The priority the requester passes is unused,
\* and a session without a session_quota row passes the provider test.
Preemptible(v) ==
    {s \in Sessions :
        /\ Priority[s] <= Threshold
        /\ file[s] = "lapsed"
        /\ rowState[s] # "none" => v \in used[s]}

-----------------------------------------------------------------------------
(* request_session_slot, up to its answer *)

Answer(p, a) ==
    /\ pc' = [pc EXCEPT ![p] = "idle"]
    /\ arg' = [arg EXCEPT ![p] = None]
    /\ answer' = [answer EXCEPT ![p] = a]

RequestSlot(p, r) ==
    /\ pc[p] = "idle"
    /\ pc' = [pc EXCEPT ![p] = "capacity"]
    /\ arg' = [arg EXCEPT ![p] = r]
    /\ victim' = [victim EXCEPT ![p] = None]
    /\ answer' = [answer EXCEPT ![p] = "none"]
    /\ UNCHANGED <<table, file, releasing, todo>>

\* has_capacity_for: get_provider_slot_usage reads the count once.
HasCapacity(p) ==
    /\ pc[p] = "capacity"
    /\ pc' = [pc EXCEPT ![p] =
                IF InUse(arg[p].v) < Limit[arg[p].v][arg[p].t]
                THEN "count" ELSE "preemptible"]
    /\ UNCHANGED <<table, file, arg, victim, releasing, todo, answer>>

\* At capacity with a candidate, has_capacity_for still answers allowed=True,
\* so request_session_slot goes on to allocate without preempting anyone.
FindCandidate(p) ==
    /\ pc[p] = "preemptible"
    /\ \E s \in Preemptible(arg[p].v) :
          victim' = [victim EXCEPT ![p] = s]
    /\ pc' = [pc EXCEPT ![p] = "count"]
    /\ UNCHANGED <<table, file, arg, releasing, todo, answer>>

NoCandidate(p) ==
    /\ pc[p] = "preemptible"
    /\ Preemptible(arg[p].v) = {}
    /\ Answer(p, "no capacity")
    /\ UNCHANGED <<table, file, victim, releasing, todo>>

CountSlotsOffByOne(p) ==
    /\ pc[p] = "count"
    /\ \/ /\ InUse(arg[p].v) <= Limit[arg[p].v][arg[p].t]
          /\ pc' = [pc EXCEPT ![p] = "insert"]
          /\ UNCHANGED <<arg, answer>>
       \/ /\ InUse(arg[p].v) > Limit[arg[p].v][arg[p].t]
          /\ Answer(p, "allocation failed")
    /\ UNCHANGED <<table, file, victim, releasing, todo>>

\* allocate_provider_slot counts again, outside any transaction ...
CountSlots(p) ==
    /\ pc[p] = "count"
    /\ \/ /\ InUse(arg[p].v) < Limit[arg[p].v][arg[p].t]
          /\ pc' = [pc EXCEPT ![p] = "insert"]
          /\ UNCHANGED <<arg, answer>>
       \/ /\ InUse(arg[p].v) >= Limit[arg[p].v][arg[p].t]
          /\ Answer(p, "allocation failed")
    /\ UNCHANGED <<table, file, victim, releasing, todo>>

InsertSlotKeepsState(p) ==
    /\ pc[p] = "insert"
    /\ slots' = [slots EXCEPT ![arg[p].v][arg[p].s] = arg[p].t]
    /\ Answer(p, "granted")
    /\ UNCHANGED <<rowState, used, file, victim, releasing, todo>>

\* ... and then writes: INSERT OR REPLACE, UPDATE session_quota, commit.
InsertSlot(p) ==
    LET s == arg[p].s IN
    /\ pc[p] = "insert"
    /\ slots' = [slots EXCEPT ![arg[p].v][s] = arg[p].t]
    /\ rowState' = [rowState EXCEPT ![s] = IF @ = "none" THEN @ ELSE "active"]
    /\ Answer(p, "granted")
    /\ UNCHANGED <<used, file, victim, releasing, todo>>

-----------------------------------------------------------------------------
(* The other calls *)

\* record_quota_usage: one transaction inserts the entry and upserts the row.
RecordUsage(p, s, v) ==
    /\ pc[p] = "idle"
    /\ used' = [used EXCEPT ![s] = @ \cup {v}]
    /\ rowState' = [rowState EXCEPT ![s] = "active"]
    /\ UNCHANGED <<slots, file, call>>

PreemptUnknownState(p, s) ==
    /\ pc[p] = "idle"
    /\ rowState' = [rowState EXCEPT ![s] = IF @ = "none" THEN @ ELSE "preempted"]
    /\ slots' = [v \in Providers |-> [slots[v] EXCEPT ![s] = None]]
    /\ UNCHANGED <<used, file, call>>

\* execute_preemption re-checks nothing: whoever calls it acts on a candidate
\* list or a recommendation read earlier.
ExecutePreemption(p, s) ==
    /\ pc[p] = "idle"
    /\ rowState' = [rowState EXCEPT ![s] = IF @ = "none" THEN @ ELSE "paused"]
    /\ slots' = [v \in Providers |-> [slots[v] EXCEPT ![s] = None]]
    /\ UNCHANGED <<used, file, call>>

\* release_session reads the providers of the session's usage first; without
\* a session_quota row get_session_quota is None and nothing is released.
ReleaseSession(p, s) ==
    /\ pc[p] = "idle"
    /\ pc' = [pc EXCEPT ![p] = "release"]
    /\ releasing' = [releasing EXCEPT ![p] = s]
    /\ todo' = [todo EXCEPT ![p] = IF rowState[s] = "none" THEN {} ELSE used[s]]
    /\ UNCHANGED <<table, file, arg, victim, answer>>

\* release_provider_slot, one transaction per provider.
ReleaseProviderSlot(p) ==
    /\ pc[p] = "release"
    /\ \E v \in todo[p] :
          /\ slots' = [slots EXCEPT ![v][releasing[p]] = None]
          /\ todo' = [todo EXCEPT ![p] = @ \ {v}]
    /\ UNCHANGED <<rowState, used, file, pc, arg, victim, releasing, answer>>

ReleaseDone(p) ==
    /\ pc[p] = "release" /\ todo[p] = {}
    /\ pc' = [pc EXCEPT ![p] = "idle"]
    /\ releasing' = [releasing EXCEPT ![p] = None]
    /\ UNCHANGED <<table, file, arg, victim, todo, answer>>

\* A process dies inside a call; SQLite keeps what was committed.
Crash(p) ==
    /\ pc[p] # "idle"
    /\ Answer(p, "none")
    /\ victim' = [victim EXCEPT ![p] = None]
    /\ releasing' = [releasing EXCEPT ![p] = None]
    /\ todo' = [todo EXCEPT ![p] = {}]
    /\ UNCHANGED <<table, file>>

\* The agent writes its session file, stops writing it, or removes it.
FileChanges(s) ==
    /\ \E f \in {"busy", "lapsed", "absent"} \ {file[s]} :
          file' = [file EXCEPT ![s] = f]
    /\ UNCHANGED <<table, call>>

-----------------------------------------------------------------------------
Init ==
    /\ slots = [v \in Providers |-> [s \in Sessions |-> None]]
    /\ rowState = [s \in Sessions |-> "none"]
    /\ used = [s \in Sessions |-> {}]
    /\ file \in [Sessions -> {"busy", "lapsed", "absent"}]
    /\ pc = [p \in Procs |-> "idle"]
    /\ arg = [p \in Procs |-> None]
    /\ victim = [p \in Procs |-> None]
    /\ releasing = [p \in Procs |-> None]
    /\ todo = [p \in Procs |-> {}]
    /\ answer = [p \in Procs |-> "none"]

RequestStep(p) ==
    \/ HasCapacity(p) \/ FindCandidate(p) \/ NoCandidate(p)
    \/ CountSlots(p) \/ InsertSlot(p)

ReleaseStep(p) == ReleaseProviderSlot(p) \/ ReleaseDone(p)

Next ==
    \/ \E p \in Procs :
          \/ \E r \in Request : RequestSlot(p, r)
          \/ RequestStep(p)
          \/ \E s \in Sessions, v \in Providers : RecordUsage(p, s, v)
          \/ \E s \in Sessions : ExecutePreemption(p, s)
          \/ \E s \in Sessions : ReleaseSession(p, s)
          \/ ReleaseStep(p)
          \/ Crash(p)
    \/ \E s \in Sessions : FileChanges(s)

Spec == Init /\ [][Next]_vars

-----------------------------------------------------------------------------
(* Properties *)

Pending(v, t) ==
    {p \in Procs : pc[p] = "insert" /\ arg[p].v = v /\ arg[p].t = t}

\* However the processes interleave, the slots of a tier and the insertions
\* already decided overshoot its limit by at most one per extra process: the
\* gap between the SELECT COUNT and the INSERT of allocate_provider_slot.
InFlightBound ==
    \A v \in Providers, t \in Tiers :
        Cardinality(Rows(v, t)) + Cardinality(Pending(v, t))
            <= Limit[v][t] - 1 + Cardinality(Procs)

\* "Provider usage limits (max concurrent sessions per tier)": no tier of a
\* provider ever has more slots allocated than its limit.
CapacityRespected ==
    \A v \in Providers, t \in Tiers :
        Cardinality(Rows(v, t)) <= Limit[v][t]

\* A session the table calls paused holds no slot, whatever insertion was
\* under way when it was preempted: the insertion revives the row with it.
PausedHoldsNothing ==
    \A s \in Sessions :
        rowState[s] = "paused" => \A v \in Providers : slots[v][s] = None
=============================================================================
