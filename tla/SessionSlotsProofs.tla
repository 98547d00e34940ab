------------------------- MODULE SessionSlotsProofs -------------------------
(***************************************************************************)
(* What holds of the slot pool for every number of processes, sessions,    *)
(* providers and every table of limits.                                    *)
(***************************************************************************)
EXTENDS SessionSlots, FiniteSetTheorems, TLAPS

\* Type correctness: every call has the arguments its next step reads.
THEOREM TypeCorrect == Spec => []TypeOK
<1>1. Init => TypeOK
  BY DEF Init, TypeOK, Answers
<1>2. TypeOK /\ [Next]_vars => TypeOK'
  <2> SUFFICES ASSUME TypeOK, [Next]_vars PROVE TypeOK'
    OBVIOUS
  <2> USE DEF TypeOK, table, call, Answer, Answers
  <2>1. ASSUME NEW p \in Procs, NEW r \in Request, RequestSlot(p, r)
        PROVE  TypeOK'
    BY <2>1 DEF RequestSlot
  <2>2. ASSUME NEW p \in Procs, HasCapacity(p)
        PROVE  TypeOK'
    BY <2>2 DEF HasCapacity
  <2>3. ASSUME NEW p \in Procs, FindCandidate(p)
        PROVE  TypeOK'
    BY <2>3 DEF FindCandidate, Preemptible
  <2>4. ASSUME NEW p \in Procs, NoCandidate(p)
        PROVE  TypeOK'
    BY <2>4 DEF NoCandidate
  <2>5. ASSUME NEW p \in Procs, CountSlots(p)
        PROVE  TypeOK'
    BY <2>5 DEF CountSlots
  <2>6. ASSUME NEW p \in Procs, InsertSlot(p)
        PROVE  TypeOK'
    BY <2>6 DEF InsertSlot, Request
  <2>7. ASSUME NEW p \in Procs, NEW s \in Sessions, NEW v \in Providers,
               RecordUsage(p, s, v)
        PROVE  TypeOK'
    BY <2>7 DEF RecordUsage
  <2>8. ASSUME NEW p \in Procs, NEW s \in Sessions, ExecutePreemption(p, s)
        PROVE  TypeOK'
    BY <2>8 DEF ExecutePreemption
  <2>9. ASSUME NEW p \in Procs, NEW s \in Sessions, ReleaseSession(p, s)
        PROVE  TypeOK'
    BY <2>9 DEF ReleaseSession
  <2>10. ASSUME NEW p \in Procs, ReleaseProviderSlot(p)
         PROVE  TypeOK'
    <3>1. PICK v \in todo[p] :
            /\ slots' = [slots EXCEPT ![v][releasing[p]] = None]
            /\ todo' = [todo EXCEPT ![p] = @ \ {v}]
      BY <2>10 DEF ReleaseProviderSlot
    <3>2. v \in Providers /\ releasing[p] \in Sessions
      BY <2>10 DEF ReleaseProviderSlot
    <3>3. slots' \in [Providers -> [Sessions -> Tiers \cup {None}]]
      BY <3>1, <3>2
    <3>4. todo' \in [Procs -> SUBSET Providers]
      BY <3>1
    <3>5. QED
      BY <2>10, <3>3, <3>4 DEF ReleaseProviderSlot
  <2>11. ASSUME NEW p \in Procs, ReleaseDone(p)
         PROVE  TypeOK'
    BY <2>11 DEF ReleaseDone
  <2>12. ASSUME NEW p \in Procs, Crash(p)
         PROVE  TypeOK'
    BY <2>12 DEF Crash
  <2>13. ASSUME NEW s \in Sessions, FileChanges(s)
         PROVE  TypeOK'
    BY <2>13 DEF FileChanges
  <2>14. CASE UNCHANGED vars
    BY <2>14 DEF vars
  <2>15. QED
    BY <2>1, <2>2, <2>3, <2>4, <2>5, <2>6, <2>7, <2>8, <2>9, <2>10, <2>11,
       <2>12, <2>13, <2>14 DEF Next, RequestStep, ReleaseStep
<1>3. QED
  BY <1>1, <1>2, PTL DEF Spec

\* A step that inserts no slot and decides no insertion changes a tier's rows
\* and its pending insertions only by removing some.
LEMMA Shrinks ==
  ASSUME TypeOK, InFlightBound,
         \A v \in Providers, t \in Tiers :
            /\ Rows(v, t)' \subseteq Rows(v, t)
            /\ Pending(v, t)' \subseteq Pending(v, t)
  PROVE  InFlightBound'
<1> SUFFICES ASSUME NEW v \in Providers, NEW t \in Tiers
             PROVE  Cardinality(Rows(v, t)') + Cardinality(Pending(v, t)')
                      <= Limit[v][t] - 1 + Cardinality(Procs)
  BY DEF InFlightBound
<1>1. IsFiniteSet(Rows(v, t)) /\ IsFiniteSet(Pending(v, t)) /\ IsFiniteSet(Procs)
  BY FS_Subset, SlotAssumption DEF Rows, Pending
<1>2. /\ Cardinality(Rows(v, t)') \in Nat
      /\ Cardinality(Rows(v, t)') <= Cardinality(Rows(v, t))
  BY <1>1, FS_Subset, FS_CardinalityType
<1>3. /\ Cardinality(Pending(v, t)') \in Nat
      /\ Cardinality(Pending(v, t)') <= Cardinality(Pending(v, t))
  BY <1>1, FS_Subset, FS_CardinalityType
<1>4. /\ Cardinality(Rows(v, t)) \in Nat /\ Cardinality(Pending(v, t)) \in Nat
      /\ Cardinality(Procs) \in Nat /\ Limit[v][t] \in Nat
  BY <1>1, FS_CardinalityType, SlotAssumption
<1>5. QED
  BY <1>2, <1>3, <1>4 DEF InFlightBound

\* Deciding an insertion: the count was below the limit, and at most every
\* process has an insertion pending.
LEMMA CountKeepsBound ==
  ASSUME TypeOK, InFlightBound, NEW p \in Procs, CountSlots(p)
  PROVE  InFlightBound'
<1> SUFFICES ASSUME NEW v \in Providers, NEW t \in Tiers
             PROVE  Cardinality(Rows(v, t)') + Cardinality(Pending(v, t)')
                      <= Limit[v][t] - 1 + Cardinality(Procs)
  BY DEF InFlightBound
<1> DEFINE held == {s \in Sessions : slots[v][s] # None}
<1>1. Rows(v, t)' = Rows(v, t)
  BY DEF CountSlots, Rows, table
<1>2. IsFiniteSet(Rows(v, t)) /\ IsFiniteSet(held) /\ IsFiniteSet(Procs)
  BY FS_Subset, SlotAssumption DEF Rows
<1>3. Pending(v, t) \subseteq Procs /\ Pending(v, t)' \subseteq Procs
  BY DEF Pending
<1>4. /\ Cardinality(Procs) \in Nat /\ Limit[v][t] \in Nat
      /\ Cardinality(Rows(v, t)) \in Nat /\ Cardinality(held) \in Nat
      /\ Cardinality(Pending(v, t)) \in Nat /\ Cardinality(Pending(v, t)') \in Nat
  BY <1>2, <1>3, FS_Subset, FS_CardinalityType, SlotAssumption
<1>5. CASE InUse(v) < Limit[v][t]
  <2>1. Rows(v, t) \subseteq held
    BY SlotAssumption DEF Rows
  <2>2. Cardinality(Rows(v, t)) <= Cardinality(held)
    BY <1>2, <2>1, FS_Subset
  <2>3. Cardinality(Pending(v, t)') <= Cardinality(Procs)
    BY <1>2, <1>3, FS_Subset
  <2>4. QED
    BY <1>1, <1>4, <1>5, <2>2, <2>3 DEF InUse
<1>6. CASE ~(InUse(v) < Limit[v][t])
  <2>1. Pending(v, t)' \subseteq Pending(v, t)
    BY <1>6 DEF CountSlots, Pending, Answer, TypeOK, Request
  <2>2. Cardinality(Pending(v, t)') <= Cardinality(Pending(v, t))
    BY <1>2, <1>3, <2>1, FS_Subset
  <2>3. QED
    BY <1>1, <1>4, <2>2 DEF InFlightBound
<1>7. QED
  BY <1>5, <1>6

\* The insertion itself turns one pending insertion of a tier into a row.
LEMMA InsertKeepsBound ==
  ASSUME TypeOK, InFlightBound, NEW p \in Procs, InsertSlot(p)
  PROVE  InFlightBound'
<1> SUFFICES ASSUME NEW v \in Providers, NEW t \in Tiers
             PROVE  Cardinality(Rows(v, t)') + Cardinality(Pending(v, t)')
                      <= Limit[v][t] - 1 + Cardinality(Procs)
  BY DEF InFlightBound
<1>1. IsFiniteSet(Rows(v, t)) /\ IsFiniteSet(Pending(v, t))
  BY FS_Subset, SlotAssumption DEF Rows, Pending
<1>2. /\ Cardinality(Rows(v, t)) \in Nat /\ Cardinality(Pending(v, t)) \in Nat
      /\ Cardinality(Procs) \in Nat /\ Limit[v][t] \in Nat
  BY <1>1, FS_CardinalityType, SlotAssumption
<1>3. arg[p] \in Request /\ None \notin Tiers
  BY SlotAssumption DEF InsertSlot, TypeOK
<1>4. CASE arg[p].v = v /\ arg[p].t = t
  <2>1. Pending(v, t)' = Pending(v, t) \ {p} /\ p \in Pending(v, t)
    BY <1>4 DEF InsertSlot, Answer, Pending, TypeOK
  <2>2. Rows(v, t)' = Rows(v, t) \cup {arg[p].s}
    BY <1>3, <1>4 DEF InsertSlot, Rows, TypeOK, Request
  <2>3. Cardinality(Pending(v, t)') = Cardinality(Pending(v, t)) - 1
    BY <1>1, <2>1, FS_RemoveElement
  <2>4. /\ Cardinality(Rows(v, t)') \in Nat
        /\ Cardinality(Rows(v, t)') <= Cardinality(Rows(v, t)) + 1
    <3>1. /\ IsFiniteSet(Rows(v, t)')
          /\ Cardinality(Rows(v, t)') = IF arg[p].s \in Rows(v, t)
                                         THEN Cardinality(Rows(v, t))
                                         ELSE Cardinality(Rows(v, t)) + 1
      BY <1>1, <2>2, FS_AddElement
    <3>2. QED
      BY <1>2, <3>1
  <2>5. QED
    BY <1>2, <2>3, <2>4 DEF InFlightBound
<1>5. CASE ~(arg[p].v = v /\ arg[p].t = t)
  <2>1. Pending(v, t)' \subseteq Pending(v, t)
    BY DEF InsertSlot, Answer, Pending, TypeOK
  <2>2. Rows(v, t)' \subseteq Rows(v, t)
    BY <1>3, <1>5 DEF InsertSlot, Rows, TypeOK, Request
  <2>3. /\ Cardinality(Pending(v, t)') \in Nat
        /\ Cardinality(Pending(v, t)') <= Cardinality(Pending(v, t))
    BY <1>1, <2>1, FS_Subset, FS_CardinalityType
  <2>4. /\ Cardinality(Rows(v, t)') \in Nat
        /\ Cardinality(Rows(v, t)') <= Cardinality(Rows(v, t))
    BY <1>1, <2>2, FS_Subset, FS_CardinalityType
  <2>5. QED
    BY <1>2, <2>3, <2>4 DEF InFlightBound
<1>6. QED
  BY <1>4, <1>5

\* Every step keeps the bound: only CountSlots and InsertSlot can raise it.
LEMMA StepKeepsBound == TypeOK /\ InFlightBound /\ [Next]_vars => InFlightBound'
<1> SUFFICES ASSUME TypeOK, InFlightBound, [Next]_vars PROVE InFlightBound'
  OBVIOUS
<1> DEFINE Calm == \A v \in Providers, t \in Tiers :
                      /\ Rows(v, t)' \subseteq Rows(v, t)
                      /\ Pending(v, t)' \subseteq Pending(v, t)
<1> USE DEF Rows, Pending, table, call, Answer
<1>1. ASSUME NEW p \in Procs, NEW r \in Request, RequestSlot(p, r) PROVE Calm
  BY <1>1 DEF RequestSlot, TypeOK
<1>2. ASSUME NEW p \in Procs, HasCapacity(p) PROVE Calm
  BY <1>2 DEF HasCapacity, TypeOK
<1>3. ASSUME NEW p \in Procs, FindCandidate(p) PROVE Calm
  BY <1>3 DEF FindCandidate, TypeOK
<1>4. ASSUME NEW p \in Procs, NoCandidate(p) PROVE Calm
  BY <1>4 DEF NoCandidate, TypeOK
<1>5. ASSUME NEW p \in Procs, NEW s \in Sessions, NEW v \in Providers,
             RecordUsage(p, s, v)
      PROVE  Calm
  BY <1>5 DEF RecordUsage
<1>6. ASSUME NEW p \in Procs, NEW s \in Sessions, ExecutePreemption(p, s)
      PROVE  Calm
  BY <1>6, SlotAssumption DEF ExecutePreemption, TypeOK
<1>7. ASSUME NEW p \in Procs, NEW s \in Sessions, ReleaseSession(p, s) PROVE Calm
  BY <1>7 DEF ReleaseSession, TypeOK
<1>8. ASSUME NEW p \in Procs, ReleaseProviderSlot(p) PROVE Calm
  <2>1. PICK w \in todo[p] : slots' = [slots EXCEPT ![w][releasing[p]] = None]
    BY <1>8 DEF ReleaseProviderSlot
  <2>2. w \in Providers /\ releasing[p] \in Sessions
    BY <1>8 DEF ReleaseProviderSlot, TypeOK
  <2>3. \A v \in Providers, t \in Tiers : Rows(v, t)' \subseteq Rows(v, t)
    BY <2>1, <2>2, SlotAssumption DEF TypeOK
  <2>4. QED
    BY <1>8, <2>3 DEF ReleaseProviderSlot
<1>9. ASSUME NEW p \in Procs, ReleaseDone(p) PROVE Calm
  BY <1>9 DEF ReleaseDone, TypeOK
<1>10. ASSUME NEW p \in Procs, Crash(p) PROVE Calm
  BY <1>10 DEF Crash, TypeOK
<1>11. ASSUME NEW s \in Sessions, FileChanges(s) PROVE Calm
  BY <1>11 DEF FileChanges
<1>12. CASE UNCHANGED vars
  <2>1. Calm
    BY <1>12 DEF vars
  <2>2. QED
    BY <2>1, Shrinks
<1>13. ASSUME NEW p \in Procs, CountSlots(p) PROVE InFlightBound'
  BY <1>13, CountKeepsBound
<1>14. ASSUME NEW p \in Procs, InsertSlot(p) PROVE InFlightBound'
  BY <1>14, InsertKeepsBound
<1>15. Calm => InFlightBound'
  BY Shrinks
<1>16. QED
  BY <1>1, <1>2, <1>3, <1>4, <1>5, <1>6, <1>7, <1>8, <1>9, <1>10, <1>11,
     <1>12, <1>13, <1>14, <1>15 DEF Next, RequestStep, ReleaseStep

\* The overshoot of a tier is bounded by the number of extra processes,
\* whatever they call and wherever they crash.
THEOREM OvershootBounded == Spec => []InFlightBound
<1>1. Init => InFlightBound
  <2> SUFFICES ASSUME Init, NEW v \in Providers, NEW t \in Tiers
               PROVE  Cardinality(Rows(v, t)) + Cardinality(Pending(v, t))
                        <= Limit[v][t] - 1 + Cardinality(Procs)
    BY DEF InFlightBound
  <2>1. Rows(v, t) = {} /\ Pending(v, t) = {}
    BY SlotAssumption DEF Init, Rows, Pending
  <2>2. Cardinality(Procs) \in Nat /\ Limit[v][t] \in Nat \ {0}
    BY FS_CardinalityType, SlotAssumption
  <2>3. QED
    BY <2>1, <2>2, FS_EmptySet
<1>2. QED
  BY <1>1, StepKeepsBound, TypeCorrect, PTL DEF Spec

\* With a single process the check and the insertion cannot be torn apart and
\* the documented limit holds: no tier ever exceeds it.
THEOREM SerialCapacity ==
  ASSUME Cardinality(Procs) = 1
  PROVE  Spec => []CapacityRespected
<1>1. InFlightBound => CapacityRespected
  <2> SUFFICES ASSUME InFlightBound, NEW v \in Providers, NEW t \in Tiers
               PROVE  Cardinality(Rows(v, t)) <= Limit[v][t]
    BY DEF CapacityRespected
  <2>1. /\ Cardinality(Rows(v, t)) \in Nat /\ Cardinality(Pending(v, t)) \in Nat
        /\ Limit[v][t] \in Nat
    BY FS_Subset, FS_CardinalityType, SlotAssumption DEF Rows, Pending
  <2>2. QED
    BY <2>1 DEF InFlightBound
<1>2. QED
  BY <1>1, OvershootBounded, PTL

\* A paused session never holds a slot, at any provider.
THEOREM PausedIsSlotless == Spec => []PausedHoldsNothing
<1>1. Init => PausedHoldsNothing
  BY DEF Init, PausedHoldsNothing
<1>2. TypeOK /\ PausedHoldsNothing /\ [Next]_vars => PausedHoldsNothing'
  <2> SUFFICES ASSUME TypeOK, PausedHoldsNothing, [Next]_vars,
                      NEW s \in Sessions, rowState'[s] = "paused",
                      NEW v \in Providers
               PROVE  slots'[v][s] = None
    BY DEF PausedHoldsNothing
  <2>1. ASSUME NEW p \in Procs, InsertSlot(p) PROVE slots'[v][s] = None
    <3>1. arg[p] \in Request
      BY <2>1 DEF InsertSlot, TypeOK
    <3>2. arg[p].s # s /\ rowState[s] = "paused"
      BY <2>1, <3>1 DEF InsertSlot, TypeOK, Request
    <3>3. slots'[v][s] = slots[v][s]
      BY <2>1, <3>1, <3>2 DEF InsertSlot, TypeOK, Request
    <3>4. QED
      BY <3>2, <3>3 DEF PausedHoldsNothing
  <2>2. ASSUME NEW p \in Procs, NEW r \in Sessions, NEW w \in Providers,
               RecordUsage(p, r, w)
        PROVE  slots'[v][s] = None
    BY <2>2 DEF RecordUsage, TypeOK, PausedHoldsNothing
  <2>3. ASSUME NEW p \in Procs, NEW r \in Sessions, ExecutePreemption(p, r)
        PROVE  slots'[v][s] = None
    BY <2>3 DEF ExecutePreemption, TypeOK, PausedHoldsNothing
  <2>4. ASSUME NEW p \in Procs, ReleaseProviderSlot(p)
        PROVE  slots'[v][s] = None
    <3>1. PICK w \in todo[p] : slots' = [slots EXCEPT ![w][releasing[p]] = None]
      BY <2>4 DEF ReleaseProviderSlot
    <3>2. w \in Providers /\ releasing[p] \in Sessions
      BY <2>4 DEF ReleaseProviderSlot, TypeOK
    <3>3. slots[v][s] = None
      BY <2>4 DEF ReleaseProviderSlot, PausedHoldsNothing
    <3>4. QED
      BY <3>1, <3>2, <3>3 DEF TypeOK
  <2>5. CASE UNCHANGED <<slots, rowState>>
    BY <2>5 DEF PausedHoldsNothing
  <2>6. QED
    BY <2>1, <2>2, <2>3, <2>4, <2>5
       DEF Next, RequestStep, ReleaseStep, vars, table, call, RequestSlot,
           HasCapacity, FindCandidate, NoCandidate, CountSlots,
           ReleaseSession, ReleaseDone, Crash, FileChanges
<1>3. QED
  BY <1>1, <1>2, TypeCorrect, PTL DEF Spec
=============================================================================
