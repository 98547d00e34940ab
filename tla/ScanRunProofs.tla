----------------------------- MODULE ScanRunProofs -----------------------------
(***************************************************************************)
(* Whatever overlapping scans, torn files and rehabilitations make of      *)
(* bad_models.json, no list speaks of more permanent failures of an age    *)
(* than scans recorded: a model is left out only for cause.                *)
(***************************************************************************)
EXTENDS ScanRun, FiniteSetTheorems, TLAPS

\* Where a list has the permanent failures of one age, and how many those are.
Places(fs, a) == {i \in DOMAIN fs : fs[i].permanent /\ fs[i].age = a}
CountAt(fs, a) == Cardinality(Places(fs, a))

\* A list of failures that save_bad may write.
Trimmed == {fs \in Seq(Failure) : Len(fs) <= MaxKept}

\* A list says no more than was recorded; past Threshold nobody counts.
Backed(fs, counts) ==
    \A a \in 0..Window - 1 : CountAt(fs, a) <= counts[a] \/ counts[a] >= Threshold

Counts == [Models -> [0..Window - 1 -> 0..Threshold]]

\* All the lists of b do so.
Sound(b, counts) ==
    /\ IsList(b, Trimmed)
    /\ \A m \in DOMAIN b : Backed(b[m], counts[m])

\* What a scan would load from the file is sound, and what every process holds.
IInv ==
    /\ TypeOK
    /\ Sound(Loaded(file), seen)
    /\ \A r \in Processes : Sound(bad[r], seen)

-----------------------------------------------------------------------------
(* One list of failures *)

\* A set of positions is finite.
LEMMA PositionsFinite ==
  ASSUME NEW fs \in Seq(Failure), NEW S \in SUBSET DOMAIN fs
  PROVE  /\ IsFiniteSet(S) /\ Cardinality(S) \in Nat
         /\ Cardinality(S) <= Len(fs)
<1>1. DOMAIN fs = 1..Len(fs) /\ Len(fs) \in Nat
  OBVIOUS
<1>2. /\ IsFiniteSet(1..Len(fs))
      /\ Cardinality(1..Len(fs)) = IF 1 > Len(fs) THEN 0 ELSE Len(fs) - 1 + 1
  BY <1>1, FS_Interval
<1> QED
  BY <1>1, <1>2, FS_Subset, FS_CardinalityType

\* Nothing is recorded in an empty list.
LEMMA EmptyIsBacked ==
  ASSUME NEW counts \in [0..Window - 1 -> 0..Threshold]
  PROVE  <<>> \in Trimmed /\ Backed(<<>>, counts)
<1>1. <<>> \in Seq(Failure) /\ Len(<<>>) = 0 /\ DOMAIN <<>> = {}
  OBVIOUS
<1>2. \A a : Places(<<>>, a) = {}
  BY <1>1 DEF Places
<1>3. \A a : CountAt(<<>>, a) = 0
  BY <1>2, FS_EmptySet DEF CountAt
<1>4. MaxKept \in Nat
  BY ScanAssumption
<1>5. \A a \in 0..Window - 1 : counts[a] >= 0
  OBVIOUS
<1> QED
  BY <1>1, <1>3, <1>4, <1>5 DEF Trimmed, Backed

\* If the failures of age a in gs come from different failures of age b in fs,
\* there are no more of them.
LEMMA FewerAt ==
  ASSUME NEW fs \in Seq(Failure), NEW gs \in Seq(Failure), NEW a, NEW b,
         NEW from, from \in [Places(gs, a) -> Places(fs, b)],
         \A i, j \in Places(gs, a) : from[i] = from[j] => i = j
  PROVE  CountAt(gs, a) <= CountAt(fs, b)
<1>1. from \in Injection(Places(gs, a), Places(fs, b))
  BY DEF Injection, IsInjective
<1>2. IsFiniteSet(Places(fs, b))
  BY PositionsFinite DEF Places
<1> QED
  BY <1>1, <1>2, FS_Injection DEF CountAt

\* The elements of a set of numbers that do not exceed i.
UpTo(K, i) == {j \in K : j <= i}

\* Their number tells the elements of a finite set apart, and takes every value
\* up to its size.
LEMMA NumberedInOrder ==
  ASSUME NEW K \in SUBSET Nat, IsFiniteSet(K)
  PROVE  /\ \A n \in 1..Cardinality(K) : \E i \in K : Cardinality(UpTo(K, i)) = n
         /\ \A i, k \in K : Cardinality(UpTo(K, i)) = Cardinality(UpTo(K, k)) => i = k
<1> DEFINE place == [i \in K |-> Cardinality(UpTo(K, i))]
<1>1. Cardinality(K) \in Nat
  BY FS_CardinalityType
<1>2. \A i \in K : /\ IsFiniteSet(UpTo(K, i)) /\ Cardinality(UpTo(K, i)) \in 1..Cardinality(K)
  <2>1. SUFFICES ASSUME NEW i \in K
                 PROVE  /\ IsFiniteSet(UpTo(K, i)) /\ Cardinality(UpTo(K, i)) \in 1..Cardinality(K)
    OBVIOUS
  <2>2. UpTo(K, i) \in SUBSET K /\ i \in UpTo(K, i)
    BY DEF UpTo
  <2>3. IsFiniteSet(UpTo(K, i)) /\ Cardinality(UpTo(K, i)) <= Cardinality(K)
    BY <2>2, FS_Subset
  <2>4. Cardinality(UpTo(K, i)) \in Nat /\ Cardinality(UpTo(K, i)) # 0
    BY <2>2, <2>3, FS_CardinalityType, FS_EmptySet
  <2> QED
    BY <1>1, <2>3, <2>4
<1>3. \A i, k \in K : Cardinality(UpTo(K, i)) = Cardinality(UpTo(K, k)) => i = k
  <2>1. SUFFICES ASSUME NEW i \in K, NEW k \in K, i < k,
                        Cardinality(UpTo(K, i)) = Cardinality(UpTo(K, k))
                 PROVE  FALSE
    OBVIOUS
  <2>2. UpTo(K, i) \in SUBSET UpTo(K, k)
    <3>1. \A j \in K : j <= i => j <= k
      BY <2>1
    <3> QED
      BY <3>1 DEF UpTo
  <2>3. k \in UpTo(K, k) /\ k \notin UpTo(K, i)
    BY <2>1 DEF UpTo
  <2>4. UpTo(K, k) = UpTo(K, i)
    BY <1>2, <2>1, <2>2, FS_Subset
  <2> QED
    BY <2>3, <2>4
<1>4. place \in Injection(K, 1..Cardinality(K))
  BY <1>2, <1>3 DEF Injection, IsInjective
<1>5. IsFiniteSet(1..Cardinality(K)) /\ Cardinality(1..Cardinality(K)) = Cardinality(K)
  BY <1>1, FS_Interval
<1>6. place \in Surjection(K, 1..Cardinality(K))
  BY <1>4, <1>5, FS_Injection
<1>7. \A n \in 1..Cardinality(K) : \E i \in K : Cardinality(UpTo(K, i)) = n
  BY <1>6 DEF Surjection
<1> QED
  BY <1>3, <1>7

-----------------------------------------------------------------------------
(* What becomes of a list *)

\* Another failure adds one to its own age and nothing to the others, and may push
\* the oldest entry out.
LEMMA FailureRecorded ==
  ASSUME NEW fs \in Trimmed, NEW permanent \in BOOLEAN
  PROVE  /\ RecordFailure(fs, permanent) \in Trimmed
         /\ \A a \in 0..Window - 1 :
               CountAt(RecordFailure(fs, permanent), a)
                 <= CountAt(fs, a) + (IF permanent /\ a = 0 THEN 1 ELSE 0)
<1> DEFINE all == Append(fs, [permanent |-> permanent, age |-> 0])
           d == IF Len(all) > MaxKept THEN Len(all) - MaxKept ELSE 0
           gs == RecordFailure(fs, permanent)
<1>0. MaxKept \in Nat /\ Window \in Nat /\ Window > 0
  BY ScanAssumption
<1>1. /\ fs \in Seq(Failure) /\ Len(fs) <= MaxKept /\ Len(fs) \in Nat
      /\ [permanent |-> permanent, age |-> 0] \in Failure
  BY <1>0 DEF Trimmed, Failure
<1>2. /\ all \in Seq(Failure) /\ Len(all) = Len(fs) + 1
      /\ \A i \in 1..Len(fs) : all[i] = fs[i]
      /\ all[Len(fs) + 1] = [permanent |-> permanent, age |-> 0]
  BY <1>1
<1>3. d \in 0..Len(fs) + 1 /\ Len(all) - d <= MaxKept
  BY <1>0, <1>1, <1>2
<1>4. gs = SubSeq(all, d + 1, Len(all))
  BY <1>0, <1>1, <1>2 DEF RecordFailure
<1> HIDE DEF all, d, gs
<1>5. /\ gs \in Seq(Failure) /\ Len(gs) = Len(all) - d
      /\ \A i \in 1..Len(gs) : gs[i] = all[d + i]
  BY <1>1, <1>2, <1>3, <1>4
<1>6. gs \in Trimmed
  BY <1>3, <1>5 DEF Trimmed
<1>7. ASSUME NEW a \in 0..Window - 1
      PROVE  CountAt(gs, a) <= CountAt(all, a)
  <2>1. ASSUME NEW i \in Places(gs, a)
        PROVE  d + i \in Places(all, a)
    <3>1. i \in 1..Len(gs) /\ gs[i].permanent /\ gs[i].age = a
      BY <1>5 DEF Places
    <3>2. gs[i] = all[d + i] /\ i \in 1..Len(all) - d
      BY <1>5, <3>1
    <3>3. d \in Nat /\ Len(all) \in Nat
      BY <1>1, <1>2, <1>3
    <3>4. d + i \in 1..Len(all)
      BY <3>2, <3>3
    <3>5. DOMAIN all = 1..Len(all)
      BY <1>2
    <3> QED
      BY <3>1, <3>2, <3>4, <3>5 DEF Places
  <2> DEFINE from == [i \in Places(gs, a) |-> d + i]
  <2>2. from \in [Places(gs, a) -> Places(all, a)]
    BY <2>1
  <2>3. \A i, j \in Places(gs, a) : from[i] = from[j] => i = j
    BY <1>3, <1>1, <1>5 DEF Places
  <2> HIDE DEF from
  <2> QED
    BY <1>2, <1>5, <2>2, <2>3, FewerAt
<1>8. ASSUME NEW a \in 0..Window - 1
      PROVE  CountAt(all, a) <= CountAt(fs, a) + (IF permanent /\ a = 0 THEN 1 ELSE 0)
  <2>1. IsFiniteSet(Places(fs, a)) /\ CountAt(fs, a) \in Nat
    BY <1>1, PositionsFinite DEF Places, CountAt
  <2>2. CASE permanent /\ a = 0
    <3>1. Places(all, a) = Places(fs, a) \cup {Len(fs) + 1}
      BY <1>1, <1>2, <2>2 DEF Places
    <3> QED
      <4>1. \/ Cardinality(Places(all, a)) = Cardinality(Places(fs, a))
            \/ Cardinality(Places(all, a)) = Cardinality(Places(fs, a)) + 1
        BY <2>1, <3>1, FS_AddElement
      <4> QED
        BY <4>1, <2>1, <2>2 DEF CountAt
  <2>3. CASE ~(permanent /\ a = 0)
    <3>1. Places(all, a) = Places(fs, a)
      BY <1>1, <1>2, <2>3 DEF Places
    <3> QED
      BY <2>1, <2>3, <3>1 DEF CountAt
  <2> QED
    BY <2>2, <2>3
<1>9. \A a \in 0..Window - 1 : /\ CountAt(gs, a) \in Nat /\ CountAt(all, a) \in Nat
                              /\ CountAt(fs, a) \in Nat
  BY <1>1, <1>2, <1>5, PositionsFinite DEF Places, CountAt
<1> QED
  BY <1>6, <1>7, <1>8, <1>9 DEF gs

\* A success keeps the permanent failures and no other.
LEMMA SuccessRecorded ==
  ASSUME NEW fs \in Trimmed
  PROVE  /\ RecordSuccess(fs) \in Trimmed
         /\ \A a \in 0..Window - 1 : CountAt(RecordSuccess(fs), a) <= CountAt(fs, a)
<1> DEFINE kept == {i \in DOMAIN fs : fs[i].permanent}
           Of(n) == CHOOSE i \in kept : Cardinality({j \in kept : j <= i}) = n
           gs == RecordSuccess(fs)
<1>1. fs \in Seq(Failure) /\ Len(fs) <= MaxKept /\ Len(fs) \in Nat /\ DOMAIN fs = 1..Len(fs)
  BY DEF Trimmed
<1>2. /\ kept \in SUBSET Nat /\ IsFiniteSet(kept) /\ Cardinality(kept) \in Nat
      /\ Cardinality(kept) <= Len(fs)
  BY <1>1, PositionsFinite
<1>3. \A n \in 1..Cardinality(kept) :
         Of(n) \in kept /\ Cardinality({j \in kept : j <= Of(n)}) = n
  <2>1. SUFFICES ASSUME NEW n \in 1..Cardinality(kept)
                 PROVE  Of(n) \in kept /\ Cardinality({j \in kept : j <= Of(n)}) = n
    OBVIOUS
  <2> HIDE DEF kept
  <2>2. \E i \in kept : Cardinality({j \in kept : j <= i}) = n
    BY <1>2, NumberedInOrder DEF UpTo
  <2> QED
    BY <2>2
<1>4. gs = [n \in 1..Cardinality(kept) |-> fs[Of(n)]]
  BY DEF RecordSuccess
<1> HIDE DEF gs, Of
<1>5. gs \in Seq(Failure) /\ Len(gs) = Cardinality(kept)
  <2>1. \A n \in 1..Cardinality(kept) : fs[Of(n)] \in Failure
    <3>1. \A i \in kept : fs[i] \in Failure
      BY <1>1
    <3> HIDE DEF kept
    <3> QED
      BY <1>3, <3>1
  <2> QED
    BY <1>2, <1>4, <2>1
<1>6. gs \in Trimmed
  BY <1>1, <1>2, <1>5, ScanAssumption DEF Trimmed
<1>7. ASSUME NEW a \in 0..Window - 1
      PROVE  CountAt(gs, a) <= CountAt(fs, a)
  <2>1. \A n \in Places(gs, a) : n \in 1..Cardinality(kept) /\ Of(n) \in Places(fs, a)
    BY <1>3, <1>4, <1>5 DEF Places
  <2> DEFINE from == [n \in Places(gs, a) |-> Of(n)]
  <2>2. from \in [Places(gs, a) -> Places(fs, a)]
    BY <2>1
  <2>3. \A n, o \in Places(gs, a) : from[n] = from[o] => n = o
    BY <1>3, <2>1
  <2> HIDE DEF from
  <2> QED
    BY <1>1, <1>5, <2>2, <2>3, FewerAt
<1> QED
  BY <1>6, <1>7 DEF gs

\* With time a failure passes from one age to the next.
LEMMA FailuresAge ==
  ASSUME NEW fs \in Seq(Failure)
  PROVE  /\ Aged(fs) \in Seq(Failure) /\ Len(Aged(fs)) = Len(fs)
         /\ CountAt(Aged(fs), 0) = 0
         /\ \A a \in 1..Window - 1 : CountAt(Aged(fs), a) <= CountAt(fs, a - 1)
<1> DEFINE gs == Aged(fs)
<1>0. Window \in Nat \ {0}
  BY ScanAssumption
<1>1. DOMAIN fs = 1..Len(fs) /\ Len(fs) \in Nat /\ \A i \in DOMAIN fs : fs[i] \in Failure
  OBVIOUS
<1>2. /\ DOMAIN gs = DOMAIN fs
      /\ \A i \in DOMAIN fs :
            /\ gs[i].permanent = fs[i].permanent
            /\ gs[i].age = IF fs[i].age < Window THEN fs[i].age + 1 ELSE fs[i].age
            /\ gs[i] \in Failure
  BY <1>0, <1>1 DEF Aged, Failure
<1>3. gs \in Seq(Failure) /\ Len(gs) = Len(fs)
  <2>1. gs = [i \in 1..Len(fs) |-> gs[i]]
    BY <1>1, <1>2 DEF Aged
  <2> HIDE DEF gs
  <2> QED
    BY <1>1, <1>2, <2>1
<1> HIDE DEF gs
<1>4. Places(gs, 0) = {}
  BY <1>0, <1>1, <1>2 DEF Places, Failure
<1>5. ASSUME NEW a \in 1..Window - 1
      PROVE  CountAt(gs, a) <= CountAt(fs, a - 1)
  <2>1. \A i \in Places(gs, a) : i \in Places(fs, a - 1)
    BY <1>0, <1>1, <1>2 DEF Places, Failure
  <2> DEFINE from == [i \in Places(gs, a) |-> i]
  <2>2. from \in [Places(gs, a) -> Places(fs, a - 1)]
    BY <2>1
  <2>3. \A i, j \in Places(gs, a) : from[i] = from[j] => i = j
    OBVIOUS
  <2> HIDE DEF from
  <2> QED
    BY <1>3, <2>2, <2>3, FewerAt
<1> QED
  BY <1>3, <1>4, <1>5, FS_EmptySet DEF CountAt, gs

-----------------------------------------------------------------------------
(* What becomes of all of them *)

\* A list of nothing says nothing.
LEMMA EmptySound ==
  ASSUME NEW counts
  PROVE  Sound(Empty, counts)
  BY DEF Empty, Sound, IsList

\* What is loaded from a sound list is sound: a count of the former format is no failure.
LEMMA LoadedSound ==
  ASSUME NEW b, NEW counts \in Counts, Sound(b, counts)
  PROVE  Sound(Loaded(b), counts)
<1>1. CASE IsParsed(b)
  <2>1. \A m \in DOMAIN b : m \in Models /\ <<>> \in Trimmed /\ Backed(<<>>, counts[m])
    BY EmptyIsBacked DEF Sound, IsList, Counts
  <2>2. DOMAIN Loaded(b) = DOMAIN b
    BY <1>1 DEF Loaded
  <2>3. \A m \in DOMAIN b : Loaded(b)[m] = <<>> \/ Loaded(b)[m] = b[m]
    BY <1>1 DEF Loaded
  <2> QED
    BY <2>1, <2>2, <2>3 DEF Sound, IsList
<1>2. CASE ~ IsParsed(b)
  BY <1>2, EmptySound DEF Loaded
<1> QED
  BY <1>1, <1>2

\* More recorded failures leave a sound list sound.
LEMMA MoreIsSound ==
  ASSUME NEW b, NEW counts \in Counts, NEW more \in Counts, Sound(b, counts),
         \A m \in Models : \A a \in 0..Window - 1 : counts[m][a] <= more[m][a]
  PROVE  Sound(b, more)
<1>1. ASSUME NEW m \in DOMAIN b, NEW a \in 0..Window - 1
      PROVE  CountAt(b[m], a) <= more[m][a] \/ more[m][a] >= Threshold
  <2>1. m \in Models /\ b[m] \in Seq(Failure)
    BY DEF Sound, IsList, Trimmed
  <2>2. CountAt(b[m], a) \in Nat
    BY <2>1, PositionsFinite DEF CountAt, Places
  <2>3. /\ counts[m][a] \in 0..Threshold /\ more[m][a] \in 0..Threshold
        /\ counts[m][a] <= more[m][a]
    BY <2>1 DEF Counts
  <2>4. CountAt(b[m], a) <= counts[m][a] \/ counts[m][a] >= Threshold
    BY DEF Sound, Backed
  <2> QED
    BY <2>2, <2>3, <2>4, ScanAssumption
<1> QED
  BY <1>1 DEF Sound, Backed

\* What a scan records in its copy was seen by everybody.
LEMMA UpdatedSound ==
  ASSUME NEW b, NEW counts \in Counts, Sound(b, counts),
         NEW S \in SUBSET Models, NEW v \in [S -> Verdicts], NEW more \in Counts,
         more = [m \in Models |-> IF m \in S /\ v[m] = "permanent" /\ counts[m][0] < Threshold
                                  THEN [counts[m] EXCEPT ![0] = @ + 1] ELSE counts[m]]
  PROVE  Sound(Updated(b, v), more)
<1>0. Window \in Nat \ {0} /\ Threshold \in Nat \ {0}
  BY ScanAssumption
<1>1. \A m \in Models : \A a \in 0..Window - 1 : counts[m][a] <= more[m][a]
  BY <1>0 DEF Counts
<1>2. Sound(b, more)
  BY <1>1, MoreIsSound
<1> DEFINE failing == {m \in DOMAIN v : v[m] \in {"permanent", "passing"}}
           c == Updated(b, v)
<1>3. DOMAIN c = DOMAIN b \cup failing /\ failing \subseteq S /\ DOMAIN b \subseteq Models
  BY DEF Updated, Sound, IsList
<1>4. ASSUME NEW m \in DOMAIN c
      PROVE  c[m] \in Trimmed /\ Backed(c[m], more[m])
  <2>0. m \in Models /\ counts[m] \in [0..Window - 1 -> 0..Threshold]
    BY <1>3 DEF Counts
  <2>1. CASE m \in failing
    <3> DEFINE fs == Failures(b, m)
               permanent == v[m] = "permanent"
    <3>1. c[m] = RecordFailure(fs, permanent)
      BY <2>1, <1>3 DEF Updated
    <3>2. fs \in Trimmed /\ Backed(fs, counts[m])
      BY <2>0, EmptyIsBacked DEF Failures, Sound, IsList
    <3>3. permanent \in BOOLEAN /\ m \in S
      BY <2>1, <1>3
    <3>4. \A a \in 0..Window - 1 :
             /\ counts[m][a] \in 0..Threshold
             /\ more[m][a] = IF permanent /\ counts[m][a] < Threshold /\ a = 0
                             THEN counts[m][a] + 1 ELSE counts[m][a]
      BY <2>0, <3>3, <1>0
    <3> HIDE DEF fs, permanent, c
    <3>5. /\ c[m] \in Trimmed
          /\ \A a \in 0..Window - 1 :
                CountAt(c[m], a) <= CountAt(fs, a) + (IF permanent /\ a = 0 THEN 1 ELSE 0)
      BY <3>1, <3>2, <3>3, FailureRecorded
    <3>6. ASSUME NEW a \in 0..Window - 1
          PROVE  CountAt(c[m], a) <= more[m][a] \/ more[m][a] >= Threshold
      <4>1. CountAt(c[m], a) \in Nat /\ CountAt(fs, a) \in Nat
        BY <3>2, <3>5, PositionsFinite DEF Trimmed, CountAt, Places
      <4>2. CountAt(fs, a) <= counts[m][a] \/ counts[m][a] >= Threshold
        BY <3>2 DEF Backed
      <4>3. CASE permanent /\ a = 0
        <5>1. CountAt(c[m], a) <= CountAt(fs, a) + 1
          BY <3>5, <4>3
        <5>2. /\ counts[m][a] \in 0..Threshold
              /\ more[m][a] = IF counts[m][a] < Threshold THEN counts[m][a] + 1
                              ELSE counts[m][a]
          BY <3>4, <4>3
        <5> QED
          BY <1>0, <4>1, <4>2, <5>1, <5>2
      <4>4. CASE ~ (permanent /\ a = 0)
        <5>1. CountAt(c[m], a) <= CountAt(fs, a) + 0
          BY <3>5, <4>4
        <5>2. counts[m][a] \in 0..Threshold /\ more[m][a] = counts[m][a]
          BY <3>4, <4>4
        <5> QED
          BY <1>0, <4>1, <4>2, <5>1, <5>2
      <4> QED
        BY <4>3, <4>4
    <3> QED
      BY <3>5, <3>6 DEF Backed
  <2>2. CASE m \notin failing /\ m \in DOMAIN v /\ v[m] = "accessible"
    <3>1. c[m] = RecordSuccess(b[m]) /\ m \in DOMAIN b
      BY <2>2, <1>3 DEF Updated
    <3>2. b[m] \in Trimmed /\ Backed(b[m], more[m])
      BY <3>1, <1>2 DEF Sound, IsList
    <3>3. c[m] \in Trimmed /\ \A a \in 0..Window - 1 : CountAt(c[m], a) <= CountAt(b[m], a)
      BY <3>1, <3>2, SuccessRecorded
    <3>4. \A a \in 0..Window - 1 : CountAt(c[m], a) \in Nat /\ CountAt(b[m], a) \in Nat
      BY <3>2, <3>3, PositionsFinite DEF Trimmed, CountAt, Places
    <3>5. \A a \in 0..Window - 1 : more[m][a] \in 0..Threshold
      BY <2>0 DEF Counts
    <3> QED
      BY <1>0, <3>2, <3>3, <3>4, <3>5 DEF Backed
  <2>3. CASE m \notin failing /\ ~ (m \in DOMAIN v /\ v[m] = "accessible")
    <3>1. c[m] = b[m] /\ m \in DOMAIN b
      BY <2>3, <1>3 DEF Updated
    <3> QED
      BY <3>1, <1>2 DEF Sound, IsList
  <2> QED
    BY <2>1, <2>2, <2>3
<1> QED
  BY <1>3, <1>4 DEF Sound, IsList

\* Failures and what was seen of them grow old together.
LEMMA AgedSound ==
  ASSUME NEW b, NEW counts \in Counts, Sound(b, counts), NEW older \in Counts,
         older = [m \in Models |-> [a \in 0..Window - 1 |->
                     IF a = 0 THEN 0 ELSE counts[m][a - 1]]]
  PROVE  Sound([m \in DOMAIN b |-> Aged(b[m])], older)
<1>0. Window \in Nat \ {0} /\ Threshold \in Nat \ {0}
  BY ScanAssumption
<1>1. ASSUME NEW m \in DOMAIN b
      PROVE  m \in Models /\ Aged(b[m]) \in Trimmed /\ Backed(Aged(b[m]), older[m])
  <2>1. m \in Models /\ b[m] \in Trimmed /\ b[m] \in Seq(Failure) /\ Backed(b[m], counts[m])
    BY DEF Sound, IsList, Trimmed
  <2>2. /\ Aged(b[m]) \in Seq(Failure) /\ Len(Aged(b[m])) = Len(b[m])
        /\ CountAt(Aged(b[m]), 0) = 0
        /\ \A a \in 1..Window - 1 : CountAt(Aged(b[m]), a) <= CountAt(b[m], a - 1)
    BY <2>1, FailuresAge
  <2>3. Aged(b[m]) \in Trimmed
    BY <2>1, <2>2 DEF Trimmed
  <2>4. \A a : CountAt(Aged(b[m]), a) \in Nat /\ CountAt(b[m], a) \in Nat
    BY <2>1, <2>2, PositionsFinite DEF CountAt, Places
  <2>5. ASSUME NEW a \in 0..Window - 1
        PROVE  CountAt(Aged(b[m]), a) <= older[m][a] \/ older[m][a] >= Threshold
    <3>1. CASE a = 0
      BY <1>0, <2>1, <2>2, <3>1
    <3>2. CASE a # 0
      <4>1. a \in 1..Window - 1 /\ a - 1 \in 0..Window - 1
        BY <1>0, <3>2
      <4>2. older[m][a] = counts[m][a - 1] /\ counts[m][a - 1] \in 0..Threshold
        BY <2>1, <3>2, <4>1 DEF Counts
      <4>3. CountAt(b[m], a - 1) <= counts[m][a - 1] \/ counts[m][a - 1] >= Threshold
        BY <2>1, <4>1 DEF Backed
      <4> QED
        BY <2>2, <2>4, <4>1, <4>2, <4>3
    <3> QED
      BY <3>1, <3>2
  <2> QED
    BY <2>1, <2>3, <2>5 DEF Backed
<1> QED
  BY <1>1 DEF Sound, IsList

\* A model is left out of a sound list only for Threshold recorded failures: each
\* recent one of the list stands for one of those of its age.
LEMMA SoundSkips ==
  ASSUME NEW b, seen \in Counts, Sound(b, seen), NEW m \in Models, Skipped(b, m)
  PROVE  Cardinality(Recorded(m)) >= Threshold
<1> DEFINE fs == Failures(b, m)
           recent == {i \in DOMAIN fs : fs[i].permanent /\ fs[i].age < Window}
           Rank(i) == Cardinality(UpTo(Places(fs, fs[i].age), i))
<1>0. /\ Window \in Nat \ {0} /\ Threshold \in Nat \ {0}
      /\ seen[m] \in [0..Window - 1 -> 0..Threshold]
  BY ScanAssumption DEF Counts
<1>1. fs \in Seq(Failure) /\ Backed(fs, seen[m]) /\ Cardinality(recent) >= Threshold
  BY <1>0, EmptyIsBacked DEF Failures, Sound, IsList, Trimmed, Skipped
<1>2. IsFiniteSet(Recorded(m)) /\ Cardinality(Recorded(m)) \in Nat
  <2>1. IsFiniteSet((0..Window - 1) \X (1..Threshold))
    <3>1. IsFiniteSet(0..Window - 1) /\ IsFiniteSet(1..Threshold)
      BY <1>0, FS_Interval
    <3> QED
      BY <3>1, FS_Product
  <2>2. Recorded(m) \in SUBSET ((0..Window - 1) \X (1..Threshold))
    BY DEF Recorded
  <2> QED
    BY <2>1, <2>2, FS_Subset, FS_CardinalityType
<1> HIDE DEF fs
<1>3. CASE \E a \in 0..Window - 1 : seen[m][a] >= Threshold
  <2>1. PICK a \in 0..Window - 1 : seen[m][a] = Threshold
    BY <1>0, <1>3
  <2> DEFINE all == [n \in 1..Threshold |-> <<a, n>>]
  <2>2. all \in [1..Threshold -> Recorded(m)]
    BY <1>0, <2>1 DEF Recorded
  <2>3. \A n, o \in 1..Threshold : all[n] = all[o] => n = o
    OBVIOUS
  <2> HIDE DEF all
  <2>4. all \in Injection(1..Threshold, Recorded(m))
    BY <2>2, <2>3 DEF Injection, IsInjective
  <2>5. Cardinality(1..Threshold) = Threshold
    BY <1>0, FS_Interval
  <2>6. Cardinality(1..Threshold) <= Cardinality(Recorded(m))
    BY <1>2, <2>4, FS_Injection
  <2> QED
    BY <1>0, <1>2, <2>5, <2>6
<1>4. CASE \A a \in 0..Window - 1 : seen[m][a] < Threshold
  <2>1. \A a \in 0..Window - 1 :
           /\ IsFiniteSet(Places(fs, a)) /\ Places(fs, a) \in SUBSET Nat
           /\ Cardinality(Places(fs, a)) \in Nat
           /\ Cardinality(Places(fs, a)) <= seen[m][a]
    <3>1. \A a : Places(fs, a) \in SUBSET DOMAIN fs
      BY DEF Places
    <3>2. DOMAIN fs \subseteq Nat
      BY <1>1
    <3>3. \A a : IsFiniteSet(Places(fs, a)) /\ Cardinality(Places(fs, a)) \in Nat
      BY <1>1, <3>1, PositionsFinite
    <3>4. \A a \in 0..Window - 1 : seen[m][a] \in 0..Threshold /\ ~ (seen[m][a] >= Threshold)
      BY <1>0, <1>4
    <3> QED
      BY <1>1, <3>1, <3>2, <3>3, <3>4 DEF Backed, CountAt
  <2>2. \A i \in recent : fs[i].age \in 0..Window - 1 /\ i \in Places(fs, fs[i].age)
    <3>0. \A i \in DOMAIN fs : fs[i] \in Failure
      BY <1>1
    <3>1. \A i \in DOMAIN fs : fs[i].age \in 0..Window
      BY <3>0 DEF Failure
    <3> QED
      BY <1>0, <3>1 DEF Places
  <2>3. \A i \in recent : Rank(i) \in 1..seen[m][fs[i].age]
    <3>1. SUFFICES ASSUME NEW i \in recent
                   PROVE  Rank(i) \in 1..seen[m][fs[i].age]
      OBVIOUS
    <3> DEFINE S == Places(fs, fs[i].age)
               T == UpTo(S, i)
    <3>2. IsFiniteSet(S) /\ i \in S /\ i \in Nat /\ Cardinality(S) <= seen[m][fs[i].age]
          /\ Cardinality(S) \in Nat /\ seen[m][fs[i].age] \in Nat
      BY <1>0, <2>1, <2>2
    <3>3. i \in T /\ T \in SUBSET S
      BY <3>2 DEF UpTo
    <3> HIDE DEF S, T
    <3>4. IsFiniteSet(T) /\ Cardinality(T) \in Nat /\ Cardinality(T) # 0
          /\ Cardinality(T) <= Cardinality(S)
      BY <3>2, <3>3, FS_Subset, FS_CardinalityType, FS_EmptySet
    <3>5. Cardinality(T) \in 1..seen[m][fs[i].age]
      BY <3>2, <3>4
    <3> QED
      BY <3>5 DEF T, S
  <2> DEFINE known == [i \in recent |-> <<fs[i].age, Rank(i)>>]
  <2>4. known \in [recent -> Recorded(m)]
    <3>1. ASSUME NEW i \in recent
          PROVE  <<fs[i].age, Rank(i)>> \in Recorded(m)
      <4>1. fs[i].age \in 0..Window - 1 /\ seen[m][fs[i].age] \in 0..Threshold
        BY <1>0, <2>2
      <4>2. Rank(i) \in 1..seen[m][fs[i].age]
        BY <2>3
      <4> HIDE DEF Rank
      <4> QED
        BY <1>0, <4>1, <4>2 DEF Recorded
    <3> HIDE DEF Rank, recent
    <3> QED
      BY <3>1
  <2>5. \A i, k \in recent : known[i] = known[k] => i = k
    <3>1. SUFFICES ASSUME NEW i \in recent, NEW k \in recent,
                          fs[i].age = fs[k].age, Rank(i) = Rank(k)
                   PROVE  i = k
      OBVIOUS
    <3> DEFINE S == Places(fs, fs[i].age)
    <3>2. IsFiniteSet(S) /\ S \in SUBSET Nat /\ i \in S /\ k \in S
      BY <2>1, <2>2, <3>1
    <3>3. Cardinality(UpTo(S, i)) = Cardinality(UpTo(S, k))
      BY <3>1
    <3> HIDE DEF S
    <3> QED
      BY <3>2, <3>3, NumberedInOrder
  <2>6. known \in Injection(recent, Recorded(m))
    <3> HIDE DEF known, recent
    <3> QED
      BY <2>4, <2>5 DEF Injection, IsInjective
  <2>7. recent \in SUBSET DOMAIN fs
    OBVIOUS
  <2>8. Cardinality(recent) \in Nat
    BY <1>1, <2>7, PositionsFinite
  <2> HIDE DEF known, recent
  <2>9. Cardinality(recent) <= Cardinality(Recorded(m))
    BY <1>2, <2>6, FS_Injection
  <2> QED
    BY <1>0, <1>1, <1>2, <2>8, <2>9
<1>5. \A a \in 0..Window - 1 : seen[m][a] >= Threshold \/ seen[m][a] < Threshold
  BY <1>0
<1> QED
  BY <1>3, <1>4, <1>5

-----------------------------------------------------------------------------
(* Every step *)

\* Initially nothing was recorded, and a list in the former format says nothing.
LEMMA InitIInv == Init => IInv
<1> SUFFICES ASSUME Init PROVE IInv
  OBVIOUS
<1>1. seen \in Counts
  BY ScanAssumption DEF Init, Counts
<1>2. TypeOK
  BY <1>1, ScanAssumption DEF Init, TypeOK, IsList, Empty, Counts
<1>3. Sound(Loaded(file), seen)
  <2>1. CASE file = NoFile
    BY <2>1, EmptySound DEF Loaded, IsParsed
  <2>2. CASE file = [m \in Models |-> Legacy]
    <3>1. CASE IsParsed(file)
      <4>1. /\ DOMAIN Loaded(file) = Models
            /\ \A m \in Models : Loaded(file)[m] = <<>>
        BY <2>2, <3>1 DEF Loaded
      <4>2. \A m \in Models : <<>> \in Trimmed /\ Backed(<<>>, seen[m])
        BY <1>1, EmptyIsBacked DEF Counts
      <4> QED
        BY <4>1, <4>2 DEF Sound, IsList
    <3> QED
      BY <3>1, EmptySound DEF Loaded
  <2> QED
    BY <2>1, <2>2 DEF Init
<1> QED
  BY <1>2, <1>3, EmptySound DEF Init, IInv

\* A step that records nothing has to leave sound lists, in the file and in hand.
LEMMA SameCounts ==
  ASSUME IInv, UNCHANGED seen, TypeOK', Sound(Loaded(file'), seen),
         \A r \in Processes : Sound(bad'[r], seen)
  PROVE  IInv'
  BY DEF IInv

\* A file that does not parse, or none, is loaded as a sound list.
LEMMA TornIsSound ==
  ASSUME NEW f \in {NoFile, Torn}
  PROVE  Sound(Loaded(f), seen)
  BY EmptySound DEF Loaded, IsParsed

\* Sound lists have the type of lists.
LEMMA SoundType ==
  ASSUME NEW b, NEW counts, Sound(b, counts)
  PROVE  /\ IsList(b, Seq(Failure)) /\ IsList(b, Seq(Failure) \cup {Legacy})
         /\ \A m \in DOMAIN b : Len(b[m]) <= MaxKept
  BY DEF Sound, IsList, Trimmed

\* No step makes any list say more than was recorded.
LEMMA NextIInv ==
  ASSUME IInv, [Next]_vars
  PROVE  IInv'
<1>0. /\ seen \in Counts /\ Window \in Nat \ {0} /\ Threshold \in Nat \ {0}
      /\ TypeOK /\ Sound(Loaded(file), seen) /\ \A r \in Processes : Sound(bad[r], seen)
  BY ScanAssumption DEF IInv, TypeOK, Counts
<1>1. ASSUME NEW r \in Processes, Load(r)
      PROVE  IInv'
  <2>1. /\ bad' = [bad EXCEPT ![r] = Loaded(file)]
        /\ UNCHANGED <<file, listed, seen>>
        /\ pc' = [pc EXCEPT ![r] = IF HasLegacy(file) THEN "migrate" ELSE "loaded"]
    BY <1>1 DEF Load, Become
  <2>2. DOMAIN bad' = Processes /\ \A x \in Processes : Sound(bad'[x], seen)
    BY <1>0, <2>1 DEF TypeOK
  <2>3. TypeOK'
    BY <1>0, <2>1, <2>2, SoundType DEF TypeOK
  <2> QED
    BY <1>0, <2>1, <2>2, <2>3, SameCounts
<1>2. ASSUME NEW r \in Processes, NEW m \in Models, Rehabilitate(r, m)
      PROVE  IInv'
  <2> DEFINE b == Restrict(Loaded(file), DOMAIN Loaded(file) \ {m})
  <2>1. /\ bad' = [bad EXCEPT ![r] = b]
        /\ UNCHANGED <<file, listed, seen>>
        /\ pc' = [pc EXCEPT ![r] = "save"]
    BY <1>2 DEF Rehabilitate, Become
  <2>2. Sound(b, seen)
    BY <1>0 DEF Restrict, Sound, IsList
  <2> HIDE DEF b
  <2>3. DOMAIN bad' = Processes /\ \A x \in Processes : Sound(bad'[x], seen)
    BY <1>0, <2>1, <2>2 DEF TypeOK
  <2>4. TypeOK'
    BY <1>0, <2>1, <2>3, SoundType DEF TypeOK
  <2> QED
    BY <1>0, <2>1, <2>3, <2>4, SameCounts
<1>3. ASSUME NEW r \in Processes, NEW catalogue \in SUBSET Models, List(r, catalogue)
      PROVE  IInv'
  <2>1. /\ UNCHANGED <<file, bad, seen>>
        /\ pc' = [pc EXCEPT ![r] = "probing"]
        /\ listed' = [listed EXCEPT ![r] = {m \in catalogue \ Blocklist : ~ Skipped(bad[r], m)}]
    BY <1>3 DEF List, Become
  <2>2. TypeOK'
    BY <1>0, <2>1 DEF TypeOK
  <2> QED
    BY <1>0, <2>1, <2>2, SameCounts
<1>4. ASSUME NEW r \in Processes, Record(r)
      PROVE  IInv'
  <2>1. PICK v \in [listed[r] -> Verdicts] :
           /\ bad' = [bad EXCEPT ![r] = Updated(bad[r], v)]
           /\ seen' = [m \in Models |->
                         IF m \in listed[r] /\ v[m] = "permanent" /\ seen[m][0] < Threshold
                         THEN [seen[m] EXCEPT ![0] = seen[m][0] + 1] ELSE seen[m]]
    BY <1>4 DEF Record
  <2>2. /\ listed' = [listed EXCEPT ![r] = {}] /\ UNCHANGED file
        /\ pc' = [pc EXCEPT ![r] = "save"]
    BY <1>4 DEF Record, Become
  <2>3. listed[r] \in SUBSET Models
    BY <1>0 DEF TypeOK
  <2>4. seen' \in Counts
    <3>1. \A m \in Models : seen'[m] \in [0..Window - 1 -> 0..Threshold]
      BY <1>0, <2>1 DEF Counts
    <3> QED
      BY <2>1, <3>1 DEF Counts
  <2>5. Sound(Updated(bad[r], v), seen')
    BY <1>0, <2>1, <2>3, <2>4, UpdatedSound
  <2>6. \A m \in Models : \A a \in 0..Window - 1 : seen[m][a] <= seen'[m][a]
    BY <1>0, <2>1 DEF Counts
  <2>7. Sound(Loaded(file'), seen')
    BY <1>0, <2>2, <2>4, <2>6, MoreIsSound
  <2>8. DOMAIN bad' = Processes /\ \A x \in Processes : Sound(bad'[x], seen')
    BY <1>0, <2>1, <2>4, <2>5, <2>6, MoreIsSound DEF TypeOK
  <2>9. TypeOK'
    BY <1>0, <2>2, <2>4, <2>8, SoundType DEF TypeOK, Counts
  <2> QED
    BY <2>7, <2>8, <2>9 DEF IInv
<1>5. ASSUME NEW r \in Processes, OpenBad(r)
      PROVE  IInv'
  <2>1. /\ file' = Torn /\ UNCHANGED <<bad, listed, seen>>
        /\ pc' = [pc EXCEPT ![r] = IF pc[r] = "save" THEN "saving" ELSE "migrating"]
    BY <1>5 DEF OpenBad, Become
  <2>2. TypeOK'
    BY <1>0, <2>1 DEF TypeOK
  <2> QED
    BY <1>0, <2>1, <2>2, SameCounts, TornIsSound
<1>6. ASSUME NEW r \in Processes, WriteBad(r)
      PROVE  IInv'
  <2>1. /\ file' \in {bad[r], Torn} /\ UNCHANGED <<listed, seen>>
        /\ bad' \in {bad, [bad EXCEPT ![r] = Empty]}
        /\ pc' \in {[pc EXCEPT ![r] = "idle"], [pc EXCEPT ![r] = "loaded"]}
    BY <1>6 DEF WriteBad, Become
  <2>2. DOMAIN bad' = Processes /\ \A x \in Processes : Sound(bad'[x], seen)
    BY <1>0, <2>1, EmptySound DEF TypeOK
  <2>3. Sound(Loaded(file'), seen)
    BY <1>0, <2>1, LoadedSound, TornIsSound
  <2>4. file' \in {NoFile, Torn} \/ IsList(file', Seq(Failure) \cup {Legacy})
    BY <1>0, <2>1, SoundType
  <2>5. TypeOK'
    BY <1>0, <2>1, <2>2, <2>4, SoundType DEF TypeOK
  <2> QED
    BY <2>1, <2>2, <2>3, <2>5, SameCounts
<1>7. ASSUME NEW r \in Processes, MigrationFails(r)
      PROVE  IInv'
  <2>1. /\ file' = Torn /\ UNCHANGED <<listed, seen>>
        /\ bad' = [bad EXCEPT ![r] = Empty]
        /\ pc' = [pc EXCEPT ![r] = "loaded"]
    BY <1>7 DEF MigrationFails, Become
  <2>2. DOMAIN bad' = Processes /\ \A x \in Processes : Sound(bad'[x], seen)
    BY <1>0, <2>1, EmptySound DEF TypeOK
  <2>3. TypeOK'
    BY <1>0, <2>1, <2>2, SoundType DEF TypeOK
  <2> QED
    BY <2>1, <2>2, <2>3, SameCounts, TornIsSound
<1>8. ASSUME NEW r \in Processes, Stop(r)
      PROVE  IInv'
  <2>1. /\ file' \in {file, Torn} /\ UNCHANGED seen
        /\ bad' = [bad EXCEPT ![r] = Empty]
        /\ listed' = [listed EXCEPT ![r] = {}]
        /\ pc' = [pc EXCEPT ![r] = "idle"]
    BY <1>8 DEF Stop, Become
  <2>2. DOMAIN bad' = Processes /\ \A x \in Processes : Sound(bad'[x], seen)
    BY <1>0, <2>1, EmptySound DEF TypeOK
  <2>3. Sound(Loaded(file'), seen)
    BY <1>0, <2>1, TornIsSound
  <2>4. TypeOK'
    BY <1>0, <2>1, <2>2, SoundType DEF TypeOK
  <2> QED
    BY <2>1, <2>2, <2>3, <2>4, SameCounts
<1>9. ASSUME ClearCache
      PROVE  IInv'
  <2>1. file' = NoFile /\ UNCHANGED <<pc, bad, listed, seen>>
    BY <1>9 DEF ClearCache
  <2>2. TypeOK'
    BY <1>0, <2>1 DEF TypeOK
  <2> QED
    BY <1>0, <2>1, <2>2, SameCounts, TornIsSound
<1>10. ASSUME Tick
       PROVE  IInv'
  <2>1. /\ bad' = [r \in Processes |-> [m \in DOMAIN bad[r] |-> Aged(bad[r][m])]]
        /\ seen' = [m \in Models |-> [a \in 0..Window - 1 |->
                       IF a = 0 THEN 0 ELSE seen[m][a - 1]]]
        /\ UNCHANGED <<pc, listed>>
    BY <1>10 DEF Tick
  <2>2. seen' \in Counts
    <3>1. \A m \in Models, a \in 0..Window - 1 :
             (IF a = 0 THEN 0 ELSE seen[m][a - 1]) \in 0..Threshold
      BY <1>0 DEF Counts
    <3> QED
      BY <2>1, <3>1 DEF Counts
  <2>3. \A r \in Processes : Sound(bad'[r], seen')
    BY <1>0, <2>1, <2>2, AgedSound
  <2>4. /\ Sound(Loaded(file'), seen')
        /\ file' \in {NoFile, Torn} \/ IsList(file', Seq(Failure) \cup {Legacy})
    <3>1. CASE ~ IsParsed(file)
      <4>1. file' = file /\ file \in {NoFile, Torn}
        BY <1>10, <3>1 DEF Tick, IsParsed
      <4> QED
        BY <4>1, EmptySound DEF Loaded, IsParsed
    <3>2. CASE IsParsed(file)
      <4> DEFINE old == Loaded(file)
                 aged == [m \in DOMAIN old |-> Aged(old[m])]
      <4>1. /\ file' = [m \in DOMAIN file |->
                          IF file[m] = Legacy THEN Legacy ELSE Aged(file[m])]
            /\ old = [m \in DOMAIN file |-> IF file[m] = Legacy THEN <<>> ELSE file[m]]
        BY <1>10, <3>2 DEF Tick, Loaded
      <4>2. Sound(aged, seen')
        BY <1>0, <2>1, <2>2, AgedSound
      <4>3. \A m \in DOMAIN file : m \in Models /\ <<>> \in Trimmed /\ Backed(<<>>, seen'[m])
        <5>1. DOMAIN file \subseteq Models
          BY <1>0, <3>2 DEF TypeOK, IsParsed, IsList
        <5> QED
          BY <2>2, <5>1, EmptyIsBacked DEF Counts
      <4>4. \A m \in DOMAIN file : file'[m] = Legacy \/ file'[m] = aged[m]
        BY <4>1
      <4>5. DOMAIN aged = DOMAIN file /\ DOMAIN file' = DOMAIN file
        BY <4>1
      <4> HIDE DEF aged, old
      <4>6. \A m \in DOMAIN file : aged[m] \in Trimmed /\ Backed(aged[m], seen'[m])
        BY <4>2, <4>5 DEF Sound, IsList
      <4>7. IsList(file', Seq(Failure) \cup {Legacy})
        BY <4>3, <4>4, <4>5, <4>6 DEF IsList, Trimmed
      <4>8. CASE IsParsed(file')
        <5>1. /\ DOMAIN Loaded(file') = DOMAIN file
              /\ \A m \in DOMAIN file : Loaded(file')[m] = <<>> \/ Loaded(file')[m] = aged[m]
          BY <4>4, <4>5, <4>8 DEF Loaded
        <5> QED
          BY <4>3, <4>6, <4>7, <5>1 DEF Sound, IsList
      <4>9. CASE ~ IsParsed(file')
        BY <4>7, <4>9, EmptySound DEF Loaded
      <4> QED
        BY <4>8, <4>9
    <3> QED
      BY <3>1, <3>2
  <2>5. DOMAIN bad' = Processes
    BY <2>1
  <2>6. TypeOK'
    BY <1>0, <2>1, <2>2, <2>3, <2>4, <2>5, SoundType DEF TypeOK, Counts
  <2> QED
    BY <2>3, <2>4, <2>6 DEF IInv
<1>11. ASSUME UNCHANGED vars
       PROVE  IInv'
  <2>1. UNCHANGED <<file, pc, bad, listed, seen>>
    BY <1>11 DEF vars
  <2>2. TypeOK'
    BY <1>0, <2>1 DEF TypeOK
  <2> QED
    BY <1>0, <2>1, <2>2, SameCounts
<1> QED
  BY <1>1, <1>2, <1>3, <1>4, <1>5, <1>6, <1>7, <1>8, <1>9, <1>10, <1>11 DEF Next, Proceed

-----------------------------------------------------------------------------
(* What is proved of a run *)

\* Type correctness: lists of at most MaxKept failures, no blocklisted candidate
\* (load_bad, record_failure, run_scan).
THEOREM TypeCorrect == Spec => []TypeOK
<1>1. Init => IInv
  BY InitIInv
<1>2. IInv /\ [Next]_vars => IInv'
  BY NextIInv
<1>3. IInv => TypeOK
  BY DEF IInv
<1> QED
  BY <1>1, <1>2, <1>3, PTL DEF Spec

\* A scan leaves a model out only for Threshold permanent failures that scans really
\* recorded within the window, for any number of overlapping scans (is_bad, save_bad).
THEOREM LeftOutForCause == Spec => []SkippedForCause
<1>1. Init => IInv
  BY InitIInv
<1>2. IInv /\ [Next]_vars => IInv'
  BY NextIInv
<1>3. IInv => SkippedForCause
  <2>1. SUFFICES ASSUME IInv, NEW r \in Processes, NEW m \in Models, Skipped(bad[r], m)
                 PROVE  Cardinality(Recorded(m)) >= Threshold
    BY DEF SkippedForCause
  <2>2. seen \in Counts /\ Sound(bad[r], seen)
    BY <2>1 DEF IInv, TypeOK, Counts
  <2> QED
    BY <2>1, <2>2, SoundSkips
<1> QED
  BY <1>1, <1>2, <1>3, PTL DEF Spec
================================================================================
