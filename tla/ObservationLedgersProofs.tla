---------------------- MODULE ObservationLedgersProofs ----------------------
(***************************************************************************)
(* At-most-once counting and the partial-failure bookkeeping of observe,   *)
(* for any number of workers, outcomes, window, crashes and redeliveries.  *)
(***************************************************************************)
EXTENDS ObservationLedgers, SequenceTheorems, FiniteSetTheorems, TLAPS

\* What Put does to the ledger's file, spelled out.
LEMMA PutType ==
  ASSUME file \in [Ledgers -> Seq(Line)],
         NEW l \in Ledgers, NEW e \in Events,
         NEW whole \in BOOLEAN, NEW ended \in BOOLEAN,
         Put(l, e, whole, ended)
  PROVE  file' \in [Ledgers -> Seq(Line)]
<1> DEFINE n == Len(file[l])
           x == [e |-> e, ok |-> FALSE, ended |-> ended]
           y == [e |-> e, ok |-> whole, ended |-> ended]
<1>1. file[l] \in Seq(Line) /\ x \in Line /\ y \in Line
  BY DEF Line
<1>2. CASE n > 0 /\ ~file[l][n].ended
  <2>1. file' = [file EXCEPT ![l] = [file[l] EXCEPT ![n] = x]]
    BY <1>2 DEF Put
  <2>2. [file[l] EXCEPT ![n] = x] \in Seq(Line)
    BY <1>1, <1>2, ExceptSeq
  <2>3. QED
    BY <2>1, <2>2
<1>3. CASE ~(n > 0 /\ ~file[l][n].ended)
  <2>1. file' = [file EXCEPT ![l] = Append(file[l], y)]
    BY <1>3 DEF Put
  <2>2. QED
    BY <1>1, <2>1
<1>4. QED
  BY <1>2, <1>3

LEMMA PutPartType ==
  ASSUME file \in [Ledgers -> Seq(Line)],
         NEW l \in Ledgers, NEW e \in Events,
         PutPart(l, e) \/ Put(l, e, TRUE, TRUE)
  PROVE  file' \in [Ledgers -> Seq(Line)]
BY PutType DEF PutPart

\* Going on to the quota ledger or returning leaves the worker well typed.
LEMMA ProceedType ==
  ASSUME TypeOK, NEW w \in Workers, job[w] \in Events, Proceed(w)
  PROVE  /\ pc' \in [Workers -> {"idle", "open", "scan", "append"}]
         /\ at' \in [Workers -> Ledgers]
         /\ job' \in [Workers -> Events \cup {Nobody}]
         /\ returned' \subseteq Events
         /\ \A x \in Workers : pc'[x] # "idle" => job'[x] \in Events
<1>1. CASE Open(w, job[w], "quota")
  BY <1>1 DEF Open, TypeOK, Ledgers
<1>2. CASE Return(w, job[w])
  BY <1>2 DEF Return, TypeOK, Ledgers
<1>3. QED
  BY <1>1, <1>2 DEF Proceed

\* Type correctness: every busy worker has an outcome and a ledger.
THEOREM TypeCorrect == Spec => []TypeOK
<1>1. Init => TypeOK
  BY DEF Init, TypeOK, Ledgers
<1>2. TypeOK /\ [Next]_vars => TypeOK'
  <2> SUFFICES ASSUME TypeOK, [Next]_vars PROVE TypeOK'
    OBVIOUS
  <2> USE DEF TypeOK
  <2>1. ASSUME NEW w \in Workers, NEW e \in Events, Deliver(w, e)
        PROVE  TypeOK'
    BY <2>1 DEF Deliver, Open, Return, Ledgers
  <2>2. ASSUME NEW w \in Workers, Lock(w)
        PROVE  TypeOK'
    BY <2>2 DEF Lock
  <2>3. ASSUME NEW w \in Workers, ScanDuplicate(w)
        PROVE  TypeOK'
    BY <2>3, ProceedType DEF ScanDuplicate, Unlock
  <2>4. ASSUME NEW w \in Workers, ScanFresh(w)
        PROVE  TypeOK'
    BY <2>4 DEF ScanFresh
  <2>5. ASSUME NEW w \in Workers, AppendLine(w)
        PROVE  TypeOK'
    <3>1. file' \in [Ledgers -> Seq(Line)]
      BY <2>5, PutType DEF AppendLine
    <3>2. QED
      <4>1. job[w] \in Events /\ at[w] \in Ledgers
        BY <2>5 DEF AppendLine
      <4>2. recorded' \subseteq Ledgers \X Events
        BY <2>5, <4>1 DEF AppendLine
      <4>3. lock' \in [Ledgers -> Workers \cup {Nobody}]
        BY <2>5, <4>1 DEF AppendLine, Unlock
      <4>4. failed' = failed /\ redeliveries' = redeliveries
            /\ interruptions' = interruptions /\ Proceed(w)
        BY <2>5 DEF AppendLine
      <4>5. QED
        BY <3>1, <4>1, <4>2, <4>3, <4>4, ProceedType
  <2>6. ASSUME NEW w \in Workers, AppendFails(w)
        PROVE  TypeOK'
    <3>1. file' \in [Ledgers -> Seq(Line)]
      BY <2>6, PutPartType DEF AppendFails
    <3>2. QED
      <4>1. job[w] \in Events /\ at[w] \in Ledgers
        BY <2>6 DEF AppendFails
      <4>2. failed' \subseteq Ledgers \X Events
        BY <2>6, <4>1 DEF AppendFails
      <4>3. lock' \in [Ledgers -> Workers \cup {Nobody}]
        BY <2>6, <4>1 DEF AppendFails, Unlock
      <4>4. recorded' = recorded /\ redeliveries' = redeliveries
            /\ interruptions' \in Nat /\ Proceed(w)
        BY <2>6 DEF AppendFails
      <4>5. QED
        BY <3>1, <4>1, <4>2, <4>3, <4>4, ProceedType
  <2>7. ASSUME NEW w \in Workers, Crash(w)
        PROVE  TypeOK'
    <3>1. file' \in [Ledgers -> Seq(Line)]
      BY <2>7, PutPartType DEF Crash
    <3>2. QED
      BY <2>7, <3>1 DEF Crash, Unlock, Ledgers
  <2>8. CASE UNCHANGED vars
    BY <2>8 DEF vars
  <2>9. QED
    BY <2>1, <2>2, <2>3, <2>4, <2>5, <2>6, <2>7, <2>8 DEF Next, Observe
<1>3. QED
  BY <1>1, <1>2, PTL DEF Spec

-----------------------------------------------------------------------------
(* At most once *)

\* A worker that scans or appends holds the lock of its ledger, and between
\* its scan and its write the outcome stays absent from the scanned tail.
LockInv ==
    \A w \in Workers : pc[w] \in {"scan", "append"} => lock[at[w]] = w

FreshInv ==
    \A w \in Workers : pc[w] = "append" => ~Duplicate(at[w], job[w])

OnceInv == LockInv /\ FreshInv /\ NoDoubleCount

\* A write concerns one ledger: what is readable in another stays the same.
LEMMA PutElsewhere ==
  ASSUME TypeOK, NEW l \in Ledgers, NEW e \in Events,
         NEW whole \in BOOLEAN, NEW ended \in BOOLEAN,
         Put(l, e, whole, ended), NEW k \in Ledgers, k # l
  PROVE  file'[k] = file[k]
BY DEF Put, TypeOK

\* A write that finds the last line unended is glued to it; any other adds a
\* line of its own.  The lines before stay.
Glues(l) == Len(file[l]) > 0 /\ ~file[l][Len(file[l])].ended

LEMMA PutLines ==
  ASSUME TypeOK, NEW l \in Ledgers, NEW e \in Events,
         NEW whole \in BOOLEAN, NEW ended \in BOOLEAN,
         Put(l, e, whole, ended)
  PROVE  LET n == Len(file[l]) IN
         /\ n \in Nat
         /\ Glues(l) =>
              /\ n > 0 /\ Len(file'[l]) = n
              /\ file'[l][n] = [e |-> e, ok |-> FALSE, ended |-> ended]
              /\ \A m \in 1..n : m # n => file'[l][m] = file[l][m]
         /\ ~Glues(l) =>
              /\ Len(file'[l]) = n + 1
              /\ file'[l][n + 1] = [e |-> e, ok |-> whole, ended |-> ended]
              /\ \A m \in 1..n : file'[l][m] = file[l][m]
<1> DEFINE n == Len(file[l])
           x == [e |-> e, ok |-> FALSE, ended |-> ended]
           y == [e |-> e, ok |-> whole, ended |-> ended]
<1>0. file[l] \in Seq(Line)
  BY DEF TypeOK
<1>1. n \in Nat /\ y \in Line
  BY <1>0 DEF Line
<1>2. CASE Glues(l)
  <2>1. file'[l] = [file[l] EXCEPT ![n] = x]
    BY <1>2 DEF Put, TypeOK, Glues
  <2>2. QED
    BY <1>0, <1>1, <1>2, <2>1 DEF Glues
<1>3. CASE ~Glues(l)
  <2>1. file'[l] = Append(file[l], y)
    BY <1>3 DEF Put, TypeOK, Glues
  <2>2. QED
    BY <1>0, <1>1, <1>3, <2>1
<1>4. QED
  BY <1>2, <1>3

\* Writing a record makes no other request readable that was not.
LEMMA PutReveals ==
  ASSUME TypeOK, NEW l \in Ledgers, NEW e \in Events,
         NEW whole \in BOOLEAN, NEW ended \in BOOLEAN,
         Put(l, e, whole, ended), NEW i \in Readable(l)'
  PROVE  \/ i \in Readable(l) /\ file'[l][i] = file[l][i]
         \/ i = Len(file'[l]) /\ file'[l][i].e = e
<1> DEFINE n == Len(file[l])
<1>1. /\ i \in 1..Len(file'[l]) /\ i > Len(file'[l]) - RowsScanned
      /\ file'[l][i].ok
  BY DEF Readable, Scanned
<1>2. RowsScanned \in Nat
  BY LedgerAssumption
<1>3. CASE Glues(l)
  <2>1. /\ n \in Nat /\ n > 0 /\ Len(file'[l]) = n
        /\ file'[l][n] = [e |-> e, ok |-> FALSE, ended |-> ended]
        /\ \A m \in 1..n : m # n => file'[l][m] = file[l][m]
    BY <1>3, PutLines
  <2> HIDE DEF n
  <2>2. i # n /\ i \in 1..n /\ i > n - RowsScanned
    BY <1>1, <2>1
  <2>3. QED
    BY <1>1, <2>1, <2>2 DEF Readable, Scanned, n
<1>4. CASE ~Glues(l)
  <2>1. /\ n \in Nat /\ Len(file'[l]) = n + 1
        /\ file'[l][n + 1] = [e |-> e, ok |-> whole, ended |-> ended]
        /\ \A m \in 1..n : file'[l][m] = file[l][m]
    BY <1>4, PutLines
  <2> HIDE DEF n
  <2>2. i # n + 1 => i \in 1..n /\ i > n - RowsScanned
    BY <1>1, <1>2, <2>1
  <2>3. QED
    BY <1>1, <2>1, <2>2 DEF Readable, Scanned, n
<1>5. QED
  BY <1>3, <1>4

\* A record absent from the scanned tail can be written, whole or damaged,
\* without any request being counted twice.
LEMMA PutOnce ==
  ASSUME TypeOK, NoDoubleCount, NEW l \in Ledgers, NEW e \in Events,
         NEW whole \in BOOLEAN, NEW ended \in BOOLEAN,
         Put(l, e, whole, ended), ~Duplicate(l, e)
  PROVE  NoDoubleCount'
<1> SUFFICES ASSUME NEW k \in Ledgers,
                    NEW i \in Readable(k)', NEW j \in Readable(k)',
                    file'[k][i].e = file'[k][j].e
             PROVE  i = j
  BY DEF NoDoubleCount
<1>1. CASE k # l
  <2>1. file'[k] = file[k]
    BY <1>1, PutElsewhere
  <2>2. i \in Readable(k) /\ j \in Readable(k)
    BY <2>1 DEF Readable, Scanned
  <2>3. QED
    BY <2>1, <2>2 DEF NoDoubleCount
<1>2. CASE k = l
  <2>1. \A m \in Readable(l) : file[l][m].e # e
    BY DEF Duplicate
  <2>2. \A m \in {i, j} :
          \/ m \in Readable(l) /\ file'[l][m] = file[l][m]
          \/ m = Len(file'[l]) /\ file'[l][m].e = e
    BY <1>2, PutReveals
  <2>3. QED
    BY <1>2, <2>1, <2>2 DEF NoDoubleCount
<1>3. QED
  BY <1>1, <1>2

\* The writer of a ledger, by its lock, is alone between scan and write.
LEMMA WriteKeepsOnce ==
  ASSUME TypeOK, OnceInv, NEW w \in Workers, pc[w] = "append",
         PutPart(at[w], job[w]) \/ Put(at[w], job[w], TRUE, TRUE),
         lock' = [lock EXCEPT ![at[w]] = Nobody],
         pc'[w] \notin {"scan", "append"},
         \A x \in Workers \ {w} :
            pc'[x] = pc[x] /\ at'[x] = at[x] /\ job'[x] = job[x]
  PROVE  OnceInv'
<1>1. at[w] \in Ledgers /\ job[w] \in Events /\ ~Duplicate(at[w], job[w])
  BY DEF TypeOK, OnceInv, FreshInv
<1>2. NoDoubleCount'
  <2>1. CASE UNCHANGED file
    BY <2>1 DEF OnceInv, NoDoubleCount, Readable, Scanned
  <2>2. CASE ~UNCHANGED file
    BY <1>1, <2>2, PutOnce DEF PutPart, OnceInv
  <2>3. QED
    BY <2>1, <2>2
<1>3. \A x \in Workers \ {w} : pc[x] \in {"scan", "append"} => at[x] # at[w]
  BY LedgerAssumption DEF OnceInv, LockInv
<1>4. LockInv'
  BY <1>1, <1>3 DEF OnceInv, LockInv, TypeOK
<1>5. \A k \in Ledgers \ {at[w]} : file'[k] = file[k]
  BY <1>1, PutElsewhere DEF PutPart
<1>6. FreshInv'
  <2> SUFFICES ASSUME NEW x \in Workers, pc'[x] = "append"
               PROVE  ~Duplicate(at[x], job[x])'
    BY DEF FreshInv
  <2>1. x # w /\ pc[x] = "append" /\ at'[x] = at[x] /\ job'[x] = job[x]
    OBVIOUS
  <2>2. at[x] \in Ledgers \ {at[w]}
    BY <1>3, <2>1 DEF TypeOK
  <2>3. file'[at[x]] = file[at[x]]
    BY <1>5, <2>2
  <2>4. ~Duplicate(at[x], job[x])
    BY <2>1 DEF OnceInv, FreshInv
  <2>5. QED
    BY <2>1, <2>3, <2>4 DEF Duplicate, Readable, Scanned
<1>7. QED
  BY <1>2, <1>4, <1>6 DEF OnceInv

\* Proceed moves only its own worker, out of the critical section.
LEMMA ProceedLeaves ==
  ASSUME TypeOK, NEW w \in Workers, Proceed(w)
  PROVE  /\ pc'[w] \notin {"scan", "append"}
         /\ \A x \in Workers \ {w} :
               pc'[x] = pc[x] /\ at'[x] = at[x] /\ job'[x] = job[x]
<1>1. CASE Open(w, job[w], "quota")
  BY <1>1 DEF Open, TypeOK
<1>2. CASE Return(w, job[w])
  BY <1>2 DEF Return, TypeOK
<1>3. QED
  BY <1>1, <1>2 DEF Proceed

LEMMA OnceInvariant == Spec => []OnceInv
<1>1. Init => OnceInv
  BY DEF Init, OnceInv, LockInv, FreshInv, NoDoubleCount, Readable, Scanned
<1>2. TypeOK /\ OnceInv /\ [Next]_vars => OnceInv'
  <2> SUFFICES ASSUME TypeOK, OnceInv, [Next]_vars PROVE OnceInv'
    OBVIOUS
  <2>0. ASSUME UNCHANGED file,
               \A x \in Workers :
                  \/ pc'[x] \notin {"scan", "append"}
                  \/ /\ at'[x] = at[x] /\ job'[x] = job[x]
                     /\ lock'[at[x]] = x
                     /\ pc'[x] = "append" =>
                          pc[x] = "append" \/ ~Duplicate(at[x], job[x])
        PROVE  OnceInv'
    BY <2>0 DEF OnceInv, LockInv, FreshInv, NoDoubleCount, Duplicate,
                Readable, Scanned
  <2>1. ASSUME NEW w \in Workers, NEW e \in Events, Deliver(w, e)
        PROVE  OnceInv'
    <3>1. /\ pc'[w] \notin {"scan", "append"}
          /\ \A x \in Workers \ {w} :
                pc'[x] = pc[x] /\ at'[x] = at[x] /\ job'[x] = job[x]
      BY <2>1 DEF Deliver, Open, Return, TypeOK
    <3>2. UNCHANGED <<file, lock>>
      BY <2>1 DEF Deliver
    <3>3. QED
      BY <2>0, <3>1, <3>2 DEF OnceInv, LockInv
  <2>2. ASSUME NEW w \in Workers, Lock(w)
        PROVE  OnceInv'
    BY <2>0, <2>2, LedgerAssumption DEF Lock, OnceInv, LockInv, TypeOK
  <2>3. ASSUME NEW w \in Workers, ScanDuplicate(w)
        PROVE  OnceInv'
    <3>1. /\ pc'[w] \notin {"scan", "append"}
          /\ \A x \in Workers \ {w} :
                pc'[x] = pc[x] /\ at'[x] = at[x] /\ job'[x] = job[x]
      BY <2>3, ProceedLeaves DEF ScanDuplicate
    <3>2. /\ file' = file /\ pc[w] = "scan"
          /\ lock' = [lock EXCEPT ![at[w]] = Nobody]
      BY <2>3 DEF ScanDuplicate, Unlock
    <3>3. \A x \in Workers \ {w} : pc[x] \in {"scan", "append"} => at[x] # at[w]
      BY <3>2 DEF OnceInv, LockInv
    <3>4. QED
      BY <2>0, <3>1, <3>2, <3>3 DEF OnceInv, LockInv, TypeOK
  <2>4. ASSUME NEW w \in Workers, ScanFresh(w)
        PROVE  OnceInv'
    BY <2>0, <2>4 DEF ScanFresh, OnceInv, LockInv, TypeOK
  <2>5. ASSUME NEW w \in Workers, AppendLine(w)
        PROVE  OnceInv'
    <3>1. /\ pc'[w] \notin {"scan", "append"}
          /\ \A x \in Workers \ {w} :
                pc'[x] = pc[x] /\ at'[x] = at[x] /\ job'[x] = job[x]
      BY <2>5, ProceedLeaves DEF AppendLine
    <3>2. QED
      BY <2>5, <3>1, WriteKeepsOnce DEF AppendLine, Unlock
  <2>6. ASSUME NEW w \in Workers, AppendFails(w)
        PROVE  OnceInv'
    <3>1. /\ pc'[w] \notin {"scan", "append"}
          /\ \A x \in Workers \ {w} :
                pc'[x] = pc[x] /\ at'[x] = at[x] /\ job'[x] = job[x]
      BY <2>6, ProceedLeaves DEF AppendFails
    <3>2. QED
      BY <2>6, <3>1, WriteKeepsOnce DEF AppendFails, Unlock
  <2>7. ASSUME NEW w \in Workers, Crash(w)
        PROVE  OnceInv'
    <3>1. /\ pc'[w] \notin {"scan", "append"}
          /\ \A x \in Workers \ {w} :
                pc'[x] = pc[x] /\ at'[x] = at[x] /\ job'[x] = job[x]
      BY <2>7 DEF Crash, TypeOK
    <3>2. CASE pc[w] = "append"
      BY <2>7, <3>1, <3>2, WriteKeepsOnce DEF Crash, Unlock
    <3>3. CASE pc[w] = "scan"
      <4>1. file' = file /\ lock' = [lock EXCEPT ![at[w]] = Nobody]
        BY <2>7, <3>3 DEF Crash, Unlock
      <4>2. \A x \in Workers \ {w} :
              pc[x] \in {"scan", "append"} => at[x] # at[w]
        BY <3>3 DEF OnceInv, LockInv
      <4>3. QED
        BY <2>0, <3>1, <4>1, <4>2 DEF OnceInv, LockInv, TypeOK
    <3>4. CASE pc[w] \notin {"scan", "append"}
      <4>1. UNCHANGED <<file, lock>>
        BY <2>7, <3>4 DEF Crash
      <4>2. QED
        BY <2>0, <3>1, <4>1 DEF OnceInv, LockInv
    <3>5. QED
      BY <3>2, <3>3, <3>4
  <2>8. CASE UNCHANGED vars
    BY <2>8, <2>0 DEF vars, OnceInv, LockInv
  <2>9. QED
    BY <2>1, <2>2, <2>3, <2>4, <2>5, <2>6, <2>7, <2>8 DEF Next, Observe
<1>3. QED
  BY <1>1, <1>2, TypeCorrect, PTL DEF Spec

\* No reader of either ledger ever sees a request twice.
THEOREM AtMostOnce == Spec => []NoDoubleCount
<1>1. OnceInv => NoDoubleCount
  BY DEF OnceInv
<1>2. QED
  BY <1>1, OnceInvariant, PTL

-----------------------------------------------------------------------------
(* Nothing is dropped between the two ledgers *)

\* A busy worker that has come to the quota ledger has settled the spend
\* ledger, and a callback that returned has settled both.
Settled == recorded \cup failed

BusyInv ==
    \A w \in Workers : pc[w] # "idle" =>
        /\ job[w] \in Keyed /\ at[w] \in Targets(job[w])
        /\ \A l \in Targets(job[w]) : at[w] = "quota" /\ l # "quota" =>
              <<l, job[w]>> \in Settled

AccountInv == BusyInv /\ ReturnedIsAccounted

\* Settling the ledger at hand and proceeding keeps the account.
LEMMA ProceedAccounts ==
  ASSUME TypeOK, AccountInv, NEW w \in Workers, pc[w] # "idle", Proceed(w),
         recorded \subseteq recorded', failed \subseteq failed',
         <<at[w], job[w]>> \in recorded' \cup failed'
  PROVE  AccountInv'
<1> DEFINE e == job[w]
<1>1. /\ e \in Keyed /\ at[w] \in Targets(e)
      /\ \A l \in Targets(e) : at[w] = "quota" /\ l # "quota" =>
            <<l, e>> \in recorded \cup failed
  BY DEF AccountInv, BusyInv, Settled
<1>2. \A x \in Workers \ {w} : pc'[x] = pc[x] /\ at'[x] = at[x] /\ job'[x] = job[x]
  BY ProceedLeaves
<1>3. CASE at[w] = "spend" /\ "quota" \in Targets(e)
  <2>1. Open(w, e, "quota")
    BY <1>3 DEF Proceed
  <2>2. returned' = returned /\ at'[w] = "quota" /\ job'[w] = e
    BY <2>1 DEF Open, TypeOK
  <2>3. BusyInv'
    <3> SUFFICES ASSUME NEW x \in Workers, pc'[x] # "idle"
                 PROVE  /\ job'[x] \in Keyed /\ at'[x] \in Targets(job'[x])
                        /\ \A l \in Targets(job'[x]) :
                              at'[x] = "quota" /\ l # "quota" =>
                                <<l, job'[x]>> \in recorded' \cup failed'
      BY DEF BusyInv, Settled, Targets
    <3>1. CASE x = w
      BY <1>1, <1>3, <2>2, <3>1 DEF Targets, Ledgers
    <3>2. CASE x # w
      BY <1>2, <3>2 DEF AccountInv, BusyInv, Settled
    <3>3. QED
      BY <3>1, <3>2
  <2>4. ReturnedIsAccounted'
    BY <2>2 DEF AccountInv, ReturnedIsAccounted, Targets
  <2>5. QED
    BY <2>3, <2>4 DEF AccountInv
<1>4. CASE ~(at[w] = "spend" /\ "quota" \in Targets(e))
  <2>1. Return(w, e)
    BY <1>4 DEF Proceed
  <2>2. returned' = returned \cup {e} /\ pc'[w] = "idle"
    BY <2>1 DEF Return, TypeOK
  <2>3. BusyInv'
    <3> SUFFICES ASSUME NEW x \in Workers, pc'[x] # "idle"
                 PROVE  /\ job'[x] \in Keyed /\ at'[x] \in Targets(job'[x])
                        /\ \A l \in Targets(job'[x]) :
                              at'[x] = "quota" /\ l # "quota" =>
                                <<l, job'[x]>> \in recorded' \cup failed'
      BY DEF BusyInv, Settled, Targets
    <3>1. QED
      BY <1>2, <2>2 DEF AccountInv, BusyInv, Settled
  <2>4. \A l \in Targets(e) : <<l, e>> \in recorded' \cup failed'
    BY <1>1, <1>4 DEF Targets, Ledgers
  <2>5. ReturnedIsAccounted'
    BY <2>2, <2>4 DEF AccountInv, ReturnedIsAccounted, Targets
  <2>6. QED
    BY <2>3, <2>5 DEF AccountInv
<1>5. QED
  BY <1>3, <1>4

LEMMA AccountInvariant == Spec => []AccountInv
<1>1. Init => AccountInv
  BY DEF Init, AccountInv, BusyInv, ReturnedIsAccounted
<1>2. TypeOK /\ AccountInv /\ [Next]_vars => AccountInv'
  <2> SUFFICES ASSUME TypeOK, AccountInv, [Next]_vars PROVE AccountInv'
    OBVIOUS
  <2>0. ASSUME UNCHANGED <<returned, recorded, failed>>,
               \A x \in Workers : pc'[x] # "idle" =>
                  pc[x] # "idle" /\ at'[x] = at[x] /\ job'[x] = job[x]
        PROVE  AccountInv'
    BY <2>0 DEF AccountInv, BusyInv, ReturnedIsAccounted, Settled, Targets
  <2>1. ASSUME NEW w \in Workers, NEW e \in Events, Deliver(w, e)
        PROVE  AccountInv'
    <3>1. CASE e \notin Keyed \/ Targets(e) = {}
      BY <2>1, <3>1 DEF Deliver, Return, AccountInv, BusyInv,
                        ReturnedIsAccounted, Settled, Targets, TypeOK
    <3>2. CASE e \in Keyed /\ Targets(e) # {}
      <4>1. PICK l \in Targets(e) :
              Open(w, e, l) /\ (l = "quota" => "spend" \notin Targets(e))
        BY <2>1, <3>2 DEF Deliver, Targets, Ledgers
      <4>2. UNCHANGED <<returned, recorded, failed>>
        BY <2>1, <4>1 DEF Deliver, Open
      <4>3. QED
        BY <3>2, <4>1, <4>2 DEF Open, AccountInv, BusyInv, ReturnedIsAccounted,
                                Settled, Targets, Ledgers, TypeOK
    <3>3. QED
      BY <3>1, <3>2
  <2>2. ASSUME NEW w \in Workers, Lock(w)
        PROVE  AccountInv'
    BY <2>0, <2>2 DEF Lock, TypeOK
  <2>3. ASSUME NEW w \in Workers, ScanDuplicate(w)
        PROVE  AccountInv'
    BY <2>3, ProceedAccounts DEF ScanDuplicate
  <2>4. ASSUME NEW w \in Workers, ScanFresh(w)
        PROVE  AccountInv'
    BY <2>0, <2>4 DEF ScanFresh, TypeOK
  <2>5. ASSUME NEW w \in Workers, AppendLine(w)
        PROVE  AccountInv'
    BY <2>5, ProceedAccounts DEF AppendLine
  <2>6. ASSUME NEW w \in Workers, AppendFails(w)
        PROVE  AccountInv'
    BY <2>6, ProceedAccounts DEF AppendFails
  <2>7. ASSUME NEW w \in Workers, Crash(w)
        PROVE  AccountInv'
    BY <2>0, <2>7 DEF Crash, TypeOK
  <2>8. CASE UNCHANGED vars
    BY <2>0, <2>8 DEF vars
  <2>9. QED
    BY <2>1, <2>2, <2>3, <2>4, <2>5, <2>6, <2>7, <2>8 DEF Next, Observe
<1>3. QED
  BY <1>1, <1>2, TypeCorrect, PTL DEF Spec

\* A callback that returned left every ledger its outcome concerns written or
\* reported as failed: the quota ledger is never skipped on a spend failure.
THEOREM NothingSkipped == Spec => []ReturnedIsAccounted
<1>1. AccountInv => ReturnedIsAccounted
  BY DEF AccountInv
<1>2. QED
  BY <1>1, AccountInvariant, PTL

-----------------------------------------------------------------------------
(* The account book *)

\* Every change of a ledger is one record put under its lock, of a request the
\* tail did not show.
LEMMA FileChanges ==
  ASSUME TypeOK, OnceInv, [Next]_vars, NEW l \in Ledgers
  PROVE  \/ file'[l] = file[l]
         \/ \E e \in Events : /\ ~Duplicate(l, e)
                              /\ \E whole, ended \in BOOLEAN :
                                    Put(l, e, whole, ended)
<1>1. ASSUME NEW w \in Workers, pc[w] = "append",
             PutPart(at[w], job[w]) \/ Put(at[w], job[w], TRUE, TRUE)
      PROVE  \/ file'[l] = file[l]
             \/ \E e \in Events : /\ ~Duplicate(l, e)
                                  /\ \E whole, ended \in BOOLEAN :
                                        Put(l, e, whole, ended)
  <2>1. at[w] \in Ledgers /\ job[w] \in Events /\ ~Duplicate(at[w], job[w])
    BY <1>1 DEF TypeOK, OnceInv, FreshInv
  <2>2. CASE UNCHANGED file
    BY <2>2
  <2>3. CASE ~UNCHANGED file
    <3>1. \E whole, ended \in BOOLEAN : Put(at[w], job[w], whole, ended)
      BY <1>1, <2>3 DEF PutPart
    <3>2. CASE at[w] = l
      BY <2>1, <3>1, <3>2
    <3>3. CASE at[w] # l
      BY <2>1, <3>1, <3>3, PutElsewhere
    <3>4. QED
      BY <3>2, <3>3
  <2>4. QED
    BY <2>2, <2>3
<1>2. \/ UNCHANGED file
      \/ \E w \in Workers :
            /\ pc[w] = "append"
            /\ PutPart(at[w], job[w]) \/ Put(at[w], job[w], TRUE, TRUE)
  BY DEF Next, Observe, Deliver, Lock, ScanDuplicate, ScanFresh, AppendLine,
         AppendFails, Crash, vars
<1>3. QED
  BY <1>1, <1>2

\* Read through the window, a ledger counts a request once or not at all.
Shown(l) == [e \in Events |-> IF Duplicate(l, e) THEN 1 ELSE 0]

LEMMA CountIsShown ==
  ASSUME NoDoubleCount, NEW l \in Ledgers
  PROVE  Count(l) = Shown(l)
<1> SUFFICES ASSUME NEW e \in Events
             PROVE  Cardinality({i \in Readable(l) : file[l][i].e = e}) =
                      IF Duplicate(l, e) THEN 1 ELSE 0
  BY DEF Count, Shown
<1>1. CASE ~Duplicate(l, e)
  <2>1. {i \in Readable(l) : file[l][i].e = e} = {}
    BY <1>1 DEF Duplicate
  <2>2. QED
    BY <1>1, <2>1, FS_EmptySet
<1>2. CASE Duplicate(l, e)
  <2>1. PICK i \in Readable(l) : file[l][i].e = e
    BY <1>2 DEF Duplicate
  <2>2. {j \in Readable(l) : file[l][j].e = e} = {i}
    BY <2>1 DEF NoDoubleCount
  <2>3. QED
    BY <1>2, <2>2, FS_Singleton
<1>3. QED
  BY <1>1, <1>2

\* What a step does to what a ledger shows: it may hide requests, and reveals
\* at most the one it records.
LEMMA ShownSteps ==
  ASSUME TypeOK, OnceInv, [Next]_vars, NEW l \in Ledgers
  PROVE  \/ \A r \in Events : Shown(l)'[r] <= Shown(l)[r]
         \/ \E e \in Events :
              /\ Shown(l)[e] = 0 /\ Shown(l)'[e] = 1
              /\ \A r \in Events \ {e} : Shown(l)'[r] <= Shown(l)[r]
<1>1. CASE file'[l] = file[l]
  BY <1>1 DEF Shown, Duplicate, Readable, Scanned
<1>2. ASSUME NEW e \in Events, ~Duplicate(l, e),
             NEW whole \in BOOLEAN, NEW ended \in BOOLEAN,
             Put(l, e, whole, ended)
      PROVE  \/ \A r \in Events : Shown(l)'[r] <= Shown(l)[r]
             \/ /\ Shown(l)[e] = 0 /\ Shown(l)'[e] = 1
                /\ \A r \in Events \ {e} : Shown(l)'[r] <= Shown(l)[r]
  <2>1. \A r \in Events \ {e} : Duplicate(l, r)' => Duplicate(l, r)
    BY <1>2, PutReveals DEF Duplicate
  <2>2. \A r \in Events \ {e} : Shown(l)'[r] <= Shown(l)[r]
    BY <2>1 DEF Shown
  <2>3. Shown(l)[e] = 0 /\ Shown(l)'[e] \in {0, 1}
    BY <1>2 DEF Shown
  <2>4. QED
    BY <2>2, <2>3
<1>3. QED
  BY <1>1, <1>2, FileChanges

\* Each ledger implements the account book: as its readers see it, no step of
\* any worker, crash or torn write counts two requests or one request twice.
THEOREM BooksBalance == Spec => CountsOnce
<1> DEFINE Read == \A l \in Ledgers : Count(l) = Shown(l)
<1>1. NoDoubleCount => Read
  BY CountIsShown
<1>2. Init => \A l \in Ledgers : Shown(l) = [e \in Events |-> 0]
  BY DEF Init, Shown, Duplicate, Readable, Scanned
<1>3. Read /\ Init => SpendBook!Init /\ QuotaBook!Init
  BY <1>2 DEF SpendBook!Init, QuotaBook!Init, Ledgers
<1>4. \A l \in Ledgers : Shown(l) \in [Events -> {0, 1}]
  BY DEF Shown
<1>5. TypeOK /\ OnceInv /\ Read /\ Read' /\ [Next]_vars
        => SpendBook!Next /\ QuotaBook!Next
  <2> SUFFICES ASSUME TypeOK, OnceInv, Read, Read', [Next]_vars
               PROVE  SpendBook!Next /\ QuotaBook!Next
    OBVIOUS
  <2>1. \A l \in Ledgers :
          /\ Count(l) = Shown(l) /\ Count(l)' = Shown(l)'
          /\ Shown(l)' \in [Events -> {0, 1}]
    BY DEF Shown
  <2>2. SpendBook!Next
    <3>1. "spend" \in Ledgers
      BY DEF Ledgers
    <3>2. CASE \A r \in Events : Shown("spend")'[r] <= Shown("spend")[r]
      <4>1. SpendBook!Forget
        BY <2>1, <3>1, <3>2 DEF SpendBook!Forget, SpendBook!Forgets
      <4>2. QED
        BY <4>1 DEF SpendBook!Next
    <3>3. ASSUME NEW e \in Events,
                 Shown("spend")[e] = 0, Shown("spend")'[e] = 1,
                 \A r \in Events \ {e} : Shown("spend")'[r] <= Shown("spend")[r]
          PROVE  SpendBook!Next
      <4>1. SpendBook!Count(e)
        BY <2>1, <3>1, <3>3 DEF SpendBook!Count, SpendBook!Forgets
      <4>2. QED
        BY <4>1 DEF SpendBook!Next
    <3>4. QED
      BY <3>1, <3>2, <3>3, ShownSteps
  <2>3. QuotaBook!Next
    <3>1. "quota" \in Ledgers
      BY DEF Ledgers
    <3>2. CASE \A r \in Events : Shown("quota")'[r] <= Shown("quota")[r]
      <4>1. QuotaBook!Forget
        BY <2>1, <3>1, <3>2 DEF QuotaBook!Forget, QuotaBook!Forgets
      <4>2. QED
        BY <4>1 DEF QuotaBook!Next
    <3>3. ASSUME NEW e \in Events,
                 Shown("quota")[e] = 0, Shown("quota")'[e] = 1,
                 \A r \in Events \ {e} : Shown("quota")'[r] <= Shown("quota")[r]
          PROVE  QuotaBook!Next
      <4>1. QuotaBook!Count(e)
        BY <2>1, <3>1, <3>3 DEF QuotaBook!Count, QuotaBook!Forgets
      <4>2. QED
        BY <4>1 DEF QuotaBook!Next
    <3>4. QED
      BY <3>1, <3>2, <3>3, ShownSteps
  <2>4. QED
    BY <2>2, <2>3
<1>6. QED
  BY <1>1, <1>3, <1>5, TypeCorrect, OnceInvariant, AtMostOnce, PTL
  DEF Spec, CountsOnce, SpendBook!Spec, QuotaBook!Spec

-----------------------------------------------------------------------------
(* How much an interruption can lose *)

\* What a ledger may still lose to the interruptions so far: an unended last
\* line takes the next record with it, and itself when it is whole.
Debt(l) ==
    LET n == Len(file[l]) IN
    IF n = 0 \/ file[l][n].ended THEN 0 ELSE IF file[l][n].ok THEN 2 ELSE 1

LossInv ==
    /\ IsFiniteSet(recorded)
    /\ Cardinality(Lost) + Debt("spend") + Debt("quota") <= 2 * interruptions

LEMMA OneMore ==
  ASSUME NEW S, IsFiniteSet(S), NEW a, NEW T, T \subseteq S \cup {a}
  PROVE  /\ IsFiniteSet(T) /\ Cardinality(T) \in Nat /\ Cardinality(S) \in Nat
         /\ Cardinality(T) <= Cardinality(S) + 1
<1> DEFINE U == S \cup {a}
<1>1. Cardinality(S) \in Nat
  BY FS_CardinalityType
<1>2. /\ IsFiniteSet(U)
      /\ Cardinality(U) = IF a \in S THEN Cardinality(S) ELSE Cardinality(S) + 1
  BY FS_AddElement
<1>3. Cardinality(U) \in Nat /\ Cardinality(U) <= Cardinality(S) + 1
  BY <1>1, <1>2
<1> HIDE DEF U
<1>4. /\ IsFiniteSet(T) /\ Cardinality(T) <= Cardinality(U)
      /\ Cardinality(T) \in Nat
  <2>1. T \subseteq U
    BY DEF U
  <2>2. IsFiniteSet(T) /\ Cardinality(T) <= Cardinality(U)
    BY <1>2, <2>1, FS_Subset
  <2>3. QED
    BY <2>2, FS_CardinalityType
<1>5. QED
  BY <1>1, <1>3, <1>4

\* The acknowledged outcomes a write can cost: the one on the unended line it
\* is glued to, when that line was whole, and its own.
LEMMA PutKeeps ==
  ASSUME TypeOK, NEW l \in Ledgers, NEW e \in Events,
         NEW whole \in BOOLEAN, NEW ended \in BOOLEAN,
         Put(l, e, whole, ended)
  PROVE  /\ ~Glues(l) => /\ Kept(l) \subseteq Kept(l)'
                         /\ whole => e \in Kept(l)'
                         /\ Debt(l) = 0
                         /\ Debt(l)' = IF ended THEN 0 ELSE IF whole THEN 2 ELSE 1
         /\ Glues(l) =>
              /\ Kept(l) \subseteq Kept(l)' \cup {file[l][Len(file[l])].e}
              /\ Debt(l) = 1 => Kept(l) \subseteq Kept(l)'
              /\ Debt(l) \in {1, 2}
              /\ Debt(l)' = IF ended THEN 0 ELSE 1
<1> DEFINE n == Len(file[l])
           f == file[l]
           g == file'[l]
<1>0. /\ DOMAIN f = 1..n /\ DOMAIN g = 1..Len(g)
  <2>1. file' \in [Ledgers -> Seq(Line)]
    BY PutType DEF TypeOK
  <2>2. f \in Seq(Line) /\ g \in Seq(Line)
    BY <2>1 DEF TypeOK
  <2>3. QED
    BY <2>2
<1>1. CASE ~Glues(l)
  <2>1. /\ n \in Nat /\ Len(g) = n + 1
        /\ g[n + 1] = [e |-> e, ok |-> whole, ended |-> ended]
        /\ \A m \in 1..n : g[m] = f[m]
    BY <1>1, PutLines
  <2> HIDE DEF n, f, g
  <2>2. n + 1 \in 1..(n + 1) /\ \A m \in 1..n : m \in 1..(n + 1)
    BY <2>1
  <2>3. \A m \in DOMAIN f : m \in DOMAIN g /\ g[m] = f[m]
    BY <1>0, <2>1, <2>2
  <2>4. Kept(l) \subseteq Kept(l)'
    BY <2>3 DEF Kept, f, g
  <2>5. whole => e \in Kept(l)'
    <3>1. n + 1 \in DOMAIN g /\ g[n + 1].e = e /\ g[n + 1].ok = whole
      BY <1>0, <2>1, <2>2
    <3>2. QED
      BY <3>1 DEF Kept, g
  <2>6. Debt(l) = 0
    BY <1>1, <2>1 DEF Debt, Glues, n
  <2>7. Debt(l)' = IF ended THEN 0 ELSE IF whole THEN 2 ELSE 1
    <3>1. Len(g) # 0 /\ g[Len(g)].ended = ended /\ g[Len(g)].ok = whole
      BY <2>1
    <3>2. QED
      BY <3>1 DEF Debt, g
  <2>8. QED
    BY <1>1, <2>4, <2>5, <2>6, <2>7
<1>2. CASE Glues(l)
  <2>1. /\ n \in Nat /\ n > 0 /\ Len(g) = n
        /\ g[n] = [e |-> e, ok |-> FALSE, ended |-> ended]
        /\ \A m \in 1..n : m # n => g[m] = f[m]
    BY <1>2, PutLines
  <2>2. n # 0 /\ ~f[n].ended
    BY <1>2 DEF Glues
  <2>3. Debt(l) = IF f[n].ok THEN 2 ELSE 1
    BY <2>2 DEF Debt
  <2> HIDE DEF n, f, g
  <2>4. \A m \in DOMAIN f : m = n \/ (m \in DOMAIN g /\ g[m] = f[m])
    BY <1>0, <2>1
  <2>5. Kept(l) \subseteq Kept(l)' \cup {f[n].e}
    BY <2>4 DEF Kept, f, g
  <2>6. Debt(l) = 1 => Kept(l) \subseteq Kept(l)'
    BY <2>3, <2>4 DEF Kept, f, g
  <2>7. Debt(l)' = IF ended THEN 0 ELSE 1
    <3>1. Len(g) # 0 /\ g[Len(g)].ended = ended /\ g[Len(g)].ok = FALSE
      BY <2>1
    <3>2. QED
      BY <3>1 DEF Debt, g
  <2>8. QED
    BY <1>2, <2>3, <2>5, <2>6, <2>7 DEF f, n
<1>3. QED
  BY <1>1, <1>2

\* An interrupted write owes at most two outcomes more; a completed one pays
\* for what it loses out of what is owed.
LEMMA PutLoses ==
  ASSUME TypeOK, IsFiniteSet(recorded), NEW l \in Ledgers, NEW e \in Events,
         NEW whole \in BOOLEAN, NEW ended \in BOOLEAN,
         Put(l, e, whole, ended),
         \/ recorded' = recorded
         \/ whole /\ ended /\ recorded' = recorded \cup {<<l, e>>}
  PROVE  /\ Cardinality(Lost) \in Nat /\ Cardinality(Lost') \in Nat
         /\ Debt(l) \in Nat /\ Debt(l)' \in Nat
         /\ Cardinality(Lost') + Debt(l)' <= Cardinality(Lost) + Debt(l) + 2
         /\ whole /\ ended =>
              Cardinality(Lost') + Debt(l)' <= Cardinality(Lost) + Debt(l)
<1> DEFINE spoiled == <<l, file[l][Len(file[l])].e>>
<1>1. IsFiniteSet(Lost) /\ Cardinality(Lost) \in Nat
  BY FS_Subset, FS_CardinalityType DEF Lost
<1>2. \A k \in Ledgers \ {l} : Kept(k)' = Kept(k)
  BY PutElsewhere DEF Kept
<1>3. \A r \in recorded : r[1] \in Ledgers /\ r = <<r[1], r[2]>>
  BY DEF TypeOK
<1>4. CASE ~Glues(l)
  <2>1. Lost' \subseteq Lost
    BY <1>2, <1>3, <1>4, PutKeeps DEF Lost
  <2>2. Cardinality(Lost') \in Nat /\ Cardinality(Lost') <= Cardinality(Lost)
    BY <1>1, <2>1, FS_Subset, FS_CardinalityType
  <2>3. Debt(l) = 0 /\ Debt(l)' \in {0, 1, 2} /\ (ended => Debt(l)' = 0)
    BY <1>4, PutKeeps
  <2>4. QED
    BY <1>1, <2>2, <2>3
<1>5. CASE Glues(l)
  <2>1. /\ Kept(l) \subseteq Kept(l)' \cup {spoiled[2]}
        /\ Debt(l) = 1 => Kept(l) \subseteq Kept(l)'
        /\ Debt(l) \in {1, 2} /\ Debt(l)' = IF ended THEN 0 ELSE 1
    BY <1>5, PutKeeps
  <2>2. Lost' \subseteq (Lost \cup {spoiled}) \cup {<<l, e>>}
    BY <1>2, <1>3, <2>1 DEF Lost
  <2>3. Debt(l) = 1 => Lost' \subseteq Lost \cup {<<l, e>>}
    BY <1>2, <1>3, <2>1 DEF Lost
  <2>4. ~ended => Lost' \subseteq Lost \cup {spoiled}
    BY <1>2, <1>3, <2>1 DEF Lost
  <2> HIDE DEF spoiled
  <2>5. CASE Debt(l) = 1
    <3>1. /\ Cardinality(Lost') \in Nat
          /\ Cardinality(Lost') <= Cardinality(Lost) + 1
      BY <1>1, <2>3, <2>5, OneMore
    <3>2. QED
      BY <1>1, <2>1, <2>5, <3>1
  <2>6. CASE Debt(l) = 2
    <3>1. /\ IsFiniteSet(Lost \cup {spoiled})
          /\ Cardinality(Lost \cup {spoiled}) \in Nat
          /\ Cardinality(Lost \cup {spoiled}) <= Cardinality(Lost) + 1
      BY <1>1, OneMore
    <3>2. /\ Cardinality(Lost') \in Nat
          /\ Cardinality(Lost') <= Cardinality(Lost \cup {spoiled}) + 1
      BY <2>2, <3>1, OneMore
    <3>3. QED
      BY <1>1, <2>1, <2>6, <3>1, <3>2
  <2>7. QED
    BY <2>1, <2>5, <2>6
<1>6. QED
  BY <1>4, <1>5

\* The account with both ledgers: what a write does to one leaves what the
\* other owes.
LEMMA DebtElsewhere ==
  ASSUME TypeOK, NEW l \in Ledgers, NEW e \in Events,
         NEW whole \in BOOLEAN, NEW ended \in BOOLEAN,
         Put(l, e, whole, ended), NEW k \in Ledgers, k # l
  PROVE  Debt(k)' = Debt(k)
BY PutElsewhere DEF Debt

LEMMA LossInvariant == Spec => []LossInv
<1>0. \A l \in Ledgers : Debt(l) \in Nat
  BY DEF Debt
<1>1. Init => LossInv
  <2> SUFFICES ASSUME Init PROVE LossInv
    OBVIOUS
  <2>1. recorded = {} /\ Lost = {} /\ interruptions = 0
    BY DEF Init, Lost
  <2>2. Debt("spend") = 0 /\ Debt("quota") = 0
    BY DEF Init, Debt, Ledgers
  <2>3. QED
    BY <2>1, <2>2, FS_EmptySet DEF LossInv
<1>2. TypeOK /\ LossInv /\ [Next]_vars => LossInv'
  <2> SUFFICES ASSUME TypeOK, LossInv, [Next]_vars PROVE LossInv'
    OBVIOUS
  <2> DEFINE owed == Debt("spend") + Debt("quota")
  <2>0. /\ IsFiniteSet(recorded) /\ interruptions \in Nat
        /\ Cardinality(Lost) \in Nat /\ owed \in Nat
        /\ Cardinality(Lost) + owed <= 2 * interruptions
    <3>1. Debt("spend") \in Nat /\ Debt("quota") \in Nat
      BY DEF Debt
    <3>2. IsFiniteSet(Lost) /\ IsFiniteSet(recorded)
      BY FS_Subset DEF LossInv, Lost
    <3>3. Cardinality(Lost) \in Nat
      BY <3>2, FS_CardinalityType
    <3>4. QED
      BY <3>1, <3>2, <3>3 DEF LossInv, TypeOK
  <2>00. ASSUME IsFiniteSet(recorded'), Cardinality(Lost') \in Nat,
                Cardinality(Lost') + owed' <= 2 * interruptions'
         PROVE  LossInv'
    <3>1. Debt("spend")' \in Nat /\ Debt("quota")' \in Nat
      BY DEF Debt
    <3>2. Cardinality(Lost') + Debt("spend")' + Debt("quota")'
            <= 2 * interruptions'
      BY <2>00, <3>1
    <3>3. QED
      BY <2>00, <3>2 DEF LossInv
  <2>1. ASSUME UNCHANGED <<file, recorded>>,
               interruptions' \in {interruptions, interruptions + 1}
        PROVE  LossInv'
    <3>1. Lost' = Lost /\ owed' = owed
      BY <2>1 DEF Lost, Kept, Debt
    <3> HIDE DEF owed
    <3>2. Cardinality(Lost') + owed' <= 2 * interruptions'
      BY <2>0, <2>1, <3>1
    <3>3. IsFiniteSet(recorded') /\ Cardinality(Lost') \in Nat
      BY <2>0, <2>1, <3>1
    <3>4. QED
      BY <2>00, <3>2, <3>3
  <2>2. ASSUME NEW l \in Ledgers, NEW e \in Events,
               NEW whole \in BOOLEAN, NEW ended \in BOOLEAN,
               Put(l, e, whole, ended),
               \/ /\ recorded' = recorded
                  /\ interruptions' = interruptions + 1
               \/ /\ whole /\ ended /\ recorded' = recorded \cup {<<l, e>>}
                  /\ interruptions' = interruptions
        PROVE  LossInv'
    <3>1. /\ Cardinality(Lost) \in Nat /\ Cardinality(Lost') \in Nat
          /\ Debt(l) \in Nat /\ Debt(l)' \in Nat
          /\ Cardinality(Lost') + Debt(l)' <= Cardinality(Lost) + Debt(l) + 2
          /\ whole /\ ended =>
               Cardinality(Lost') + Debt(l)' <= Cardinality(Lost) + Debt(l)
      BY <2>0, <2>2, PutLoses
    <3>2. PICK k \in Ledgers \ {l} : Ledgers = {l, k}
      BY DEF Ledgers
    <3>3. Debt(k)' = Debt(k) /\ Debt(k) \in Nat
      BY <1>0, <2>2, <3>2, DebtElsewhere
    <3>4. owed = Debt(l) + Debt(k) /\ owed' = Debt(l)' + Debt(k)'
      <4>1. Debt("spend") \in Nat /\ Debt("quota") \in Nat
            /\ Debt("spend")' \in Nat /\ Debt("quota")' \in Nat
        BY DEF Debt
      <4>2. \/ l = "spend" /\ k = "quota"
            \/ l = "quota" /\ k = "spend"
        BY <3>2 DEF Ledgers
      <4>3. CASE l = "spend" /\ k = "quota"
        BY <4>3
      <4>4. CASE l = "quota" /\ k = "spend"
        BY <4>1, <4>4
      <4>5. QED
        BY <4>2, <4>3, <4>4
    <3>5. IsFiniteSet(recorded')
      <4>1. IsFiniteSet(recorded \cup {<<l, e>>})
        BY <2>0, FS_AddElement
      <4>2. QED
        BY <2>0, <2>2, <4>1
    <3> HIDE DEF owed
    <3>6. Cardinality(Lost') + owed' <= 2 * interruptions'
      BY <2>0, <2>2, <3>1, <3>3, <3>4
    <3>7. QED
      BY <2>00, <3>1, <3>5, <3>6
  <2>3. ASSUME NEW w \in Workers, pc[w] = "append",
               PutPart(at[w], job[w]) \/ Put(at[w], job[w], TRUE, TRUE),
               recorded' = recorded, interruptions' = interruptions + 1
        PROVE  LossInv'
    <3>1. at[w] \in Ledgers /\ job[w] \in Events
      BY <2>3 DEF TypeOK
    <3>2. QED
      BY <2>1, <2>2, <2>3, <3>1 DEF PutPart
  <2>4. ASSUME NEW w \in Workers, ScanDuplicate(w)
        PROVE  LossInv'
    <3>1. /\ at[w] \in Ledgers /\ job[w] \in Events
          /\ Duplicate(at[w], job[w]) /\ UNCHANGED <<file, interruptions>>
          /\ recorded' = recorded \cup {<<at[w], job[w]>>}
      BY <2>4 DEF ScanDuplicate, TypeOK
    <3>2. job[w] \in Kept(at[w])
      <4>1. file[at[w]] \in Seq(Line)
        BY <3>1 DEF TypeOK
      <4>2. DOMAIN file[at[w]] = 1..Len(file[at[w]])
        BY <4>1
      <4>3. QED
        BY <3>1, <4>2 DEF Duplicate, Readable, Scanned, Kept
    <3>3. Lost' = Lost
      BY <3>1, <3>2 DEF Lost, Kept
    <3>4. owed' = owed
      BY <3>1 DEF Debt
    <3>5. IsFiniteSet(recorded')
      BY <2>0, <3>1, FS_AddElement
    <3> HIDE DEF owed
    <3>6. Cardinality(Lost') + owed' <= 2 * interruptions'
      BY <2>0, <3>1, <3>3, <3>4
    <3>7. QED
      BY <2>0, <2>00, <3>3, <3>5, <3>6
  <2>5. ASSUME NEW w \in Workers, AppendLine(w)
        PROVE  LossInv'
    <3>1. at[w] \in Ledgers /\ job[w] \in Events
      BY <2>5 DEF AppendLine, TypeOK
    <3>2. QED
      BY <2>2, <2>5, <3>1 DEF AppendLine
  <2>6. ASSUME NEW w \in Workers, AppendFails(w)
        PROVE  LossInv'
    BY <2>3, <2>6 DEF AppendFails
  <2>7. ASSUME NEW w \in Workers, Crash(w)
        PROVE  LossInv'
    BY <2>1, <2>3, <2>7 DEF Crash
  <2>8. ASSUME NEW w \in Workers,
               \/ \E e \in Events : Deliver(w, e)
               \/ Lock(w) \/ ScanFresh(w)
        PROVE  LossInv'
    BY <2>1, <2>8 DEF Deliver, Lock, ScanFresh
  <2>9. CASE UNCHANGED vars
    BY <2>1, <2>9 DEF vars
  <2>10. QED
    BY <2>4, <2>5, <2>6, <2>7, <2>8, <2>9 DEF Next, Observe
<1>3. QED
  BY <1>1, <1>2, TypeCorrect, PTL DEF Spec

\* However the writes of however many workers are torn, no interruption costs
\* more than two acknowledged outcomes.
THEOREM LossIsBounded == Spec => []LossBounded
<1>1. TypeOK /\ LossInv => LossBounded
  <2> SUFFICES ASSUME TypeOK, LossInv PROVE LossBounded
    OBVIOUS
  <2>1. Debt("spend") \in Nat /\ Debt("quota") \in Nat
    BY DEF Debt
  <2>2. IsFiniteSet(Lost)
    BY FS_Subset DEF LossInv, Lost
  <2>3. Cardinality(Lost) \in Nat /\ interruptions \in Nat
    BY <2>2, FS_CardinalityType DEF TypeOK
  <2>4. QED
    BY <2>1, <2>3 DEF LossInv, LossBounded
<1>2. QED
  BY <1>1, TypeCorrect, LossInvariant, PTL
=============================================================================
