-------------------------- MODULE PublicationProofs --------------------------
(***************************************************************************)
(* Whatever the four processes do to each other's files, data served or    *)
(* published is never older than it may be, and redirects rest on ranks    *)
(* made for the very snapshot they were resolved from.  What Publication   *)
(* takes for granted of a file, that it is replaced at once, is proved in  *)
(* the second part, of one such file and its writers.                      *)
(***************************************************************************)
EXTENDS Publication, FileReplace, TLAPS

\* A snapshot that states the time its scan was saved, or none.
Honest(snap) == snap = None \/ (snap \in Snapshots /\ snap.probed = snap.generated_at)

ScannerInv == scanner.pc = "saved" => scanner.at = now

GatewayInv ==
    /\ Honest(gateway.snap)
    /\ gateway.pc \in {"put", "answer"} /\ gateway.snap # None =>
           gateway.at - gateway.snap.generated_at <= MaxAge

RankerInv == ranker.pc = "open" => ranker.snap # None

PublisherInv ==
    /\ Honest(publisher.snap)
    /\ publisher.pc # "idle" =>
           /\ publisher.snap # None
           /\ publisher.at - publisher.snap.generated_at <= MaxAge
    /\ publisher.pc = "resolved" =>
           /\ publisher.ranks.snapshot_sha256 = publisher.snap
           /\ publisher.at - publisher.ranks.generated_at <= MaxAge

\* The strengthening: every snapshot, in the file or in hand, states its own
\* time, and what a process holds was fresh when the process judged it.
IInv ==
    /\ TypeOK
    /\ Honest(snapshot)
    /\ ScannerInv
    /\ GatewayInv
    /\ RankerInv
    /\ PublisherInv

-----------------------------------------------------------------------------
\* No snapshot and no rank map is the absence of one.
LEMMA NoneIsNoDocument ==
    /\ None \notin Snapshots
    /\ None \notin RankMaps
    /\ Torn \notin RankMaps
    /\ None \notin Scans
<1>1. \A r \in Snapshots : "probed" \in DOMAIN r
    BY DEF Snapshots
<1>2. \A r \in RankMaps : "snapshot_sha256" \in DOMAIN r
    BY DEF RankMaps
<1>3. \A r \in Scans : "at" \in DOMAIN r
    BY DEF Scans
<1>4. DOMAIN None = {"file"} /\ DOMAIN Torn = {"file"}
    BY DEF None, Torn
<1> QED BY <1>1, <1>2, <1>3, <1>4

\* A state of a process is what it was made of.
LEMMA Held ==
    ASSUME NEW step, NEW snap, NEW at
    PROVE  /\ At(step, snap, at).pc = step
           /\ At(step, snap, at).snap = snap
           /\ At(step, snap, at).at = at
BY DEF At

\* A snapshot rebuilt from the last scan keeps the scan's own time, and that is
\* not too long ago.
LEMMA RebuiltIsHonest ==
    ASSUME TypeOK
    PROVE  /\ FromDb \in Snapshots \cup {None}
           /\ Honest(FromDb)
           /\ FromDb # None => now - FromDb.generated_at <= MaxAge
<1>1. CASE scan = None \/ Stale(scan.at, now) \/ scan.grid # "S"
    BY <1>1 DEF FromDb, Honest
<1>2. CASE ~ (scan = None \/ Stale(scan.at, now) \/ scan.grid # "S")
    <2>1. scan \in Scans
        BY <1>2 DEF TypeOK
    <2>2. scan.at \in Times /\ now \in Times
        BY <2>1 DEF TypeOK, Scans
    <2>3. FromDb = [probed |-> scan.at, generated_at |-> scan.at]
        BY <1>2 DEF FromDb, Build
    <2>4. FromDb \in Snapshots /\ Honest(FromDb) /\ FromDb.generated_at = scan.at
        BY <2>2, <2>3 DEF Snapshots, Honest
    <2>5. now - scan.at <= MaxAge
        BY <1>2, <2>2, PublicationAssumption DEF Stale, Times
    <2> QED BY <2>4, <2>5
<1> QED BY <1>1, <1>2

\* What the file holds, when it is valid, is a snapshot that is not too old.
LEMMA ValidIsFresh ==
    ASSUME TypeOK, Valid(snapshot, now)
    PROVE  /\ snapshot \in Snapshots
           /\ snapshot # None
           /\ now - snapshot.generated_at <= MaxAge
<1>1. snapshot \in Snapshots
    BY DEF TypeOK, Valid
<1>2. snapshot.generated_at \in Times /\ now \in Times
    BY <1>1 DEF TypeOK, Snapshots
<1>3. now - snapshot.generated_at <= MaxAge
    BY <1>2, PublicationAssumption DEF Valid, Stale, Times
<1> QED BY <1>1, <1>3 DEF Valid

-----------------------------------------------------------------------------
LEMMA InitIInv == Init => IInv
<1> SUFFICES ASSUME Init PROVE IInv
    OBVIOUS
<1>1. 0 \in Times
    BY PublicationAssumption DEF Times
<1>2. Idle.pc = "idle" /\ Idle.snap = None /\ Idle.at = 0
    BY DEF Idle, At
<1>3. Idle \in [pc : {"idle"}, snap : {None}, at : Times]
    BY <1>1 DEF Idle, At
<1>4. TypeOK
    BY <1>1, <1>2, <1>3 DEF Init, TypeOK
<1>5. Honest(snapshot) /\ ScannerInv /\ GatewayInv /\ RankerInv /\ PublisherInv
    BY <1>2 DEF Init, Honest, ScannerInv, GatewayInv, RankerInv, PublisherInv
<1> QED BY <1>4, <1>5 DEF IInv

\* The scanner emits in the unit it saved in, so its emission states the time
\* its data was measured.
LEMMA ScannerKeeps ==
    ASSUME IInv, Scanner
    PROVE  IInv'
<1> USE DEF IInv
<1>1. CASE SaveScan
    <2>1. scan' \in Scans \cup {None}
        BY <1>1 DEF SaveScan, TypeOK, Scans
    <2>2. scanner' = scanner \/ scanner' = At("saved", None, now)
        BY <1>1 DEF SaveScan
    <2>3. scanner' = Idle \/ scanner' \in [pc : {"saved"}, snap : {None}, at : Times]
        BY <2>2 DEF TypeOK, At
    <2>4. TypeOK'
        BY <1>1, <2>1, <2>3 DEF SaveScan, TypeOK
    <2>5. ScannerInv'
        BY <1>1, <2>2, Held DEF SaveScan, ScannerInv
    <2>6. Honest(snapshot)' /\ GatewayInv' /\ RankerInv' /\ PublisherInv'
        BY <1>1 DEF SaveScan, GatewayInv, RankerInv, PublisherInv, Honest
    <2> QED BY <2>4, <2>5, <2>6
<1>2. CASE Emit
    <2>1. scanner.at = now /\ now \in Times
        BY <1>2 DEF Emit, ScannerInv, TypeOK
    <2>2. snapshot' = [probed |-> now, generated_at |-> now]
        BY <1>2, <2>1 DEF Emit, Build
    <2>3. snapshot' \in Snapshots /\ Honest(snapshot)'
        BY <2>1, <2>2 DEF Snapshots, Honest
    <2>4. TypeOK'
        BY <1>2, <2>3 DEF Emit, TypeOK
    <2>5. ScannerInv'
        BY <1>2 DEF Emit, ScannerInv, Idle, At
    <2>6. GatewayInv' /\ RankerInv' /\ PublisherInv'
        BY <1>2 DEF Emit, GatewayInv, RankerInv, PublisherInv, Honest
    <2> QED BY <2>3, <2>4, <2>5, <2>6
<1>3. CASE ScannerDies
    <2>1. TypeOK'
        BY <1>3 DEF ScannerDies, files, TypeOK
    <2>2. ScannerInv'
        BY <1>3 DEF ScannerDies, ScannerInv, Idle, At
    <2>3. Honest(snapshot)' /\ GatewayInv' /\ RankerInv' /\ PublisherInv'
        BY <1>3 DEF ScannerDies, files, GatewayInv, RankerInv, PublisherInv, Honest
    <2> QED BY <2>1, <2>2, <2>3
<1> QED BY <1>1, <1>2, <1>3 DEF Scanner

\* The gateway serves, and puts back, only what it found fresh.
LEMMA GatewayKeeps ==
    ASSUME IInv, Gateway
    PROVE  IInv'
<1> USE DEF IInv
<1> DEFINE Served == [pc : {"idle", "rebuild", "put", "answer"}, snap : Snapshots \cup {None},
                      at : Times]
<1>0. now \in Times /\ gateway \in Served /\ 0 \in Times
    BY PublicationAssumption DEF TypeOK, Times
<1>1. CASE Ask
    <2>1. CASE Valid(snapshot, now)
        <3>1. gateway' = At("answer", snapshot, now)
            BY <1>1, <2>1 DEF Ask
        <3>2. gateway'.pc = "answer" /\ gateway'.snap = snapshot /\ gateway'.at = now
            BY <3>1, Held
        <3>3. gateway' \in Served
            BY <1>0, <2>1, <3>1, ValidIsFresh DEF At
        <3>4. TypeOK'
            BY <1>1, <3>2, <3>3 DEF Ask, files, TypeOK
        <3>5. GatewayInv'
            BY <2>1, <3>2, ValidIsFresh DEF GatewayInv, Honest
        <3>6. Honest(snapshot)' /\ ScannerInv' /\ RankerInv' /\ PublisherInv'
            BY <1>1 DEF Ask, files, ScannerInv, RankerInv, PublisherInv, Honest
        <3> QED BY <3>4, <3>5, <3>6
    <2>2. CASE ~ Valid(snapshot, now)
        <3>1. gateway' = At("rebuild", None, now)
            BY <1>1, <2>2 DEF Ask
        <3>2. gateway'.pc = "rebuild" /\ gateway'.snap = None
            BY <3>1, Held
        <3>3. gateway' \in Served
            BY <1>0, <3>1 DEF At
        <3>4. TypeOK'
            BY <1>1, <3>2, <3>3 DEF Ask, files, TypeOK
        <3>5. GatewayInv'
            BY <3>2 DEF GatewayInv, Honest
        <3>6. Honest(snapshot)' /\ ScannerInv' /\ RankerInv' /\ PublisherInv'
            BY <1>1 DEF Ask, files, ScannerInv, RankerInv, PublisherInv, Honest
        <3> QED BY <3>4, <3>5, <3>6
    <2> QED BY <2>1, <2>2
<1>2. CASE Rebuild
    <2> DEFINE step == IF FromDb = None THEN "answer" ELSE "put"
    <2>1. gateway' = At(step, FromDb, now)
        BY <1>2 DEF Rebuild
    <2>2. step \in {"put", "answer"} /\ (step = "put" => FromDb # None)
        OBVIOUS
    <2>3. gateway'.pc = step /\ gateway'.snap = FromDb /\ gateway'.at = now
        BY <2>1, Held
    <2>4. gateway' \in Served
        BY <1>0, <2>1, <2>2, RebuiltIsHonest DEF At
    <2>5. TypeOK'
        BY <1>2, <2>2, <2>3, <2>4 DEF Rebuild, files, TypeOK
    <2>6. GatewayInv'
        BY <2>3, RebuiltIsHonest DEF GatewayInv, Honest
    <2>7. Honest(snapshot)' /\ ScannerInv' /\ RankerInv' /\ PublisherInv'
        BY <1>2 DEF Rebuild, files, ScannerInv, RankerInv, PublisherInv, Honest
    <2> QED BY <2>5, <2>6, <2>7
<1>3. CASE PutRebuilt
    <2>1. gateway'.pc = "answer" /\ gateway'.snap = gateway.snap /\ gateway'.at = gateway.at
        BY <1>0, <1>3 DEF PutRebuilt
    <2>2. gateway' \in Served
        BY <1>0, <1>3 DEF PutRebuilt
    <2>3. snapshot' = gateway.snap /\ gateway.pc = "put"
        BY <1>3 DEF PutRebuilt
    <2>4. TypeOK'
        BY <1>0, <1>3, <2>1, <2>2, <2>3 DEF PutRebuilt, TypeOK
    <2>5. Honest(snapshot)' /\ GatewayInv'
        BY <2>1, <2>3 DEF GatewayInv, Honest
    <2>6. ScannerInv' /\ RankerInv' /\ PublisherInv'
        BY <1>3 DEF PutRebuilt, ScannerInv, RankerInv, PublisherInv, Honest
    <2> QED BY <2>4, <2>5, <2>6
<1>4. CASE Respond
    <2>1. gateway'.pc = "idle" /\ gateway'.snap = None /\ gateway' \in Served
        BY <1>0, <1>4 DEF Respond, Idle, At
    <2>2. TypeOK'
        BY <1>4, <2>1 DEF Respond, files, TypeOK
    <2>3. GatewayInv'
        BY <2>1 DEF GatewayInv, Honest
    <2>4. Honest(snapshot)' /\ ScannerInv' /\ RankerInv' /\ PublisherInv'
        BY <1>4 DEF Respond, files, ScannerInv, RankerInv, PublisherInv, Honest
    <2> QED BY <2>2, <2>3, <2>4
<1> QED BY <1>1, <1>2, <1>3, <1>4 DEF Gateway

\* A rank map is of the snapshot its maker loaded, or it is unreadable.
LEMMA RankerKeeps ==
    ASSUME IInv, Ranker
    PROVE  IInv'
<1> USE DEF IInv
<1> DEFINE Ranking == [pc : {"idle", "open"}, snap : Snapshots \cup {None}, at : Times]
<1>0. now \in Times /\ ranker \in Ranking /\ 0 \in Times
    BY PublicationAssumption DEF TypeOK, Times
<1>1. CASE BuildRankMap
    <2>1. ranker' = At("open", snapshot, now) /\ Valid(snapshot, now) /\ ranks' = Torn
        BY <1>1 DEF BuildRankMap
    <2>2. ranker' \in Ranking /\ RankerInv'
        BY <1>0, <2>1, ValidIsFresh DEF At, RankerInv
    <2>3. TypeOK'
        BY <1>1, <2>1, <2>2 DEF BuildRankMap, TypeOK
    <2>4. Honest(snapshot)' /\ ScannerInv' /\ GatewayInv' /\ PublisherInv'
        BY <1>1 DEF BuildRankMap, ScannerInv, GatewayInv, PublisherInv, Honest
    <2> QED BY <2>2, <2>3, <2>4
<1>2. CASE WriteRankMap
    <2>1. ranker.snap \in Snapshots /\ ranker.at \in Times
        BY <1>0, <1>2 DEF WriteRankMap, RankerInv
    <2>2. ranks' \in RankMaps
        BY <1>2, <2>1 DEF WriteRankMap, RankMaps
    <2>3. ranker' \in Ranking /\ RankerInv'
        BY <1>0, <1>2 DEF WriteRankMap, Idle, At, RankerInv
    <2>4. TypeOK'
        BY <1>2, <2>2, <2>3 DEF WriteRankMap, TypeOK
    <2>5. Honest(snapshot)' /\ ScannerInv' /\ GatewayInv' /\ PublisherInv'
        BY <1>2 DEF WriteRankMap, ScannerInv, GatewayInv, PublisherInv, Honest
    <2> QED BY <2>3, <2>4, <2>5
<1>3. CASE RankerDies
    <2>1. ranker' \in Ranking /\ RankerInv'
        BY <1>0, <1>3 DEF RankerDies, Idle, At, RankerInv
    <2>2. TypeOK'
        BY <1>3, <2>1 DEF RankerDies, files, TypeOK
    <2>3. Honest(snapshot)' /\ ScannerInv' /\ GatewayInv' /\ PublisherInv'
        BY <1>3 DEF RankerDies, files, ScannerInv, GatewayInv, PublisherInv, Honest
    <2> QED BY <2>1, <2>2, <2>3
<1> QED BY <1>1, <1>2, <1>3 DEF Ranker

-----------------------------------------------------------------------------
\* Ranks that vouch for a snapshot are readable, of that snapshot, and not old.
LEMMA VouchedRanks ==
    ASSUME TypeOK, NEW snap, NEW at \in Times, Vouches(ranks, snap, at)
    PROVE  /\ ranks \in RankMaps
           /\ ranks.snapshot_sha256 = snap
           /\ at - ranks.generated_at <= MaxAge
<1>1. ranks \in RankMaps
    BY DEF TypeOK, Vouches
<1>2. ranks.generated_at \in Times
    BY <1>1 DEF RankMaps
<1>3. at - ranks.generated_at <= MaxAge
    BY <1>2, PublicationAssumption DEF Vouches, Stale, Times
<1> QED BY <1>1, <1>3 DEF Vouches

\* The publisher resolves with what vouched for the snapshot it holds.
LEMMA PublisherKeeps ==
    ASSUME IInv, Publisher
    PROVE  IInv'
<1> USE DEF IInv
<1> DEFINE Loading == [pc : {"idle", "loaded"}, snap : Snapshots \cup {None}, at : Times]
           Resolving == [pc : {"resolved"}, snap : Snapshots, ranks : RankMaps, at : Times]
<1>0. now \in Times /\ publisher \in Loading \cup Resolving /\ 0 \in Times
    BY PublicationAssumption DEF TypeOK, Times
<1>1. Idle \in Loading /\ Idle.pc = "idle" /\ Idle.snap = None
    BY <1>0 DEF Idle, At
<1>2. CASE LoadSnapshot
    <2>1. publisher' = At("loaded", snapshot, now) /\ Valid(snapshot, now)
        BY <1>2 DEF LoadSnapshot
    <2>2. publisher'.pc = "loaded" /\ publisher'.snap = snapshot /\ publisher'.at = now
        BY <2>1, Held
    <2>3. publisher' \in Loading
        BY <1>0, <2>1, ValidIsFresh DEF At
    <2>4. TypeOK'
        BY <1>2, <2>3 DEF LoadSnapshot, files, TypeOK
    <2>5. PublisherInv'
        BY <2>1, <2>2, ValidIsFresh DEF PublisherInv, Honest
    <2>6. Honest(snapshot)' /\ ScannerInv' /\ GatewayInv' /\ RankerInv'
        BY <1>2 DEF LoadSnapshot, files, ScannerInv, GatewayInv, RankerInv, Honest
    <2> QED BY <2>4, <2>5, <2>6
<1>3. CASE LoadRanks
    <2>1. publisher.pc = "loaded" /\ publisher.snap # None
        BY <1>3 DEF LoadRanks, PublisherInv
    <2>2. publisher.snap \in Snapshots /\ publisher.at \in Times
        BY <1>0, <2>1
    <2>3. CASE Vouches(ranks, publisher.snap, publisher.at)
        <3>1. publisher' = [pc |-> "resolved", snap |-> publisher.snap, ranks |-> ranks,
                            at |-> publisher.at]
            BY <1>3, <2>3 DEF LoadRanks
        <3>2. publisher' \in Resolving
            BY <2>2, <2>3, <3>1, VouchedRanks
        <3>3. /\ publisher'.pc = "resolved" /\ publisher'.snap = publisher.snap
              /\ publisher'.ranks = ranks /\ publisher'.at = publisher.at
            BY <3>1
        <3>4. TypeOK'
            BY <1>3, <3>2 DEF LoadRanks, files, TypeOK
        <3>5. PublisherInv'
            BY <2>1, <2>2, <2>3, <3>3, VouchedRanks DEF PublisherInv, Honest
        <3> QED BY <1>3, <3>4, <3>5 DEF LoadRanks, files, ScannerInv, GatewayInv, RankerInv, Honest
    <2>4. CASE ~ Vouches(ranks, publisher.snap, publisher.at)
        <3>1. publisher' = Idle
            BY <1>3, <2>4 DEF LoadRanks
        <3>2. TypeOK'
            BY <1>1, <1>3, <3>1 DEF LoadRanks, files, TypeOK
        <3>3. PublisherInv'
            BY <1>1, <3>1 DEF PublisherInv, Honest
        <3> QED BY <1>3, <3>2, <3>3 DEF LoadRanks, files, ScannerInv, GatewayInv, RankerInv, Honest
    <2> QED BY <2>3, <2>4
<1>4. CASE WriteOverrides
    <2>1. publisher.snap \in Snapshots
        BY <1>0, <1>4 DEF WriteOverrides, PublisherInv
    <2>2. TypeOK'
        BY <1>1, <1>4, <2>1 DEF WriteOverrides, TypeOK
    <2>3. PublisherInv'
        BY <1>1, <1>4 DEF WriteOverrides, PublisherInv, Honest
    <2> QED BY <1>4, <2>2, <2>3 DEF WriteOverrides, ScannerInv, GatewayInv, RankerInv, Honest
<1>5. CASE NothingToPublish
    <2>1. TypeOK'
        BY <1>1, <1>5 DEF NothingToPublish, files, TypeOK
    <2>2. PublisherInv'
        BY <1>1, <1>5 DEF NothingToPublish, PublisherInv, Honest
    <2> QED BY <1>5, <2>1, <2>2
           DEF NothingToPublish, files, ScannerInv, GatewayInv, RankerInv, Honest
<1> QED BY <1>2, <1>3, <1>4, <1>5 DEF Publisher

\* Time passes only where nobody holds an unfinished document.
LEMMA TickKeeps ==
    ASSUME IInv, Tick
    PROVE  IInv'
<1> USE DEF IInv
<1>1. now' \in Times
    BY PublicationAssumption DEF Tick, TypeOK, Times
<1>2. TypeOK'
    BY <1>1 DEF Tick, files, processes, TypeOK
<1>3. ScannerInv' /\ GatewayInv' /\ RankerInv' /\ PublisherInv' /\ Honest(snapshot)'
    BY DEF Tick, files, processes, ScannerInv, GatewayInv, RankerInv, PublisherInv, Honest
<1> QED BY <1>2, <1>3

LEMMA StepIInv == IInv /\ [Next]_vars => IInv'
<1> SUFFICES ASSUME IInv, [Next]_vars PROVE IInv'
    OBVIOUS
<1>1. CASE UNCHANGED vars
    BY <1>1 DEF IInv, vars, files, processes, TypeOK, ScannerInv, GatewayInv, RankerInv,
                PublisherInv, Honest
<1> QED BY <1>1, ScannerKeeps, GatewayKeeps, RankerKeeps, PublisherKeeps, TickKeeps DEF Next

LEMMA Invariance == Spec => []IInv
BY InitIInv, StepIInv, PTL DEF Spec

-----------------------------------------------------------------------------
\* Files and processes stay well typed, for any slots, maximum age and horizon.
THEOREM TypeCorrect == Spec => []TypeOK
<1>1. IInv => TypeOK
    BY DEF IInv
<1> QED BY <1>1, Invariance, PTL

\* What GET /routing-snapshot serves was measured within MaxAge of the moment the
\* gateway judged it, whoever wrote the file in between.
THEOREM NoLaundering == Spec => []ServedDataFresh
<1>1. IInv => ServedDataFresh
    <2> SUFFICES ASSUME IInv, gateway.pc = "answer", gateway.snap # None
                 PROVE  gateway.at - gateway.snap.probed <= MaxAge
        BY DEF ServedDataFresh
    <2> QED BY DEF IInv, GatewayInv, Honest
<1> QED BY <1>1, Invariance, PTL

\* Every redirect table that is written rests on ranks made for the snapshot it
\* was resolved from, and on measurements and ranks within MaxAge.
THEOREM RedirectsVouched == Spec => OverridesVouched
<1> DEFINE Vouched == overrides' # overrides =>
                      /\ publisher.ranks.snapshot_sha256 = overrides'
                      /\ publisher.at - overrides'.probed <= MaxAge
                      /\ publisher.at - publisher.ranks.generated_at <= MaxAge
<1>1. IInv /\ [Next]_vars => [Vouched]_vars
    <2> SUFFICES ASSUME IInv, Next, overrides' # overrides
                 PROVE  Vouched
        OBVIOUS
    <2>1. WriteOverrides
        BY DEF Next, Scanner, SaveScan, Emit, ScannerDies, Gateway, Ask, Rebuild, PutRebuilt,
               Respond, Ranker, BuildRankMap, WriteRankMap, RankerDies, Publisher,
               LoadSnapshot, LoadRanks, NothingToPublish, Tick, files
    <2>2. overrides' = publisher.snap /\ publisher.pc = "resolved"
        BY <2>1 DEF WriteOverrides
    <2> QED BY <2>2 DEF IInv, PublisherInv, Honest
<1> QED BY <1>1, Invariance, PTL DEF Spec, OverridesVouched

-----------------------------------------------------------------------------
(* The replacement of one file, for any number of writers and documents: a *)
(* temporary name of its own for every writer and a sync before the rename  *)
(* are what makes it atomic.                                               *)

\* mkstemp gives no two writers the same name, and write_snapshot syncs.
OwnNamesSynced ==
    /\ \A w, x \in Writers : TmpOf[w] = TmpOf[x] => w = x
    /\ Syncs

\* A file a writer has open is still under its name; it is empty until written
\* and then holds the writer's document; what is published is on the disk.
FileIInv ==
    /\ FileTypeOK
    /\ WholeOrNothing
    /\ durable = TRUE
    /\ \A w \in Writers : pc[w] = "opened" => place[w] = "tmp" /\ tmp[TmpOf[w]] = Empty
    /\ \A w \in Writers : pc[w] = "written" => tmp[TmpOf[w]] = doc[w]

\* Initially nothing is open and nothing is published.
LEMMA InitFileIInv == FileInit => FileIInv
  BY FileReplaceAssumption DEF FileInit, FileIInv, FileTypeOK, WholeOrNothing, Contents

\* A writer with a document in hand has one of the documents.
LEMMA InHand ==
  ASSUME FileIInv, NEW w \in Writers, pc[w] # "idle"
  PROVE  doc[w] \in Values /\ TmpOf[w] \in Names
  BY DEF FileIInv, FileTypeOK, Names

\* With names of their own a writer's steps touch no other writer's file: every
\* step keeps the files whole, published ones synced and open ones in place.
LEMMA NextFileIInv ==
  ASSUME OwnNamesSynced, FileIInv, [FileNext]_fileVars
  PROVE  FileIInv'
<1> USE FileReplaceAssumption DEF OwnNamesSynced
<1>1. ASSUME NEW w \in Writers, Open(w)
      PROVE  FileIInv'
  <2>1. FileTypeOK'
    BY <1>1 DEF Open, FileIInv, FileTypeOK, Contents, Names
  <2>2. \A x \in Writers : x # w => TmpOf[x] # TmpOf[w] /\ TmpOf[x] \in Names
    BY DEF OwnNamesSynced, Names
  <2> QED
    BY <1>1, <2>1, <2>2 DEF Open, FileIInv, FileTypeOK, WholeOrNothing, Names
<1>2. ASSUME NEW w \in Writers, Write(w)
      PROVE  FileIInv'
  <2>1. pc[w] = "opened" /\ place[w] = "tmp" /\ tmp[TmpOf[w]] = Empty
    BY <1>2 DEF Write, FileIInv
  <2>2. doc[w] \in Values /\ TmpOf[w] \in Names
    BY <2>1, InHand
  <2>3. /\ tmp' = [tmp EXCEPT ![TmpOf[w]] = doc[w]]
        /\ pc' = [pc EXCEPT ![w] = "written"]
        /\ UNCHANGED <<target, durable, place, doc>>
    BY <1>2, <2>1 DEF Write, Over
  <2>4. FileTypeOK'
    BY <2>1, <2>2, <2>3 DEF FileIInv, FileTypeOK, Contents
  <2>5. \A x \in Writers : x # w => TmpOf[x] # TmpOf[w] /\ TmpOf[x] \in Names
    BY DEF OwnNamesSynced, Names
  <2> QED
    BY <2>2, <2>3, <2>4, <2>5 DEF FileIInv, FileTypeOK, WholeOrNothing
<1>3. ASSUME NEW w \in Writers, Rename(w)
      PROVE  FileIInv'
  <2>1. pc[w] = "written" /\ tmp[TmpOf[w]] = doc[w]
    BY <1>3 DEF Rename, FileIInv
  <2>2. doc[w] \in Values /\ TmpOf[w] \in Names
    BY <2>1, InHand
  <2>3. /\ target' = doc[w]
        /\ tmp' = [tmp EXCEPT ![TmpOf[w]] = Nothing]
        /\ durable' = TRUE
        /\ place' = Moved(w)
        /\ Done(w)
    BY <1>3, <2>1, <2>2 DEF Rename, OwnNamesSynced
  <2>4. \A x \in Writers : x # w => TmpOf[x] # TmpOf[w] /\ TmpOf[x] \in Names
    BY DEF OwnNamesSynced, Names
  <2>5. place' \in [Writers -> {"tmp", "target", "gone"}]
    BY <2>3 DEF Moved
  <2>6. \A x \in Writers : x # w /\ place[x] = "tmp" => place'[x] = "tmp"
    BY <2>3, <2>4 DEF Moved
  <2>7. FileTypeOK'
    BY <2>1, <2>2, <2>3, <2>5 DEF FileIInv, FileTypeOK, Contents, Done
  <2>8. WholeOrNothing'
    BY <2>2, <2>3 DEF WholeOrNothing
  <2>9. \A x \in Writers : x # w =>
           pc'[x] = pc[x] /\ doc'[x] = doc[x] /\ tmp'[TmpOf[x]] = tmp[TmpOf[x]]
    BY <2>3, <2>4 DEF Done, FileIInv, FileTypeOK
  <2>10. pc'[w] = "idle"
    BY <2>3 DEF Done, FileIInv, FileTypeOK
  <2> QED
    BY <2>3, <2>6, <2>7, <2>8, <2>9, <2>10 DEF FileIInv
<1>4. ASSUME NEW w \in Writers, Abort(w)
      PROVE  FileIInv'
  <2>1. TmpOf[w] \in Names
    BY DEF Names
  <2>2. FileTypeOK'
    BY <1>4, <2>1 DEF Abort, Done, FileIInv, FileTypeOK, Contents
  <2>3. \A x \in Writers : x # w => TmpOf[x] # TmpOf[w] /\ TmpOf[x] \in Names
    BY DEF OwnNamesSynced, Names
  <2> QED
    BY <1>4, <2>2, <2>3 DEF Abort, Done, FileIInv, FileTypeOK, WholeOrNothing
<1>5. ASSUME NEW w \in Writers, Die(w)
      PROVE  FileIInv'
  BY <1>5 DEF Die, Done, FileIInv, FileTypeOK, WholeOrNothing
<1>6. ASSUME PowerLoss
      PROVE  FileIInv'
  BY <1>6 DEF PowerLoss, FileIInv, FileTypeOK, WholeOrNothing, Contents
<1>7. ASSUME UNCHANGED fileVars
      PROVE  FileIInv'
  BY <1>7 DEF fileVars, FileIInv, FileTypeOK, WholeOrNothing
<1> QED
  BY <1>1, <1>2, <1>3, <1>4, <1>5, <1>6, <1>7 DEF FileNext

\* Type correctness: a writer is idle exactly when it has no document in hand.
THEOREM ReplacementTypeCorrect ==
  ASSUME OwnNamesSynced
  PROVE  FileSpec => []FileTypeOK
<1>1. FileInit => FileIInv
  BY InitFileIInv
<1>2. FileIInv /\ [FileNext]_fileVars => FileIInv'
  BY NextFileIInv
<1>3. FileIInv => FileTypeOK
  BY DEF FileIInv
<1> QED
  BY <1>1, <1>2, <1>3, PTL DEF FileSpec

\* With names of their own, synced before the rename, no reader of the snapshot
\* finds a part of a document, whatever crashes (write_snapshot).
THEOREM ReadersFindWhole ==
  ASSUME OwnNamesSynced
  PROVE  FileSpec => []WholeOrNothing
<1>1. FileInit => FileIInv
  BY InitFileIInv
<1>2. FileIInv /\ [FileNext]_fileVars => FileIInv'
  BY NextFileIInv
<1>3. FileIInv => WholeOrNothing
  BY DEF FileIInv
<1> QED
  BY <1>1, <1>2, <1>3, PTL DEF FileSpec

-----------------------------------------------------------------------------
\* A step of the files is a step of the register, or changes neither what a reader
\* finds nor what a writer has in hand.
LEMMA StepRefines ==
  ASSUME OwnNamesSynced, FileIInv, [FileNext]_fileVars
  PROVE  [Register!Next]_<<target, doc>>
<1>1. ASSUME NEW w \in Writers, Open(w)
      PROVE  Register!Begin(w)
  BY <1>1 DEF Open, Register!Begin, FileIInv, FileTypeOK
<1>2. ASSUME NEW w \in Writers, Write(w)
      PROVE  UNCHANGED <<target, doc>>
  BY <1>2 DEF Write, FileIInv
<1>3. ASSUME NEW w \in Writers, Rename(w)
      PROVE  Register!Publish(w)
  <2>1. pc[w] = "written" /\ tmp[TmpOf[w]] = doc[w]
    BY <1>3 DEF Rename, FileIInv
  <2>2. doc[w] \in Values
    BY <2>1, InHand
  <2> QED
    BY <1>3, <2>1, <2>2, FileReplaceAssumption DEF OwnNamesSynced, Rename, Done, Register!Publish
<1>4. ASSUME NEW w \in Writers, Abort(w)
      PROVE  Register!Fail(w)
  BY <1>4 DEF Abort, Done, Register!Fail
<1>5. ASSUME NEW w \in Writers, Die(w)
      PROVE  Register!Fail(w)
  BY <1>5 DEF Die, Done, Register!Fail
<1>6. ASSUME PowerLoss
      PROVE  Register!FailAll
  BY <1>6 DEF PowerLoss, Register!FailAll, FileIInv
<1>7. ASSUME UNCHANGED fileVars
      PROVE  UNCHANGED <<target, doc>>
  BY <1>7 DEF fileVars
<1> QED
  BY <1>1, <1>2, <1>3, <1>4, <1>5, <1>6, <1>7 DEF FileNext, Register!Next

\* The same writers implement the register that AtomicFile promises.
THEOREM WritesTakeEffectAtOnce ==
  ASSUME OwnNamesSynced
  PROVE  FileSpec => WritesAreAtomic
<1>1. FileInit => FileIInv
  BY InitFileIInv
<1>2. FileIInv /\ [FileNext]_fileVars => FileIInv'
  BY NextFileIInv
<1>3. FileInit => Register!Init
  BY DEF FileInit, Register!Init
<1>4. FileIInv /\ [FileNext]_fileVars => [Register!Next]_<<target, doc>>
  BY StepRefines
<1> QED
  BY <1>1, <1>2, <1>3, <1>4, PTL DEF FileSpec, WritesAreAtomic, Register!Spec
==============================================================================
