----------------------------- MODULE Publication -----------------------------
(***************************************************************************)
(* How a scan becomes redirects.  Four processes meet in files: a scanner  *)
(* (dink.py run_scan) commits scans and emits routing_snapshot.json, the   *)
(* gateway serves that file and rebuilds it from the database, gateway_cli *)
(* rank-map binds capability ranks to one snapshot, gateway_cli publish    *)
(* resolves both into the overrides a gateway merges.  The snapshot and    *)
(* the overrides are replaced at once (FileReplace), the rank map is not.  *)
(***************************************************************************)
EXTENDS Integers

CONSTANTS
    Grids,          \* the namespaces of slot_definitions.yaml: "S" is the gateway's
    MaxAge,         \* how old a snapshot or a rank map may be, a day
    EndOfTime

ASSUME PublicationAssumption ==
    /\ MaxAge \in Nat /\ EndOfTime \in Nat

None == [file |-> "none"]
Torn == [file |-> "torn"]

VARIABLES
    now,
    scan,           \* the last committed scan of the database: no other is read
    snapshot,       \* routing_snapshot.json
    ranks,          \* the rank map
    overrides,      \* the snapshot the published redirects were resolved from
    scanner, gateway, ranker, publisher     \* where each process is, what it holds

files == <<scan, snapshot, ranks, overrides>>
processes == <<scanner, gateway, ranker, publisher>>
vars == <<now, files, processes>>

Times == 0..EndOfTime

\* What a snapshot holds is known by when its scan was saved, probed, and by the
\* time it states itself.
Snapshots == [probed : Times, generated_at : Times]

\* snapshot_sha256 stands for the snapshot it digests.
RankMaps == [snapshot_sha256 : Snapshots, generated_at : Times]

Scans == [at : Times, grid : Grids]

\* A process holds what it read, and when, only while it is at work on it.
At(pc, snap, at) == [pc |-> pc, snap |-> snap, at |-> at]
Idle == At("idle", None, 0)

TypeOK ==
    /\ now \in Times
    /\ scan \in Scans \cup {None}
    /\ snapshot \in Snapshots \cup {None}
    /\ ranks \in RankMaps \cup {None, Torn}
    /\ overrides \in Snapshots \cup {None}
    /\ scanner = Idle \/ scanner \in [pc : {"saved"}, snap : {None}, at : Times]
    /\ gateway \in [pc : {"idle", "rebuild", "put", "answer"}, snap : Snapshots \cup {None},
                    at : Times]
    /\ gateway.pc = "put" => gateway.snap # None
    /\ ranker \in [pc : {"idle", "open"}, snap : Snapshots \cup {None}, at : Times]
    /\ publisher \in [pc : {"idle", "loaded"}, snap : Snapshots \cup {None}, at : Times]
                   \cup [pc : {"resolved"}, snap : Snapshots, ranks : RankMaps, at : Times]

-----------------------------------------------------------------------------
(* routing_snapshot.py *)

Stale(generated_at, at) == at - generated_at > MaxAge

\* validate_gateway_snapshot.
Valid(snap, at) == snap # None /\ ~ Stale(snap.generated_at, at)

\* build_snapshot_from_dossiers at an emission.
Build(probed, generated_at) == [probed |-> probed, generated_at |-> generated_at]

FromDbRestamped ==
    IF scan = None \/ Stale(scan.at, now) \/ scan.grid # "S" THEN None
    ELSE Build(scan.at, now)

\* build_snapshot_from_db: only the last scan counts, only if it is fresh and was
\* scored on the gateway's slots, and it keeps its own time.
FromDb ==
    IF scan = None \/ Stale(scan.at, now) \/ scan.grid # "S" THEN None
    ELSE Build(scan.at, scan.at)

-----------------------------------------------------------------------------
(* The scanner: run_scan *)

\* The scan is saved; with --emit-snapshot it goes on, even if the save failed.
SaveScan ==
    /\ scanner.pc = "idle"
    /\ scan' \in {scan} \cup {[at |-> now, grid |-> grid] : grid \in Grids}
    /\ scanner' \in {scanner, At("saved", None, now)}
    /\ UNCHANGED <<now, snapshot, ranks, overrides, gateway, ranker, publisher>>

\* Its own slots are scored again and the snapshot is replaced.
Emit ==
    /\ scanner.pc = "saved"
    /\ snapshot' = Build(scanner.at, now)
    /\ scanner' = Idle
    /\ UNCHANGED <<now, scan, ranks, overrides, gateway, ranker, publisher>>

ScannerDies ==
    /\ scanner.pc = "saved"
    /\ scanner' = Idle
    /\ UNCHANGED <<now, files, gateway, ranker, publisher>>

-----------------------------------------------------------------------------
(* The gateway: GET /routing-snapshot *)

AskFileOnly ==
    /\ gateway.pc = "idle"
    /\ gateway' = At("answer", IF Valid(snapshot, now) THEN snapshot ELSE None, now)
    /\ UNCHANGED <<now, files, scanner, ranker, publisher>>

\* What the file holds is served if it is valid.
Ask ==
    /\ gateway.pc = "idle"
    /\ gateway' = IF Valid(snapshot, now) THEN At("answer", snapshot, now)
                  ELSE At("rebuild", None, now)
    /\ UNCHANGED <<now, files, scanner, ranker, publisher>>

RebuildUnchecked ==
    /\ gateway.pc = "rebuild"
    /\ gateway' = At("put", FromDb, now)
    /\ UNCHANGED <<now, files, scanner, ranker, publisher>>

\* Without a file to serve the last scan is looked up.
Rebuild ==
    /\ gateway.pc = "rebuild"
    /\ gateway' = At(IF FromDb = None THEN "answer" ELSE "put", FromDb, now)
    /\ UNCHANGED <<now, files, scanner, ranker, publisher>>

\* What was rebuilt replaces the file.
PutRebuilt ==
    /\ gateway.pc = "put"
    /\ snapshot' = gateway.snap
    /\ gateway' = [gateway EXCEPT !.pc = "answer"]
    /\ UNCHANGED <<now, scan, ranks, overrides, scanner, ranker, publisher>>

\* 200 with the snapshot, or 404.
Respond ==
    /\ gateway.pc = "answer"
    /\ gateway' = Idle
    /\ UNCHANGED <<now, files, scanner, ranker, publisher>>

-----------------------------------------------------------------------------
(* gateway_cli rank-map *)

\* Ranks for the models of the snapshot it loaded; partial input is refused.
\* write_text empties the file before it writes.
BuildRankMap ==
    /\ ranker.pc = "idle" /\ Valid(snapshot, now)
    /\ ranker' = At("open", snapshot, now)
    /\ ranks' = Torn
    /\ UNCHANGED <<now, scan, snapshot, overrides, scanner, gateway, publisher>>

WriteRankMap ==
    /\ ranker.pc = "open"
    /\ ranks' = [snapshot_sha256 |-> ranker.snap, generated_at |-> ranker.at]
    /\ ranker' = Idle
    /\ UNCHANGED <<now, scan, snapshot, overrides, scanner, gateway, publisher>>

RankerDies ==
    /\ ranker.pc # "idle"
    /\ ranker' = Idle
    /\ UNCHANGED <<now, files, scanner, gateway, publisher>>

-----------------------------------------------------------------------------
(* gateway_cli publish, after its refresh of the quota *)

LoadSnapshot ==
    /\ publisher.pc = "idle" /\ Valid(snapshot, now)
    /\ publisher' = At("loaded", snapshot, now)
    /\ UNCHANGED <<now, files, scanner, gateway, ranker>>

VouchesAnySnapshot(doc, snap, at) ==
    /\ doc \notin {None, Torn}
    /\ doc.generated_at <= at /\ ~ Stale(doc.generated_at, at)

\* validate_rank_map: readable, of this snapshot, neither old nor of the future.
Vouches(doc, snap, at) ==
    /\ doc \notin {None, Torn}
    /\ doc.generated_at <= at /\ ~ Stale(doc.generated_at, at)
    /\ doc.snapshot_sha256 = snap

\* The ranks are read after the snapshot, and judged at the time it was read.
LoadRanks ==
    /\ publisher.pc = "loaded"
    /\ publisher' = IF Vouches(ranks, publisher.snap, publisher.at)
                    THEN [pc |-> "resolved", snap |-> publisher.snap, ranks |-> ranks,
                          at |-> publisher.at]
                    ELSE Idle
    /\ UNCHANGED <<now, files, scanner, gateway, ranker>>

\* With no redirect left, or one LiteLLM cannot express, nothing is written.
WriteOverrides ==
    /\ publisher.pc = "resolved"
    /\ overrides' = publisher.snap
    /\ publisher' = Idle
    /\ UNCHANGED <<now, scan, snapshot, ranks, scanner, gateway, ranker>>

NothingToPublish ==
    /\ publisher.pc = "resolved"
    /\ publisher' = Idle
    /\ UNCHANGED <<now, files, scanner, gateway, ranker>>

-----------------------------------------------------------------------------
\* A unit is hours: a scan emits right after its save, or not at all, and rank-map
\* writes the file it opened before the unit is over.
Tick ==
    /\ now < EndOfTime
    /\ scanner.pc = "idle" /\ ranker.pc = "idle"
    /\ now' = now + 1
    /\ UNCHANGED <<files, processes>>

Init ==
    /\ now = 0
    /\ scan = None /\ snapshot = None /\ ranks = None /\ overrides = None
    /\ scanner = Idle /\ gateway = Idle /\ ranker = Idle /\ publisher = Idle

Scanner == SaveScan \/ Emit \/ ScannerDies
Gateway == Ask \/ Rebuild \/ PutRebuilt \/ Respond
Ranker == BuildRankMap \/ WriteRankMap \/ RankerDies
Publisher == LoadSnapshot \/ LoadRanks \/ WriteOverrides \/ NothingToPublish

Next == Scanner \/ Gateway \/ Ranker \/ Publisher \/ Tick

Spec == Init /\ [][Next]_vars

\* The gateway keeps being asked, and answers.
FairSpec == Spec /\ WF_vars(Gateway)

-----------------------------------------------------------------------------
(* Properties *)

\* "Rebuild a fresh S-slot snapshot without laundering old database data": what
\* is served was measured within a day of the moment it was found fit to serve,
\* whichever of scanner and gateway wrote the file in between.
ServedDataFresh ==
    gateway.pc = "answer" /\ gateway.snap # None =>
        gateway.at - gateway.snap.probed <= MaxAge

\* publish never writes redirects that rest on ranks made for another snapshot,
\* nor on stale measurements or ranks, although both files change under it.
OverridesVouched ==
    [][overrides' # overrides =>
          /\ publisher.ranks.snapshot_sha256 = overrides'
          /\ publisher.at - overrides'.probed <= MaxAge
          /\ publisher.at - publisher.ranks.generated_at <= MaxAge]_vars

LastScanUsable ==
    scan # None /\ scan.grid = "S" /\ now - scan.at <= MaxAge

\* While the last scan is fresh and of the gateway's slots, whoever asks is in the
\* end served something fresh, even if the emission of that scan was lost: the file
\* as long as it is valid, which may be of an older scan, otherwise a rebuild.
SomethingFreshIsServed ==
    LastScanUsable ~> (gateway.pc = "answer" /\ gateway.snap # None) \/ ~ LastScanUsable
==============================================================================
