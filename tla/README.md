# model-scan in TLA+

model-scan finds out which language models are reachable through which providers, how well
they do in each of a set of slots, what is left of each provider's quota, and publishes
redirects that a gateway merges. This directory holds TLA+ models of the parts of it in which
several processes, files and clocks meet, TLC configurations that check them on small
instances, and TLAPS proofs of what matters most for every instance. `PROJECT.json` ties every
definition to the lines it models, every property to a run, and every hazard to a property or
to the reason there is none.

## The system

| Part | Files | State it keeps | Operations | What is hard |
|---|---|---|---|---|
| Session manager | `session_manager.py` | SQLite: `provider_slots`, `session_quota`, `quota_entries` | request, allocate, release, preempt, record usage | a transaction per statement, several processes, crashes |
| Spend and quota ledgers | `spend_ledger.py`, `quota_meter.py` | two JSONL files | append once, read the tail | redelivered callbacks, torn lines, a bounded duplicate check |
| Gateway callback | `gateway_bridge.py` | – | observe: both ledgers in turn; refresh | partial failure between the two |
| Adaptive limiter | `adaptive_limiter.py` | `adaptive_limits.json` | observe, save, load, pace | a hidden limit, compounding cuts, restarts |
| Metering and pricing | `quota_meter.py` | `provider_quota.json` | merge readings, opportunity cost, depletion penalty | several sources of unequal trust, window boundaries |
| Slots and resolver | `slot_grid.py`, `slot_resolver.py`, `gateway_cli.py` | `litellm_overrides.json` | resolve a slot, alias table, publish | ties, reserves, one alias for several efforts |
| Routing snapshot | `routing_snapshot.py` | `routing_snapshot.json` | build, validate, rebuild from the database | age, two writers |
| Rank map | `gateway_rank_map.py` | rank map file | build, validate | bound to one snapshot, written in place |
| Scanner | `dink.py`, `model-scan` | `model_scan.db`, `bad_models.json`, results | probe, score, save, emit | many probes at once, retries, bad-model bookkeeping |
| Gateway service | `gateway.py` | reads the database | HTTP GET reports, GET /routing-snapshot, POST /reliability | rebuild against emission |
| Resolver and registry | `resolver/`, `registry/`, `adapters/` | `registry.json`, decision log | resolve one request | filters and ties |
| Evidence | `source_adapter.py`, `capability_evidence.py`, `evidence_contract.py`, `role_evaluation.py` | write-once documents | collect, hash, publish | write-once under concurrency |
| Scheduling, configuration | `cron_manager.py`, `config_tracker.py` | the user's crontab | rewrite | an error read as an empty crontab |
| Research and analysis | `analysis/`, `scoring/`, `ardf_*`, `ia_*`, `refine.py`, … | reports | batch computations | – |
| REST API | `api/main.py` | – | eight reading endpoints for the web client | errors answered with 200, a fallback to other models |
| Web client | `web/src/` | a page's variables, the tab's history, `localStorage` | load, navigate, filter, compare, switch the theme | answers that arrive late, pages the router reuses |
| CLI tables, TUI | `tui.py`, `cli_overall.py`, `model_roles_api.py` | – | display | – |

How they interact. Callbacks of a LiteLLM gateway run `observe`, which appends to both ledgers
(ObservationLedgers). `gateway_cli refresh` turns the ledgers and the limiter's file into
`provider_quota.json`; `publish` refreshes, loads the snapshot, the rank map and the quota,
ranks every slot and writes the overrides (Routing for the ranking, Publication for the
files). The scanner emits the snapshot that `gateway.py` serves and rebuilds, and that `rank-map`
binds ranks to (Publication). Snapshot, quota, overrides, the limiter's state and evidence are replaced by
rename (FileReplace); the rank map is written in place (`gateway_cli.py:214`).
Evidence is a separate line of publications: role evaluations over collected evidence, written
once per version (EvidencePublication).
Callers ask the limiter how long to wait (AdaptiveLimiter), and sessions of several coding
tools share each provider's slots through SQLite (SessionSlots). The web client asks the REST API,
which reads what the scanner saved last (WebApp over Pages and ScanApi); what a user then chooses
on a page stays in the browser (WebControls).

## Modules

| Module | What it is |
|---|---|
| `SessionSlots` | the session manager's tables and calls; `MCSessionSlots` gives it priorities and limits; `SessionSlotsProofs` |
| `OnceBook` | abstract: a book that counts each request at most once |
| `ObservationLedgers` | the two ledgers and the callback; implements `OnceBook` for each; `MCObservationLedgers`; `ObservationLedgersProofs` |
| `AdaptiveLimiter` | rate control against a hidden limit; proofs in `RoutingProofs` |
| `QuotaMeter` | pure: readings, merging, prices |
| `SlotGrid` | pure: the slots, efforts and the alias table |
| `SlotResolver` | pure: exclusions and the ranking of one slot |
| `Routing` | composes the three with the events between two publications; `MCRouting`; `RoutingProofs` |
| `AtomicFile` | abstract: a register whose writes take effect at one instant |
| `FileReplace` | write to a temporary file, rename; implements `AtomicFile`; `MCFileReplace`; proofs in `PublicationProofs` |
| `Publication` | scanner, gateway, rank-map and publish over four files; `PublicationProofs` |
| `ScanRun` | overlapping scans and the bad-model list; `ScanRunProofs` |
| `RoleEvaluation` | pure: gates, score and recommendation for a role |
| `EvidenceContract` | pure: what a document must satisfy beyond its shape |
| `ScanApi` | pure: what each endpoint may answer from the scans saved so far |
| `Pages` | pure: what each page asks for, keeps of the answer, shows and links to |
| `WebApp` | a tab, its history and requests, the API and the scanner; `MCWebApp`; `WebAppProofs` |
| `WebControls` | filters, comparison and theme; `MCWebControls`; `WebControlsProofs` |
| `EvidencePublication` | evidence with its manifest, records with their last-known-good copy; `MCEvidencePublication`; `EvidencePublicationProofs` |

### SessionSlots

`slots` holds the rows of `provider_slots` (the tier a session holds at a provider), and each process
has the state of the call it is in. One action per SQLite transaction: `request_session_slot`
is the sequence `RequestSlot`, `HasCapacity`, `FindCandidate` or `NoCandidate`, `CountSlots`,
`InsertSlot`, because each opens a connection of its own. Another process may run between any
two. `ReleaseSession` walks the providers the session recorded usage with. A crash leaves what
is committed. `FileChanges` stands for the tool's own state file, from which the session's
state is inferred. Token totals and timestamps are left out: no guard reads them.

### ObservationLedgers

A ledger is a sequence of physical lines, each with the outcome it is about, whether it parses
and whether its newline was written. A write cut short leaves an unended line, to which the
next is glued. Duplicate check and readers see the last `RowsScanned` lines only
(`MAX_ROWS_SCANNED`, 50,000 in the code; 2 here, so that the window does slide). `Deliver` hands
a worker an outcome, again if it likes; `Lock`, `ScanDuplicate` / `ScanFresh`, `AppendLine` and
`Unlock` are the steps under the flock. Amounts are left out: a reader sums
what it reads, so counting requests once is counting money once.

### AdaptiveLimiter

Half-rpm integer units instead of floats: every comparison of the code is between the same
quantities, and the difference is less than a unit a step. The provider refuses a rate above
its hidden limit, and sometimes answers 503 at any rate; only the state file survives a restart.
`refused` is a history variable: the lowest rate refused in this life of the process, whatever `observe`
records of it. A restart clears it, because `NeverAboveRefused` does not hold across one: refusals since the
last save are forgotten, and the rate goes back up over them. `Settles` says that it comes down again.

### QuotaMeter, SlotGrid, SlotResolver, Routing

The pure modules are the decision functions of their files, over scaled integers. `Routing` is
the loop around them: any of `Spend`, `Header`, `Infer`, `Relist`, `Feedback`, `Tick` changes the
world, and `Publish` is run on the result: the ranking before and after each event can be
compared, which is what the properties do. The budget windows follow `window_start`; a header
is replayed without its reset time, as `_recent_live_readings` does; the limiter's inference
is used only for a provider without a published state, as `cmd_refresh` does.

`publish` always refreshes the quota file, but resolves by it only when given `--quota`
(`gateway_cli.py:129`); without it the snapshot's own `provider_quota` counts, which the emission took from that file
(`Relist`, `Feedback`). `given` says how the last publish was called, `embedded` is what the snapshot carries,
and `ranked` what the slots are resolved by. The properties are stated for both: with `--quota` no provider
known to be exhausted is offered, without it none that was when the snapshot was emitted. `--quota` is taken to name
the one file that scanner and gateway read, as its default path does.

Shares are counted out of `Full`, of which the headroom is a quarter (`depletion_penalty`'s 0.25); costs are
counted in parts of 1 / `Unit`, finer than a share (`Unit > Full`), so that two prices that differ
are not rounded to the same cost, as the code's floats are not. `Chain` numbers the survivors by how many come before them,
which is what a sort with a stable tie-break yields. A model may be listed at two providers:
their keys may then agree in all four terms, and only the order of the listing separates them. That a
provider's catalogue gives an id once is assumed of the providers (`RoutingAssumption`): nothing in the
code removes duplicates.

### FileReplace

A writer's open file follows the file through renames, so a writer that shares its temporary
name with another may end up writing to the target itself. `TmpOf`, `Syncs` and `PowerFails`
distinguish `write_snapshot` (a name of its own, synced) from the writers of the other files.

### Publication

The last scan row, the snapshot file, the rank map and the overrides, and one process each for
the scanner, the gateway, `rank-map` and `publish`, with the steps at which each reads or writes
a file. A snapshot is known by when its data was probed and by the time it states itself:
that the two differ is how old data could be laundered. `snapshot_sha256` is the snapshot.
A time unit stands for hours; the scanner and rank-map finish, or die, within theirs.
The gateway's handler has no `await`, so one request does not interleave with another.

### ScanRun

`file` is `bad_models.json`: per model the failures kept, each permanent or not and with its age in
units of `Tick`, so that time needs no clock; a file that does not parse is `Torn` and loads as
no failures, an integer of the former format is `Legacy`. Each process holds the copy it loaded
(`bad`) until it writes it back. `Load`, `List`, `Record`, `OpenBad`, `WriteBad` are the parts of
`run_scan` between two awaits; the probes run inside one step, as nothing is recorded before
`gather` has returned them all (hence the semaphore is not in the model), and `FailClass`
translates `probe_one`'s chain of returns. `Rehabilitate` and `ClearCache` are the command line's, and
the bounds keep Threshold (5 in the code), MaxKept (30) and Window (seven days) small. `seen` is
a ghost: the permanent failures that scans did record.

### RoleEvaluation, EvidenceContract, EvidencePublication

`LowerBoundReaches` decides `lower >= bound` of the Wilson interval exactly, in integers: the lower end
is where the score test turns, so no square root is needed (z = 1.96, bounds in twentieths).
`EvidenceContract` has one definition per table of the document, each the conjunction of what
`validate_content` rejects otherwise; the shape of fields is left out. `EvidencePublication` joins them:
a body of evidence (`draft`) is evaluated, validated and published by `publish`, whose steps are the
check and the rename of the content file (`CheckFirst`, `PutFirst`) and of the manifest; the other two
publications, `capability_evidence.publish` and `publish_observations`, write the last-known-good
copy and the target with the same steps and no check. Stamps are the callers' (`--generated-at`,
`--retrieved-at`) and compared with nothing on disk: a publication with an earlier stamp that stops halfway
leaves the copy older than the target, so what is stated of the two is that the target only becomes what
the copy holds already. The digest in a manifest is represented by
the content it was taken of. One publisher runs at a time and may stop anywhere: with two, the check and
the rename interleave and `ManifestMatches` fails (see the disagreements).

### ScanApi, Pages, WebApp

A scan is saved in one transaction and never changed, so a body of an answer is known by its kind,
the number of the scan it tells of and, for one model or slot, its id. `ScanApi` gives each endpoint's set
of answers, `Pages` for each page its outcomes (`...Loads`: the page's `try`, `catch` and `finally`), its screen
(`...Shows`) and its links. `WebApp` is the tab: `Follow`, `Jump`, `Open` and `Reload` are what
a user does, `RouteTo` is the router, which mounts a page when the component changes and
keeps it when only its parameter does (then `onMount` does not run again). A request goes out when the page is
mounted; `Answer` is the handler reading the database, `Arrive` the answer reaching its page, and
`ArriveLate` one that reaches a page already left. `entries` is the part of the history that belongs to the
current document: a row of a table sets `location.href` and starts another one. `since` is a history
variable. The router and the browser are modelled from how the pages use them.

### WebControls

The variables carry the names of the source. `Kept` and `Order` are what the function `filtered` would return,
`Filtered` what the derived value is and `TableRows` what `{#each}` makes of it. `search` terms are a small
set, each row saying which of them its id and its provider contain. The compare page's suggestions are
computed on input and used on a click, with the list arriving, models added and removed, or the
page left in between. `theme` is shared with other tabs, `dark` is this tab's.

## Runs

| Run | Instance | Shows |
|---|---|---|
| `session_slots_race` | 2 processes, 2 sessions (priorities 90 and 40), 1 provider, tiers of limit 1 and 2 | the type invariant; a tier is exceeded by at most the number of processes less one; a paused session holds no slot |
| `observation_ledgers` | 2 workers, 3 outcomes (both ledgers, spend only, no id), window 2, 1 redelivery, 2 interruptions | nothing is counted twice, nothing is skipped, an interruption costs at most two acknowledged lines, both ledgers implement `OnceBook`, every callback returns |
| `adaptive_limiter` | 1–12 rpm in half steps, hidden limit 4.5, 1 overload, 1 restart | never back to a refused rate in one life of the process; a success never slows; it settles under the limit, after a restart too |
| `routing` | 3 providers, 7 candidates (one model at two providers on the same terms), 3 slots, 2 listings, times 0, 20 and 40, with `--quota` and without | seven properties of the ranking and of how it moves |
| `routing_unhealthy` | the same | finding: health words are not understood |
| `publication` | slots S or R, maximum age 1, times 0–3 | stale data is neither served nor published; ranks belong to the snapshot; something fresh is served while a scan is fresh |
| `scan_run` | 2 processes, 1 model, window 1, threshold 2, 2 failures kept | a model is left out only for failures really recorded within the window, and is probed again after it |
| `file_replace` | 3 writers, 2 documents, power loss | no torn reads; each write is atomic |
| `evidence` | 1 publisher, 2 versions with one file stem, 4608 bodies of evidence, stamps 0 and 1 | published evidence is final and whole; the target is safeguarded by its copy; recommendations are backed |
| `web_app` | 2 models that answer for each other, 1 slot, all ten pages, 3 history entries, 2 scans | nothing older than the page is shown; a detail page shows its address's item unless the tab jumped; loading ends |
| `web_controls` | 5 rows (one model at two providers), 4 search terms, up to 3 compared, other tabs | suggestions are sound; a chart tells its models apart; opening a page keeps the theme |
| `models_table` | the same | finding: the models table never has a row |

Bounds. Two processes are enough for count-then-insert, as each adds one row to a count it read
before; the proof covers any number. Two workers and a window of two lines let a duplicate
be just inside and just outside the window. Two interruptions allow a torn line in each ledger
and a torn line followed by a crash. Four times with a maximum age of one give a document
time to be fresh, to be stale by one unit, and to be replaced after that. For `evidence`, two stamps
let a retry carry a later or an earlier one than the first attempt, and the trial counts lie just below, at and above
the gates of `coding-execution` (12 trials, 0.65). Three writers are
needed for one that moves another's file while a third reads. Three history entries are one model, the dashboard and another
model, with a jump from the last to the first that mounts nothing, and let a branch of the history be cut off; two scans let an answer be of before or of after, and a model disappear from the catalogue.
Three compared models with three colours stand for five with five. The type invariants of FileReplace,
EvidencePublication, WebApp and WebControls are proved and not repeated in their runs. Every property has a mutant in
`PROJECT.json`: a plausible change of one definition under which the run fails.

`CHECK_DEADLOCK FALSE` is used in `observation_ledgers` alone: with every outcome returned and the
bounds used up there is nothing left to record.

## Fairness

- `ObservationLedgers`: a worker in the middle of `observe` goes on (weak fairness: a thread that
  is not killed is scheduled and flock wakes a waiter), and an outcome not acknowledged is delivered
  again while a worker is free (strong fairness: the gateway retries until the callback returns;
  the bound on interruptions makes it succeed).
- `AdaptiveLimiter`: the caller keeps sending at the rate it is allowed. Without traffic
  nothing settles, and the code does not say it would.
- `ScanRun`: scans are started again, not every one is killed or finds its catalogues silent (strong
  fairness, as a scheduled program gets), and time passes.
- `Publication`: the gateway keeps being asked and answers. Nothing is assumed of the scanner,
  of rank-map or of publish: they are started by hand or by cron.

- `WebApp`: a request is answered or its connection breaks, and what was answered arrives (weak
  fairness of `Answer` and `Arrive`). Nothing is assumed of the user or of the scanner, so
  `PagesSettle` reads: a page that loads for ever is one the user keeps leaving.

The other specifications have no liveness property and no fairness.

## Proofs

All for every value of the constants that satisfies the named assumption of the module.

- `SessionSlotsProofs`: `TypeCorrect`, `OvershootBounded`, `SerialCapacity`, `PausedIsSlotless`. The
  bound on overshoot is not inductive: a process that has counted and not yet inserted owes a
  row. The invariant counts the rows of a tier together with the processes about to insert.
- `ObservationLedgersProofs`: `TypeCorrect`, `AtMostOnce`, `NothingSkipped`, `BooksBalance`, `LossIsBounded`. At most
  once needs that the worker about to append still holds the lock under which it found no
  duplicate. `BooksBalance` is the step refinement of `OnceBook` by both ledgers, from what one `write` adds
  to the lines a reader finds (`PutLines`, `PutReveals`, `PutOnce`). `LossBounded` alone is not inductive: an
  unfinished last line has cost nothing yet, and costs a record when the next write is glued to
  it. `LossInv` counts such a line as a debt.
- `RoutingProofs`, for any providers, windows, listings, ranks, requests and times: `TypeCorrect`,
  `ExhaustedNeverOffered`, `WeakestFirst`, `RedirectsServe`, and the action properties `CapacityIsNoHandicap`,
  `KnowledgeIsNoHandicap` and `OrderIsNoMatter`. The invariant `IInv` says that what is published is what
  the command makes of the world as it is, so each property becomes one of the functions the command is
  built from. `MergeIs` and `RefreshIs` say what a merge returns (a reading of the best tier that is as tight as
  any of it), the cost lemmas how a price moves: `MoreCostsLess` with more left, `LaterCostsLess`
  towards the reset, `KnownCostsNoMore` from unknown to known, `CostTellsPrices` that different prices
  stay different. `NumberedByOrder` is the sort: counting what comes before an element numbers a finite
  set along a strict order; `KeysOrdered` says that the keys are one, and `ChainSorted` that a chain
  is the survivors in that order. `NoneOvertaken` then compares two chains: if one provider's requests come no dearer
  and the others' cost the same, nobody gets ahead of its candidates. It is used forwards for more capacity and
  backwards for less. All three speak of `ranked`, the quota in force. `FirstsFit`
  compares the chains of two orders of one listing: those in the first places of the one would otherwise have
  to fit into fewer places of the other.
  The last part is about `AdaptiveLimiter`, whose word fills the gaps in the quota: `LimiterTypeCorrect`,
  `StaysUnderRefused`, `SuccessMonotone`. `StaysUnderRefused` is about one life of the process: `Recorded` says
  that what was refused in it is known to the limiter, and the saved row has to satisfy the same bound as the
  live one, as a restart starts from it.
- `PublicationProofs`: `TypeCorrect`, `NoLaundering`, `RedirectsVouched`. The invariant `IInv`: every
  snapshot in a file or in hand states its own time, and whatever a process holds was fresh
  when the process judged it. For an emission this rests on the scanner saving and emitting
  within one time unit. The second part is about `FileReplace`, under
  `OwnNamesSynced` (names of their own, synced): `ReplacementTypeCorrect`, `ReadersFindWhole` and
  `WritesTakeEffectAtOnce`, the step simulation of `AtomicFile`: what `Publication` takes for granted of the
  files it calls atomic. The invariant: a name holds what its own writer wrote, and no open
  file is the target.
- `ScanRunProofs`: `TypeCorrect`, `LeftOutForCause`. `SkippedForCause` speaks of the list a scan holds, and
  is not inductive: the list was read from a file that other scans wrote, minutes after they
  read it. `IInv` says of every list, in the file or in hand, that it has no more permanent failures
  of an age than scans recorded (`Backed`). Each way a list changes has its lemma: `FailureRecorded` (with the
  trimming), `SuccessRecorded`, `FailuresAge`. `SoundSkips` then maps the recent failures of a list to
  recorded ones, one to one.
- `EvidencePublicationProofs`: `TypeCorrect` for any publishers; under `OnePublisher`,
  `PublishedIsFinal`, `ManifestAlwaysMatches` and `TargetAlwaysSafeguarded`, for any evidence, versions, stems
  and stamps. The invariant `IInv` adds what the publisher relies on between two steps: what it is
  about to write is still missing, and the copy holds the record it is about to put into the target. Two
  publishers break both, which is why `OnePublisher` is assumed and not proved. `RecommendationsAreSupported` holds
  for any number of publishers, any finite set of candidates and any counts of trials: from `FractionsOrdered`
  (fractions compared by cross multiplication order totally) and `LeastNatural` follows that an eligible set has a
  best member, from `SurpassingScoresBetter` that nobody left aside surpasses it, and from
  `LowerRatesArePlausibleNoMore` that a bound outside the interval leaves every smaller rate outside. It assumes `DraftAssumption`: a
  role's bound is a percentage strictly between 0 and 100, as in `ROLE_DEFINITIONS`, and the candidates of a
  draft are finitely many. Scores are exact in the model; the code rounds them to eight digits,
  which changes no comparison while the product of two numbers of trials is below 25 million.
- `WebAppProofs`: `TypeCorrect`, `NothingOlderIsShown`, `AddressIsShown`, `JumpsMislead`, for any models, slots,
  catalogues and length of history. The invariant adds what an answer in flight says: a page's own answer
  was read after the page was mounted, and is about the parameter it was mounted with.
- `WebControlsProofs`: `TypeCorrect`, `SuggestionsAreSound`, `ChartIsReadable`, `ThemeIsKept`. The invariant
  says that selected ids are distinct, suggestions lie within the loaded list and outside the
  selection, and the list is empty while it is not an array.

Model-checked only: the liveness properties (`EveryCallbackReturns`, `Settles`, `SomethingFreshIsServed`,
`SecondChance`, `PagesSettle`), which rest on fairness and on which actions are enabled, beyond the
prover's reach. Every safety invariant and action property that a passing run checks is also a
theorem.

## Disagreements between code and documentation

Two have a run that finds them and an entry under `findings`: provider health in a shape the resolver
does not read (`slot_resolver.py:406`), and a models table that never has a row, because `$derived` is
given a function (`web/src/routes/models/+page.svelte:55`). More follow from the models and have no run: `request_session_slot`
never reaches its preemption branch (`session_manager.py:690` against 495) and `release_session` keeps a slot without
recorded usage, against "Release all resources" (`:741`); with the shipped slots R1–R12 the rebuild from SQLite always
declines, against `CHANGELOG.md:14` (`routing_snapshot.py:410`); two publishers of one evidence
version pass the same existence check, and the manifest of one ends beside the content of the
other, against "write-once" (`evidence_contract.py:543`); writers that share a temporary name
tear the file both call atomic (`quota_meter.py:620`); a rebuild may overwrite a newer emission (`gateway.py:383`);
`publish` without `--quota`, as in the runbook (`DEPLOY-RUNBOOK.md:85`), resolves by the quota of the snapshot's emission and so
offers a provider spent since, against `ROUTING-ARCHITECTURE.md:183` (`gateway_cli.py:129`); an empty 200 answer is "unknown" under the
comment "Shouldn't reach here" and never counts as the permanent `empty_response` (`dink.py:1602`,
`:1136`); a scan that overlaps `--rehabilitate` writes the removed record back (`dink.py:1169`);
`total_spend` promises a lifetime figure and reads only the last 50,000 rows
(`spend_ledger.py:224`, `:232`), and `best_known_good_rpm` is credited with the allowed rate rather
than the rate sent, so the two known rates may cross (`adaptive_limiter.py:80`, `:193`).

In the web client and its API: the preset after "DeepSeek Fleet" keeps its search (`models/+page.svelte:48`); an
exception answered with 200 and an object breaks the pages that call `filter` or `map` on it; the footer's "scanned at" is
when the page was rendered (`+layout.svelte:72`); the dashboard's radar draws fixed numbers (`+page.svelte:48`), and
a model without a price gets a lower cost score than a cheap one (`compare/+page.svelte:61`); pages read
`has_vision_capability` where the table has `has_vision`; a provider with no accessible model is yellow, one with a zero that is a
number is yellow and red at once (`providers/+page.svelte:30`); the cached fallback of `/scan/latest`
raises, as the results file holds a list, and its query lists a model as often as the square of its slots.

## Not modelled

The resolver and registry are planned below. The scanner's results history and its tables are not
modelled, nor the shape checks of evidence documents, catalogue normalisation and change events.
Fitness, ladder and cost formulas are floating-point data without state. The research scripts,
reports, the TUI and the command-line tables read stored data. `credit_reading` (prepaid balances), vision and known-price
requirements (no slot sets them) and the utilization report are left out of the metering model. Of the web client, animations, number formats, chart values and the chart library,
the PNG export, the clipboard and the unused components `SectionCards`, `RadarChart` and `ModelTable` are left out,
and of the browser its back-forward cache, which restores a document as it was. Of the API, the endpoints no page
calls, the limits and the order of rows. Of the router, two links followed while the first one's code is still being fetched.

## Plan

Done: SessionSlots, ObservationLedgers, AdaptiveLimiter, Routing, FileReplace, Publication, ScanRun, the
evidence modules and the web client with its API, the most stateful parts first.

Left, in the order of what they would add:

1. `QuotaLoop`: Routing closed over the traffic it directs: an exhausted reading excludes the
   provider, no traffic means no newer reading. To be checked: capacity that is back is used again.
2. `Resolver`: filters, cost and ties of `resolver/` as operators over a small registry, with the
   health and quota probes that feed it.
3. `Schedule`: the rewriting of the crontab and the configuration tracker.
4. Proofs: what a validated document cannot contain
   (`EvidenceContract`); then the invariants of the new modules.
