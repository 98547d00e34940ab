------------------------------- MODULE Routing -------------------------------
(***************************************************************************)
(* From what was observed of the providers to the redirects a gateway uses *)
(* (gateway_cli.py publish): the budget windows by recorded spend and the  *)
(* last live headers are merged into provider_quota.json, the limiter's    *)
(* inferences fill the gaps, and every slot of the grid is resolved against *)
(* the published candidates: by that file if the command is given --quota, *)
(* otherwise by what the snapshot took from the file when it was emitted.  *)
(* A step is one thing that happened - a spend, a header, a refusal, an    *)
(* emission, time - followed by a run of the command, so that two runs can *)
(* be compared.                                                            *)
(***************************************************************************)
EXTENDS SlotResolver, SlotGrid, SequencesExt

CONSTANTS
    Providers,
    Windows,        \* the budget windows of each provider, a sequence
    Listings,       \* the candidate lists a snapshot may carry
    Ranks,          \* the ladder rank of each api_model
    Requests,       \* the <<family, effort>> pairs to alias
    Resolved,       \* the slots to resolve, a subset of the grid
    Metered,        \* the providers whose answers carry rate-limit headers
    Paced,          \* the providers the limiter has seen refuse
    Reported,       \* the providers reliability feedback speaks of
    Fractions,      \* what headers and the limiter may report
    SpendStep,      \* one recorded spend
    TimeStep, EndOfTime

Candidates ==
    [api_model : Nat, provider : Providers, price : Nat \cup {NoPrice}, fitness : Nat,
     tools : BOOLEAN]

\* A model may be listed at several providers; that one provider's catalogue gives
\* an id once is taken from outside: nothing here removes duplicates.
ASSUME RoutingAssumption ==
    /\ Windows \in [Providers -> Seq([budget : Nat \ {0}, period : Nat \ {0}])]
    /\ Listings \subseteq Seq(Candidates) /\ \A l \in Listings : IsInjective(l)
    /\ \A m \in DOMAIN Ranks : Ranks[m] \in Nat
    /\ Resolved \subseteq DOMAIN Slots
    /\ Metered \subseteq Providers /\ Paced \subseteq Providers /\ Reported \subseteq Providers
    /\ Fractions \subseteq 0..Full
    /\ SpendStep \in Nat /\ TimeStep \in Nat \ {0} /\ EndOfTime \in Nat

VARIABLES
    now,
    spent,      \* what the ledger holds in each provider's current windows
    live,       \* the last header reading of each provider
    inferred,   \* the headroom the limiter infers for each provider
    listing,    \* the candidates of the routing snapshot
    status,     \* its provider_health: "ok", "degraded" or "down"
    embedded,   \* its provider_quota
    quota,      \* provider_quota.json
    given,      \* whether the last publish was given --quota
    chains      \* the resolution of each slot

snapshot == <<listing, status, embedded>>
world == <<now, spent, live, inferred, snapshot>>
vars == <<world, quota, given, chains>>

Fraction == Fractions \cup {NoFraction}

TypeOK ==
    /\ now \in 0..EndOfTime
    /\ \A p \in Providers : spent[p] \in [DOMAIN Windows[p] -> Nat]
    /\ live \in [Providers -> Fraction]
    /\ inferred \in [Providers -> Fraction]
    /\ listing \in Listings
    /\ status \in [Providers -> {"ok", "degraded", "down"}]
    /\ \A p \in Providers :
           /\ {quota[p].fraction, embedded[p].fraction} \subseteq 0..Full \cup {NoFraction}
           /\ quota[p].reset = NoReset \/ quota[p].reset > now
    /\ given \in BOOLEAN
    /\ DOMAIN chains = Resolved
    /\ \A s \in Resolved :
           /\ Len(chains[s]) <= Len(listing)
           /\ IsInjective(chains[s])

-----------------------------------------------------------------------------
(* gateway_cli.py publish *)

BudgetReadings(p, sp, t) ==
    [i \in DOMAIN Windows[p] |->
        BudgetReading(Windows[p][i], sp[p][i], WindowStart(Windows[p][i], t), t)]

LiveReadings(p, lv, t) ==
    IF lv[p] = NoFraction THEN <<>> ELSE <<LiveReading(lv[p], t)>>

\* refresh_quota.
MeteredState(p, sp, lv, t) ==
    ProviderState(BudgetReadings(p, sp, t) \o LiveReadings(p, lv, t))

\* cmd_refresh: the limiter speaks only for providers nothing is published for.
Refresh(p, sp, lv, inf, t) ==
    LET metered == MeteredState(p, sp, lv, t)
    IN  IF metered # NoState THEN metered ELSE QuotaState(InferredReading(inf[p], t))

Requirements(s) ==
    [Slots[s] EXCEPT !.reserve = (Full * Slots[s].reserve) \div 100]

\* routing_snapshot.py publishes a word for each provider.
PublishedHealth(st) == [p \in Providers |-> [shape |-> "word", word |-> st[p]]]

ResolveSnapshot(candidates, q, st, t) ==
    LET env == [quota |-> q, health |-> HealthMap(PublishedHealth(st)), ranks |-> Ranks,
                blocked |-> [models |-> {}, providers |-> {}], now |-> t]
    IN  [s \in Resolved |-> Chain(candidates, Requirements(s), env)]

\* _resolve: the quota the slots are resolved by.
Ranking(g, q, e) == IF g THEN q ELSE e
ranked == Ranking(given, quota, embedded)

\* The command, run on the world as it has become: it always refreshes the file.
Publish ==
    /\ quota' = [p \in Providers |-> Refresh(p, spent', live', inferred', now')]
    /\ given' \in BOOLEAN
    /\ chains' = ResolveSnapshot(listing', Ranking(given', quota', embedded'), status', now')

aliases == AliasTable(Requests)
RoutedAliases == [m \in {a \in DOMAIN aliases : aliases[a] \in Resolved} |-> aliases[m]]
Redirects == RedirectMap(chains, RoutedAliases)

-----------------------------------------------------------------------------
(* What happens between two runs *)

\* A callback records a cost: it counts in every window of the provider.
Spend(p) ==
    /\ \E i \in DOMAIN Windows[p] : spent[p][i] < Windows[p][i].budget
    /\ spent' = [spent EXCEPT ![p] = [i \in DOMAIN @ |-> @[i] + SpendStep]]
    /\ UNCHANGED <<now, live, inferred, snapshot>>
    /\ Publish

\* A callback records what the provider's rate-limit headers said.
Header(p, f) ==
    /\ live' = [live EXCEPT ![p] = f]
    /\ UNCHANGED <<now, spent, inferred, snapshot>>
    /\ Publish

\* The limiter's state file changed.
Infer(p, f) ==
    /\ inferred' = [inferred EXCEPT ![p] = f]
    /\ UNCHANGED <<now, spent, live, snapshot>>
    /\ Publish

\* Another scan emitted its candidates, with the quota file as it then was.
Relist(l) ==
    /\ listing' = l
    /\ embedded' = quota
    /\ UNCHANGED <<now, spent, live, inferred, status>>
    /\ Publish

\* A rebuild says of a provider what POST /reliability reported.
Feedback(p, word) ==
    /\ status' = [status EXCEPT ![p] = word]
    /\ embedded' = quota
    /\ UNCHANGED <<now, spent, live, inferred, listing>>
    /\ Publish

\* Spend of a window that is over no longer counts.
Tick ==
    /\ now + TimeStep <= EndOfTime
    /\ now' = now + TimeStep
    /\ spent' = [p \in Providers |-> [i \in DOMAIN Windows[p] |->
                    IF WindowStart(Windows[p][i], now') > now THEN 0 ELSE spent[p][i]]]
    /\ UNCHANGED <<live, inferred, snapshot>>
    /\ Publish

\* The first snapshot was emitted before anything was metered.
Init ==
    /\ now = 0
    /\ spent = [p \in Providers |-> [i \in DOMAIN Windows[p] |-> 0]]
    /\ live = [p \in Providers |-> NoFraction]
    /\ inferred = [p \in Providers |-> NoFraction]
    /\ listing \in Listings
    /\ status = [p \in Providers |-> "ok"]
    /\ embedded = [p \in Providers |-> NoState]
    /\ quota = [p \in Providers |-> Refresh(p, spent, live, inferred, now)]
    /\ given \in BOOLEAN
    /\ chains = ResolveSnapshot(listing, ranked, status, now)

Next ==
    \/ \E p \in Providers : Spend(p)
    \/ \E p \in Metered, f \in Fractions : Header(p, f)
    \/ \E p \in Paced, f \in Fractions : Infer(p, f)
    \/ \E l \in Listings : Relist(l)
    \/ \E p \in Reported, word \in {"ok", "down"} : Feedback(p, word)
    \/ Tick

Spec == Init /\ [][Next]_vars

-----------------------------------------------------------------------------
(* Properties *)

Models(chain) == [n \in DOMAIN chain |-> chain[n].api_model]
Position(chain, c) == CHOOSE i \in DOMAIN chain : chain[i] = c
Ahead(chain, c) == {chain[i] : i \in 1..(Position(chain, c) - 1)}

\* "Exhaustion is knowable before failure": with --quota, when the headers, or
\* with none the recorded spend of any one window, say that nothing is left of a
\* provider, no chain offers it, whatever a laxer window or the limiter's guess
\* says.  Without --quota only what was exhausted at the emission is left out.
ExhaustedIsSkipped ==
    \A s \in Resolved : \A i \in DOMAIN chains[s] :
        LET p == chains[s][i].provider
        IN  IF given
            THEN /\ live[p] # 0
                 /\ live[p] = NoFraction =>
                        \A w \in DOMAIN Windows[p] : spent[p][w] < Windows[p][w].budget
            ELSE embedded[p].fraction # 0

\* "Taking the strongest spends scarce high-capability quota on trivial work":
\* the chosen candidate is beaten by no survivor of the same price and provider
\* that is weaker and still clears the floor.
CheapestAdequate ==
    \A s \in Resolved : \A i, j \in DOMAIN chains[s] :
        LET c == chains[s][i]  d == chains[s][j]
        IN  /\ {c.api_model, d.api_model} \subseteq DOMAIN Ranks
            /\ c.provider = d.provider /\ Nominal(c) = Nominal(d)
            /\ Ranks[c.api_model] > Ranks[d.api_model]
            => i < j

\* A redirect rewrites every request for the model, so its target has to do for
\* whatever effort is asked for: it clears the floor of each such slot, if it is
\* ranked at all, and costs nothing where the slot is free.
RedirectServesEveryEffort ==
    \A r \in Requests :
        r[1] \in DOMAIN Redirects =>
            LET slot == Slots[SlotFor(r[1], r[2])]
                target == Redirects[r[1]]
            IN  /\ target \in DOMAIN Ranks => Ranks[target] <= slot.min_rank
                /\ slot.eval_mode = "free" =>
                       \E i \in DOMAIN listing :
                           listing[i].api_model = target /\ listing[i].price = 0

OthersUnchanged(p) ==
    /\ UNCHANGED <<now, listing, status>>
    /\ \A x \in Providers \ {p} : ranked'[x] = ranked[x]

NotDemoted(p) ==
    \A s \in Resolved : \A c \in {x \in ToSet(chains[s]) : x.provider = p} :
        c \in ToSet(chains'[s]) /\ Ahead(chains'[s], c) \subseteq Ahead(chains[s], c)

NotPromoted(p) ==
    \A s \in Resolved : \A c \in {x \in ToSet(chains'[s]) : x.provider = p} :
        c \in ToSet(chains[s]) /\ Ahead(chains[s], c) \subseteq Ahead(chains'[s], c)

\* Capacity is never a handicap, and "capacity approaching reset becomes cheaper":
\* when, in what slots are resolved by, nothing but one provider's remaining
\* fraction changes, none of its candidates falls behind another for having more,
\* and none gets ahead of another for having less, in any slot; and as a window
\* runs towards its reset unspent, and no other provider's figure carries one,
\* none is overtaken.
MoreCapacityNeverDemotes ==
    [][\A p \in Providers :
          /\ /\ OthersUnchanged(p) /\ NoState \notin {ranked[p], ranked'[p]}
             /\ ranked'[p].reset = ranked[p].reset
             => /\ ranked'[p].fraction >= ranked[p].fraction => NotDemoted(p)
                /\ ranked'[p].fraction <= ranked[p].fraction => NotPromoted(p)
          /\ /\ now' > now /\ UNCHANGED <<listing, status, ranked>>
             /\ ranked[p].reset > now'
             /\ \A x \in Providers \ {p} : ranked[x].reset = NoReset
             => NotDemoted(p)]_vars

\* "Otherwise a provider with no quota data at all would outrank a healthy
\* measured one, and ignorance would look like an advantage": the first figure
\* known of a provider, if it is not below the headroom, demotes none of its
\* candidates, not even in a slot with a reserve.
IgnoranceIsNoAdvantage ==
    [][\A p \in Providers :
          /\ OthersUnchanged(p)
          /\ ranked[p] = NoState /\ ranked'[p].fraction >= Headroom
          => NotDemoted(p)]_vars

\* "Any real provider header overrides it", and "identical inputs always produce
\* identical output": what the limiter infers of a provider of which a header or a
\* spend window speaks changes no chain, and the order in which the candidates are
\* listed changes no model's place in one: at most it swaps the providers that
\* offer the same model on the same terms.  Without --quota nothing that happens
\* between two emissions changes one, but time.
IrrelevantChangesNothing ==
    [][/\ UNCHANGED <<now, status, given>>
       /\ IF given
          THEN /\ UNCHANGED <<spent, live>>
               /\ \A p \in Providers :
                      inferred'[p] = inferred[p] \/ live[p] # NoFraction \/ Windows[p] # <<>>
          ELSE UNCHANGED embedded
       => /\ UNCHANGED listing => UNCHANGED chains
          /\ ToSet(listing') = ToSet(listing)
             => \A s \in Resolved : Models(chains'[s]) = Models(chains[s])]_vars

\* provider_unhealthy: "provider marked inaccessible" is excluded.
UnhealthyIsSkipped ==
    \A s \in Resolved : \A i \in DOMAIN chains[s] : status[chains[s][i].provider] # "down"
===============================================================================
