----------------------------- MODULE SlotResolver -----------------------------
(***************************************************************************)
(* Resolving one slot to an ordered chain of candidates (slot_resolver.py). *)
(* A candidate is a record of the published snapshot; its api_model is a   *)
(* number, counted in alphabetical order, and price NoPrice when unknown.  *)
(***************************************************************************)
EXTENDS QuotaMeter, FiniteSets

NoPrice == -1
NoName == 0             \* a blank api_model

\* The snapshot carried provider health as booleans or objects with a flag, and
\* now carries "ok", "degraded" or "down": only the first two are understood.
HealthMap(raw) ==
    [p \in {x \in DOMAIN raw : raw[x].shape \in {"bool", "object"}} |-> raw[p].ok]

Unhealthy(health, p) == p \in DOMAIN health /\ ~ health[p]

Nominal(c) == IF c.price = NoPrice THEN 0 ELSE Unit * c.price

EffectiveCost(c, q, now, reserve) ==
    OpportunityCost(q, Nominal(c), now, reserve) + DepletionPenalty(q, now)

Ranked(c, env) == c.api_model \in DOMAIN env.ranks

\* The checks of resolve_slot in their order, the slot's requirements in req and
\* what the snapshot says in env: the first one that holds excludes c.
Refusals(c, req, env) ==
    LET q == env.quota[c.provider]
    IN  << <<c.api_model = NoName, "unresolved_identity">>,
           <<c.api_model \in env.blocked.models \/ c.provider \in env.blocked.providers,
             "blocklisted">>,
           <<req.tools /\ ~ c.tools, "requires_tools">>,
           <<req.eval_mode = "free" /\ (c.price = NoPrice \/ c.price > 0), "not_free">>,
           <<Unhealthy(env.health, c.provider), "provider_unhealthy">>,
           <<Ranked(c, env) /\ env.ranks[c.api_model] > req.min_rank, "below_floor">>,
           <<Exhausted(q), "quota_exhausted">> >>

Reason(c, req, env) ==
    LET checks == Refusals(c, req, env)
        held == {n \in DOMAIN checks : checks[n][1]}
    IN  IF held = {} THEN "none" ELSE checks[CHOOSE n \in held : \A m \in held : n <= m][2]

Eligible(c, req, env) == Reason(c, req, env) = "none"

RankKeyStrongest(c, env) == IF Ranked(c, env) THEN env.ranks[c.api_model] ELSE 0

\* The weakest model that clears the floor is preferred: a larger rank is less.
RankKey(c, env) == IF Ranked(c, env) THEN - env.ranks[c.api_model] ELSE 0

SortKeyByPosition(c, i, req, env) ==
    <<EffectiveCost(c, env.quota[c.provider], env.now, req.reserve), RankKey(c, env),
      - c.fitness, i, c.api_model>>

\* Cost, then rank, then fitness, then name; the sort is stable, which the
\* position in the list stands for.
SortKey(c, i, req, env) ==
    <<EffectiveCost(c, env.quota[c.provider], env.now, req.reserve), RankKey(c, env),
      - c.fitness, c.api_model, i>>

KeyLess(k, l) ==
    \E n \in DOMAIN k : k[n] < l[n] /\ \A m \in 1..(n - 1) : k[m] = l[m]

\* The candidates that no check excludes, by their position in the list.
Able(candidates, req, env) == {i \in DOMAIN candidates : Eligible(candidates[i], req, env)}

Keys(candidates, req, env) ==
    [i \in Able(candidates, req, env) |-> SortKey(candidates[i], i, req, env)]

\* Where a sort by the keys puts i: after all that have a smaller one.
Places(keys) ==
    [i \in DOMAIN keys |-> 1 + Cardinality({j \in DOMAIN keys : KeyLess(keys[j], keys[i])})]

\* resolve_slot: the survivors, best first.
Chain(candidates, req, env) ==
    LET places == Places(Keys(candidates, req, env))
    IN  [n \in 1..Cardinality(DOMAIN places) |->
            candidates[CHOOSE i \in DOMAIN places : places[i] = n]]

\* redirect_map: a slot that did not resolve is left out.
RedirectMap(chains, aliases) ==
    [m \in {a \in DOMAIN aliases : chains[aliases[a]] # <<>>} |->
        chains[aliases[m]][1].api_model]
===============================================================================
