------------------------------ MODULE QuotaMeter ------------------------------
(***************************************************************************)
(* What a provider has left and what using it should cost (quota_meter.py  *)
(* with the windows of spend_ledger.py and the figures gateway_cli.py adds *)
(* from the limiter).  remaining_fraction is a number of parts out of Full, *)
(* a price a number of parts of size 1 / Unit, rounded down where the code *)
(* keeps a float; time runs in parts of 1 / Full hours, so that "remaining *)
(* / (remaining + hours)" needs no further scale.                          *)
(***************************************************************************)
EXTENDS Integers, Sequences

CONSTANTS
    Full,       \* a remaining_fraction of 1.0
    Headroom,   \* depletion_penalty's headroom, a quarter of Full
    Unit        \* the resolution of a cost, finer than that of a fraction

ASSUME MeterAssumption ==
    /\ Headroom \in Nat \ {0} /\ Full = 4 * Headroom
    /\ Unit \in Nat /\ Unit > Full

NoFraction == -1        \* remaining_fraction is None
NoReset == -1           \* reset_at is None
NoState == [fraction |-> NoFraction, reset |-> NoReset, source |-> "none"]

AtLeastZero(n) == IF n < 0 THEN 0 ELSE n

-----------------------------------------------------------------------------
(* Readings *)

\* Windows are fixed periods counted from the epoch.
WindowStart(window, now) == (now \div window.period) * window.period

BudgetReadingEndsAtStart(window, spent, started, now) ==
    [fraction |-> (Full * AtLeastZero(window.budget - spent)) \div window.budget,
     confidence |-> IF spent > 0 THEN "measured" ELSE "estimated",
     source |-> "model-scan", at |-> now, reset |-> started]

\* A budget window by the spend recorded in it; an untouched one is an estimate.
BudgetReading(window, spent, started, now) ==
    LET rolled == now - started >= window.period
        used == IF rolled THEN 0 ELSE spent
    IN  [fraction |-> IF window.budget > 0
                      THEN (Full * AtLeastZero(window.budget - used)) \div window.budget
                      ELSE 0,
         confidence |-> IF used > 0 THEN "measured" ELSE "estimated",
         source |-> "model-scan", at |-> now,
         reset |-> (IF rolled THEN now ELSE started) + window.period]

\* A header replayed from the ledger: its reset time is not carried over.
LiveReading(fraction, at) ==
    [fraction |-> fraction, confidence |-> "measured", source |-> "live",
     at |-> at, reset |-> NoReset]

\* What the limiter infers from refusals, or unknown before it saw one.
InferredReading(fraction, now) ==
    [fraction |-> fraction,
     confidence |-> IF fraction = NoFraction THEN "unknown" ELSE "estimated",
     source |-> "model-scan", at |-> now, reset |-> NoReset]

Known(r) == r.fraction # NoFraction /\ r.confidence # "unknown"

-----------------------------------------------------------------------------
(* merge_readings *)

Precedence(r) ==
    CASE ~ Known(r) -> 0
      [] Known(r) /\ r.confidence = "measured" ->
             IF r.source \in {"live", "merged"} THEN 4 ELSE 3
      [] Known(r) /\ r.confidence = "estimated" ->
             IF r.source \in {"live", "model-scan"} THEN 2 ELSE 1

\* The readings of the best tier that is present.
TopTier(rs) ==
    {i \in DOMAIN rs : \A j \in DOMAIN rs : Precedence(rs[j]) <= Precedence(rs[i])}

TighterWrongWay(rs, i, j) ==
    \/ rs[i].fraction > rs[j].fraction
    \/ rs[i].fraction = rs[j].fraction /\ (rs[i].at > rs[j].at \/ (rs[i].at = rs[j].at /\ i <= j))

\* The tightest binds; then the most recent, then the first listed.
Tighter(rs, i, j) ==
    \/ rs[i].fraction < rs[j].fraction
    \/ rs[i].fraction = rs[j].fraction /\ (rs[i].at > rs[j].at \/ (rs[i].at = rs[j].at /\ i <= j))

Newer(rs, i, j) == rs[i].at > rs[j].at \/ (rs[i].at = rs[j].at /\ i <= j)

\* rs is not empty.
Merge(rs) ==
    LET tier == TopTier(rs)
        best == CHOOSE i \in tier : \A j \in tier :
                    IF Known(rs[i]) THEN Tighter(rs, i, j) ELSE Newer(rs, i, j)
    IN  IF Known(rs[best]) /\ \E i, j \in tier : rs[i].source # rs[j].source
        THEN [rs[best] EXCEPT !.source = "merged"]
        ELSE rs[best]

\* to_quota_state: an unknown reading is left out of the published mapping.
QuotaState(r) ==
    IF Known(r) THEN [fraction |-> r.fraction, reset |-> r.reset, source |-> r.source]
    ELSE NoState

\* build_provider_quota for one provider.
ProviderState(rs) == IF rs = <<>> THEN NoState ELSE QuotaState(Merge(rs))

-----------------------------------------------------------------------------
(* Pricing a published state, which is read back as a measured one *)

Exhausted(q) == q.fraction = 0

OpportunityCostRising(q, nominal, now, reserve) ==
    LET left == q.reset - now
    IN  IF q.reset = NoReset \/ left <= 0 THEN nominal
        ELSE IF q.fraction < reserve
        THEN nominal + (4 * nominal * (reserve - q.fraction)) \div reserve
        ELSE (nominal * q.fraction) \div (q.fraction + left)

\* nominal * (1 - urgency) with urgency = remaining / (remaining + hours left),
\* dearer only below the reserve.  q is not exhausted.
OpportunityCost(q, nominal, now, reserve) ==
    LET left == q.reset - now
    IN  IF q = NoState THEN nominal
        ELSE IF q.reset = NoReset
        THEN IF q.fraction >= reserve THEN nominal ELSE 4 * nominal
        ELSE IF left <= 0 THEN nominal
        ELSE IF q.fraction < reserve
        THEN nominal + (4 * nominal * (reserve - q.fraction)) \div reserve
        ELSE (nominal * left) \div (q.fraction + left)

\* The square of the shortfall below the headroom.
RejectionRisk(q) ==
    IF q.fraction >= Headroom THEN 0
    ELSE (Unit * (Headroom - q.fraction) * (Headroom - q.fraction)) \div (Headroom * Headroom)

\* expiry_weight / (1 + hours left) * remaining.
ExpiryBonus(q, now) ==
    IF q.reset = NoReset THEN 0
    ELSE (Unit * q.fraction) \div (10 * (Full + AtLeastZero(q.reset - now)))

PenaltyWithoutHeadroom(q, now) ==
    IF q = NoState THEN 0
    ELSE (Unit * (Full - q.fraction)) \div Full - ExpiryBonus(q, now)

DepletionPenalty(q, now) ==
    IF q = NoState THEN 0 ELSE RejectionRisk(q) - ExpiryBonus(q, now)
===============================================================================
