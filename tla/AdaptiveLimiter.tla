--------------------------- MODULE AdaptiveLimiter ---------------------------
(***************************************************************************)
(* Pacing towards a rate limit nobody published (adaptive_limiter.py): an  *)
(* additive-increase, multiplicative-decrease rate for one provider, fed   *)
(* by what the provider answers, kept in a state file across restarts.     *)
(* Rates are whole units; the code's floats differ from them by less than  *)
(* one unit a step.  A transport error changes no rate, so it is no action.*)
(***************************************************************************)
EXTENDS Integers

CONSTANTS
    MinRate, MaxRate,   \* MIN_RATE_RPM, MAX_RATE_RPM
    StartRate,          \* DEFAULT_START_RPM
    Step,               \* RATE_INCREASE_PER_SUCCESS
    TrueLimit,          \* the provider's own limit, unknown to the limiter
    MaxOverloads,       \* bound on 503 answers that say nothing about the rate
    MaxRestarts         \* bound on restarts of the process

ASSUME RateAssumption ==
    /\ MinRate \in Nat \ {0} /\ MaxRate \in Nat /\ StartRate \in Nat
    /\ MinRate <= StartRate /\ StartRate <= MaxRate
    /\ Step \in Nat \ {0}
    /\ TrueLimit \in Nat /\ TrueLimit >= MinRate
    /\ MaxOverloads \in Nat /\ MaxRestarts \in Nat

NoRefusal == 0          \* worst_known_bad_rpm is None

VARIABLES
    rate,       \* rate_rpm
    streak,     \* consecutive_refusals, of which only the first four matter
    best,       \* best_known_good_rpm
    worst,      \* worst_known_bad_rpm
    saved,      \* the row of adaptive_limits.json
    overloads, restarts,
    refused     \* history: the lowest rate allowed at a refusal this process saw

pace == <<rate, streak, best, worst>>
limiterVars == <<pace, saved, overloads, restarts, refused>>

Rates == MinRate..MaxRate

LimiterTypeOK ==
    /\ rate \in Rates
    /\ streak \in 0..4
    /\ best \in Rates \cup {0}
    /\ worst \in Rates \cup {NoRefusal}
    /\ saved \in [rate : Rates, streak : 0..4, best : Rates \cup {0},
                  worst : Rates \cup {NoRefusal}]
    /\ overloads \in 0..MaxOverloads
    /\ restarts \in 0..MaxRestarts
    /\ refused \in Rates \cup {NoRefusal}

Larger(a, b) == IF a >= b THEN a ELSE b
Smaller(a, b) == IF a <= b THEN a ELSE b

\* RATE_DECREASE_FACTOR to the power of the streak.
Cut(r, n) ==
    CASE n = 1 -> r \div 2 [] n = 2 -> r \div 4 [] n = 3 -> r \div 8 [] OTHER -> r \div 16

\* The highest rate the limiter lets itself climb to.
Ceiling(w) ==
    IF w = NoRefusal THEN MaxRate ELSE Larger(MinRate, (95 * w) \div 100)

-----------------------------------------------------------------------------
(* observe *)

RefusedRecordsAfterCut ==
    /\ streak' = Smaller(streak + 1, 4)
    /\ rate' = Larger(MinRate, Cut(rate, streak'))
    /\ worst' = IF worst = NoRefusal \/ rate' < worst THEN rate' ELSE worst
    /\ UNCHANGED best

RefusedWithoutFloor ==
    /\ streak' = Smaller(streak + 1, 4)
    /\ worst' = IF worst = NoRefusal \/ rate < worst THEN rate ELSE worst
    /\ rate' = Cut(rate, Smaller(streak + 1, 4))
    /\ UNCHANGED best

\* The refused rate is recorded before the cut; a streak compounds the cut.
Refused ==
    /\ streak' = Smaller(streak + 1, 4)
    /\ worst' = IF worst = NoRefusal \/ rate < worst THEN rate ELSE worst
    /\ rate' = Larger(MinRate, Cut(rate, Smaller(streak + 1, 4)))
    /\ UNCHANGED best

SucceededUncapped ==
    /\ streak' = 0
    /\ best' = Larger(best, rate)
    /\ rate' = Larger(MinRate, Smaller(rate + Step, MaxRate))
    /\ UNCHANGED worst

Succeeded ==
    /\ streak' = 0
    /\ best' = Larger(best, rate)
    /\ LET proposed == IF worst = NoRefusal THEN rate + Step
                       ELSE Smaller(rate + Step, (95 * worst) \div 100)
       IN  rate' = Larger(MinRate, Smaller(proposed, MaxRate))
    /\ UNCHANGED worst

-----------------------------------------------------------------------------
(* The caller, which paces itself by delay_before_next, and the provider *)

\* The history alone: what the process has seen refused, whatever observe records.
Remember == refused' = IF refused = NoRefusal \/ rate < refused THEN rate ELSE refused

\* A request sent at rate r.  A caller that keeps to the delay never sends
\* faster than the limiter's rate, but may well send slower.
Send(r) ==
    /\ IF r > TrueLimit THEN Refused /\ Remember ELSE Succeeded /\ UNCHANGED refused
    /\ UNCHANGED <<saved, overloads, restarts>>

\* REFUSAL_STATUS holds 503 too: the provider is overloaded at any rate.
Overloaded ==
    /\ overloads < MaxOverloads
    /\ overloads' = overloads + 1
    /\ Refused /\ Remember
    /\ UNCHANGED <<saved, restarts>>

\* save replaces the file atomically.
Save ==
    /\ saved' = [rate |-> rate, streak |-> streak, best |-> best, worst |-> worst]
    /\ UNCHANGED <<pace, overloads, restarts, refused>>

\* A new process loads the last saved row; what was learnt since is lost.
Restart ==
    /\ restarts < MaxRestarts
    /\ restarts' = restarts + 1
    /\ rate' = saved.rate /\ streak' = saved.streak
    /\ best' = saved.best /\ worst' = saved.worst
    /\ refused' = NoRefusal
    /\ UNCHANGED <<saved, overloads>>

LimiterInit ==
    /\ rate = StartRate /\ streak = 0 /\ best = 0 /\ worst = NoRefusal
    /\ saved = [rate |-> StartRate, streak |-> 0, best |-> 0, worst |-> NoRefusal]
    /\ overloads = 0 /\ restarts = 0 /\ refused = NoRefusal

LimiterNext == (\E r \in 1..rate : Send(r)) \/ Overloaded \/ Save \/ Restart

\* The caller goes on working, and time and again as fast as it is told it may.
FairLimiterSpec == LimiterInit /\ [][LimiterNext]_limiterVars /\ WF_limiterVars(Send(rate))

LimiterSpec == LimiterInit /\ [][LimiterNext]_limiterVars

-----------------------------------------------------------------------------
(* Properties *)

\* "Do not climb back above a rate already known to be refused; stop just below
\* it": within one life of the process, whatever row it started from, the rate
\* stays at most 95% of the lowest rate it was refused at, or the minimum.  What
\* was refused since the last save is forgotten at a restart, and the rate with it.
NeverAboveRefused == refused # NoRefusal => rate <= Ceiling(refused)

\* "every success nudges the allowed rate up": the cap never turns a success
\* into a slowdown, because the rate is never above the cap when one arrives.
SuccessNeverSlows ==
    [][\A r \in 1..rate : r <= TrueLimit /\ Send(r) => rate' >= rate]_limiterVars

\* "settling under it": with a caller that uses the pace it is given, the rate
\* ends exactly at the ceiling, and there the provider no longer refuses it.
Settles == <>[](rate = Ceiling(worst) /\ (rate <= TrueLimit))
==============================================================================
