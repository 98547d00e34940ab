--------------------------- MODULE RoleEvaluation ---------------------------
(***************************************************************************)
(* Which model is recommended for a role (role_evaluation.py): every       *)
(* candidate passes a list of gates or has no score, and the best score    *)
(* wins.  The gate on trials asks that the lower end of the 95% Wilson     *)
(* interval of the success rate reaches the role's bound.  Identities are  *)
(* numbers, for the tie-break by identity_id.                              *)
(***************************************************************************)
EXTENDS Integers

\* What is known of a candidate and what a role requires; bounds are in
\* twentieths, as every bound of ROLE_DEFINITIONS is a multiple of 0.05.
Candidates(counts) ==
    [available : BOOLEAN, private : BOOLEAN, endpoint : BOOLEAN,
     capable : BOOLEAN, equipped : BOOLEAN,
     successes : counts, trials : counts, tool_successes : counts, tool_trials : counts]

RoleDefinitions(counts) ==
    [minimum_trials : counts, minimum_success_lower_bound : 0..20]

\* What _evaluate_candidate raises on.
WellFormed(c) ==
    /\ c.trials > 0 /\ c.successes \in 0..c.trials
    /\ c.tool_successes \in 0..c.tool_trials

LowerBoundByRate(s, n, b) == 20 * s >= b * n

\* lower >= b/20, without the square root: the lower end is the rate p below
\* the observed one with n (s/n - p)^2 = z^2 p (1 - p), and z^2 = 2401/625.
LowerBoundReaches(s, n, b) ==
    LET excess == 20 * s - b * n IN
    excess >= 0 /\ 625 * excess * excess >= 2401 * n * b * (20 - b)

Gates == {"provider-available", "privacy-eligible", "endpoint-class",
          "model-capabilities", "harness-tools", "minimum-sample",
          "success-lower-bound"}

Passed(c, role) ==
    {g \in Gates :
        CASE g = "provider-available"  -> c.available
          [] g = "privacy-eligible"    -> c.private
          [] g = "endpoint-class"      -> c.endpoint
          [] g = "model-capabilities"  -> c.capable
          [] g = "harness-tools"       -> c.equipped
          [] g = "minimum-sample"      -> c.trials >= role.minimum_trials
          [] g = "success-lower-bound" -> LowerBoundReaches(c.successes, c.trials,
                                              role.minimum_success_lower_bound)}

Eligible(c, role) == Passed(c, role) = Gates

\* Four times the score is weight / span: three parts success rate, one part
\* rate of valid tool calls (none without tool trials).
Weight(c) == IF c.tool_trials = 0 THEN 3 * c.successes
             ELSE 3 * c.successes * c.tool_trials + c.tool_successes * c.trials
Span(c) == IF c.tool_trials = 0 THEN c.trials ELSE c.trials * c.tool_trials

BetterScore(c, d) == Weight(c) * Span(d) > Weight(d) * Span(c)

\* The sort key (-score, identity_id).
Precedes(cs, i, j) == BetterScore(cs[i], cs[j]) \/ (~BetterScore(cs[j], cs[i]) /\ i < j)

Abstained == 0

\* evaluate_role: cs maps identities to candidates.
EvaluateRole(cs, role) ==
    LET eligible == {i \in DOMAIN cs : Eligible(cs[i], role)} IN
    [candidates |-> [i \in DOMAIN cs |-> [passed |-> Passed(cs[i], role),
                                          scored |-> i \in eligible]],
     recommended |-> IF eligible = {} THEN Abstained
                     ELSE CHOOSE i \in eligible :
                              \A j \in eligible \ {i} : Precedes(cs, i, j)]
=============================================================================
