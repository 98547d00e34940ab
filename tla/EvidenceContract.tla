-------------------------- MODULE EvidenceContract --------------------------
(***************************************************************************)
(* What validate_content (evidence_contract.py) demands of an evidence     *)
(* document beyond its shape: that references resolve, that times are in   *)
(* order, and that a recommendation is backed by the document itself.      *)
(* A table of records with unique identifiers is a function.               *)
(***************************************************************************)
EXTENDS Integers, RoleEvaluation

Unlimited == -1      \* valid_until: null

SourcesValid(c) ==
    \A s \in DOMAIN c.sources :
        LET source == c.sources[s] IN
        /\ source.retrieved_at <= c.generated_at
        /\ source.evaluated_at <= c.generated_at
        /\ source.valid_until # Unlimited /\ source.state = "current" =>
               source.valid_until >= source.evaluated_at

\* callable: the key (provider, api_model, harness, endpoint_class, effort).
IdentitiesValid(c) ==
    /\ \A i, j \in DOMAIN c.identities :
           c.identities[i].callable = c.identities[j].callable => i = j
    /\ \A i \in DOMAIN c.identities :
           /\ c.identities[i].sources # {}
           /\ c.identities[i].sources \subseteq DOMAIN c.sources

\* An observation is compared with its source, a source with the document.
ObservationsValid(c) ==
    \A o \in DOMAIN c.observations :
        LET observation == c.observations[o] IN
        /\ observation.identity \in DOMAIN c.identities
        /\ observation.source \in DOMAIN c.sources
        /\ observation.observed_at <= c.sources[observation.source].retrieved_at

RuntimeValid(c) ==
    \A r \in DOMAIN c.runtime :
        LET run == c.runtime[r] IN
        /\ run.identity \in DOMAIN c.identities
        /\ run.started_at <= run.ended_at
        /\ run.ended_at <= c.generated_at

\* An exact zero price cannot enter a calibration on a positive logarithm.
CalibrationsValid(c) ==
    \A k \in DOMAIN c.calibrations :
        LET result == c.calibrations[k] IN
        /\ result.inputs # {} /\ result.inputs \subseteq DOMAIN c.observations
        /\ result.generated_at <= c.generated_at
        /\ result.positive_log => \A o \in result.inputs : ~c.observations[o].zero_price

RecommendationValid(c, e) ==
    LET i == e.recommended IN
    /\ i \in DOMAIN e.candidates
    /\ e.candidates[i].passed = Gates
    /\ e.candidates[i].scored
    /\ c.identities[i].lifecycle = "current"
    /\ \A s \in c.identities[i].sources : c.sources[s].state = "current"

RoleValid(c, e) ==
    /\ DOMAIN e.candidates \subseteq DOMAIN c.identities
    /\ e.recommended = Abstained \/ RecommendationValid(c, e)

RolesValid(c) ==
    \A r \in DOMAIN c.roles :
        c.roles[r].version = c.version /\ RoleValid(c, c.roles[r].evaluation)

AdvisoryValid(c) ==
    c.advisory.version = c.version /\ c.advisory.roles \subseteq DOMAIN c.roles

ValidContent(c) ==
    /\ SourcesValid(c) /\ IdentitiesValid(c) /\ ObservationsValid(c)
    /\ RuntimeValid(c) /\ CalibrationsValid(c)
    /\ RolesValid(c) /\ AdvisoryValid(c)
=============================================================================
