----------------------- MODULE MCEvidencePublication ------------------------
EXTENDS EvidencePublication

\* "a/b" and "a_b" share their file names.
MCVersions == {"08/15", "08_15"}
MCStem == [v \in MCVersions |-> "08_15"]

\* coding-execution: 12 trials, lower bound 0.65.
MCRole == [minimum_trials |-> 12, minimum_success_lower_bound |-> 13]

Tried(s, n, t) ==
    [available |-> TRUE, private |-> TRUE, endpoint |-> TRUE, capable |-> TRUE,
     equipped |-> TRUE, successes |-> s, trials |-> n,
     tool_successes |-> t, tool_trials |-> n]

\* Too few trials, too few successes, just enough, more trials and a lower
\* rate, never asked for a tool call, perfect but not available.
Trials == {Tried(11, 11, 11), Tried(11, 12, 12), Tried(12, 12, 11), Tried(19, 20, 20),
           [Tried(20, 20, 0) EXCEPT !.tool_trials = 0],
           [Tried(20, 20, 20) EXCEPT !.available = FALSE]}

MCSources ==
    {[s \in {"catalog"} |-> source] :
        source \in [retrieved_at : 0..1, evaluated_at : 0..1, state : {"current", "stale"},
                    valid_until : {Unlimited, 0}]}

MCIdentities ==
    {[i \in {1, 2} |-> [callable |-> i, sources |-> {"catalog"}, lifecycle |-> l]] :
        l \in {"current", "deprecated"}}

MCObservations ==
    {[o \in {"price"} |-> [identity |-> 1, source |-> "catalog", observed_at |-> t,
                           zero_price |-> z]] :
        t \in 0..1, z \in BOOLEAN}

MCDrafts ==
    [sources : MCSources, identities : MCIdentities, observations : MCObservations,
     runtime : {[r \in {"attempt"} |-> [identity |-> 2, started_at |-> 0, ended_at |-> 0]]},
     calibrations : {[k \in {"cost"} |-> [inputs |-> {"price"}, generated_at |-> 0,
                                          positive_log |-> TRUE]]},
     candidates : {[i \in {1, 2} |-> IF i = 1 THEN c ELSE d] : c, d \in Trials}]
=============================================================================
