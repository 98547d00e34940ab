------------------------ MODULE EvidencePublication -------------------------
(***************************************************************************)
(* Publications that consist of two files.  An evidence document and its   *)
(* manifest (evidence_contract.publish) are each written once: a version   *)
(* already on disk is refused.  Capability evidence and source             *)
(* observations (capability_evidence.publish, publish_observations) are    *)
(* replaced: first the last-known-good copy, then the target.  Each file   *)
(* is replaced at one instant (FileReplace, with names of their own); a    *)
(* publisher can stop between any two steps and be run again.  The stamp   *)
(* of a document is whatever its caller says.                              *)
(***************************************************************************)
EXTENDS EvidenceContract, FiniteSets

CONSTANTS
    Publishers,
    Versions, Stems, Stem,  \* evidence versions, file stems, the stem of a version
    Drafts,                 \* the evidence at hand, one of these
    Role,                   \* the role it is evaluated for
    Stamps                  \* what a caller may give as generated_at

ASSUME EvidenceAssumption ==
    /\ Stem \in [Versions -> Stems]
    /\ Stamps \subseteq Nat

\* Every bound of ROLE_DEFINITIONS lies strictly between zero and one, and a
\* document is built only of candidates that _evaluate_candidate does not
\* reject; no identity is named by the number that stands for an abstention.
ASSUME DraftAssumption ==
    /\ Role \in RoleDefinitions(Nat) /\ Role.minimum_success_lower_bound \in 1..19
    /\ \A d \in Drafts :
           /\ IsFiniteSet(DOMAIN d.candidates)
           /\ DOMAIN d.candidates \subseteq Nat \ {Abstained}
           /\ \A i \in DOMAIN d.candidates :
                  d.candidates[i] \in Candidates(Nat) /\ WellFormed(d.candidates[i])

VARIABLES
    draft,
    evidence,   \* stem -> the content file and what the manifest file vouches for
    records,    \* the last-known-good file and the target
    job,        \* publisher -> what it writes next, or what it checks
    returned    \* the publications that were reported as done

vars == <<draft, evidence, records, job, returned>>

Missing == [generated_at |-> -1]

\* first and second: the two files in the order in which they are written.
Pair(first, second) == [first |-> first, second |-> second]

Idle == [pc |-> "idle"]

Job(pc, kind, doc) == [pc |-> pc, kind |-> kind, doc |-> doc]

\* The document a caller builds from the evidence at hand: the role is
\* evaluated for the version that will be published.
Content(v, at) ==
    [version |-> v, generated_at |-> at,
     sources |-> draft.sources, identities |-> draft.identities,
     observations |-> draft.observations, runtime |-> draft.runtime,
     calibrations |-> draft.calibrations,
     roles |-> [r \in {"role"} |->
                  [version |-> v, evaluation |-> EvaluateRole(draft.candidates, Role)]],
     advisory |-> [version |-> v, roles |-> {"role"}]]

Contents == {Content(v, at) : v \in Versions, at \in Stamps}

Records == [generated_at : Stamps]

Jobs ==
    {Idle}
    \cup [pc : {"check first", "put first", "check second", "put second"},
          kind : {"evidence"}, doc : Contents]
    \cup [pc : {"put first", "put second"}, kind : {"records"}, doc : Records]

TypeOK ==
    /\ draft \in Drafts
    /\ evidence \in [Stems -> [first : Contents \cup {Missing},
                              second : Contents \cup {Missing}]]
    /\ records \in [first : Records \cup {Missing}, second : Records \cup {Missing}]
    /\ job \in [Publishers -> Jobs]
    /\ returned \subseteq Contents

-----------------------------------------------------------------------------
Become(p, j) == job' = [job EXCEPT ![p] = j]

\* publish: a document the contract rejects writes nothing.  The manifest's
\* digest is known by the content it was taken of.
PublishEvidence(p, v, at) ==
    /\ job[p] = Idle
    /\ ValidContent(Content(v, at))
    /\ Become(p, Job("check first", "evidence", Content(v, at)))
    /\ UNCHANGED <<draft, evidence, records, returned>>

\* --generated-at and --retrieved-at are not compared with what is on disk.
PublishRecords(p, at) ==
    /\ job[p] = Idle
    /\ Become(p, Job("put first", "records", [generated_at |-> at]))
    /\ UNCHANGED <<draft, evidence, records, returned>>

FileOf(doc) == evidence[Stem[doc.version]]

CheckFirstForgotten(p) ==
    /\ job[p].pc = "check first"
    /\ Become(p, Job("put first", "evidence", job[p].doc))
    /\ UNCHANGED <<draft, evidence, records, returned>>

\* _write_once: "publication already exists".
CheckFirst(p) ==
    /\ job[p].pc = "check first"
    /\ Become(p, IF FileOf(job[p].doc).first # Missing THEN Idle
                 ELSE Job("put first", "evidence", job[p].doc))
    /\ UNCHANGED <<draft, evidence, records, returned>>

CheckSecond(p) ==
    /\ job[p].pc = "check second"
    /\ Become(p, IF FileOf(job[p].doc).second # Missing THEN Idle
                 ELSE Job("put second", "evidence", job[p].doc))
    /\ UNCHANGED <<draft, evidence, records, returned>>

PutFirstLast(p) ==
    /\ job[p].pc = "put first"
    /\ LET doc == job[p].doc IN
       IF job[p].kind = "evidence"
       THEN /\ evidence' = [evidence EXCEPT ![Stem[doc.version]] = Pair(@.first, doc)]
            /\ Become(p, Job("check second", "evidence", doc))
            /\ UNCHANGED records
       ELSE /\ records' = Pair(records.first, doc)
            /\ Become(p, Job("put second", "records", doc))
            /\ UNCHANGED evidence
    /\ UNCHANGED <<draft, returned>>

PutFirst(p) ==
    /\ job[p].pc = "put first"
    /\ LET doc == job[p].doc IN
       IF job[p].kind = "evidence"
       THEN /\ evidence' = [evidence EXCEPT ![Stem[doc.version]] = Pair(doc, @.second)]
            /\ Become(p, Job("check second", "evidence", doc))
            /\ UNCHANGED records
       ELSE /\ records' = Pair(doc, records.second)
            /\ Become(p, Job("put second", "records", doc))
            /\ UNCHANGED evidence
    /\ UNCHANGED <<draft, returned>>

PutSecond(p) ==
    /\ job[p].pc = "put second"
    /\ LET doc == job[p].doc IN
       IF job[p].kind = "evidence"
       THEN /\ evidence' = [evidence EXCEPT ![Stem[doc.version]] = Pair(@.first, doc)]
            /\ returned' = returned \cup {doc}
            /\ UNCHANGED records
       ELSE /\ records' = Pair(records.first, doc)
            /\ UNCHANGED <<evidence, returned>>
    /\ Become(p, Idle)
    /\ UNCHANGED draft

\* An error, which removes the temporary file, or a crash.
Stop(p) ==
    /\ job[p] # Idle
    /\ Become(p, Idle)
    /\ UNCHANGED <<draft, evidence, records, returned>>

Init ==
    /\ draft \in Drafts
    /\ evidence = [s \in Stems |-> Pair(Missing, Missing)]
    /\ records = Pair(Missing, Missing)
    /\ job = [p \in Publishers |-> Idle]
    /\ returned = {}

Step(p) ==
    \/ \E v \in Versions, at \in Stamps : PublishEvidence(p, v, at)
    \/ \E at \in Stamps : PublishRecords(p, at)
    \/ CheckFirst(p) \/ PutFirst(p)
    \/ CheckSecond(p) \/ PutSecond(p)
    \/ Stop(p)

Next == \E p \in Publishers : Step(p)

Spec == Init /\ [][Next]_vars

-----------------------------------------------------------------------------
(* Properties.  Those of the files are promised for one publisher at a     *)
(* time: nothing locks the directory between the check and the rename.     *)

\* "write-once": a file of an evidence version never changes once it is there,
\* neither by a retry with the same version after a crash nor by another
\* version with the same file stem.
WriteOnce ==
    [][\A s \in Stems :
          /\ evidence[s].first # Missing => evidence'[s].first = evidence[s].first
          /\ evidence[s].second # Missing => evidence'[s].second = evidence[s].second]_vars

\* A manifest lies beside the very content it was made of, and whatever was
\* reported as published is still there, whole.
ManifestMatches ==
    /\ \A s \in Stems : evidence[s].second # Missing => evidence[s].second = evidence[s].first
    /\ \A c \in returned : FileOf(c) = Pair(c, c)

\* Whatever the target becomes, the last-known-good copy holds it already: a write
\* of the target that fails or is cut off leaves the document to fall back on.
\* Nothing more: by the callers' stamps the copy may be the older one of the two
\* when a publication stopped in between.
TargetSafeguarded ==
    [][records'.second # records.second => records'.second = records.first]_vars

Published == {evidence[s].first : s \in Stems} \ {Missing}

\* What no number of trials makes up for.
Admitted(d) == d.available /\ d.private /\ d.endpoint /\ d.capable /\ d.equipped

\* A true success rate of q twentieths lies within the 95% interval: the trials
\* are less than 1.96 standard deviations away from what it predicts.
Plausible(d, q) ==
    LET distance == 20 * d.successes - q * d.trials
    IN  625 * (distance * distance) < 2401 * (d.trials * (q * (20 - q)))

\* Tried often enough, more successful than the role's bound, and so clearly that
\* no true rate up to the bound is plausible.
Proven(d) ==
    /\ d.trials >= Role.minimum_trials
    /\ 20 * d.successes > Role.minimum_success_lower_bound * d.trials
    /\ \A q \in 0..Role.minimum_success_lower_bound : ~Plausible(d, q)

\* A higher rate of successes, and a rate of valid tool calls (zero without
\* tool trials) that is not lower.
Surpasses(c, d) ==
    /\ c.successes * d.trials > d.successes * c.trials
    /\ IF c.tool_trials = 0 THEN d.tool_successes = 0
       ELSE c.tool_successes * d.tool_trials >= d.tool_successes * c.tool_trials

\* Whom a published document recommends is available, private and equipped as the
\* role asks, has proven itself by its trials, and is surpassed by no other
\* candidate that passed the gates.
RecommendationSupported ==
    \A c \in Published : \A r \in c.advisory.roles :
        LET i == c.roles[r].evaluation.recommended IN
        i # Abstained =>
            /\ Admitted(draft.candidates[i]) /\ Proven(draft.candidates[i])
            /\ \A j \in DOMAIN draft.candidates :
                   Surpasses(draft.candidates[j], draft.candidates[i])
                     => ~Eligible(draft.candidates[j], Role)
=============================================================================
