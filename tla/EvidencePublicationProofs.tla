----------------------- MODULE EvidencePublicationProofs ---------------------
(***************************************************************************)
(* For one publisher at a time and any evidence: published files are       *)
(* final, a manifest lies beside its content, the target is replaced only  *)
(* by what its last-known-good copy holds.  For any number of publishers   *)
(* and any candidates whatever a published document recommends passed the  *)
(* gates and is supported by its trials.                                   *)
(***************************************************************************)
EXTENDS EvidencePublication, FiniteSetTheorems, WellFoundedInduction, TLAPS

OnePublisher == \A p, q \in Publishers : p = q

\* What a publisher relies on between two of its steps.
JobHolds(p) ==
    job[p].pc # "idle" =>
        IF job[p].kind = "evidence"
        THEN LET f == FileOf(job[p].doc) IN
             /\ job[p].pc = "put first" => f = Pair(Missing, Missing)
             /\ job[p].pc \in {"check second", "put second"} => f = Pair(job[p].doc, Missing)
        ELSE job[p].pc = "put second" => records.first = job[p].doc

JobInv == \A p \in Publishers : JobHolds(p)

IInv == TypeOK /\ ManifestMatches /\ JobInv

-----------------------------------------------------------------------------
LEMMA ContentIsThere == Missing \notin Contents
<1>1. \A v, at : Content(v, at).generated_at = at
  BY DEF Content
<1>2. \A at \in Stamps : at # -1
  BY EvidenceAssumption DEF EvidenceAssumption
<1>3. Missing.generated_at = -1
  BY DEF Missing
<1>4. QED
  BY <1>1, <1>2, <1>3 DEF Contents

LEMMA StemTyped ==
    ASSUME NEW c \in Contents
    PROVE  Stem[c.version] \in Stems
<1>1. PICK v \in Versions, at \in Stamps : c = Content(v, at)
  BY DEF Contents
<1>2. c.version = v
  BY <1>1 DEF Content
<1>3. QED
  BY <1>2, EvidenceAssumption DEF EvidenceAssumption

LEMMA ContentsStay ==
    ASSUME draft' = draft
    PROVE  Contents' = Contents
BY DEF Contents, Content

-----------------------------------------------------------------------------
LEMMA InitEstablishes == Init => IInv
<1> SUFFICES ASSUME Init PROVE IInv
  OBVIOUS
<1>1. TypeOK
  BY EvidenceAssumption DEF Init, TypeOK, EvidenceAssumption, Pair, Jobs
<1>2. ManifestMatches
  BY DEF Init, ManifestMatches, Pair
<1>3. JobInv
  BY DEF Init, JobInv, JobHolds, Idle
<1>4. QED
  BY <1>1, <1>2, <1>3 DEF IInv

-----------------------------------------------------------------------------
(* Every step keeps the types. *)

LEMMA JobTyped ==
    ASSUME TypeOK, NEW p \in Publishers, job[p].pc # "idle"
    PROVE  /\ job[p].kind = "evidence" => job[p].doc \in Contents
           /\ job[p].kind # "evidence" => job[p].doc \in Records
           /\ job[p].pc \in {"check first", "check second"} => job[p].kind = "evidence"
<1>1. job[p] # Idle
  BY DEF Idle
<1>2. job[p] \in Jobs
  BY DEF TypeOK
<1>3. CASE job[p] \in [pc : {"check first", "put first", "check second", "put second"},
                      kind : {"evidence"}, doc : Contents]
  BY <1>3
<1>4. CASE job[p] \in [pc : {"put first", "put second"}, kind : {"records"}, doc : Records]
  BY <1>4
<1>5. QED
  BY <1>1, <1>2, <1>3, <1>4 DEF Jobs

LEMMA JobFields ==
    ASSUME NEW pc, NEW kind, NEW doc, NEW j, j = Job(pc, kind, doc)
    PROVE  j.pc = pc /\ j.kind = kind /\ j.doc = doc
BY DEF Job

LEMMA JobsOf ==
    /\ Idle \in Jobs
    /\ \A doc \in Contents :
           /\ Job("check first", "evidence", doc) \in Jobs
           /\ Job("put first", "evidence", doc) \in Jobs
           /\ Job("check second", "evidence", doc) \in Jobs
           /\ Job("put second", "evidence", doc) \in Jobs
    /\ \A doc \in Records :
           /\ Job("put first", "records", doc) \in Jobs
           /\ Job("put second", "records", doc) \in Jobs
BY DEF Jobs, Job

LEMMA PairFields ==
    ASSUME NEW first, NEW second, NEW f, f = Pair(first, second)
    PROVE  f.first = first /\ f.second = second
BY DEF Pair

LEMMA PairTyped ==
    ASSUME NEW S, NEW first \in S, NEW second \in S
    PROVE  Pair(first, second) \in [first : S, second : S]
BY DEF Pair

LEMMA TypeStep == TypeOK /\ [Next]_vars => TypeOK'
<1> SUFFICES ASSUME TypeOK, [Next]_vars PROVE TypeOK'
  OBVIOUS
<1>1. CASE UNCHANGED vars
  BY <1>1, ContentsStay DEF vars, TypeOK, Jobs
<1>2. ASSUME NEW p \in Publishers, Step(p) PROVE TypeOK'
  <2> USE <1>2
  <2>1. Contents' = Contents /\ draft' = draft
    BY ContentsStay DEF Step, PublishEvidence, PublishRecords, CheckFirst, PutFirst,
                        CheckSecond, PutSecond, Stop
  <2>2. SUFFICES
          /\ evidence' \in [Stems -> [first : Contents \cup {Missing},
                                      second : Contents \cup {Missing}]]
          /\ records' \in [first : Records \cup {Missing}, second : Records \cup {Missing}]
          /\ job' \in [Publishers -> Jobs]
          /\ returned' \subseteq Contents
    BY <2>1 DEF TypeOK, Jobs
  <2>3. /\ evidence \in [Stems -> [first : Contents \cup {Missing},
                                   second : Contents \cup {Missing}]]
        /\ records \in [first : Records \cup {Missing}, second : Records \cup {Missing}]
        /\ job \in [Publishers -> Jobs]
        /\ returned \subseteq Contents
    BY DEF TypeOK
  <2>4. CASE \E v \in Versions, at \in Stamps : PublishEvidence(p, v, at)
    <3>1. PICK v \in Versions, at \in Stamps : PublishEvidence(p, v, at)
      BY <2>4
    <3>2. Content(v, at) \in Contents
      BY DEF Contents
    <3>3. QED
      BY <2>3, <3>1, <3>2, JobsOf DEF PublishEvidence, Become
  <2>5. CASE \E at \in Stamps : PublishRecords(p, at)
    <3>1. PICK at \in Stamps : PublishRecords(p, at)
      BY <2>5
    <3>2. Job("put first", "records", [generated_at |-> at]) \in Jobs
      BY JobsOf DEF Records
    <3>3. QED
      BY <2>3, <3>1, <3>2 DEF PublishRecords, Become
  <2>6. CASE CheckFirst(p) \/ CheckSecond(p)
    <3>1. job[p].pc \in {"check first", "check second"}
      BY <2>6 DEF CheckFirst, CheckSecond
    <3>2. job[p].doc \in Contents
      BY <3>1, JobTyped
    <3>3. QED
      BY <2>3, <2>6, <3>2, JobsOf DEF CheckFirst, CheckSecond, Become
  <2>7. CASE PutFirst(p)
    <3> DEFINE doc == job[p].doc
    <3>1. job[p].pc = "put first"
      BY <2>7 DEF PutFirst
    <3>2. CASE job[p].kind = "evidence"
      <4>1. doc \in Contents /\ Stem[doc.version] \in Stems
        BY <3>1, <3>2, JobTyped, StemTyped
      <4>2. Pair(doc, evidence[Stem[doc.version]].second)
              \in [first : Contents \cup {Missing}, second : Contents \cup {Missing}]
        BY <2>3, <4>1, PairTyped
      <4>3. QED
        BY <2>3, <2>7, <3>2, <4>1, <4>2, JobsOf DEF PutFirst, Become
    <3>3. CASE job[p].kind # "evidence"
      <4>1. doc \in Records
        BY <3>1, <3>3, JobTyped
      <4>2. Pair(doc, records.second) \in [first : Records \cup {Missing}, second : Records \cup {Missing}]
        BY <2>3, <4>1, PairTyped
      <4>3. QED
        BY <2>3, <2>7, <3>3, <4>1, <4>2, JobsOf DEF PutFirst, Become
    <3>4. QED
      BY <3>2, <3>3
  <2>8. CASE PutSecond(p)
    <3> DEFINE doc == job[p].doc
    <3>1. job[p].pc = "put second"
      BY <2>8 DEF PutSecond
    <3>2. CASE job[p].kind = "evidence"
      <4>1. doc \in Contents /\ Stem[doc.version] \in Stems
        BY <3>1, <3>2, JobTyped, StemTyped
      <4>2. Pair(evidence[Stem[doc.version]].first, doc)
              \in [first : Contents \cup {Missing}, second : Contents \cup {Missing}]
        BY <2>3, <4>1, PairTyped
      <4>3. QED
        BY <2>3, <2>8, <3>2, <4>1, <4>2, JobsOf DEF PutSecond, Become
    <3>3. CASE job[p].kind # "evidence"
      <4>1. doc \in Records
        BY <3>1, <3>3, JobTyped
      <4>2. Pair(records.first, doc) \in [first : Records \cup {Missing}, second : Records \cup {Missing}]
        BY <2>3, <4>1, PairTyped
      <4>3. QED
        BY <2>3, <2>8, <3>3, <4>1, <4>2, JobsOf DEF PutSecond, Become
    <3>4. QED
      BY <3>2, <3>3
  <2>9. CASE Stop(p)
    BY <2>3, <2>9, JobsOf DEF Stop, Become
  <2>10. QED
    BY <2>4, <2>5, <2>6, <2>7, <2>8, <2>9 DEF Step
<1>3. QED
  BY <1>1, <1>2 DEF Next

-----------------------------------------------------------------------------
(* Every step of a publisher keeps the files in order and leaves behind    *)
(* what that publisher relies on next.                                     *)

LEMMA IdleHolds ==
    ASSUME TypeOK, NEW p \in Publishers, Become(p, Idle)
    PROVE  JobHolds(p)'
<1>1. job'[p].pc = "idle"
  BY DEF TypeOK, Become, Idle
<1>2. QED
  BY <1>1 DEF JobHolds

LEMMA JobTaken ==
    ASSUME TypeOK, NEW p \in Publishers, NEW pc, NEW kind, NEW doc,
           Become(p, Job(pc, kind, doc))
    PROVE  job'[p].pc = pc /\ job'[p].kind = kind /\ job'[p].doc = doc
BY DEF TypeOK, Become, Job

LEMMA PublishStep ==
    ASSUME IInv, NEW p \in Publishers, NEW at,
           (\E v \in Versions : PublishEvidence(p, v, at)) \/ PublishRecords(p, at)
    PROVE  ManifestMatches' /\ JobHolds(p)'
<1>1. UNCHANGED <<evidence, records, returned>>
  BY DEF PublishEvidence, PublishRecords
<1>2. ManifestMatches'
  BY <1>1 DEF IInv, ManifestMatches, FileOf
<1>3. CASE PublishRecords(p, at)
  <2>1. Become(p, Job("put first", "records", [generated_at |-> at]))
    BY <1>3 DEF PublishRecords
  <2>2. job'[p].kind = "records" /\ job'[p].pc = "put first"
    BY <2>1, JobTaken, Zenon DEF IInv
  <2>3. QED
    BY <1>2, <2>2 DEF JobHolds
<1>4. CASE \E v \in Versions : PublishEvidence(p, v, at)
  <2>1. PICK v \in Versions : PublishEvidence(p, v, at)
    BY <1>4
  <2>2. Become(p, Job("check first", "evidence", Content(v, at)))
    BY <2>1 DEF PublishEvidence
  <2>3. job'[p].kind = "evidence" /\ job'[p].pc = "check first"
    BY <2>2, JobTaken, Zenon DEF IInv
  <2>4. QED
    BY <1>2, <2>3 DEF JobHolds
<1>5. QED
  BY <1>3, <1>4

\* What is to be written next was found missing.
LEMMA CheckStep ==
    ASSUME IInv, NEW p \in Publishers, CheckFirst(p) \/ CheckSecond(p)
    PROVE  ManifestMatches' /\ JobHolds(p)'
<1>1. UNCHANGED <<evidence, records, returned>>
  BY DEF CheckFirst, CheckSecond
<1>2. ManifestMatches'
  BY <1>1 DEF IInv, ManifestMatches, FileOf
<1>3. job[p].pc \in {"check first", "check second"}
  BY DEF CheckFirst, CheckSecond
<1> DEFINE doc == job[p].doc
           f == FileOf(doc)
<1>4. job[p].kind = "evidence" /\ doc \in Contents /\ Stem[doc.version] \in Stems
  BY <1>3, JobTyped, StemTyped DEF IInv
<1>5. f \in [first : Contents \cup {Missing}, second : Contents \cup {Missing}]
  BY <1>4 DEF IInv, TypeOK, FileOf
<1>6. CASE Become(p, Idle)
  BY <1>2, <1>6, IdleHolds DEF IInv
<1>7. CASE f.first = Missing /\ Become(p, Job("put first", "evidence", doc))
  <2>1. f.second = Missing
    BY <1>4, <1>7 DEF IInv, ManifestMatches, FileOf
  <2>2. f = Pair(Missing, Missing)
    BY <1>5, <1>7, <2>1 DEF Pair
  <2>3. job'[p].kind = "evidence" /\ job'[p].doc = doc /\ job'[p].pc = "put first"
    BY <1>7, JobTaken, Zenon DEF IInv
  <2>4. QED
    BY <1>1, <1>2, <2>2, <2>3 DEF JobHolds, FileOf
<1>8. CASE job[p].pc = "check second" /\ Become(p, Job("put second", "evidence", doc))
  <2>1. f = Pair(doc, Missing)
    BY <1>4, <1>8 DEF IInv, JobInv, JobHolds
  <2>2. job'[p].kind = "evidence" /\ job'[p].doc = doc /\ job'[p].pc = "put second"
    BY <1>8, JobTaken, Zenon DEF IInv
  <2>3. QED
    BY <1>1, <1>2, <2>1, <2>2 DEF JobHolds, FileOf
<1>9. \/ Become(p, Idle)
      \/ f.first = Missing /\ Become(p, Job("put first", "evidence", doc))
      \/ job[p].pc = "check second" /\ Become(p, Job("put second", "evidence", doc))
  BY DEF CheckFirst, CheckSecond
<1>10. QED
  BY <1>6, <1>7, <1>8, <1>9

\* A record is put into the first place and then into the second.
LEMMA RecordsStep ==
    ASSUME IInv, NEW p \in Publishers, PutFirst(p) \/ PutSecond(p), job[p].kind # "evidence"
    PROVE  /\ ManifestMatches' /\ JobHolds(p)' /\ evidence' = evidence
           /\ records'.second # records.second => records'.second = records.first
<1>1. UNCHANGED <<evidence, returned>>
  BY DEF PutFirst, PutSecond
<1>2. ManifestMatches'
  BY <1>1 DEF IInv, ManifestMatches, FileOf
<1> DEFINE doc == job[p].doc
<1>3. CASE PutFirst(p)
  <2>1. records' = Pair(doc, records.second)
    BY <1>3 DEF PutFirst
  <2>2. records'.first = doc /\ records'.second = records.second
    BY <2>1, PairFields
  <2>3. Become(p, Job("put second", "records", doc))
    BY <1>3 DEF PutFirst
  <2>4. job'[p].kind = "records" /\ job'[p].doc = doc
    BY <2>3, JobTaken, Zenon DEF IInv
  <2>5. JobHolds(p)'
    BY <2>2, <2>4, Zenon DEF JobHolds
  <2>6. QED
    BY <1>1, <1>2, <2>2, <2>5
<1>4. CASE PutSecond(p)
  <2>1. records' = Pair(records.first, doc) /\ job[p].pc = "put second" /\ Become(p, Idle)
    BY <1>4 DEF PutSecond
  <2>2. records.first = doc
    BY <2>1 DEF IInv, JobInv, JobHolds
  <2>3. records'.second = doc
    BY <2>1 DEF Pair
  <2>4. JobHolds(p)'
    BY <2>1, IdleHolds DEF IInv
  <2>5. QED
    BY <1>1, <1>2, <2>2, <2>3, <2>4
<1>5. QED
  BY <1>3, <1>4

\* A document is put into its file, then into the manifest; nothing that was
\* published has the same stem.
LEMMA EvidenceStep ==
    ASSUME IInv, NEW p \in Publishers, PutFirst(p) \/ PutSecond(p), job[p].kind = "evidence"
    PROVE  /\ ManifestMatches' /\ JobHolds(p)' /\ records' = records
           /\ \A s \in Stems :
                 /\ evidence[s].first # Missing => evidence'[s].first = evidence[s].first
                 /\ evidence[s].second # Missing => evidence'[s].second = evidence[s].second
<1>1. records' = records
  BY DEF PutFirst, PutSecond
<1>3. job[p].pc \in {"put first", "put second"}
  BY DEF PutFirst, PutSecond
<1> DEFINE doc == job[p].doc
           stem == Stem[doc.version]
<1>4. doc \in Contents /\ stem \in Stems
  BY <1>3, JobTyped, StemTyped DEF IInv
<1>5. Missing \notin Contents
  BY ContentIsThere DEF IInv
<1>6. \A c \in returned : /\ c \in Contents /\ Stem[c.version] \in Stems
                          /\ evidence[Stem[c.version]] = Pair(c, c)
  BY StemTyped DEF IInv, TypeOK, ManifestMatches, FileOf
<1>7. \A s \in Stems : evidence[s].second # Missing => evidence[s].second = evidence[s].first
  BY DEF IInv, ManifestMatches
<1>8. ASSUME evidence[stem].second = Missing
      PROVE  \A c \in returned : Stem[c.version] # stem
  <2>1. \A c \in returned : evidence[Stem[c.version]].second = c
    BY <1>6, PairFields
  <2>2. QED
    BY <1>5, <1>6, <1>8, <2>1
<1>9. evidence \in [Stems -> [first : Contents \cup {Missing}, second : Contents \cup {Missing}]]
  BY DEF IInv, TypeOK
<1>10. CASE PutFirst(p)
  <2>1. evidence[stem] = Pair(Missing, Missing)
    BY <1>10 DEF IInv, JobInv, JobHolds, FileOf, PutFirst
  <2>2. evidence[stem].first = Missing /\ evidence[stem].second = Missing
    BY <2>1, PairFields
  <2>3. /\ evidence' = [evidence EXCEPT ![stem] = Pair(doc, evidence[stem].second)]
        /\ Become(p, Job("check second", "evidence", doc))
        /\ returned' = returned
    BY <1>10 DEF PutFirst
  <2>4. evidence'[stem] = Pair(doc, Missing)
    BY <1>4, <1>9, <2>2, <2>3
  <2>5. \A s \in Stems \ {stem} : evidence'[s] = evidence[s]
    BY <1>4, <1>9, <2>3
  <2>6. evidence'[stem].first = doc /\ evidence'[stem].second = Missing
    BY <2>4, PairFields
  <2>7. \A s \in Stems : evidence'[s].second # Missing => evidence'[s].second = evidence'[s].first
    BY <1>7, <2>5, <2>6
  <2>8. \A c \in returned : evidence'[Stem[c.version]] = Pair(c, c)
    BY <1>6, <1>8, <2>2, <2>5
  <2>9. ManifestMatches'
    BY <2>3, <2>7, <2>8 DEF ManifestMatches, FileOf
  <2>10. job'[p].kind = "evidence" /\ job'[p].doc = doc /\ job'[p].pc = "check second"
    BY <2>3, JobTaken, Zenon DEF IInv
  <2>11. JobHolds(p)'
    BY <2>4, <2>10 DEF JobHolds, FileOf
  <2>12. QED
    BY <1>1, <2>2, <2>5, <2>9, <2>11
<1>11. CASE PutSecond(p)
  <2>1. evidence[stem] = Pair(doc, Missing)
    BY <1>11 DEF IInv, JobInv, JobHolds, FileOf, PutSecond
  <2>2. evidence[stem].first = doc /\ evidence[stem].second = Missing
    BY <2>1, PairFields
  <2>3. /\ evidence' = [evidence EXCEPT ![stem] = Pair(evidence[stem].first, doc)]
        /\ Become(p, Idle)
        /\ returned' = returned \cup {doc}
    BY <1>11 DEF PutSecond
  <2>4. evidence'[stem] = Pair(doc, doc)
    BY <1>4, <1>9, <2>2, <2>3
  <2>5. \A s \in Stems \ {stem} : evidence'[s] = evidence[s]
    BY <1>4, <1>9, <2>3
  <2>6. evidence'[stem].first = doc /\ evidence'[stem].second = doc
    BY <2>4, PairFields
  <2>7. \A s \in Stems : evidence'[s].second # Missing => evidence'[s].second = evidence'[s].first
    BY <1>7, <2>5, <2>6
  <2>8. \A c \in returned' : evidence'[Stem[c.version]] = Pair(c, c)
    BY <1>6, <1>8, <2>2, <2>3, <2>4, <2>5
  <2>9. ManifestMatches'
    BY <2>7, <2>8 DEF ManifestMatches, FileOf
  <2>10. JobHolds(p)'
    BY <2>3, IdleHolds DEF IInv
  <2>11. QED
    BY <1>1, <2>2, <2>5, <2>6, <2>9, <2>10
<1>12. QED
  BY <1>10, <1>11

LEMMA FilesStep ==
    ASSUME OnePublisher, IInv, [Next]_vars
    PROVE  ManifestMatches' /\ JobInv'
<1>1. CASE UNCHANGED vars
  BY <1>1 DEF vars, IInv, ManifestMatches, FileOf, JobInv, JobHolds
<1>2. ASSUME NEW p \in Publishers, Step(p)
      PROVE  ManifestMatches' /\ JobHolds(p)'
  <2>1. CASE Stop(p)
    <3>1. UNCHANGED <<evidence, records, returned>> /\ Become(p, Idle)
      BY <2>1 DEF Stop
    <3>2. ManifestMatches'
      BY <3>1 DEF IInv, ManifestMatches, FileOf
    <3>3. QED
      BY <3>1, <3>2, IdleHolds DEF IInv
  <2>2. QED
    BY <1>2, <2>1, PublishStep, CheckStep, RecordsStep, EvidenceStep DEF Step
<1>3. ASSUME NEW p \in Publishers, JobHolds(p)' PROVE JobInv'
  BY <1>3 DEF OnePublisher, JobInv
<1>4. QED
  BY <1>1, <1>2, <1>3 DEF Next

-----------------------------------------------------------------------------
(* Theorems *)

\* Whatever the publishers do, one or many: every file is missing or holds a
\* document some caller could have built, and so does every write under way.
THEOREM TypeCorrect == Spec => []TypeOK
<1>1. Init => TypeOK
  BY InitEstablishes DEF IInv
<1>2. QED
  BY <1>1, TypeStep, PTL DEF Spec

THEOREM InvariantHolds == OnePublisher => (Spec => []IInv)
<1> SUFFICES ASSUME OnePublisher PROVE Spec => []IInv
  OBVIOUS
<1>1. IInv /\ [Next]_vars => IInv'
  BY TypeStep, FilesStep DEF IInv
<1>2. QED
  BY <1>1, InitEstablishes, PTL DEF Spec

\* With one publisher at a time a manifest always lies beside its content, and
\* what was reported as published stays: publish may crash anywhere, and a
\* later run never finishes what it left with something else.
THEOREM ManifestAlwaysMatches == OnePublisher => (Spec => []ManifestMatches)
<1> SUFFICES ASSUME OnePublisher PROVE Spec => []ManifestMatches
  OBVIOUS
<1>1. IInv => ManifestMatches
  BY DEF IInv
<1>2. QED
  BY <1>1, InvariantHolds, PTL

\* With one publisher at a time the target never becomes what the last-known-good
\* copy does not hold, whatever stamps the callers give and wherever they stop.
THEOREM TargetAlwaysSafeguarded == OnePublisher => (Spec => TargetSafeguarded)
<1> SUFFICES ASSUME OnePublisher PROVE Spec => TargetSafeguarded
  OBVIOUS
<1> DEFINE Safeguarded == records'.second # records.second => records'.second = records.first
<1>1. IInv /\ [Next]_vars => [Safeguarded]_vars
  <2> SUFFICES ASSUME IInv, Next PROVE Safeguarded
    OBVIOUS
  <2>1. CASE records' = records
    BY <2>1
  <2>2. ASSUME NEW p \in Publishers, PutFirst(p) \/ PutSecond(p) PROVE Safeguarded
    BY <2>1, <2>2, RecordsStep, EvidenceStep
  <2>3. QED
    BY <2>1, <2>2 DEF Next, Step, PublishEvidence, PublishRecords, CheckFirst, CheckSecond, Stop
<1>2. QED
  BY <1>1, InvariantHolds, PTL DEF Spec, TargetSafeguarded

\* With one publisher at a time a published file is final.
THEOREM PublishedIsFinal == OnePublisher => (Spec => WriteOnce)
<1> SUFFICES ASSUME OnePublisher PROVE Spec => WriteOnce
  OBVIOUS
<1> DEFINE Kept == \A s \in Stems :
             /\ evidence[s].first # Missing => evidence'[s].first = evidence[s].first
             /\ evidence[s].second # Missing => evidence'[s].second = evidence[s].second
<1>1. IInv /\ [Next]_vars => [Kept]_vars
  <2> SUFFICES ASSUME IInv, Next PROVE Kept
    OBVIOUS
  <2>1. CASE evidence' = evidence
    BY <2>1
  <2>2. ASSUME NEW p \in Publishers, PutFirst(p) \/ PutSecond(p) PROVE Kept
    BY <2>1, <2>2, RecordsStep, EvidenceStep
  <2>3. QED
    BY <2>1, <2>2 DEF Next, Step, PublishEvidence, PublishRecords, CheckFirst,
                      CheckSecond, Stop
<1>2. QED
  BY <1>1, InvariantHolds, PTL DEF Spec, WriteOnce

-----------------------------------------------------------------------------
(* Who is recommended.  Scores are compared as fractions.                  *)

LEMMA Scale ==
    ASSUME NEW a \in Nat, NEW b \in Nat, NEW k \in Nat
    PROVE  /\ a * k \in Nat /\ a * k = k * a
           /\ a >= b => a * k >= b * k
           /\ a > b /\ k > 0 => a * k > b * k
OBVIOUS

LEMMA Swap ==
    ASSUME NEW a \in Nat, NEW b \in Nat, NEW c \in Nat
    PROVE  (a * b) * c = (a * c) * b
OBVIOUS

\* a/x >= b/y >= c/z.
LEMMA FractionsOrdered ==
    ASSUME NEW a \in Nat, NEW b \in Nat, NEW c \in Nat,
           NEW x \in Nat, NEW y \in Nat, NEW z \in Nat, x > 0, y > 0, z > 0,
           a * y >= b * x, b * z >= c * y
    PROVE  /\ a * z >= c * x
           /\ a * y > b * x \/ b * z > c * y => a * z > c * x
<1>1. (a * y) * z >= (b * x) * z /\ (b * z) * x >= (c * y) * x
  BY Scale
<1>2. (a * z) * y >= (c * x) * y
  BY <1>1, Scale, Swap
<1>3. QED
  BY <1>2

\* Every non-empty set of naturals has a least element.
LEMMA LeastNatural ==
    ASSUME NEW T, T \subseteq Nat, T # {}
    PROVE  \E x \in T : \A y \in T : x <= y
<1> DEFINE Less == {p \in Nat \X Nat : p[1] < p[2]}
<1>1. OpToRel(<, Nat) = Less
  BY DEF OpToRel
<1>2. IsWellFoundedOn(Less, Nat)
  BY <1>1, NatLessThanWellFounded
<1>3. PICK x \in T : \A y \in T : <<y, x>> \notin Less
  <2> HIDE DEF Less
  <2>1. QED
    BY <1>2, WFMin
<1>4. ASSUME NEW y \in T PROVE x <= y
  <2>1. x \in Nat /\ y \in Nat
    OBVIOUS
  <2>2. ~(y < x)
    BY <1>3, <2>1
  <2>3. QED
    BY <2>1, <2>2
<1>5. QED
  BY <1>4

\* What the evidence at hand says of its candidates.
CandidatesOK(cs) ==
    /\ IsFiniteSet(DOMAIN cs) /\ DOMAIN cs \subseteq Nat \ {Abstained}
    /\ \A i \in DOMAIN cs : cs[i] \in Candidates(Nat) /\ WellFormed(cs[i])

LEMMA ScoreTyped ==
    ASSUME NEW c \in Candidates(Nat), WellFormed(c)
    PROVE  Weight(c) \in Nat /\ Span(c) \in Nat /\ Span(c) > 0
<1> DEFINE s == c.successes   n == c.trials   u == c.tool_successes   t == c.tool_trials
<1>1. s \in Nat /\ n \in Nat /\ n > 0 /\ u \in Nat /\ t \in Nat
  BY DEF Candidates, WellFormed
<1>2. /\ Weight(c) = IF t = 0 THEN 3 * s ELSE 3 * s * t + u * n
      /\ Span(c) = IF t = 0 THEN n ELSE n * t
  BY DEF Weight, Span
<1> HIDE DEF s, n, u, t
<1>3. \A a, b \in Nat : a * b \in Nat /\ (a > 0 /\ b > 0 => a * b > 0)
  OBVIOUS
<1>4. Weight(c) \in Nat
  BY <1>1, <1>2, <1>3
<1>5. Span(c) \in Nat /\ Span(c) > 0
  BY <1>1, <1>2, <1>3
<1>6. QED
  BY <1>4, <1>5

\* The sort of evaluate_role is by a strict total order.
LEMMA PrecedesOrders ==
    ASSUME NEW cs, CandidatesOK(cs),
           NEW i \in DOMAIN cs, NEW j \in DOMAIN cs, NEW k \in DOMAIN cs
    PROVE  /\ ~Precedes(cs, i, i)
           /\ i # j => Precedes(cs, i, j) \/ Precedes(cs, j, i)
           /\ Precedes(cs, i, j) /\ Precedes(cs, j, k) => Precedes(cs, i, k)
<1> DEFINE W(m) == Weight(cs[m])
           S(m) == Span(cs[m])
<1>1. \A m \in {i, j, k} : W(m) \in Nat /\ S(m) \in Nat /\ S(m) > 0 /\ m \in Nat
  BY ScoreTyped DEF CandidatesOK
<1>2. \A m, n \in {i, j, k} :
        Precedes(cs, m, n) <=> \/ W(m) * S(n) > W(n) * S(m)
                               \/ ~(W(n) * S(m) > W(m) * S(n)) /\ m < n
  BY DEF Precedes, BetterScore
<1> HIDE DEF W, S
<1>3. \A m, n \in {i, j, k} : W(m) * S(n) \in Nat
  BY <1>1, Scale
<1>4. ~Precedes(cs, i, i)
  BY <1>1, <1>2, <1>3
<1>5. i # j => Precedes(cs, i, j) \/ Precedes(cs, j, i)
  BY <1>1, <1>2, <1>3
<1>6. ASSUME Precedes(cs, i, j), Precedes(cs, j, k) PROVE Precedes(cs, i, k)
  <2>1. W(i) * S(j) >= W(j) * S(i) /\ W(j) * S(k) >= W(k) * S(j)
    BY <1>2, <1>3, <1>6
  <2>2. /\ W(i) * S(k) >= W(k) * S(i)
        /\ W(i) * S(j) > W(j) * S(i) \/ W(j) * S(k) > W(k) * S(j)
             => W(i) * S(k) > W(k) * S(i)
    BY <1>1, <2>1, FractionsOrdered
  <2>3. QED
    BY <1>1, <1>2, <1>3, <1>6, <2>1, <2>2
<1>7. QED
  BY <1>4, <1>5, <1>6

\* Among finitely many candidates one precedes all others: it is the one that
\* fewest precede.
LEMMA BestExists ==
    ASSUME NEW cs, CandidatesOK(cs), NEW E, E \subseteq DOMAIN cs, E # {}
    PROVE  \E i \in E : \A j \in E \ {i} : Precedes(cs, i, j)
<1> DEFINE Ahead(i) == {j \in E : Precedes(cs, j, i)}
           ranks == {Cardinality(Ahead(i)) : i \in E}
<1>1. \A i \in E : IsFiniteSet(Ahead(i)) /\ Cardinality(Ahead(i)) \in Nat
  <2>1. IsFiniteSet(E)
    BY FS_Subset DEF CandidatesOK
  <2>2. \A i \in E : Ahead(i) \subseteq E
    OBVIOUS
  <2> HIDE DEF Ahead
  <2>3. QED
    BY <2>1, <2>2, FS_Subset, FS_CardinalityType
<1>2. ranks \subseteq Nat /\ ranks # {}
  BY <1>1
<1>3. PICK i \in E : \A j \in E : Cardinality(Ahead(i)) <= Cardinality(Ahead(j))
  <2>1. \E x \in ranks : \A y \in ranks : x <= y
    <3> HIDE DEF ranks
    <3>1. QED
      BY <1>2, LeastNatural
  <2>2. QED
    BY <2>1
<1>4. ASSUME NEW j \in E \ {i}, ~Precedes(cs, i, j) PROVE FALSE
  <2>1. Precedes(cs, j, i)
    BY <1>4, PrecedesOrders
  <2>2. Ahead(j) \subseteq Ahead(i)
    BY <2>1, PrecedesOrders
  <2>3. j \in Ahead(i) /\ j \notin Ahead(j)
    BY <2>1, PrecedesOrders
  <2> HIDE DEF Ahead
  <2>4. Cardinality(Ahead(j)) < Cardinality(Ahead(i))
    <3>1. /\ Cardinality(Ahead(j)) <= Cardinality(Ahead(i))
          /\ Cardinality(Ahead(j)) = Cardinality(Ahead(i)) => Ahead(j) = Ahead(i)
      BY <1>1, <2>2, FS_Subset
    <3>2. QED
      BY <1>1, <2>3, <3>1
  <2>5. QED
    BY <1>1, <1>3, <2>4
<1>5. QED
  BY <1>4

\* A lower bound of the success rate lies below the rate.
LEMMA LowerBoundIsLower ==
    ASSUME NEW s \in Nat, NEW n \in Nat, n > 0, NEW b \in 1..19,
           LowerBoundReaches(s, n, b)
    PROVE  20 * s > b * n
<1> DEFINE excess == 20 * s - b * n
<1>1. b * n \in Nat /\ excess \in Int
  OBVIOUS
<1>2. excess >= 0 /\ 625 * excess * excess >= 2401 * n * b * (20 - b)
  BY DEF LowerBoundReaches
<1>3. 2401 * n * b * (20 - b) > 0
  <2>1. \A p, q \in Nat : p > 0 /\ q > 0 => p * q \in Nat /\ p * q > 0
    OBVIOUS
  <2>2. 2401 * n \in Nat /\ 2401 * n > 0 /\ 20 - b \in Nat /\ 20 - b > 0
    OBVIOUS
  <2>3. (2401 * n) * b \in Nat /\ (2401 * n) * b > 0
    BY <2>1, <2>2
  <2>4. QED
    BY <2>1, <2>2, <2>3
<1> HIDE DEF excess
<1>4. excess # 0
  BY <1>1, <1>2, <1>3
<1>5. excess > 0
  BY <1>1, <1>2, <1>4
<1>6. QED
  BY <1>1, <1>5 DEF excess

LEMMA ProductsGrow ==
    ASSUME NEW a \in Nat, NEW b \in Nat, NEW c \in Nat, NEW d \in Nat, a >= b, c >= d
    PROVE  a * c >= b * d
<1>1. a * c >= b * c /\ b * c >= b * d /\ a * c \in Nat /\ b * c \in Nat /\ b * d \in Nat
  BY Scale
<1>2. QED
  BY <1>1

\* q twentieths lie inside the 95% interval of s successes in n trials.
Inside(s, n, q) ==
    LET distance == 20 * s - q * n
    IN  625 * (distance * distance) < 2401 * (n * (q * (20 - q)))

\* What lies at least as far from b twentieths as the interval reaches lies outside
\* for every smaller rate too: the distance, compared to either share, only grows.
LEMMA LowerRatesArePlausibleNoMore ==
    ASSUME NEW s \in Nat, NEW n \in Nat, n > 0, s <= n, NEW b \in 1..19, NEW q \in 0..b,
           LowerBoundReaches(s, n, b)
    PROVE  ~Inside(s, n, q)
<1> DEFINE B == 20 * s - b * n   A == 20 * s - q * n   c == 20 - b   r == 20 - q   g == b - q
<1>1. /\ b \in Nat /\ q \in Nat /\ c \in Nat /\ r \in Nat /\ g \in Nat
      /\ b > 0 /\ c > 0 /\ b = q + g /\ r = c + g
  OBVIOUS
<1>2. B \in Nat /\ 625 * (B * B) >= 2401 * (n * (b * c))
  <2>1. B \in Int /\ B >= 0 /\ 625 * B * B >= 2401 * n * b * c
    BY DEF LowerBoundReaches
  <2>2. 625 * B * B = 625 * (B * B) /\ 2401 * n * b * c = 2401 * (n * (b * c))
    <3> HIDE DEF B, c
    <3>1. QED
      BY <1>1, <2>1
  <2>3. QED
    BY <2>1, <2>2
<1>3. A = B + g * n
  <2>1. b * n = q * n + g * n /\ q * n \in Nat /\ g * n \in Nat
    <3> HIDE DEF g
    <3>1. QED
      BY <1>1
  <2>2. QED
    BY <2>1
<1>4. B <= c * n
  <2>1. c * n = 20 * n - b * n /\ b * n \in Nat
    OBVIOUS
  <2>2. QED
    BY <2>1
<1> HIDE DEF A, B, c, r, g
<1>5. A \in Nat /\ A >= B
  BY <1>1, <1>2, <1>3
<1>6. A * b >= B * q
  BY <1>1, <1>2, <1>5, ProductsGrow
<1>7. A * c >= B * r
  <2>1. A * c = B * c + g * (c * n) /\ B * r = B * c + g * B
    BY <1>1, <1>2, <1>3
  <2>2. g * (c * n) >= g * B /\ g * B \in Nat /\ g * (c * n) \in Nat /\ B * c \in Nat
    BY <1>1, <1>2, <1>4, ProductsGrow
  <2>3. QED
    BY <2>1, <2>2
<1> DEFINE u == b * c   v == q * r   x == A * A   y == B * B
<1>8. u \in Nat /\ u > 0 /\ v \in Nat /\ x \in Nat /\ y \in Nat
  BY <1>1, <1>2, <1>5
<1>9. x * u >= y * v
  <2>1. /\ A * b \in Nat /\ A * c \in Nat /\ B * q \in Nat /\ B * r \in Nat
    BY <1>1, <1>2, <1>5
  <2>2. (A * b) * (A * c) >= (B * q) * (B * r)
    BY <1>6, <1>7, <2>1, ProductsGrow
  <2>3. (A * b) * (A * c) = x * u /\ (B * q) * (B * r) = y * v
    BY <1>1, <1>2, <1>5
  <2>4. QED
    BY <2>2, <2>3
<1>10. 625 * y >= 2401 * (n * u)
  BY <1>2
<1>11. A * A = x /\ q * r = v
  OBVIOUS
<1> HIDE DEF u, v, x, y
<1>12. 625 * x >= 2401 * (n * v)
  <2>1. 625 * (x * u) >= 625 * (y * v)
    BY <1>8, <1>9
  <2>2. (625 * y) * v >= (2401 * (n * u)) * v
    BY <1>8, <1>10, ProductsGrow
  <2>3. (625 * x) * u >= (2401 * (n * v)) * u
    BY <1>8, <2>1, <2>2
  <2>4. QED
    BY <1>8, <2>3
<1>13. 625 * (A * A) >= 2401 * (n * (q * r))
  BY <1>11, <1>12
<1>14. QED
  BY <1>1, <1>5, <1>8, <1>11, <1>13 DEF A, r, Inside

\* The score takes after both rates.
LEMMA SurpassingScoresBetter ==
    ASSUME NEW c \in Candidates(Nat), WellFormed(c),
           NEW d \in Candidates(Nat), WellFormed(d), Surpasses(c, d)
    PROVE  BetterScore(c, d)
<1> DEFINE s == c.successes   n == c.trials   u == c.tool_successes   t == c.tool_trials
           S == d.successes   N == d.trials   U == d.tool_successes   T == d.tool_trials
<1>1. /\ s \in Nat /\ n \in Nat /\ u \in Nat /\ t \in Nat /\ n > 0 /\ u <= t
      /\ S \in Nat /\ N \in Nat /\ U \in Nat /\ T \in Nat /\ N > 0 /\ U <= T
  BY DEF Candidates, WellFormed
<1>2. s * N > S * n /\ (IF t = 0 THEN U = 0 ELSE u * T >= U * t)
  BY DEF Surpasses
<1>3. /\ Weight(c) = IF t = 0 THEN 3 * s ELSE 3 * s * t + u * n
      /\ Weight(d) = IF T = 0 THEN 3 * S ELSE 3 * S * T + U * N
      /\ Span(c) = (IF t = 0 THEN n ELSE n * t)
      /\ Span(d) = (IF T = 0 THEN N ELSE N * T)
  BY DEF Weight, Span
<1>4. SUFFICES Weight(c) * Span(d) > Weight(d) * Span(c)
  BY DEF BetterScore
<1> HIDE DEF s, n, u, t, S, N, U, T
<1>5. CASE t = 0 /\ T = 0
  BY <1>1, <1>2, <1>3, <1>5
<1>6. CASE t = 0 /\ T > 0
  BY <1>1, <1>2, <1>3, <1>6
<1>7. CASE t > 0 /\ T = 0
  BY <1>1, <1>2, <1>3, <1>7
<1>8. CASE t > 0 /\ T > 0
  BY <1>1, <1>2, <1>3, <1>8
<1>9. QED
  BY <1>1, <1>5, <1>6, <1>7, <1>8

\* The document a caller builds recommends nobody, or the candidate that
\* precedes every other one that passed all gates.
LEMMA RecommendedIsBest ==
    ASSUME NEW cs, CandidatesOK(cs),
           NEW i, i = EvaluateRole(cs, Role).recommended, i # Abstained
    PROVE  /\ i \in DOMAIN cs /\ Eligible(cs[i], Role)
           /\ \A j \in DOMAIN cs \ {i} : Eligible(cs[j], Role) => Precedes(cs, i, j)
<1> DEFINE eligible == {j \in DOMAIN cs : Eligible(cs[j], Role)}
           Best(j) == \A k \in eligible \ {j} : Precedes(cs, j, k)
<1>1. i = IF eligible = {} THEN Abstained ELSE CHOOSE j \in eligible : Best(j)
  BY DEF EvaluateRole
<1>2. eligible # {} /\ i = CHOOSE j \in eligible : Best(j)
  BY <1>1
<1>3. \E j \in eligible : Best(j)
  BY <1>2, BestExists
<1>4. i \in eligible /\ Best(i)
  <2> HIDE DEF eligible, Best
  <2>1. QED
    BY <1>2, <1>3
<1>5. QED
  BY <1>4

\* A document built of the evidence at hand supports what it recommends.
LEMMA ContentSupported ==
    ASSUME TypeOK, NEW c \in Contents, NEW r \in c.advisory.roles,
           NEW i, i = c.roles[r].evaluation.recommended, i # Abstained
    PROVE  /\ Admitted(draft.candidates[i]) /\ Proven(draft.candidates[i])
           /\ \A j \in DOMAIN draft.candidates :
                  Surpasses(draft.candidates[j], draft.candidates[i])
                    => ~Eligible(draft.candidates[j], Role)
<1> DEFINE cs == draft.candidates
<1>1. CandidatesOK(cs)
  BY DraftAssumption DEF TypeOK, CandidatesOK
<1>2. i = EvaluateRole(cs, Role).recommended
  <2>1. PICK v \in Versions, at \in Stamps : c = Content(v, at)
    BY DEF Contents
  <2>2. r = "role"
    BY <2>1 DEF Content
  <2>3. c.roles["role"].evaluation = EvaluateRole(cs, Role)
    BY <2>1 DEF Content
  <2>4. QED
    BY <2>2, <2>3
<1> HIDE DEF cs
<1>3. /\ i \in DOMAIN cs /\ Eligible(cs[i], Role)
      /\ \A j \in DOMAIN cs \ {i} : Eligible(cs[j], Role) => Precedes(cs, i, j)
  BY <1>1, <1>2, RecommendedIsBest
<1>4. \A j \in DOMAIN cs : cs[j] \in Candidates(Nat) /\ WellFormed(cs[j])
  BY <1>1 DEF CandidatesOK
<1>5. Admitted(cs[i]) /\ Proven(cs[i])
  <2> DEFINE d == cs[i]   b == Role.minimum_success_lower_bound
  <2>1. /\ Admitted(d) /\ d.trials >= Role.minimum_trials
        /\ LowerBoundReaches(d.successes, d.trials, b)
    <3>1. \A g \in Gates : g \in Passed(d, Role)
      BY <1>3 DEF Eligible
    <3>2. QED
      BY <3>1 DEF Passed, Gates, Admitted
  <2>2. /\ d.successes \in Nat /\ d.trials \in Nat /\ d.trials > 0 /\ d.successes <= d.trials
        /\ b \in 1..19
    BY <1>3, <1>4, DraftAssumption DEF Candidates, WellFormed
  <2> HIDE DEF d, b
  <2>3. 20 * d.successes > b * d.trials
    BY <2>1, <2>2, LowerBoundIsLower
  <2>4. ASSUME NEW q \in 0..b PROVE ~Plausible(d, q)
    <3> DEFINE s == d.successes   n == d.trials
    <3>1. s \in Nat /\ n \in Nat /\ n > 0 /\ s <= n /\ LowerBoundReaches(s, n, b)
      BY <2>1, <2>2
    <3>2. Plausible(d, q) <=> Inside(s, n, q)
      BY DEF Plausible, Inside
    <3> HIDE DEF s, n
    <3>3. QED
      BY <2>2, <3>1, <3>2, LowerRatesArePlausibleNoMore
  <2>5. QED
    BY <2>1, <2>3, <2>4 DEF Proven, d, b
<1>6. ASSUME NEW j \in DOMAIN cs, Surpasses(cs[j], cs[i]), Eligible(cs[j], Role)
      PROVE  FALSE
  <2>1. BetterScore(cs[j], cs[i])
    BY <1>3, <1>4, <1>6, SurpassingScoresBetter
  <2>2. ~BetterScore(cs[i], cs[j])
    <3>1. /\ Weight(cs[i]) \in Nat /\ Span(cs[i]) \in Nat
          /\ Weight(cs[j]) \in Nat /\ Span(cs[j]) \in Nat
      BY <1>3, <1>4, ScoreTyped
    <3>2. /\ Weight(cs[i]) * Span(cs[j]) \in Nat
          /\ Weight(cs[j]) * Span(cs[i]) \in Nat
      BY <3>1, Scale
    <3>3. QED
      BY <2>1, <3>2 DEF BetterScore
  <2>3. CASE j = i
    BY <2>1, <2>2, <2>3
  <2>4. CASE j # i
    BY <1>3, <1>6, <2>1, <2>2, <2>4 DEF Precedes
  <2>5. QED
    BY <2>3, <2>4
<1>7. QED
  BY <1>5, <1>6 DEF cs

\* Whatever publishers race or crash, a published document recommends nobody, or a
\* candidate that passed the gates, with so many trials and successes that no rate
\* up to the role's bound lies inside its 95% interval, and that no other such
\* candidate surpasses: for any finite set of candidates.
THEOREM RecommendationsAreSupported == Spec => []RecommendationSupported
<1>1. TypeOK => RecommendationSupported
  <2> SUFFICES ASSUME TypeOK PROVE RecommendationSupported
    OBVIOUS
  <2>1. Published \subseteq Contents
    BY DEF TypeOK, Published
  <2>2. QED
    BY <2>1, ContentSupported DEF RecommendationSupported
<1>2. QED
  BY <1>1, TypeCorrect, PTL
=============================================================================
