---------------------------- MODULE ArtifactChecks ----------------------------
(***************************************************************************)
(* What validator/agent_v1 makes of one artifact of a miner: the findings  *)
(* of its structural and grounding checks, the quality they leave, and the *)
(* candidates that its claims are projected to for the comparison with the *)
(* Silver record.                                                          *)
(*                                                                         *)
(* An artifact says how its JSON reads, which layers are missing, whether  *)
(* it fits the schema, and its claims, evidence records, experiments,      *)
(* concepts and trace nodes, each with the required fields that are blank  *)
(* and the sets of ids it refers to.  An id is what the artifact says, as  *)
(* it is written, and _text strips it.  Scores are in units of 1/10000.    *)
(***************************************************************************)
EXTENDS Integers, Sequences, FiniteSets, FiniteSetsExt, SequencesExt

CONSTANTS
    Artifacts,  \* bound: the artifacts that are submitted
    NoArtifact, \* stands for none
    TextOf,     \* _text of each raw id
    NoId,       \* the empty id
    DefaultId,  \* "claim_{i}"
    Spans       \* span ids of the source payload

VARIABLES
    checkPhase, \* "submitted", "checked", "projected"
    artifact,
    findings,   \* severity, code and target of each
    candidates  \* the claims that became candidates: index and record id

checkVars == <<checkPhase, artifact, findings, candidates>>

Finding(severity, code, target) ==
    [severity |-> severity, code |-> code, target |-> target]
IdsOf(items) == {items[i].id : i \in DOMAIN items}

-----------------------------------------------------------------------------
(* structural.py                                                           *)

\* _check_unique_ids: an empty id may repeat.
DuplicateIds(kind, items) ==
    {Finding("critical", "duplicate_id", <<kind, id>>) :
        id \in {x \in IdsOf(items) \ {NoId} :
                   Cardinality({i \in DOMAIN items : items[i].id = x}) > 1}}

\* _unresolved, of each reference of a kind that names nothing there is.
Unresolved(kind, items, field, known, severity) ==
    UNION {{Finding(severity, "unresolved_reference", <<kind, i, ref>>) :
               ref \in items[i][field] \ known} : i \in DOMAIN items}

\* _missing_field, of each required field of an item that is blank.
MissingFields(kind, items) ==
    UNION {{Finding(IF field \in {"statement", "summary"} THEN "critical" ELSE "major",
                    "missing_required_field", <<kind, i, field>>) :
               field \in items[i].blank} : i \in DOMAIN items}

Empty(items, code) ==
    IF items = << >> THEN {Finding("critical", code, << >>)} ELSE {}

CrossReferences(a) ==
    LET claimIds == IdsOf(a.claims)
        recordIds == IdsOf(a.records)
        experimentIds == IdsOf(a.experiments)
        allIds == UNION {claimIds, recordIds, experimentIds, IdsOf(a.concepts)}
    IN  UNION {
            Unresolved("claim", a.claims, "evidence", recordIds, "critical"),
            Unresolved("proof", a.claims, "proof", experimentIds, "critical"),
            Unresolved("dependency", a.claims, "dependencies", claimIds, "major"),
            Unresolved("experiment", a.experiments, "verifies", claimIds, "critical"),
            Unresolved("experiment evidence", a.experiments, "evidence", recordIds, "major"),
            Unresolved("evidence", a.records, "claims", claimIds, "critical"),
            Unresolved("trace_node", a.trace, "evidence", allIds, "major")}

Contents(a) ==
    UNION {DuplicateIds("claim", a.claims), DuplicateIds("concept", a.concepts),
           DuplicateIds("experiment", a.experiments),
           DuplicateIds("evidence", a.records), DuplicateIds("trace_node", a.trace),
           Empty(a.claims, "no_claims"), Empty(a.records, "no_evidence_records"),
           MissingFields("claim", a.claims), MissingFields("evidence", a.records),
           MissingFields("experiment", a.experiments), CrossReferences(a)}

\* An artifact without a layer does not fit the schema, except that metadata
\* has a default, and one that does not fit it is not looked into: the repair
\* sets nothing but that default.
Fits(a) == a.schema /\ a.missing \subseteq {"metadata"}
Readable(a) == a.json = "object" /\ Fits(a)
StructuralFindings(a) ==
    IF a.json # "object" THEN {Finding("blocker", "invalid_json", << >>)}
    ELSE {Finding("blocker", "missing_layer", <<l>>) : l \in a.missing}
         \union
         IF Fits(a) THEN Contents(a)
         ELSE {Finding(IF a.missing = {} THEN "critical" ELSE "blocker",
                       "schema_validation_failed", << >>)}

-----------------------------------------------------------------------------
(* grounding.py                                                            *)

UngroundedClaims(a) ==
    {Finding("critical", "no_source_refs", <<"claim", i>>) :
        i \in {j \in DOMAIN a.claims : a.claims[j].refs = {}
                                       /\ a.claims[j].evidence = {}}}
UngroundedRecords(a) ==
    {Finding("critical", "no_source_refs", <<"evidence", i>>) :
        i \in {j \in DOMAIN a.records : a.records[j].refs = {}}}

\* _check_refs: a reference is the set of spans it points to.  (Its role is
\* checked again here, and by the schema before.)
BadRefs(kind, items) ==
    UNION {UNION {
        (IF ref = {} THEN {Finding("major", "missing_source_span", <<kind, i>>)}
         ELSE {})
        \union {Finding("critical", "missing_source_span", <<kind, i, s>>) :
                   s \in ref \ Spans} : ref \in items[i].refs} :
        i \in DOMAIN items}

GroundingFindings(a) ==
    IF ~Readable(a) THEN {}
    ELSE IF Spans = {}
    THEN {Finding("critical", "missing_source_payload", << >>)}
    ELSE UngroundedClaims(a) \union UngroundedRecords(a)
         \union BadRefs("claim", a.claims) \union BadRefs("evidence", a.records)
         \union BadRefs("experiment", a.experiments)

-----------------------------------------------------------------------------
(* scoring.py                                                              *)

PENALTIES == [blocker |-> 10000, critical |-> 2500, major |-> 1000,
              minor |-> 300, warning |-> 100, suggestion |-> 0]
Penalty(F) == SumFunction([f \in F |-> PENALTIES[f.severity]])

\* _score_floor, which is a ceiling.
Ceiling(f) ==
    Min({IF f.severity = "blocker" THEN 500 ELSE 10000,
         CASE f.code \in {"invalid_json", "schema_validation_failed"} -> 2000
           [] f.code = "missing_layer" -> 2500
           [] f.code = "no_evidence_records" -> 4000
           [] f.code \in {"no_source_refs", "missing_source_span"} -> 5000
           [] OTHER -> 10000})
\* score_findings
Quality(F) ==
    Min({Max({0, 10000 - Penalty(F)})} \union {Ceiling(f) : f \in F})

-----------------------------------------------------------------------------
(* record_projection.py                                                    *)

RecordId(a, i) ==
    IF TextOf[a.claims[i].id] = NoId THEN DefaultId[i]
    ELSE TextOf[a.claims[i].id]
\* Mutant: the first claim of an id keeps it.
RepeatedBefore(a, i) ==
    \E j \in DOMAIN a.claims : j < i /\ RecordId(a, j) = RecordId(a, i)
\* An id of several claims identifies none of them.
Repeated(a, i) ==
    \E j \in DOMAIN a.claims \ {i} : RecordId(a, j) = RecordId(a, i)
\* project_agent_artifact, which reads the JSON whether it fits or not.
Projected(a) ==
    IF a.json # "object" \/ "logic" \in a.missing THEN {}
    ELSE {[index |-> i, record |-> RecordId(a, i)] :
             i \in {j \in DOMAIN a.claims : "statement" \notin a.claims[j].blank
                                            /\ ~Repeated(a, j)}}

-----------------------------------------------------------------------------
ChecksInit ==
    /\ checkPhase = "submitted"
    /\ findings = {}
    /\ candidates = {}

RunChecks ==
    /\ checkPhase = "submitted"
    /\ artifact # NoArtifact
    /\ findings' = StructuralFindings(artifact) \union GroundingFindings(artifact)
    /\ checkPhase' = "checked"
    /\ UNCHANGED <<artifact, candidates>>

Project ==
    /\ checkPhase = "checked"
    /\ candidates' = Projected(artifact)
    /\ checkPhase' = "projected"
    /\ UNCHANGED <<artifact, findings>>

ChecksNext == RunChecks \/ Project

ChecksSpec ==
    /\ artifact \in Artifacts \union {NoArtifact}
    /\ ChecksInit
    /\ [][ChecksNext]_checkVars

-----------------------------------------------------------------------------
\* The claims are a list, and their default ids differ.
ASSUME ChecksAssumption ==
    /\ TextOf[NoId] = NoId
    /\ \A a \in Artifacts :
           /\ Len(a.claims) \in Nat /\ DOMAIN a.claims = 1..Len(a.claims)
           /\ \A i, j \in DOMAIN a.claims : DefaultId[i] = DefaultId[j] => i = j

-----------------------------------------------------------------------------
(* Properties.                                                             *)

Reported(i) ==
    Finding("critical", "duplicate_id", <<"claim", artifact.claims[i].id>>) \in findings
WithoutStatement(i) ==
    Finding("critical", "missing_required_field", <<"claim", i, "statement">>) \in findings
\* Another claim has its record id, but writes it otherwise.
Renamed(i) ==
    \E j \in DOMAIN artifact.claims :
        /\ RecordId(artifact, j) = RecordId(artifact, i)
        /\ artifact.claims[j].id # artifact.claims[i].id

\* The checks and the projection judge the ids of the claims in two places and
\* in two ways, and agree: a claim that is reported for its id or for having no
\* statement is not compared with the Silver record, and one that is not
\* compared is reported, unless its id and another's are made equal by
\* stripping or by the default.  (An id of blanks may be reported for nothing:
\* the projection gives each such claim a default id of its own.)
EachClaimIsComparedOrReported ==
    checkPhase = "projected" /\ Readable(artifact) =>
        \A i \in DOMAIN artifact.claims :
            LET compared == \E c \in candidates : c.index = i
            IN  /\ WithoutStatement(i) => ~compared
                /\ Reported(i) => ~compared \/ TextOf[artifact.claims[i].id] = NoId
                /\ ~compared => Reported(i) \/ WithoutStatement(i) \/ Renamed(i)

\* "Structural validation reports them as critical": a claim the projection
\* leaves out because of its id is a finding.
ExcludedClaimsAreReported ==
    checkPhase = "projected" /\ Readable(artifact) =>
        \A i \in DOMAIN artifact.claims :
            "statement" \notin artifact.claims[i].blank
            /\ ~(\E c \in candidates : c.index = i)
            => \E f \in findings : f.code = "duplicate_id"

=============================================================================
