-------------------------- MODULE ClaimNormalization --------------------------
(***************************************************************************)
(* What section_context_v1 makes of one claim, or of one item of evidence, *)
(* in a model's answer: the context and the details the model wrote are    *)
(* sorted into those its profile allows, a claim is checked against the    *)
(* profile, asked for once more when it fails, and dropped when it still   *)
(* does.                                                                   *)
(*                                                                         *)
(* Context and details are JSON objects, sequences of key and value here.  *)
(* A value is a text or an object that holds one, and the text is what the *)
(* rules tell apart: "phrase", "cited" (mentions literature), "long" (over *)
(* ten words), "number" (a number, perhaps with < or %), "statistic"       *)
(* (names a statistic in words), "empty".  (In details a JSON number is    *)
(* kept like an object.)                                                   *)
(***************************************************************************)
EXTENDS ClaimProfiles, Integers, Sequences, FiniteSetsExt

CONSTANTS
    RawRecords,  \* bound: the records of an answer
    Corrections, \* bound: the claims of the answer to validation feedback
    NoRecord

\* Context and details are lists of entries, and a record is one of the two.
ASSUME RecordsAssumption ==
    \A r \in RawRecords \union Corrections :
        /\ r.kind \in {"claim", "evidence"}
        /\ \A part \in {"context", "details"} :
               r[part] \in Seq([key : STRING,
                                value : [form : {"text", "object"}, text : STRING]])

VARIABLES
    recordPhase, \* "answered", "materialized", "kept", "dropped"
    raw,         \* the record as the model wrote it
    record,      \* what _materialize_claims, _materialize_evidence_items made
    asked        \* whether it is of the answer to validation feedback

recordVars == <<recordPhase, raw, record, asked>>

-----------------------------------------------------------------------------
(* The profile.                                                            *)

KeysOf(payload) == {payload[i].key : i \in DOMAIN payload}

\* infer_claim_profile: what it looks for, in its words and keys, in order.
INFERENCE ==
    <<<<"score", "polygenic_score_result">>, <<"variant", "gwas_association_result">>,
      <<"association", "regression_association_result">>,
      <<"intervention", "intervention_effect_result">>,
      <<"synthesis", "meta_analysis_result">>, <<"mechanism", "mechanistic_claim">>,
      <<"theory", "theoretical_proposition">>,
      <<"estimate", "regression_association_result">>>>
CuesOf(r) ==
    r.cues \union (KeysOf(r.context) \intersect {"mechanism"})
    \union (IF KeysOf(r.details) \intersect
               {"p_value", "ci_low", "ci_high", "estimator"} = {}
            THEN {} ELSE {"estimate"})
Inferred(r) ==
    LET found == {i \in DOMAIN INFERENCE : INFERENCE[i][1] \in CuesOf(r)}
    IN  IF found = {} THEN "generic_result" ELSE INFERENCE[Min(found)][2]
\* normalize_claim_profile; only a profile that is not given is inferred.
ProfileOf(r) ==
    IF r.profile = "" THEN Inferred(r)
    ELSE IF r.profile \in DOMAIN CLAIM_PROFILES THEN r.profile
    ELSE "generic_result"
\* The keys a record may have, and its fields that are to become terms.
AllowedBy(r) ==
    IF r.kind = "claim" THEN CLAIM_PROFILES[ProfileOf(r)]
    ELSE IF r.profile \in DOMAIN EVIDENCE_METHOD_PROFILES
    THEN EVIDENCE_METHOD_PROFILES[r.profile]
    ELSE AnyMethod
TargetsOf(r) ==
    IF r.kind = "evidence" THEN EvidenceTargets
    ELSE ClaimTargets \ Overridden(ProfileOf(r))

-----------------------------------------------------------------------------
(* Keys and values.                                                        *)

\* EXTRACTOR_METADATA_KEYS
METADATA_KEYS ==
    {"graph_subject", "graph_predicate", "graph_object", "surface_subject",
     "surface_predicate", "surface_object", "claim_candidate_score",
     "spo_candidate_score", "joint_score", "source_group_evidence_count",
     "source_group_link_count", "claim_candidate_rationale",
     "claim_candidate_context_notes", "spo_candidate_rationale",
     "qualifier_notes", "repair_reason", "repair_action",
     "original_claim_text", "original_subject", "original_predicate",
     "original_object"}
CONTEXT_KEY_ALIASES ==
    [key \in {"comparison_group", "comparison details", "cohort_info"} |->
        IF key = "cohort_info" THEN "cohort" ELSE "comparator"]

\* _canonicalize_claim_key
Canonical(e) ==
    IF e.key = "evidence_basis"
    THEN IF e.value.text = "cited" THEN "citation_context" ELSE "analysis_context"
    ELSE IF e.key \in DOMAIN CONTEXT_KEY_ALIASES THEN CONTEXT_KEY_ALIASES[e.key]
    ELSE e.key

\* _short_concept_phrase: what is no short phrase is blanked.
Short(text) == IF text \in {"long", "number"} THEN "empty" ELSE text
\* normalize_semantic_field, and _normalize_detail_value, which leaves what is
\* inside an object alone.
Normal(r, part, key, value) ==
    LET text == IF <<part, key>> \in TargetsOf(r) THEN Short(value.text)
                ELSE value.text
    IN  CASE part = "context" -> [form |-> "object", text |-> text]
          [] value.form = "object" -> value
          [] OTHER -> [form |-> "text", text |-> text]

\* Where an entry of a part goes: what the profile knows moves to its part,
\* all else becomes extractor metadata, which is not kept.  (No key is allowed
\* in both parts.)
Place(r, part, e) ==
    LET allowed == AllowedBy(r)
        key == Canonical(e)
    IN  CASE key = "" -> "nowhere"
          [] r.kind = "claim" /\ part = "details" /\ e.key \in METADATA_KEYS -> "nowhere"
          [] key \in allowed.details \ allowed.noDetails -> "details"
          [] part = "context" /\ key \in allowed.noContext -> "nowhere"
          [] part = "details" /\ key \in allowed.noDetails -> "nowhere"
          [] key \in allowed.context -> "context"
          [] OTHER -> "nowhere"

\* The entries of a record, each by its part and its place there.
Parts == {"context", "details"}
Entries(r) == UNION {{p} \X DOMAIN r[p] : p \in Parts}
EntryAt(r, at) == r[at[1]][at[2]]
KeyAt(r, at) == Canonical(EntryAt(r, at))
\* Those that go into a part.
Sent(r, part) == {at \in Entries(r) : Place(r, at[1], EntryAt(r, at)) = part}

\* Mutant: a detail overwrites the context.
DetailsLast(r, part, at) ==
    IF at[1] = "context" THEN at[2] ELSE Len(r.context) + at[2]
\* normalize_claim_payload_parts, normalize_evidence_payload_parts: which of two
\* entries of one key lasts.  The context comes first; a detail only goes into
\* the context when its key is not there, and replaces what was moved out of
\* the context.
Lasting(r, part, at) ==
    IF at[1] = "context" THEN at[2]
    ELSE IF part = "context" THEN -at[2] ELSE Len(r.context) + at[2]

\* The part that is left when all entries are stored.
Stored(r, part) ==
    [key \in {KeyAt(r, at) : at \in Sent(r, part)} |->
        LET entries == {at \in Sent(r, part) : KeyAt(r, at) = key}
            last == CHOOSE at \in entries : \A other \in entries :
                        Lasting(r, part, other) <= Lasting(r, part, at)
        IN  Normal(r, part, key, EntryAt(r, last).value)]

\* _materialize_claims, _materialize_evidence_items
Made(r) ==
    [kind |-> r.kind,
     profile |-> IF r.kind = "claim" THEN ProfileOf(r) ELSE r.profile,
     claim |-> [f \in DOMAIN r.claim |->
                   IF <<"claim", f>> \in TargetsOf(r) THEN Short(r.claim[f])
                   ELSE r.claim[f]],
     roles |-> r.roles,
     context |-> Stored(r, "context"),
     details |-> Stored(r, "details")]

-----------------------------------------------------------------------------
(* validate_claim_against_profile                                          *)

Statistical(text) == text \in {"number", "statistic"}

KeyErrors(c) ==
    LET allowed == CLAIM_PROFILES[c.profile]
    IN  {<<"context", k>> : k \in {k \in DOMAIN c.context :
                k \in allowed.noContext \/ k \notin allowed.context}}
        \union {<<"details", k>> : k \in {k \in DOMAIN c.details :
                k \in allowed.noDetails \/ k \notin allowed.details}}

\* Whatever overrides the role of a field, it may not hold a statistic.
StatisticErrors(c) ==
    {t \in ClaimTargets :
        IF t[1] = "claim" THEN Statistical(c.claim[t[2]])
        ELSE t[2] \in DOMAIN c[t[1]] /\ Statistical(c[t[1]][t[2]].text)}

\* _validate_profile_semantics: subject and object have to play the roles of
\* the profile.
RoleErrors(c) ==
    IF c.profile \notin RuledProfiles THEN {}
    ELSE ({"subject", "object"} \ c.roles)
         \union (IF c.profile \in GenericSubjectProfiles
                 THEN c.roles \intersect {"generic"} ELSE {})

Valid(c) ==
    /\ \A f \in DOMAIN c.claim : c.claim[f] # "empty"
    /\ KeyErrors(c) = {}
    /\ StatisticErrors(c) = {}
    /\ RoleErrors(c) = {}

-----------------------------------------------------------------------------
RecordInit ==
    /\ recordPhase = "answered"
    /\ record = NoRecord
    /\ asked = FALSE

Materialize ==
    /\ recordPhase = "answered"
    /\ raw # NoRecord
    /\ record' = Made(raw)
    /\ recordPhase' = "materialized"
    /\ UNCHANGED <<raw, asked>>

\* extract_section_claims: a claim of the answer is not valid, this or another
\* one, and the model answers once more.
AskAgain ==
    /\ recordPhase = "materialized"
    /\ ~asked
    /\ raw.kind = "claim"
    /\ raw' \in Corrections
    /\ record' = NoRecord
    /\ asked' = TRUE
    /\ recordPhase' = "answered"

\* gate_section_local_claims
Keep ==
    /\ recordPhase = "materialized"
    /\ raw.kind = "claim" => Valid(record)
    /\ recordPhase' = "kept"
    /\ UNCHANGED <<raw, record, asked>>
Drop ==
    /\ recordPhase = "materialized"
    /\ raw.kind = "claim"
    /\ asked
    /\ ~Valid(record)
    /\ recordPhase' = "dropped"
    /\ UNCHANGED <<raw, record, asked>>

RecordNext == Materialize \/ AskAgain \/ Keep \/ Drop

RecordSpec ==
    raw \in RawRecords \union {NoRecord} /\ RecordInit /\ [][RecordNext]_recordVars

-----------------------------------------------------------------------------
(* Properties.                                                             *)

Rivals(r, p, part, i) ==
    {at \in Sent(r, part) \ {<<p, i>>} :
        at[1] \in {p, part} /\ KeyAt(r, at) = KeyAt(r, <<p, i>>)}

\* No claim fails for where the model put a key, and a value the profile knows
\* is kept under its key in its part, unless the key is there more than once:
\* then the value that was in the right part is, whichever came first.
KeysEndWhereTheirProfileWantsThem ==
    recordPhase \in {"materialized", "kept", "dropped"} =>
        /\ raw.kind = "claim" => KeyErrors(record) = {}
        /\ \A p, part \in Parts : \A i \in DOMAIN raw[p] :
               LET key == KeyAt(raw, <<p, i>>)
               IN  <<p, i>> \in Sent(raw, part) /\ Rivals(raw, p, part, i) = {} =>
                       /\ key \in DOMAIN record[part]
                       /\ record[part][key] = Normal(raw, part, key, raw[p][i].value)

=============================================================================
