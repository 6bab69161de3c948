---------------------------- MODULE ClaimProfiles ----------------------------
(***************************************************************************)
(* The tables of section_context_v1's profiles.py, of which miner/v0 keeps *)
(* a copy: which keys the context and the details of a claim or of an item *)
(* of evidence may have, and which of their fields are to become terms of  *)
(* an ontology.                                                            *)
(***************************************************************************)
EXTENDS Functions

Profile(context, details, noContext, noDetails) ==
    [context |-> context, details |-> details, noContext |-> noContext,
     noDetails |-> noDetails]

generic_result == Profile(
    {"population", "species", "setting", "timepoint", "comparator", "cohort",
     "condition", "modality", "threshold", "subset", "analysis_context",
     "phenotype_context", "intervention", "citation_context", "ancestry",
     "replication_stage", "subgroup", "mechanism", "equilibrium_scope",
     "source_scope", "core_qualifier", "peripheral_qualifier"},
    {"effect_size", "odds_ratio", "effect_direction", "count", "sample_size",
     "statistical_significance", "study_count", "model_type", "lag", "unit",
     "confidence_qualifier", "directionality_note", "subject_role",
     "object_role", "estimator", "p_value", "ci_low", "ci_high",
     "variance_explained", "upper_bound", "standard_error", "constraint_note",
     "outcome_name"}, {}, {})
gwas_association_result == Profile(
    {"population", "cohort", "ancestry", "setting", "phenotype_context",
     "replication_stage", "subgroup", "condition", "modality"},
    {"variant_id", "locus", "gene_symbol", "outcome_name", "estimator",
     "effect_size", "odds_ratio", "effect_direction", "p_value", "ci_low",
     "ci_high", "sample_size", "model_type", "variance_explained",
     "subject_role", "object_role", "directionality_note"},
    {"sample_size"}, {})
regression_association_result == Profile(
    {"population", "cohort", "setting", "timepoint", "condition",
     "analysis_context", "subgroup", "modality"},
    {"outcome_name", "estimator", "effect_size", "effect_direction", "unit",
     "p_value", "ci_low", "ci_high", "sample_size", "model_type", "lag",
     "subject_role", "object_role", "directionality_note"},
    {"sample_size", "p_value", "effect_size"}, {})
polygenic_score_result == Profile(
    {"population", "cohort", "ancestry", "setting", "phenotype_context",
     "condition", "modality"},
    {"score_type", "outcome_name", "effect_size", "effect_direction",
     "variance_explained", "upper_bound", "standard_error", "sample_size",
     "model_type", "p_value", "subject_role", "object_role",
     "directionality_note"},
    {"sample_size", "variance_explained"}, {})
intervention_effect_result == Profile(
    {"population", "species", "dose", "timepoint", "comparator", "setting",
     "subgroup", "condition", "intervention", "modality"},
    {"outcome_name", "estimator", "effect_size", "effect_direction", "unit",
     "p_value", "ci_low", "ci_high", "sample_size", "model_type",
     "directionality_note"},
    {"sample_size", "effect_size"}, {})
meta_analysis_result == Profile(
    {"population", "setting", "comparator", "timepoint", "phenotype_context",
     "condition"},
    {"outcome_name", "estimator", "effect_size", "effect_direction", "unit",
     "p_value", "ci_low", "ci_high", "study_count", "sample_size",
     "directionality_note"},
    {"study_count", "sample_size", "effect_size"}, {})
mechanistic_claim == Profile(
    {"population", "species", "setting", "condition", "mechanism",
     "phenotype_context", "modality"},
    {"outcome_name", "directionality_note", "constraint_note", "subject_role",
     "object_role"},
    {"sample_size", "p_value", "effect_size"}, {"sample_size", "p_value"})
theoretical_proposition == Profile(
    {"setting", "condition", "timepoint", "subset", "mechanism", "modality",
     "equilibrium_scope", "source_scope", "core_qualifier",
     "peripheral_qualifier"},
    {"constraint_note", "model_type", "lag", "subject_role", "object_role"},
    {"sample_size", "p_value", "effect_size"},
    {"sample_size", "p_value", "effect_size"})

CLAIM_PROFILES ==
    [generic_result |-> generic_result,
     gwas_association_result |-> gwas_association_result,
     regression_association_result |-> regression_association_result,
     polygenic_score_result |-> polygenic_score_result,
     intervention_effect_result |-> intervention_effect_result,
     meta_analysis_result |-> meta_analysis_result,
     mechanistic_claim |-> mechanistic_claim,
     theoretical_proposition |-> theoretical_proposition]

Study == {"population", "species", "setting"}
Estimate == {"outcome_name", "effect_size", "effect_direction", "unit",
             "ci_low", "ci_high", "p_value", "sample_size"}
EVIDENCE_METHOD_PROFILES ==
    [observation |-> Profile(
        Study \union {"timepoint", "condition", "cohort"},
        {"outcome_name", "value", "unit", "sample_size", "observation_type",
         "measurement_type", "estimator"}, {}, {}),
     regression_estimate |-> Profile(
        Study \union {"timepoint", "cohort", "condition", "analysis_context"},
        Estimate \union {"model_type", "estimator", "lag"}, {}, {}),
     correlation_estimate |-> Profile(
        Study \union {"timepoint", "cohort", "condition"},
        {"outcome_name", "correlation_value", "effect_direction", "p_value",
         "sample_size", "lag"}, {}, {}),
     meta_analysis |-> Profile(
        Study \union {"phenotype_context", "condition"},
        Estimate \union {"study_count", "measurement_type"}, {}, {}),
     literature_review |-> Profile(
        Study \union {"citation_context", "condition"},
        {"outcome_name", "review_scope", "study_count"}, {}, {}),
     theoretical_argument |-> Profile(
        {"section_type", "setting", "condition", "equilibrium_scope",
         "source_scope"},
        {"argument_type", "assumptions", "constraint_note", "outcome_name",
         "value", "effect_direction"}, {}, {}),
     derivation |-> Profile(
        {"section_type", "setting", "condition"},
        {"derivation_kind", "equation_refs", "assumptions", "constraint_note",
         "outcome_name", "value", "effect_direction"}, {}, {}),
     randomized_controlled_trial |-> Profile(
        Study \union {"comparator", "dose", "timepoint"}, Estimate, {}, {}),
     quasi_experimental_estimate |-> Profile(
        {"population", "setting", "timepoint", "comparator"},
        Estimate \union {"estimator"}, {}, {})]
\* A method that is not known may have the keys of all methods.
AnyMethod ==
    Profile(UNION {m.context : m \in Range(EVIDENCE_METHOD_PROFILES)},
            UNION {m.details : m \in Range(EVIDENCE_METHOD_PROFILES)}, {}, {})

\* FIELD_POLICIES: the fields whose role is "ontology-target".
ClaimTargets ==
    {<<"claim", f>> : f \in {"subject", "predicate", "object"}}
    \union {<<"context", k>> : k \in
        {"population", "species", "setting", "comparator", "analysis_context",
         "phenotype_context", "intervention", "ancestry"}}
    \union {<<"details", k>> : k \in
        {"model_type", "estimator", "outcome_name", "locus", "gene_symbol",
         "score_type"}}
EvidenceTargets ==
    {<<"context", k>> : k \in
        {"population", "species", "setting", "analysis_context", "comparator",
         "phenotype_context"}}
    \union {<<"details", k>> : k \in
        {"outcome_name", "measurement_type", "estimator", "model_type"}}
Overridden(profile) ==
    IF profile = "theoretical_proposition"
    THEN {<<"context", "setting">>, <<"claim", "object">>} ELSE {}

\* PROFILE_VALIDATION_RULES: which profiles have rules for the roles of subject
\* and object, and which know of subjects that call for another profile.
RuledProfiles == {"gwas_association_result", "polygenic_score_result"}
GenericSubjectProfiles == {"gwas_association_result"}

=============================================================================
