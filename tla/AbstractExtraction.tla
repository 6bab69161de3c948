------------------------- MODULE AbstractExtraction -------------------------
(***************************************************************************)
(* The abstract-full-paper mode of miner/v0: the claims of the abstract    *)
(* are linked to evidence found in the rest of the paper, in four model    *)
(* calls (claims, candidates, analysis, links), three of which are made    *)
(* once more when a check finds issues in their answer.                    *)
(*                                                                         *)
(* A text is the set of its content terms, as _content_terms makes it.     *)
(***************************************************************************)
EXTENDS SectionExtraction

CONSTANTS
    Texts,      \* the texts of candidates of evidence, sets of terms
    RawClaims,  \* what the claim extractor may answer: [text, kind, issues]
    LimitPerClaim, \* abstract_evidence_candidate_limit_per_claim
    SectionTypes   \* types a section may have

ASSUME AbstractAssumption ==
    /\ \A r \in RawClaims : /\ r.issues \in Nat
                            /\ r.kind \in {"claim", "background", "blank"}
    /\ \A t \in Texts : IsFiniteSet(t)
    /\ LimitPerClaim \in Int
    /\ "ABSTRACT" \in SectionTypes

VARIABLES
    sections,   \* the type of each section
    claims,     \* texts of the claims made of the abstract
    candidates, \* candidates of evidence: their section and text
    analyzed    \* kind of the analyzed candidates, by candidate

abstractVars == <<sections, claims, candidates, analyzed>>

\* What the analysis says of a candidate: "unflagged" is evidence that merely
\* repeats a claim and is not called a high risk.
EvidenceRows == {"sound", "unflagged"}
Unknown == 0 \* an identifier that is no candidate's

\* _find_abstract_section: the first section typed or named an abstract, in
\* whatever case; "Abstract" stands for those not typed "ABSTRACT".
AbstractSection == SelectInSeq(sections, LAMBDA t : t \in {"ABSTRACT", "Abstract"})
\* extract_full_paper_evidence_candidates leaves out the type in upper case.
EvidenceSections == {s \in DOMAIN sections : sections[s] # "ABSTRACT"}

\* _candidate_score, in parts of the claim's terms.
Shared(c, e) == Cardinality(c \intersect candidates[e].text)

\* The first LimitPerClaim candidates by score; sort is stable.
Better(c, e, d) ==
    \/ Shared(c, e) > Shared(c, d)
    \/ Shared(c, e) = Shared(c, d) /\ e < d
TopFor(c) ==
    {d \in DOMAIN candidates :
        Cardinality({e \in DOMAIN candidates : Better(c, e, d)})
            < LimitPerClaim}
\* select_evidence_candidates_for_claims
Selected ==
    IF LimitPerClaim <= 0 THEN DOMAIN candidates
    ELSE UNION {TopFor(claims[i]) : i \in DOMAIN claims}

\* Mutant: what the analyzer does not mention is gone.
AnalysisOfRows(rows) == [c \in Selected \intersect DOMAIN rows |-> rows[c]]
\* _materialize_analyzed_evidence_candidates: rows that name no selected
\* candidate are skipped, candidates without a row are their own analysis.
Analysis(rows) ==
    [c \in Selected |-> IF c \in DOMAIN rows THEN rows[c] ELSE "sound"]

\* _find_evidence_analysis_issues
AnalysisIssues(a) == Cardinality({c \in DOMAIN a : a[c] = "unflagged"})

\* An unlinked claim for which some analyzed candidate scores a fifth.
UnlinkedIssues(linked) ==
    Cardinality({i \in DOMAIN claims \ linked :
        \E c \in DOMAIN analyzed :
            /\ Shared(claims[i], c) > 0
            /\ 5 * Shared(claims[i], c) >= Cardinality(claims[i])})

InRange(a) == {l \in a.links : l[1] < Len(claims) /\ l[2] < Len(a.evidence)}
\* How many issues _find_evidence_linking_issues may find: what its text
\* patterns (weak, restated, without new information, without the numbers, the
\* words or the scope of the claim) find in the links, and the claims without.
LinkingIssueCounts(a) ==
    {n + UnlinkedIssues({l[1] + 1 : l \in InRange(a)}) :
        n \in IF InRange(a) = {} THEN {0} ELSE 0..MaxIssues}

\* An answer of the linker: items of evidence name candidates, links name
\* claims by their index in the list the linker was shown.
LinkedItems ==
    {[kind |-> "blank", sources |-> {}]} \union
    [kind : {"evidence"}, sources : {{c} : c \in DOMAIN analyzed \union {Unknown}}]
LinkerAnswer == [evidence : BoundedSeq(LinkedItems, MaxItems), links : LinkSets]
Kinds(items) == [i \in DOMAIN items |-> items[i].kind]

\* _materialize_linked_evidence_items and _materialize_claim_evidence_links.
LinkedOutput(a) ==
    LET evidence == Materialized(Kinds(a.evidence))
        all == [i \in DOMAIN claims |-> i]
    IN  [claims |-> {<<0, i>> : i \in DOMAIN claims},
         evidence |-> {<<0, evidence[i]>> : i \in DOMAIN evidence},
         links |-> {<<<<0, l[1]>>, <<0, l[2]>>>> :
                       l \in Resolved(a.links, all, evidence)}]

\* Issues of a list of raw claims, and the claims made of it: those with a
\* text that are not said to be background or the work of others.
ClaimIssues(raw) ==
    Cardinality(UNION {{i} \X (1..raw[i].issues) :
                          i \in {j \in DOMAIN raw : raw[j].kind # "blank"}})
ClaimTexts(raw) ==
    LET made == InOrder({i \in DOMAIN raw : raw[i].kind = "claim"})
    IN  [n \in DOMAIN made |-> raw[made[n]].text]

-----------------------------------------------------------------------------
FindAbstract ==
    /\ phase = "summarized"
    /\ pipeline = "abstract"
    /\ phase' = IF AbstractSection = 0 THEN "raised" ELSE "claims"
    /\ UNCHANGED <<pipeline, todo, answer, issues, output>>
    /\ UNCHANGED abstractVars

\* extract_abstract_claims
ExtractClaims ==
    /\ phase = "claims"
    /\ \E raw \in BoundedSeq(RawClaims, MaxItems) :
          /\ claims' = ClaimTexts(raw)
          /\ issues' = ClaimIssues(raw)
    /\ phase' = IF issues' = 0 THEN "candidates" ELSE "claims retry"
    /\ UNCHANGED <<pipeline, todo, answer, output, sections, candidates,
                   analyzed>>

RetryClaims ==
    /\ phase = "claims retry"
    /\ \/ \E raw \in BoundedSeq(RawClaims, MaxItems) :
             /\ raw # << >>
             /\ ClaimIssues(raw) <= issues
             /\ claims' = ClaimTexts(raw)
             /\ issues' = ClaimIssues(raw)
       \/ UNCHANGED <<claims, issues>>
    /\ phase' = "candidates"
    /\ UNCHANGED <<pipeline, todo, answer, output, sections, candidates,
                   analyzed>>

\* extract_full_paper_evidence_candidates; without claims or candidates no
\* evidence is looked for.
FindCandidates ==
    /\ phase = "candidates"
    /\ candidates' \in
          {cs \in BoundedSeq([section : EvidenceSections, text : Texts],
                             MaxItems) :
              \A i, j \in DOMAIN cs : i < j => cs[i].section <= cs[j].section}
    /\ IF claims = << >> \/ candidates' = << >>
       THEN /\ phase' = "extracted"
            /\ output' = [NoOutput EXCEPT
                             !.claims = {<<0, i>> : i \in DOMAIN claims}]
       ELSE /\ phase' = "analysis"
            /\ UNCHANGED output
    /\ issues' = 0
    /\ UNCHANGED <<pipeline, todo, answer, sections, claims, analyzed>>

\* analyze_evidence_candidates_for_abstract_claims
Rows == UNION {[D -> EvidenceRows] : D \in SUBSET (Selected \union {Unknown})}
Analyze ==
    /\ phase = "analysis"
    /\ \E rows \in Rows : analyzed' = Analysis(rows)
    /\ issues' = AnalysisIssues(analyzed')
    /\ phase' = IF issues' = 0 THEN "linking" ELSE "analysis retry"
    /\ UNCHANGED <<pipeline, todo, answer, output, sections, claims,
                   candidates>>

RetryAnalysis ==
    /\ phase = "analysis retry"
    /\ \/ /\ \E rows \in Rows : analyzed' = Analysis(rows)
          /\ issues' = AnalysisIssues(analyzed')
          /\ issues' <= issues
       \/ UNCHANGED <<analyzed, issues>>
    /\ phase' = "linking"
    /\ UNCHANGED <<pipeline, todo, answer, output, sections, claims,
                   candidates>>

\* link_abstract_claims_to_evidence: the call and, when it finds issues in the
\* answer, the call with them.
Link ==
    /\ phase = "linking"
    /\ \E a \in LinkerAnswer :
          /\ answer' = a
          /\ issues' \in LinkingIssueCounts(a)
    /\ phase' = IF issues' = 0 THEN "linked" ELSE "linking retry"
    /\ UNCHANGED <<pipeline, todo, output>>
    /\ UNCHANGED abstractVars

RetryLink ==
    /\ phase = "linking retry"
    /\ \/ \E a \in LinkerAnswer :
             /\ answer' = a
             /\ issues' \in {n \in LinkingIssueCounts(a) : n <= issues}
       \/ UNCHANGED <<answer, issues>>
    /\ phase' = "linked"
    /\ UNCHANGED <<pipeline, todo, output>>
    /\ UNCHANGED abstractVars

MaterializeLinked ==
    /\ phase = "linked"
    /\ output' = LinkedOutput(answer)
    /\ phase' = "extracted"
    /\ issues' = 0
    /\ UNCHANGED <<pipeline, todo, answer>>
    /\ UNCHANGED abstractVars

\* A model call raises, or the making of claims of an unexpected shape does.
AbstractCallFails ==
    /\ phase \in {"claims", "claims retry", "candidates", "analysis",
                  "analysis retry", "linking", "linking retry"}
    /\ phase' = "raised"
    /\ issues' = 0
    /\ UNCHANGED <<pipeline, todo, answer, output>>
    /\ UNCHANGED abstractVars

AbstractNext ==
    \/ FindAbstract \/ ExtractClaims \/ RetryClaims \/ FindCandidates
    \/ Analyze \/ RetryAnalysis \/ Link \/ RetryLink \/ MaterializeLinked
    \/ AbstractCallFails

=============================================================================
