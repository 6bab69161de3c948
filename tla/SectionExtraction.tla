-------------------------- MODULE SectionExtraction --------------------------
(***************************************************************************)
(* The section-local extraction of miner/v0 and miner/section_context_v1:  *)
(* a model plans which sections to read, drafts the claims, the evidence   *)
(* and the links of each, may be asked once or twice to correct them, and  *)
(* what the checks leave is collected for the output.                      *)
(*                                                                         *)
(* A model's answer is its lists.  An item is its kind: "claim" and        *)
(* "evidence" are usable, "poor" is a claim that fails the validation of   *)
(* its profile, "blank" is an item the pipeline skips (not an object, no   *)
(* text, fields that do not validate).  A link is a pair of the indices,   *)
(* from 0, that the answer gives for a claim and for an item of evidence.  *)
(* An answer that is not JSON is the empty one.                            *)
(***************************************************************************)
EXTENDS Integers, Sequences, FiniteSets, FiniteSetsExt, SequencesExt

CONSTANTS
    NumSections, \* bound: sections of a paper
    MaxItems,    \* bound: claims, and items of evidence, in one answer
    MaxLinks,    \* bound: links in one answer
    MaxIssues    \* bound: issues text patterns find in one answer

ASSUME ExtractionBounds ==
    {NumSections, MaxItems, MaxLinks, MaxIssues} \subseteq Nat

VARIABLES
    pipeline,  \* which extraction runs
    phase,     \* where it is
    todo,      \* planned sections not extracted yet
    answer,    \* the answer in hand for the first of them
    issues,    \* number of issues found in it
    output     \* claims, evidence and links collected for the paper

sectionVars == <<pipeline, phase, todo, answer, issues, output>>

Pipelines == {"v0", "section_context", "abstract"}
\* Only section_context_v1 knows profiles.
ClaimKinds ==
    {"claim", "blank"} \union (IF pipeline = "v0" THEN {} ELSE {"poor"})
EvidenceKinds == {"evidence", "blank"}
Indices == 0..(MaxItems - 1)
LinkSets == {L \in SUBSET (Indices \X Indices) : Cardinality(L) <= MaxLinks}
Answer == [claims : BoundedSeq(ClaimKinds, MaxItems),
           evidence : BoundedSeq(EvidenceKinds, MaxItems),
           links : LinkSets]
NoAnswer == [claims |-> << >>, evidence |-> << >>, links |-> {}]
NoOutput == [claims |-> {}, evidence |-> {}, links |-> {}]

-----------------------------------------------------------------------------
(* What becomes of an answer.                                              *)

\* The positions in P, as the loops that skip the others meet them.
InOrder(P) ==
    [n \in 1..Cardinality(P) |->
        CHOOSE i \in P : Cardinality({j \in P : j < i}) = n - 1]

\* The positions of the items _materialize_... makes objects of.
Materialized(items) == InOrder({i \in DOMAIN items : items[i] # "blank"})

\* _materialize_links: the indices are looked up in the lists of the objects
\* made, and a link out of their range is skipped.
Resolved(links, claims, evidence) ==
    {<<claims[l[1] + 1], evidence[l[2] + 1]>> :
        l \in {k \in links : k[1] < Len(claims) /\ k[2] < Len(evidence)}}

\* The objects the indices of an answer stand for, in its own lists.
Meant(a) == {<<l[1] + 1, l[2] + 1>> : l \in a.links}

\* Mutant: links of dropped claims are kept.
GatedAllLinks(a) ==
    LET links == Resolved(a.links, Materialized(a.claims),
                          Materialized(a.evidence))
    IN  [claims |-> {c \in {l[1] : l \in links} : a.claims[c] # "poor"},
         evidence |-> {l[2] : l \in links},
         links |-> links]

\* gate_section_local_claims: linked claims stay, in section_context_v1 only
\* when they fit their profile, linked evidence stays, and links whose two
\* ends stay.
Gated(a) ==
    LET links == Resolved(a.links, Materialized(a.claims),
                          Materialized(a.evidence))
        claims == {c \in {l[1] : l \in links} :
                      pipeline = "v0" \/ a.claims[c] # "poor"}
    IN  [claims |-> claims,
         evidence |-> {l[2] : l \in links},
         links |-> {l \in links : l[1] \in claims}]

\* _repair_output_is_usable
Usable(a) == a.claims # << >> /\ a.evidence # << >> /\ a.links # {}

\* How many issues the text patterns of _find_repair_issues may find.
IssueCounts(a) ==
    IF \E i \in DOMAIN a.claims : a.claims[i] # "blank" THEN 0..MaxIssues
    ELSE {0}

\* Which drafts a second call is made for.
NeedsRepair(a) ==
    IF pipeline = "v0" THEN Usable(a)
    ELSE \E i \in DOMAIN a.claims : a.claims[i] = "poor"

-----------------------------------------------------------------------------
\* Every section is summarized, in a call of its own, and the summaries are:
\* both modes of v0 pay for these calls before they look at the paper.
SummarizeSections ==
    /\ phase = "started"
    /\ phase' = "sections summarized"
    /\ UNCHANGED <<pipeline, todo, answer, issues, output>>

SummarizePaper ==
    /\ phase = "sections summarized"
    /\ phase' = "summarized"
    /\ UNCHANGED <<pipeline, todo, answer, issues, output>>

\* plan_section_extraction: a model or, when its answer does not say, the type
\* and the role of a section decide whether to extract it.
Plan ==
    /\ phase = "summarized"
    /\ pipeline # "abstract"
    /\ todo' \in SUBSET (1..NumSections)
    /\ phase' = IF todo' = {} THEN "extracted" ELSE "section"
    /\ UNCHANGED <<pipeline, answer, issues, output>>

\* _predict_section_candidates and _predict_section_claims.
Draft ==
    /\ phase = "section"
    /\ answer' \in Answer
    /\ phase' = IF NeedsRepair(answer')
                THEN IF pipeline = "v0" THEN "repair" ELSE "feedback"
                ELSE "gate"
    /\ UNCHANGED <<pipeline, todo, issues, output>>

\* section_context_v1 adopts the answer to its validation feedback, whatever
\* it is.
Feedback ==
    /\ phase = "feedback"
    /\ answer' \in Answer
    /\ phase' = "gate"
    /\ UNCHANGED <<pipeline, todo, issues, output>>

\* _repair_section_claim_atomicity: an unusable repair leaves the draft.
RepairUnusable ==
    /\ phase = "repair"
    /\ phase' = "gate"
    /\ UNCHANGED <<pipeline, todo, answer, issues, output>>

Repair ==
    /\ phase = "repair"
    /\ answer' \in {a \in Answer : Usable(a)}
    /\ issues' \in IssueCounts(answer')
    /\ phase' = IF issues' = 0 THEN "gate" ELSE "retry"
    /\ UNCHANGED <<pipeline, todo, output>>

\* The second repair is taken when it is usable and has no more issues.
Retry ==
    /\ phase = "retry"
    /\ \/ /\ answer' \in {a \in Answer : Usable(a)}
          /\ issues' \in {n \in IssueCounts(answer') : n <= issues}
       \/ UNCHANGED <<answer, issues>>
    /\ phase' = "gate"
    /\ UNCHANGED <<pipeline, todo, output>>

\* The objects made of the answer pass the gate and join the output.
Gate ==
    /\ phase = "gate"
    /\ LET s == Min(todo)
           g == Gated(answer)
           Of(S) == {<<s, i>> : i \in S}
       IN  /\ output' =
                 [claims |-> output.claims \union Of(g.claims),
                  evidence |-> output.evidence \union Of(g.evidence),
                  links |-> output.links \union
                            {<<<<s, l[1]>>, <<s, l[2]>>>> : l \in g.links}]
           /\ todo' = todo \ {s}
           /\ phase' = IF todo = {s} THEN "extracted" ELSE "section"
    /\ answer' = NoAnswer
    /\ issues' = 0
    /\ UNCHANGED pipeline

\* A model call raises, or an answer of an unexpected shape does (a list that
\* is a number, claims that do not validate): the whole run is lost.
CallFails ==
    /\ phase \in {"started", "sections summarized", "summarized", "section",
                  "feedback", "repair", "retry", "gate"}
    /\ phase' = "raised"
    /\ todo' = {}
    /\ answer' = NoAnswer
    /\ issues' = 0
    /\ output' = NoOutput
    /\ UNCHANGED pipeline

SectionNext ==
    \/ SummarizeSections \/ SummarizePaper \/ Plan \/ Draft \/ Feedback
    \/ RepairUnusable \/ Repair \/ Retry \/ Gate
    \/ CallFails

=============================================================================
