--------------------------- MODULE StagedPipeline ---------------------------
(***************************************************************************)
(* What miner/agent_v1/staged/pipeline.py does with the candidates of a    *)
(* paper once they are extracted and verified: restatements are folded     *)
(* together, model calls group the rest in parallel, the groups are        *)
(* checked, finalized and cleaned, claims are merged and dropped by a      *)
(* self-check, and the list is capped.                                     *)
(*                                                                         *)
(* Candidates are their numbers.  Texts are reduced to what grounding      *)
(* depends on: the quotes of a candidate hold the numbers of its own       *)
(* statement, so a statement is the set of candidates whose numbers it     *)
(* uses, and quotes are the set of candidates they come from.  Similarity  *)
(* of texts and the answers of the models are nondeterministic; an answer  *)
(* may name any candidate, also one the model was not shown.               *)
(***************************************************************************)
EXTENDS Integers, FiniteSets

CONSTANTS
    MaxCandidates, \* bound: candidates extracted from the paper
    MaxFlaws,      \* bound: candidates that answers list again or were not shown
    GroupSize,     \* max_candidates_per_consolidation
    MaxMembers,    \* merge_max_members
    FloorPercent,  \* retention_floor, in percent
    MaxClaims,     \* max_claims
    Rank           \* order of the candidates by importance, then page

ASSUME PipelineBounds ==
    /\ MaxCandidates \in Nat /\ MaxFlaws \in Nat
    /\ GroupSize \in Nat \ {0}
    /\ MaxMembers \in Nat \ {0}
    /\ FloorPercent \in 0..100
    /\ MaxClaims \in Nat \ {0}
ASSUME RankAssumption ==
    /\ Rank \in [1..MaxCandidates -> Nat]
    /\ \A c, d \in 1..MaxCandidates : Rank[c] = Rank[d] => c = d

VARIABLES
    pc,        \* the next stage
    size,      \* number of candidates
    target,    \* the candidate each one was folded into, 0 if into none
    answers,   \* what the calls of the consolidator came back with
    claims,    \* the claims so far
    dropped,   \* candidates the consolidator dropped
    cleaned,   \* claims dropped by the hygiene rules
    refuted,   \* claims dropped by the support check
    capped,    \* claims beyond max_claims
    flaws      \* candidates that answers have named twice or were not shown

vars == <<pc, size, target, answers, claims, dropped, cleaned, refuted,
          capped, flaws>>

Candidates == 1..size
Invented == 0 \* a number that is in none of the quotes
Kept == {c \in Candidates : target[c] = 0}
Absorbed(c) == {d \in Candidates : target[d] = c}
\* The quotes of a candidate: folding pools them.
Quotes(c) == {c} \union Absorbed(c)

\* _chunk: the kept candidates in document order, GroupSize at a time.
GroupOf(c) == (Cardinality({k \in Kept : k < c}) \div GroupSize) + 1
Groups == {GroupOf(c) : c \in Kept}
Shown(g) == {c \in Kept : GroupOf(c) = g}

\* The first of a claim's candidates.
Primary(ids) == CHOOSE c \in ids : \A d \in ids : Rank[c] <= Rank[d]

\* An entry of the list of claims: its candidates, those it lists again, what
\* its wording needs, and where it comes from: a group's answer (0: retention)
\* and whether it stands for a second copy of its candidate.
Claim(ids, again, needs, by) ==
    [ids |-> ids, again |-> again, needs |-> needs, by |-> by]
From(g) == <<g, 1>>
Second(by) == <<by[1], 2>>

\* _singleton_claim
Singleton(c, by) == Claim({c}, {}, {c}, by)
Singletons(S, by) == {Singleton(c, by) : c \in S}
IdsOf(cs) == UNION {c.ids : c \in cs}

Init ==
    /\ pc = "extract"
    /\ size = 0
    /\ target = << >>
    /\ answers = << >>
    /\ claims = {}
    /\ dropped = {}
    /\ cleaned = {}
    /\ refuted = {}
    /\ capped = {}
    /\ flaws = 0

-----------------------------------------------------------------------------
\* _stage_extract numbers what the spans gave, a failed span giving nothing.
Extract ==
    /\ pc = "extract"
    /\ size' \in 0..MaxCandidates
    /\ pc' = IF size' = 0 THEN "structure" ELSE "premerge"
    /\ target' = [c \in 1..size' |-> 0]
    /\ UNCHANGED <<answers, claims, dropped, cleaned, refuted, capped,
                   flaws>>

\* _premerge_restatements: a candidate is folded into an earlier one that was
\* kept.
Premerge ==
    /\ pc = "premerge"
    /\ target' \in {t \in [Candidates -> 0..size] :
                       \A c \in Candidates :
                           t[c] # 0 => t[c] < c /\ t[t[c]] = 0}
    /\ pc' = "consolidate"
    /\ UNCHANGED <<size, answers, claims, dropped, cleaned, refuted, capped,
                   flaws>>

\* The rows of an answer, each without the candidates of the rows before it.
Rows == {R \in SUBSET ((SUBSET Candidates) \ {{}}) :
            \A r, s \in R : r = s \/ r \cap s = {}}

\* A claim the model words itself, from its candidates or with a number of its
\* own.
Worded(rows, again, invent, g) ==
    {Claim(r, r \cap again, IF r \in invent THEN {Invented} ELSE r, From(g)) :
        r \in rows}

Answer(g, cs, ds) ==
    /\ answers' = [h \in DOMAIN answers \union {g} |->
                      IF h = g THEN [claims |-> cs, dropped |-> ds]
                               ELSE answers[h]]
    /\ UNCHANGED <<pc, size, target, claims, dropped, cleaned, refuted,
                   capped>>

Pending(g) == pc = "consolidate" /\ g \in Groups \ DOMAIN answers

\* An answer may name candidates it was not shown, or a candidate twice.
Flawed(rows, again, ds, g) ==
    /\ flaws' = flaws + Cardinality(again)
                      + Cardinality(((UNION rows) \union ds) \ Shown(g))
    /\ flaws' <= MaxFlaws

\* Mutant: candidates the answer does not mention are forgotten.
ConsolidateMentioned(g) ==
    /\ Pending(g)
    /\ \E rows \in Rows :
       \E again \in SUBSET (UNION rows), invent \in SUBSET rows,
          ds \in SUBSET (Candidates \ (UNION rows)) :
          /\ Answer(g, Worded(rows, again, invent, g), ds)
          /\ Flawed(rows, again, ds, g)

\* _consolidate_group: rows, drops, and a claim of its own for every candidate
\* of the group that was not mentioned.
Consolidate(g) ==
    /\ Pending(g)
    /\ \E rows \in Rows :
       \E again \in SUBSET (UNION rows), invent \in SUBSET rows,
          ds \in SUBSET (Candidates \ (UNION rows)) :
          /\ Answer(g,
                    Worded(rows, again, invent, g)
                      \union Singletons(Shown(g) \ ((UNION rows) \union ds),
                                       From(g)),
                    ds)
          /\ Flawed(rows, again, ds, g)

\* The call failed: every candidate is a claim.
ConsolidateFails(g) ==
    /\ Pending(g)
    /\ Answer(g, Singletons(Shown(g), From(g)), {})
    /\ UNCHANGED flaws

\* All groups have answered.
Join ==
    /\ pc = "consolidate"
    /\ DOMAIN answers = Groups
    /\ claims' = UNION {answers[g].claims : g \in Groups}
    /\ dropped' = UNION {answers[g].dropped : g \in Groups}
    /\ pc' = "validate"
    /\ answers' = << >>
    /\ UNCHANGED <<size, target, cleaned, refuted, capped,
                   flaws>>

-----------------------------------------------------------------------------
\* _validate_merges.  The members that resemble the primary stay, MaxMembers
\* entries at most; each of the others becomes a claim of its own, a candidate
\* listed twice two claims.  The wording of the whole is kept when one leaves.
Near(c, far) == {d \in c.ids : {d, Primary(c.ids)} \notin far}

\* Entries of S that resemble the primary and come before d.
Before(c, S, d, far) ==
    Cardinality({e \in Near(c, far) \cap S : Rank[e] < Rank[d]})
Place(c, d, far) == Before(c, c.ids, d, far) + Before(c, c.again, d, far)

Stay(c, far) == {d \in Near(c, far) : Place(c, d, far) < MaxMembers}
StayAgain(c, far) ==
    {d \in Stay(c, far) \cap c.again : Place(c, d, far) + 1 < MaxMembers}

\* Mutant: a member that is split off stays in the claim as well.
SplitAndStay(c, far) ==
    {c} \union Singletons(c.ids \ Stay(c, far), c.by)

Split(c, far) ==
    LET out == c.ids \ Stay(c, far)
        outAgain == c.again \ StayAgain(c, far)
    IN  {Claim(Stay(c, far), StayAgain(c, far),
               IF Cardinality(out) + Cardinality(outAgain) >= 2
                 THEN {Primary(c.ids)} ELSE c.needs,
               c.by)}
          \union Singletons(out, c.by) \union Singletons(outAgain, Second(c.by))

ValidateMerges ==
    /\ pc = "validate"
    /\ \E far \in SUBSET {p \in SUBSET Candidates : Cardinality(p) = 2} :
           claims' = UNION {Split(c, far) : c \in claims}
    /\ pc' = "retention"
    /\ UNCHANGED <<size, target, answers, dropped, cleaned, refuted, capped,
                   flaws>>

\* _enforce_retention: too few claims are replaced by the candidates that are
\* in any of them.
Rebuilt == Singletons(Kept \cap IdsOf(claims), From(0))

Collapsed(cs) == Cardinality(cs) * 100 < FloorPercent * Cardinality(Kept)

\* Mutant: retention counts the candidates in claims.
EnforceRetentionOfIds ==
    /\ pc = "retention"
    /\ claims' = IF Collapsed(IdsOf(claims)) /\ Rebuilt # {}
                   THEN Rebuilt ELSE claims
    /\ pc' = "finalize"
    /\ UNCHANGED <<size, target, answers, dropped, cleaned, refuted, capped,
                   flaws>>

EnforceRetention ==
    /\ pc = "retention"
    /\ claims' = IF Collapsed(claims) /\ Rebuilt # {} THEN Rebuilt ELSE claims
    /\ pc' = "finalize"
    /\ UNCHANGED <<size, target, answers, dropped, cleaned, refuted, capped,
                   flaws>>

\* _finalize_claims: quotes are pooled, a wording they do not ground falls back
\* to the primary's, and a claim that is still not grounded is skipped.  The
\* candidates folded into the members are listed from here on.
Final(ids, needs, quotes, by) ==
    [ids |-> ids, needs |-> needs, quotes |-> quotes, by |-> by]

Finalized(c) ==
    LET quotes == UNION {Quotes(m) : m \in c.ids}
    IN  Final(quotes,
              IF c.needs \subseteq quotes THEN c.needs ELSE {Primary(c.ids)},
              quotes, c.by)

Grounded(c) == c.needs \subseteq c.quotes

Finalize ==
    /\ pc = "finalize"
    /\ claims' = {f \in {Finalized(c) : c \in claims} : Grounded(f)}
    /\ pc' = "hygiene"
    /\ UNCHANGED <<size, target, answers, dropped, cleaned, refuted, capped,
                   flaws>>

-----------------------------------------------------------------------------
\* The rest works on the list of final claims, a claim or a pair at a time.
Remove(c, from) ==
    /\ c \in claims
    /\ claims' = claims \ {c}
    /\ from' = from \union {c}

GoTo(stage) == pc' = stage
Rest == UNCHANGED <<size, target, answers, dropped, flaws>>

\* _hygiene
DropUnclean ==
    /\ pc = "hygiene"
    /\ \E c \in claims : Remove(c, cleaned)
    /\ Rest /\ UNCHANGED <<pc, refuted, capped>>

EndHygiene ==
    /\ pc = "hygiene" /\ GoTo("near duplicates")
    /\ Rest /\ UNCHANGED <<claims, cleaned, refuted, capped>>

\* Mutant: the wording of the other is taken without its quotes.
MergedWording(keeper, other) ==
    Final(keeper.ids \union other.ids, other.needs, keeper.quotes, keeper.by)

\* A claim takes over the candidates and the quotes of another.
Merged(keeper, other) ==
    Final(keeper.ids \union other.ids, keeper.needs,
          keeper.quotes \union other.quotes, keeper.by)

MergeSomePair ==
    \E k, o \in claims :
        /\ k # o
        /\ claims' = (claims \ {k, o}) \union {Merged(k, o)}

\* _merge_near_duplicates
MergeNearDuplicates ==
    /\ pc = "near duplicates"
    /\ MergeSomePair
    /\ Rest /\ UNCHANGED <<pc, cleaned, refuted, capped>>

\* Without claims there is no self-check.
EndConsolidation ==
    /\ pc = "near duplicates"
    /\ GoTo(IF claims = {} THEN "structure" ELSE "dedupe")
    /\ Rest /\ UNCHANGED <<claims, cleaned, refuted, capped>>

\* _merge_restatements, in the groups the model names.
MergeRestatements ==
    /\ pc = "dedupe"
    /\ MergeSomePair
    /\ Rest /\ UNCHANGED <<pc, cleaned, refuted, capped>>

EndDedupe ==
    /\ pc = "dedupe" /\ GoTo("support")
    /\ Rest /\ UNCHANGED <<claims, cleaned, refuted, capped>>

\* _drop_unsupported
DropUnsupported ==
    /\ pc = "support"
    /\ \E c \in claims : Remove(c, refuted)
    /\ Rest /\ UNCHANGED <<pc, cleaned, capped>>

EndSupport ==
    /\ pc = "support" /\ GoTo("structure")
    /\ Rest /\ UNCHANGED <<claims, cleaned, refuted, capped>>

\* _stage_structure keeps the MaxClaims first claims.
Cap ==
    /\ pc = "structure" /\ GoTo("done")
    /\ \E S \in SUBSET claims :
           /\ Cardinality(claims) > MaxClaims => Cardinality(S) = MaxClaims
           /\ Cardinality(claims) <= MaxClaims => S = claims
           /\ claims' = S
           /\ capped' = claims \ S
    /\ Rest /\ UNCHANGED <<cleaned, refuted>>

\* An answer of an unexpected shape, such as a number for a list, raises
\* outside of the guarded call and ends the pipeline.
MalformedAnswer ==
    /\ \/ pc = "consolidate" /\ Groups # DOMAIN answers
       \/ pc \in {"dedupe", "support"}
       \/ pc = "structure" /\ claims # {}
    /\ GoTo("raised")
    /\ Rest /\ UNCHANGED <<claims, cleaned, refuted, capped>>

Next ==
    \/ Extract \/ Premerge
    \/ \E g \in 1..MaxCandidates : Consolidate(g) \/ ConsolidateFails(g)
    \/ Join \/ ValidateMerges \/ EnforceRetention \/ Finalize
    \/ DropUnclean \/ EndHygiene \/ MergeNearDuplicates \/ EndConsolidation
    \/ MergeRestatements \/ EndDedupe \/ DropUnsupported \/ EndSupport \/ Cap
    \/ MalformedAnswer

Spec == Init /\ [][Next]_vars

-----------------------------------------------------------------------------
honest == flaws = 0

Finalizing == {"hygiene", "near duplicates", "dedupe", "support",
               "structure", "done"}

\* Every number in the wording of a final claim stands in the quotes pooled
\* under it, whatever was folded, split, merged or taken from a model's answer.
ClaimsAreGrounded ==
    pc \in Finalizing =>
        \A c \in claims \union cleaned \union refuted \union capped : Grounded(c)

Gone == cleaned \union refuted \union capped

\* A candidate, folded ones included, ends in a claim or was dropped by a named
\* rule; in particular the "should not happen" skip of _finalize_claims never
\* happens, and no answer of the consolidator makes one disappear.
NoCandidateIsLost ==
    pc \in Finalizing =>
        Candidates \subseteq
            IdsOf(claims \union Gone) \union UNION {Quotes(d) : d \in dropped}

\* When the consolidator names only what it was shown, and nothing twice, no
\* candidate is in two claims, or in a claim and dropped.
OneClaimPerCandidate ==
    honest /\ pc \in Finalizing =>
        /\ \A c, d \in claims \union Gone : c = d \/ c.ids \cap d.ids = {}
        /\ \A d \in dropped : Quotes(d) \cap IdsOf(claims \union Gone) = {}

\* When fewer claims are finalized than the retention floor asks for, it is
\* because the consolidator dropped the rest: each kept candidate that it did
\* not drop has a claim of its own, with what was folded into it and nothing
\* else.  Splitting, the check of the floor, grouping of the quotes and the skip
\* of ungrounded claims neither merge two claims nor lose one on the way.
CollapseIsUndone ==
    honest /\ pc = "hygiene" /\ Collapsed(claims \union cleaned) =>
        {c.ids : c \in claims \union cleaned} =
            {Quotes(k) : k \in Kept \ dropped}

=============================================================================
