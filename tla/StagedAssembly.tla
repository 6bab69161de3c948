---------------------------- MODULE StagedAssembly ----------------------------
(***************************************************************************)
(* The last stages of miner/agent_v1/staged/pipeline.py, composed with the *)
(* checks of the validator: a model proposes experiments, concepts and a   *)
(* trace for the final claims, the pipeline makes an artifact of them and  *)
(* of what it adds for the claims they leave out, and the artifact is      *)
(* checked as any other.                                                   *)
(*                                                                         *)
(* The answer names claims by their numbers and spans by their ids, and    *)
(* may name any.  A quote in it is the span it is found in.  A text is     *)
(* "words", "numbers" (nothing else, and in no quote) or "".  Rows that    *)
(* are no objects are skipped like rows that are not there.  What concepts *)
(* and trace nodes refer to is left out: no check reads it.                *)
(***************************************************************************)
EXTENDS ArtifactChecks

CONSTANTS
    FinalClaims, \* bound: the lists of claims the stages before come to
    Structures,  \* bound: the answers of the model
    MaxClaims    \* max_claims

Id(letter, n) == <<letter, n>>

IsSequence(s) == s \in Seq(Range(s))

\* The stages before leave no claim without a quote, and the spans of a claim
\* are those of its quotes.
IsClaims(list) ==
    /\ IsSequence(list)
    /\ \A i \in DOMAIN list :
          /\ list[i].rank \in Nat /\ list[i].page \in Nat
          /\ IsSequence(list[i].spans) /\ list[i].spans # << >>
          /\ Range(list[i].spans) = {s.span : s \in list[i].sources}
          /\ Range(list[i].spans) \subseteq Spans

\* Whatever it names, the parts of an answer are lists.
IsAnswer(answer) ==
    /\ answer.summaries \in Nat
    /\ IsSequence(answer.experiments) /\ IsSequence(answer.concepts) /\ IsSequence(answer.trace)
    /\ \A k \in DOMAIN answer.experiments :
          IsSequence(answer.experiments[k].verifies) /\ IsSequence(answer.experiments[k].spans)
    /\ \A k \in DOMAIN answer.trace : IsSequence(answer.trace[k].claims)

\* The ids that the pipeline gives have no blanks.
ASSUME AssemblyAssumption ==
    /\ MaxClaims \in Nat \ {0}
    /\ \A list \in FinalClaims : IsClaims(list)
    /\ \A answer \in Structures : IsAnswer(answer)
    /\ \A i \in 1..MaxClaims :
          TextOf[Id("C", i)] = Id("C", i) /\ Id("C", i) # NoId

VARIABLES
    assemblyPhase, \* "claims", "structured", "assembled"
    finalClaims,   \* topic, rank of the importance, page, spans and sources of each
    structure      \* the answer

assemblyVars == <<assemblyPhase, finalClaims, structure>>

\* What stands for the answer of a call that failed or was not made.
NoStructure ==
    [experiments |-> << >>, concepts |-> << >>, trace |-> << >>, summaries |-> 0]

-----------------------------------------------------------------------------
\* The members of a finite set in the order of a relation.
Sorted(P, order) ==
    [k \in 1..Cardinality(P) |->
        CHOOSE i \in P : Cardinality({j \in P : <<j, i>> \in order}) = k - 1]
Ascending(P) == Sorted(P, {p \in P \X P : p[1] < p[2]})

\* The first of a list that is in a set.
FirstIn(list, S) == list[Min({k \in DOMAIN list : list[k] \in S})]

ClaimIds(numbers) == {Id("C", n) : n \in numbers}
EvidenceIds(numbers) == {Id("EV", n) : n \in numbers}
FirstSpan(i) == Head(finalClaims[i].spans)

\* The most important claims come first, and earlier pages before later ones.
Precedence(list) ==
    {p \in (DOMAIN list) \X (DOMAIN list) :
        \/ list[p[1]].rank < list[p[2]].rank
        \/ /\ list[p[1]].rank = list[p[2]].rank
           /\ \/ list[p[1]].page < list[p[2]].page
              \/ list[p[1]].page = list[p[2]].page /\ p[1] < p[2]}
Ordered(list) ==
    [k \in DOMAIN list |-> list[Sorted(DOMAIN list, Precedence(list))[k]]]

\* The claims among the numbers an answer gives, and the first of them.
Known(numbers) == Range(numbers) \intersect DOMAIN finalClaims
FirstKnown(numbers) == FirstIn(numbers, DOMAIN finalClaims)

\* verified_ref: the span the quote is found in, or else the first there is.
VerifiedRef(row) ==
    LET valid == Range(row.spans) \intersect Spans
    IN  IF valid = {} THEN {}
        ELSE IF row.foundIn \in valid THEN {{row.foundIn}}
        ELSE {{FirstIn(row.spans, Spans)}}

\* The first claim of each topic there is among some, and those that share it.
Topics(numbers) ==
    Ascending({i \in numbers : \A j \in numbers :
                  finalClaims[j].topic = finalClaims[i].topic => i <= j})
OfTopic(numbers, i) ==
    {j \in numbers : finalClaims[j].topic = finalClaims[i].topic}

Leftover(named) == DOMAIN finalClaims \ UNION named

\* The quotes of a claim are looked up once more; a claim that would be left
\* without any keeps those it has.
Sources(i) ==
    LET all == finalClaims[i].sources
        verified == {s \in all : s.holds}
    IN  {{s.span} : s \in IF verified = {} THEN all ELSE verified}

-----------------------------------------------------------------------------
\* _strip_numbers, and what stands for a text without anything else.
Filled(text) == IF text \in {"", "numbers"} THEN "not available" ELSE text

Experiment(verifies, refs, texts) ==
    [verifies |-> verifies, refs |-> refs,
     blank |-> {f \in DOMAIN texts : texts[f] = ""}]

\* The rows of the answer that verify a claim there is.
Rows == Ascending({k \in DOMAIN structure.experiments :
                      Known(structure.experiments[k].verifies) # {}})
\* What such a row points to: a span of its own or of its first claim.
RowRefs(row) ==
    IF VerifiedRef(row) # {} THEN VerifiedRef(row)
    ELSE {{FirstSpan(FirstKnown(row.verifies))}}
FilledTexts(row) == [f \in DOMAIN row.texts |-> Filled(row.texts[f])]

\* Mutant: an experiment verifies all that its row says it does.
ProposedAsNamed ==
    [k \in DOMAIN Rows |->
        LET row == structure.experiments[Rows[k]]
        IN  Experiment(Range(row.verifies), RowRefs(row), FilledTexts(row))]

\* The experiments of the answer.
Proposed ==
    [k \in DOMAIN Rows |->
        LET row == structure.experiments[Rows[k]]
        IN  Experiment(Known(row.verifies), RowRefs(row), FilledTexts(row))]

\* One for each topic of the claims they leave out.
Experiments ==
    LET left == Leftover({e.verifies : e \in Range(Proposed)})
        topics == Topics(left)
    IN  Proposed \o
        [k \in DOMAIN topics |->
            Experiment(OfTopic(left, topics[k]), {{FirstSpan(topics[k])}}, << >>)]

-----------------------------------------------------------------------------
\* _build_trace: the nodes in the order they are visited, each with the place
\* of its parent, down to the fourth level; then a node for each topic of the
\* claims that none of them names.
Nodes ==
    LET depth[n \in DOMAIN structure.trace] ==
            IF structure.trace[n].parent = 0 THEN 1
            ELSE depth[structure.trace[n].parent] + 1
    IN  Ascending({n \in DOMAIN structure.trace : depth[n] <= 4})

TraceNode(letter, n, numbers) ==
    [id |-> Id(letter, n), evidence |-> ClaimIds(numbers)]

NodeClaims(k) == Known(structure.trace[Nodes[k]].claims)

Trace ==
    LET proposed ==
            [k \in DOMAIN Nodes |->
                TraceNode(IF structure.trace[Nodes[k]].question THEN "Q" ELSE "R", k,
                          NodeClaims(k))]
        left == Leftover({NodeClaims(k) : k \in DOMAIN Nodes})
        topics == Topics(left)
    IN  <<TraceNode("Q", 0, {})>> \o proposed \o
        [k \in DOMAIN topics |->
            TraceNode("R", Len(proposed) + k, OfTopic(left, topics[k]))]

\* A concept without a label or a definition is skipped, and its number with it.
Concepts ==
    LET numbers == Ascending({k \in DOMAIN structure.concepts :
                                 structure.concepts[k] = "whole"})
    IN  [k \in DOMAIN numbers |-> [id |-> Id("K", numbers[k])]]

-----------------------------------------------------------------------------
\* _stage_assemble
Assembled ==
    [json |-> "object", missing |-> {}, schema |-> TRUE,
     claims |-> [i \in DOMAIN finalClaims |->
        [id |-> Id("C", i), blank |-> {}, refs |-> Sources(i),
         evidence |-> EvidenceIds({i}), dependencies |-> {},
         proof |-> {Id("E", k) : k \in {j \in DOMAIN Experiments :
                                           i \in Experiments[j].verifies}}]],
     records |-> [i \in DOMAIN finalClaims |->
        [id |-> Id("EV", i), blank |-> {}, refs |-> Sources(i),
         claims |-> ClaimIds({i})]],
     experiments |-> [k \in DOMAIN Experiments |->
        [id |-> Id("E", k), blank |-> Experiments[k].blank,
         refs |-> Experiments[k].refs,
         verifies |-> ClaimIds(Experiments[k].verifies),
         evidence |-> EvidenceIds(Experiments[k].verifies)]],
     concepts |-> Concepts,
     trace |-> Trace]

\* _paper_metadata: the summary the model gives, or the central claims.
Summaries ==
    IF structure.summaries > 0 THEN structure.summaries
    ELSE Min({8, Cardinality({i \in DOMAIN finalClaims : finalClaims[i].rank = 0})})

\* validate_agent_artifact, the miner's own checks, of a paper that has a title.
OwnIssues(a) ==
    {code \in {"missing", "unresolved_ref", "insufficient_coverage",
               "insufficient_evidence_coverage", "collapsed_evidence_coverage"} :
        CASE code = "missing" -> a.claims = << >> \/ MissingFields("claim", a.claims) # {}
          [] code = "unresolved_ref" ->
                UNION {Unresolved("claim", a.claims, "evidence", IdsOf(a.records), ""),
                       Unresolved("claim", a.claims, "proof", IdsOf(a.experiments), ""),
                       Unresolved("experiment", a.experiments, "verifies", IdsOf(a.claims), ""),
                       Unresolved("experiment", a.experiments, "evidence", IdsOf(a.records), "")}
                # {}
          [] code = "insufficient_coverage" -> Len(a.claims) < Min({3, Summaries})
          [] code = "insufficient_evidence_coverage" ->
                Len(a.claims) >= 3 /\ Len(a.records) < Len(a.claims)
          [] code = "collapsed_evidence_coverage" ->
                Len(a.claims) > 1 /\ Cardinality({c.evidence : c \in Range(a.claims)}) = 1}

-----------------------------------------------------------------------------
AssemblyInit ==
    /\ assemblyPhase = "claims"
    /\ structure = NoStructure

\* _stage_structure: the claims are put in order and the surplus is dropped;
\* no call is made for no claims, and a call may fail.
Structure ==
    /\ assemblyPhase = "claims"
    /\ structure' \in IF finalClaims = << >> THEN {NoStructure}
                      ELSE Structures \union {NoStructure}
    /\ finalClaims' =
          SubSeq(Ordered(finalClaims), 1, Min({MaxClaims, Len(finalClaims)}))
    /\ assemblyPhase' = "structured"
    /\ UNCHANGED checkVars

Assemble ==
    /\ assemblyPhase = "structured"
    /\ artifact' = Assembled
    /\ assemblyPhase' = "assembled"
    /\ UNCHANGED <<finalClaims, structure, checkPhase, findings, candidates>>

AssemblyNext == Structure \/ Assemble \/ (ChecksNext /\ UNCHANGED assemblyVars)

AssemblySpec ==
    /\ finalClaims \in FinalClaims \union {<< >>}
    /\ artifact = NoArtifact
    /\ ChecksInit
    /\ AssemblyInit
    /\ [][AssemblyNext]_<<assemblyVars, checkVars>>

-----------------------------------------------------------------------------
(* Properties.                                                             *)

\* Whatever the model answers, and when it does not, the validator finds
\* nothing in the artifact that is made of any claims, each of them is verified
\* by an experiment, has its place in the trace and becomes a candidate; the
\* miner's own checks find at most that the paper's summary, in the model's
\* words, counts more claims.
AssembledArtifactsPass ==
    assemblyPhase = "assembled" /\ finalClaims # << >> =>
        /\ findings = {}
        /\ OwnIssues(artifact) \subseteq {"insufficient_coverage"}
        /\ structure.summaries <= Len(finalClaims) => OwnIssues(artifact) = {}
        /\ \A c \in Range(artifact.claims) :
              c.proof # {} /\ \E node \in Range(artifact.trace) : c.id \in node.evidence
        /\ checkPhase = "projected" => Cardinality(candidates) = Len(finalClaims)

=============================================================================
