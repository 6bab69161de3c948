----------------------------- MODULE MCDataSteps -----------------------------
(***************************************************************************)
(* The steps from data to data that share no state: a paper cut into       *)
(* sections, a record of an answer sorted into its profile, an artifact    *)
(* checked, a batch scored and paid.  Each behaviour has data for one.     *)
(***************************************************************************)
EXTENDS SectionInventory, ClaimNormalization, BatchScoring, StagedAssembly

VARIABLE step

vars == <<step, inventoryVars, recordVars, checkVars, assemblyVars, batchVars>>

-----------------------------------------------------------------------------
\* Papers and records.
MCHeading(chars, letters, tokens, caps, generic) ==
    [chars |-> chars, letters |-> letters, tokens |-> tokens, caps |-> caps,
     generic |-> generic]
MCLook ==
    "Results" :> MCHeading(7, 7, 1, FALSE, FALSE)
    @@ "RESULTS" :> MCHeading(7, 7, 1, TRUE, FALSE)
    @@ "OTHER" :> MCHeading(5, 5, 1, TRUE, FALSE)
    @@ "Table" :> MCHeading(5, 5, 1, FALSE, TRUE)
    @@ "Abstract" :> MCHeading(8, 8, 1, FALSE, FALSE)
    @@ [n \in Range(PageNames) |-> MCHeading(6, 4, 2, FALSE, FALSE)]
    @@ "Unlabeled Section" :> MCHeading(17, 16, 2, FALSE, FALSE)
MCTypeOf == "Results" :> "RESULTS" @@ "" :> "OTHER" @@ "Table" :> "OTHER"

MCParagraph(div, chars) == [div |-> div, chars |-> chars]
MCDiv(head, parent) == [head |-> head, parent |-> parent]
\* The second division lies inside the first or behind it.
MCTei ==
    [kind : {"tei"}, abstract : {<<1>>, <<0, 2>>},
     divs : {<<MCDiv(h1, 0), MCDiv(h2, p)>> :
                h1, h2 \in {"Results", "", "Table"}, p \in {0, 1}},
     paragraphs : {[i \in 1..4 |-> MCParagraph(ds[i], i % 4)] :
                      ds \in [1..4 -> 0..2]}]
MCPdf == [kind : {"pdf"}, pages : {<<ps, << >>, <<1>>>> : ps \in BoundedSeq({0, 1, 2}, 2)}]
MCSpan(name, type, page, chars, blank) ==
    [name |-> name, type |-> type, page |-> page, chars |-> chars, blank |-> blank]
MCArtifactSpans ==
    {MCSpan("Results", "RESULTS", 1, 1, FALSE), MCSpan("", "RESULTS", 0, 1, FALSE),
     MCSpan("", "", 2, 2, FALSE), MCSpan("", "", 1, 1, TRUE),
     MCSpan("Table", "OTHER", 3, 4, FALSE)}
MCStored ==
    [kind : {"artifact"}, spans : BoundedSeq(MCArtifactSpans, 5)]
MCDocuments == MCTei \union MCPdf \union MCStored

MCEntry(key, form, text) == [key |-> key, value |-> [form |-> form, text |-> text]]
MCContexts ==
    {<<e>> : e \in
        {MCEntry("evidence_basis", "text", "cited"), MCEntry("", "text", "phrase"),
         MCEntry("evidence_basis", "text", "phrase"), MCEntry("mechanism", "text", "long")}}
    \union {<< >>}
    \union {<<MCEntry(k, "object", "phrase"), MCEntry(l, "text", "number")>> :
               k, l \in {"comparison_group", "comparator", "sample_size", "estimator"}}
MCDetails ==
    {<< >>, <<MCEntry("graph_subject", "text", "phrase")>>,
     <<MCEntry("mechanism", "text", "phrase")>>}
    \union {<<MCEntry(k, "text", "phrase"), MCEntry(l, "object", "statistic")>> :
               k, l \in {"comparator", "sample_size", "estimator", "p_value"}}
MCRawClaim(profile, cues, context, details, claim, roles) ==
    [kind |-> "claim", profile |-> profile, cues |-> cues, context |-> context,
     details |-> details, claim |-> claim, roles |-> roles]
MCPlain(text) == [f \in {"subject", "predicate", "object"} |->
                     IF f = "object" THEN text ELSE "phrase"]
MCRoles == {"subject", "object"}
MCDistinct(entries) ==
    \A i, j \in DOMAIN entries : entries[i].key = entries[j].key => i = j
MCSorted ==
    {MCRawClaim(p, {}, c, d, MCPlain("phrase"), MCRoles) :
        p \in DOMAIN CLAIM_PROFILES \union {"", "unknown"},
        c \in {x \in MCContexts : MCDistinct(x)},
        d \in {x \in MCDetails : MCDistinct(x)}}
MCChecked ==
    {MCRawClaim(p, cues, << >>, << >>, MCPlain(t), roles) :
        p \in {"", "gwas_association_result", "theoretical_proposition"},
        cues \in SUBSET {"score", "association", "theory"},
        t \in {"phrase", "long", "number", "statistic"},
        roles \in SUBSET {"subject", "object", "generic"}}
MCEvidence ==
    {[c EXCEPT !.kind = "evidence", !.profile = m] : m \in {"observation", "derivation", "poll"},
        c \in {x \in MCSorted : x.profile = ""}}
MCRawRecords == MCSorted \union MCChecked \union MCEvidence
MCCorrections == {c \in MCSorted : c.profile \in {"", "mechanistic_claim"}} \union MCChecked

-----------------------------------------------------------------------------
\* Artifacts and batches.
\* An id that a miner writes is one word; the pipeline's are a letter and a number.
MCNoId == <<"">>
MCTextOf == [id \in {<<"c1">>, <<"claim_1">>, MCNoId} |-> id]
            @@ <<"c1 ">> :> <<"c1">> @@ <<" ">> :> MCNoId @@ [id \in {<<"C", i>> : i \in 1..3} |-> id]
MCDefaultId == <<<<"claim_1">>, <<"claim_2">>, <<"claim_3">>>>

\* A claim as its id and what it rests on, in four ways.
MCGrounds ==
    {[evidence |-> {<<"e1">>}, refs |-> {{"s1"}}], [evidence |-> {<<"e9">>}, refs |-> {}],
     [evidence |-> {}, refs |-> {}], [evidence |-> {}, refs |-> {{}, {"s9"}}]}
MCClaim(id, blank, grounds) ==
    [id |-> id, blank |-> blank, evidence |-> grounds.evidence,
     refs |-> grounds.refs, proof |-> {}, dependencies |-> {}]
MCClaims == {MCClaim(id, blank, g) : id \in {<<"c1">>, <<"c1 ">>, <<" ">>, MCNoId, <<"claim_1">>},
                 blank \in {{}, {"statement"}, {"conditions"}}, g \in MCGrounds}
MCPlainClaims == {c \in MCClaims : c.evidence = {<<"e1">>} /\ c.blank # {"conditions"}}
MCRecord == [id |-> <<"e1">>, blank |-> {}, claims |-> {}, refs |-> {{"s1"}}]
MCArtifact(claims) ==
    [json |-> "object", missing |-> {}, schema |-> TRUE, claims |-> claims,
     records |-> <<MCRecord>>, experiments |-> << >>, concepts |-> << >>,
     trace |-> << >>]
MCBroken == MCArtifact(<<MCClaim(<<"c1">>, {}, [evidence |-> {<<"e1">>}, refs |-> {}])>>)
MCArtifacts ==
    {MCArtifact(cs) : cs \in UNION {[1..n -> MCPlainClaims] : n \in 0..3}}
    \union {MCArtifact(<<c, d>>) : c, d \in MCClaims}
    \union {[MCBroken EXCEPT !.json = j] : j \in {"torn", "array"}}
    \union {[MCBroken EXCEPT !.missing = {l}, !.schema = s] :
               l \in {"logic", "metadata", "trace"}, s \in BOOLEAN}
    \union {[MCBroken EXCEPT !.records = rs, !.trace = t] :
               rs \in {<< >>, <<MCRecord, MCRecord>>, <<[MCRecord EXCEPT !.refs = {}]>>,
                       <<[MCRecord EXCEPT !.blank = {"summary"}, !.claims = {<<"c9">>}]>>},
               t \in {<<[id |-> <<"t1">>, evidence |-> {<<"c1">>}]>>,
                      <<[id |-> <<"t1">>, evidence |-> {}], [id |-> <<"t1">>, evidence |-> {<<"c9">>}]>>}}
    \union {[MCBroken EXCEPT !.experiments =
                <<[id |-> <<"x">>, verifies |-> v, evidence |-> e, blank |-> b,
                   refs |-> {}]>>] :
               v \in {{<<"c1">>}, {<<"c9">>}}, e \in {{}, {<<"e9">>}}, b \in {{}, {"setup"}}}

\* What the pipeline makes an artifact of: claims on two topics that hold to
\* their quotes, to some of them or to none.
MCQuote(span, holds) == [span |-> span, holds |-> holds]
MCFinal(topic, level, page, spans, sources) ==
    [topic |-> topic, rank |-> level, page |-> page, spans |-> spans,
     sources |-> sources]
MCFinals ==
    {MCFinal("t", 0, 2, <<"s1">>, {MCQuote("s1", TRUE)}),
     MCFinal("u", 2, 1, <<"s1", "s2">>, {MCQuote("s2", TRUE), MCQuote("s1", FALSE)}),
     MCFinal("t", 2, 3, <<"s2">>, {MCQuote("s2", FALSE)})}
MCFinalClaims == BoundedSeq(MCFinals, 3) \union {[i \in 1..4 |-> c] : c \in MCFinals}

MCRow(verifies, spans, foundIn, texts) ==
    [verifies |-> verifies, spans |-> spans, foundIn |-> foundIn, texts |-> texts]
MCTexts(setup, procedure, outcome) ==
    [setup |-> setup, procedure |-> procedure, expected_outcome |-> outcome]
MCRows ==
    {MCRow(v, s[1], s[2], t) :
        v \in {<< >>, <<1>>, <<2, 1, 2>>, <<9>>, <<9, 3>>},
        s \in {<<<< >>, "">>, <<<<"s9">>, "">>, <<<<"s9", "s2">>, "s2">>,
               <<<<"s2", "s1">>, "s1">>},
        t \in {MCTexts("words", "", "numbers"), MCTexts("numbers", "words", "")}}
MCNode(parent, question, numbers) ==
    [parent |-> parent, question |-> question, claims |-> numbers]
MCChain(numbers) == [n \in 1..6 |-> MCNode(n - 1, n # 2, IF n = 3 THEN << >> ELSE numbers)]
MCTraces ==
    {<<MCNode(0, q, v)>> : q \in BOOLEAN, v \in {<< >>, <<1>>, <<9, 2>>}}
    \union {MCChain(v) : v \in {<<1>>, <<9>>, <<3, 1>>}}
    \union {<<MCNode(0, TRUE, <<1>>), MCNode(1, FALSE, <<2>>), MCNode(0, FALSE, <<3>>)>>}
MCStructure(rows, concepts, trace, summaries) ==
    [experiments |-> rows, concepts |-> concepts, trace |-> trace,
     summaries |-> summaries]
MCStructures ==
    {MCStructure(<<r>>, << >>, << >>, 0) : r \in MCRows}
    \union {MCStructure(<<MCRow(<<1>>, << >>, "", MCTexts("words", "words", "words")), r>>,
                        << >>, << >>, 1) : r \in MCRows}
    \union {MCStructure(<< >>, <<c, "whole", d>>, t, n) :
               c, d \in {"whole", "partial"}, t \in MCTraces, n \in {0, 3}}

MCUnit(n, importance, required) ==
    [n |-> n, importance |-> importance, required |-> required,
     improvement |-> ~required]
\* A paper with all kinds of units, and one with minor units only.
MCUnits == << {MCUnit(1, "central", TRUE), MCUnit(2, "supporting", FALSE),
               MCUnit(3, "minor", TRUE), MCUnit(4, "minor", TRUE)},
              {MCUnit(5, "minor", TRUE), MCUnit(6, "minor", TRUE)} >>
MCWork(covered, F, invalid) ==
    [submitted |-> TRUE, covered |-> {u \in UNION Range(MCUnits) : u.n \in covered},
     findings |-> F, invalid |-> invalid]
MCMinor == Finding("minor", "near_duplicate", << >>)
MCDangling == Finding("critical", "missing_source_span", <<1>>)
MCInvalid == Finding("critical", "invalid_extra_candidate", <<1>>)
MCWorks ==
    {MCWork({1, 2, 3, 4, 5, 6}, {}, {}), MCWork({1, 3, 5}, {MCMinor}, {}),
     MCWork({1, 3, 5}, {MCMinor, MCDangling}, {MCInvalid}),
     MCWork({2, 4}, {}, {MCInvalid}), MCWork({3, 4, 5}, {MCMinor}, {}),
     [MCWork({}, {}, {}) EXCEPT !.submitted = FALSE]}

\* The decay of 1/2, for up to three miners.
MCFactors == <<2 :> 1, 2 :> 2 @@ 3 :> 1>>

-----------------------------------------------------------------------------
\* The parts that rest have nothing to work on.
MCNoWork == [m \in Miners |-> [p \in Papers |-> [MCWork({}, {}, {}) EXCEPT !.submitted = FALSE]]]

Init ==
    /\ step \in {"sections", "records", "checks", "assembly", "payout"}
    /\ IF step = "sections" THEN document \in Documents ELSE document = NoDocument
    /\ IF step = "records" THEN raw \in RawRecords ELSE raw = NoRecord
    /\ IF step = "checks" THEN artifact \in Artifacts ELSE artifact = NoArtifact
    /\ IF step = "assembly" THEN finalClaims \in FinalClaims ELSE finalClaims = << >>
    /\ IF step = "payout"
          THEN work \in [Miners -> [Papers -> Works]]
          ELSE /\ work = MCNoWork
               /\ mode = CHOOSE m \in Modes : TRUE
               /\ newcomers = {}
    /\ InventoryInit /\ RecordInit /\ ChecksInit /\ AssemblyInit /\ BatchInit

CutSections ==
    /\ step = "sections" /\ InventoryNext
    /\ UNCHANGED <<step, recordVars, checkVars, assemblyVars, batchVars>>
SortRecords ==
    /\ step = "records" /\ RecordNext
    /\ UNCHANGED <<step, inventoryVars, checkVars, assemblyVars, batchVars>>
CheckArtifact ==
    /\ step = "checks" /\ ChecksNext
    /\ UNCHANGED <<step, inventoryVars, recordVars, assemblyVars, batchVars>>
AssembleArtifact ==
    /\ step = "assembly" /\ AssemblyNext
    /\ UNCHANGED <<step, inventoryVars, recordVars, batchVars>>
PayBatch ==
    /\ step = "payout" /\ BatchNext
    /\ UNCHANGED <<step, inventoryVars, recordVars, checkVars, assemblyVars>>

Next == CutSections \/ SortRecords \/ CheckArtifact \/ AssembleArtifact \/ PayBatch

Spec == Init /\ [][Next]_vars
=============================================================================
