---------------------------- MODULE MCPaperRunner ----------------------------
EXTENDS PaperRunner

CONSTANTS p1, p2

MCTexts == {{"x", "n"}, {"z"}}
\* A claim with a number that should be split, a plain one, one of prior work
\* and an empty one.
MCRawClaims ==
    {[text |-> {"x", "n"}, kind |-> "claim", issues |-> 1],
     [text |-> {"z", "w"}, kind |-> "claim", issues |-> 0],
     [text |-> {"x"}, kind |-> "background", issues |-> 1],
     [text |-> {}, kind |-> "blank", issues |-> 0]}
MCLayouts == {<<"ABSTRACT", "OTHER">>, <<"Abstract", "OTHER">>, <<"OTHER">>}
\* The first run is of any pipeline; the later ones only make files, of a
\* paper that is all abstract.
MCInputsOf ==
    [r \in 1..MaxRuns |->
        IF r = 1
        THEN [pipeline : {"v0", "section_context"}, sections : {<< >>}]
             \union [pipeline : {"abstract"}, sections : MCLayouts]
        ELSE [pipeline : {"abstract"}, sections : {<<"ABSTRACT">>}]]
MCAbstractInputs ==
    [r \in 1..MaxRuns |-> [pipeline : {"abstract"}, sections : MCLayouts]]
MCSymmetry == Permutations(Papers)
=============================================================================
