--------------------------- MODULE SectionInventory ---------------------------
(***************************************************************************)
(* How miner/v0 and miner/section_context_v1 cut a paper into the sections *)
(* their models read: spans of text come from GROBID's TEI, from the pages *)
(* of a PDF or from a stored artifact, and build_section_inventory collects *)
(* neighbours under one heading it trusts, or under one it does not trust  *)
(* in chunks of limited size.                                              *)
(*                                                                         *)
(* A paragraph is its number of characters, 0 when it is blank; a heading  *)
(* is its name, of which Look says what the rules of assess_section_title  *)
(* tell apart.  A section is the set of the places its spans have in the   *)
(* paper: its list of ids is in the order in which they are read.          *)
(***************************************************************************)
EXTENDS Integers, Sequences, FiniteSets, FiniteSetsExt

CONSTANTS
    Documents, \* bound: the papers
    NoDocument,
    Look,      \* chars, letters, tokens, caps and generic, of each heading
    TypeOf,    \* SECTION_PATTERNS: the type of each heading
    MaxSpans,  \* fallback_section_max_spans
    MaxChars   \* fallback_section_max_chars

\* The parts of a document are lists.
ASSUME DocumentsAssumption ==
    \A doc \in Documents :
        /\ doc.kind \in {"tei", "pdf", "artifact"}
        /\ doc.kind = "tei" =>
               /\ doc.abstract \in Seq(Nat)
               /\ Len(doc.divs) \in Nat /\ DOMAIN doc.divs = 1..Len(doc.divs)
               /\ doc.paragraphs \in Seq([div : Nat, chars : Nat])
        /\ doc.kind = "pdf" => doc.pages \in Seq(Seq(Nat))
        /\ doc.kind = "artifact" =>
               Len(doc.spans) \in Nat /\ DOMAIN doc.spans = 1..Len(doc.spans)

VARIABLES
    inventoryPhase, \* "paper", "spans", "sections"
    document,
    allSpans, \* spans of the paper
    nextSpan, \* place of the one the loop has come to
    current,  \* the section being collected
    chunks,   \* fallback_counter
    sections

inventoryVars ==
    <<inventoryPhase, document, allSpans, nextSpan, current, chunks, sections>>

Span(name, type, page, chars) ==
    [name |-> name, type |-> type, page |-> page, chars |-> chars,
     blank |-> chars = 0]

\* Places in a paper, in reading order.
Before(p, q) == p[1] < q[1] \/ (p[1] = q[1] /\ p[2] < q[2])
InReadingOrder(places) ==
    [n \in 1..Cardinality(places) |->
        CHOOSE p \in places : Cardinality({q \in places : Before(q, p)}) = n - 1]

-----------------------------------------------------------------------------
(* tei_parser.py: paragraphs without text make no span.                    *)

\* extract_spans: the abstract, then of every division all paragraphs in it,
\* those of the divisions it contains too, which come again with these.
\* What is in the body outside of all divisions is not read.
InDiv(doc, d) ==
    LET inside == {e \in DOMAIN doc.divs : e = d \/ doc.divs[e].parent = d}
    IN  {i \in DOMAIN doc.paragraphs :
            doc.paragraphs[i].div \in inside /\ doc.paragraphs[i].chars > 0}
TeiPlaces(doc) ==
    ({0} \X {i \in DOMAIN doc.abstract : doc.abstract[i] > 0})
    \union {p \in (DOMAIN doc.divs) \X (DOMAIN doc.paragraphs) : p[2] \in InDiv(doc, p[1])}
TeiSpan(doc, p) ==
    IF p[1] = 0 THEN Span("Abstract", "ABSTRACT", 0, doc.abstract[p[2]])
    ELSE LET head == doc.divs[p[1]].head
         IN  Span(head, TypeOf[head], 0, doc.paragraphs[p[2]].chars)
TeiSpans(doc) ==
    LET places == InReadingOrder(TeiPlaces(doc))
    IN  [n \in DOMAIN places |-> TeiSpan(doc, places[n])]

\* extract_text_spans_from_pdf: every page is a heading of its own.
PageNames == <<"Page 1", "Page 2", "Page 3">>
PdfPlaces(doc) ==
    UNION {{p} \X {i \in DOMAIN doc.pages[p] : doc.pages[p][i] > 0} :
               p \in DOMAIN doc.pages}
PdfSpans(doc) ==
    LET places == InReadingOrder(PdfPlaces(doc))
    IN  [n \in DOMAIN places |->
            Span(PageNames[places[n][1]], "OTHER", places[n][1],
                 doc.pages[places[n][1]][places[n][2]])]

\* _artifact_from_pdf, _artifact_from_tei_xml, run_from_artifact_json: only the
\* last brings spans without text.
SpansOf(doc) ==
    CASE doc.kind = "tei" -> TeiSpans(doc)
      [] doc.kind = "pdf" -> PdfSpans(doc)
      [] doc.kind = "artifact" -> doc.spans

-----------------------------------------------------------------------------
(* section_inventory.py                                                    *)

\* assess_section_title: the type stands in for a missing name.
NameOf(s) == IF s.name # "" THEN s.name
             ELSE IF s.type # "" THEN s.type ELSE "Unlabeled Section"
KeyOf(s) == <<IF s.type = "" THEN "OTHER" ELSE s.type, NameOf(s)>>
Reliable(s) ==
    LET name == Look[NameOf(s)]
    IN  /\ NameOf(s) # "Unlabeled Section"
        /\ name.chars > 3
        /\ name.letters >= 3
        /\ ~(name.tokens = 1 /\ name.chars <= 4)
        /\ name.tokens <= 12
        /\ KeyOf(s)[1] = "OTHER" => ~(name.tokens = 1 /\ name.caps) /\ ~name.generic
ModeOf(s) == IF Reliable(s) THEN "trusted" ELSE "fallback"

NoSection == [mode |-> "trusted", key |-> << >>, chunk |-> 0, title |-> << >>,
              spans |-> {}]
\* The characters of the spans at some places, each counted by its own place.
CharsOf(spans) ==
    Cardinality(UNION {{i} \X (1..allSpans[i].chars) : i \in spans})
PagesOf(spans) == {allSpans[i].page : i \in spans} \ {0}

\* _fallback_section_name: a chunk is called by its number and its pages.
TitleOf(section) ==
    IF section.mode = "trusted" THEN <<section.key[2]>>
    ELSE LET pages == PagesOf(section.spans)
         IN  <<"fallback_section", section.chunk,
               IF pages = {} THEN {} ELSE {Min(pages), Max(pages)}>>

\* flush: what has no text at all is dropped.
Flushed(section) ==
    IF \A i \in section.spans : allSpans[i].blank THEN sections
    ELSE Append(sections, [section EXCEPT !.title = TitleOf(section)])

WithinLimits(spans) ==
    Cardinality(spans) <= MaxSpans /\ CharsOf(spans) <= MaxChars
\* fallback_limit_hit: the next span would be too many, or too long.
LimitHit == ~WithinLimits(current.spans \union {nextSpan})
\* Mutant: only the heading ends a chunk.
CutByHeading(s) ==
    /\ current.spans # {}
    /\ current.mode # ModeOf(s) \/ current.key # KeyOf(s)
\* The section in hand ends before the span s.
Cut(s) ==
    /\ current.spans # {}
    /\ \/ current.mode # ModeOf(s)
       \/ current.key # KeyOf(s)
       \/ current.mode = "fallback" /\ LimitHit

-----------------------------------------------------------------------------
InventoryInit ==
    /\ inventoryPhase = "paper"
    /\ allSpans = << >>
    /\ nextSpan = 1
    /\ current = NoSection
    /\ chunks = 0
    /\ sections = << >>

Parse ==
    /\ inventoryPhase = "paper"
    /\ document # NoDocument
    /\ allSpans' = SpansOf(document)
    /\ inventoryPhase' = "spans"
    /\ UNCHANGED <<document, nextSpan, current, chunks, sections>>

\* One round of the loop, with start_trusted_section, start_fallback_chunk.
ReadSpan ==
    /\ inventoryPhase = "spans"
    /\ nextSpan <= Len(allSpans)
    /\ LET s == allSpans[nextSpan]
           starts == Cut(s) \/ current.spans = {}
           begun == [mode |-> ModeOf(s), key |-> KeyOf(s), chunk |-> chunks',
                     title |-> << >>, spans |-> {}]
       IN  /\ sections' = IF Cut(s) THEN Flushed(current) ELSE sections
           /\ chunks' = IF starts /\ ~Reliable(s) THEN chunks + 1 ELSE chunks
           /\ current' = [(IF starts THEN begun ELSE current)
                              EXCEPT !.spans = @ \union {nextSpan}]
    /\ nextSpan' = nextSpan + 1
    /\ UNCHANGED <<inventoryPhase, document, allSpans>>

EndInventory ==
    /\ inventoryPhase = "spans"
    /\ nextSpan > Len(allSpans)
    /\ sections' = Flushed(current)
    /\ current' = NoSection
    /\ inventoryPhase' = "sections"
    /\ UNCHANGED <<document, allSpans, nextSpan, chunks>>

InventoryNext == Parse \/ ReadSpan \/ EndInventory

InventorySpec ==
    /\ document \in Documents \union {NoDocument}
    /\ InventoryInit
    /\ [][InventoryNext]_inventoryVars

-----------------------------------------------------------------------------
(* Properties.                                                             *)

\* The sections hold every span with text exactly once and in its order, each
\* under one heading; a chunk is within its limits, unless one span is too
\* long for them, and has a title of its own; no heading that is trusted is cut.
SectionsHoldTheText ==
    inventoryPhase = "sections" =>
        /\ \A i \in DOMAIN allSpans :
               allSpans[i].blank \/ \E n \in DOMAIN sections : i \in sections[n].spans
        /\ \A n, k \in DOMAIN sections : n < k =>
               \A i \in sections[n].spans : \A j \in sections[k].spans : i < j
        /\ \A n \in DOMAIN sections :
               /\ \A i \in sections[n].spans : KeyOf(allSpans[i]) = sections[n].key
               /\ sections[n].mode = "fallback" /\ Cardinality(sections[n].spans) > 1 =>
                      WithinLimits(sections[n].spans)
        /\ \A n, k \in DOMAIN sections :
               n # k /\ sections[n].mode = "fallback" =>
                   sections[n].title # sections[k].title
        /\ \A n \in 1..(Len(sections) - 1) :
               sections[n].mode = "trusted" /\ (\A i \in DOMAIN allSpans : ~allSpans[i].blank)
               => sections[n].key # sections[n + 1].key

=============================================================================
