----------------------------- MODULE PaperRunner -----------------------------
(***************************************************************************)
(* Runs of the paper pipelines of miner/v0 and miner/section_context_v1    *)
(* into one directory, one after the other: a run checks that what is      *)
(* there is of its paper, extracts, and writes its files in place, one     *)
(* after the other.  A process may die between any two steps and in the    *)
(* middle of a file; the next run starts with what it left.                *)
(***************************************************************************)
EXTENDS AbstractExtraction

CONSTANTS
    Papers,  \* papers that are given the directory
    NoPaper, \* stands for none
    MaxRuns, \* bound: runs
    InputsOf \* bound: what each run may be given, [pipeline, sections]

ASSUME RunnerAssumption ==
    /\ MaxRuns \in Nat
    /\ NoPaper \notin Papers
    /\ \A r \in 1..MaxRuns : \A input \in InputsOf[r] :
          /\ input.pipeline \in Pipelines
          /\ input.sections \in Seq(SectionTypes)

VARIABLES
    run,    \* number of the run
    paper,  \* its paper
    next,   \* the file it writes next
    dir     \* what each file of the directory holds

runnerVars == <<run, paper, next, dir>>
vars == <<sectionVars, abstractVars, runnerVars>>

\* Mutant: the manifest is written before what it tells of.
ManifestFirst == <<"tei.xml", "artifact.json", "manifest.json",
                   "section_context_v1_output.json", "extracted_claims.csv">>
\* In the order they are written.
FileNames == <<"tei.xml", "artifact.json", "section_context_v1_output.json",
               "extracted_claims.csv", "manifest.json">>
Guarded == {"artifact.json", "section_context_v1_output.json", "manifest.json"}
NoFile == [state |-> "absent", run |-> 0, paper |-> NoPaper]
File(state) == [state |-> state, run |-> run, paper |-> paper]
Whole(f) == dir[f].state = "whole"

Init ==
    /\ pipeline = "v0"
    /\ phase = "idle"
    /\ todo = {}
    /\ answer = NoAnswer
    /\ issues = 0
    /\ output = NoOutput
    /\ sections = << >>
    /\ claims = << >>
    /\ candidates = << >>
    /\ analyzed = << >>
    /\ run = 0
    /\ paper = NoPaper
    /\ next = 0
    /\ dir = [f \in Range(FileNames) |-> NoFile]

\* Mutant: it looks at the manifest only.
CompatibleManifest(p) == Whole("manifest.json") => dir["manifest.json"].paper = p
\* _assert_output_dir_compatible looks at the files that parse.
Compatible(p) == \A f \in Guarded : Whole(f) => dir[f].paper = p

\* run_from_pdf, run_from_tei_xml, run_from_artifact_json and what
\* run_from_artifact does first.
StartRun ==
    /\ phase = "idle"
    /\ run < MaxRuns
    /\ run' = run + 1
    /\ paper' \in Papers
    /\ \E input \in InputsOf[run'] : /\ pipeline' = input.pipeline
                                     /\ sections' = input.sections
    /\ phase' = IF Compatible(paper') THEN "started" ELSE "raised"
    /\ UNCHANGED <<todo, answer, issues, output, claims, candidates, analyzed,
                   next, dir>>

Extract ==
    /\ \/ SectionNext /\ UNCHANGED abstractVars
       \/ AbstractNext
    /\ UNCHANGED runnerVars

\* Nothing of the extraction is kept once its files are written or lost.
Forget ==
    /\ todo' = {}
    /\ answer' = NoAnswer
    /\ issues' = 0
    /\ output' = NoOutput
    /\ sections' = << >>
    /\ claims' = << >>
    /\ candidates' = << >>
    /\ analyzed' = << >>

\* Only an input that was a TEI file, or made one of it, is copied to the
\* directory.
BeginWrites ==
    /\ phase = "extracted"
    /\ phase' = "writing"
    /\ next' \in {1, 2}
    /\ Forget
    /\ UNCHANGED <<pipeline, run, paper, dir>>

\* write_text opens a file, which empties it, and then writes it.
BeginFile ==
    /\ phase = "writing"
    /\ phase' = "in file"
    /\ dir' = [dir EXCEPT ![FileNames[next]] = File("torn")]
    /\ UNCHANGED <<pipeline, todo, answer, issues, output, run, paper,
                   next>>
    /\ UNCHANGED abstractVars

EndFile ==
    /\ phase = "in file"
    /\ dir' = [dir EXCEPT ![FileNames[next]] = File("whole")]
    /\ next' = IF next = Len(FileNames) THEN 0 ELSE next + 1
    /\ phase' = IF next = Len(FileNames) THEN "idle" ELSE "writing"
    /\ UNCHANGED <<pipeline, todo, answer, issues, output, run, paper>>
    /\ UNCHANGED abstractVars

\* The run ends in an exception.
Raise ==
    /\ phase = "raised"
    /\ phase' = "idle"
    /\ Forget
    /\ UNCHANGED <<pipeline, run, paper, next, dir>>

\* The process dies, or a write raises: what is in the directory stays.
Crash ==
    /\ phase \notin {"idle", "raised"}
    /\ phase' = "idle"
    /\ next' = 0
    /\ Forget
    /\ UNCHANGED <<pipeline, run, paper, dir>>

Next ==
    \/ StartRun \/ Extract \/ BeginWrites \/ BeginFile \/ EndFile \/ Raise
    \/ Crash
Spec == Init /\ [][Next]_vars

-----------------------------------------------------------------------------
(* Properties.                                                             *)

\* An output never refers to what is not in it, and a section's claims are not
\* in it without evidence: filtering, the gates and the profiles of
\* section_gating.py agree on what they leave.
OutputIsLinked ==
    /\ \A l \in output.links : l[1] \in output.claims /\ l[2] \in output.evidence
    /\ pipeline # "abstract" =>
          \A c \in output.claims : \E l \in output.links : l[1] = c
    /\ pipeline = "v0" =>
          \A e \in output.evidence : \E l \in output.links : l[2] = e

\* The linker sees a candidate that scores highest for a claim, whatever the
\* analyzer answers: selection, analysis and its retry lose none.
BestCandidateReachesTheLinker ==
    phase \in {"linking", "linking retry", "linked"} =>
        \A i \in DOMAIN claims : \E best \in DOMAIN analyzed :
            \A c \in DOMAIN candidates :
                Shared(claims[i], c) <= Shared(claims[i], best)

\* The JSON files of the directory that are whole are of one paper, whichever
\* runs died while writing it; so is what else there is once a whole manifest
\* is.  Without one, the table may be of another paper: nothing looks at it.
DirectoryIsOfOnePaper ==
    /\ \A f, g \in Guarded : Whole(f) /\ Whole(g) => dir[f].paper = dir[g].paper
    /\ Whole("manifest.json") =>
          \A f \in Range(FileNames) \ {"tei.xml"} :
              dir[f].paper = dir["manifest.json"].paper

\* A manifest never tells of a run whose other files are not all there: each
\* is of that run or of one that began to replace it.
ManifestIsNeverAhead ==
    Whole("manifest.json") =>
        \A f \in Range(FileNames) \ {"tei.xml"} :
            dir[f].run >= dir["manifest.json"].run

\* The evidence a link of the output is about is the evidence the linker
\* named: "zero-based index into your returned evidence_items".
LinksFollowTheAnswer ==
    phase = "extracted" /\ pipeline = "abstract" =>
        \A l \in output.links : <<l[1][2], l[2][2]>> \in Meant(answer)

=============================================================================
