-------------------------- MODULE PaperRunnerProofs --------------------------
(***************************************************************************)
(* Theorems about the paper pipelines: what the directory of a paper holds *)
(* after any number of runs that died anywhere, what an output refers to,  *)
(* and what the linker of the abstract mode gets to see.                   *)
(***************************************************************************)
EXTENDS PaperRunner, FiniteSetTheorems, WellFoundedInduction, TLAPS

Files == Range(FileNames)
Output == Files \ {"tei.xml"}

-----------------------------------------------------------------------------
(* The directory.                                                          *)

DirTypeInv ==
    /\ run \in Nat
    /\ next \in 0..5
    /\ phase \in {"writing", "in file"} => next \in 1..5
    /\ DOMAIN dir = Files
    /\ \A f \in Files : dir[f].run \in Nat /\ dir[f].run <= run

\* While a run is under way, the JSON files that are whole are of its paper.
PaperInv ==
    /\ \A f, g \in Guarded : Whole(f) /\ Whole(g) => dir[f].paper = dir[g].paper
    /\ phase \notin {"idle", "raised"} =>
          \A f \in Guarded : Whole(f) => dir[f].paper = paper

\* The files before the next one are written; and a whole manifest is not ahead
\* of any file, nor of another paper.
WrittenInv ==
    /\ phase \in {"writing", "in file"} =>
          \A i \in 2..5 : i < next => dir[FileNames[i]] = File("whole")
    /\ Whole("manifest.json") =>
          \A f \in Output : /\ dir[f].paper = dir["manifest.json"].paper
                            /\ dir[f].run >= dir["manifest.json"].run

DirInv == DirTypeInv /\ PaperInv /\ WrittenInv

\* The names of the files, by number.
LEMMA FileFacts ==
    /\ Len(FileNames) = 5
    /\ FileNames[1] = "tei.xml" /\ FileNames[2] = "artifact.json"
    /\ FileNames[3] = "section_context_v1_output.json"
    /\ FileNames[4] = "extracted_claims.csv" /\ FileNames[5] = "manifest.json"
    /\ Files = {"tei.xml", "artifact.json", "section_context_v1_output.json",
                "extracted_claims.csv", "manifest.json"}
    /\ Output = {FileNames[i] : i \in 2..5}
    /\ \A i \in 1..5 : FileNames[i] \in Files
    /\ \A i, j \in 1..5 : FileNames[i] = FileNames[j] => i = j
    /\ Guarded \subseteq Output
  <1>1. /\ Len(FileNames) = 5 /\ DOMAIN FileNames = 1..5
        /\ FileNames[1] = "tei.xml" /\ FileNames[2] = "artifact.json"
        /\ FileNames[3] = "section_context_v1_output.json"
        /\ FileNames[4] = "extracted_claims.csv" /\ FileNames[5] = "manifest.json"
    BY DEF FileNames
  <1>2. 1..5 = {1, 2, 3, 4, 5} /\ 2..5 = {2, 3, 4, 5}
    OBVIOUS
  <1> HIDE DEF FileNames
  <1>3. Files = {"tei.xml", "artifact.json", "section_context_v1_output.json",
                 "extracted_claims.csv", "manifest.json"}
    BY <1>1, <1>2 DEF Files, Range
  <1>4. Output = {"artifact.json", "section_context_v1_output.json",
                  "extracted_claims.csv", "manifest.json"}
    BY <1>3 DEF Output
  <1>5. Output = {FileNames[i] : i \in 2..5}
    BY <1>1, <1>2, <1>4
  <1> QED
    BY <1>1, <1>2, <1>3, <1>4, <1>5 DEF Guarded

\* A step of an extraction is between the start of a run and its files.
LEMMA ExtractEffect ==
    ASSUME Extract
    PROVE  /\ phase \notin {"idle", "raised", "extracted", "writing", "in file"}
           /\ phase' \notin {"idle", "started", "writing", "in file"}
           /\ UNCHANGED <<run, paper, next, dir, pipeline>>
  <1>1. UNCHANGED <<run, paper, next, dir>>
    BY DEF Extract, runnerVars
  <1>2. CASE SectionNext
    BY <1>1, <1>2 DEF SectionNext, SummarizeSections, SummarizePaper, Plan, Draft,
       Feedback, RepairUnusable, Repair, Retry, Gate, CallFails
  <1>3. CASE AbstractNext
    BY <1>1, <1>3 DEF AbstractNext, FindAbstract, ExtractClaims, RetryClaims,
       FindCandidates, Analyze, RetryAnalysis, Link, RetryLink,
       MaterializeLinked, AbstractCallFails
  <1> QED
    BY <1>2, <1>3 DEF Extract

\* A directory starts without files.
LEMMA DirInit == Init => DirInv
  <1> SUFFICES ASSUME Init PROVE DirInv
    OBVIOUS
  <1>1. /\ run = 0 /\ next = 0 /\ phase = "idle"
        /\ dir = [f \in Files |-> NoFile]
    BY DEF Init, Files
  <1>2. \A f \in Files : dir[f].run = 0 /\ dir[f].state = "absent"
    BY <1>1 DEF NoFile
  <1>3. \A f \in Files : ~Whole(f)
    BY <1>2 DEF Whole
  <1> QED
    BY <1>1, <1>2, <1>3, FileFacts DEF DirInv, DirTypeInv, PaperInv, WrittenInv,
       Output

\* A file is put into the directory, torn or whole, in place of another.
LEMMA PutFile ==
    ASSUME DirTypeInv, NEW n \in Files, NEW state, dir' = [dir EXCEPT ![n] = File(state)]
    PROVE  /\ DOMAIN dir' = Files
           /\ dir'[n] = File(state) /\ dir'[n].state = state
           /\ dir'[n].run = run /\ dir'[n].paper = paper
           /\ \A f \in Files : f # n => dir'[f] = dir[f]
           /\ \A f \in Files : dir'[f].run \in Nat /\ dir'[f].run <= run
  <1>1. /\ DOMAIN dir' = Files /\ dir'[n] = File(state)
        /\ \A f \in Files : f # n => dir'[f] = dir[f]
    BY DEF DirTypeInv
  <1>2. File(state).state = state /\ File(state).run = run
           /\ File(state).paper = paper
    BY DEF File
  <1>3. run \in Nat /\ \A f \in Files : dir[f].run \in Nat /\ dir[f].run <= run
    BY DEF DirTypeInv
  <1>4. \A f \in Files : dir'[f].run \in Nat /\ dir'[f].run <= run
    <2> SUFFICES ASSUME NEW f \in Files
                 PROVE  dir'[f].run \in Nat /\ dir'[f].run <= run
      OBVIOUS
    <2>1. CASE f = n
      BY <1>1, <1>2, <1>3, <2>1
    <2>2. CASE f # n
      BY <1>1, <1>3, <2>2
    <2> QED
      BY <2>1, <2>2
  <1> QED
    BY <1>1, <1>2, <1>4

\* Opening the next file keeps the directory in order.
LEMMA BeginFileStep ==
    ASSUME DirInv, BeginFile PROVE DirInv'
  <1> DEFINE n == FileNames[next]
  <1>1. /\ phase = "writing" /\ phase' = "in file"
        /\ run' = run /\ paper' = paper /\ next' = next
        /\ dir' = [dir EXCEPT ![n] = File("torn")]
    BY DEF BeginFile
  <1>2. DirTypeInv /\ PaperInv /\ WrittenInv
    BY DEF DirInv
  <1>3. next \in 1..5 /\ n \in Files
    BY <1>1, <1>2, FileFacts DEF DirTypeInv
  <1>4. \A i \in 2..5 : i < next => FileNames[i] # n /\ FileNames[i] \in Files
    BY <1>3, FileFacts
  <1> HIDE DEF n
  <1>5. /\ DOMAIN dir' = Files
        /\ dir'[n].state = "torn" /\ dir'[n].run = run /\ dir'[n].paper = paper
        /\ \A f \in Files : f # n => dir'[f] = dir[f]
        /\ \A f \in Files : dir'[f].run \in Nat /\ dir'[f].run <= run
    BY <1>1, <1>2, <1>3, PutFile
  <1>6. \A f \in Files : Whole(f)' => f # n /\ Whole(f) /\ dir'[f] = dir[f]
    BY <1>5 DEF Whole
  <1>7. Guarded \subseteq Files /\ Output \subseteq Files
           /\ "manifest.json" \in Guarded
    BY FileFacts DEF Output, Guarded
  <1>8. DirTypeInv'
    BY <1>1, <1>2, <1>3, <1>5 DEF DirTypeInv
  <1>9. PaperInv'
    <2>1. \A f, g \in Guarded : Whole(f)' /\ Whole(g)' => dir'[f].paper = dir'[g].paper
      BY <1>2, <1>6, <1>7 DEF PaperInv
    <2>2. \A f \in Guarded : Whole(f)' => dir'[f].paper = paper
      BY <1>1, <1>2, <1>6, <1>7 DEF PaperInv
    <2> QED
      BY <1>1, <2>1, <2>2 DEF PaperInv
  <1>10. WrittenInv'
    <2>1. \A i \in 2..5 : i < next => dir'[FileNames[i]] = File("whole")
      BY <1>1, <1>2, <1>4, <1>5 DEF WrittenInv
    <2>2. ASSUME Whole("manifest.json")', NEW f \in Output
          PROVE  /\ dir'[f].paper = dir'["manifest.json"].paper
                 /\ dir'[f].run >= dir'["manifest.json"].run
      <3>1. Whole("manifest.json") /\ dir'["manifest.json"] = dir["manifest.json"]
        BY <1>6, <1>7, <2>2
      <3>2. CASE f = n
        <4>1. dir["manifest.json"].paper = paper
          BY <1>1, <1>2, <1>7, <3>1 DEF PaperInv
        <4>2. dir["manifest.json"].run \in Nat /\ dir["manifest.json"].run <= run
          BY <1>2, <1>7 DEF DirTypeInv
        <4>3. run \in Nat
          BY <1>2 DEF DirTypeInv
        <4> QED
          BY <1>5, <3>1, <3>2, <4>1, <4>2, <4>3
      <3>3. CASE f # n
        BY <1>2, <1>5, <1>7, <3>1, <3>3 DEF WrittenInv
      <3> QED
        BY <3>2, <3>3
    <2> QED
      BY <1>1, <2>1, <2>2 DEF WrittenInv, File
  <1> QED
    BY <1>8, <1>9, <1>10 DEF DirInv

\* So does closing it.
LEMMA EndFileStep ==
    ASSUME DirInv, EndFile PROVE DirInv'
  <1> DEFINE n == FileNames[next]
  <1>1. /\ phase = "in file"
        /\ run' = run /\ paper' = paper
        /\ dir' = [dir EXCEPT ![n] = File("whole")]
        /\ next' = IF next = 5 THEN 0 ELSE next + 1
        /\ phase' = IF next = 5 THEN "idle" ELSE "writing"
    BY FileFacts DEF EndFile
  <1>2. DirTypeInv /\ PaperInv /\ WrittenInv
    BY DEF DirInv
  <1>3. next \in 1..5 /\ n \in Files
    BY <1>1, <1>2, FileFacts DEF DirTypeInv
  <1>4. \A i \in 2..5 : i < next => FileNames[i] # n /\ FileNames[i] \in Files
    BY <1>3, FileFacts
  <1>5. /\ n = "manifest.json" => next = 5
        /\ \A i \in 2..5 : i = next => FileNames[i] = n
    BY <1>3, FileFacts
  <1> HIDE DEF n
  <1>6. /\ DOMAIN dir' = Files
        /\ dir'[n] = File("whole") /\ dir'[n].state = "whole"
        /\ dir'[n].run = run /\ dir'[n].paper = paper
        /\ \A f \in Files : f # n => dir'[f] = dir[f]
        /\ \A f \in Files : dir'[f].run \in Nat /\ dir'[f].run <= run
    BY <1>1, <1>2, <1>3, PutFile
  <1>7. \A f \in Files : f # n => Whole(f)' = Whole(f) /\ dir'[f] = dir[f]
    BY <1>6 DEF Whole
  <1>8. Guarded \subseteq Files /\ Output \subseteq Files
           /\ "manifest.json" \in Guarded
    BY FileFacts DEF Output, Guarded
  <1>9. DirTypeInv'
    <2>1. next' \in 0..5 /\ (phase' = "writing" => next' \in 1..5)
      <3>1. CASE next = 5
        <4>1. next' = 0 /\ phase' = "idle"
          BY <1>1, <3>1
        <4> QED
          BY <4>1
      <3>2. CASE next # 5
        <4>1. next' = next + 1
          BY <1>1, <3>2
        <4> QED
          BY <1>3, <3>2, <4>1
      <3> QED
        BY <3>1, <3>2
    <2>2. run \in Nat /\ phase' # "in file"
      BY <1>1, <1>2 DEF DirTypeInv
    <2> QED
      BY <1>1, <1>6, <2>1, <2>2 DEF DirTypeInv
  <1>10. PaperInv'
    <2>1. \A f \in Guarded : Whole(f)' => dir'[f].paper = paper
      BY <1>1, <1>2, <1>6, <1>7, <1>8 DEF PaperInv
    <2> QED
      BY <1>1, <2>1 DEF PaperInv
  <1>11. ASSUME next # 5, NEW i \in 2..5, i < next'
         PROVE  dir'[FileNames[i]] = File("whole")
    <2>1. i < next \/ i = next
      <3>1. next' = next + 1
        BY <1>1, <1>11
      <3> QED
        BY <1>3, <1>11, <3>1
    <2> QED
      BY <1>1, <1>2, <1>4, <1>5, <1>6, <2>1 DEF WrittenInv
  <1>12. ASSUME Whole("manifest.json")', NEW f \in Output
         PROVE  /\ dir'[f].paper = dir'["manifest.json"].paper
                /\ dir'[f].run >= dir'["manifest.json"].run
    <2>1. run \in Nat
      BY <1>2 DEF DirTypeInv
    <2>2. CASE n = "manifest.json"
      <3>1. PICK i \in 2..5 : f = FileNames[i]
        BY FileFacts
      <3>2. i < next \/ f = n
        BY <1>5, <2>2, <3>1
      <3>3. dir'[f] = File("whole")
        BY <1>1, <1>2, <1>4, <1>6, <3>1, <3>2 DEF WrittenInv
      <3> QED
        BY <1>6, <2>1, <2>2, <3>3
    <2>3. CASE n # "manifest.json"
      <3>1. Whole("manifest.json") /\ dir'["manifest.json"] = dir["manifest.json"]
        BY <1>7, <1>8, <1>12, <2>3
      <3>2. CASE f = n
        <4>1. dir["manifest.json"].paper = paper
          BY <1>1, <1>2, <1>8, <3>1 DEF PaperInv
        <4>2. dir["manifest.json"].run \in Nat /\ dir["manifest.json"].run <= run
          BY <1>2, <1>8 DEF DirTypeInv
        <4> QED
          BY <1>6, <2>1, <3>1, <3>2, <4>1, <4>2
      <3>3. CASE f # n
        BY <1>2, <1>6, <1>8, <3>1, <3>3 DEF WrittenInv
      <3> QED
        BY <3>2, <3>3
    <2> QED
      BY <2>2, <2>3
  <1>13. WrittenInv'
    BY <1>1, <1>11, <1>12 DEF WrittenInv, File
  <1> QED
    BY <1>9, <1>10, <1>13 DEF DirInv

\* A step keeps the directory in order.
LEMMA DirStep ==
    ASSUME DirInv, [Next]_vars PROVE DirInv'
  <1>1. CASE StartRun
    <2>1. /\ run \in Nat /\ run' = run + 1
          /\ phase' \in {"started", "raised"}
          /\ UNCHANGED <<next, dir>>
      BY <1>1 DEF StartRun, DirInv, DirTypeInv
    <2>2. phase' = "started" => \A f \in Guarded : Whole(f) => dir[f].paper = paper'
      BY <1>1 DEF StartRun, Compatible
    <2>3. \A f \in Files : dir[f].run \in Nat /\ dir[f].run <= run + 1
      <3>1. \A f \in Files : dir[f].run \in Nat /\ dir[f].run <= run
        BY DEF DirInv, DirTypeInv
      <3> QED
        BY <2>1, <3>1
    <2>4. DirTypeInv'
      <3>1. next \in 0..5 /\ DOMAIN dir = Files
        BY DEF DirInv, DirTypeInv
      <3>2. run + 1 \in Nat
        BY <2>1
      <3>3. phase' \notin {"writing", "in file"}
        BY <2>1
      <3>4. /\ run' \in Nat /\ next' \in 0..5 /\ DOMAIN dir' = Files
            /\ \A f \in Files : dir'[f].run \in Nat /\ dir'[f].run <= run'
        BY <2>1, <2>3, <3>1, <3>2
      <3> QED
        BY <3>3, <3>4 DEF DirTypeInv
    <2>5. PaperInv'
      BY <2>1, <2>2 DEF DirInv, PaperInv, Whole
    <2>6. WrittenInv'
      BY <2>1 DEF DirInv, WrittenInv, Whole
    <2> QED
      BY <2>4, <2>5, <2>6 DEF DirInv
  <1>2. CASE Extract
    BY <1>2, ExtractEffect DEF Whole, File, DirInv, DirTypeInv, PaperInv, WrittenInv
  <1>3. CASE BeginWrites
    BY <1>3, FileFacts DEF BeginWrites, Whole, File, DirInv, DirTypeInv, PaperInv,
       WrittenInv
  <1>4. CASE BeginFile
    BY <1>4, BeginFileStep
  <1>5. CASE EndFile
    BY <1>5, EndFileStep
  <1>6. CASE Raise
    BY <1>6 DEF Raise, Whole, DirInv, DirTypeInv, PaperInv, WrittenInv
  <1>7. CASE Crash
    <2>1. /\ phase' = "idle" /\ next' = 0 /\ UNCHANGED <<run, paper, dir>>
      BY <1>7 DEF Crash
    <2>2. DirTypeInv'
      <3>1. next' \in 0..5 /\ phase' \notin {"writing", "in file"}
        BY <2>1
      <3>2. /\ run \in Nat /\ DOMAIN dir = Files
            /\ \A f \in Files : dir[f].run \in Nat /\ dir[f].run <= run
        BY DEF DirInv, DirTypeInv
      <3> QED
        BY <2>1, <3>1, <3>2 DEF DirTypeInv
    <2>3. PaperInv' /\ WrittenInv'
      BY <2>1 DEF DirInv, PaperInv, WrittenInv, Whole
    <2> QED
      BY <2>2, <2>3 DEF DirInv
  <1>8. CASE UNCHANGED vars
    BY <1>8 DEF vars, sectionVars, runnerVars, Whole, File, DirInv, DirTypeInv,
       PaperInv, WrittenInv
  <1> QED
    BY <1>1, <1>2, <1>3, <1>4, <1>5, <1>6, <1>7, <1>8 DEF Next

\* The invariant of the directory holds in every reachable state.
THEOREM DirInvariant == Spec => []DirInv
  BY DirInit, DirStep, PTL DEF Spec

\* Whichever of any number of runs died at any point: the JSON files that are
\* whole are of one paper, and all files are when the manifest is whole.
THEOREM OnePaperTheorem == Spec => []DirectoryIsOfOnePaper
  <1>1. DirInv => DirectoryIsOfOnePaper
    BY DEF DirInv, PaperInv, WrittenInv, DirectoryIsOfOnePaper, Output, Files
  <1> QED
    BY <1>1, DirInvariant, PTL

\* The manifest never tells of a run whose other files were not written.
THEOREM ManifestTheorem == Spec => []ManifestIsNeverAhead
  <1>1. DirInv => ManifestIsNeverAhead
    BY DEF DirInv, WrittenInv, ManifestIsNeverAhead, Output, Files
  <1> QED
    BY <1>1, DirInvariant, PTL

-----------------------------------------------------------------------------
(* What an output refers to.                                               *)

IsList(s) == Len(s) \in Nat /\ DOMAIN s = 1..Len(s)

Linked(o, p) ==
    /\ \A l \in o.links : l[1] \in o.claims /\ l[2] \in o.evidence
    /\ p # "abstract" => \A c \in o.claims : \E l \in o.links : l[1] = c
    /\ p = "v0" => \A e \in o.evidence : \E l \in o.links : l[2] = e

AfterClaims == {"claims retry", "candidates", "analysis", "analysis retry",
                "linking", "linking retry", "linked"}

LinkInv ==
    /\ Linked(output, pipeline)
    /\ phase \in {"idle", "writing", "in file"} => output = NoOutput
    /\ phase \in AfterClaims \union {"claims"} => pipeline = "abstract"
    /\ phase \in AfterClaims => IsList(claims)
    /\ phase \in {"linking retry", "linked"} =>
          /\ answer.links \subseteq Indices \X Indices
          /\ IsFiniteSet(DOMAIN answer.evidence)

\* A sequence given by its items is a list of that length.
LEMMA ListFacts ==
    ASSUME NEW k \in Nat, NEW f, f = [i \in 1..k |-> f[i]]
    PROVE  Len(f) = k /\ IsList(f)
  <1>1. f \in [1..k -> {f[i] : i \in 1..k}]
    OBVIOUS
  <1>2. \A S : \A g \in [1..k -> S] : Len(g) = k /\ DOMAIN g = 1..k
    OBVIOUS
  <1> QED
    BY <1>1, <1>2 DEF IsList

\* The positions of a list are finitely many.
LEMMA ListsAreFinite == \A m \in Nat : IsFiniteSet(1..m)
  BY FS_Interval

\* The lists of an answer are sequences over its items, the empty one among them.
LEMMA BoundedSeqFacts ==
    ASSUME NEW S, NEW n \in Nat, NEW s \in BoundedSeq(S, n)
    PROVE  /\ \E m \in Nat : s \in [1..m -> S]
           /\ IsFiniteSet(DOMAIN s)
  <1>1. PICK m \in 0..n : s \in [1..m -> S]
    BY DEF BoundedSeq, SeqOf
  <1>2. m \in Nat /\ DOMAIN s = 1..m
    BY <1>1
  <1>3. IsFiniteSet(1..m)
    BY <1>2, FS_Interval
  <1> QED
    BY <1>1, <1>2, <1>3

\* Indices put in order are a sequence of just these.
LEMMA InOrderFacts ==
    ASSUME NEW P, IsFiniteSet(P)
    PROVE  /\ IsList(InOrder(P)) /\ Len(InOrder(P)) = Cardinality(P)
           /\ Cardinality(P) \in Nat
  <1>1. Cardinality(P) \in Nat
    BY FS_CardinalityType
  <1> DEFINE at(n) == CHOOSE i \in P : Cardinality({j \in P : j < i}) = n - 1
  <1>2. InOrder(P) = [n \in 1..Cardinality(P) |-> at(n)]
    BY DEF InOrder
  <1> HIDE DEF InOrder, at
  <1>3. InOrder(P) = [i \in 1..Cardinality(P) |-> InOrder(P)[i]]
    BY <1>2
  <1> QED
    BY <1>1, <1>3, ListFacts

\* Claims are a list.
LEMMA ClaimTextsFacts ==
    ASSUME NEW raw \in BoundedSeq(RawClaims, MaxItems)
    PROVE  IsList(ClaimTexts(raw))
  <1> DEFINE P == {i \in DOMAIN raw : raw[i].kind = "claim"}
             made == InOrder(P)
             texts == ClaimTexts(raw)
  <1>1. IsFiniteSet(DOMAIN raw)
    BY BoundedSeqFacts, ExtractionBounds
  <1>2. IsFiniteSet(P)
    BY <1>1, FS_Subset
  <1>3. texts = [n \in DOMAIN made |-> raw[made[n]].text]
    BY DEF ClaimTexts
  <1> HIDE DEF P, texts
  <1>4. Cardinality(P) \in Nat /\ DOMAIN made = 1..Cardinality(P)
    BY <1>2, InOrderFacts DEF IsList
  <1> HIDE DEF made
  <1>5. texts = [n \in 1..Cardinality(P) |-> texts[n]]
    BY <1>3, <1>4
  <1> QED
    BY <1>4, <1>5, ListFacts DEF texts

\* What the gate leaves is linked.
LEMMA GatedFacts ==
    ASSUME NEW a
    PROVE  Linked(Gated(a), pipeline)
  <1> DEFINE links == Resolved(a.links, Materialized(a.claims),
                               Materialized(a.evidence))
             ok(c) == pipeline = "v0" \/ a.claims[c] # "poor"
             g == Gated(a)
  <1>1. /\ g.claims = {c \in {l[1] : l \in links} : ok(c)}
        /\ g.evidence = {l[2] : l \in links}
        /\ g.links = {l \in links : l[1] \in g.claims}
    BY DEF Gated
  <1> HIDE DEF g, links
  <1>2. \A c \in g.claims : \E l \in links : l[1] = c
    BY <1>1
  <1>3. \A l \in links : pipeline = "v0" => l[1] \in g.claims
    BY <1>1
  <1>4. \A e \in g.evidence : \E l \in links : l[2] = e
    BY <1>1
  <1>5. \A l : l \in g.links <=> l \in links /\ l[1] \in g.claims
    BY <1>1
  <1>6. \A l \in links : l[2] \in g.evidence
    BY <1>1
  <1> HIDE DEF ok
  <1> QED
    BY <1>2, <1>3, <1>4, <1>5, <1>6 DEF Linked, g

\* So is what a section adds to an output.
LEMMA GateStep ==
    ASSUME LinkInv, Gate PROVE Linked(output', pipeline)
  <1> DEFINE s == Min(todo)
             g == Gated(answer)
             o == output'
  <1>1. /\ o.claims = output.claims \union {<<s, i>> : i \in g.claims}
        /\ o.evidence = output.evidence \union {<<s, i>> : i \in g.evidence}
        /\ o.links = output.links \union
                         {<<<<s, l[1]>>, <<s, l[2]>>>> : l \in g.links}
    BY DEF Gate
  <1>2. Linked(output, pipeline) /\ Linked(g, pipeline)
    BY GatedFacts DEF LinkInv
  <1> HIDE DEF s, g, o
  <1>3. ASSUME NEW l \in o.links PROVE l[1] \in o.claims /\ l[2] \in o.evidence
    <2>1. CASE l \in output.links
      BY <1>1, <1>2, <2>1 DEF Linked
    <2>2. CASE l \notin output.links
      <3>1. PICK k \in g.links : l = <<<<s, k[1]>>, <<s, k[2]>>>>
        BY <1>1, <2>2
      <3>2. k[1] \in g.claims /\ k[2] \in g.evidence
        BY <1>2 DEF Linked
      <3>3. l[1] = <<s, k[1]>> /\ l[2] = <<s, k[2]>>
        BY <3>1
      <3> QED
        BY <1>1, <3>2, <3>3
    <2> QED
      BY <2>1, <2>2
  <1>4. \A k \in g.links : <<<<s, k[1]>>, <<s, k[2]>>>> \in o.links
    BY <1>1
  <1>5. ASSUME pipeline # "abstract", NEW c \in o.claims
        PROVE  \E l \in o.links : l[1] = c
    <2>1. CASE c \in output.claims
      BY <1>1, <1>2, <1>5, <2>1 DEF Linked
    <2>2. CASE c \notin output.claims
      <3>1. PICK i \in g.claims : c = <<s, i>>
        BY <1>1, <2>2
      <3>2. PICK k \in g.links : k[1] = i
        BY <1>2, <1>5 DEF Linked
      <3> DEFINE l == <<<<s, k[1]>>, <<s, k[2]>>>>
      <3>3. l \in o.links
        BY <1>4
      <3>4. l[1] = c
        BY <3>1, <3>2
      <3> QED
        BY <3>3, <3>4
    <2> QED
      BY <2>1, <2>2
  <1>6. ASSUME pipeline = "v0", NEW e \in o.evidence
        PROVE  \E l \in o.links : l[2] = e
    <2>1. CASE e \in output.evidence
      BY <1>1, <1>2, <1>6, <2>1 DEF Linked
    <2>2. CASE e \notin output.evidence
      <3>1. PICK i \in g.evidence : e = <<s, i>>
        BY <1>1, <2>2
      <3>2. PICK k \in g.links : k[2] = i
        BY <1>2, <1>6 DEF Linked
      <3> DEFINE l == <<<<s, k[1]>>, <<s, k[2]>>>>
      <3>3. l \in o.links
        BY <1>4
      <3>4. l[2] = e
        BY <3>1, <3>2
      <3> QED
        BY <3>3, <3>4
    <2> QED
      BY <2>1, <2>2
  <1> QED
    BY <1>3, <1>5, <1>6 DEF Linked, o

\* And what the abstract mode makes of the linker's answer.
LEMMA LinkedOutputFacts ==
    ASSUME IsList(claims), NEW a, a.links \subseteq Indices \X Indices,
           IsFiniteSet(DOMAIN a.evidence)
    PROVE  Linked(LinkedOutput(a), "abstract")
  <1> DEFINE evidence == Materialized(Kinds(a.evidence))
             all == [i \in DOMAIN claims |-> i]
             o == LinkedOutput(a)
             resolved == Resolved(a.links, all, evidence)
  <1>1. /\ o.claims = {<<0, i>> : i \in DOMAIN claims}
        /\ o.evidence = {<<0, evidence[i]>> : i \in DOMAIN evidence}
        /\ o.links = {<<<<0, l[1]>>, <<0, l[2]>>>> : l \in resolved}
    BY DEF LinkedOutput
  <1>2. IsList(evidence)
    <2> DEFINE P == {i \in DOMAIN Kinds(a.evidence) : Kinds(a.evidence)[i] # "blank"}
    <2>1. DOMAIN Kinds(a.evidence) = DOMAIN a.evidence
      BY DEF Kinds
    <2>2. IsFiniteSet(P)
      BY <2>1, FS_Subset
    <2> QED
      BY <2>2, InOrderFacts DEF Materialized
  <1>3. Len(all) = Len(claims) /\ \A i \in DOMAIN claims : all[i] = i
    <2>1. Len(claims) \in Nat /\ all = [i \in 1..Len(claims) |-> all[i]]
      BY DEF IsList
    <2> QED
      BY <2>1, ListFacts
  <1>4. ASSUME NEW l \in resolved
        PROVE  l[1] \in DOMAIN claims /\ \E i \in DOMAIN evidence : l[2] = evidence[i]
    <2> HIDE DEF evidence, all
    <2>1. PICK k \in a.links : /\ k[1] < Len(all) /\ k[2] < Len(evidence)
                               /\ l = <<all[k[1] + 1], evidence[k[2] + 1]>>
      BY DEF Resolved
    <2>2. k[1] \in Nat /\ k[2] \in Nat
      BY DEF Indices
    <2>3. k[1] + 1 \in DOMAIN claims /\ k[2] + 1 \in DOMAIN evidence
      BY <1>2, <1>3, <2>1, <2>2 DEF IsList
    <2>4. l[1] = all[k[1] + 1] /\ l[2] = evidence[k[2] + 1]
      BY <2>1
    <2> QED
      BY <1>3, <2>3, <2>4
  <1> HIDE DEF evidence, all, resolved, o
  <1>5. ASSUME NEW l \in o.links PROVE l[1] \in o.claims /\ l[2] \in o.evidence
    <2>1. PICK k \in resolved : l = <<<<0, k[1]>>, <<0, k[2]>>>>
      BY <1>1
    <2>2. l[1] = <<0, k[1]>> /\ l[2] = <<0, k[2]>>
      BY <2>1
    <2>3. <<0, k[1]>> \in o.claims /\ <<0, k[2]>> \in o.evidence
      BY <1>1, <1>4
    <2> QED
      BY <2>2, <2>3
  <1> QED
    BY <1>5 DEF Linked, o

\* The output of a run without sections is closed under its links.
LEMMA NothingIsLinked == \A p : Linked(NoOutput, p)
  BY DEF Linked, NoOutput

\* There is no output at the start.
LEMMA LinkInit == Init => LinkInv
  BY NothingIsLinked DEF Init, LinkInv, AfterClaims

\* A step of the section-local extraction.
LEMMA LinkSectionStep ==
    ASSUME LinkInv, SectionNext, UNCHANGED abstractVars PROVE LinkInv'
  <1>1. claims' = claims /\ pipeline' = pipeline /\ Linked(output, pipeline)
    BY DEF abstractVars, SectionNext, SummarizeSections, SummarizePaper, Plan, Draft,
       Feedback, RepairUnusable, Repair, Retry, Gate, CallFails, LinkInv
  <1>2. phase' \notin AfterClaims \union {"claims", "idle", "writing", "in file"}
    BY DEF SectionNext, SummarizeSections, SummarizePaper, Plan, Draft,
       Feedback, RepairUnusable, Repair, Retry, Gate, CallFails, AfterClaims
  <1>3. Linked(output', pipeline)
    <2>1. CASE Gate
      BY <2>1, GateStep
    <2>2. CASE CallFails
      BY <2>2, NothingIsLinked DEF CallFails
    <2>3. CASE ~(Gate \/ CallFails)
      <3>1. output' = output
        BY <2>3 DEF SectionNext, SummarizeSections, SummarizePaper, Plan, Draft,
           Feedback, RepairUnusable, Repair, Retry
      <3> QED
        BY <1>1, <3>1
    <2> QED
      BY <2>1, <2>2, <2>3
  <1> QED
    BY <1>1, <1>2, <1>3 DEF LinkInv, AfterClaims

\* An answer of the linker is about lists.
LEMMA LinkerAnswerFacts ==
    ASSUME NEW a \in LinkerAnswer
    PROVE  a.links \subseteq Indices \X Indices /\ IsFiniteSet(DOMAIN a.evidence)
  <1>1. a.links \in LinkSets /\ a.evidence \in BoundedSeq(LinkedItems, MaxItems)
    BY DEF LinkerAnswer
  <1>2. a.links \subseteq Indices \X Indices
    BY <1>1 DEF LinkSets
  <1>3. IsFiniteSet(DOMAIN a.evidence)
    BY <1>1, BoundedSeqFacts, ExtractionBounds
  <1> QED
    BY <1>2, <1>3

\* A step of the abstract mode.
LEMMA LinkAbstractStep ==
    ASSUME LinkInv, AbstractNext PROVE LinkInv'
  <1> USE DEF AfterClaims
  <1>1. pipeline' = pipeline /\ Linked(output, pipeline)
    BY DEF AbstractNext, FindAbstract, ExtractClaims, RetryClaims, FindCandidates,
       Analyze, RetryAnalysis, Link, RetryLink, MaterializeLinked,
       AbstractCallFails, LinkInv
  <1>2. CASE FindAbstract \/ AbstractCallFails
    BY <1>1, <1>2 DEF FindAbstract, AbstractCallFails, LinkInv
  <1>3. CASE ExtractClaims \/ RetryClaims
    <2>1. /\ phase \in AfterClaims \union {"claims"} /\ output' = output
          /\ phase' \in {"claims retry", "candidates"}
      BY <1>3 DEF ExtractClaims, RetryClaims
    <2>2. IsList(claims')
      BY <1>3, ClaimTextsFacts DEF ExtractClaims, RetryClaims, LinkInv
    <2> QED
      BY <1>1, <2>1, <2>2 DEF LinkInv, IsList
  <1>4. CASE FindCandidates
    <2>1. /\ phase = "candidates" /\ claims' = claims
          /\ \/ phase' = "analysis" /\ output' = output
             \/ /\ phase' = "extracted"
                /\ output' = [NoOutput EXCEPT
                                 !.claims = {<<0, i>> : i \in DOMAIN claims}]
      BY <1>4 DEF FindCandidates
    <2>2. pipeline = "abstract" /\ IsList(claims)
      BY <2>1 DEF LinkInv
    <2>3. Linked(output', pipeline)
      BY <1>1, <2>1, <2>2 DEF Linked, NoOutput
    <2> QED
      BY <1>1, <2>1, <2>2, <2>3 DEF LinkInv, IsList
  <1>5. CASE Analyze \/ RetryAnalysis
    <2>1. /\ phase \in AfterClaims /\ claims' = claims /\ output' = output
          /\ phase' \in {"linking", "analysis retry"}
      BY <1>5 DEF Analyze, RetryAnalysis
    <2> QED
      BY <1>1, <2>1 DEF LinkInv, IsList
  <1>6. CASE Link \/ RetryLink
    <2>1. /\ phase \in AfterClaims /\ claims' = claims /\ output' = output
          /\ phase' \in {"linked", "linking retry"}
      BY <1>6 DEF Link, RetryLink, abstractVars
    <2>2. answer' \in LinkerAnswer
             \/ (phase = "linking retry" /\ answer' = answer)
      BY <1>6 DEF Link, RetryLink
    <2>3. /\ answer'.links \subseteq Indices \X Indices
          /\ IsFiniteSet(DOMAIN answer'.evidence)
      BY <2>2, LinkerAnswerFacts DEF LinkInv
    <2> QED
      BY <1>1, <2>1, <2>3 DEF LinkInv, IsList
  <1>7. CASE MaterializeLinked
    <2>1. /\ phase = "linked" /\ phase' = "extracted"
          /\ output' = LinkedOutput(answer)
      BY <1>7 DEF MaterializeLinked
    <2>2. /\ pipeline = "abstract" /\ IsList(claims)
          /\ answer.links \subseteq Indices \X Indices
          /\ IsFiniteSet(DOMAIN answer.evidence)
      BY <2>1 DEF LinkInv
    <2>3. Linked(output', pipeline)
      BY <2>1, <2>2, LinkedOutputFacts
    <2> QED
      BY <1>1, <2>1, <2>3 DEF LinkInv
  <1> QED
    BY <1>2, <1>3, <1>4, <1>5, <1>6, <1>7 DEF AbstractNext

\* Every step keeps the outputs closed under their links.
LEMMA LinkStep ==
    ASSUME LinkInv, [Next]_vars PROVE LinkInv'
  <1> USE DEF AfterClaims
  <1>1. CASE StartRun
    <2>1. output' = NoOutput /\ phase' \in {"started", "raised"}
      BY <1>1 DEF StartRun, LinkInv
    <2> QED
      BY <2>1, NothingIsLinked DEF LinkInv
  <1>2. CASE Extract
    BY <1>2, LinkSectionStep, LinkAbstractStep DEF Extract
  <1>3. CASE BeginWrites \/ Raise \/ Crash
    <2>1. output' = NoOutput /\ phase' \in {"idle", "writing"}
      BY <1>3 DEF BeginWrites, Raise, Crash, Forget
    <2> QED
      BY <2>1, NothingIsLinked DEF LinkInv
  <1>4. CASE BeginFile \/ EndFile
    <2>1. output' = NoOutput /\ phase' \in {"idle", "writing", "in file"}
      BY <1>4 DEF BeginFile, EndFile, LinkInv
    <2> QED
      BY <2>1, NothingIsLinked DEF LinkInv
  <1>5. CASE UNCHANGED vars
    BY <1>5 DEF vars, sectionVars, abstractVars, LinkInv, IsList
  <1> QED
    BY <1>1, <1>2, <1>3, <1>4, <1>5 DEF Next

\* However many sections, items, links and calls there are: an output refers to
\* nothing that is not in it, and its claims have evidence.
THEOREM LinkedTheorem == Spec => []OutputIsLinked
  <1>1. LinkInv => OutputIsLinked
    BY DEF LinkInv, Linked, OutputIsLinked
  <1> QED
    BY <1>1, LinkInit, LinkStep, PTL DEF Spec

-----------------------------------------------------------------------------
(* What the linker sees.                                                   *)

AfterCandidates == {"analysis", "analysis retry", "linking", "linking retry",
                    "linked"}

CandidatesInv ==
    /\ phase \in AfterCandidates =>
          /\ \E m \in Nat \ {0} : DOMAIN candidates = 1..m
          /\ \A c \in DOMAIN candidates : IsFiniteSet(candidates[c].text)
    /\ phase \in AfterCandidates \ {"analysis"} => DOMAIN analyzed = Selected

\* Naturals that are some have a least one.
LEMMA LeastNatural ==
    ASSUME NEW T \in SUBSET Nat, T # {}
    PROVE  \E x \in T : \A y \in T : x <= y
  <1> DEFINE R == {ss \in Nat \X Nat : ss[1] < ss[2]}
  <1>1. IsWellFoundedOn(R, Nat)
    BY NatLessThanWellFounded DEF OpToRel
  <1> HIDE DEF R
  <1>2. PICK x \in T : \A y \in T : ~(<<y, x>> \in R)
    BY <1>1, WFMin
  <1>3. ASSUME NEW y \in T PROVE x <= y
    <2>1. y \in Nat /\ x \in Nat /\ ~(<<y, x>> \in R)
      BY <1>2
    <2>2. y < x => <<y, x>> \in R
      BY <2>1 DEF R
    <2> QED
      BY <2>1, <2>2
  <1> QED
    BY <1>3

\* Finitely many naturals have a greatest one: else there were a smallest set
\* without, and the greatest of it but one element, or that element, is one.
LEMMA GreatestOfFinite ==
    ASSUME NEW T \in SUBSET Nat, T # {}, IsFiniteSet(T)
    PROVE  \E x \in T : \A y \in T : y <= x
  <1> DEFINE Bad(S) == S # {} /\ IsFiniteSet(S) /\ ~\E x \in S : \A y \in S : y <= x
             Sizes == {n \in Nat : \E S \in SUBSET Nat : Bad(S) /\ Cardinality(S) = n}
  <1> SUFFICES ASSUME Bad(T) PROVE FALSE
    OBVIOUS
  <1>1. Cardinality(T) \in Sizes
    BY FS_CardinalityType
  <1>2. PICK n \in Sizes : \A m \in Sizes : n <= m
    BY <1>1, LeastNatural
  <1>3. PICK S \in SUBSET Nat : Bad(S) /\ Cardinality(S) = n
    BY <1>2
  <1>4. PICK x \in S : TRUE
    BY <1>3
  <1> DEFINE Q == S \ {x}
  <1>5. IsFiniteSet(Q) /\ Cardinality(Q) = n - 1 /\ n \in Nat
    BY <1>2, <1>3, <1>4, FS_RemoveElement
  <1>6. n - 1 \notin Sizes
    BY <1>2, <1>5
  <1>7. ~Bad(Q)
    <2>1. Cardinality(Q) \in Nat
      BY <1>5, FS_CardinalityType
    <2> QED
      BY <1>5, <1>6, <2>1
  <1>8. CASE Q = {}
    <2>1. S = {x} /\ x \in Nat
      BY <1>3, <1>4, <1>8
    <2>2. x <= x
      BY <2>1
    <2> QED
      BY <1>3, <2>1, <2>2
  <1>9. CASE Q # {}
    <2>1. PICK y \in Q : \A z \in Q : z <= y
      BY <1>5, <1>7, <1>9
    <2>2. x \in Nat /\ y \in Nat /\ y \in S
      BY <1>3, <1>4, <2>1
    <2>3. CASE x <= y
      BY <1>3, <2>1, <2>2, <2>3
    <2>4. CASE y <= x
      <3>1. \A z \in Q : z \in Nat /\ z <= x
        BY <1>3, <2>1, <2>2, <2>4
      <3>2. x <= x
        BY <2>2
      <3>3. \A z \in S : z <= x
        BY <3>1, <3>2
      <3> QED
        BY <1>3, <1>4, <3>3
    <2> QED
      BY <2>2, <2>3, <2>4
  <1> QED
    BY <1>8, <1>9

\* Selection keeps a candidate that scores highest: the first of them has none
\* before it, whatever the limit.
LEMMA BestIsSelected ==
    ASSUME NEW m \in Nat \ {0}, DOMAIN candidates = 1..m,
           \A c \in DOMAIN candidates : IsFiniteSet(candidates[c].text),
           NEW i \in DOMAIN claims
    PROVE  \E best \in Selected : \A c \in DOMAIN candidates :
               Shared(claims[i], c) <= Shared(claims[i], best)
  <1> DEFINE D == DOMAIN candidates
             t == claims[i]
             Score(c) == Shared(t, c)
             scores == {Score(c) : c \in D}
  <1>1. \A c \in D : Score(c) \in Nat
    <2> SUFFICES ASSUME NEW c \in D PROVE Cardinality(t \cap candidates[c].text) \in Nat
      BY DEF Shared
    <2>1. IsFiniteSet(t \cap candidates[c].text)
      BY FS_Subset
    <2> QED
      BY <2>1, FS_CardinalityType
  <1>2. D \subseteq Nat /\ IsFiniteSet(D) /\ 1 \in D
    BY FS_Interval
  <1> HIDE DEF Score
  <1>3. IsFiniteSet(scores)
    <2> DEFINE f == [c \in D |-> Score(c)]
    <2>1. f \in Surjection(D, scores)
      BY DEF Surjection
    <2> HIDE DEF f, scores
    <2> QED
      BY <1>2, <2>1, FS_Surjection
  <1>4. scores \in SUBSET Nat /\ scores # {}
    BY <1>1, <1>2
  <1>5. PICK top \in scores : \A y \in scores : y <= top
    BY <1>3, <1>4, GreatestOfFinite
  <1> DEFINE first == {d \in D : Score(d) = top}
  <1>6. first \in SUBSET Nat /\ first # {}
    BY <1>2, <1>5
  <1>7. PICK d \in first : \A e \in first : d <= e
    BY <1>6, LeastNatural
  <1>8. d \in D /\ Score(d) = top /\ \A c \in D : Score(c) <= Score(d)
    BY <1>5, <1>7
  <1>9. d \in Selected
    <2>1. CASE LimitPerClaim <= 0
      BY <1>8, <2>1 DEF Selected
    <2>2. CASE ~(LimitPerClaim <= 0)
      <3>1. \A e \in D : ~Better(t, e, d)
        <4> SUFFICES ASSUME NEW e \in D PROVE ~(Score(e) > Score(d)) /\ ~(Score(e) = Score(d) /\ e < d)
          BY DEF Better, Score
        <4>1. Score(e) \in Nat /\ Score(d) \in Nat /\ e \in Nat /\ d \in Nat
          BY <1>1, <1>2, <1>8
        <4>2. Score(e) = Score(d) => d <= e
          BY <1>7, <1>8
        <4> QED
          BY <1>8, <4>1, <4>2
      <3> DEFINE before == {e \in D : Better(t, e, d)}
      <3>2. before = {}
        BY <3>1
      <3>3. Cardinality(before) < LimitPerClaim
        <4> HIDE DEF before
        <4> QED
          BY <2>2, <3>2, FS_EmptySet, AbstractAssumption
      <3>4. d \in TopFor(t)
        BY <1>8, <3>3 DEF TopFor
      <3> QED
        BY <2>2, <3>4 DEF Selected
    <2> QED
      BY <2>1, <2>2
  <1> QED
    BY <1>8, <1>9 DEF Score

\* What is selected depends on the claims and the candidates.
LEMMA SameSelection ==
    ASSUME claims' = claims, candidates' = candidates PROVE Selected' = Selected
  <1>1. \A c, e : Shared(c, e)' = Shared(c, e)
    BY DEF Shared
  <1>2. \A c, e, d : Better(c, e, d)' = Better(c, e, d)
    BY <1>1 DEF Better
  <1>3. \A c : TopFor(c)' = TopFor(c)
    BY <1>2 DEF TopFor
  <1> QED
    BY <1>3 DEF Selected

\* The linker's candidates are those selected, and they are some.
LEMMA CandidatesStep ==
    ASSUME CandidatesInv, [Next]_vars PROVE CandidatesInv'
  <1> USE DEF AfterCandidates
  <1>1. CASE FindCandidates
    <2>1. CASE phase' = "extracted"
      BY <2>1 DEF CandidatesInv
    <2>2. CASE phase' # "extracted"
      <3>1. /\ phase' = "analysis" /\ candidates' # << >>
            /\ candidates' \in BoundedSeq([section : EvidenceSections, text : Texts],
                                          MaxItems)
        BY <1>1, <2>2 DEF FindCandidates
      <3>2. PICK m \in Nat : candidates' \in
                                 [1..m -> [section : EvidenceSections, text : Texts]]
        BY <3>1, BoundedSeqFacts, ExtractionBounds
      <3>3. m # 0
        BY <3>1, <3>2
      <3>4. \A c \in DOMAIN candidates' : candidates'[c].text \in Texts
        BY <3>2
      <3> QED
        BY <3>1, <3>2, <3>3, <3>4, AbstractAssumption DEF CandidatesInv
    <2> QED
      BY <2>1, <2>2
  <1>2. CASE Analyze \/ RetryAnalysis
    <2>1. /\ claims' = claims /\ candidates' = candidates
          /\ phase \in {"analysis", "analysis retry"}
          /\ phase' \in {"linking", "analysis retry"}
      BY <1>2 DEF Analyze, RetryAnalysis
    <2>2. Selected' = Selected
      BY <2>1, SameSelection
    <2>3. \/ \E rows : analyzed' = Analysis(rows)
          \/ phase = "analysis retry" /\ analyzed' = analyzed
      BY <1>2 DEF Analyze, RetryAnalysis
    <2>4. DOMAIN analyzed' = Selected
      BY <2>1, <2>3 DEF Analysis, CandidatesInv
    <2> QED
      BY <2>1, <2>2, <2>4 DEF CandidatesInv
  <1>3. CASE Link \/ RetryLink
    <2>1. /\ claims' = claims /\ candidates' = candidates /\ analyzed' = analyzed
          /\ phase \in {"linking", "linking retry"}
      BY <1>3 DEF Link, RetryLink, abstractVars
    <2>2. Selected' = Selected
      BY <2>1, SameSelection
    <2> QED
      BY <2>1, <2>2 DEF CandidatesInv
  <1>4. CASE UNCHANGED vars
    <2>1. UNCHANGED <<phase, claims, candidates, analyzed>>
      BY <1>4 DEF vars, sectionVars, abstractVars
    <2>2. Selected' = Selected
      BY <2>1, SameSelection
    <2> QED
      BY <2>1, <2>2 DEF CandidatesInv
  <1>5. ASSUME ~FindCandidates, ~(Analyze \/ RetryAnalysis), ~(Link \/ RetryLink),
               Next
        PROVE  phase' \notin AfterCandidates
    <2>1. CASE Extract
      BY <1>5, <2>1 DEF Extract, SectionNext, AbstractNext,
         SummarizeSections, SummarizePaper, Plan, Draft, Feedback, RepairUnusable,
         Repair, Retry, Gate, CallFails, FindAbstract, ExtractClaims, RetryClaims,
         MaterializeLinked, AbstractCallFails
    <2>2. CASE ~Extract
      BY <1>5, <2>2 DEF Next, StartRun, BeginWrites, BeginFile, EndFile, Raise, Crash
    <2> QED
      BY <2>1, <2>2
  <1> QED
    BY <1>1, <1>2, <1>3, <1>4, <1>5 DEF CandidatesInv

\* For any texts, limit and answers of the analyzer, a candidate that scores
\* highest for a claim is among those the linker is shown.
THEOREM BestTheorem == Spec => []BestCandidateReachesTheLinker
  <1>1. Init => CandidatesInv
    BY DEF Init, CandidatesInv, AfterCandidates
  <1>2. CandidatesInv => BestCandidateReachesTheLinker
    BY BestIsSelected DEF CandidatesInv, AfterCandidates,
       BestCandidateReachesTheLinker
  <1> QED
    BY <1>1, <1>2, CandidatesStep, PTL DEF Spec

=============================================================================
