# Verification of the claims miner

TLA+ models, TLC runs and TLAPS proofs for the miner, its agent pipeline and
the services around it.  Paths and line numbers refer to the repository this
directory belongs to; `PROJECT.json` maps every definition to the lines it
models.

## The system

A validator assigns papers to miners.  A miner neuron answers a task: it
downloads each paper, has a pipeline extract claims and evidence from it,
caches the extraction, uploads it to the claims backend and returns a manifest.

| Component | State it keeps | Operations | Talks to |
|---|---|---|---|
| Coalescing cache, `neurons/miner.py` `_run_task_coalesced` | `_in_progress_keys` and its condition variable; two cache files per key | look up, register or wait, run, write, finish | the pipeline (call), every other call (shared memory, files) |
| Batch execution, `_run_batch_task`, `_run_batch_paper`, `_post_batch_artifact` | a thread pool and its futures | run a paper, upload its artifact, collect the articles | the cache, the backend |
| Backend client, `neurons/backend_client.py` | none | signed requests with retries, chunked posts | the backend |
| Usage upload, `neurons/model_usage_upload.py` | a backup file per run | prepare, upload, resume, list pending | the backend |
| Request admission: `blacklist`, `_validate_synapse`, `_enforce_rate_limit` | a list of request times | admit or refuse | axon threads |
| Download, `neurons/tasks.py` | files named by their hash | download, check, move | the paper's host |
| agent_v1 runner, `miner/agent_v1/runner.py` | the files of a run directory | compile, validate, ask for a repair | a runtime |
| Runtimes, `miner/agent_v1/runtime/` | `agent_output.json`, logs | run an agent, recover its output | external agents, model APIs |
| Staged pipeline, `miner/agent_v1/staged/pipeline.py` | the list of candidate claims | extract in shards, consolidate, check hygiene, assemble the artifact | the model client |
| Model client, `miner/agent_v1/staged/llm.py` | usage totals, in all and by stage | post with retries, ask again, record | a model API; threads of the staged pipeline |
| v0 and section_context_v1 pipelines | sections, model answers, output directories | cut into sections, plan, draft, repair, gate, link, write | GROBID, model APIs |
| Records of section_context_v1, `profiles.py`, `reviewer_export_utils.py` | none | infer a profile, normalize, validate | the extraction of sections |
| Validator scoring, `validator/agent_v1/` | none | structural checks, grounding, projection, silver and batch scores, payout | artifacts of miners |
| Dashboard server, `server/app.py` | an API cache, `agenda.json` | proxy, read runs, keep the agenda | the claims API, run directories |
| Tools, wrappers, dashboard, schemas | files | scripts | |

### What is hard in it

- Papers of a batch run on threads that share a key set, a condition variable
  and files, and the files are read and written outside the lock.
- Files are written in place in the miner and in the server (`write_text`),
  atomically only in the usage upload: a crash, a full disk or a reader may
  meet a truncated one.
- Uploads are retried without knowing whether the first attempt arrived.
- Work is resumed after a crash from what a file says of it.
- An agent is run again in a directory that still holds the files of the
  attempt before.
- The candidates of the staged pipeline pass through model answers that may
  name anything, and none may get lost.
- Model answers are lists that refer to each other by index and by id, and are
  filtered, repaired, asked for again and linked in several calls.
- Scores are clipped, capped and rounded before miners are ranked and paid, with
  ties across the last paid slot.

`PROJECT.json` lists each hazard with its line and the properties that cover it.

## Modules

| Module | What it is |
|---|---|
| `TaskCoalescing` | The coalescing cache: calls on threads, lock, files, failing runs and writes, restarts |
| `SingleFlight` | What the cache promises: one holder per key, results only of completed work |
| `BatchMiner` | A batch on a thread pool, composed with `TaskCoalescing`, and the upload of its artifacts |
| `UsageUpload` | The resumable upload of usage events |
| `RepairLoop` | Runs of the agent_v1 compiler: the repair loop, its runtimes and the files they share |
| `StagedPipeline` | The staged pipeline's candidates, from extraction to the list of claims |
| `ModelClient` | The client of the model API with its threads, retries and totals |
| `SectionExtraction` | The section-local extraction of v0 and section_context_v1: plan, draft, repair, retry, gate |
| `AbstractExtraction` | Adds v0's abstract-full-paper mode: claims of the abstract, evidence candidates, analysis, links |
| `PaperRunner` | Adds the runs: the directory they share, its guard, its files, deaths of the process |
| `SectionInventory` | The spans of a paper and the sections they are cut into |
| `ClaimProfiles` | The tables of `section_context_v1/profiles.py`, as far as keys and roles go |
| `ClaimNormalization` | One record of a model's answer on its way into its profile |
| `MinerRequests` | Requests before their extraction: blacklist, rate limit, download of the PDF |
| `DashboardServer` | The network proxy of the dashboard and its cache |
| `ArtifactChecks` | The validator's structural and grounding checks and its projection |
| `StagedAssembly` | Adds the end of the staged pipeline: the structure call, the artifact made of claims and answer, the miner's own checks of it |
| `BatchScoring` | Adds to `ArtifactChecks` silver scores, batch scores, ranks and the three payouts |
| `BatchMinerProofs` | The theorems about `TaskCoalescing` and `BatchMiner` |
| `UsageUploadProofs`, `RepairLoopProofs`, `StagedPipelineProofs`, `PaperRunnerProofs`, `BatchScoringProofs` | The theorems about the module of that name |
| `ServicesProofs` | The theorems about `ModelClient`, `MinerRequests` and `DashboardServer` |
| `DataStepsProofs` | The theorems about `SectionInventory`, `ClaimNormalization`, `ArtifactChecks` and `StagedAssembly` |
| `MC...` | Instances for TLC; `MCServices` and `MCDataSteps` put parts that share no state into one instance, one of which has work in each behaviour |

### TaskCoalescing

`Requests` are calls of `_run_task_coalesced`; `pc` says where in the function
each is.  The loop is `LookupMiss | LookupHit | LookupTorn`, `ReadPayload`,
`Register | Park`, `WaitTimeout`: the look-up (line 448) and the lock (451) are
separate steps because the code separates them.  A cache file is `absent`,
`torn` (opened and truncated by `write_text`, not yet filled) or `whole`;
`BeginWrite`/`EndWrite` and `BeginPayload`/`EndPayload` are the two halves of
each write, and `WriteFails` ends a write half way.  A run writes
`source_payload.json` to its run directory (`Ingest`) and reads it back when the
extraction is done (`ReadBack`): two requests that share a directory may
overwrite each other's.  `Finish` is the `finally` clause.  `Crash` forgets all
but the files.  The pipeline itself is abstract: it succeeds or raises
(`RunFails`).  `late` and `wrote` are history variables, read by
properties only.

`DirOfAssumption` says that two runs that share a run directory extract the same
paper: paper ids within a batch are given by the backend.

### BatchMiner

Papers are numbered in batch order.  `status` is the future of each: queued,
extracting, posting, and in the end its article's status; a refused URL raises
outside the `try` block (`RefusePaper`), which makes `executor.map` raise at that
result (`CollectRaises`), cancel what is queued and wait for what runs
(`Abort`).  An upload is accepted, retried or fails, and an attempt the miner
does not know the outcome of may arrive at any later time (`LateDelivery`).  The
backend is external: it stores the last artifact received under an id.

### UsageUpload

The backup file is a record; the local variables of an upload are `call`.  A
list of events is a version and a length: appending grows the length, any other
change is a new version with other event ids.  `PostFails` covers a request
that fails, a chunk that is accepted in part, and an answer that is lost.  The
backend stores events by id, counts the ones of the run and may lose one.

### RepairLoop

One run directory and the runs in it, one after the other: runs of other tasks
of the same paper, and of a miner that was restarted.  `BeginAttempt`, `Read`,
`GiveUp` and `Export` are `_compile_with_repair` and its caller; between
`BeginAttempt` and `Read` the runtime is at work (`pc = "agent"`).  Each runtime
ends in its own way: `StagedReturns | StagedFails`, `DspyAnswers`,
`LangchainRound`, `AgentExits | WatchCutsAgent | Timeout` for a command line
agent behind `wrappers/prompt_agent.py`, with its output watch (`"watched"`) or
without.  `AgentWrites` is what an agent does by its tools.  A timeout kills the
wrapper and not what the wrapper started: such an agent is in `orphans`, and
may write at any later time (`OrphanWrites`).

`validation_feedback.json` is `feedbackFile`: the attempt the loop wrote it about,
or the agent that wrote over it.  Agents have tools for any file of the run
directory (`tools/registry.py:44`), and those of a command line are not confined
at all, so each may write either file, and one left over from a timeout may in a
later attempt.  Of the other files, `request.json` is written anew for each attempt and
not read by the loop; `source_payload.json` is read back by the miner
(`TaskCoalescing`'s `ReadBack`), and that an agent may have replaced it is not modelled.

`agent_output.json` is `output`: who wrote it, and a quality, which is the set of
answers the checks on it give.  The qualities are what the checks can tell
apart: a JSON parser, "is an object", the schema, the agent's own validation
(`StandaloneValid`: the paper's metadata is not filled in), the runner's
(`RunnerValid`: it is).  `aloneOnly` and `paperOnly` exist because metadata may
resolve an issue or cause one.

### StagedPipeline

Candidates are numbers in document order.  A text is reduced to the numbers it
holds, and those to the candidate that brought them: a claim's `needs` are the
candidates whose numbers its wording uses, its `quotes` the candidates whose
quotes are pooled under it, and it is grounded when the first are among the
second.  `Invented` stands for a number that is in no quote.  Similarity is any
relation; `Rank` is the order by importance and page, by which a claim's
primary is chosen.  `Consolidate(g)` is the answer of one parallel call; its rows
name any candidates, and those the group was shown and the answer leaves out
become claims of their own.  A row may list a candidate twice (`again`): its
surplus entries count as members and are split off as claims of their own
(`pipeline.py:613-638`), which is what `flaws` bounds, together with the
candidates of other groups an answer names.  `Join` waits for all.  `by` tells claims of
different groups with the same candidates apart.  `MalformedAnswer` is an answer
of a shape the parser does not expect, which raises.  `honest` is a history
variable: properties about answers that name what they were shown depend on it.

### StagedAssembly

The stages behind `StagedPipeline`, composed with the validator's checks of
`ArtifactChecks`: `Structure` orders the claims, drops the surplus and asks a model
for experiments, concepts and a trace; `Assemble` makes the artifact of them.  The
answer names claims by number and spans by id, and may name any; `Proposed` and
`Nodes` keep what exists, `Experiments` and `Trace` add what covers the claims the
answer leaves out.  An id the pipeline gives is a letter and a number.  The claims are of any topics and importance, and their quotes may
fail the last look-up (`Sources`).  Source references of concepts and trace nodes are
left out because no check reads them; a trace node that names only unknown spans is
marked explicit without any (`pipeline.py:1132`), which none finds.  `OwnIssues` are the
checks of `artifact_validator.py`, whose count of expected claims is the length of a
list the model writes.

### ModelClient

`Calls` are calls of `complete_json`, each on a thread of its own; `callPc` says
where each is.  `Posting`/`Posted` is one request; `Rejected` drops a parameter
the provider does not take and posts again, `Unanswered` waits and posts again,
`Refused` and `GiveUp` raise.  `NotJson` is the nudge: a second round of posts,
which starts with all parameters again.  `TakeLock`, `AddToTotals` and
`AddToStage` are `_record`, whose two sums are two steps under the lock.  A usage
is the number of answers in it and whether every cost is known: the counters of
the source are added up the same way, and those of a set of calls are counted
as one set of answers (`UsageOf`).  Only what a call returned is counted: what
failed attempts and an unusable pair of answers have cost is billed by the
provider and in no total.

### SectionExtraction, AbstractExtraction, PaperRunner

Three modules, each extending the one before.  `phase` is where the run is, and a
model's answer is its lists: an item is its kind ("claim" and "evidence" are
usable, "poor" fails its profile, "blank" is skipped), a link the pair of
indices the answer gives.  `Materialized` keeps the usable items together with
their index in the answer, `Resolved` looks the indices of the links up in what
was kept, as the code does, and `Meant` is what the answer meant.

`Draft` is the first answer for a section, `NeedsRepair` decides whether there is
a second; v0 repairs and retries (`RepairUnusable | Repair`, `Retry`), and
section_context_v1 sends feedback once (`Feedback`).  `Gate` applies
`section_gating.py`.  A call that raises (`CallFails`) ends the run before any file
is written.

In the abstract mode a text is the set of its content terms.  `Shared` is
`_candidate_score` up to the order it makes; `Selected` keeps the best
`LimitPerClaim` candidates of each claim; `Analysis` adds the rows of the
analyzer to what was selected, so a row the model forgets is not lost;
the issues of a linker's answer are the claims it leaves without a link and any number
that the text patterns of `_find_evidence_linking_issues` may find
(`LinkingIssueCounts`); and a retry is taken when it has no more of them.

A run writes seven files in place (`BeginFile`, `EndFile`), `manifest.json` last,
into a directory that runs of any paper may be told to use; `Compatible` is the
guard, which skips a file it cannot parse.  `Crash` may come between any two
steps.  The TEI file is not guarded and not read back, and may stay of another
paper when a run dies before its `artifact.json` is whole.

### SectionInventory, ClaimProfiles, ClaimNormalization

A document is what GROBID's TEI, the pages of a PDF or a stored artifact give: a
sequence of spans with heading, type, page and length.  A heading is its name, of
which `Look` says what `assess_section_title` tells apart (its length, letters,
words, capitals, whether it is a generic label).  `ReadSpan` is one round of
the loop of `build_section_inventory`.  A section is the set of the places its spans
have in the paper: the lists of the code are in the order in which they were read,
so the set says all that the list does; `InReadingOrder` makes the sequence of the
spans of the places that hold text.  `WithinLimits` is what a chunk may hold, and
`LimitHit` asks it of the chunk with the next span in it.  Met on the way: the pages of a PDF are
"Page n", a heading that is trusted, so the limits of chunks never apply to PDFs;
text in nested TEI divisions is read once for each of them, and text outside of
any is not read.  `SectionsHoldTheText` is about the spans that were parsed.

A record is a claim or an item of evidence with its context and its details as
sequences of entries, because their order decides which of two keys with one
meaning wins.  A value is what the rules tell apart (a phrase, a citation, more
than ten words, a number, a statistic in words), as a text or inside an object.
`Place` is where the rules of `normalize_claim_payload_parts` send an entry, `Sent`
are the entries that go into a part, `Lasting` orders those of one key by which of
them the two loops of the code let stand, and `Stored` is the part that is left.
Met on the way: what the normalization sets aside as metadata is not kept by
`_materialize_claims`, so a forbidden key never reaches the validation and
`forbidden_`/`unexpected_` errors cannot occur for claims of the pipeline; a
detail that is an object is not shortened, so that one statistic fails as an
object and passes as a text; and the feedback pairs the index of a materialized
claim with the list of raw ones (`section_claim_extractor.py:167`), and quotes the
wrong raw claim when one before it was skipped.

### MinerRequests

`TurnAway` is blacklist and validation.  `ReadTimes` reads and filters the list of
times, `Refuse | Admit` act on what was read, as the code does without a lock: two
requests at the limit may both be admitted, and an admission may be overwritten,
so only the other direction is a property.  A time in the list is named by the
request that put it there, and the list, of which the code takes only the length
and filters the old, is a set of requests.  A download names its temporary file by
the millisecond (`NameTmp`), opens it (`OpenTmp`), receives chunks at its own
offset in the inode it holds open (`ReceiveChunk`), checks the hash of what it
received, and renames unless the file is there (`LookForPdf`, `RenameTmp`).  Files are names for inodes, so that two
downloads that share a temporary file write into one another, and the second to
rename finds it gone.  `DirOf` is the directory of each: one for all is what a `v0`
miner has (`v0/runner.py:77`) and `tools/run_paper.py`, and what the instance takes.
`DownloadsAreWhatTheySay` says how far a shared name reaches: a file that is not what its
name says was downloaded in the same millisecond as another one in the same
directory.  From then on it is taken by every later task of that hash, which drops
its own download (`tasks.py:260`).
A connection that is cut ends like one that is complete.

### DashboardServer

`Readers` are requests in the server's threads, each for one endpoint, which is a
sequence of API paths.  `Hit` and `Miss` read the cache under the lock, `ApiAnswers`
comes without it, `Store` writes under it again.  A payload is the time it was
made at.  The cache has no limit of size, which is not modelled, as are the files
the server reads and `agenda.json` (written in place, `app.py:301`).

### ArtifactChecks, BatchScoring

An artifact is its claims, evidence, experiments, concepts and trace nodes, each
with the fields that are blank and the ids it refers to.  `StructuralFindings` and
`GroundingFindings` are the findings the validator makes, `Quality` the score they
leave after penalties and ceilings, `Projected` the candidates for the comparison
with the Silver record, with ids stripped and defaulted (`RecordId`), where the checks
compare them as they are written.  The
references of an item are a set.  The role check of source references in
`grounding.py` cannot fire behind the schema and is left out.

A miner's work on a paper is the Silver units it covers, the findings against it
and its invalid candidates: the comparison is made by models and is an input.
`ScoreOf`, `RankMiners` and `Payout` follow the code in units of 1/10000, each
`round` where the code has one; payouts are fractions of `Whole`, which every
division of the payout divides: `Factors` gives the powers of the decay as whole
numbers, in a unit of their own for each number of runner-ups, and for 3 miners and a
decay of 1/2 (`MCFactors`) `Whole` is 180000, for any other batch another common
multiple of 10000, the numbers of level miners and the sums of factors.  That the code
rounds payouts to 8 digits is left out.  Met on the way: a Silver record without scored
units gives coverage 1.0 to an empty submission as soon as another miner had an
invalid candidate.

## Runs

| Run | Instance | Shows |
|---|---|---|
| `coalescing` | 3 calls, 2 keys, 1 failed write, 1 restart | the safety of the cache and the refinement of `SingleFlight` |
| `batch` | 3 papers, 2 keys, 2 threads, one refusable URL, 2 attempts to upload, fair | manifests match the backend, no thread outlives the answer, the batch is answered |
| `batch_restart` | 2 papers, 1 key, 1 failed write, 2 attempts, 1 restart, fair | the backend holds extractions of the right paper; every call is answered |
| `usage_upload` | 2 lists of up to 5 events, chunks of 2, 1 failure, 1 crash, 1 loss, fair | resuming skips nothing, complete means accepted, every backup completes |
| `repair_loop` | all five runtimes, 2 runs of 2 attempts, 1 agent left behind, fair | feedback is about the attempt before, a repair succeeds with a file of its own, issues are returned after all attempts only; every run ends |
| `staged_pipeline` | up to 3 candidates in groups of 2, 2 members to a claim, 2 claims, floor 55 %, 3 flaws in the answers | no candidate is lost or used twice, claims stay grounded, a collapsed grouping is undone |
| `paper_runner` | a run of any pipeline over 2 sections, lists of up to 2 items and 1 link, and 2 more runs for 2 papers into its directory, deaths anywhere | outputs are closed under their links, the best candidate reaches the linker, a directory stays of one paper and its manifest behind its files |
| `services` | 2 model calls with 2 retries, 2 optional parameters and every answer; 2 requests to the proxy in 3 ticks; 3 requests to the miner with a limit of 1 in a window of 2 that download two texts and an empty one into one directory; fair for the model calls | usage is that of the calls that returned, each call ends, answers are as fresh as their paths allow, requests are refused at the limit only, a PDF is what its name says unless two are named in one millisecond |
| `data_steps` | documents of up to 5 spans; records with up to 2 entries in context and details in all profiles; artifacts of up to 3 claims with 5 ids; up to 4 claims and 160 answers to assemble with a cap of 3; 3 miners, 2 papers, 6 kinds of work, 3 modes, 2 lanes | no text is lost or read under another heading, keys end in their part, each claim of an artifact is compared or reported, an assembled artifact passes the validator's checks whatever the model answered, better work is paid no less, payouts add up |
| `one_article_per_paper`, `links_follow_the_answer`, `excluded_claims_are_reported` | the same instances | the findings below |

Bounds.  The hazards of the cache need two calls of one key (who runs, who
waits) and a third call to check that keys do not disturb each other; a second
failed write or restart meets the same files as the first.  A pool is exhausted
by waiters with two threads and three papers; two attempts leave an upload under
way when the second one completes the article.  Five events in chunks of two make
a first, a middle and a short last chunk.  Two attempts of two runs make a
first attempt, a repair, and both again over files of an earlier run.  Three
candidates in groups of two are a full group and a short one, enough for a row
that reaches into the other group, a folded candidate, and a split or merge of
each kind; one claim of three candidates is below the floor of 55 %, two are
not; three flaws make a row that lists two candidates twice beside one of another
group.  One link and two items make a link to an item behind a skipped one.  Three
runs into a directory make one that dies, one of another paper and one that
finds what both left; the first may be of any pipeline, the later ones, whose
part is to write files, extract from a paper that is all abstract.  Two retries
and two optional parameters exhaust each counter of the model client on its own
and after the other.  Three requests make two at the limit and one that finds
the list they wrote; two downloads share a millisecond, and a third could take what
they left, which the limit of the instance admits too late: that case is the
theorem's.  Two spans or three
characters to a chunk reach both limits within five spans.  Three miners make a
tie of two beside a better or a worse one, and fewer miners than paid slots.
The papers' units include one without any but minor units.
Four claims and a cap of three drop one; answers name known claims, unknown ones,
one twice or none, and chains of trace nodes are longer than the code reads.

Fairness.  Each thread that can take a step takes one (`WF` per call): Python
threads are scheduled, and the run, being abstract, ends.  No fairness is asked
of `WaitTimeout`, so liveness does not lean on the timeout, and none of faults,
crashes, refusals or lost messages.  The repair loop goes on by itself; the
agents of the libraries end with their iteration limit or an error, and a
command line agent by the timer at the latest, so a run at work always takes
its next step (`WF(Progress)`), and no fairness is asked of what an agent writes.
A usage upload is started again as long as
one is pending, as `pending_model_usage_backups` is meant to be used.  A thread in
the model client goes on (`WF` per call): the requests have timeouts and the
waits between them are bounded.

Deadlock checking is off where all requests may have been answered.

## Findings

Each is a run in which TLC finds the documented behaviour violated.

- `one_article_per_paper`: `neurons/README.md:38` promises one article per assigned
  paper; a refused URL makes the whole batch fail, the extracted papers with it
  (`miner.py:524`).
- `links_follow_the_answer`: an item the linker names and the pipeline skips
  shifts the links behind it to other items or drops them
  (`v0/abstract_claim_extractor.py:1081`, and in the same way
  `section_claim_extractor.py:479` of v0 and `:295` of section_context_v1).
- `excluded_claims_are_reported`: the projection leaves out claims whose ids are
  one after stripping and defaulting, and says that the structural checks report
  them as critical; those compare the raw ids and skip empty ones
  (`record_projection.py:43`).

Disagreements without a run, met while modelling or found by TLC in earlier
versions of the models:

- A look-up of the coalescing cache is not repeated behind the lock, so that a call
  which missed before the first run finished extracts again (`miner.py:448`); a
  look-up during the write reads a truncated file and fails with a JSON error
  (`miner.py:773`, `778`); a crash in the write leaves a file that every later call
  of its key fails on, where `neurons/README.md:63` speaks of completed extractions.
- A repair attempt of a command line agent that prints its corrected JSON is read
  as the file of the attempt before (`prompt_agent.py:73`, `142`), and so with
  `dspy_react.py:80`, where any file makes the runtime drop the answer.
- The claims the hygiene rules drop are written to the trace and erased with the
  assignment that ends the stage (`pipeline.py:393`).
- `miner/agent_v1/README.md:15` speaks of one repair attempt where the default is
  three attempts in all; the comment of `_enforce_retention` says that the
  pre-merge result is kept, where the code keeps the candidates that are in some
  claim, so those the model dropped stay dropped.
- `section_context_v1/CLAIM_EXTRACTION_SYSTEM.md:318` says that only evidence linked
  to surviving claims survives; evidence of claims that validation drops is kept.
- `v0/CLAIM_EXTRACTION_SYSTEM.md:20` excludes the abstract from the evidence; the
  abstract is found by name in any case and excluded by the type `ABSTRACT`.
- Two tasks of a `v0` miner that download in one millisecond share a temporary file in
  their directory (`tasks.py:228`, `v0/runner.py:77`): the hash is checked of what each
  received, and the file that is renamed may hold parts of both, under a name that is
  never checked again; or the second rename fails its task.
- A repair may be worse than what it repairs: the first one that can be used
  replaces the draft whatever its issues (`section_claim_extractor.py:167`), and `section_context_v1` takes any
  second answer.  v0's retries are taken with no more issues than before, by a guard.
- `GrobidClient` writes its cache in place under a name that does not depend on the
  content: a torn or stale file is used for ever.
- The guard of an output directory skips a file it cannot parse and does not look
  at `extracted_claims.csv` (`v0/runner.py:523`): after three runs of one paper that
  died where each left one more of the guarded files torn, a run of another paper
  is let in beside the table of the first.  `DirectoryIsOfOnePaper` speaks of the
  table only once a whole manifest is there; a proof of the wider form failed, and
  four runs are needed to break it, one more than the run of TLC has.

## Proofs

`BatchMinerProofs` proves of the cache, for any sets of requests, keys and directories and
any bounds, from the named assumptions of `TaskCoalescing`:

- `TypeCorrect`: `Spec => []TypeOK`.
- `SingleRunner`, `NoOrphanedKey`, `LateNeverExtracts`, `AnswersAreFinished`: the
  safety invariants of the `coalescing` run, from one inductive invariant
  `IInv`.  Its additions: whoever runs is registered (mutual exclusion follows
  from it and not the other way round); a created file is never absent again;
  whole files, payload files and run directories hold what belongs to their
  key; and half-built answers already do.
- `RefinesSingleFlight`: `Spec => Flight!FlightSpec`; the refinement mapping takes
  the holder of a key to be the one call that runs for it.

Of the batch, in the same module: a step of the batch is one of the
cache or leaves the cache alone, so a batch of any size is a behaviour of the
cache (`BatchIsCoalescing`) and implements `SingleFlight` (`BatchIsSingleFlight`), and the
cache's invariant holds in it.  On top of that invariant, for any pool, attempts,
write failures and restarts:

- `ManifestTheorem`, `StoredTheorem`, `RestTheorem`.  `BatchInv` adds what a paper's status
  says of its thread in the cache, and that every upload under way or still to
  arrive late carries a finished run of the paper's key, of the same run for each
  repetition: a late delivery cannot be wrong then.

`RepairLoopProofs` proves, for any number of attempts, runs and agents left
behind, and any set of runtimes:

- `RepairTypeCorrect`: `RepairSpec => []RepairTypeOK`, the type invariant, a lemma of
  the others; TLC does not check it separately.
- `FeedbackTheorem`, `IssuesTheorem`, `RepairTheorem`: three safety invariants of the
  `repair_loop` run.  None is inductive: what the feedback file says in an attempt
  was decided by the loop before it, so `LoopInv` also says what attempt the
  loop's own `feedback` is about, that a run at work has an attempt within its
  bound (the writer of a file is then an attempt there can be), and that a run
  with attempts left exports what the runner's validation accepted.
  `AgentEndsEffect` sums up the ends of the five runtimes, so that the proof
  looks at each only once.

`UsageUploadProofs`, for any numbers of lists, events, failures, crashes and losses
and any size of the chunks:

- `ResumeTheorem`, `FinishedTheorem`, `InsertionsTheorem`, and `VerdictTheorem`, an action
  property.  `UploadInv` says of the upload at work what the file says of the one
  before it (`OffsetInv`, `CountInv`), and that the backend has no event of a list that is
  yet to come (`BackendInv`), without which the count of a run's events would not
  tell that this list is complete.

`StagedPipelineProofs`, for any number of candidates, groups of any size, any limits
and any answers:

- `GroundedTheorem`, `NoneLostTheorem`, `OneClaimTheorem`, `CollapseTheorem`.  The invariant is
  in two relations that each stage carries on: `AreAbout` (claims and dropped
  candidates cover what was shown and, for honest answers, share nothing) until
  the claims are final, `AccountFor` (claims, the ones a rule dropped and dropped
  quotes cover all candidates) from there on.  Folding is one level deep (`FoldInv`),
  so the quotes of a candidate are those of the ones folded into it.  Where an
  induction would be at hand, as for the primary of a claim, the proof takes a least
  number instead (`LeastNatural`).

`PaperRunnerProofs`, for any papers, sections, answers, runs and deaths:

- `OnePaperTheorem`, `ManifestTheorem` from `DirInv`: which files the run at work has
  written, and that a guarded file that is whole is of its paper once the guard has let it
  in.
- `LinkedTheorem` from `LinkInv`, and `BestTheorem` from `CandidatesInv`: an analysis keeps a row
  for each selected candidate, in whatever answer it was named.

`ServicesProofs`, for any calls, retries, requests, limits, PDFs, endpoints and readers:

- `UsageTheorem`: what `ClientInv` adds is who is between the two sums of `_record`, and
  that the totals are those of the calls that have passed each.
- `RefusedTheorem`: `AdmissionInv` follows a time from the list a thread read to the one
  it writes, over any overwritten ones.
- `DownloadTheorem`, for any directories: `DownloadInv` says what is in the directory and the
  inode of a download at each of its steps, and that an inode which holds something
  else than its download received was opened under a temporary name that another one
  shares; such a name stays shared (`Onward`), so whoever takes the file later finds the
  two downloads it came from.
- `FreshTheorem`: a cached payload is no older than its stamp (`StampsInv`), although the
  stamp was taken before the API was asked and entries overwrite each other.

`DataStepsProofs`, for any documents, tables of headings, limits, records and artifacts
(the tables of `ClaimProfiles` are the source's):

- `SectionsTheorem`: `HeldInv` says of the sections and the one being collected, together,
  what the property says of the sections at the end; `ChunksInv` numbers the chunks,
  from which their titles differ; `NeighboursInv` has the keys of consecutive sections.
- `KeysTheorem`: the parts of a record are functions of the answer, so the work is in
  lemmas: no profile allows a key it forbids (`ProfilesAreApart`, by cases over the
  tables), and an entry without a rival is the one that lasts (`WithoutRivalLasts`).
- `ComparedTheorem`: `FindingsOfClaims` says, of all findings of an artifact, which are about
  the id or the statement of a claim; the projection is compared with them claim by
  claim.
- `AssemblyTheorem`, for any final claims and any answer of the model.  `AssemblyInv` says
  of what the earlier stages left that each claim has spans, which are those of its
  quotes (`IsClaims`), and of the answer no more than that its parts are lists
  (`IsAnswer`).  `GoodArtifact` is what the assembled artifact is then: without a structural
  or grounding finding, with one candidate for each claim.  Each reference in it is
  shown to be to an id that is there, and ids differ because the numbers in them do.

`BatchScoringProofs`, for any records, works, papers and number of miners, in each of
the three modes.  `BatchInv` says that each result is made of the one before, so the
work is in lemmas about the functions:

- `PaidNoLessTheorem`: each of them keeps the order of its arguments, from the weight of
  the covered units over `Coverage`, `Quality`, four roundings to even (`RoundMonotone`) and the mean
  to the ranks, the share of level miners, the parts and the bonus.  It has the hypothesis
  `Falling`: `winner_share` is at least 1/2 and `runner_up_decay` at most 1, as their
  defaults 0.70 and 0.5 are.  The code takes any share and any decay above 0, and below
  1/2 the property fails: with 0.40 TLC finds a second miner that is paid 0.60.
- `PayoutTheorem`: the miners of one score get together what the ranks they take are
  worth (`LevelShares`), so the best ones get what the first ranks are worth
  (`TopShares`, over the sets of miners that are closed upwards), and all of them the whole;
  the bonus takes off what it hands out.  All shares are whole numbers of units
  (`WorthWhole`).  It has the hypothesis `SomeonePaid`: `winner_share` or `runner_up_slots` is
  above 0.  With both 0, which the code accepts, two miners with a score are paid nothing,
  which TLC finds too.
- Sums are `SumFunctionOnSet`, a recursive function.  The lemmas about it are proved from its
  equation without the induction theorems: a set for which a lemma fails would have a
  smallest part for which it fails (`SmallestPart`, by the well-foundedness of strict
  subsets), and taking one element off contradicts that.

The assumptions are the named ones of the modules.  They say that counters and
limits are natural numbers, that data have the shapes the code gives them, and, in
`DirOfAssumption` and `ArtifactAssumption`, that ids differ which the backend makes; `ChecksAssumption` has
the default ids of the claims differ, which are their numbers.

What stays with TLC, and why:

- Liveness (`EveryRequestAnswered`, `BatchAnswered`, `UploadCompletes`, `RunEnds`, `CallsEnd`): the
  prover does not reason about fairness.

Every other property of a passing run, safety invariants, action properties and the
refinement, is stated by a theorem.

## Not modelled

- The texts: prompts, quotes and their verification against the paper
  (`staged/grounding.py`), parsing of TEI below the level of paragraphs, the pdf-inspector source
  of text, formatting of exports.  They are string functions without a state.
- `runtime/usage.py`: parsing of the logs of several agents into one summary.
- Neuron lifecycle, wallets, metagraph: calls of the bittensor library.
- The memory monitor, a sampling thread that nothing depends on.
- The endpoints of the dashboard server that read files, and the agenda.
- The tools, sequential scripts around the modelled parts; the dashboard client;
  schemas, data and documentation.

## Plan

1. The rounding of payouts to 8 digits, in `BatchScoring`.
2. The merging of usage logs (`runtime/usage.py`) and the agenda of the server.
