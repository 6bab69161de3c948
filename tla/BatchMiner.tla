----------------------------- MODULE BatchMiner -----------------------------
(***************************************************************************)
(* One batch task in the miner neuron (neurons/miner.py: forward,          *)
(* _run_batch_task, _run_batch_paper, _post_batch_artifact) together with  *)
(* the retrying upload of backend_client.py.                               *)
(*                                                                         *)
(* The papers of the batch are the requests 1..n of TaskCoalescing; a      *)
(* thread pool runs them in list order.  A paper whose URL is refused      *)
(* raises before its try block; executor.map then raises in the calling    *)
(* thread when it gets to that paper's result, cancels what has not been   *)
(* started, waits for what has, and the whole batch answers with an error. *)
(* The backend is external: it stores the last artifact it is sent under   *)
(* an id, and may still receive one whose upload the miner gave up on.     *)
(***************************************************************************)
EXTENDS TaskCoalescing, FiniteSets

CONSTANTS
    Workers,      \* claims_batch_max_workers
    BadUrl,       \* papers whose URL normalize_url may refuse
    HasBackend,   \* a backend client is configured
    RunIdGiven,   \* the synapse names the validator's run
    Artifacts,    \* artifact ids
    ArtifactOf,   \* the artifact id of every paper
    MaxAttempts   \* max_retries + 1

ASSUME PapersAssumption == Requests = 1..Cardinality(Requests)
ASSUME WorkersAssumption == Workers \in Nat \ {0}
ASSUME BadUrlAssumption == BadUrl \subseteq Requests
ASSUME FlagAssumption == HasBackend \in BOOLEAN /\ RunIdGiven \in BOOLEAN
ASSUME AttemptsAssumption == MaxAttempts \in Nat \ {0}
ASSUME ArtifactAssumption ==
    /\ ArtifactOf \in [Requests -> Artifacts]
    /\ \A r, s \in Requests : ArtifactOf[r] = ArtifactOf[s] => r = s

VARIABLES
    refused,  \* papers whose URL normalize_url refuses
    batch,    \* where _run_batch_task is
    status,   \* the future of each paper, in the end its article's status
    attempt,  \* the attempt of each paper's upload
    inFlight, \* uploads the miner gave up on that may still arrive
    stored    \* whose extraction the backend holds under each artifact id

batchVars == <<refused, batch, status, attempt, inFlight, stored>>
allVars == <<vars, batchVars>>

Articles == {"completed", "failed"}
Active == {"extracting", "posting"}

BatchInit ==
    /\ Init
    /\ refused \in SUBSET BadUrl
    /\ batch = "running"
    /\ status = [r \in Requests |-> "queued"]
    /\ attempt = [r \in Requests |-> 1]
    /\ inFlight = {}
    /\ stored = [a \in Artifacts |-> NoOne]

Step(r, from, to) ==
    /\ status[r] = from
    /\ status' = [status EXCEPT ![r] = to]

Busy == {r \in Requests : status[r] \in Active}

-----------------------------------------------------------------------------
\* A worker of the pool takes the next paper.  One worker is no pool but a
\* list comprehension, which ends with the first exception.
NextPaper(r) ==
    /\ batch = "running"
    /\ Cardinality(Busy) < Workers
    /\ \A s \in Requests : s < r => status[s] # "queued"
    /\ Workers = 1 => \A s \in Requests : status[s] # "raised"

TakePaper(r) ==
    /\ NextPaper(r)
    /\ r \notin refused
    /\ Step(r, "queued", "extracting")
    /\ Arrive(r)
    /\ UNCHANGED <<refused, batch, attempt, inFlight, stored>>

\* task_cache_key refuses the URL, before the try block.
RefusePaper(r) ==
    /\ NextPaper(r)
    /\ r \in refused
    /\ Step(r, "queued", "raised")
    /\ UNCHANGED <<vars, refused, batch, attempt, inFlight, stored>>

RunPaper(r) == Thread(r) /\ UNCHANGED batchVars

\* _run_task_coalesced returned or raised; an agent_v1 extraction is posted
\* when there is a backend, and any other one is sent inline.
Posts == HasPayload /\ HasBackend

EndPaper(r) ==
    /\ pc[r] = "done"
    /\ Step(r, "extracting",
            IF answer[r].outcome = "failed" \/ (Posts /\ ~RunIdGiven)
              THEN "failed"
              ELSE IF Posts THEN "posting" ELSE "completed")
    /\ UNCHANGED <<vars, refused, batch, attempt, inFlight, stored>>

-----------------------------------------------------------------------------
UploadOf(r) == [id |-> ArtifactOf[r], by |-> answer[r].by]

\* The backend stores the artifact and its answer is read.
UploadAccepted(r) ==
    /\ Step(r, "posting", "completed")
    /\ stored' = [stored EXCEPT ![ArtifactOf[r]] = answer[r].by]
    /\ UNCHANGED <<vars, refused, batch, attempt, inFlight>>

\* The request may have reached the backend, or a proxy of it, all the same.
MaybeDelivered(r) ==
    \E reached \in BOOLEAN :
        inFlight' = IF reached THEN inFlight \union {UploadOf(r)} ELSE inFlight

\* URLError, TimeoutError or OSError: sleep, then sign and send again.
UploadRetried(r) ==
    /\ status[r] = "posting"
    /\ attempt[r] < MaxAttempts
    /\ attempt' = [attempt EXCEPT ![r] = @ + 1]
    /\ MaybeDelivered(r)
    /\ UNCHANGED <<vars, refused, batch, status, stored>>

\* Mutant: the upload error is logged and forgotten.
UploadFailsSilently(r) ==
    /\ Step(r, "posting", "completed")
    /\ MaybeDelivered(r)
    /\ UNCHANGED <<vars, refused, batch, attempt, stored>>

\* HTTPError is final at once, any other error on the last attempt.
UploadFails(r) ==
    /\ Step(r, "posting", "failed")
    /\ MaybeDelivered(r)
    /\ UNCHANGED <<vars, refused, batch, attempt, stored>>

LateDelivery(u) ==
    /\ u \in inFlight
    /\ inFlight' = inFlight \ {u}
    /\ stored' = [stored EXCEPT ![u.id] = u.by]
    /\ UNCHANGED <<vars, refused, batch, status, attempt>>

-----------------------------------------------------------------------------
\* list(executor.map(...)) collects the results in list order.
Collect ==
    /\ batch = "running"
    /\ \A r \in Requests : status[r] \in Articles
    /\ batch' = "answered"
    /\ UNCHANGED <<vars, refused, status, attempt, inFlight, stored>>

\* It raises at the first result that is an exception and cancels the futures
\* that no worker has taken.
CollectRaises ==
    /\ batch = "running"
    /\ \E r \in Requests :
          /\ status[r] = "raised"
          /\ \A s \in Requests : s < r => status[s] \in Articles
    /\ batch' = "aborting"
    /\ status' = [r \in Requests |->
                    IF status[r] = "queued" THEN "cancelled" ELSE status[r]]
    /\ UNCHANGED <<vars, refused, attempt, inFlight, stored>>

\* Mutant: the error is answered at once (shutdown(wait=False)).
AbortAtOnce ==
    /\ batch = "aborting"
    /\ batch' = "error"
    /\ UNCHANGED <<vars, refused, status, attempt, inFlight, stored>>

\* Mutant: the shutdown waits for the cancelled futures too.
AbortWaitsForAll ==
    /\ batch = "aborting"
    /\ \A r \in Requests : status[r] \in Articles \union {"raised"}
    /\ batch' = "error"
    /\ UNCHANGED <<vars, refused, status, attempt, inFlight, stored>>

\* Leaving the with statement waits for the running futures; forward then
\* turns the exception into synapse.error.
Abort ==
    /\ batch = "aborting"
    /\ Busy = {}
    /\ batch' = "error"
    /\ UNCHANGED <<vars, refused, status, attempt, inFlight, stored>>

\* The process dies, perhaps while uploads are on their way; the validator
\* sends the batch again.
BatchCrash ==
    /\ batch \in {"running", "aborting"}
    /\ Crash
    /\ batch' = "running"
    /\ status' = [r \in Requests |-> "queued"]
    /\ attempt' = [r \in Requests |-> 1]
    /\ \E sent \in SUBSET {r \in Requests : status[r] = "posting"} :
           inFlight' = inFlight \union {UploadOf(r) : r \in sent}
    /\ UNCHANGED <<refused, stored>>

-----------------------------------------------------------------------------
Paper(r) ==
    \/ TakePaper(r) \/ RefusePaper(r) \/ EndPaper(r)
    \/ UploadAccepted(r) \/ UploadRetried(r) \/ UploadFails(r)

BatchNext ==
    \/ \E r \in Requests : Paper(r) \/ RunPaper(r)
    \/ \E u \in inFlight : LateDelivery(u)
    \/ Collect \/ CollectRaises \/ Abort \/ BatchCrash

BatchSpec == BatchInit /\ [][BatchNext]_allVars

\* Every pool thread that can take a step takes one, and so does the thread
\* that collects.  As in FairSpec, a wait may rely on the notify alone.
BatchFairSpec ==
    /\ BatchSpec
    /\ \A r \in Requests :
          /\ WF_allVars(Paper(r))
          /\ WF_allVars((Loop(r) \/ Run(r)) /\ UNCHANGED batchVars)
    /\ WF_allVars(Collect \/ CollectRaises \/ Abort)

-----------------------------------------------------------------------------
Over == batch \in {"answered", "error"}

\* An article reported as completed names an artifact that the backend holds,
\* and the backend holds exactly the extraction whose hash the article
\* reports, whatever uploads are still under way: as long as the process has
\* not been restarted, for an upload sent before may overwrite one sent after.
ManifestMatchesBackend ==
    crashes = 0 => \A r \in Requests :
        Posts /\ status[r] = "completed" =>
            stored[ArtifactOf[r]] = answer[r].by

\* The backend never holds, under a paper's artifact id, an extraction that
\* no run of the same paper completed.
StoredExtractionsAreOfThePaper ==
    \A r \in Requests :
        LET by == stored[ArtifactOf[r]]
        IN by # NoOne => by \in wrote /\ KeyOf[by] = KeyOf[r]

\* When the batch answers, with articles or with an error, none of its
\* threads is left: no key is registered and no run is under way.
NothingRunsAfterTheAnswer ==
    Over => inProgress = {} /\ \A r \in Requests : ~Runner(r)

\* Papers that wait for another paper of the same key keep their pool threads,
\* yet a pool of any size gets through the batch and the miner answers.
BatchAnswered == batch = "running" ~> Over

\* neurons/README.md: articles holds one item per assigned paper, whatever
\* becomes of the others.
OneArticlePerPaper ==
    Over => \A r \in Requests : status[r] \in Articles /\ batch = "answered"

=============================================================================
