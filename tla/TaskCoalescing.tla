--------------------------- MODULE TaskCoalescing ---------------------------
(***************************************************************************)
(* The coalescing extraction cache of the miner neuron                     *)
(* (neurons/miner.py, ClaimsMiner._run_task_coalesced).                    *)
(*                                                                         *)
(* Every paper of a batch is a call of _run_task_coalesced on a thread of  *)
(* its own.  Calls that share a cache key are meant to share one           *)
(* extraction: the call that registers its key in _in_progress_keys runs   *)
(* the pipeline and writes two cache files, the others wait on a condition *)
(* variable and look the files up again.  The look-up happens outside the  *)
(* lock, and path.write_text truncates a file before it fills it: both are *)
(* separate steps here.                                                    *)
(***************************************************************************)
EXTENDS Naturals

CONSTANTS
    Requests,    \* calls of _run_task_coalesced
    Keys,        \* values of task_cache_key
    KeyOf,       \* the cache key of every request
    Dirs,        \* run directories, <task_id>/<paper_id>
    DirOf,       \* the run directory of every request
    NoOne,       \* the author of a file nobody has written
    HasPayload,  \* TRUE for the agent_v1 pipeline, FALSE for v0
    MaxFaults,   \* bound: cache writes that fail half way (disk full)
    MaxCrashes   \* bound: process crashes

ASSUME KeyOfAssumption == KeyOf \in [Requests -> Keys]
\* The papers of one batch have ids of their own, so that two runs share a
\* directory only when they extract the same paper.
ASSUME DirOfAssumption ==
    /\ DirOf \in [Requests -> Dirs]
    /\ \A r, s \in Requests : DirOf[r] = DirOf[s] => KeyOf[r] = KeyOf[s]
ASSUME NoOneAssumption == NoOne \notin Requests
ASSUME HasPayloadAssumption == HasPayload \in BOOLEAN
ASSUME BoundAssumption == MaxFaults \in Nat /\ MaxCrashes \in Nat

VARIABLES
    pc,          \* where each call is in _run_task_coalesced
    late,        \* calls that arrived when their cache file already existed
    inProgress,  \* _in_progress_keys
    runInputs,   \* who last wrote source_payload.json of a run directory
    extraction,  \* the <key>.json cache file of every key
    payload,     \* the <key>.source_payload.json cache file of every key
    answer,      \* what each call returned or raised
    wrote,       \* calls whose run completed its cached extraction
    faults,
    crashes

vars == <<pc, late, inProgress, runInputs, extraction, payload, answer, wrote,
          faults, crashes>>

(***************************************************************************)
(* "lookup" is the top of the while loop, "hit" between the two file reads *)
(* of a cache hit, "enter" before the lock, "waiting" in condition.wait.   *)
(* RunnerStates are those of the call that registered the key: inside its  *)
(* try block, where _run_task runs, and at the finally clause ("leaving"   *)
(* and "failing").                                                         *)
(***************************************************************************)
RunnerStates == {"running", "ingested", "extracted", "writing", "written",
                 "writingPayload", "leaving", "failing"}
PcStates == {"idle", "lookup", "hit", "enter", "waiting", "done"}
                \union RunnerStates

Authors == Requests \union {NoOne}
File == [state : {"absent", "torn", "whole"}, by : Authors]
NoFile == [state |-> "absent", by |-> NoOne]
Torn(r) == [state |-> "torn", by |-> r]
Whole(r) == [state |-> "whole", by |-> r]

Answer == [outcome : {"none", "completed", "failed"},
           by : Authors, payloadBy : Authors]
NoAnswer == [outcome |-> "none", by |-> NoOne, payloadBy |-> NoOne]
Failure == [outcome |-> "failed", by |-> NoOne, payloadBy |-> NoOne]
Result(by, payloadBy) ==
    [outcome |-> "completed", by |-> by, payloadBy |-> payloadBy]

TypeOK ==
    /\ pc \in [Requests -> PcStates]
    /\ late \in SUBSET Requests
    /\ inProgress \in SUBSET Keys
    /\ runInputs \in [Dirs -> Authors]
    /\ extraction \in [Keys -> File]
    /\ payload \in [Keys -> File]
    /\ answer \in [Requests -> Answer]
    /\ wrote \in SUBSET Requests
    /\ faults \in 0..MaxFaults
    /\ crashes \in 0..MaxCrashes

Init ==
    /\ pc = [r \in Requests |-> "idle"]
    /\ late = {}
    /\ inProgress = {}
    /\ runInputs = [d \in Dirs |-> NoOne]
    /\ extraction = [k \in Keys |-> NoFile]
    /\ payload = [k \in Keys |-> NoFile]
    /\ answer = [r \in Requests |-> NoAnswer]
    /\ wrote = {}
    /\ faults = 0
    /\ crashes = 0

cache == <<extraction, payload>>
files == <<runInputs, extraction, payload>>
history == <<wrote, faults, crashes>>

Goto(r, from, to) ==
    /\ pc[r] = from
    /\ pc' = [pc EXCEPT ![r] = to]

-----------------------------------------------------------------------------
\* The call starts.  late is history: it is never read by a guard.
Arrive(r) ==
    /\ Goto(r, "idle", "lookup")
    /\ late' = IF extraction[KeyOf[r]].state = "absent"
                 THEN late \ {r} ELSE late \union {r}
    /\ UNCHANGED <<inProgress, files, answer, history>>

\* Mutant: a file that does not parse is a miss.
LookupMissOrTorn(r) ==
    /\ extraction[KeyOf[r]].state # "whole"
    /\ Goto(r, "lookup", "enter")
    /\ UNCHANGED <<late, inProgress, files, answer, history>>

\* _read_cached_extraction returns None when the file does not exist.
LookupMiss(r) ==
    /\ extraction[KeyOf[r]].state = "absent"
    /\ Goto(r, "lookup", "enter")
    /\ UNCHANGED <<late, inProgress, files, answer, history>>

\* Mutant: what can be read of a truncated file is the answer.
LookupHitAny(r) ==
    /\ extraction[KeyOf[r]].state # "absent"
    /\ Goto(r, "lookup", "hit")
    /\ answer' = [answer EXCEPT ![r].by = extraction[KeyOf[r]].by]
    /\ UNCHANGED <<late, inProgress, files, history>>

\* json.loads accepts the file: the cached extraction is the answer.
LookupHit(r) ==
    /\ extraction[KeyOf[r]].state = "whole"
    /\ Goto(r, "lookup", "hit")
    /\ answer' = [answer EXCEPT ![r].by = extraction[KeyOf[r]].by]
    /\ UNCHANGED <<late, inProgress, files, history>>

\* json.loads raises on a truncated file, and nothing catches it here.
LookupTorn(r) ==
    /\ extraction[KeyOf[r]].state = "torn"
    /\ Goto(r, "lookup", "done")
    /\ answer' = [answer EXCEPT ![r] = Failure]
    /\ UNCHANGED <<late, inProgress, files, history>>

\* _read_json_object turns a missing or truncated payload into None.
ReadPayload(r) ==
    /\ Goto(r, "hit", "done")
    /\ LET file == payload[KeyOf[r]]
       IN answer' = [answer EXCEPT ![r] =
              Result(answer[r].by,
                     IF file.state = "whole" THEN file.by ELSE NoOne)]
    /\ UNCHANGED <<late, inProgress, files, history>>

\* Mutant: the key is not looked for before it is registered.
RegisterAnyway(r) ==
    /\ Goto(r, "enter", "running")
    /\ inProgress' = inProgress \union {KeyOf[r]}
    /\ UNCHANGED <<late, files, answer, history>>

\* Under the lock: the first call of a key registers it and leaves the loop.
Register(r) ==
    /\ KeyOf[r] \notin inProgress
    /\ Goto(r, "enter", "running")
    /\ inProgress' = inProgress \union {KeyOf[r]}
    /\ UNCHANGED <<late, files, answer, history>>

\* Under the lock: every other call waits, releasing the lock.
Park(r) ==
    /\ KeyOf[r] \in inProgress
    /\ Goto(r, "enter", "waiting")
    /\ UNCHANGED <<late, inProgress, files, answer, history>>

\* Mutant: a wait that times out runs the extraction itself.
WaitTimeoutRuns(r) ==
    /\ Goto(r, "waiting", "running")
    /\ UNCHANGED <<late, inProgress, files, answer, history>>

\* condition.wait returns on its timeout and the loop starts again.
WaitTimeout(r) ==
    /\ Goto(r, "waiting", "lookup")
    /\ UNCHANGED <<late, inProgress, files, answer, history>>

-----------------------------------------------------------------------------
\* The run raises, but not half way through a cache file: download, ingest
\* or runtime failed, or a file could not be opened.
RunFails(r) ==
    /\ pc[r] \in {"running", "ingested", "extracted", "written"}
    /\ pc' = [pc EXCEPT ![r] = "failing"]
    /\ UNCHANGED <<late, inProgress, files, answer, history>>

\* agent_v1 writes the ingested source to its run directory ...
Ingest(r) ==
    /\ Goto(r, "running", "ingested")
    /\ runInputs' =
           IF HasPayload THEN [runInputs EXCEPT ![DirOf[r]] = r] ELSE runInputs
    /\ UNCHANGED <<late, inProgress, cache, answer, history>>

\* Mutant: the path of the file instead of what it holds.
ReadBackPath(r) ==
    /\ Goto(r, "ingested", "extracted")
    /\ answer' = [answer EXCEPT ![r].payloadBy = DirOf[r]]
    /\ UNCHANGED <<late, inProgress, files, history>>

\* ... and reads it back when the extraction is done, None if unreadable.  v0
\* has no source payload.
ReadBack(r) ==
    /\ Goto(r, "ingested", "extracted")
    /\ \E by \in IF HasPayload THEN {NoOne, runInputs[DirOf[r]]} ELSE {NoOne} :
           answer' = [answer EXCEPT ![r].payloadBy = by]
    /\ UNCHANGED <<late, inProgress, files, history>>

\* _write_cached_extraction opens the file: write_text truncates it.
BeginWrite(r) ==
    /\ Goto(r, "extracted", "writing")
    /\ extraction' = [extraction EXCEPT ![KeyOf[r]] = Torn(r)]
    /\ UNCHANGED <<late, inProgress, runInputs, payload, answer, history>>

EndWrite(r) ==
    /\ Goto(r, "writing", "written")
    /\ extraction' = [extraction EXCEPT ![KeyOf[r]] = Whole(r)]
    /\ wrote' = wrote \union {r}
    /\ UNCHANGED <<late, inProgress, runInputs, payload, answer, faults,
                   crashes>>

\* _write_cached_source_payload returns at once when there is no payload ...
SkipPayload(r) ==
    /\ answer[r].payloadBy = NoOne
    /\ Goto(r, "written", "leaving")
    /\ UNCHANGED <<late, inProgress, files, answer, history>>

\* ... and truncates and fills the second cache file when there is one.
BeginPayload(r) ==
    /\ answer[r].payloadBy # NoOne
    /\ Goto(r, "written", "writingPayload")
    /\ payload' = [payload EXCEPT ![KeyOf[r]] = Torn(answer[r].payloadBy)]
    /\ UNCHANGED <<late, inProgress, runInputs, extraction, answer, history>>

EndPayload(r) ==
    /\ Goto(r, "writingPayload", "leaving")
    /\ payload' = [payload EXCEPT ![KeyOf[r]] = Whole(answer[r].payloadBy)]
    /\ UNCHANGED <<late, inProgress, runInputs, extraction, answer, history>>

\* A write raises half way: the truncated file stays and the run has failed.
WriteFails(r) ==
    /\ faults < MaxFaults
    /\ pc[r] \in {"writing", "writingPayload"}
    /\ pc' = [pc EXCEPT ![r] = "failing"]
    /\ faults' = faults + 1
    /\ UNCHANGED <<late, inProgress, files, answer, wrote, crashes>>

\* Mutant: nobody is notified.
WokenNone(p) == p

\* condition.notify_all wakes the waiting calls of every key.
Woken(p) ==
    [s \in Requests |-> IF p[s] = "waiting" THEN "lookup" ELSE p[s]]

\* Mutant: no finally, the key is discarded only when the run succeeds.
FinishWithoutFinally(r) ==
    /\ pc[r] \in {"leaving", "failing"}
    /\ pc' = Woken([pc EXCEPT ![r] = "done"])
    /\ inProgress' = IF pc[r] = "failing" THEN inProgress
                                          ELSE inProgress \ {KeyOf[r]}
    /\ answer' = [answer EXCEPT ![r] =
                    IF pc[r] = "failing" THEN Failure
                    ELSE Result(r, answer[r].payloadBy)]
    /\ UNCHANGED <<late, files, history>>

\* The finally clause, under the lock: discard the key and wake the waiters,
\* then return or raise.
Finish(r) ==
    /\ pc[r] \in {"leaving", "failing"}
    /\ pc' = Woken([pc EXCEPT ![r] = "done"])
    /\ inProgress' = inProgress \ {KeyOf[r]}
    /\ answer' = [answer EXCEPT ![r] =
                    IF pc[r] = "failing" THEN Failure
                    ELSE Result(r, answer[r].payloadBy)]
    /\ UNCHANGED <<late, files, history>>

\* The process dies and is restarted: only the files stay, and the requests
\* may be sent again.
Crash ==
    /\ crashes < MaxCrashes
    /\ crashes' = crashes + 1
    /\ pc' = [r \in Requests |-> "idle"]
    /\ inProgress' = {}
    /\ answer' = [r \in Requests |-> NoAnswer]
    /\ UNCHANGED <<late, files, wrote, faults>>

-----------------------------------------------------------------------------
Run(r) ==
    \/ RunFails(r) \/ Ingest(r) \/ ReadBack(r)
    \/ BeginWrite(r) \/ EndWrite(r)
    \/ SkipPayload(r) \/ BeginPayload(r) \/ EndPayload(r)
    \/ Finish(r)

Loop(r) ==
    \/ LookupMiss(r) \/ LookupHit(r) \/ LookupTorn(r) \/ ReadPayload(r)
    \/ Register(r) \/ Park(r)

Thread(r) == Loop(r) \/ Run(r) \/ WaitTimeout(r) \/ WriteFails(r)

Next == Crash \/ \E r \in Requests : Arrive(r) \/ Thread(r)

Spec == Init /\ [][Next]_vars

\* A thread that can take a step takes one.  A wait may rely on the notify
\* alone, so no fairness is asked of WaitTimeout.
FairSpec == Spec /\ \A r \in Requests : WF_vars(Loop(r) \/ Run(r))

-----------------------------------------------------------------------------
Runner(r) == pc[r] \in RunnerStates

\* No two calls run the extraction of one key at the same time: the set
\* _in_progress_keys is a lock per key.
OneRunnerPerKey ==
    \A r, s \in Requests :
        Runner(r) /\ Runner(s) /\ KeyOf[r] = KeyOf[s] => r = s

\* A registered key always has a call that will discard it: nobody waits on
\* a key whose run has already ended, on the failing path too.
RegisteredKeyHasRunner ==
    \A k \in inProgress : \E r \in Requests : Runner(r) /\ KeyOf[r] = k

\* A call that arrived when its cache file existed never extracts again, and
\* never waits: re-extraction is confined to calls that were already in the
\* loop when the first write began.
LateRequestNeverExtracts ==
    \A r \in late : ~Runner(r) /\ pc[r] \notin {"enter", "waiting"}

\* An extraction that is returned was completely written by a run of the
\* same key, and the source payload it comes with was ingested for the same
\* key, whatever other runs were overwriting meanwhile.
AnswersComeFromFinishedRuns ==
    \A r \in Requests :
        answer[r].outcome = "completed" =>
            /\ answer[r].by \in wrote
            /\ KeyOf[answer[r].by] = KeyOf[r]
            /\ \/ answer[r].payloadBy = NoOne
               \/ KeyOf[answer[r].payloadBy] = KeyOf[r]

\* The call that holds a key, if there is one: by OneRunnerPerKey there is at
\* most one.
RunnerOf(k) ==
    IF \E r \in Requests : Runner(r) /\ KeyOf[r] = k
      THEN CHOOSE r \in Requests : Runner(r) /\ KeyOf[r] = k
      ELSE NoOne

Flight == INSTANCE SingleFlight WITH
    Callers <- Requests, Free <- NoOne,
    holder <- [k \in Keys |-> RunnerOf(k)],
    published <- {KeyOf[r] : r \in wrote},
    outcome <- [r \in Requests |-> answer[r].outcome]

\* The loop, the lock, the truncated files and the restarts implement single
\* flight: one extraction of a key at a time, and no caller gets a result
\* that was not completed for its key.
ImplementsSingleFlight == Flight!FlightSpec

\* Every call that has started is answered, unless the process crashes first.
EveryRequestAnswered ==
    \A r \in Requests : pc[r] = "lookup" ~> pc[r] \in {"done", "idle"}

=============================================================================
