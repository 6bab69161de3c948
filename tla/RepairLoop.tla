----------------------------- MODULE RepairLoop -----------------------------
(***************************************************************************)
(* Runs of the agent_v1 compiler in one run directory: the compile-repair  *)
(* loop of runner.py, the four runtimes it drives (staged, dspy, langchain *)
(* and a command line agent behind wrappers/prompt_agent.py), and the      *)
(* files they share: agent_output.json and validation_feedback.json.       *)
(*                                                                         *)
(* An artifact is reduced to who wrote it and to what the checks on it     *)
(* tell apart.  The runner validates it with the paper's own metadata      *)
(* filled in; the agent's tools and the langchain runtime validate it      *)
(* without, so either check can accept what the other refuses.  The agents *)
(* and their answers are external.                                         *)
(***************************************************************************)
EXTENDS Naturals, FiniteSets

CONSTANTS
    Runtimes,          \* the runtimes a run may be configured with
    MaxRepairAttempts, \* AgentV1Config.max_repair_attempts
    MaxRuns,           \* bound: runs in the directory, restarts included
    MaxOrphans         \* bound: agents that outlive their wrapper

ASSUME RuntimesAssumption ==
    Runtimes \subseteq {"staged", "dspy", "langchain", "watched", "unwatched"}
ASSUME RepairBounds ==
    MaxRepairAttempts \in Nat /\ MaxRuns \in Nat /\ MaxOrphans \in Nat

VARIABLES
    runtime,  \* the runtime of the runs
    run,      \* number of the current run
    attempt,  \* attempts of the run begun so far
    round,    \* rounds of the langchain loop in this attempt
    pc,       \* where the run is
    output,   \* agent_output.json: its quality and its writer
    feedback, \* the attempt the loop's feedback is about
    feedbackFile, \* validation_feedback.json: what it is about, its writer
    result,   \* what _compile_with_repair read last
    orphans   \* attempts whose agent is still alive after a timeout

vars == <<runtime, run, attempt, round, pc, output, feedback, feedbackFile,
          result, orphans>>

\* What a file of agent_output.json may be: no JSON, JSON but no object, an
\* object the schema refuses, one with issues either way, one only the check
\* without (aloneOnly) or with the paper's metadata (paperOnly) accepts, one
\* both accept.
Written == {"torn", "list", "unschematic", "issues", "aloneOnly", "paperOnly",
            "valid"}
Json == Written \ {"torn"}
Schematic == {"issues", "aloneOnly", "valid"}
StandaloneValid == {"aloneOnly", "valid"}
RunnerValid == {"paperOnly", "valid"}

Nobody == <<0, 0>>
Attempts == (1..MaxRuns) \X (1..MaxRepairAttempts)
Me == <<run, attempt>>
Absent == [quality |-> "absent", by |-> Nobody]
File(q, w) == [quality |-> q, by |-> w]
Files == [quality : Written \union {"absent"}, by : Attempts \union {Nobody}]

\* A note in validation_feedback.json: the loop's own is about an attempt, or
\* about none; of one that an agent wrote only the writer matters.
LoopNote(a) == [about |-> a, by |-> Nobody]
AgentNote(w) == [about |-> Nobody, by |-> w]
Notes == [about : Attempts \union {Nobody}, by : Attempts \union {Nobody}]

Cli == runtime \in {"watched", "unwatched"}
Rounds == IF MaxRepairAttempts = 0 THEN 1 ELSE MaxRepairAttempts

RepairTypeOK ==
    /\ runtime \in Runtimes
    /\ run \in 0..MaxRuns
    /\ attempt \in 0..MaxRepairAttempts
    /\ round \in 0..Rounds
    /\ pc \in {"idle", "loop", "agent", "handed", "export", "returned", "raised"}
    /\ output \in Files
    /\ feedback \in Attempts \union {Nobody}
    /\ feedbackFile \in Notes
    /\ result \in Files
    /\ orphans \in SUBSET Attempts

RepairInit ==
    /\ runtime \in Runtimes
    /\ run = 0
    /\ attempt = 0
    /\ round = 0
    /\ pc = "idle"
    /\ output = Absent
    /\ feedback = Nobody
    /\ feedbackFile = LoopNote(Nobody)
    /\ result = Absent
    /\ orphans = {}

-----------------------------------------------------------------------------
\* Another run in the directory, of another task key or after a restart, maybe
\* with another runtime: the files stay.
StartRun ==
    /\ pc \in {"idle", "returned", "raised"}
    /\ run < MaxRuns
    /\ run' = run + 1
    /\ pc' = "loop"
    /\ attempt' = 0
    /\ feedback' = Nobody
    /\ result' = Absent
    /\ runtime' \in Runtimes
    /\ UNCHANGED <<round, output, feedbackFile, orphans>>

\* A command line agent that outlives its wrapper, if it does.
MayOutlive ==
    \/ UNCHANGED orphans
    \/ /\ Cli /\ pc = "agent"
       /\ Cardinality(orphans) < MaxOrphans
       /\ orphans' = orphans \union {Me}

\* The miner is killed, maybe while it writes the file: an agent of its command
\* line is not.
Crash ==
    /\ pc \in {"loop", "agent", "handed", "export"}
    /\ run < MaxRuns
    /\ pc' = "idle"
    /\ \/ UNCHANGED output
       \/ pc = "agent" /\ output' = File("torn", Me)
       \/ pc = "export" /\ output' = File("torn", result.by)
    /\ MayOutlive
    /\ UNCHANGED <<runtime, run, attempt, round, feedback, feedbackFile,
                   result>>

-----------------------------------------------------------------------------
\* Mutant: a first attempt leaves the feedback file alone.
BeginAttemptWithoutFeedback ==
    /\ pc = "loop"
    /\ attempt < MaxRepairAttempts
    /\ attempt' = attempt + 1
    /\ feedbackFile' = IF feedback = Nobody
                       THEN feedbackFile ELSE LoopNote(feedback)
    /\ round' = 0
    /\ pc' = "agent"
    /\ UNCHANGED <<runtime, run, output, feedback, result, orphans>>

\* Write the feedback and the request, then run the skill.
BeginAttempt ==
    /\ pc = "loop"
    /\ attempt < MaxRepairAttempts
    /\ attempt' = attempt + 1
    /\ feedbackFile' = LoopNote(feedback)
    /\ round' = 0
    /\ pc' = "agent"
    /\ UNCHANGED <<runtime, run, output, feedback, result, orphans>>

\* Mutant: the runner's check leaves out the paper's metadata.
ReadWithoutPaper ==
    /\ pc = "handed"
    /\ result' = output
    /\ \/ output.quality = "unschematic" /\ pc' = "raised" /\ UNCHANGED feedback
       \/ output.quality \in StandaloneValid /\ pc' = "export"
          /\ UNCHANGED feedback
       \/ output.quality \notin StandaloneValid \union {"unschematic"}
          /\ pc' = "loop" /\ feedback' = Me
    /\ UNCHANGED <<runtime, run, attempt, round, output, feedbackFile,
                   orphans>>

\* Read the output back, whoever wrote it; materialize_agent_artifact may
\* raise, and an artifact without issues ends the loop.
Read ==
    /\ pc = "handed"
    /\ result' = output
    /\ \/ output.quality = "unschematic" /\ pc' = "raised" /\ UNCHANGED feedback
       \/ output.quality \in RunnerValid /\ pc' = "export" /\ UNCHANGED feedback
       \/ output.quality \notin RunnerValid \union {"unschematic"}
          /\ pc' = "loop" /\ feedback' = Me
    /\ UNCHANGED <<runtime, run, attempt, round, output, feedbackFile,
                   orphans>>

\* The attempts are used up: the last artifact is returned with its issues.
GiveUp ==
    /\ pc = "loop"
    /\ attempt = MaxRepairAttempts
    /\ pc' = "export"
    /\ UNCHANGED <<runtime, run, attempt, round, output, feedback,
                   feedbackFile, result, orphans>>

\* write_agent_directory writes the artifact as materialized: the paper's
\* metadata is in it, and what could not be read is an empty artifact.
Materialized(f) ==
    File(IF f.quality \in RunnerValid THEN "valid" ELSE "issues", f.by)

Export ==
    /\ pc = "export"
    /\ output' = Materialized(result)
    /\ pc' = "returned"
    /\ UNCHANGED <<runtime, run, attempt, round, feedback, feedbackFile,
                   result, orphans>>

-----------------------------------------------------------------------------
\* The tools of an agent, and a command line agent itself, write any file of
\* the run directory: the output, or the feedback they were given.
WritesAFile(w) ==
    \/ \E q \in Written : output' = File(q, w) /\ UNCHANGED feedbackFile
    \/ feedbackFile' = AgentNote(w) /\ UNCHANGED output

AgentWrites ==
    /\ pc = "agent"
    /\ runtime # "staged"
    /\ WritesAFile(Me)
    /\ UNCHANGED <<runtime, run, attempt, round, pc, feedback, result, orphans>>

\* How run_skill ends, with or without a result.
HandOver == pc' = "handed"

\* Mutant: an error of the runtime does not end the run, the loop goes on.
RaiseErrorAndRetry == pc' = "loop"

RaiseError == pc' = "raised"
Ends == UNCHANGED <<runtime, run, attempt, feedback, feedbackFile, result>>

\* The pipeline's artifact replaces the file.
StagedReturns ==
    /\ pc = "agent" /\ runtime = "staged"
    /\ \E q \in Written \ {"torn", "list"} : output' = File(q, Me)
    /\ HandOver
    /\ Ends /\ UNCHANGED <<round, orphans>>

\* The pipeline raises: an older output is removed, then the error goes on.
StagedFails ==
    /\ pc = "agent" /\ runtime = "staged"
    /\ output' = Absent
    /\ RaiseError
    /\ Ends /\ UNCHANGED <<round, orphans>>

\* The program's final_json is written unless the file exists already.
DspyAnswers ==
    /\ pc = "agent" /\ runtime = "dspy"
    /\ \E q \in Written :
           output' = IF output.quality = "absent" THEN File(q, Me) ELSE output
    /\ HandOver
    /\ Ends /\ UNCHANGED <<round, orphans>>

\* The model or the library raises; any runtime may before its agent is at
\* work, for want of a prompt, a library, a key or the command.
AgentRaises ==
    /\ pc = "agent"
    /\ \/ runtime \in {"dspy", "langchain"}
       \/ output.by # Me /\ feedbackFile.by # Me
    /\ RaiseError
    /\ Ends /\ UNCHANGED <<round, output, orphans>>

\* A round of the langchain loop.  A valid file ends it, before the structured
\* response is looked at, else after that was written.
StructuredWritten(q) ==
    IF q = "none" \/ output.quality \in StandaloneValid
      THEN output ELSE File(q, Me)

\* Mutant: rounds are not counted.
LangchainRoundUncounted(q) ==
    /\ pc = "agent" /\ runtime = "langchain"
    /\ output' = StructuredWritten(q)
    /\ UNCHANGED round
    /\ \/ output'.quality \in StandaloneValid /\ HandOver
       \/ output'.quality \notin StandaloneValid /\ UNCHANGED pc
    /\ Ends /\ UNCHANGED orphans

LangchainRound(q) ==
    /\ pc = "agent" /\ runtime = "langchain"
    /\ output' = StructuredWritten(q)
    /\ round' = round + 1
    /\ \/ output'.quality \in StandaloneValid /\ HandOver
       \/ output'.quality \notin StandaloneValid /\ round' < Rounds
          /\ UNCHANGED pc
       \/ output'.quality \notin StandaloneValid /\ round' = Rounds
          /\ RaiseError
    /\ Ends /\ UNCHANGED orphans

-----------------------------------------------------------------------------
\* The command line agent ends.  With watching, its wrapper calls any exit a
\* success when the file fits the schema; after a success it writes what was
\* printed if there is no file.  SubprocessAgentRuntime takes a success with a
\* file, and a failure when the file is JSON.
WrapperSucceeds(success) ==
    success \/ (runtime = "watched" /\ output.quality \in Schematic)

AgentExits(success, printed) ==
    /\ pc = "agent" /\ Cli
    /\ output' = IF /\ WrapperSucceeds(success)
                    /\ output.quality = "absent"
                    /\ printed # "none"
                   THEN File(printed, Me) ELSE output
    /\ IF IF WrapperSucceeds(success) THEN output'.quality # "absent"
                                      ELSE output.quality \in Json
         THEN HandOver ELSE RaiseError
    /\ Ends /\ UNCHANGED <<round, orphans>>

\* The wrapper sees a file that fits the schema and does not change for some
\* seconds, and terminates the agent.
WatchCutsAgent ==
    /\ pc = "agent" /\ runtime = "watched"
    /\ output.quality \in Schematic
    /\ HandOver
    /\ Ends /\ UNCHANGED <<round, output, orphans>>

\* subprocess.run kills the wrapper, and a JSON file is recovered.
Timeout ==
    /\ pc = "agent" /\ Cli
    /\ MayOutlive
    /\ IF output.quality \in Json THEN HandOver ELSE RaiseError
    /\ Ends /\ UNCHANGED <<round, output>>

OrphanWrites ==
    /\ \E o \in orphans : WritesAFile(o)
    /\ UNCHANGED <<runtime, run, attempt, round, pc, feedback, result, orphans>>

-----------------------------------------------------------------------------
Printed == (Json \ {"list"}) \union {"none"}

AgentEnds ==
    \/ StagedReturns \/ StagedFails \/ DspyAnswers \/ AgentRaises
    \/ \E q \in Schematic \union {"none"} : LangchainRound(q)
    \/ \E success \in BOOLEAN, p \in Printed : AgentExits(success, p)
    \/ WatchCutsAgent \/ Timeout

Progress == BeginAttempt \/ AgentEnds \/ Read \/ GiveUp \/ Export

Next == StartRun \/ Crash \/ Progress \/ AgentWrites \/ OrphanWrites

RepairSpec == RepairInit /\ [][Next]_vars

\* The loop goes on by itself; agents of the libraries end with max_iters or an
\* error, and an agent of the command line is ended by the timer at the latest.
FairRepairSpec == RepairSpec /\ WF_vars(Progress)

-----------------------------------------------------------------------------
\* The feedback an agent finds is about the file it finds: the loop wrote it
\* about the attempt just before, in the same run (about none in a first one),
\* and the output is still the one that attempt was judged by, whichever run
\* and runtime left the files in the directory.  Only the agent itself, or one
\* left over from a timeout, may have replaced either file since.
FeedbackIsOfThePreviousAttempt ==
    pc = "agent" =>
        \/ feedbackFile.by \in {Me} \union orphans
        \/ /\ feedbackFile =
                 LoopNote(IF attempt = 1 THEN Nobody ELSE <<run, attempt - 1>>)
           /\ attempt = 1 \/ output = result
                 \/ output.by \in {Me} \union orphans

\* A run returns an artifact with issues only after all of its attempts were
\* used, whichever of the three validations in its way accepted the file.
IssuesOnlyAfterAllAttempts ==
    pc \in {"export", "returned"} /\ attempt < MaxRepairAttempts =>
        Materialized(result).quality = "valid"

\* A repair succeeds only with a file of its own: what an earlier attempt or an
\* earlier run left in the directory is handed over again by a timeout, by a
\* failed command, by an old file that langchain finds valid or dspy leaves in
\* place, but it never ends a repair as a success.  Only an agent left over
\* from a timeout can write into a later attempt's file.
RepairsAreTheirOwn ==
    /\ pc \in {"export", "returned"}
    /\ attempt > 1
    /\ result.quality \in RunnerValid
    => result.by \in {Me} \union orphans

\* Every run that is not killed returns or raises.
RunEnds == []<>(pc \in {"idle", "returned", "raised"})

=============================================================================
