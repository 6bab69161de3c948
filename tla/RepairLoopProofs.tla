-------------------------- MODULE RepairLoopProofs --------------------------
(***************************************************************************)
(* Theorems about the compile-repair loop.  Which issues an agent reads    *)
(* and with which a run may return are facts about the loop counter, so    *)
(* the invariant LoopInv ties the loop's own variable feedback and the     *)
(* file last read to the attempt.  That a repair is a file of its own      *)
(* needs more: from the second attempt on, the file in the directory is    *)
(* the very one that was read and refused (OldIsRefused), until somebody   *)
(* who is still alive writes it.                                           *)
(***************************************************************************)
EXTENDS RepairLoop, TLAPS

\* What an attempt after the first finds is the file that was refused, unless
\* it or an agent left over has written a new one.
OldIsRefused ==
    /\ pc = "loop" /\ attempt > 0 =>
           /\ result.quality \notin RunnerValid
           /\ output = result \/ output.by \in orphans
    /\ pc \in {"agent", "handed"} /\ attempt > 1 =>
           \/ output.by \in {Me} \union orphans
           \/ output = result /\ result.quality \notin RunnerValid

LoopInv ==
    /\ pc # "idle" => run \in 1..MaxRuns
    /\ pc \in {"agent", "handed"} => attempt \in 1..MaxRepairAttempts
    /\ pc = "agent" => round < Rounds
    /\ pc = "loop" => feedback = IF attempt = 0 THEN Nobody ELSE Me
    /\ FeedbackIsOfThePreviousAttempt
    /\ pc \in {"export", "returned"} /\ attempt < MaxRepairAttempts =>
           result.quality \in RunnerValid
    /\ OldIsRefused
    /\ RepairsAreTheirOwn

\* The writer of a file at work is one of the attempts there can be.
LEMMA WriterIsAnAttempt ==
    ASSUME RepairTypeOK, LoopInv, pc \in {"agent", "handed"}
    PROVE  /\ Me \in Attempts
           /\ \A q \in Written \union {"absent"} : File(q, Me) \in Files
  BY RepairBounds DEF RepairTypeOK, LoopInv, Me, Attempts, File, Files

\* Every step of an agent's end writes a file of its own or leaves or removes
\* the one there is, and moves the run on or not; nothing of the loop changes.
LEMMA AgentEndsEffect ==
    ASSUME RepairTypeOK, LoopInv, AgentEnds
    PROVE  /\ pc = "agent"
           /\ \/ output' = output
              \/ output' = Absent /\ pc' = "raised"
              \/ \E q \in Written : output' = File(q, Me)
           /\ pc' \in {"agent", "handed", "raised"}
           /\ orphans' \in {orphans, orphans \union {Me}}
           /\ round' \in 0..Rounds
           /\ pc' = "agent" => round' < Rounds
           /\ UNCHANGED <<runtime, run, attempt, feedback, feedbackFile, result>>
  <1> USE DEF HandOver, RaiseError, Ends
  <1>0. round \in 0..Rounds
        /\ (pc = "agent" => round < Rounds)
    BY DEF RepairTypeOK, LoopInv
  <1>1. CASE StagedReturns
    BY <1>0, <1>1 DEF StagedReturns
  <1>2. CASE StagedFails
    BY <1>0, <1>2 DEF StagedFails
  <1>3. CASE DspyAnswers
    BY <1>0, <1>3 DEF DspyAnswers
  <1>4. CASE AgentRaises
    BY <1>0, <1>4 DEF AgentRaises
  <1>5. CASE \E q \in Schematic \union {"none"} : LangchainRound(q)
    <2>1. PICK q \in Schematic \union {"none"} : LangchainRound(q)
      BY <1>5
    <2>2. output' = output \/ (q \in Written /\ output' = File(q, Me))
      BY <2>1 DEF LangchainRound, StructuredWritten, Schematic, Written
    <2>3. round' \in 0..Rounds
      BY <1>0, <2>1, RepairBounds DEF LangchainRound, Rounds, LoopInv
    <2>4. pc' = "agent" => round' < Rounds
      BY <2>1 DEF LangchainRound
    <2>5. pc = "agent" /\ pc' \in {"agent", "handed", "raised"}
          /\ orphans' = orphans
      BY <2>1 DEF LangchainRound
    <2>6. UNCHANGED <<runtime, run, attempt, feedback, feedbackFile, result>>
      BY <2>1 DEF LangchainRound
    <2> QED
      BY <2>2, <2>3, <2>4, <2>5, <2>6
  <1>6. CASE \E success \in BOOLEAN, p \in Printed : AgentExits(success, p)
    <2>1. PICK success \in BOOLEAN, p \in Printed : AgentExits(success, p)
      BY <1>6
    <2>2. output' = output \/ (p \in Written /\ output' = File(p, Me))
      BY <2>1 DEF AgentExits, Printed, Json, Written
    <2>3. pc' \in {"handed", "raised"}
      BY <2>1 DEF AgentExits
    <2>4. pc = "agent" /\ round' = round
          /\ orphans' = orphans
      BY <2>1 DEF AgentExits
    <2>5. UNCHANGED <<runtime, run, attempt, feedback, feedbackFile, result>>
      BY <2>1 DEF AgentExits
    <2> QED
      BY <1>0, <2>2, <2>3, <2>4, <2>5
  <1>7. CASE WatchCutsAgent
    BY <1>0, <1>7 DEF WatchCutsAgent
  <1>8. CASE Timeout
    BY <1>0, <1>8 DEF Timeout, MayOutlive
  <1> QED
    BY <1>1, <1>2, <1>3, <1>4, <1>5, <1>6, <1>7, <1>8 DEF AgentEnds

\* Initially nothing has run and there is no file.
LEMMA InitInv == RepairInit => RepairTypeOK /\ LoopInv
  BY RepairBounds, RuntimesAssumption
  DEF RepairInit, RepairTypeOK, LoopInv, FeedbackIsOfThePreviousAttempt,
      Files, Absent, Nobody, Rounds, Notes, LoopNote, OldIsRefused,
      RepairsAreTheirOwn

\* A step keeps the types: a file is written by an attempt there can be.
LEMMA TypePreserved ==
    ASSUME RepairTypeOK, LoopInv, [Next]_vars
    PROVE  RepairTypeOK'
  <1> USE RepairBounds DEF RepairTypeOK
  <1>a. Absent \in Files
    BY DEF Absent, Files
  <1>b. \A a \in Attempts \union {Nobody} :
            LoopNote(a) \in Notes /\ AgentNote(a) \in Notes
    BY DEF LoopNote, AgentNote, Notes
  <1>1. CASE StartRun
    BY <1>1, <1>a DEF StartRun
  <1>2. CASE Crash
    <2>1. "torn" \in Written
      BY DEF Written
    <2>2. output' \in Files
      BY <1>2, <2>1, WriterIsAnAttempt DEF Crash, Files, File
    <2>3. orphans' \in SUBSET Attempts
      BY <1>2, WriterIsAnAttempt DEF Crash, MayOutlive
    <2> QED
      BY <1>2, <2>2, <2>3 DEF Crash
  <1>3. CASE BeginAttempt
    BY <1>3, <1>b DEF BeginAttempt, Rounds
  <1>4. CASE Read
    BY <1>4, WriterIsAnAttempt DEF Read
  <1>5. CASE GiveUp
    BY <1>5 DEF GiveUp
  <1>6. CASE Export
    BY <1>6 DEF Export, Materialized, File, Files, Written
  <1>7. CASE AgentWrites
    BY <1>7, <1>b, WriterIsAnAttempt DEF AgentWrites, WritesAFile
  <1>8. CASE OrphanWrites
    BY <1>8, <1>b DEF OrphanWrites, WritesAFile, File, Files
  <1>9. CASE AgentEnds
    <2>1. output' \in Files
      BY <1>9, <1>a, AgentEndsEffect, WriterIsAnAttempt
    <2>2. orphans' \in SUBSET Attempts
      BY <1>9, AgentEndsEffect, WriterIsAnAttempt
    <2> QED
      BY <1>9, <2>1, <2>2, AgentEndsEffect
  <1>10. CASE UNCHANGED vars
    BY <1>10 DEF vars
  <1> QED
    BY <1>1, <1>2, <1>3, <1>4, <1>5, <1>6, <1>7, <1>8, <1>9, <1>10
       DEF Next, Progress

\* A step keeps the loop's bookkeeping, and what is known of the old file.
LEMMA LoopPreserved ==
    ASSUME RepairTypeOK, LoopInv, [Next]_vars
    PROVE  LoopInv'
  <1> USE RepairBounds DEF RepairTypeOK, LoopInv, OldIsRefused,
          RepairsAreTheirOwn, FeedbackIsOfThePreviousAttempt, Me, Nobody,
          Rounds
  <1>1. CASE StartRun
    BY <1>1 DEF StartRun
  <1>2. CASE Crash
    BY <1>2 DEF Crash
  <1>3. CASE BeginAttempt
    <2>1. feedbackFile' = LoopNote(IF attempt' = 1 THEN Nobody
                                   ELSE <<run', attempt' - 1>>)
      BY <1>3 DEF BeginAttempt
    <2> QED
      BY <1>3, <2>1 DEF BeginAttempt
  <1>4. CASE Read
    BY <1>4 DEF Read
  <1>5. CASE GiveUp
    BY <1>5 DEF GiveUp
  <1>6. CASE Export
    BY <1>6 DEF Export
  <1>7. CASE AgentWrites
    BY <1>7 DEF AgentWrites, WritesAFile, AgentNote, File
  <1>8. CASE OrphanWrites
    BY <1>8 DEF OrphanWrites, WritesAFile, AgentNote, File
  <1>9. CASE AgentEnds
    BY <1>9, AgentEndsEffect DEF File
  <1>10. CASE UNCHANGED vars
    BY <1>10 DEF vars
  <1> QED
    BY <1>1, <1>2, <1>3, <1>4, <1>5, <1>6, <1>7, <1>8, <1>9, <1>10
       DEF Next, Progress

\* The invariant of the loop holds in every reachable state.
LEMMA RepairInvariant == RepairSpec => [](RepairTypeOK /\ LoopInv)
  BY InitInv, TypePreserved, LoopPreserved, PTL DEF RepairSpec

\* Every variable of the loop keeps its type: no attempt is begun beyond the
\* configured number, and no langchain round beyond its own.
THEOREM RepairTypeCorrect == RepairSpec => []RepairTypeOK
  BY RepairInvariant, PTL

\* validation_feedback.json is about the attempt just before, of the same run,
\* and about the output next to it, whenever an agent may read the two, unless
\* an agent that is alive has replaced one of them.
THEOREM FeedbackTheorem == RepairSpec => []FeedbackIsOfThePreviousAttempt
  <1>1. LoopInv => FeedbackIsOfThePreviousAttempt
    BY DEF LoopInv
  <1> QED
    BY <1>1, RepairInvariant, PTL

\* Issues are returned only by a run that used all of its attempts.
THEOREM IssuesTheorem == RepairSpec => []IssuesOnlyAfterAllAttempts
  <1>1. LoopInv => IssuesOnlyAfterAllAttempts
    BY DEF LoopInv, IssuesOnlyAfterAllAttempts, Materialized, File
  <1> QED
    BY <1>1, RepairInvariant, PTL

\* A repair ends as a success only with a file that it, or an agent left over
\* from a timeout, wrote: old output is handed over again, and refused again.
THEOREM RepairTheorem == RepairSpec => []RepairsAreTheirOwn
  <1>1. LoopInv => RepairsAreTheirOwn
    BY DEF LoopInv
  <1> QED
    BY <1>1, RepairInvariant, PTL
=============================================================================
