-------------------------- MODULE BatchMinerProofs --------------------------
(***************************************************************************)
(* Proofs about TaskCoalescing, for any set of calls, keys and run         *)
(* directories and any number of write failures and crashes: its type      *)
(* invariant, its safety invariants, and that it implements SingleFlight.  *)
(*                                                                         *)
(* Then proofs about BatchMiner, for a batch of any size, any pool of      *)
(* workers, any number of attempts, write failures and restarts: that the  *)
(* batch is an instance of the coalescing cache, so that all that is       *)
(* proved of the cache holds in it, and the three safety invariants of the *)
(* batch.                                                                  *)
(***************************************************************************)
EXTENDS BatchMiner, TLAPS

(***************************************************************************)
(* The inductive invariant.  The safety invariants are not inductive as    *)
(* they stand: that a run is alone needs that its key is registered, and   *)
(* that an answer comes from a finished run needs what the files, the run  *)
(* directories and the half-built answers hold at every step before.       *)
(***************************************************************************)

\* Whoever runs has its key registered: the set is a lock per key.
RunnersAreRegistered ==
    \A r \in Requests : Runner(r) => KeyOf[r] \in inProgress

\* A cache file once created is never absent again.
LateKeysHaveFiles ==
    \A r \in late : extraction[KeyOf[r]].state # "absent"

\* A whole cache file was completed by a run of its key.
WholeFilesAreFinished ==
    \A k \in Keys : extraction[k].state = "whole" =>
        extraction[k].by \in wrote /\ KeyOf[extraction[k].by] = k

\* Payload files hold what was ingested for their key, run directories what
\* was ingested in them.
PayloadsAreOfTheKey ==
    /\ \A k \in Keys : payload[k].by # NoOne => KeyOf[payload[k].by] = k
    /\ \A d \in Dirs : runInputs[d] # NoOne => DirOf[runInputs[d]] = d

\* A call that has not returned has no outcome yet, and whatever part of its
\* answer it has already read belongs to its key.
AnswersGrowSoundly ==
    \A r \in Requests :
        /\ pc[r] # "done" => answer[r].outcome = "none"
        /\ answer[r].payloadBy # NoOne =>
               KeyOf[answer[r].payloadBy] = KeyOf[r]
        /\ pc[r] = "hit" =>
               answer[r].by \in wrote /\ KeyOf[answer[r].by] = KeyOf[r]
        /\ pc[r] \in {"written", "writingPayload", "leaving"} => r \in wrote

IInv ==
    /\ RunnersAreRegistered
    /\ OneRunnerPerKey
    /\ RegisteredKeyHasRunner
    /\ LateRequestNeverExtracts
    /\ LateKeysHaveFiles
    /\ WholeFilesAreFinished
    /\ PayloadsAreOfTheKey
    /\ AnswersGrowSoundly
    /\ AnswersComeFromFinishedRuns

-----------------------------------------------------------------------------
\* Every variable keeps its type: no action of _run_task_coalesced, no failed
\* write and no crash takes the state out of TypeOK.
THEOREM TypeCorrect == Spec => []TypeOK
<1> USE KeyOfAssumption, DirOfAssumption, NoOneAssumption, BoundAssumption
<1>1. Init => TypeOK
  BY DEF Init, TypeOK, PcStates, File, Authors, NoFile, Answer, NoAnswer
<1>2. TypeOK /\ [Next]_vars => TypeOK'
  <2> SUFFICES ASSUME TypeOK, [Next]_vars PROVE TypeOK'
    OBVIOUS
  <2> USE DEF TypeOK, PcStates, RunnerStates, Authors, Goto, history, files,
              cache
  <2>1. CASE Crash
    BY <2>1 DEF Crash, Answer, NoAnswer
  <2>2. ASSUME NEW r \in Requests, Arrive(r) PROVE TypeOK'
    BY <2>2 DEF Arrive
  <2>3. ASSUME NEW r \in Requests, Loop(r) PROVE TypeOK'
    <3>1. CASE LookupMiss(r)
      BY <3>1 DEF LookupMiss
    <3>2. CASE LookupHit(r)
      <4>1. answer' \in [Requests -> Answer]
        <5>1. extraction[KeyOf[r]].by \in Authors
          BY DEF File
        <5> QED BY <3>2, <5>1 DEF LookupHit, Answer
      <4> QED BY <3>2, <4>1 DEF LookupHit
    <3>3. CASE LookupTorn(r)
      BY <3>3 DEF LookupTorn, Answer, Failure
    <3>4. CASE ReadPayload(r)
      <4>1. payload[KeyOf[r]].by \in Authors
        BY DEF File
      <4>2. answer' \in [Requests -> Answer]
        <5>1. answer[r] \in Answer
          OBVIOUS
        <5> QED BY <3>4, <4>1, <5>1 DEF ReadPayload, Answer, Result
      <4> QED BY <3>4, <4>2 DEF ReadPayload
    <3>5. CASE Register(r)
      BY <3>5 DEF Register
    <3>6. CASE Park(r)
      BY <3>6 DEF Park
    <3> QED BY <2>3, <3>1, <3>2, <3>3, <3>4, <3>5, <3>6 DEF Loop
  <2>4. ASSUME NEW r \in Requests, Run(r) PROVE TypeOK'
    <3>1. CASE RunFails(r)
      BY <3>1 DEF RunFails
    <3>2. CASE Ingest(r)
      BY <3>2 DEF Ingest
    <3>3. CASE ReadBack(r)
      BY <3>3 DEF ReadBack, Answer
    <3>4. CASE BeginWrite(r)
      BY <3>4 DEF BeginWrite, File, Torn
    <3>5. CASE EndWrite(r)
      BY <3>5 DEF EndWrite, File, Whole
    <3>6. CASE SkipPayload(r)
      BY <3>6 DEF SkipPayload
    <3>7. CASE BeginPayload(r)
      BY <3>7 DEF BeginPayload, File, Torn, Answer
    <3>8. CASE EndPayload(r)
      BY <3>8 DEF EndPayload, File, Whole, Answer
    <3>9. CASE Finish(r)
      <4>1. pc' \in [Requests -> PcStates]
        BY <3>9 DEF Finish, Woken
      <4>2. Result(r, answer[r].payloadBy) \in Answer
        <5>1. answer[r] \in Answer
          OBVIOUS
        <5> QED BY <5>1 DEF Answer, Result
      <4>3. Failure \in Answer
        BY DEF Answer, Failure
      <4>4. answer' \in [Requests -> Answer]
        BY <3>9, <4>2, <4>3 DEF Finish
      <4> QED BY <3>9, <4>1, <4>4 DEF Finish
    <3> QED BY <2>4, <3>1, <3>2, <3>3, <3>4, <3>5, <3>6, <3>7, <3>8, <3>9
                DEF Run
  <2>5. ASSUME NEW r \in Requests, WaitTimeout(r) PROVE TypeOK'
    BY <2>5 DEF WaitTimeout
  <2>6. ASSUME NEW r \in Requests, WriteFails(r) PROVE TypeOK'
    BY <2>6 DEF WriteFails
  <2>7. CASE UNCHANGED vars
    BY <2>7 DEF vars
  <2> QED BY <2>1, <2>2, <2>3, <2>4, <2>5, <2>6, <2>7 DEF Next, Thread
<1> QED BY <1>1, <1>2, PTL DEF Spec

-----------------------------------------------------------------------------
\* The inductive invariant holds initially ...
LEMMA IInvInit == Init => IInv
BY NoOneAssumption
   DEF Init, IInv, RunnersAreRegistered, OneRunnerPerKey,
       RegisteredKeyHasRunner, LateRequestNeverExtracts, LateKeysHaveFiles,
       WholeFilesAreFinished, PayloadsAreOfTheKey, AnswersGrowSoundly,
       AnswersComeFromFinishedRuns, Runner, RunnerStates, NoFile, NoAnswer

\* ... and every action keeps it.
LEMMA IInvNext == TypeOK /\ IInv /\ [Next]_vars => IInv'
<1> SUFFICES ASSUME TypeOK, IInv, [Next]_vars PROVE IInv'
  OBVIOUS
<1> USE KeyOfAssumption, DirOfAssumption, NoOneAssumption
<1> USE DEF IInv, RunnersAreRegistered, OneRunnerPerKey,
            RegisteredKeyHasRunner, LateRequestNeverExtracts,
            LateKeysHaveFiles, WholeFilesAreFinished, PayloadsAreOfTheKey,
            AnswersGrowSoundly, AnswersComeFromFinishedRuns,
            Runner, RunnerStates, Goto, history, files, cache, TypeOK
<1>1. CASE Crash
  <2>1. /\ pc' = [r \in Requests |-> "idle"]
        /\ answer' = [r \in Requests |-> NoAnswer]
        /\ inProgress' = {}
        /\ UNCHANGED <<late, runInputs, extraction, payload, wrote>>
    BY <1>1 DEF Crash
  <2>2. RunnersAreRegistered' /\ OneRunnerPerKey' /\ RegisteredKeyHasRunner'
    BY <2>1
  <2>3. LateRequestNeverExtracts' /\ LateKeysHaveFiles'
    BY <2>1
  <2>4. WholeFilesAreFinished' /\ PayloadsAreOfTheKey'
    BY <2>1
  <2>5. AnswersGrowSoundly' /\ AnswersComeFromFinishedRuns'
    BY <2>1 DEF NoAnswer
  <2> HIDE DEF RunnersAreRegistered, OneRunnerPerKey,
               RegisteredKeyHasRunner, LateRequestNeverExtracts,
               LateKeysHaveFiles, WholeFilesAreFinished, PayloadsAreOfTheKey,
               AnswersGrowSoundly, AnswersComeFromFinishedRuns
  <2> QED BY <2>2, <2>3, <2>4, <2>5
<1>2. ASSUME NEW r \in Requests, Arrive(r) PROVE IInv'
  BY <1>2 DEF Arrive
<1>3. ASSUME NEW r \in Requests, Loop(r) PROVE IInv'
  <2>1. CASE LookupMiss(r)
    BY <2>1 DEF LookupMiss
  <2>2. CASE LookupHit(r)
    BY <2>2 DEF LookupHit
  <2>3. CASE LookupTorn(r)
    BY <2>3 DEF LookupTorn, Failure
  <2>4. CASE ReadPayload(r)
    BY <2>4 DEF ReadPayload, Result
  <2>5. CASE Register(r)
    BY <2>5 DEF Register
  <2>6. CASE Park(r)
    BY <2>6 DEF Park
  <2> QED BY <1>3, <2>1, <2>2, <2>3, <2>4, <2>5, <2>6 DEF Loop
<1>4. ASSUME NEW r \in Requests, Run(r) PROVE IInv'
  <2>1. CASE RunFails(r)
    BY <2>1 DEF RunFails
  <2>2. CASE Ingest(r)
    BY <2>2 DEF Ingest
  <2>3. CASE ReadBack(r)
    <3>1. PICK p \in {NoOne, runInputs[DirOf[r]]} :
              answer' = [answer EXCEPT ![r].payloadBy = p]
      BY <2>3 DEF ReadBack
    <3>2. p # NoOne => KeyOf[p] = KeyOf[r]
      <4>1. runInputs[DirOf[r]] \in Authors
        OBVIOUS
      <4>2. p # NoOne => p \in Requests /\ DirOf[p] = DirOf[r]
        BY <4>1 DEF Authors
      <4> QED BY <4>2
    <3>3. /\ pc[r] = "ingested"
          /\ pc' = [pc EXCEPT ![r] = "extracted"]
          /\ UNCHANGED <<late, inProgress, runInputs, extraction, payload,
                         wrote>>
      BY <2>3 DEF ReadBack
    <3>4. \A s \in Requests :
             /\ answer'[s].outcome = answer[s].outcome
             /\ answer'[s].by = answer[s].by
             /\ answer'[s].payloadBy =
                    IF s = r THEN p ELSE answer[s].payloadBy
      BY <3>1 DEF Answer
    <3>5. AnswersGrowSoundly' /\ AnswersComeFromFinishedRuns'
      <4>1. AnswersGrowSoundly'
        BY <3>2, <3>3, <3>4
      <4>2. AnswersComeFromFinishedRuns'
        BY <3>2, <3>3, <3>4
      <4> QED BY <4>1, <4>2
    <3>6. /\ RunnersAreRegistered' /\ OneRunnerPerKey'
          /\ RegisteredKeyHasRunner' /\ LateRequestNeverExtracts'
          /\ LateKeysHaveFiles' /\ WholeFilesAreFinished'
          /\ PayloadsAreOfTheKey'
      BY <3>3
    <3> HIDE DEF RunnersAreRegistered, OneRunnerPerKey,
                 RegisteredKeyHasRunner, LateRequestNeverExtracts,
                 LateKeysHaveFiles, WholeFilesAreFinished,
                 PayloadsAreOfTheKey, AnswersGrowSoundly,
                 AnswersComeFromFinishedRuns
    <3> QED BY <3>5, <3>6
  <2>4. CASE BeginWrite(r)
    BY <2>4 DEF BeginWrite, Torn
  <2>5. CASE EndWrite(r)
    BY <2>5 DEF EndWrite, Whole
  <2>6. CASE SkipPayload(r)
    BY <2>6 DEF SkipPayload
  <2>7. CASE BeginPayload(r)
    BY <2>7 DEF BeginPayload, Torn
  <2>8. CASE EndPayload(r)
    BY <2>8 DEF EndPayload, Whole
  <2>9. CASE Finish(r)
    BY <2>9 DEF Finish, Woken, Failure, Result
  <2> QED BY <1>4, <2>1, <2>2, <2>3, <2>4, <2>5, <2>6, <2>7, <2>8, <2>9
              DEF Run
<1>5. ASSUME NEW r \in Requests, WaitTimeout(r) PROVE IInv'
  BY <1>5 DEF WaitTimeout
<1>6. ASSUME NEW r \in Requests, WriteFails(r) PROVE IInv'
  BY <1>6 DEF WriteFails
<1>7. CASE UNCHANGED vars
  BY <1>7 DEF vars
<1> QED BY <1>1, <1>2, <1>3, <1>4, <1>5, <1>6, <1>7 DEF Next, Thread

\* The inductive invariant holds in every reachable state.
LEMMA IInvAlways == Spec => [](TypeOK /\ IInv)
<1>1. Init => IInv
  BY IInvInit
<1>2. TypeOK /\ IInv /\ [Next]_vars => IInv'
  BY IInvNext
<1>3. Spec => []TypeOK
  BY TypeCorrect
<1> QED BY <1>1, <1>2, <1>3, PTL DEF Spec

-----------------------------------------------------------------------------
\* However the calls interleave, fail or are restarted, at most one of them
\* runs the extraction of a key.
THEOREM SingleRunner == Spec => []OneRunnerPerKey
BY IInvAlways, PTL DEF IInv

\* Nobody ever waits on a key whose run has ended: a registered key has a call
\* that is bound to discard it.
THEOREM NoOrphanedKey == Spec => []RegisteredKeyHasRunner
BY IInvAlways, PTL DEF IInv

\* A call that found a cache file when it arrived never extracts or waits.
THEOREM LateNeverExtracts == Spec => []LateRequestNeverExtracts
BY IInvAlways, PTL DEF IInv

\* A returned extraction was completed by a run of the caller's key, and so
\* was the source payload it comes with.
THEOREM AnswersAreFinished == Spec => []AnswersComeFromFinishedRuns
BY IInvAlways, PTL DEF IInv

-----------------------------------------------------------------------------
(***************************************************************************)
(* Refinement.  While runs are alone, RunnerOf is the holder of a key, and *)
(* it changes only when somebody starts or stops running.                  *)
(***************************************************************************)
LEMMA RunnerOfHolds ==
    OneRunnerPerKey =>
        \A k \in Keys :
            /\ RunnerOf(k) \in Requests \union {NoOne}
            /\ \A r \in Requests :
                   RunnerOf(k) = r <=> Runner(r) /\ KeyOf[r] = k
<1> SUFFICES ASSUME OneRunnerPerKey, NEW k \in Keys
             PROVE  /\ RunnerOf(k) \in Requests \union {NoOne}
                    /\ \A r \in Requests :
                           RunnerOf(k) = r <=> Runner(r) /\ KeyOf[r] = k
  OBVIOUS
<1>1. CASE \E r \in Requests : Runner(r) /\ KeyOf[r] = k
  <2>1. /\ RunnerOf(k) \in Requests
        /\ Runner(RunnerOf(k)) /\ KeyOf[RunnerOf(k)] = k
    BY <1>1 DEF RunnerOf
  <2> QED BY <2>1 DEF OneRunnerPerKey
<1>2. CASE ~ \E r \in Requests : Runner(r) /\ KeyOf[r] = k
  <2>1. RunnerOf(k) = NoOne
    BY <1>2 DEF RunnerOf
  <2> QED BY <1>2, <2>1, NoOneAssumption
<1> QED BY <1>1, <1>2

\* The loop, the lock, the cache files, the failures and the restarts
\* implement single flight: one extraction of a key at a time, and no result
\* that was not published for its key.
THEOREM RefinesSingleFlight == Spec => ImplementsSingleFlight
<1> USE KeyOfAssumption, NoOneAssumption
<1>1. Init => Flight!FlightInit
  <2> SUFFICES ASSUME Init PROVE Flight!FlightInit
    OBVIOUS
  <2>1. \A r \in Requests : ~Runner(r) /\ answer[r].outcome = "none"
    BY DEF Init, Runner, RunnerStates, NoAnswer
  <2>2. \A k \in Keys : RunnerOf(k) = NoOne
    BY <2>1 DEF RunnerOf
  <2>3. {KeyOf[r] : r \in wrote} = {}
    BY DEF Init
  <2> QED BY <2>1, <2>2, <2>3 DEF Flight!FlightInit
<1>2. /\ TypeOK /\ IInv /\ [Next]_vars
      /\ TypeOK' /\ IInv'
      => [Flight!FlightNext]_Flight!flightVars
  <2> SUFFICES ASSUME TypeOK, IInv, [Next]_vars, TypeOK', IInv'
               PROVE  [Flight!FlightNext]_Flight!flightVars
    OBVIOUS
  <2> DEFINE Holds ==
               \A k \in Keys :
                   /\ RunnerOf(k) \in Requests \union {NoOne}
                   /\ \A r \in Requests :
                          RunnerOf(k) = r <=> Runner(r) /\ KeyOf[r] = k
             Holder == [k \in Keys |-> RunnerOf(k)]
             Published == {KeyOf[r] : r \in wrote}
             Outcome == [r \in Requests |-> answer[r].outcome]
  <2>1. Holds
    BY RunnerOfHolds DEF IInv
  <2>2. Holds'
    BY RunnerOfHolds, PTL DEF IInv
  <2>3. (\A r \in Requests : Runner(r)' = Runner(r)) => Holder' = Holder
    <3> SUFFICES ASSUME \A r \in Requests : Runner(r)' = Runner(r),
                        NEW k \in Keys
                 PROVE  RunnerOf(k)' = RunnerOf(k)
      OBVIOUS
    <3> QED BY <2>1, <2>2
  <2>4. ASSUME \A r \in Requests : Runner(r)' = Runner(r),
               wrote' = wrote,
               \A r \in Requests : answer'[r].outcome = answer[r].outcome
        PROVE  UNCHANGED Flight!flightVars
    BY <2>3, <2>4 DEF Flight!flightVars
  <2> USE DEF Goto, files, cache, history, Runner, RunnerStates
  <2> HIDE DEF Holds, Holder, Published, Outcome
  <2>5. ASSUME NEW r \in Requests, Arrive(r)
        PROVE  UNCHANGED Flight!flightVars
    BY <2>4, <2>5 DEF Arrive, TypeOK
  <2>6. ASSUME NEW r \in Requests,
               LookupMiss(r) \/ Park(r) \/ WaitTimeout(r)
        PROVE  UNCHANGED Flight!flightVars
    BY <2>4, <2>6 DEF LookupMiss, Park, WaitTimeout, TypeOK
  <2>7. ASSUME NEW r \in Requests, LookupHit(r)
        PROVE  UNCHANGED Flight!flightVars
    BY <2>4, <2>7 DEF LookupHit, TypeOK, Answer
  <2>8. ASSUME NEW r \in Requests,
               \/ RunFails(r) \/ Ingest(r) \/ BeginWrite(r)
               \/ SkipPayload(r) \/ BeginPayload(r) \/ EndPayload(r)
               \/ WriteFails(r)
        PROVE  UNCHANGED Flight!flightVars
    BY <2>4, <2>8 DEF RunFails, Ingest, BeginWrite, SkipPayload,
                      BeginPayload, EndPayload, WriteFails, TypeOK
  <2>9. ASSUME NEW r \in Requests, ReadBack(r)
        PROVE  UNCHANGED Flight!flightVars
    <3>1. PICK p \in {NoOne, runInputs[DirOf[r]]} :
              answer' = [answer EXCEPT ![r].payloadBy = p]
      BY <2>9 DEF ReadBack
    <3>2. \A s \in Requests : answer'[s].outcome = answer[s].outcome
      BY <3>1 DEF TypeOK, Answer
    <3> QED BY <2>4, <2>9, <3>2 DEF ReadBack, TypeOK
  <2>10. ASSUME NEW r \in Requests, LookupTorn(r)
         PROVE  Flight!GiveUp(r)
    <3>1. /\ pc[r] = "lookup"
          /\ pc' = [pc EXCEPT ![r] = "done"]
          /\ answer' = [answer EXCEPT ![r] = Failure]
          /\ UNCHANGED wrote
      BY <2>10 DEF LookupTorn
    <3>2. Holder' = Holder
      BY <2>3, <3>1 DEF TypeOK
    <3>3. Holder[KeyOf[r]] # r
      BY <2>1, <3>1 DEF Holds, Holder
    <3>4. Outcome[r] = "none" /\ Outcome' = [Outcome EXCEPT ![r] = "failed"]
      BY <3>1 DEF Outcome, TypeOK, IInv, AnswersGrowSoundly, Failure
    <3>5. Published' = Published
      BY <3>1 DEF Published
    <3> QED BY <3>2, <3>3, <3>4, <3>5
            DEF Flight!GiveUp, Flight!Settle, Holder, Published, Outcome
  <2>11. ASSUME NEW r \in Requests, ReadPayload(r)
         PROVE  Flight!Reuse(r)
    <3>1. /\ pc[r] = "hit"
          /\ pc' = [pc EXCEPT ![r] = "done"]
          /\ answer'[r].outcome = "completed"
          /\ \A s \in Requests \ {r} : answer'[s] = answer[s]
          /\ UNCHANGED wrote
      BY <2>11 DEF ReadPayload, Result, TypeOK
    <3>2. Holder' = Holder
      BY <2>3, <3>1 DEF TypeOK
    <3>3. Holder[KeyOf[r]] # r
      BY <2>1, <3>1 DEF Holds, Holder
    <3>4. Outcome[r] = "none" /\ Outcome' = [Outcome EXCEPT ![r] = "completed"]
      <4>1. Outcome[r] = "none"
        BY <3>1 DEF Outcome, IInv, AnswersGrowSoundly
      <4>2. Outcome' = [Outcome EXCEPT ![r] = "completed"]
        BY <3>1 DEF Outcome
      <4> QED BY <4>1, <4>2
    <3>5. KeyOf[r] \in Published /\ Published' = Published
      BY <3>1 DEF Published, IInv, AnswersGrowSoundly
    <3> QED BY <3>2, <3>3, <3>4, <3>5
            DEF Flight!Reuse, Flight!Settle, Holder, Published, Outcome
  <2>12. ASSUME NEW r \in Requests, Register(r)
         PROVE  Flight!TakeOff(r)
    <3>1. /\ pc[r] = "enter" /\ KeyOf[r] \notin inProgress
          /\ pc' = [pc EXCEPT ![r] = "running"]
          /\ UNCHANGED <<answer, wrote>>
      BY <2>12 DEF Register
    <3>2. RunnerOf(KeyOf[r]) = NoOne
      BY <2>1, <3>1 DEF Holds, IInv, RunnersAreRegistered
    <3>3. RunnerOf(KeyOf[r])' = r
      BY <2>2, <3>1 DEF Holds, TypeOK
    <3>4. \A k \in Keys \ {KeyOf[r]} : RunnerOf(k)' = RunnerOf(k)
      BY <2>1, <2>2, <3>1 DEF Holds, TypeOK
    <3>5. Holder[KeyOf[r]] = NoOne /\ Holder' = [Holder EXCEPT ![KeyOf[r]] = r]
      BY <3>2, <3>3, <3>4 DEF Holder
    <3>6. Outcome[r] = "none" /\ Outcome' = Outcome /\ Published' = Published
      BY <3>1 DEF Outcome, Published, IInv, AnswersGrowSoundly
    <3> QED BY <3>5, <3>6 DEF Flight!TakeOff, Holder, Published, Outcome
  <2>13. ASSUME NEW r \in Requests, EndWrite(r)
         PROVE  Flight!Publish(r)
    <3>1. /\ pc[r] = "writing"
          /\ pc' = [pc EXCEPT ![r] = "written"]
          /\ wrote' = wrote \union {r}
          /\ UNCHANGED answer
      BY <2>13 DEF EndWrite
    <3>2. Holder' = Holder
      BY <2>3, <3>1 DEF TypeOK
    <3>3. Holder[KeyOf[r]] = r
      BY <2>1, <3>1 DEF Holds, Holder
    <3>4. Published' = Published \union {KeyOf[r]} /\ Outcome' = Outcome
      BY <3>1 DEF Published, Outcome
    <3> QED BY <3>2, <3>3, <3>4
            DEF Flight!Publish, Holder, Published, Outcome
  <2>14. ASSUME NEW r \in Requests, Finish(r)
         PROVE  Flight!Land(r)
    <3>1. /\ pc[r] \in {"leaving", "failing"}
          /\ pc' = Woken([pc EXCEPT ![r] = "done"])
          /\ answer'[r].outcome =
                 IF pc[r] = "failing" THEN "failed" ELSE "completed"
          /\ \A s \in Requests \ {r} : answer'[s] = answer[s]
          /\ UNCHANGED wrote
      BY <2>14 DEF Finish, Failure, Result, TypeOK
    <3>2. \A s \in Requests : Runner(s)' = (Runner(s) /\ s # r)
      BY <3>1 DEF Woken, TypeOK
    <3>3. RunnerOf(KeyOf[r]) = r
      BY <2>1, <3>1 DEF Holds
    <3>4. RunnerOf(KeyOf[r])' = NoOne
      BY <2>2, <3>2, <3>3, <2>1 DEF Holds
    <3>5. \A k \in Keys \ {KeyOf[r]} : RunnerOf(k)' = RunnerOf(k)
      BY <2>1, <2>2, <3>2 DEF Holds
    <3>6. Holder[KeyOf[r]] = r /\ Holder' = [Holder EXCEPT ![KeyOf[r]] = NoOne]
      BY <3>3, <3>4, <3>5 DEF Holder
    <3>7. Outcome[r] = "none"
      BY <3>1 DEF Outcome, IInv, AnswersGrowSoundly
    <3>8. \/ /\ KeyOf[r] \in Published
             /\ Outcome' = [Outcome EXCEPT ![r] = "completed"]
          \/ Outcome' = [Outcome EXCEPT ![r] = "failed"]
      BY <3>1 DEF Outcome, Published, IInv, AnswersGrowSoundly
    <3>9. Published' = Published
      BY <3>1 DEF Published
    <3> QED BY <3>6, <3>7, <3>8, <3>9
            DEF Flight!Land, Flight!Settle, Holder, Published, Outcome
  <2>15. CASE Crash
    <3>1. /\ pc' = [r \in Requests |-> "idle"]
          /\ answer' = [r \in Requests |-> NoAnswer]
          /\ UNCHANGED wrote
      BY <2>15 DEF Crash
    <3>2. Holder' = [k \in Keys |-> NoOne]
      BY <2>2, <3>1 DEF Holder, Holds
    <3>3. Outcome' = [r \in Requests |-> "none"] /\ Published' = Published
      BY <3>1 DEF Outcome, Published, NoAnswer
    <3> QED BY <3>2, <3>3 DEF Flight!FlightNext, Flight!Restart,
                              Holder, Published, Outcome
  <2>16. CASE UNCHANGED vars
    BY <2>4, <2>16 DEF vars
  <2> QED
    BY <2>5, <2>6, <2>7, <2>8, <2>9, <2>10, <2>11, <2>12, <2>13, <2>14,
       <2>15, <2>16 DEF Next, Thread, Loop, Run, Flight!FlightNext
<1> QED BY <1>1, <1>2, IInvAlways, PTL
        DEF Spec, ImplementsSingleFlight, Flight!FlightSpec

-----------------------------------------------------------------------------
(* The batch.                                                              *)

\* A step of the batch is a step of the cache, or leaves the cache alone.
LEMMA BatchStepIsCacheStep == [BatchNext]_allVars => [Next]_vars
  BY DEF BatchNext, Paper, allVars, TakePaper, RefusePaper, RunPaper, EndPaper,
         UploadAccepted, UploadRetried, UploadFails, LateDelivery, Collect,
         CollectRaises, Abort, BatchCrash, Next

\* The pool, the uploads and the restarts of a batch only ever use the cache
\* the way TaskCoalescing describes.
THEOREM BatchIsCoalescing == BatchSpec => Spec
  <1>1. BatchInit => Init
    BY DEF BatchInit
  <1> QED
    BY <1>1, BatchStepIsCacheStep, PTL DEF BatchSpec, Spec

\* So the papers of a batch that share a key are extracted in single flight,
\* whatever the pool, the collecting thread and the restarts do.
THEOREM BatchIsSingleFlight == BatchSpec => ImplementsSingleFlight
  BY BatchIsCoalescing, RefinesSingleFlight, PTL

-----------------------------------------------------------------------------
(***************************************************************************)
(* The inductive invariant.  What the backend holds is what the uploads    *)
(* carried, those that were given up on too; an upload carries what its    *)
(* paper's call returned; and a call that has returned keeps its answer.   *)
(***************************************************************************)
Statuses == Articles \union Active \union {"queued", "raised", "cancelled"}
Returned == {"posting", "completed", "failed"}

\* A paper is in the cache's loop exactly while its future is extracting.
PoolInv ==
    /\ status \in [Requests -> Statuses]
    /\ \A r \in Requests :
          /\ status[r] \in {"queued", "raised", "cancelled"} => pc[r] = "idle"
          /\ status[r] \in Returned => pc[r] = "done"
          /\ pc[r] = "done" => answer[r].outcome # "none"
          /\ status[r] = "posting" =>
                 Posts /\ answer[r].outcome = "completed"

\* The batch answers only when the pool is at rest.
RestInv == Over => Busy = {}

\* An upload the miner gave up on, or left behind when it died, carries an
\* extraction that a run of the paper's key completed.
UploadsInv ==
    /\ stored \in [Artifacts -> Authors]
    /\ \A u \in inFlight :
          /\ u.id \in Artifacts
          /\ u.by \in wrote
          /\ \A r \in Requests : u.id = ArtifactOf[r] => KeyOf[u.by] = KeyOf[r]

\* Without a restart it carries the very answer its paper reports.
RepeatsInv ==
    crashes = 0 => \A u \in inFlight, r \in Requests :
        u.id = ArtifactOf[r] =>
            status[r] \in Returned /\ u.by = answer[r].by

BatchInv ==
    /\ PoolInv
    /\ RestInv
    /\ UploadsInv
    /\ StoredExtractionsAreOfThePaper
    /\ RepeatsInv
    /\ ManifestMatchesBackend

\* Nothing is delivered, stored or collected at the start.
LEMMA BatchInvInit == BatchInit => BatchInv
  BY ArtifactAssumption, NoOneAssumption
     DEF BatchInit, Init, BatchInv, PoolInv, RestInv, UploadsInv, RepeatsInv,
         StoredExtractionsAreOfThePaper, ManifestMatchesBackend, Statuses,
         Returned, Over, Articles, Active, Authors

-----------------------------------------------------------------------------
\* A thread in the loop answers its own call and no other, and it stays clear
\* of calls that have not started or have returned.
LEMMA ThreadFacts ==
    ASSUME TypeOK, IInv, NEW r \in Requests, Thread(r)
    PROVE  /\ pc[r] \notin {"idle", "done"}
           /\ \A s \in Requests \ {r} : answer'[s] = answer[s]
           /\ \A s \in Requests \ {r} :
                  \/ pc'[s] = pc[s]
                  \/ pc[s] = "waiting" /\ pc'[s] = "lookup"
           /\ pc'[r] = "done" => answer'[r].outcome # "none"
           /\ pc'[r] # "idle"
           /\ (wrote \subseteq wrote') /\ crashes' = crashes
  <1> USE DEF TypeOK, Goto, files, cache, history
  <1>1. CASE Loop(r)
    BY <1>1 DEF Loop, LookupMiss, LookupHit, LookupTorn, ReadPayload, Register,
       Park, Failure, Result
  <1>2. CASE Run(r)
    <2>1. CASE Finish(r)
      BY <2>1 DEF Finish, Woken, Failure, Result
    <2>2. CASE ~Finish(r)
      BY <1>2, <2>2 DEF Run, RunFails, Ingest, ReadBack, BeginWrite, EndWrite,
         SkipPayload, BeginPayload, EndPayload
    <2> QED
      BY <2>1, <2>2
  <1>3. CASE WaitTimeout(r) \/ WriteFails(r)
    BY <1>3 DEF WaitTimeout, WriteFails
  <1> QED
    BY <1>1, <1>2, <1>3 DEF Thread

\* The answer of a paper whose extraction is to be posted.
LEMMA PostedAnswer ==
    ASSUME IInv, PoolInv, NEW r \in Requests, status[r] = "posting"
    PROVE  answer[r].by \in wrote /\ KeyOf[answer[r].by] = KeyOf[r]
  BY DEF IInv, PoolInv, AnswersComeFromFinishedRuns

\* The only paper of an artifact id.
LEMMA PaperOfArtifact ==
    \A r, s \in Requests : ArtifactOf[r] = ArtifactOf[s] => r = s
  BY ArtifactAssumption

\* Every step keeps the pool and the cache in step.
LEMMA PoolStep ==
    ASSUME TypeOK, IInv, PoolInv, [BatchNext]_allVars PROVE PoolInv'
  <1> USE DEF PoolInv, Statuses, Articles, Active, Returned
  <1>1. ASSUME NEW r \in Requests, TakePaper(r) PROVE PoolInv'
    BY <1>1 DEF TakePaper, Step, Arrive, Goto, TypeOK
  <1>2. ASSUME NEW r \in Requests, RunPaper(r) PROVE PoolInv'
    <2>1. UNCHANGED status /\ Thread(r)
      BY <1>2 DEF RunPaper, batchVars
    <2>2. status[r] = "extracting"
      BY <2>1, ThreadFacts
    <2> QED
      BY <2>1, <2>2, ThreadFacts
  <1>3. ASSUME NEW r \in Requests, EndPaper(r) PROVE PoolInv'
    <2>1. answer[r].outcome \in {"none", "completed", "failed"}
      BY DEF TypeOK, Answer
    <2> QED
      BY <1>3, <2>1 DEF EndPaper, Step, vars
  <1>4. ASSUME NEW r \in Requests,
               \/ RefusePaper(r) \/ UploadAccepted(r) \/ UploadRetried(r)
               \/ UploadFails(r)
        PROVE  PoolInv'
    BY <1>4 DEF RefusePaper, UploadAccepted, UploadRetried, UploadFails, Step,
       vars
  <1>5. CASE CollectRaises
    BY <1>5 DEF CollectRaises, vars
  <1>6. CASE BatchCrash
    BY <1>6 DEF BatchCrash, Crash, NoAnswer
  <1>7. CASE \/ Collect \/ Abort \/ UNCHANGED allVars
             \/ \E u \in inFlight : LateDelivery(u)
    BY <1>7 DEF Collect, Abort, allVars, batchVars, LateDelivery, vars
  <1> HIDE DEF PoolInv
  <1> QED
    BY <1>1, <1>2, <1>3, <1>4, <1>5, <1>6, <1>7 DEF BatchNext, Paper

\* Nothing starts again once the batch has answered.
LEMMA RestStep ==
    ASSUME PoolInv, RestInv, [BatchNext]_allVars PROVE RestInv'
  <1> USE DEF RestInv, Busy, Over, Active, PoolInv
  <1>1. ASSUME NEW r \in Requests, Paper(r) \/ RunPaper(r) PROVE RestInv'
    BY <1>1 DEF Paper, RunPaper, batchVars, TakePaper, NextPaper, RefusePaper,
       EndPaper, UploadAccepted, UploadRetried, UploadFails, Step
  <1>2. CASE Collect
    BY <1>2 DEF Collect, Articles
  <1>3. CASE \/ CollectRaises \/ Abort \/ BatchCrash \/ UNCHANGED allVars
             \/ \E u \in inFlight : LateDelivery(u)
    BY <1>3 DEF CollectRaises, Abort, BatchCrash, LateDelivery, allVars,
       batchVars
  <1> QED
    BY <1>1, <1>2, <1>3 DEF BatchNext

-----------------------------------------------------------------------------
\* What is sent, and hence what is stored, was completed for the paper.
LEMMA UploadsStep ==
    ASSUME TypeOK, IInv, PoolInv, UploadsInv, StoredExtractionsAreOfThePaper,
           [BatchNext]_allVars
    PROVE  UploadsInv' /\ StoredExtractionsAreOfThePaper'
  <1> USE ArtifactAssumption
  <1> DEFINE Sound(u) ==
               /\ u.id \in Artifacts
               /\ u.by \in wrote
               /\ \A r \in Requests :
                      u.id = ArtifactOf[r] => KeyOf[u.by] = KeyOf[r]
  <1>1. wrote \subseteq wrote'
    <2>1. \A r \in Requests : Thread(r) => wrote \subseteq wrote'
      BY ThreadFacts
    <2> QED
      BY <2>1 DEF BatchNext, Paper, allVars, TakePaper, RefusePaper, RunPaper,
         EndPaper, UploadAccepted, UploadRetried, UploadFails, LateDelivery,
         Collect, CollectRaises, Abort, BatchCrash, Arrive, Crash, vars, history
  <1>2. \A r \in Requests : status[r] = "posting" => Sound(UploadOf(r))
    BY PostedAnswer, PaperOfArtifact DEF UploadOf
  <1>3. \A u \in inFlight' : u \in inFlight
                              \/ \E r \in Requests : /\ status[r] = "posting"
                                                     /\ u = UploadOf(r)
    BY DEF BatchNext, Paper, allVars, batchVars, TakePaper, RefusePaper, RunPaper,
       EndPaper, UploadAccepted, UploadRetried, UploadFails, LateDelivery,
       Collect, CollectRaises, Abort, BatchCrash, MaybeDelivered, Step
  <1>4. \A u \in inFlight : Sound(u)
    BY DEF UploadsInv
  <1>5. \A u \in inFlight' : Sound(u)
    BY <1>2, <1>3, <1>4
  <1>6. \/ UNCHANGED stored
        \/ \E u : Sound(u) /\ stored' = [stored EXCEPT ![u.id] = u.by]
    <2>1. ASSUME NEW r \in Requests, UploadAccepted(r)
          PROVE  \E u : Sound(u) /\ stored' = [stored EXCEPT ![u.id] = u.by]
      <3>1. stored' = [stored EXCEPT ![UploadOf(r).id] = UploadOf(r).by]
        BY <2>1 DEF UploadAccepted, UploadOf
      <3>2. Sound(UploadOf(r))
        BY <1>2, <2>1 DEF UploadAccepted, Step
      <3> QED
        BY <3>1, <3>2
    <2>2. ASSUME NEW u \in inFlight, LateDelivery(u)
          PROVE  Sound(u) /\ stored' = [stored EXCEPT ![u.id] = u.by]
      BY <1>4, <2>2 DEF LateDelivery
    <2>3. ASSUME ~ \E r \in Requests : UploadAccepted(r),
                 ~ \E u \in inFlight : LateDelivery(u)
          PROVE  UNCHANGED stored
      BY <2>3 DEF BatchNext, Paper, allVars, batchVars, TakePaper, RefusePaper,
         RunPaper, EndPaper, UploadRetried, UploadFails, Collect,
         CollectRaises, Abort, BatchCrash
    <2> QED
      BY <2>1, <2>2, <2>3
  <1>7. UploadsInv'
    <2>1. stored' \in [Artifacts -> Authors]
      <3>1. wrote \subseteq Authors
        BY DEF TypeOK, Authors
      <3> QED
        BY <1>6, <3>1 DEF UploadsInv
    <2> QED
      BY <1>1, <1>5, <2>1 DEF UploadsInv
  <1>8. StoredExtractionsAreOfThePaper'
    <2>1. ASSUME NEW r \in Requests,
                 stored'[ArtifactOf[r]] # NoOne
          PROVE  /\ stored'[ArtifactOf[r]] \in wrote
                 /\ KeyOf[stored'[ArtifactOf[r]]] = KeyOf[r]
      BY <1>6, <2>1 DEF StoredExtractionsAreOfThePaper, UploadsInv
    <2> QED
      BY <1>1, <2>1 DEF StoredExtractionsAreOfThePaper
  <1> QED
    BY <1>7, <1>8

\* As long as the process lives, an upload repeats the answer of its paper.
LEMMA RepeatsStep ==
    ASSUME TypeOK, IInv, PoolInv, UploadsInv, RepeatsInv,
           ManifestMatchesBackend, [BatchNext]_allVars
    PROVE  RepeatsInv' /\ ManifestMatchesBackend'
  <1> USE PaperOfArtifact, ArtifactAssumption
  <1> USE DEF RepeatsInv, ManifestMatchesBackend, Returned
  <1>1. ASSUME NEW r \in Requests, TakePaper(r)
        PROVE  RepeatsInv' /\ ManifestMatchesBackend'
    BY <1>1 DEF TakePaper, Step, Arrive, history, PoolInv
  <1>2. ASSUME NEW r \in Requests, RunPaper(r)
        PROVE  RepeatsInv' /\ ManifestMatchesBackend'
    <2>1. UNCHANGED batchVars /\ Thread(r)
      BY <1>2 DEF RunPaper
    <2>2. status[r] \notin Returned /\ crashes' = crashes
      BY <2>1, ThreadFacts DEF PoolInv
    <2>3. \A s \in Requests : status[s] \in Returned => answer'[s] = answer[s]
      BY <2>1, <2>2, ThreadFacts
    <2> QED
      BY <2>1, <2>2, <2>3 DEF batchVars
  <1>3. ASSUME NEW r \in Requests, RefusePaper(r) \/ EndPaper(r)
        PROVE  RepeatsInv' /\ ManifestMatchesBackend'
    BY <1>3 DEF RefusePaper, EndPaper, Step, vars, PoolInv
  <1>4. ASSUME NEW r \in Requests, UploadAccepted(r)
        PROVE  RepeatsInv' /\ ManifestMatchesBackend'
    BY <1>4 DEF UploadAccepted, Step, vars, PoolInv, UploadsInv
  <1>5. ASSUME NEW r \in Requests, UploadRetried(r) \/ UploadFails(r)
        PROVE  RepeatsInv' /\ ManifestMatchesBackend'
    BY <1>5 DEF UploadRetried, UploadFails, Step, MaybeDelivered, UploadOf, vars,
       PoolInv
  <1>6. ASSUME NEW u \in inFlight, LateDelivery(u)
        PROVE  RepeatsInv' /\ ManifestMatchesBackend'
    BY <1>6 DEF LateDelivery, vars, UploadsInv
  <1>7. CASE CollectRaises
    BY <1>7 DEF CollectRaises, vars, PoolInv
  <1>8. CASE BatchCrash
    <2>1. crashes' # 0
      BY <1>8 DEF BatchCrash, Crash, TypeOK
    <2> QED
      BY <2>1
  <1>9. CASE Collect \/ Abort \/ UNCHANGED allVars
    BY <1>9 DEF Collect, Abort, allVars, batchVars, vars
  <1> QED
    BY <1>1, <1>2, <1>3, <1>4, <1>5, <1>6, <1>7, <1>8, <1>9
       DEF BatchNext, Paper

-----------------------------------------------------------------------------
\* The invariants of the cache and of the batch hold together.
LEMMA BatchInvariant == BatchSpec => [](TypeOK /\ IInv /\ BatchInv)
  <1>1. BatchSpec => [](TypeOK /\ IInv)
    BY BatchIsCoalescing, IInvAlways, PTL
  <1>2. BatchInit => BatchInv
    BY BatchInvInit
  <1>3. TypeOK /\ IInv /\ BatchInv /\ [BatchNext]_allVars => BatchInv'
    BY PoolStep, RestStep, UploadsStep, RepeatsStep DEF BatchInv
  <1> QED
    BY <1>1, <1>2, <1>3, PTL DEF BatchSpec

\* Until the process is restarted, what the backend holds under the id a
\* completed article names is the extraction whose hash the article reports.
THEOREM ManifestTheorem == BatchSpec => []ManifestMatchesBackend
  BY BatchInvariant, PTL DEF BatchInv

\* Restarts and late uploads included, the backend holds under an artifact id
\* only extractions that a run of that paper completed.
THEOREM StoredTheorem == BatchSpec => []StoredExtractionsAreOfThePaper
  BY BatchInvariant, PTL DEF BatchInv

\* The miner answers when no thread of the batch is left and no key is
\* registered, on the error path too.
THEOREM RestTheorem == BatchSpec => []NothingRunsAfterTheAnswer
  <1>1. IInv /\ BatchInv => NothingRunsAfterTheAnswer
    <2> SUFFICES ASSUME IInv, BatchInv, Over
                 PROVE  inProgress = {} /\ \A r \in Requests : ~Runner(r)
      BY DEF NothingRunsAfterTheAnswer
    <2>1. \A r \in Requests : ~Runner(r)
      BY DEF BatchInv, PoolInv, RestInv, Busy, Active, Articles, Statuses,
         Returned, Runner, RunnerStates
    <2> QED
      BY <2>1 DEF IInv, RegisteredKeyHasRunner
  <1> QED
    BY <1>1, BatchInvariant, PTL

=============================================================================
