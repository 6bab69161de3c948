---------------------------- MODULE ServicesProofs ----------------------------
(***************************************************************************)
(* Proofs about the three services that work beside the extraction: the    *)
(* model client (any number of calls, stages and retries), the requests of *)
(* the miner (any number of requests, any limit and window, any PDFs) and  *)
(* the network proxy of the dashboard (any endpoints, readers and times).  *)
(***************************************************************************)
EXTENDS ModelClient, MinerRequests, DashboardServer, FiniteSetTheorems, TLAPS

-----------------------------------------------------------------------------
(* The model client.                                                       *)

Usage == [requests : Nat, actual : BOOLEAN]
CallStates == {"idle", "request", "nudge", "answered", "adding", "added",
               "done", "failed"}

ClientTypeOK ==
    /\ callPc \in [Calls -> CallStates]
    /\ usage \in [Calls -> Usage]
    /\ lock \in Calls \union {NoCall}
    /\ read \in Usage
    /\ totals \in Usage
    /\ byStage \in [Stages -> Usage]

\* The images of a finite set under a function are finitely many.
LEMMA FiniteImage ==
    ASSUME NEW S, IsFiniteSet(S), NEW f, DOMAIN f = S
    PROVE  IsFiniteSet({f[x] : x \in S})
  <1> DEFINE T == {f[x] : x \in S}
             g == [x \in S |-> f[x]]
  <1>1. g \in Surjection(S, T)
    BY DEF Surjection
  <1> HIDE DEF g, T
  <1>2. IsFiniteSet(T)
    BY <1>1, FS_Surjection
  <1> QED
    BY <1>2 DEF T

\* A call has had as many answers as its usage counts.
LEMMA AnswersOfOne ==
    ASSUME NEW c, NEW n \in Nat
    PROVE  IsFiniteSet({c} \X (1..n)) /\ Cardinality({c} \X (1..n)) = n
  <1>1. IsFiniteSet({c}) /\ Cardinality({c}) = 1
    BY FS_Singleton
  <1>2. 1 \in Int /\ n \in Int
    OBVIOUS
  <1>3. IsFiniteSet(1..n) /\ Cardinality(1..n) = n
    BY <1>2, FS_Interval
  <1>4. /\ IsFiniteSet({c} \X (1..n))
        /\ Cardinality({c} \X (1..n)) = Cardinality({c}) * Cardinality(1..n)
    BY <1>1, <1>3, FS_Product
  <1> QED
    BY <1>1, <1>3, <1>4

\* The answers of finitely many calls are finitely many.
LEMMA AnswersAreFinite ==
    ASSUME ClientTypeOK, NEW S \in SUBSET Calls
    PROVE  IsFiniteSet(AnswersOf(S))
  <1> DEFINE f == [c \in S |-> {c} \X (1..usage[c].requests)]
             parts == {f[c] : c \in S}
  <1>1. IsFiniteSet(S)
    BY ClientAssumption, FS_Subset
  <1>2. \A c \in S : IsFiniteSet(f[c])
    BY AnswersOfOne DEF ClientTypeOK, Usage
  <1>3. AnswersOf(S) = UNION parts
    BY DEF AnswersOf
  <1>4. DOMAIN f = S
    OBVIOUS
  <1> HIDE DEF f
  <1>5. IsFiniteSet(parts)
    BY <1>1, <1>4, FiniteImage
  <1>6. \A T \in parts : IsFiniteSet(T)
    BY <1>2
  <1> HIDE DEF parts
  <1> QED
    BY <1>3, <1>5, <1>6, FS_UNION

\* _merge adds up: with one more call there are its answers more, and the
\* cost is known when it was and this call's is.
LEMMA UsageOfMore ==
    ASSUME ClientTypeOK, NEW S \in SUBSET Calls, NEW c \in Calls \ S
    PROVE  UsageOf(S \union {c}) = Merge(UsageOf(S), usage[c])
  <1> DEFINE n == usage[c].requests
             own == {c} \X (1..n)
  <1>1. n \in Nat
    BY DEF ClientTypeOK, Usage
  <1>2. IsFiniteSet(own) /\ Cardinality(own) = n
    BY <1>1, AnswersOfOne
  <1>3. AnswersOf(S \union {c}) = AnswersOf(S) \union own
    BY DEF AnswersOf
  <1>4. AnswersOf(S) \intersect own = {}
    BY DEF AnswersOf
  <1>5. IsFiniteSet(AnswersOf(S))
    BY AnswersAreFinite
  <1> HIDE DEF own, n
  <1>6. Cardinality(AnswersOf(S) \union own) =
            Cardinality(AnswersOf(S)) + Cardinality(own)
                - Cardinality(AnswersOf(S) \intersect own)
    BY <1>2, <1>5, FS_Union
  <1>7. Cardinality(AnswersOf(S) \intersect own) = 0
    BY <1>4, FS_EmptySet
  <1>8. Cardinality(AnswersOf(S)) \in Nat
    BY <1>5, FS_CardinalityType
  <1>9. Cardinality(AnswersOf(S \union {c})) = Cardinality(AnswersOf(S)) + n
    <2>1. \A m \in Nat : m + n - 0 = m + n
      BY <1>1
    <2>2. Cardinality(AnswersOf(S \union {c}))
              = Cardinality(AnswersOf(S)) + n - 0
      BY <1>2, <1>3, <1>6, <1>7
    <2> QED
      BY <1>8, <2>1, <2>2
  <1>10. (\A x \in S \union {c} : usage[x].actual)
            = ((\A x \in S : usage[x].actual) /\ usage[c].actual)
    OBVIOUS
  <1> QED
    BY <1>9, <1>10 DEF UsageOf, Merge, n

\* The usage of calls whose own has not changed has not changed.
LEMMA UsageOfSame ==
    ASSUME NEW S \in SUBSET Calls, \A c \in S : usage'[c] = usage[c]
    PROVE  UsageOf(S)' = UsageOf(S)
  BY DEF UsageOf, AnswersOf

(***************************************************************************)
(* The inductive invariant.  Whoever is in _record holds the lock; what it *)
(* has read is still the total when it writes; and the totals are ahead of *)
(* the stages by the one call that has added to the first only.            *)
(***************************************************************************)
LockInv ==
    \A c \in Calls : callPc[c] \in {"adding", "added"} <=> lock = c

Counted == {c \in Calls : callPc[c] \in {"added", "done"}}

RecordInv ==
    /\ totals = UsageOf(Counted)
    /\ \A s \in Stages : byStage[s] = UsageOf({c \in Done : StageOf[c] = s})
    /\ \A c \in Calls : callPc[c] = "adding" => read = totals

ClientInv == ClientTypeOK /\ LockInv /\ RecordInv

\* No calls have cost nothing.
LEMMA UsageOfNone == UsageOf({}) = EmptyUsage
  <1>1. AnswersOf({}) = {}
    BY DEF AnswersOf
  <1> QED
    BY <1>1, FS_EmptySet DEF UsageOf, EmptyUsage

\* At the start no call has been counted.
LEMMA ClientInvInit == ClientInit => ClientInv
  <1> SUFFICES ASSUME ClientInit PROVE ClientInv
    OBVIOUS
  <1>1. ClientTypeOK /\ LockInv
    BY ClientAssumption
       DEF ClientInit, ClientTypeOK, LockInv, CallStates, Usage, EmptyUsage
  <1>2. Counted = {} /\ \A s : {c \in Done : StageOf[c] = s} = {}
    BY DEF ClientInit, Counted, Done
  <1>3. RecordInv
    BY <1>2, UsageOfNone DEF RecordInv, ClientInit
  <1> QED
    BY <1>1, <1>3 DEF ClientInv

\* Usages are usages.
LEMMA MergeType == \A u, v \in Usage : Merge(u, v) \in Usage
  BY DEF Merge, Usage

\* Every step of the client keeps the types.
LEMMA ClientTypeStep ==
    ASSUME ClientTypeOK, [ClientNext]_clientVars PROVE ClientTypeOK'
  <1> USE DEF ClientTypeOK, CallStates, Goto
  <1>1. CASE UNCHANGED clientVars
    BY <1>1 DEF clientVars
  <1>2. ASSUME NEW c \in Calls, StartCall(c) \/ Rejected(c) \/ Unanswered(c)
               \/ Refused(c) \/ GiveUp(c)
        PROVE  ClientTypeOK'
    BY <1>2 DEF StartCall, Rejected, Unanswered, Refused, GiveUp
  <1>3. ASSUME NEW c \in Calls, Answered(c) \/ NotJson(c)
        PROVE  ClientTypeOK'
    <2>1. PICK costGiven \in BOOLEAN :
              usage' = [usage EXCEPT ![c] = Merge(@, OneAnswer(costGiven))]
      BY <1>3 DEF Answered, NotJson
    <2>2. OneAnswer(costGiven) \in Usage
      BY DEF OneAnswer, Usage
    <2>3. usage' \in [Calls -> Usage]
      BY <2>1, <2>2, MergeType
    <2> QED
      BY <1>3, <2>3 DEF Answered, NotJson
  <1>4. ASSUME NEW c \in Calls, TakeLock(c) \/ AddToTotals(c) \/ AddToStage(c)
        PROVE  ClientTypeOK'
    <2>1. StageOf[c] \in Stages
      BY DEF Stages
    <2> QED
      BY <1>4, <2>1, MergeType DEF TakeLock, AddToTotals, AddToStage
  <1> QED
    BY <1>1, <1>2, <1>3, <1>4 DEF ClientNext, CallStep

\* Every step of the client keeps its invariant.
LEMMA ClientStep ==
    ASSUME ClientInv, [ClientNext]_clientVars PROVE LockInv' /\ RecordInv'
  <1> USE DEF ClientInv, Goto
  <1>1. CASE UNCHANGED clientVars
    <2>1. UsageOf(Counted)' = UsageOf(Counted)
      BY <1>1 DEF clientVars, UsageOf, AnswersOf, Counted
    <2>2. \A s : UsageOf({c \in Done : StageOf[c] = s})'
                    = UsageOf({c \in Done : StageOf[c] = s})
      BY <1>1 DEF clientVars, UsageOf, AnswersOf, Done
    <2> QED
      BY <1>1, <2>1, <2>2 DEF clientVars, LockInv, RecordInv
  <1>2. ASSUME NEW c \in Calls,
               \/ StartCall(c) \/ Rejected(c) \/ Unanswered(c) \/ Refused(c)
               \/ GiveUp(c) \/ Answered(c) \/ NotJson(c)
        PROVE  LockInv' /\ RecordInv'
    <2>1. /\ callPc[c] \in {"idle", "request", "nudge"}
          /\ \E label \in {"idle", "request", "nudge", "answered", "failed"} :
                callPc' = [callPc EXCEPT ![c] = label]
          /\ \A x \in Calls \ {c} : usage'[x] = usage[x]
          /\ UNCHANGED <<lock, read, totals, byStage>>
      BY <1>2 DEF StartCall, Rejected, Unanswered, Refused, GiveUp, Answered,
         NotJson, Posting, ClientTypeOK
    <2>2. Counted' = Counted /\ Done' = Done /\ c \notin Counted /\ c \notin Done
      BY <2>1 DEF Counted, Done, ClientTypeOK
    <2>3. UsageOf(Counted)' = UsageOf(Counted)
      BY <2>1, <2>2, UsageOfSame DEF Counted
    <2>4. \A s : UsageOf({x \in Done : StageOf[x] = s})'
                    = UsageOf({x \in Done : StageOf[x] = s})
      BY <2>1, <2>2, UsageOfSame DEF Done
    <2>5. LockInv'
      BY <2>1 DEF LockInv, ClientTypeOK
    <2>6. \A x \in Calls : callPc'[x] = "adding" => read' = totals'
      BY <2>1 DEF RecordInv, ClientTypeOK
    <2>7. RecordInv'
      <3>1. totals' = UsageOf(Counted)'
        BY <2>1, <2>3 DEF RecordInv
      <3>2. \A s \in Stages : byStage'[s] = byStage[s]
        BY <2>1
      <3>3. \A s \in Stages : byStage[s] = UsageOf({x \in Done : StageOf[x] = s})
        BY DEF RecordInv
      <3>4. \A s \in Stages :
               byStage'[s] = UsageOf({x \in Done : StageOf[x] = s})'
        BY <2>4, <3>2, <3>3
      <3> QED
        BY <2>6, <3>1, <3>4 DEF RecordInv
    <2> QED
      BY <2>5, <2>7
  <1>3. ASSUME NEW c \in Calls, TakeLock(c) PROVE LockInv' /\ RecordInv'
    <2>1. Counted' = Counted /\ Done' = Done
      BY <1>3 DEF TakeLock, Counted, Done, ClientTypeOK
    <2>2. UsageOf(Counted)' = UsageOf(Counted)
      BY <1>3, <2>1 DEF TakeLock, UsageOf, AnswersOf
    <2>3. \A s : UsageOf({x \in Done : StageOf[x] = s})'
                    = UsageOf({x \in Done : StageOf[x] = s})
      BY <1>3, <2>1 DEF TakeLock, UsageOf, AnswersOf
    <2>4. LockInv'
      BY <1>3, ClientAssumption DEF TakeLock, LockInv, ClientTypeOK
    <2>5. RecordInv'
      BY <1>3, <2>2, <2>3, ClientAssumption
         DEF TakeLock, RecordInv, LockInv, ClientTypeOK
    <2> QED
      BY <2>4, <2>5
  <1>4. ASSUME NEW c \in Calls, AddToTotals(c) PROVE LockInv' /\ RecordInv'
    <2>1. Counted' = Counted \union {c} /\ c \notin Counted /\ Done' = Done
      BY <1>4 DEF AddToTotals, Counted, Done, ClientTypeOK
    <2>2. UsageOf(Counted \union {c}) = Merge(UsageOf(Counted), usage[c])
      BY <2>1, UsageOfMore DEF Counted
    <2>3. UsageOf(Counted)' = UsageOf(Counted \union {c})
      BY <1>4, <2>1 DEF AddToTotals, UsageOf, AnswersOf
    <2>4. totals' = Merge(UsageOf(Counted), usage[c])
      BY <1>4 DEF AddToTotals, RecordInv
    <2>5. \A s : UsageOf({x \in Done : StageOf[x] = s})'
                    = UsageOf({x \in Done : StageOf[x] = s})
      BY <1>4, <2>1 DEF AddToTotals, UsageOf, AnswersOf
    <2>6. LockInv'
      BY <1>4 DEF AddToTotals, LockInv, ClientTypeOK
    <2>7. \A x \in Calls : callPc'[x] # "adding"
      BY <1>4, <2>6 DEF AddToTotals, LockInv, ClientTypeOK
    <2>8. RecordInv'
      BY <1>4, <2>2, <2>3, <2>4, <2>5, <2>7 DEF AddToTotals, RecordInv
    <2> QED
      BY <2>6, <2>8
  <1>5. ASSUME NEW c \in Calls, AddToStage(c) PROVE LockInv' /\ RecordInv'
    <2> DEFINE Of(s) == {x \in Done : StageOf[x] = s}
    <2>1. Counted' = Counted /\ Done' = Done \union {c} /\ c \notin Done
      BY <1>5 DEF AddToStage, Counted, Done, ClientTypeOK
    <2>2. UsageOf(Counted)' = UsageOf(Counted)
      BY <1>5, <2>1 DEF AddToStage, UsageOf, AnswersOf
    <2>3. ASSUME NEW s \in Stages PROVE byStage'[s] = UsageOf(Of(s))'
      <3>1. CASE s = StageOf[c]
        <4>1. Of(s)' = Of(s) \union {c} /\ c \notin Of(s) /\ Of(s) \subseteq Calls
          BY <2>1, <3>1 DEF Done
        <4>2. UsageOf(Of(s) \union {c}) = Merge(UsageOf(Of(s)), usage[c])
          BY <4>1, UsageOfMore
        <4>3. UsageOf(Of(s))' = UsageOf(Of(s) \union {c})
          BY <1>5, <4>1 DEF AddToStage, UsageOf, AnswersOf
        <4> QED
          BY <1>5, <3>1, <4>2, <4>3 DEF AddToStage, RecordInv, ClientTypeOK
      <3>2. CASE s # StageOf[c]
        <4>1. Of(s)' = Of(s)
          BY <2>1, <3>2 DEF Done
        <4>2. UsageOf(Of(s))' = UsageOf(Of(s))
          BY <1>5, <4>1 DEF AddToStage, UsageOf, AnswersOf
        <4> QED
          BY <1>5, <3>2, <4>2 DEF AddToStage, RecordInv, ClientTypeOK
      <3> QED
        BY <3>1, <3>2
    <2>4. LockInv'
      BY <1>5, ClientAssumption DEF AddToStage, LockInv, ClientTypeOK
    <2>5. RecordInv'
      BY <1>5, <2>2, <2>3 DEF AddToStage, RecordInv, ClientTypeOK
    <2> QED
      BY <2>4, <2>5
  <1> QED
    BY <1>1, <1>2, <1>3, <1>4, <1>5 DEF ClientNext, CallStep

\* However the threads interleave in _record, the totals and the usage of each
\* stage are those of the calls that returned whenever nobody holds the lock.
THEOREM UsageTheorem == ClientSpec => []UsageIsOfReturnedCalls
  <1>1. ClientInit => ClientInv
    BY ClientInvInit
  <1>2. ClientInv /\ [ClientNext]_clientVars => ClientInv'
    BY ClientTypeStep, ClientStep DEF ClientInv
  <1>3. ClientInv => UsageIsOfReturnedCalls
    <2> SUFFICES ASSUME ClientInv, lock = NoCall
                 PROVE  /\ totals = UsageOf(Done)
                        /\ \A s \in Stages :
                              byStage[s] = UsageOf({c \in Done : StageOf[c] = s})
      BY DEF UsageIsOfReturnedCalls
    <2>1. Counted = Done
      BY ClientAssumption DEF ClientInv, LockInv, Counted, Done
    <2> QED
      BY <2>1 DEF ClientInv, RecordInv
  <1> QED
    BY <1>1, <1>2, <1>3, PTL DEF ClientSpec

-----------------------------------------------------------------------------
(* The rate limit of the miner's requests.                                 *)

RequestStates == {"new", "turned away", "limiting", "refused", "admitted",
                  "connecting", "receiving", "received", "renaming",
                  "downloaded", "ready", "error"}
AdmissionTypeOK ==
    /\ ticks \in Nat
    /\ reqPc \in [Requests -> RequestStates]
    /\ stamp \in [Requests -> Nat]
    /\ recent \in [Requests -> SUBSET Requests]
    /\ times \in SUBSET Requests

(***************************************************************************)
(* Without the lock the list may lose requests but it never names one that *)
(* was not admitted, nor does what a request has seen of it.               *)
(***************************************************************************)
AdmissionInv ==
    /\ \A q \in times : WasAdmitted(q)
    /\ \A r \in Requests : \A q \in recent[r] :
          WasAdmitted(q) /\ stamp[r] - stamp[q] < Window
    /\ \A r \in Requests :
          reqPc[r] = "refused" => Cardinality(recent[r]) >= Limit

\* No request has been admitted at the start.
LEMMA AdmissionInit == RequestsInit => AdmissionTypeOK /\ AdmissionInv
  BY DEF RequestsInit, AdmissionTypeOK, AdmissionInv, RequestStates

\* A request on its way through the download stays admitted.
LEMMA AdmittedStay ==
    ASSUME AdmissionTypeOK, NEW r \in Requests,
           \/ NameTmp(r) \/ OpenTmp(r) \/ ReceiveChunk(r) \/ EndReceiving(r)
           \/ FailDownload(r) \/ LookForPdf(r) \/ RenameTmp(r) \/ ReadPdf(r)
    PROVE  /\ reqPc' \in [Requests -> RequestStates]
           /\ \A q \in Requests :
                 /\ WasAdmitted(q) => WasAdmitted(q)'
                 /\ reqPc'[q] = "refused" => reqPc[q] = "refused"
           /\ UNCHANGED <<ticks, stamp, recent, times>>
  BY DEF AdmissionTypeOK, WasAdmitted, RequestStates, NameTmp, OpenTmp,
     ReceiveChunk, EndReceiving, FailDownload, LookForPdf, RenameTmp, ReadPdf,
     Turn, admissionVars

\* The clock counts ticks.
LEMMA TimeGoesOn == ASSUME ticks \in Nat, TickRequests PROVE ticks' \in Nat
  BY DEF TickRequests

\* Every step of the requests keeps what is said of the list.
LEMMA AdmissionStep ==
    ASSUME AdmissionTypeOK, AdmissionInv, [RequestsNext]_requestVars
    PROVE  AdmissionTypeOK' /\ AdmissionInv'
  <1> USE DEF AdmissionTypeOK, AdmissionInv, WasAdmitted
  <1>1. CASE TickRequests \/ UNCHANGED requestVars
    <2>1. UNCHANGED <<reqPc, stamp, recent, times>>
      BY <1>1 DEF TickRequests, requestVars, admissionVars
    <2>2. ticks' \in Nat
      <3>1. CASE TickRequests
        BY <3>1, TimeGoesOn
      <3>2. CASE UNCHANGED requestVars
        BY <3>2 DEF requestVars
      <3> QED
        BY <1>1, <3>1, <3>2
    <2>3. AdmissionTypeOK'
      BY <2>1, <2>2
    <2>4. AdmissionInv'
      BY <2>1
    <2> HIDE DEF AdmissionTypeOK, AdmissionInv
    <2> QED
      BY <2>3, <2>4
  <1>2. ASSUME NEW r \in Requests, TurnAway(r) \/ Refuse(r)
        PROVE  AdmissionTypeOK' /\ AdmissionInv'
    BY <1>2 DEF TurnAway, Refuse, Turn, admissionVars, RequestStates
  <1>3. ASSUME NEW r \in Requests, ReadTimes(r)
        PROVE  AdmissionTypeOK' /\ AdmissionInv'
    BY <1>3 DEF ReadTimes, Turn, RequestStates
  <1>4. ASSUME NEW r \in Requests, Admit(r)
        PROVE  AdmissionTypeOK' /\ AdmissionInv'
    BY <1>4 DEF Admit, Turn, RequestStates
  <1>5. ASSUME NEW r \in Requests,
               \/ NameTmp(r) \/ OpenTmp(r) \/ ReceiveChunk(r)
               \/ EndReceiving(r) \/ FailDownload(r) \/ LookForPdf(r)
               \/ RenameTmp(r) \/ ReadPdf(r)
        PROVE  AdmissionTypeOK' /\ AdmissionInv'
    <2> HIDE DEF WasAdmitted
    <2> QED
      BY <1>5, AdmittedStay
  <1> QED
    BY <1>1, <1>2, <1>3, <1>4, <1>5 DEF RequestsNext

\* A validator is refused only when it had as many requests admitted within
\* the window as it may, although the list is read and replaced unlocked.
THEOREM RefusedTheorem == RequestsSpec => []RefusedOnlyAtTheLimit
  <1>1. AdmissionTypeOK /\ AdmissionInv => RefusedOnlyAtTheLimit
    <2> SUFFICES ASSUME AdmissionTypeOK, AdmissionInv,
                        NEW r \in Requests, reqPc[r] = "refused"
                 PROVE  Cardinality({q \in Requests :
                            /\ WasAdmitted(q)
                            /\ stamp[r] - stamp[q] < Window}) >= Limit
      BY DEF RefusedOnlyAtTheLimit
    <2> DEFINE counted == {q \in Requests : /\ WasAdmitted(q)
                                            /\ stamp[r] - stamp[q] < Window}
    <2>1. recent[r] \in SUBSET counted
      BY DEF AdmissionTypeOK, AdmissionInv
    <2>2. IsFiniteSet(counted)
      BY RequestsAssumption, FS_Subset
    <2> HIDE DEF counted
    <2>3. /\ IsFiniteSet(recent[r])
          /\ Cardinality(recent[r]) <= Cardinality(counted)
      BY <2>1, <2>2, FS_Subset
    <2>4. Cardinality(recent[r]) \in Nat /\ Cardinality(counted) \in Nat
      BY <2>2, <2>3, FS_CardinalityType
    <2>5. Cardinality(recent[r]) >= Limit /\ Limit \in Nat
      BY RequestsAssumption DEF AdmissionInv
    <2>6. Cardinality(counted) >= Limit
      BY <2>3, <2>4, <2>5
    <2> QED
      BY <2>6 DEF counted
  <1> QED
    BY <1>1, AdmissionInit, AdmissionStep, PTL DEF RequestsSpec

-----------------------------------------------------------------------------
(* The downloads of the miner's requests.                                  *)

\* One more chunk is one more chunk of the same PDF.
LEMMA PrefixGrows ==
    ASSUME NEW S, NEW pdf \in Seq(S), NEW k \in Nat, k + 1 <= Len(pdf)
    PROVE  Append(SubSeq(pdf, 1, k), pdf[k + 1]) = SubSeq(pdf, 1, k + 1)
  OBVIOUS

Chunks == UNION {ToSet(Pdfs[r]) : r \in Requests}
Inodes == Requests \union {NoFile}
Beginnings == UNION {Prefixes(Pdfs[r]) : r \in Requests}
\* How far a download can be before it has opened a file.
Before == {"new", "turned away", "limiting", "refused", "admitted", "connecting"}

DownloadTypeOK ==
    /\ ticks \in 0..MaxTicks
    /\ reqPc \in [Requests -> RequestStates]
    /\ tmp \in [Requests -> 0..MaxTicks]
    /\ handle \in [Requests -> Inodes]
    /\ received \in [Requests -> Seq(Chunks)]
    /\ files \in [Dirs -> [Names -> Inodes]]
    /\ DOMAIN content = Requests
    /\ DOMAIN used = Requests

\* What a download has received is a beginning of its PDF.
ReceivedInv ==
    \A r \in Requests :
        /\ Len(received[r]) <= Len(Pdfs[r])
        /\ received[r] = SubSeq(Pdfs[r], 1, Len(received[r]))

\* A file is opened by the download that creates it or by one of the same
\* directory and millisecond.
Opened(r) == handle[r] # NoFile
OpenOf(r) ==
    /\ reqPc[r] \in {"admitted", "connecting"} => Pdfs[r] # << >>
    /\ reqPc[r] \in Before => ~Opened(r) /\ received[r] = << >>
    /\ reqPc[r] \in {"receiving", "received", "renaming"} => Opened(r)
    /\ HasDownloaded(r) => Opened(r)
    /\ Opened(r) => /\ HasNamed(r)
                    /\ Opened(handle[r])
                    /\ DirOf[handle[r]] = DirOf[r]
                    /\ tmp[handle[r]] = tmp[r]

\* Nobody else writes to the file of a download that shares its name with none.
ContentOf(r) ==
    Opened(r) /\ ~SharesItsTmp(r) => handle[r] = r /\ content[r] = received[r]

ReadOf(r) ==
    /\ HasDownloaded(r) \/ reqPc[r] = "renaming" => Matches(r)
    /\ reqPc[r] = "downloaded" =>
          Dir(r)[PdfName(received[r])] # NoFile
    /\ reqPc[r] = "ready" /\ Pdfs[r] # << >> =>
          \/ used[r] = received[r]
          \/ \E w \in Requests :
                /\ HasDownloaded(w) /\ SharesItsTmp(w)
                /\ DirOf[w] = DirOf[r] /\ received[w] = received[r]
DownloadOf(r) == OpenOf(r) /\ ContentOf(r) /\ ReadOf(r)

(***************************************************************************)
(* The name of a temporary file stands for a file of its directory and     *)
(* millisecond.  The name of a PDF stands for the file of a download that  *)
(* has received this PDF, or somebody who shared its temporary file put it *)
(* there.                                                                  *)
(***************************************************************************)
TmpFile(d, t) ==
    LET i == files[d][TmpName(t)]
    IN  i # NoFile => Opened(i) /\ DirOf[i] = d /\ tmp[i] = t
PdfFile(d, p) ==
    LET i == files[d][PdfName(p)]
    IN  i # NoFile => \E w \in Requests :
                          /\ HasDownloaded(w) /\ DirOf[w] = d
                          /\ received[w] = p
                          /\ w = i \/ SharesItsTmp(w)
FilesInv ==
    \A d \in Dirs :
        /\ \A t \in 0..MaxTicks : TmpFile(d, t)
        /\ \A p \in Beginnings : PdfFile(d, p)

DownloadInv ==
    /\ DownloadTypeOK /\ ReceivedInv /\ FilesInv
    /\ \A r \in Requests : DownloadOf(r)

\* The names of the directories are all different.
LEMMA NamesFacts ==
    /\ \A t \in 0..MaxTicks : TmpName(t) \in Names
    /\ \A p \in Beginnings : PdfName(p) \in Names
    /\ \A t, p : TmpName(t) # PdfName(p)
    /\ \A s, t : TmpName(s) = TmpName(t) => s = t
    /\ \A p, q : PdfName(p) = PdfName(q) => p = q
    /\ \A r \in Requests : DirOf[r] \in Dirs
  BY DEF Names, TmpName, PdfName, Dirs, Beginnings

\* A download has received a beginning of its PDF.
LEMMA ReceivedBeginning ==
    ASSUME DownloadTypeOK, ReceivedInv, NEW r \in Requests
    PROVE  received[r] \in Beginnings
  <1>1. Len(received[r]) \in 0..Len(Pdfs[r])
    <2>1. received[r] \in Seq(Chunks) /\ Pdfs[r] \in Seq(ToSet(Pdfs[r]))
      BY PdfsAssumption DEF DownloadTypeOK
    <2>2. Len(received[r]) \in Nat /\ Len(Pdfs[r]) \in Nat
      BY <2>1
    <2>3. Len(received[r]) <= Len(Pdfs[r])
      BY DEF ReceivedInv
    <2> QED
      BY <2>2, <2>3
  <1>2. received[r] \in Prefixes(Pdfs[r])
    BY <1>1 DEF Prefixes, ReceivedInv
  <1> QED
    BY <1>2 DEF Beginnings

\* There are no files at the start.
LEMMA DownloadInit == RequestsInit => DownloadInv
  <1> SUFFICES ASSUME RequestsInit PROVE DownloadInv
    OBVIOUS
  <1>1. 0 \in 0..MaxTicks
    BY RequestsAssumption
  <1>2. DownloadTypeOK
    BY <1>1 DEF RequestsInit, DownloadTypeOK, RequestStates, Inodes
  <1>3. ReceivedInv
    <2> SUFFICES ASSUME NEW r \in Requests
                 PROVE  /\ Len(<< >>) <= Len(Pdfs[r])
                        /\ << >> = SubSeq(Pdfs[r], 1, Len(<< >>))
      BY DEF ReceivedInv, RequestsInit
    <2>1. Pdfs[r] \in Seq(ToSet(Pdfs[r]))
      BY PdfsAssumption
    <2> QED
      BY <2>1
  <1>4. FilesInv
    BY NamesFacts DEF RequestsInit, FilesInv, TmpFile, PdfFile
  <1>5. \A r \in Requests : DownloadOf(r)
    BY DEF RequestsInit, DownloadOf, OpenOf, ContentOf, ReadOf, Opened, Before,
       HasDownloaded
  <1> QED
    BY <1>2, <1>3, <1>4, <1>5 DEF DownloadInv

(***************************************************************************)
(* What has happened to a download stays: the name of its temporary file,  *)
(* what it has received when it is done, and who has opened a file.        *)
(***************************************************************************)
Onward ==
    /\ \A q \in Requests : HasNamed(q) => HasNamed(q)' /\ tmp'[q] = tmp[q]
    /\ \A q \in Requests :
          HasDownloaded(q) => HasDownloaded(q)' /\ received'[q] = received[q]
    /\ \A q \in Requests : Opened(q) => Opened(q)'

\* Two downloads that share a name go on sharing it.
LEMMA SharingStays ==
    ASSUME Onward, NEW w \in Requests, HasNamed(w), SharesItsTmp(w)
    PROVE  SharesItsTmp(w)'
  BY DEF Onward, SharesItsTmp

\* A download that is done has its name.
LEMMA DoneIsNamed ==
    ASSUME NEW w \in Requests, HasDownloaded(w) PROVE HasNamed(w)
  BY DEF HasDownloaded, HasNamed, WasAdmitted

\* What is said of the file of a name stays when the name stays.
LEMMA FilesStay ==
    ASSUME DownloadInv, Onward, NEW d \in Dirs
    PROVE  /\ \A t \in 0..MaxTicks :
                 files'[d][TmpName(t)] \in {NoFile, files[d][TmpName(t)]}
                    => TmpFile(d, t)'
           /\ \A p \in Beginnings :
                 files'[d][PdfName(p)] = files[d][PdfName(p)] => PdfFile(d, p)'
  <1>1. ASSUME NEW t \in 0..MaxTicks,
               files'[d][TmpName(t)] \in {NoFile, files[d][TmpName(t)]}
        PROVE  TmpFile(d, t)'
    <2>1. PICK i \in Inodes : i = files[d][TmpName(t)]
      BY NamesFacts DEF DownloadInv, DownloadTypeOK
    <2>2. CASE files'[d][TmpName(t)] = NoFile
      BY <2>2 DEF TmpFile
    <2>3. CASE files'[d][TmpName(t)] = i /\ i # NoFile
      <3>1. i \in Requests
        BY <2>3 DEF Inodes
      <3>2. Opened(i) /\ DirOf[i] = d /\ tmp[i] = t
        BY <2>1, <2>3 DEF DownloadInv, FilesInv, TmpFile
      <3>3. Opened(i)' /\ tmp'[i] = tmp[i]
        BY <3>1, <3>2 DEF DownloadInv, DownloadOf, OpenOf, Onward
      <3> QED
        BY <2>3, <3>2, <3>3 DEF TmpFile
    <2> QED
      BY <1>1, <2>1, <2>2, <2>3
  <1>2. ASSUME NEW p \in Beginnings,
               files'[d][PdfName(p)] = files[d][PdfName(p)]
        PROVE  PdfFile(d, p)'
    <2>1. PICK i : i = files[d][PdfName(p)]
      OBVIOUS
    <2>2. SUFFICES ASSUME i # NoFile
                   PROVE  \E w \in Requests :
                             /\ HasDownloaded(w)' /\ DirOf[w] = d
                             /\ received'[w] = p
                             /\ w = i \/ SharesItsTmp(w)'
      BY <1>2, <2>1 DEF PdfFile
    <2>3. PICK w \in Requests : /\ HasDownloaded(w) /\ DirOf[w] = d
                                /\ received[w] = p
                                /\ w = i \/ SharesItsTmp(w)
      BY <2>2, <2>1 DEF DownloadInv, FilesInv, PdfFile
    <2>4. HasDownloaded(w)' /\ received'[w] = received[w]
      BY <2>3 DEF Onward
    <2>5. w = i \/ SharesItsTmp(w)'
      BY <2>3, DoneIsNamed, SharingStays
    <2> QED
      BY <2>3, <2>4, <2>5
  <1> QED
    BY <1>1, <1>2

\* A download that has opened its file and leaves it alone keeps it.
LEMMA OpenedStays ==
    ASSUME DownloadInv, Onward, NEW r \in Requests,
           handle'[r] = handle[r], received'[r] = received[r],
           content'[r] = content[r]
    PROVE  /\ Opened(r)' => /\ HasNamed(r)' /\ Opened(handle[r])'
                            /\ DirOf[handle'[r]] = DirOf[r]
                            /\ tmp'[handle'[r]] = tmp'[r]
           /\ ContentOf(r)'
  <1> SUFFICES ASSUME Opened(r)'
               PROVE  /\ HasNamed(r)' /\ Opened(handle[r])'
                      /\ DirOf[handle'[r]] = DirOf[r]
                      /\ tmp'[handle'[r]] = tmp'[r]
                      /\ ContentOf(r)'
    BY DEF ContentOf
  <1>1. /\ handle[r] \in Requests /\ Opened(r) /\ HasNamed(r)
        /\ Opened(handle[r])
        /\ DirOf[handle[r]] = DirOf[r] /\ tmp[handle[r]] = tmp[r]
    BY DEF DownloadInv, DownloadOf, OpenOf, DownloadTypeOK, Inodes, Opened
  <1>2. HasNamed(handle[r])
    BY <1>1 DEF DownloadInv, DownloadOf, OpenOf
  <1>3. ContentOf(r)'
    BY <1>1, SharingStays DEF ContentOf, DownloadInv, DownloadOf
  <1> QED
    BY <1>1, <1>2, <1>3 DEF Onward, Opened

\* A step of one download that does not write to the file of another one, or
\* to one with a shared name, leaves what is said of that.
LEMMA OthersStay ==
    ASSUME DownloadInv, Onward, NEW q \in Requests,
           reqPc'[q] = reqPc[q], handle'[q] = handle[q],
           received'[q] = received[q], used'[q] = used[q],
           content'[q] = content[q] \/ SharesItsTmp(q)',
           \A p \in Beginnings : files[DirOf[q]][PdfName(p)] # NoFile
               => files'[DirOf[q]][PdfName(p)] # NoFile
    PROVE  DownloadOf(q)'
  <1>1. DownloadOf(q) /\ (Opened(q) <=> Opened(q)')
    BY DEF DownloadInv, Opened
  <1>2. OpenOf(q)'
    <2>1. ASSUME Opened(q)
          PROVE  /\ HasNamed(q)' /\ Opened(handle[q])'
                 /\ DirOf[handle'[q]] = DirOf[q] /\ tmp'[handle'[q]] = tmp'[q]
      <3>1. /\ handle[q] \in Requests /\ HasNamed(q) /\ Opened(handle[q])
            /\ DirOf[handle[q]] = DirOf[q] /\ tmp[handle[q]] = tmp[q]
        BY <1>1, <2>1
           DEF DownloadInv, DownloadOf, OpenOf, DownloadTypeOK, Inodes, Opened
      <3>2. HasNamed(handle[q])
        BY <3>1 DEF DownloadInv, DownloadOf, OpenOf
      <3> QED
        BY <3>1, <3>2 DEF Onward, Opened
    <2> QED
      BY <1>1, <2>1 DEF DownloadOf, OpenOf, HasDownloaded
  <1>3. ContentOf(q)'
    <2> SUFFICES ASSUME Opened(q)', ~SharesItsTmp(q)'
                 PROVE  handle'[q] = q /\ content'[q] = received'[q]
      BY DEF ContentOf
    <2>1. Opened(q) /\ HasNamed(q)
      BY <1>1 DEF DownloadOf, OpenOf
    <2>2. ~SharesItsTmp(q)
      BY <2>1, SharingStays
    <2> QED
      BY <1>1, <2>1, <2>2 DEF DownloadOf, ContentOf
  <1>4. ReadOf(q)'
    <2>1. received[q] \in Beginnings
      BY ReceivedBeginning DEF DownloadInv
    <2>2. ASSUME NEW w \in Requests, HasDownloaded(w), SharesItsTmp(w),
                 received[w] = received[q]
          PROVE  /\ HasDownloaded(w)' /\ SharesItsTmp(w)'
                 /\ received'[w] = received'[q]
      BY <2>2, DoneIsNamed, SharingStays DEF Onward
    <2> QED
      BY <1>1, <2>1, <2>2 DEF DownloadOf, ReadOf, HasDownloaded, Matches, Dir
  <1> QED
    BY <1>2, <1>3, <1>4 DEF DownloadOf

\* What has happened stays, whatever the requests do.
LEMMA OnwardStep ==
    ASSUME DownloadInv, [RequestsNext]_requestVars PROVE Onward
  <1>1. CASE TickRequests \/ UNCHANGED requestVars
    <2>1. UNCHANGED <<reqPc, tmp, handle, received>>
      BY <1>1 DEF TickRequests, requestVars, downloadVars
    <2> QED
      BY <2>1 DEF Onward, HasNamed, WasAdmitted, HasDownloaded, Opened
  <1>2. ASSUME NEW r \in Requests,
               \/ TurnAway(r) \/ ReadTimes(r) \/ Refuse(r) \/ Admit(r)
               \/ NameTmp(r) \/ OpenTmp(r) \/ ReceiveChunk(r)
               \/ EndReceiving(r) \/ FailDownload(r) \/ LookForPdf(r)
               \/ RenameTmp(r) \/ ReadPdf(r)
        PROVE  Onward
    <2>1. /\ \A q \in Requests \ {r} :
                reqPc'[q] = reqPc[q] /\ tmp'[q] = tmp[q]
                /\ received'[q] = received[q] /\ handle'[q] = handle[q]
          /\ HasNamed(r) => HasNamed(r)' /\ tmp'[r] = tmp[r]
          /\ HasDownloaded(r) => HasDownloaded(r)' /\ received'[r] = received[r]
      BY <1>2 DEF DownloadInv, DownloadTypeOK, HasNamed, WasAdmitted,
         HasDownloaded, Turn, TurnAway, ReadTimes, Refuse, Admit, NameTmp,
         OpenTmp, ReceiveChunk, EndReceiving, FailDownload, LookForPdf,
         RenameTmp, ReadPdf, admissionVars, downloadVars
    <2>2. handle'[r] = handle[r] \/ Opened(r)'
      <3>1. CASE OpenTmp(r)
        <4>1. handle'[r] = IF InodeOf(r) = NoFile THEN r ELSE InodeOf(r)
          BY <3>1 DEF OpenTmp, DownloadInv, DownloadTypeOK
        <4> QED
          BY <4>1, RequestsAssumption DEF Opened
      <3>2. CASE ~OpenTmp(r)
        BY <1>2, <3>2 DEF TurnAway, ReadTimes, Refuse, Admit, NameTmp,
           ReceiveChunk, EndReceiving, FailDownload, LookForPdf, RenameTmp,
           ReadPdf, admissionVars, downloadVars
      <3> QED
        BY <3>1, <3>2
    <2>3. \A q \in Requests : Opened(q) => Opened(q)'
      BY <2>1, <2>2 DEF Opened
    <2>4. \A q \in Requests \ {r} :
             /\ HasNamed(q) => HasNamed(q)'
             /\ HasDownloaded(q) => HasDownloaded(q)'
      BY <2>1 DEF HasNamed, WasAdmitted, HasDownloaded
    <2> QED
      BY <2>1, <2>3, <2>4 DEF Onward
  <1> QED
    BY <1>1, <1>2 DEF RequestsNext

\* A step that touches no file and opens none.
LEMMA QuietStep ==
    ASSUME DownloadInv, Onward, DownloadTypeOK',
           UNCHANGED <<handle, received, files, content, used>>,
           \A r \in Requests :
              \/ reqPc'[r] = reqPc[r]
              \/ /\ reqPc[r] \in Before /\ reqPc'[r] \in Before
                 /\ reqPc'[r] \in {"admitted", "connecting"} => Pdfs[r] # << >>
              \/ reqPc[r] \in Before /\ reqPc'[r] = "ready" /\ Pdfs[r] = << >>
              \/ reqPc[r] = "receiving" /\ reqPc'[r] = "received"
    PROVE  DownloadInv'
  <1>1. ReceivedInv'
    BY DEF DownloadInv, ReceivedInv
  <1>2. FilesInv'
    BY FilesStay DEF FilesInv
  <1>3. ASSUME NEW r \in Requests PROVE DownloadOf(r)'
    <2>1. CASE reqPc'[r] = reqPc[r]
      BY <2>1, OthersStay
    <2>2. CASE reqPc'[r] # reqPc[r]
      <3>1. /\ reqPc'[r] \notin {"renaming", "downloaded"}
            /\ ~HasDownloaded(r)'
        BY <2>2 DEF Before, HasDownloaded
      <3>2. ReadOf(r)'
        BY <3>1 DEF ReadOf, HasDownloaded
      <3>3. CASE reqPc[r] \in Before
        <4>1. ~Opened(r)' /\ received'[r] = << >>
          BY <3>3 DEF DownloadInv, DownloadOf, OpenOf, Opened
        <4>2. /\ reqPc'[r] \notin {"receiving", "received", "renaming"}
              /\ reqPc'[r] \in {"admitted", "connecting"} => Pdfs[r] # << >>
          BY <2>2, <3>3 DEF Before
        <4> QED
          BY <3>1, <3>2, <4>1, <4>2 DEF DownloadOf, OpenOf, ContentOf
      <3>4. CASE reqPc[r] = "receiving" /\ reqPc'[r] = "received"
        <4>1. Opened(r)
          BY <3>4 DEF DownloadInv, DownloadOf, OpenOf
        <4>2. OpenOf(r)' /\ ContentOf(r)'
          BY <3>1, <3>4, <4>1, OpenedStays DEF OpenOf, Before, Opened
        <4> QED
          BY <3>2, <4>2 DEF DownloadOf
      <3> QED
        BY <2>2, <3>3, <3>4
    <2> QED
      BY <2>1, <2>2
  <1> QED
    BY <1>1, <1>2, <1>3 DEF DownloadInv

\* A file under the name of a download's temporary file is its own, or that of
\* one that shares the name.
LEMMA TmpFacts ==
    ASSUME DownloadInv, NEW r \in Requests, HasNamed(r), InodeOf(r) # NoFile
    PROVE  /\ InodeOf(r) \in Requests
           /\ Opened(InodeOf(r)) /\ HasNamed(InodeOf(r))
           /\ DirOf[InodeOf(r)] = DirOf[r] /\ tmp[InodeOf(r)] = tmp[r]
           /\ InodeOf(r) # r => SharesItsTmp(r) /\ SharesItsTmp(InodeOf(r))
  <1>1. DirOf[r] \in Dirs /\ tmp[r] \in 0..MaxTicks /\ TmpName(tmp[r]) \in Names
    BY NamesFacts DEF DownloadInv, DownloadTypeOK
  <1>2. PICK i \in Requests : i = InodeOf(r)
    BY <1>1 DEF DownloadInv, DownloadTypeOK, Inodes, InodeOf, Dir
  <1>3. Opened(i) /\ DirOf[i] = DirOf[r] /\ tmp[i] = tmp[r]
    BY <1>1, <1>2 DEF DownloadInv, FilesInv, TmpFile, InodeOf, Dir
  <1>4. HasNamed(i)
    BY <1>3 DEF DownloadInv, DownloadOf, OpenOf
  <1>5. i # r => SharesItsTmp(r) /\ SharesItsTmp(i)
    BY <1>3, <1>4 DEF SharesItsTmp
  <1> QED
    BY <1>2, <1>3, <1>4, <1>5

\* Opening the temporary file keeps what is known of the files.
LEMMA OpenTmpStep ==
    ASSUME DownloadInv, Onward, NEW r \in Requests, OpenTmp(r)
    PROVE  DownloadInv'
  <1>1. /\ reqPc[r] = "connecting" /\ DirOf[r] \in Dirs
        /\ tmp[r] \in 0..MaxTicks /\ TmpName(tmp[r]) \in Names
    BY NamesFacts DEF OpenTmp, DownloadInv, DownloadTypeOK
  <1>2. PICK i : i = IF InodeOf(r) = NoFile THEN r ELSE InodeOf(r)
    OBVIOUS
  <1>3. /\ handle' = [handle EXCEPT ![r] = i]
        /\ files' = [files EXCEPT ![DirOf[r]][TmpName(tmp[r])] = i]
        /\ content' = [content EXCEPT ![i] = << >>]
        /\ reqPc' = [reqPc EXCEPT ![r] = "receiving"]
        /\ UNCHANGED <<ticks, tmp, received, used>>
    BY <1>2 DEF OpenTmp, Turn
  <1>4. /\ received[r] = << >>
        /\ i \in Requests /\ DirOf[i] = DirOf[r] /\ tmp[i] = tmp[r]
        /\ i # r => Opened(i) /\ HasNamed(i)
    <2>1. CASE InodeOf(r) = NoFile
      BY <1>1, <1>2, <2>1 DEF DownloadInv, DownloadOf, OpenOf, Before
    <2>2. CASE InodeOf(r) # NoFile
      <3>1. i = InodeOf(r)
        BY <1>2, <2>2
      <3>2. HasNamed(r)
        BY <1>1 DEF DownloadInv, DownloadOf, OpenOf, HasNamed, WasAdmitted
      <3>3. /\ i \in Requests /\ DirOf[i] = DirOf[r] /\ tmp[i] = tmp[r]
            /\ Opened(i) /\ HasNamed(i)
        BY <2>2, <3>1, <3>2, TmpFacts
      <3> QED
        BY <1>1, <3>3 DEF DownloadInv, DownloadOf, OpenOf, Before
    <2> QED
      BY <2>1, <2>2
  <1>5. /\ reqPc'[r] = "receiving" /\ handle'[r] = i /\ content'[i] = << >>
        /\ files'[DirOf[r]][TmpName(tmp[r])] = i
        /\ Opened(r)' /\ Opened(i)' /\ HasNamed(r)' /\ i # NoFile
    <2>1. /\ reqPc'[r] = "receiving" /\ handle'[r] = i /\ content'[i] = << >>
          /\ files'[DirOf[r]][TmpName(tmp[r])] = i
      BY <1>1, <1>3, <1>4 DEF DownloadInv, DownloadTypeOK
    <2>2. i # NoFile
      BY <1>4, RequestsAssumption
    <2>3. Opened(r)' /\ Opened(i)'
      BY <1>4, <2>1, <2>2 DEF Opened, Onward
    <2>4. Pdfs[r] # << >>
      BY <1>1 DEF DownloadInv, DownloadOf, OpenOf
    <2> QED
      BY <2>1, <2>2, <2>3, <2>4 DEF HasNamed, WasAdmitted
  <1>6. DownloadTypeOK'
    BY <1>1, <1>3, <1>4
       DEF DownloadInv, DownloadTypeOK, Inodes, RequestStates
  <1>7. ReceivedInv'
    BY <1>3 DEF DownloadInv, ReceivedInv
  <1>8. FilesInv'
    <2>1. ASSUME NEW d \in Dirs, NEW t \in 0..MaxTicks PROVE TmpFile(d, t)'
      <3>1. CASE d = DirOf[r] /\ t = tmp[r]
        BY <1>3, <1>4, <1>5, <3>1 DEF TmpFile
      <3>2. CASE ~(d = DirOf[r] /\ t = tmp[r])
        <4>1. TmpName(t) \in Names
              /\ (d = DirOf[r] => TmpName(t) # TmpName(tmp[r]))
          BY <3>2, NamesFacts
        <4>2. files'[d][TmpName(t)] = files[d][TmpName(t)]
          BY <1>1, <1>3, <4>1 DEF DownloadInv, DownloadTypeOK
        <4> QED
          BY <4>2, FilesStay
      <3> QED
        BY <3>1, <3>2
    <2>2. ASSUME NEW d \in Dirs, NEW p \in Beginnings PROVE PdfFile(d, p)'
      <3>1. PdfName(p) \in Names /\ TmpName(tmp[r]) # PdfName(p)
        BY NamesFacts
      <3>2. files'[d][PdfName(p)] = files[d][PdfName(p)]
        BY <1>1, <1>3, <3>1 DEF DownloadInv, DownloadTypeOK
      <3> QED
        BY <3>2, FilesStay
    <2> QED
      BY <2>1, <2>2 DEF FilesInv
  <1>9. ASSUME NEW q \in Requests \ {r} PROVE DownloadOf(q)'
    <2>1. /\ reqPc'[q] = reqPc[q] /\ handle'[q] = handle[q]
          /\ received'[q] = received[q] /\ used'[q] = used[q]
      BY <1>3 DEF DownloadInv, DownloadTypeOK
    <2>2. content'[q] = content[q] \/ SharesItsTmp(q)'
      <3>1. CASE q # i
        BY <1>3, <3>1 DEF DownloadInv, DownloadTypeOK
      <3>2. CASE q = i
        BY <1>3, <1>4, <1>5, <3>2 DEF SharesItsTmp
      <3> QED
        BY <3>1, <3>2
    <2>3. \A p \in Beginnings :
             files'[DirOf[q]][PdfName(p)] = files[DirOf[q]][PdfName(p)]
      BY <1>1, <1>3, NamesFacts DEF DownloadInv, DownloadTypeOK
    <2> QED
      BY <2>1, <2>2, <2>3, OthersStay
  <1>10. DownloadOf(r)'
    <2>1. OpenOf(r)'
      BY <1>3, <1>4, <1>5 DEF OpenOf, Before
    <2>2. ContentOf(r)'
      <3>1. i # r => SharesItsTmp(r)'
        BY <1>3, <1>4 DEF SharesItsTmp, Onward
      <3> QED
        BY <1>3, <1>4, <1>5, <3>1 DEF ContentOf
    <2>3. ReadOf(r)'
      BY <1>5 DEF ReadOf, HasDownloaded
    <2> QED
      BY <2>1, <2>2, <2>3 DEF DownloadOf
  <1> QED
    BY <1>6, <1>7, <1>8, <1>9, <1>10 DEF DownloadInv

\* Receiving a chunk keeps what is known of the files.
LEMMA ReceiveChunkStep ==
    ASSUME DownloadInv, Onward, NEW r \in Requests, ReceiveChunk(r)
    PROVE  DownloadInv'
  <1> DEFINE n == Len(received[r]) + 1
  <1>1. PICK h : h = handle[r]
    OBVIOUS
  <1>2. /\ reqPc[r] = "receiving" /\ n <= Len(Pdfs[r])
        /\ received' = [received EXCEPT ![r] = Append(@, Pdfs[r][n])]
        /\ content' = [content EXCEPT ![h] = WriteAt(@, n, Pdfs[r][n])]
        /\ UNCHANGED <<ticks, reqPc, tmp, handle, files, used>>
    BY <1>1 DEF ReceiveChunk
  <1>3. /\ Opened(r) /\ HasNamed(r) /\ h \in Requests /\ Opened(h)
        /\ DirOf[h] = DirOf[r] /\ tmp[h] = tmp[r]
    BY <1>1, <1>2
       DEF DownloadInv, DownloadOf, OpenOf, Opened, DownloadTypeOK, Inodes
  <1>4. /\ Pdfs[r] \in Seq(ToSet(Pdfs[r])) /\ received[r] \in Seq(Chunks)
        /\ Len(received[r]) \in Nat /\ n \in 1..Len(Pdfs[r])
    BY <1>2, PdfsAssumption DEF DownloadInv, DownloadTypeOK
  <1>5. Pdfs[r][n] \in Chunks
    BY <1>4 DEF Chunks, ToSet
  <1>6. DownloadTypeOK'
    BY <1>2, <1>4, <1>5 DEF DownloadInv, DownloadTypeOK
  <1>7. /\ received'[r] = Append(received[r], Pdfs[r][n])
        /\ \A q \in Requests \ {r} : received'[q] = received[q]
    BY <1>2 DEF DownloadInv, DownloadTypeOK
  <1>8. ReceivedInv'
    <2>1. Append(SubSeq(Pdfs[r], 1, Len(received[r])), Pdfs[r][n])
              = SubSeq(Pdfs[r], 1, n)
      BY <1>2, <1>4, PrefixGrows
    <2>2. Len(received'[r]) = n
      BY <1>4, <1>7
    <2>3. received'[r] = SubSeq(Pdfs[r], 1, Len(received'[r]))
      BY <1>7, <2>1, <2>2 DEF DownloadInv, ReceivedInv
    <2> QED
      BY <1>2, <1>7, <2>2, <2>3 DEF DownloadInv, ReceivedInv
  <1>9. FilesInv'
    BY <1>2, FilesStay DEF FilesInv
  <1>10. HasNamed(r)' /\ HasNamed(h)'
    BY <1>3 DEF Onward, DownloadInv, DownloadOf, OpenOf
  <1>11. ASSUME NEW q \in Requests \ {r} PROVE DownloadOf(q)'
    <2>1. content'[q] = content[q] \/ SharesItsTmp(q)'
      <3>1. CASE q # h
        BY <1>2, <3>1 DEF DownloadInv, DownloadTypeOK
      <3>2. CASE q = h
        BY <1>2, <1>3, <1>10, <3>2 DEF SharesItsTmp
      <3> QED
        BY <3>1, <3>2
    <2> QED
      BY <1>2, <1>7, <2>1, OthersStay
  <1>12. DownloadOf(r)'
    <2>1. OpenOf(r)'
      <3>1. Opened(r)' /\ Opened(h)'
        BY <1>3 DEF Onward
      <3> QED
        BY <1>1, <1>2, <1>3, <1>10, <3>1 DEF OpenOf, Before
    <2>2. ContentOf(r)'
      <3> SUFFICES ASSUME ~SharesItsTmp(r)'
                   PROVE  handle'[r] = r /\ content'[r] = received'[r]
        BY DEF ContentOf
      <3>1. ~SharesItsTmp(r)
        BY <1>3, SharingStays
      <3>2. h = r /\ content[r] = received[r]
        BY <1>1, <1>3, <3>1 DEF DownloadInv, DownloadOf, ContentOf
      <3>3. content'[r] = WriteAt(received[r], n, Pdfs[r][n])
        BY <1>2, <3>2 DEF DownloadInv, DownloadTypeOK
      <3>4. WriteAt(received[r], n, Pdfs[r][n]) = Append(received[r], Pdfs[r][n])
        BY <1>4 DEF WriteAt
      <3> QED
        BY <1>1, <1>2, <1>7, <3>2, <3>3, <3>4
    <2>3. ReadOf(r)'
      BY <1>2 DEF ReadOf, HasDownloaded
    <2> QED
      BY <2>1, <2>2, <2>3 DEF DownloadOf
  <1> HIDE DEF n
  <1> QED
    BY <1>6, <1>8, <1>9, <1>11, <1>12 DEF DownloadInv

\* Removing the name of the temporary file keeps what is known of the files.
LEMMA RemoveTmp ==
    ASSUME DownloadInv, Onward, NEW r \in Requests,
           files' = [files EXCEPT ![DirOf[r]][TmpName(tmp[r])] = NoFile]
    PROVE  /\ files' \in [Dirs -> [Names -> Inodes]]
           /\ \A d \in Dirs, p \in Beginnings :
                 files'[d][PdfName(p)] = files[d][PdfName(p)]
           /\ FilesInv'
  <1>1. /\ DirOf[r] \in Dirs /\ tmp[r] \in 0..MaxTicks
        /\ TmpName(tmp[r]) \in Names
    BY NamesFacts DEF DownloadInv, DownloadTypeOK
  <1>2. files' \in [Dirs -> [Names -> Inodes]]
    BY <1>1 DEF DownloadInv, DownloadTypeOK, Inodes
  <1>3. \A d \in Dirs, p \in Beginnings :
           files'[d][PdfName(p)] = files[d][PdfName(p)]
    BY <1>1, NamesFacts DEF DownloadInv, DownloadTypeOK
  <1>4. \A d \in Dirs, t \in 0..MaxTicks :
           files'[d][TmpName(t)] \in {NoFile, files[d][TmpName(t)]}
    BY <1>1, NamesFacts DEF DownloadInv, DownloadTypeOK
  <1> QED
    BY <1>2, <1>3, <1>4, FilesStay DEF FilesInv

\* A failed download keeps what is known of the files.
LEMMA FailDownloadStep ==
    ASSUME DownloadInv, Onward, NEW r \in Requests, FailDownload(r)
    PROVE  DownloadInv'
  <1>1. /\ files' = [files EXCEPT ![DirOf[r]][TmpName(tmp[r])] = NoFile]
        /\ reqPc[r] \in {"connecting", "receiving", "received", "renaming"}
        /\ reqPc' = [reqPc EXCEPT ![r] = "error"]
        /\ UNCHANGED <<ticks, tmp, handle, received, content, used>>
    BY DEF FailDownload, Turn
  <1>2. /\ files' \in [Dirs -> [Names -> Inodes]] /\ FilesInv'
        /\ \A d \in Dirs, p \in Beginnings :
              files'[d][PdfName(p)] = files[d][PdfName(p)]
    BY <1>1, RemoveTmp
  <1>3. DownloadTypeOK' /\ ReceivedInv'
    BY <1>1, <1>2
       DEF DownloadInv, DownloadTypeOK, RequestStates, ReceivedInv
  <1>4. reqPc'[r] = "error" /\ \A q \in Requests \ {r} : reqPc'[q] = reqPc[q]
    BY <1>1 DEF DownloadInv, DownloadTypeOK
  <1>5. ASSUME NEW q \in Requests \ {r} PROVE DownloadOf(q)'
    BY <1>1, <1>2, <1>4, OthersStay, NamesFacts
  <1>6. DownloadOf(r)'
    <2>1. OpenOf(r)' /\ ContentOf(r)'
      BY <1>1, <1>4, OpenedStays DEF OpenOf, Before, HasDownloaded
    <2>2. ReadOf(r)'
      BY <1>4 DEF ReadOf, HasDownloaded
    <2> QED
      BY <2>1, <2>2 DEF DownloadOf
  <1> QED
    BY <1>2, <1>3, <1>5, <1>6 DEF DownloadInv

\* A download that finds its PDF, or none, keeps what is known of the files.
LEMMA LookForPdfStep ==
    ASSUME DownloadInv, Onward, NEW r \in Requests, LookForPdf(r)
    PROVE  DownloadInv'
  <1>1. /\ reqPc[r] = "received" /\ Matches(r)
        /\ UNCHANGED <<ticks, tmp, handle, received, content, used>>
        /\ \/ /\ Dir(r)[PdfName(received[r])] # NoFile
              /\ files' = [files EXCEPT ![DirOf[r]][TmpName(tmp[r])] = NoFile]
              /\ reqPc' = [reqPc EXCEPT ![r] = "downloaded"]
           \/ files' = files /\ reqPc' = [reqPc EXCEPT ![r] = "renaming"]
    BY DEF LookForPdf, Turn
  <1>2. /\ files' \in [Dirs -> [Names -> Inodes]] /\ FilesInv'
        /\ \A d \in Dirs, p \in Beginnings :
              files'[d][PdfName(p)] = files[d][PdfName(p)]
    <2>1. CASE files' = files
      <3>1. files' \in [Dirs -> [Names -> Inodes]]
        BY <2>1 DEF DownloadInv, DownloadTypeOK
      <3> QED
        BY <2>1, <3>1, FilesStay DEF FilesInv
    <2>2. CASE files' # files
      BY <1>1, <2>2, RemoveTmp
    <2> QED
      BY <2>1, <2>2
  <1>3. DownloadTypeOK' /\ ReceivedInv'
    BY <1>1, <1>2
       DEF DownloadInv, DownloadTypeOK, RequestStates, ReceivedInv
  <1>4. /\ \/ reqPc'[r] = "renaming"
           \/ /\ reqPc'[r] = "downloaded"
              /\ Dir(r)[PdfName(received[r])] # NoFile
        /\ \A q \in Requests \ {r} : reqPc'[q] = reqPc[q]
    BY <1>1 DEF DownloadInv, DownloadTypeOK
  <1>5. ASSUME NEW q \in Requests \ {r} PROVE DownloadOf(q)'
    BY <1>1, <1>2, <1>4, OthersStay, NamesFacts
  <1>6. DownloadOf(r)'
    <2>1. Opened(r)
      BY <1>1 DEF DownloadInv, DownloadOf, OpenOf
    <2>2. OpenOf(r)' /\ ContentOf(r)'
      BY <1>1, <1>4, <2>1, OpenedStays DEF OpenOf, Before, Opened
    <2>3. ReadOf(r)'
      <3>1. received[r] \in Beginnings /\ DirOf[r] \in Dirs
        BY ReceivedBeginning, NamesFacts DEF DownloadInv
      <3> QED
        BY <1>1, <1>2, <1>4, <3>1 DEF ReadOf, Matches, Dir
    <2> QED
      BY <2>2, <2>3 DEF DownloadOf
  <1> QED
    BY <1>2, <1>3, <1>5, <1>6 DEF DownloadInv

\* Naming the temporary file as its PDF keeps what is known of the files.
LEMMA RenameTmpStep ==
    ASSUME DownloadInv, Onward, NEW r \in Requests, RenameTmp(r)
    PROVE  DownloadInv'
  <1> DEFINE p == received[r]
  <1>1. PICK i : i = InodeOf(r)
    OBVIOUS
  <1>2. /\ reqPc[r] = "renaming" /\ i # NoFile
        /\ files' = [files EXCEPT ![DirOf[r]][TmpName(tmp[r])] = NoFile,
                                  ![DirOf[r]][PdfName(p)] = i]
        /\ reqPc' = [reqPc EXCEPT ![r] = "downloaded"]
        /\ UNCHANGED <<ticks, tmp, handle, received, content, used>>
    BY <1>1 DEF RenameTmp, Turn
  <1>3. /\ Opened(r) /\ HasNamed(r) /\ Matches(r)
        /\ DirOf[r] \in Dirs /\ tmp[r] \in 0..MaxTicks /\ p \in Beginnings
        /\ TmpName(tmp[r]) \in Names /\ PdfName(p) \in Names
        /\ TmpName(tmp[r]) # PdfName(p)
    <2>1. Opened(r) /\ HasNamed(r) /\ Matches(r)
      BY <1>2 DEF DownloadInv, DownloadOf, OpenOf, ReadOf
    <2>2. DirOf[r] \in Dirs /\ tmp[r] \in 0..MaxTicks /\ p \in Beginnings
      BY ReceivedBeginning, NamesFacts DEF DownloadInv, DownloadTypeOK
    <2> QED
      BY <2>1, <2>2, NamesFacts
  <1>4. i \in Requests /\ (i # r => SharesItsTmp(r))
    BY <1>1, <1>2, <1>3, TmpFacts
  <1> HIDE DEF p
  <1>5. files' \in [Dirs -> [Names -> Inodes]]
    BY <1>2, <1>3, <1>4 DEF DownloadInv, DownloadTypeOK, Inodes
  <1>6. DownloadTypeOK' /\ ReceivedInv'
    BY <1>2, <1>5 DEF DownloadInv, DownloadTypeOK, RequestStates, ReceivedInv
  <1>7. /\ reqPc'[r] = "downloaded"
        /\ \A q \in Requests \ {r} : reqPc'[q] = reqPc[q]
    BY <1>2 DEF DownloadInv, DownloadTypeOK
  <1>8. /\ \A d \in Dirs, t \in 0..MaxTicks :
              files'[d][TmpName(t)] \in {NoFile, files[d][TmpName(t)]}
        /\ files'[DirOf[r]][PdfName(p)] = i
        /\ \A d \in Dirs, x \in Beginnings : d # DirOf[r] \/ x # p =>
              files'[d][PdfName(x)] = files[d][PdfName(x)]
    <2>1. ASSUME NEW d \in Dirs, NEW x \in Names,
                 d # DirOf[r] \/ x \notin {TmpName(tmp[r]), PdfName(p)}
          PROVE  files'[d][x] = files[d][x]
      BY <1>2, <1>3, <2>1 DEF DownloadInv, DownloadTypeOK
    <2>2. /\ files'[DirOf[r]][TmpName(tmp[r])] = NoFile
          /\ files'[DirOf[r]][PdfName(p)] = i
      BY <1>2, <1>3 DEF DownloadInv, DownloadTypeOK
    <2>3. ASSUME NEW d \in Dirs, NEW t \in 0..MaxTicks
          PROVE  files'[d][TmpName(t)] \in {NoFile, files[d][TmpName(t)]}
      <3>1. TmpName(t) \in Names /\ TmpName(t) # PdfName(p)
        BY NamesFacts
      <3> QED
        BY <2>1, <2>2, <3>1
    <2>4. ASSUME NEW d \in Dirs, NEW x \in Beginnings, d # DirOf[r] \/ x # p
          PROVE  files'[d][PdfName(x)] = files[d][PdfName(x)]
      <3>1. /\ PdfName(x) \in Names /\ PdfName(x) # TmpName(tmp[r])
            /\ (x # p => PdfName(x) # PdfName(p))
        BY NamesFacts
      <3> QED
        BY <2>1, <2>4, <3>1
    <2> QED
      BY <2>2, <2>3, <2>4
  <1>9. HasDownloaded(r)' /\ received'[r] = p
    BY <1>2, <1>3, <1>7 DEF HasDownloaded, HasNamed, p
  <1>10. i # r => SharesItsTmp(r)'
    BY <1>3, <1>4, SharingStays
  <1>11. FilesInv'
    <2>1. ASSUME NEW d \in Dirs, NEW x \in Beginnings PROVE PdfFile(d, x)'
      <3>1. CASE d = DirOf[r] /\ x = p
        BY <1>8, <1>9, <1>10, <3>1 DEF PdfFile
      <3>2. CASE ~(d = DirOf[r] /\ x = p)
        BY <1>8, <3>2, FilesStay
      <3> QED
        BY <3>1, <3>2
    <2>2. ASSUME NEW d \in Dirs, NEW t \in 0..MaxTicks PROVE TmpFile(d, t)'
      BY <1>8, FilesStay
    <2> QED
      BY <2>1, <2>2 DEF FilesInv
  <1>12. ASSUME NEW q \in Requests \ {r} PROVE DownloadOf(q)'
    <2>1. \A x \in Beginnings : files[DirOf[q]][PdfName(x)] # NoFile
             => files'[DirOf[q]][PdfName(x)] # NoFile
      BY <1>2, <1>8, NamesFacts
    <2> QED
      BY <1>2, <1>7, <2>1, OthersStay
  <1>13. DownloadOf(r)'
    <2>1. OpenOf(r)' /\ ContentOf(r)'
      BY <1>2, <1>3, <1>7, OpenedStays DEF OpenOf, Before, Opened
    <2>2. ReadOf(r)'
      BY <1>2, <1>3, <1>7, <1>8, <1>9 DEF ReadOf, Matches, Dir
    <2> QED
      BY <2>1, <2>2 DEF DownloadOf
  <1> QED
    BY <1>6, <1>11, <1>12, <1>13 DEF DownloadInv

\* Reading the PDF keeps what is known of the files.
LEMMA ReadPdfStep ==
    ASSUME DownloadInv, Onward, NEW r \in Requests, ReadPdf(r)
    PROVE  DownloadInv'
  <1>1. PICK i : i = Dir(r)[PdfName(received[r])]
    OBVIOUS
  <1>2. /\ reqPc[r] = "downloaded"
        /\ used' = [used EXCEPT ![r] = content[i]]
        /\ reqPc' = [reqPc EXCEPT ![r] = "ready"]
        /\ UNCHANGED <<ticks, tmp, handle, received, files, content>>
    BY <1>1 DEF ReadPdf, Turn
  <1>3. DownloadTypeOK' /\ ReceivedInv'
    BY <1>2 DEF DownloadInv, DownloadTypeOK, RequestStates, ReceivedInv
  <1>4. /\ reqPc'[r] = "ready" /\ used'[r] = content[i]
        /\ \A q \in Requests \ {r} : reqPc'[q] = reqPc[q] /\ used'[q] = used[q]
    BY <1>2 DEF DownloadInv, DownloadTypeOK
  <1>5. FilesInv'
    BY <1>2, FilesStay DEF FilesInv
  <1>6. ASSUME NEW q \in Requests \ {r} PROVE DownloadOf(q)'
    BY <1>2, <1>4, OthersStay
  <1>7. DownloadOf(r)'
    <2>1. Opened(r) \/ Pdfs[r] = << >>
      BY <1>2 DEF DownloadInv, DownloadOf, OpenOf, HasDownloaded
    <2>2. OpenOf(r)' /\ ContentOf(r)'
      BY <1>2, <1>4, <2>1, OpenedStays DEF OpenOf, Before, Opened, HasDownloaded
    <2>3. ReadOf(r)'
      <3> SUFFICES ASSUME Pdfs[r] # << >>
                   PROVE  /\ Matches(r)
                          /\ \/ content[i] = received[r]
                             \/ \E w \in Requests :
                                   /\ HasDownloaded(w) /\ SharesItsTmp(w)
                                   /\ DirOf[w] = DirOf[r]
                                   /\ received[w] = received[r]
        <4>1. \A w \in Requests : HasDownloaded(w) /\ SharesItsTmp(w) =>
                 /\ HasDownloaded(w)' /\ SharesItsTmp(w)'
                 /\ received'[w] = received[w]
          BY DoneIsNamed, SharingStays DEF Onward
        <4> QED
          BY <1>2, <1>4, <4>1 DEF ReadOf, HasDownloaded, Matches
      <3>1. HasDownloaded(r) /\ Matches(r) /\ i # NoFile
        BY <1>1, <1>2 DEF DownloadInv, DownloadOf, ReadOf, HasDownloaded
      <3>2. received[r] \in Beginnings /\ DirOf[r] \in Dirs
        BY ReceivedBeginning, NamesFacts DEF DownloadInv
      <3>3. PICK w \in Requests : /\ HasDownloaded(w) /\ DirOf[w] = DirOf[r]
                                  /\ received[w] = received[r]
                                  /\ w = i \/ SharesItsTmp(w)
        BY <1>1, <3>1, <3>2 DEF DownloadInv, FilesInv, PdfFile, Dir
      <3>4. ~SharesItsTmp(w) => content[w] = received[w]
        BY <3>3 DEF DownloadInv, DownloadOf, OpenOf, ContentOf
      <3> QED
        BY <3>1, <3>3, <3>4
    <2> QED
      BY <2>2, <2>3 DEF DownloadOf
  <1> QED
    BY <1>3, <1>5, <1>6, <1>7 DEF DownloadInv

\* Every step of the requests keeps what is known of the files.
LEMMA DownloadStep ==
    ASSUME DownloadInv, [RequestsNext]_requestVars PROVE DownloadInv'
  <1>1. Onward
    BY OnwardStep
  <1>2. CASE TickRequests \/ UNCHANGED requestVars
    <2>1. /\ UNCHANGED <<reqPc, tmp, handle, received, files, content, used>>
          /\ ticks' \in 0..MaxTicks
      BY <1>2, RequestsAssumption
         DEF TickRequests, requestVars, downloadVars, DownloadInv, DownloadTypeOK
    <2>2. DownloadTypeOK'
      BY <2>1 DEF DownloadInv, DownloadTypeOK
    <2> QED
      BY <1>1, <2>1, <2>2, QuietStep
  <1>3. ASSUME NEW r \in Requests,
               \/ TurnAway(r) \/ ReadTimes(r) \/ Refuse(r) \/ Admit(r)
               \/ NameTmp(r) \/ EndReceiving(r)
        PROVE  DownloadInv'
    <2>1. PICK label \in RequestStates :
              /\ reqPc' = [reqPc EXCEPT ![r] = label]
              /\ \/ /\ reqPc[r] \in Before /\ label \in Before
                    /\ label \in {"admitted", "connecting"} => Pdfs[r] # << >>
                 \/ reqPc[r] \in Before /\ label = "ready" /\ Pdfs[r] = << >>
                 \/ reqPc[r] = "receiving" /\ label = "received"
      BY <1>3 DEF TurnAway, ReadTimes, Refuse, Admit, NameTmp, EndReceiving,
         Turn, Before, RequestStates, DownloadInv, DownloadOf, OpenOf
    <2>2. UNCHANGED <<ticks, handle, received, files, content, used>>
      BY <1>3 DEF TurnAway, ReadTimes, Refuse, Admit, NameTmp, EndReceiving,
         downloadVars
    <2>3. tmp' \in [Requests -> 0..MaxTicks]
      BY <1>3 DEF TurnAway, ReadTimes, Refuse, Admit, NameTmp, EndReceiving,
         downloadVars, DownloadInv, DownloadTypeOK
    <2>4. DownloadTypeOK'
      BY <2>1, <2>2, <2>3 DEF DownloadInv, DownloadTypeOK
    <2>5. reqPc'[r] = label /\ \A q \in Requests \ {r} : reqPc'[q] = reqPc[q]
      BY <2>1 DEF DownloadInv, DownloadTypeOK
    <2> QED
      BY <1>1, <2>1, <2>2, <2>4, <2>5, QuietStep
  <1>4. ASSUME NEW r \in Requests,
               \/ OpenTmp(r) \/ ReceiveChunk(r) \/ FailDownload(r)
               \/ LookForPdf(r) \/ RenameTmp(r) \/ ReadPdf(r)
        PROVE  DownloadInv'
    BY <1>1, <1>4, OpenTmpStep, ReceiveChunkStep, FailDownloadStep,
       LookForPdfStep, RenameTmpStep, ReadPdfStep
  <1> QED
    BY <1>2, <1>3, <1>4 DEF RequestsNext

\* An extraction has read the PDF its download is named after, and the one
\* the task asked for if it gives a hash, wherever a connection was cut and
\* whoever downloads into the same directory, but for files that two
\* downloads of one millisecond have written.
THEOREM DownloadTheorem == RequestsSpec => []DownloadsAreWhatTheySay
  <1>1. DownloadInv => DownloadsAreWhatTheySay
    BY DEF DownloadInv, DownloadOf, ReadOf, DownloadsAreWhatTheySay, Matches,
       HasDownloaded
  <1> QED
    BY <1>1, DownloadInit, DownloadStep, PTL DEF RequestsSpec

-----------------------------------------------------------------------------
(* The network proxy of the dashboard.                                     *)

ReaderStates == {"idle", "asking", "asked", "fetching", "fetched", "answered",
                 "failed"}
Entry == [stamp : Int, payload : Int]
Part == [path : Paths, asked : Int, made : Int]

ServerTypeOK ==
    /\ clock \in Int
    /\ cache \in [Paths -> Entry]
    /\ endpoint \in [Readers -> Endpoints]
    /\ readerPc \in [Readers -> ReaderStates]
    /\ at \in [Readers -> Nat]
    /\ \A r \in Readers : at[r] \in DOMAIN PathsOf[endpoint[r]]
    /\ now \in [Readers -> Int]
    /\ payload \in [Readers -> Int]
    /\ served \in [Readers -> Seq(Part)]

(***************************************************************************)
(* An entry is stamped with the time it was asked for, which is not after  *)
(* the time the API made it: whoever is served it believes it to be older  *)
(* than it is, whichever of two concurrent writers came last.              *)
(***************************************************************************)
StampsInv ==
    /\ \A p \in Paths : cache[p].stamp <= cache[p].payload
    /\ \A r \in Readers :
          /\ now[r] <= clock
          /\ readerPc[r] = "fetched" => now[r] <= payload[r]

ServerInv == ServerTypeOK /\ StampsInv /\ AnswersAreFresh

\* A reader is at a path of its endpoint.
LEMMA PathFacts ==
    ASSUME ServerTypeOK, NEW r \in Readers
    PROVE  Path(r) \in Paths /\ Ttl[Path(r)] \in Nat \ {0}
  <1>1. endpoint[r] \in Endpoints /\ at[r] \in DOMAIN PathsOf[endpoint[r]]
    BY DEF ServerTypeOK
  <1>2. Path(r) \in ToSet(PathsOf[endpoint[r]])
    BY <1>1 DEF Path, ToSet
  <1> QED
    BY <1>1, <1>2, EndpointsAssumption DEF Paths

\* The cache is empty at the start.
LEMMA ServerInvInit == ServerInit => ServerInv
  <1> SUFFICES ASSUME ServerInit PROVE ServerInv
    OBVIOUS
  <1>1. \A r \in Readers : 1 \in DOMAIN PathsOf[endpoint[r]]
    <2> SUFFICES ASSUME NEW r \in Readers
                 PROVE  1 \in DOMAIN PathsOf[endpoint[r]]
      OBVIOUS
    <2>1. PathsOf[endpoint[r]] \in Seq(ToSet(PathsOf[endpoint[r]])) \ {<< >>}
      BY EndpointsAssumption DEF ServerInit
    <2> QED
      BY <2>1
  <1>2. ServerTypeOK
    BY <1>1 DEF ServerInit, ServerTypeOK, ReaderStates, Entry, Nothing
  <1>3. StampsInv /\ AnswersAreFresh
    BY DEF ServerInit, StampsInv, Nothing, AnswersAreFresh
  <1> QED
    BY <1>2, <1>3 DEF ServerInv

\* Going on to the next path keeps a reader within its endpoint.
LEMMA NextPathType ==
    ASSUME ServerTypeOK, NEW r \in Readers, NextPath(r), endpoint' = endpoint
    PROVE  /\ readerPc' \in [Readers -> ReaderStates]
           /\ at' \in [Readers -> Nat]
           /\ \A q \in Readers : at'[q] \in DOMAIN PathsOf[endpoint'[q]]
           /\ \A q \in Readers : readerPc'[q] = "fetched" => readerPc[q] = "fetched"
  <1>1. /\ PathsOf[endpoint[r]] \in Seq(ToSet(PathsOf[endpoint[r]]))
        /\ at[r] \in DOMAIN PathsOf[endpoint[r]] /\ at[r] \in Nat
    BY EndpointsAssumption DEF ServerTypeOK
  <1>2. at[r] # Len(PathsOf[endpoint[r]]) =>
            at[r] + 1 \in DOMAIN PathsOf[endpoint[r]] /\ at[r] + 1 \in Nat
    BY <1>1
  <1>3. readerPc' \in [Readers -> ReaderStates]
    BY DEF NextPath, Moves, ServerTypeOK, ReaderStates
  <1>4. /\ at' \in [Readers -> Nat]
        /\ \A q \in Readers : at'[q] \in DOMAIN PathsOf[endpoint'[q]]
    BY <1>1, <1>2 DEF NextPath, ServerTypeOK
  <1>5. \A q \in Readers : readerPc'[q] = "fetched" => readerPc[q] = "fetched"
    BY DEF NextPath, Moves, ServerTypeOK
  <1> QED
    BY <1>3, <1>4, <1>5

\* Serving a part that is fresh keeps the answers fresh.
LEMMA ServeFresh ==
    ASSUME ServerTypeOK, AnswersAreFresh, NEW r \in Readers,
           NEW asked \in Int, NEW made \in Int, asked - made < Ttl[Path(r)],
           Serve(r, asked, made)
    PROVE  served' \in [Readers -> Seq(Part)] /\ AnswersAreFresh'
  <1> DEFINE part == [path |-> Path(r), asked |-> asked, made |-> made]
  <1>1. part \in Part /\ part.asked - part.made < Ttl[part.path]
    BY PathFacts DEF Part
  <1>2. served' = [served EXCEPT ![r] = Append(@, part)]
    BY DEF Serve
  <1>3. served[r] \in Seq(Part)
    BY DEF ServerTypeOK
  <1> HIDE DEF part
  <1>4. served' \in [Readers -> Seq(Part)]
    BY <1>1, <1>2, <1>3 DEF ServerTypeOK
  <1>5. ASSUME NEW q \in Readers, NEW i \in DOMAIN served'[q]
        PROVE  served'[q][i].asked - served'[q][i].made < Ttl[served'[q][i].path]
    <2>1. CASE q # r
      <3>1. served'[q] = served[q]
        BY <1>2, <2>1 DEF ServerTypeOK
      <3> QED
        BY <3>1 DEF AnswersAreFresh
    <2>2. CASE q = r
      <3>1. served'[q] = Append(served[r], part)
        BY <1>2, <2>2 DEF ServerTypeOK
      <3>2. \/ i \in DOMAIN served[r] /\ served'[q][i] = served[r][i]
            \/ served'[q][i] = part
        BY <1>3, <3>1
      <3> QED
        BY <1>1, <3>2 DEF AnswersAreFresh
    <2> QED
      BY <2>1, <2>2
  <1> QED
    BY <1>4, <1>5 DEF AnswersAreFresh

\* Every step of the server keeps the stamps in order.
LEMMA ServerStep ==
    ASSUME ServerInv, [ServerNext]_serverVars PROVE ServerInv'
  <1> USE DEF ServerInv
  <1>1. CASE Tick \/ UNCHANGED serverVars
    <2>1. /\ UNCHANGED <<cache, endpoint, readerPc, at, now, payload, served>>
          /\ clock' \in {clock, clock + 1}
      BY <1>1 DEF Tick, serverVars
    <2>2. clock \in Int /\ clock' \in Int /\ clock <= clock'
      BY <2>1 DEF ServerTypeOK
    <2>3. ServerTypeOK'
      BY <2>1, <2>2 DEF ServerTypeOK
    <2>4. StampsInv'
      BY <2>1, <2>2 DEF StampsInv, ServerTypeOK
    <2>5. AnswersAreFresh'
      BY <2>1 DEF AnswersAreFresh
    <2> QED
      BY <2>3, <2>4, <2>5
  <1>2. ASSUME NEW r \in Readers, Ask(r) \/ Miss(r) \/ ApiFails(r) PROVE ServerInv'
    <2>1. ServerTypeOK'
      <3>1. /\ \E label \in ReaderStates : readerPc' = [readerPc EXCEPT ![r] = label]
            /\ now' = now \/ now' = [now EXCEPT ![r] = clock]
            /\ UNCHANGED <<clock, cache, endpoint, at, payload, served>>
        BY <1>2 DEF Ask, Miss, ApiFails, Moves, ReaderStates
      <3>2. /\ readerPc' \in [Readers -> ReaderStates]
            /\ now' \in [Readers -> Int]
        BY <3>1 DEF ServerTypeOK
      <3> QED
        BY <3>1, <3>2 DEF ServerTypeOK
    <2>2. StampsInv'
      BY <1>2 DEF Ask, Miss, ApiFails, Moves, ServerTypeOK, StampsInv
    <2>3. AnswersAreFresh'
      BY <1>2 DEF Ask, Miss, ApiFails, AnswersAreFresh
    <2> QED
      BY <2>1, <2>2, <2>3
  <1>3. ASSUME NEW r \in Readers, ApiAnswers(r) PROVE ServerInv'
    <2>1. ServerTypeOK'
      BY <1>3 DEF ApiAnswers, Moves, ServerTypeOK, ReaderStates
    <2>2. StampsInv'
      BY <1>3 DEF ApiAnswers, Moves, ServerTypeOK, StampsInv
    <2>3. AnswersAreFresh'
      BY <1>3 DEF ApiAnswers, AnswersAreFresh
    <2> QED
      BY <2>1, <2>2, <2>3
  <1>4. ASSUME NEW r \in Readers, ApiRefuses(r) PROVE ServerInv'
    <2>1. CASE NextPath(r)
      <3>1. UNCHANGED <<clock, cache, endpoint, now, payload, served>>
        BY <1>4 DEF ApiRefuses
      <3>2. ServerTypeOK'
        BY <2>1, <3>1, NextPathType DEF ServerTypeOK
      <3>3. StampsInv'
        BY <2>1, <3>1, NextPathType DEF StampsInv
      <3>4. AnswersAreFresh'
        BY <3>1 DEF AnswersAreFresh
      <3> QED
        BY <3>2, <3>3, <3>4
    <2>2. CASE Moves(r, "failed") /\ UNCHANGED at
      <3>1. UNCHANGED <<clock, cache, endpoint, now, payload, served>>
        BY <1>4 DEF ApiRefuses
      <3>2. ServerTypeOK'
        BY <2>2, <3>1 DEF Moves, ServerTypeOK, ReaderStates
      <3>3. StampsInv'
        BY <2>2, <3>1 DEF Moves, StampsInv, ServerTypeOK
      <3>4. AnswersAreFresh'
        BY <3>1 DEF AnswersAreFresh
      <3> QED
        BY <3>2, <3>3, <3>4
    <2> QED
      BY <1>4, <2>1, <2>2 DEF ApiRefuses
  <1>5. ASSUME NEW r \in Readers, Hit(r) PROVE ServerInv'
    <2>1. /\ Serve(r, now[r], cache[Path(r)].payload)
          /\ UNCHANGED <<clock, cache, endpoint, now, payload>>
          /\ now[r] - cache[Path(r)].stamp < Ttl[Path(r)]
      BY <1>5 DEF Hit, Fresh
    <2>2. /\ cache[Path(r)].stamp \in Int /\ cache[Path(r)].payload \in Int
          /\ cache[Path(r)].stamp <= cache[Path(r)].payload
          /\ now[r] \in Int /\ Ttl[Path(r)] \in Int
      BY PathFacts DEF ServerTypeOK, StampsInv, Entry
    <2>3. now[r] - cache[Path(r)].payload < Ttl[Path(r)]
      BY <2>1, <2>2
    <2>4. served' \in [Readers -> Seq(Part)] /\ AnswersAreFresh'
      BY <2>1, <2>2, <2>3, ServeFresh
    <2>5. NextPath(r)
      BY <2>1 DEF Serve
    <2>6. ServerTypeOK'
      BY <2>1, <2>4, <2>5, NextPathType DEF ServerTypeOK
    <2>7. StampsInv'
      BY <2>1, <2>5, NextPathType DEF StampsInv
    <2> QED
      BY <2>4, <2>6, <2>7
  <1>6. ASSUME NEW r \in Readers, Store(r) PROVE ServerInv'
    <2> DEFINE entry == [stamp |-> now[r], payload |-> payload[r]]
    <2>1. /\ Serve(r, now[r], payload[r])
          /\ cache' = [cache EXCEPT ![Path(r)] = entry]
          /\ UNCHANGED <<clock, endpoint, now, payload>>
          /\ now[r] <= payload[r]
      BY <1>6 DEF Store, StampsInv
    <2>2. /\ now[r] \in Int /\ payload[r] \in Int
          /\ Ttl[Path(r)] \in Nat \ {0} /\ Path(r) \in Paths
      BY PathFacts DEF ServerTypeOK
    <2>3. now[r] - payload[r] < Ttl[Path(r)]
      BY <2>1, <2>2
    <2>4. served' \in [Readers -> Seq(Part)] /\ AnswersAreFresh'
      BY <2>1, <2>2, <2>3, ServeFresh
    <2>5. NextPath(r)
      BY <2>1 DEF Serve
    <2>6. entry \in Entry /\ entry.stamp <= entry.payload
      BY <2>1, <2>2 DEF Entry
    <2> HIDE DEF entry
    <2>7. cache' \in [Paths -> Entry]
      BY <2>1, <2>6 DEF ServerTypeOK
    <2>8. \A p \in Paths : cache'[p].stamp <= cache'[p].payload
      BY <2>1, <2>2, <2>6 DEF StampsInv, ServerTypeOK
    <2>9. ServerTypeOK'
      BY <2>1, <2>4, <2>5, <2>7, NextPathType DEF ServerTypeOK
    <2>10. StampsInv'
      BY <2>1, <2>5, <2>8, NextPathType DEF StampsInv
    <2> QED
      BY <2>4, <2>9, <2>10
  <1> QED
    BY <1>1, <1>2, <1>3, <1>4, <1>5, <1>6 DEF ServerNext

\* Nothing the dashboard shows was made longer before it was asked for than
\* its path allows, whichever handlers overwrite one another's entries.
THEOREM FreshTheorem == ServerSpec => []AnswersAreFresh
  <1>1. ServerInv => AnswersAreFresh
    BY DEF ServerInv
  <1> QED
    BY <1>1, ServerInvInit, ServerStep, PTL DEF ServerSpec

=============================================================================
