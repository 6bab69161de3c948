-------------------------- MODULE UsageUploadProofs --------------------------
(***************************************************************************)
(* Theorems about the resumable upload, for any number of lists, events,   *)
(* failures, crashes and losses and any size of the chunks.                *)
(***************************************************************************)
EXTENDS UsageUpload, FiniteSetTheorems, TLAPS

UsageTypeOK ==
    /\ pc \in {"idle", "posting", "posted", "verified"}
    /\ backup \in [status : {"absent", "pending", "uploading", "failed",
                             "complete", "uploaded_unverified"},
                   version : 1..MaxVersions, count : 0..MaxEvents,
                   next : Nat, uploaded : Nat, inserted : Nat]
    /\ call \in [uploaded : Nat, inserted : Nat, prior : Nat,
                 verdict : {"none", "complete", "incomplete", "unverified"}]
    /\ stored \in SUBSET accepted
    /\ accepted \in SUBSET Event
    /\ failures \in Nat /\ crashes \in Nat /\ losses \in Nat

\* How far the file and the upload are, and that the backend has accepted what
\* is behind them.
OffsetInv ==
    /\ backup.next <= backup.count /\ backup.uploaded <= backup.count
    /\ ResumeSkipsNothing
    /\ FinishedMeansAccepted
    /\ pc # "idle" =>
          /\ call.uploaded <= backup.count
          /\ Prefix(backup.version, call.uploaded) \subseteq accepted
    /\ pc = "verified" => call.uploaded = backup.count

\* Every insertion is an event that is stored or was lost.
CountInv ==
    /\ backup.inserted <= Cardinality(stored) + losses
    /\ pc # "idle" => call.prior + call.inserted <= Cardinality(stored) + losses

\* What the backend has ever held is of a list there was.
BackendInv ==
    /\ \A e \in accepted :
          /\ e[1] <= backup.version
          /\ e[1] = backup.version => e[2] <= backup.count
    /\ losses = 0 => stored = accepted

UploadInv == UsageTypeOK /\ OffsetInv /\ CountInv /\ BackendInv

-----------------------------------------------------------------------------
(* Events are finitely many.                                               *)

\* There are finitely many events.
LEMMA EventsAreFinite == IsFiniteSet(Event)
  <1>1. 1 \in Int /\ MaxVersions \in Int /\ MaxEvents \in Int
    BY UsageAssumption
  <1>2. IsFiniteSet(1..MaxVersions) /\ IsFiniteSet(1..MaxEvents)
    BY <1>1, FS_Interval
  <1> QED
    BY <1>2, FS_Product, Zenon DEF Event

\* The backend stores finitely many of them.
LEMMA StoredIsFinite ==
    ASSUME UsageTypeOK
    PROVE  /\ IsFiniteSet(accepted) /\ IsFiniteSet(stored)
           /\ Cardinality(stored) \in Nat /\ Cardinality(accepted) \in Nat
           /\ Cardinality(stored) <= Cardinality(accepted)
  <1>1. IsFiniteSet(accepted)
    BY EventsAreFinite, FS_Subset DEF UsageTypeOK
  <1>2. IsFiniteSet(stored) /\ Cardinality(stored) <= Cardinality(accepted)
    BY <1>1, FS_Subset DEF UsageTypeOK
  <1> QED
    BY <1>1, <1>2, FS_CardinalityType

\* Events that were not stored add to the number of those that are.
LEMMA InsertionsAdd ==
    ASSUME NEW S, NEW T, IsFiniteSet(S), IsFiniteSet(T)
    PROVE  /\ Cardinality(T \ S) \in Nat
           /\ Cardinality(S \union T) = Cardinality(S) + Cardinality(T \ S)
  <1>1. IsFiniteSet(T \ S)
    BY FS_Difference
  <1>2. S \union T = S \union (T \ S) /\ S \intersect (T \ S) = {}
    OBVIOUS
  <1>3. Cardinality(S \union (T \ S))
           = Cardinality(S) + Cardinality(T \ S) - Cardinality(S \intersect (T \ S))
    BY <1>1, FS_Union
  <1>4. Cardinality(S \intersect (T \ S)) = 0
    BY <1>2, FS_EmptySet
  <1>5. Cardinality(S) \in Nat /\ Cardinality(T \ S) \in Nat
    BY <1>1, FS_CardinalityType
  <1> QED
    BY <1>2, <1>3, <1>4, <1>5

\* The first n events of a list are n.
LEMMA PrefixSize ==
    ASSUME NEW v, NEW n \in Nat
    PROVE  IsFiniteSet(Prefix(v, n)) /\ Cardinality(Prefix(v, n)) = n
  <1>1. IsFiniteSet(1..n) /\ Cardinality(1..n) = n
    BY FS_Interval
  <1>2. IsFiniteSet({v}) /\ Cardinality({v}) = 1
    BY FS_Singleton
  <1>3. /\ IsFiniteSet({v} \X (1..n))
        /\ Cardinality({v} \X (1..n)) = Cardinality({v}) * Cardinality(1..n)
    BY <1>1, <1>2, FS_Product
  <1>4. Cardinality({v} \X (1..n)) = n
    BY <1>1, <1>2, <1>3
  <1> QED
    BY <1>3, <1>4 DEF Prefix

\* A chunk is what is between two offsets.
LEMMA ChunkFacts ==
    ASSUME UsageTypeOK, OffsetInv, pc = "posting"
    PROVE  /\ ChunkEnd \in Nat /\ ChunkEnd <= backup.count
           /\ Chunk \subseteq Event /\ IsFiniteSet(Chunk)
           /\ Prefix(backup.version, ChunkEnd)
                 \subseteq Prefix(backup.version, call.uploaded) \union Chunk
           /\ \A e \in Chunk : e[1] = backup.version /\ e[2] <= backup.count
  <1>1. ChunkEnd \in Nat /\ ChunkEnd <= backup.count
    BY UsageAssumption DEF ChunkEnd, UsageTypeOK
  <1>2. Chunk \subseteq Event
    <2> SUFFICES ASSUME NEW e \in Prefix(backup.version, ChunkEnd) PROVE e \in Event
      BY DEF Chunk
    <2>1. e[2] \in 1..MaxEvents
      BY <1>1, UsageAssumption DEF Prefix, UsageTypeOK
    <2> QED
      BY <2>1 DEF Prefix, Event, UsageTypeOK
  <1>3. \A e \in Chunk : e[1] = backup.version /\ e[2] <= backup.count
    BY <1>1 DEF Chunk, Prefix, UsageTypeOK
  <1>4. IsFiniteSet(Chunk)
    BY <1>2, EventsAreFinite, FS_Subset
  <1>5. Prefix(backup.version, ChunkEnd)
           \subseteq Prefix(backup.version, call.uploaded) \union Chunk
    BY Zenon DEF Chunk
  <1> QED
    BY <1>1, <1>2, <1>3, <1>4, <1>5

-----------------------------------------------------------------------------
\* No upload has begun at the start.
LEMMA InitInv == Init => UploadInv
  <1> SUFFICES ASSUME Init PROVE UploadInv
    OBVIOUS
  <1>1. UsageTypeOK
    BY UsageAssumption DEF Init, NoBackup, NoCall, UsageTypeOK
  <1>2. OffsetInv
    BY DEF Init, NoBackup, NoCall, OffsetInv, ResumeSkipsNothing,
           FinishedMeansAccepted, Prefix
  <1>3. CountInv
    BY FS_EmptySet DEF Init, NoBackup, CountInv
  <1>4. BackendInv
    BY DEF Init, BackendInv
  <1> QED
    BY <1>1, <1>2, <1>3, <1>4 DEF UploadInv

\* A new list keeps an offset only when it continues the old one.
LEMMA NewListKeepsInv ==
    ASSUME UploadInv, NewList
    PROVE  UploadInv'
  <1> USE DEF UploadInv
  <1>1. PICK version \in {backup.version, backup.version + 1}, n \in 1..MaxEvents :
            /\ version = backup.version => n > backup.count
            /\ version # backup.version => version <= MaxVersions
            /\ Prepare(version, n)
    BY UsageAssumption DEF NewList, UsageTypeOK
  <1>2. version \in 1..MaxVersions /\ n \in 0..MaxEvents
    BY <1>1, UsageAssumption DEF UsageTypeOK
  <1>3. PICK offset \in {backup.next, backup.uploaded, backup.count, 0} :
            /\ offset \in Nat /\ offset <= n /\ offset <= backup.count
            /\ version # backup.version => offset = 0
            /\ Prefix(backup.version, offset) \subseteq accepted
            /\ \E i \in {backup.inserted, 0} :
                  backup' = [status |-> "pending", version |-> version,
                             count |-> n, next |-> offset, uploaded |-> offset,
                             inserted |-> i]
    <2>1. UploadedPrefix \in {backup.next, backup.uploaded}
          /\ UploadedPrefix \in Nat /\ UploadedPrefix <= backup.count
      BY DEF UploadedPrefix, OffsetInv, UsageTypeOK
    <2>2. Prefix(backup.version, UploadedPrefix) \subseteq accepted
      BY <2>1 DEF OffsetInv, ResumeSkipsNothing
    <2>3. Prefix(backup.version, 0) = {}
      BY DEF Prefix
    <2>4. CASE backup.count > 0 /\ version = backup.version /\ n > backup.count
      BY <1>1, <2>1, <2>2, <2>4 DEF Prepare, UsageTypeOK
    <2>5. CASE ~(backup.count > 0 /\ version = backup.version /\ n > backup.count)
      BY <1>1, <2>3, <2>5 DEF Prepare, UsageTypeOK
    <2> QED
      BY <2>4, <2>5
  <1>4. UNCHANGED <<pc, call, stored, accepted, bounds>> /\ pc = "idle"
    BY <1>1 DEF Prepare
  <1>5. UsageTypeOK'
    BY <1>2, <1>3, <1>4 DEF UsageTypeOK, bounds
  <1>6. OffsetInv'
    <2>1. Prefix(version, offset) \subseteq accepted
      BY <1>3 DEF Prefix
    <2> QED
      BY <1>3, <1>4, <2>1
      DEF OffsetInv, ResumeSkipsNothing, FinishedMeansAccepted
  <1>7. CountInv'
    <2>1. backup'.inserted <= backup.inserted
      BY <1>3 DEF UsageTypeOK
    <2> QED
      BY <1>3, <1>4, <2>1, StoredIsFinite DEF CountInv, bounds, UsageTypeOK
  <1>8. BackendInv'
    BY <1>1, <1>3, <1>4 DEF BackendInv, bounds, UsageTypeOK, Event
  <1> QED
    BY <1>5, <1>6, <1>7, <1>8

\* Every action keeps the invariant.
LEMMA ActionsKeepInv ==
    ASSUME UploadInv, [Next]_vars
    PROVE  UploadInv'
  <1> USE DEF UploadInv
  <1>a. /\ ResumeSkipsNothing /\ FinishedMeansAccepted
        /\ pc # "idle" =>
              /\ call.uploaded <= backup.count
              /\ Prefix(backup.version, call.uploaded) \subseteq accepted
    BY DEF OffsetInv
  <1>b. Cardinality(stored) \in Nat /\ IsFiniteSet(stored) /\ losses \in Nat
    BY StoredIsFinite DEF UsageTypeOK
  <1>1. CASE NewList
    BY <1>1, NewListKeepsInv
  <1>2. CASE StartUpload
    <2> USE <1>2 DEF StartUpload, bounds
    <2>1. UsageTypeOK'
      BY DEF UsageTypeOK
    <2>2. OffsetInv'
      BY DEF OffsetInv, UsageTypeOK, ResumeSkipsNothing, FinishedMeansAccepted
    <2>3. CountInv'
      BY DEF CountInv, UsageTypeOK
    <2>4. BackendInv'
      BY DEF BackendInv
    <2> QED
      BY <2>1, <2>2, <2>3, <2>4
  <1>3. CASE PostChunk
    <2> USE <1>3, <1>b, ChunkFacts DEF PostChunk, Store, bounds
    <2>1. pc = "posting" /\ Cardinality(Chunk \ stored) \in Nat
          /\ Cardinality(stored') = Cardinality(stored) + Cardinality(Chunk \ stored)
      BY InsertionsAdd
    <2>2. UsageTypeOK'
      <3>1. call' \in [uploaded : Nat, inserted : Nat, prior : Nat,
                       verdict : {"none", "complete", "incomplete", "unverified"}]
        <4>1. ChunkEnd \in Nat
          BY <2>1
        <4>2. call.inserted + Cardinality(Chunk \ stored) \in Nat
          BY <2>1 DEF UsageTypeOK
        <4> HIDE ChunkFacts, <1>b
        <4> QED
          BY <4>1, <4>2 DEF UsageTypeOK
      <3>2. stored' \in SUBSET accepted' /\ accepted' \in SUBSET Event
        BY <2>1 DEF UsageTypeOK
      <3> QED
        BY <3>1, <3>2 DEF UsageTypeOK
    <2>3. OffsetInv'
      <3>1. Prefix(backup.version, ChunkEnd) \subseteq accepted'
        BY <1>a
      <3>2. ResumeSkipsNothing' /\ FinishedMeansAccepted'
        BY <1>a DEF ResumeSkipsNothing, FinishedMeansAccepted
      <3> QED
        BY <3>1, <3>2, <2>1 DEF OffsetInv, UsageTypeOK
    <2>4. CountInv'
      BY <2>1 DEF CountInv, UsageTypeOK
    <2>5. BackendInv'
      BY <2>1 DEF BackendInv, UsageTypeOK
    <2> QED
      BY <2>2, <2>3, <2>4, <2>5
  <1>4. CASE Checkpoint
    <2> USE <1>4 DEF Checkpoint, bounds
    <2>1. UsageTypeOK'
      <3>1. call.uploaded \in Nat /\ call.prior + call.inserted \in Nat
        BY DEF UsageTypeOK
      <3> QED
        BY <3>1 DEF UsageTypeOK
    <2>2. OffsetInv'
      BY DEF OffsetInv, UsageTypeOK, ResumeSkipsNothing, FinishedMeansAccepted
    <2>3. CountInv'
      BY DEF CountInv, UsageTypeOK
    <2>4. BackendInv'
      BY DEF BackendInv, UsageTypeOK
    <2> QED
      BY <2>1, <2>2, <2>3, <2>4
  <1>5. CASE Verify \/ VerifyUnavailable
    <2> USE <1>5 DEF Verify, VerifyUnavailable, bounds
    <2>1. UsageTypeOK'
      BY DEF UsageTypeOK
    <2>2. OffsetInv'
      BY DEF OffsetInv, UsageTypeOK, ResumeSkipsNothing, FinishedMeansAccepted
    <2>3. CountInv'
      BY DEF CountInv, UsageTypeOK
    <2>4. BackendInv'
      BY DEF BackendInv
    <2> QED
      BY <2>1, <2>2, <2>3, <2>4
  <1>6. CASE Record
    <2> USE <1>6 DEF Record, bounds
    <2>1. UsageTypeOK'
      <3>1. /\ call.uploaded \in Nat /\ call.prior + call.inserted \in Nat
            /\ (IF call.verdict = "incomplete" THEN 0 ELSE call.uploaded) \in Nat
        BY DEF UsageTypeOK
      <3>2. backup'.status \in {"complete", "uploaded_unverified", "pending"}
        BY DEF UsageTypeOK
      <3> QED
        BY <3>1, <3>2 DEF UsageTypeOK
    <2>2. OffsetInv'
      BY DEF OffsetInv, UsageTypeOK, ResumeSkipsNothing, FinishedMeansAccepted,
             Prefix
    <2>3. CountInv'
      BY DEF CountInv, UsageTypeOK
    <2>4. BackendInv'
      BY DEF BackendInv, UsageTypeOK
    <2> QED
      BY <2>1, <2>2, <2>3, <2>4
  <1>7. CASE PostFails
    <2>1. PICK reached \in SUBSET Chunk : Store(reached)
      BY <1>7 DEF PostFails
    <2> USE <1>7, <1>b, <2>1, ChunkFacts DEF PostFails, Store
    <2>2. pc = "posting" /\ IsFiniteSet(reached)
      BY FS_Subset
    <2>3. Cardinality(reached \ stored) \in Nat
          /\ Cardinality(stored') = Cardinality(stored) + Cardinality(reached \ stored)
      BY <2>2, InsertionsAdd
    <2>4. UsageTypeOK'
      BY <2>2 DEF UsageTypeOK
    <2>5. OffsetInv'
      BY <1>a, <2>2
      DEF OffsetInv, UsageTypeOK, ResumeSkipsNothing, FinishedMeansAccepted
    <2>6. CountInv'
      BY <2>3 DEF CountInv, UsageTypeOK
    <2>7. BackendInv'
      BY <2>2 DEF BackendInv, UsageTypeOK
    <2> QED
      BY <2>4, <2>5, <2>6, <2>7
  <1>8. CASE Crash
    <2> USE <1>8 DEF Crash, NoCall
    <2>1. UsageTypeOK'
      BY DEF UsageTypeOK
    <2>2. OffsetInv'
      BY DEF OffsetInv, UsageTypeOK, ResumeSkipsNothing, FinishedMeansAccepted
    <2>3. CountInv'
      BY DEF CountInv, UsageTypeOK
    <2>4. BackendInv'
      BY DEF BackendInv
    <2> QED
      BY <2>1, <2>2, <2>3, <2>4
  <1>9. CASE BackendLoses
    <2>1. PICK e \in stored : stored' = stored \ {e}
      BY <1>9 DEF BackendLoses
    <2> USE <1>9, <1>b, <2>1 DEF BackendLoses
    <2>2. Cardinality(stored') = Cardinality(stored) - 1
      BY FS_RemoveElement
    <2>3. UsageTypeOK'
      BY DEF UsageTypeOK
    <2>4. OffsetInv'
      BY DEF OffsetInv, ResumeSkipsNothing, FinishedMeansAccepted
    <2>5. CountInv'
      BY <2>2 DEF CountInv, UsageTypeOK
    <2>6. BackendInv'
      BY DEF BackendInv
    <2> QED
      BY <2>3, <2>4, <2>5, <2>6
  <1>10. CASE UNCHANGED vars
    BY <1>10 DEF vars, bounds, UsageTypeOK, OffsetInv, CountInv, BackendInv,
                 ResumeSkipsNothing, FinishedMeansAccepted
  <1> QED
    BY <1>1, <1>2, <1>3, <1>4, <1>5, <1>6, <1>7, <1>8, <1>9, <1>10
       DEF Next, Upload

\* The invariant of the upload holds in every reachable state.
LEMMA UploadInvariant == Spec => []UploadInv
  BY InitInv, ActionsKeepInv, PTL DEF Spec

-----------------------------------------------------------------------------
\* Offsets are never ahead of the backend, whatever crashed, failed or grew.
THEOREM ResumeTheorem == Spec => []ResumeSkipsNothing
  <1>1. UploadInv => ResumeSkipsNothing
    BY DEF UploadInv, OffsetInv
  <1> QED
    BY <1>1, UploadInvariant, PTL

\* What is recorded as finished was accepted to the last event.
THEOREM FinishedTheorem == Spec => []FinishedMeansAccepted
  <1>1. UploadInv => FinishedMeansAccepted
    BY DEF UploadInv, OffsetInv
  <1> QED
    BY <1>1, UploadInvariant, PTL

\* Chunks that are posted again are not counted twice.
THEOREM InsertionsTheorem == Spec => []InsertionsAreNotOvercounted
  <1>1. UploadInv => InsertionsAreNotOvercounted
    BY StoredIsFinite
    DEF UploadInv, CountInv, InsertionsAreNotOvercounted, UsageTypeOK
  <1> QED
    BY <1>1, UploadInvariant, PTL

\* A count of the run's events is enough to tell that all of a list are there,
\* when the backend lost none or the list is the run's first.
THEOREM VerdictTheorem == Spec => VerdictIsRight
  <1>1. ASSUME UploadInv, [Next]_vars,
               call.verdict # "complete" /\ call'.verdict = "complete",
               losses = 0 \/ backup.version = 1
        PROVE  Prefix(backup.version, backup.count) \subseteq stored
    <2> USE <1>1 DEF UploadInv
    <2>1. Verify
      <3>1. CASE NewList \/ Checkpoint \/ Record \/ PostFails \/ BackendLoses
                 \/ UNCHANGED vars
        BY <3>1 DEF NewList, Prepare, Checkpoint, Record, PostFails,
                    BackendLoses, vars
      <3>2. CASE StartUpload \/ Crash
        BY <3>2 DEF StartUpload, Crash, NoCall
      <3>3. CASE PostChunk \/ VerifyUnavailable
        BY <3>3 DEF PostChunk, VerifyUnavailable, UsageTypeOK
      <3> QED
        BY <3>1, <3>2, <3>3 DEF Next, Upload
    <2>2. /\ call.uploaded = backup.count
          /\ Cardinality(stored) >= backup.count
          /\ Prefix(backup.version, backup.count) \subseteq accepted
      BY <2>1 DEF Verify, UsageTypeOK, OffsetInv
    <2>3. CASE losses = 0
      BY <2>2, <2>3 DEF BackendInv
    <2>4. CASE backup.version = 1
      <3>1. stored \subseteq Prefix(1, backup.count)
        BY <2>4, UsageAssumption DEF BackendInv, UsageTypeOK, Event, Prefix
      <3>2. IsFiniteSet(Prefix(1, backup.count))
            /\ Cardinality(Prefix(1, backup.count)) = backup.count
        BY PrefixSize DEF UsageTypeOK
      <3>3. Cardinality(stored) <= backup.count
            /\ (Cardinality(stored) = backup.count => stored = Prefix(1, backup.count))
        BY <3>1, <3>2, FS_Subset
      <3> QED
        BY <2>2, <2>4, <3>3, StoredIsFinite DEF UsageTypeOK
    <2> QED
      BY <2>3, <2>4
  <1>2. UploadInv /\ [Next]_vars =>
            [ /\ call.verdict # "complete" /\ call'.verdict = "complete"
              /\ losses = 0 \/ backup.version = 1
              => Prefix(backup.version, backup.count) \subseteq stored ]_vars
    BY <1>1
  <1> QED
    BY <1>2, UploadInvariant, PTL DEF Spec, VerdictIsRight
=============================================================================
