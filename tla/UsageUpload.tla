----------------------------- MODULE UsageUpload -----------------------------
(***************************************************************************)
(* The resumable upload of a run's model usage events                      *)
(* (neurons/model_usage_upload.py and post_model_usage_events of           *)
(* neurons/backend_client.py).                                             *)
(*                                                                         *)
(* A backup file, always replaced atomically, holds the events and how far *)
(* their upload got.  An upload posts chunk after chunk and checkpoints    *)
(* the file after each, then asks the backend how many events of the run   *)
(* it holds.  It may die between any two of these steps and is called      *)
(* again on the next start for every backup that is not complete.          *)
(*                                                                         *)
(* Event i of the g-th version of the run's list is <<g, i>>: a version    *)
(* only grows at its end (an append-only change), and a new version has    *)
(* other event ids.  The backend is external: it stores events by id,      *)
(* counts what it holds, and may lose an event it accepted.                *)
(***************************************************************************)
EXTENDS Integers, FiniteSets

CONSTANTS
    MaxVersions,  \* bound: versions of the event list
    MaxEvents,    \* bound: events of a version
    ChunkSize,    \* chunk_size
    MaxFailures,  \* bound: requests that fail
    MaxCrashes,   \* bound: process crashes
    MaxLosses     \* bound: events the backend loses

ASSUME UsageAssumption ==
    /\ MaxVersions \in Nat \ {0} /\ MaxEvents \in Nat \ {0}
    /\ ChunkSize \in Nat \ {0}
    /\ MaxFailures \in Nat /\ MaxCrashes \in Nat /\ MaxLosses \in Nat

VARIABLES
    pc,        \* where the upload is
    backup,    \* the backup file
    call,      \* the local variables of the upload
    stored,    \* the events the backend holds
    accepted,  \* the events the backend ever held
    failures,
    crashes,
    losses

vars == <<pc, backup, call, stored, accepted, failures, crashes, losses>>
bounds == <<failures, crashes, losses>>

Event == (1..MaxVersions) \X (1..MaxEvents)
Prefix(version, n) == {version} \X (1..n)

\* version and count stand for the events and their ids; next, uploaded and
\* inserted are next_offset, uploaded_event_count and inserted_event_count.
NoBackup == [status |-> "absent", version |-> 1, count |-> 0, next |-> 0,
             uploaded |-> 0, inserted |-> 0]

NoCall == [uploaded |-> 0, inserted |-> 0, prior |-> 0, verdict |-> "none"]

Init ==
    /\ pc = "idle"
    /\ backup = NoBackup
    /\ call = NoCall
    /\ stored = {}
    /\ accepted = {}
    /\ failures = 0
    /\ crashes = 0
    /\ losses = 0

-----------------------------------------------------------------------------
\* What is kept of the previous upload when the list has grown at its end.
\* An offset of 0 is falsy: uploaded_event_count then stands in for it.
UploadedPrefix ==
    LET offset == IF backup.next # 0 THEN backup.next ELSE backup.uploaded
    IN IF offset < backup.count THEN offset ELSE backup.count

\* Mutant: the offset is kept whether or not the list was appended to.
PrepareKeepsOffset(version, n) ==
    LET prefix == IF UploadedPrefix < n THEN UploadedPrefix ELSE n
    IN /\ pc = "idle"
       /\ <<version, n>> # <<backup.version, backup.count>>
       /\ backup' = [status |-> "pending", version |-> version, count |-> n,
                     next |-> prefix, uploaded |-> prefix,
                     inserted |-> backup.inserted]
       /\ UNCHANGED <<pc, call, stored, accepted, bounds>>

\* prepare_model_usage_backup with a list that is not the backed up one.
Prepare(version, n) ==
    LET appended == /\ backup.count > 0
                    /\ version = backup.version
                    /\ n > backup.count
        prefix == IF appended THEN UploadedPrefix ELSE 0
    IN /\ pc = "idle"
       /\ <<version, n>> # <<backup.version, backup.count>>
       /\ backup' = [status |-> "pending", version |-> version, count |-> n,
                     next |-> prefix, uploaded |-> prefix,
                     inserted |-> IF appended THEN backup.inserted ELSE 0]
       /\ UNCHANGED <<pc, call, stored, accepted, bounds>>

\* The lists a run's usage log goes through: it grows, or it is written anew.
NewList ==
    \E n \in 1..MaxEvents :
        \/ n > backup.count /\ Prepare(backup.version, n)
        \/ /\ backup.status # "absent"
           /\ backup.version < MaxVersions
           /\ Prepare(backup.version + 1, n)

\* pending_model_usage_backups lists every backup that is not complete.
StartUpload ==
    /\ pc = "idle"
    /\ backup.status \notin {"absent", "complete"}
    /\ pc' = "posting"
    /\ call' = [uploaded |-> backup.next, inserted |-> 0,
                prior |-> backup.inserted, verdict |-> "none"]
    /\ UNCHANGED <<backup, stored, accepted, bounds>>

-----------------------------------------------------------------------------
ChunkEnd ==
    IF call.uploaded + ChunkSize < backup.count
      THEN call.uploaded + ChunkSize ELSE backup.count

Chunk == Prefix(backup.version, ChunkEnd)
             \ Prefix(backup.version, call.uploaded)

Store(events) ==
    /\ stored' = stored \union events
    /\ accepted' = accepted \union events

\* The backend accepts the whole chunk and says how many events were new.
PostChunk ==
    /\ pc = "posting"
    /\ call.uploaded < backup.count
    /\ pc' = "posted"
    /\ call' = [call EXCEPT !.uploaded = ChunkEnd,
                            !.inserted = @ + Cardinality(Chunk \ stored)]
    /\ Store(Chunk)
    /\ UNCHANGED <<backup, bounds>>

\* Mutant: the insertions of the whole call are added at every checkpoint.
CheckpointAddsUp ==
    /\ pc = "posted"
    /\ pc' = "posting"
    /\ backup' = [backup EXCEPT !.status = "uploading",
                                !.next = call.uploaded,
                                !.uploaded = call.uploaded,
                                !.inserted = @ + call.inserted]
    /\ UNCHANGED <<call, stored, accepted, bounds>>

Checkpoint ==
    /\ pc = "posted"
    /\ pc' = "posting"
    /\ backup' = [backup EXCEPT !.status = "uploading",
                                !.next = call.uploaded,
                                !.uploaded = call.uploaded,
                                !.inserted = call.prior + call.inserted]
    /\ UNCHANGED <<call, stored, accepted, bounds>>

\* Mutant: the number of accepted events is not compared with the chunk.
PostFailsUnnoticed ==
    /\ pc = "posting"
    /\ call.uploaded < backup.count
    /\ failures < MaxFailures
    /\ failures' = failures + 1
    /\ pc' = "posted"
    /\ call' = [call EXCEPT !.uploaded = ChunkEnd]
    /\ \E reached \in SUBSET Chunk : Store(reached)
    /\ UNCHANGED <<backup, crashes, losses>>

\* A request raises, whatever of the chunk the backend stored: the failure is
\* recorded over the last checkpoint.
PostFails ==
    /\ pc = "posting"
    /\ failures < MaxFailures
    /\ failures' = failures + 1
    /\ pc' = "idle"
    /\ backup' = [backup EXCEPT !.status = "failed"]
    /\ \E reached \in SUBSET Chunk : Store(reached)
    /\ UNCHANGED <<call, crashes, losses>>

\* Mutant: one event too few is good enough.
VerifyOffByOne ==
    /\ pc = "posting"
    /\ call.uploaded = backup.count
    /\ pc' = "verified"
    /\ call' = [call EXCEPT !.verdict =
                  IF Cardinality(stored) + 1 >= backup.count
                    THEN "complete" ELSE "incomplete"]
    /\ UNCHANGED <<backup, stored, accepted, bounds>>

\* get_model_usage_event_status counts the events of the run.
Verify ==
    /\ pc = "posting"
    /\ call.uploaded = backup.count
    /\ pc' = "verified"
    /\ call' = [call EXCEPT !.verdict =
                  IF Cardinality(stored) >= backup.count
                    THEN "complete" ELSE "incomplete"]
    /\ UNCHANGED <<backup, stored, accepted, bounds>>

\* A backend without the status route: BackendClientError is tolerated.
VerifyUnavailable ==
    /\ pc = "posting"
    /\ call.uploaded = backup.count
    /\ failures < MaxFailures
    /\ failures' = failures + 1
    /\ pc' = "verified"
    /\ call' = [call EXCEPT !.verdict = "unverified"]
    /\ UNCHANGED <<backup, stored, accepted, crashes, losses>>

\* Mutant: the offset is not reset when the verification fails.
RecordWithoutReset ==
    /\ pc = "verified"
    /\ pc' = "idle"
    /\ backup' = [backup EXCEPT
          !.status = CASE call.verdict = "complete" -> "complete"
                       [] call.verdict = "unverified" -> "uploaded_unverified"
                       [] OTHER -> "pending",
          !.next = call.uploaded,
          !.uploaded = call.uploaded,
          !.inserted = call.prior + call.inserted]
    /\ UNCHANGED <<call, stored, accepted, bounds>>

\* The result is recorded; an incomplete one resets the offset and raises.
Record ==
    /\ pc = "verified"
    /\ pc' = "idle"
    /\ backup' = [backup EXCEPT
          !.status = CASE call.verdict = "complete" -> "complete"
                       [] call.verdict = "unverified" -> "uploaded_unverified"
                       [] OTHER -> "pending",
          !.next = IF call.verdict = "incomplete" THEN 0 ELSE call.uploaded,
          !.uploaded = call.uploaded,
          !.inserted = call.prior + call.inserted]
    /\ UNCHANGED <<call, stored, accepted, bounds>>

-----------------------------------------------------------------------------
Crash ==
    /\ pc # "idle"
    /\ crashes < MaxCrashes
    /\ crashes' = crashes + 1
    /\ pc' = "idle"
    /\ call' = NoCall
    /\ UNCHANGED <<backup, stored, accepted, failures, losses>>

BackendLoses ==
    /\ losses < MaxLosses
    /\ losses' = losses + 1
    /\ \E e \in stored : stored' = stored \ {e}
    /\ UNCHANGED <<pc, backup, call, accepted, failures, crashes>>

Upload == StartUpload \/ PostChunk \/ Checkpoint \/ Verify \/ Record

Next ==
    \/ NewList \/ Upload \/ PostFails \/ VerifyUnavailable
    \/ Crash \/ BackendLoses

Spec == Init /\ [][Next]_vars

\* The process is started again and again, and an upload that can go on does.
FairSpec == Spec /\ WF_vars(Upload)

-----------------------------------------------------------------------------
\* The offset an upload resumes at, or falls back to, is never ahead of the
\* backend: every event before it was accepted, whatever crashed, failed, grew
\* or was written anew in between.
ResumeSkipsNothing ==
    /\ Prefix(backup.version, backup.next) \subseteq accepted
    /\ Prefix(backup.version, backup.uploaded) \subseteq accepted

\* A backup that is recorded as complete, or as uploaded but unverified, was
\* accepted to its last event.
FinishedMeansAccepted ==
    backup.status \in {"complete", "uploaded_unverified"} =>
        Prefix(backup.version, backup.count) \subseteq accepted

\* The backend only counts, and the count is enough: when it finds the upload
\* complete it holds every event of the list, as long as it lost none or
\* holds no event of an older list.
VerdictIsRight ==
    [][ /\ call.verdict # "complete" /\ call'.verdict = "complete"
        /\ losses = 0 \/ backup.version = 1
        => Prefix(backup.version, backup.count) \subseteq stored ]_vars

\* Chunks that are posted again after a crash are not counted twice: the
\* recorded number of insertions never exceeds what the backend inserted.
InsertionsAreNotOvercounted ==
    backup.inserted <= Cardinality(accepted) + losses

\* Every backup is complete in the end, even when the backend has lost events
\* of it: a failed verification has the next upload start over.
UploadCompletes == backup.status # "absent" ~> backup.status = "complete"
=============================================================================
