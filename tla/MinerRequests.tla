---------------------------- MODULE MinerRequests ----------------------------
(***************************************************************************)
(* What happens to an axon request of one validator before its extraction: *)
(* blacklist, validation and rate limit of neurons/miner.py, in threads    *)
(* that share one list of request times, and download_pdf of               *)
(* neurons/tasks.py, whose temporary file is named by the millisecond.     *)
(*                                                                         *)
(* A request time in the list is named by the request that put it there:   *)
(* the list is a set of requests.                                          *)
(*                                                                         *)
(* A PDF is its sequence of chunks, and its hash is the PDF.  Files are    *)
(* names for inodes: who holds a file open goes on writing into it when it *)
(* is renamed or truncated.  An inode is named by the request that created *)
(* it.                                                                     *)
(***************************************************************************)
EXTENDS Integers, Sequences, SequencesExt, FiniteSets

CONSTANTS
    Requests,   \* requests of the validator
    NoFile,     \* stands for no inode
    Limit,      \* claims_max_requests_per_hotkey_minute
    Window,     \* ticks in 60 seconds
    MaxTicks,   \* bound: ticks of the clock
    Pdfs,       \* bound: the PDF behind each request's URL; << >> for a request
                \* that brings its artifact
    Expected,   \* its source_sha256, or << >>
    DirOf       \* the download directory of each request: one for all the
                \* tasks of a v0 miner, one of its own for a task of agent_v1

ASSUME RequestsAssumption ==
    /\ {Limit, Window, MaxTicks} \subseteq Nat
    /\ NoFile \notin Requests
    /\ IsFiniteSet(Requests)
ASSUME PdfsAssumption ==
    \A r \in Requests : Pdfs[r] \in Seq(ToSet(Pdfs[r]))

VARIABLES
    ticks,
    reqPc,     \* where each request is
    stamp,     \* its "now"
    recent,    \* those whose times it has seen in the window
    times,     \* _request_times_by_hotkey of the validator
    tmp,       \* the tick its temporary file is named by
    handle,    \* the inode it writes to
    received,  \* chunks it has received
    files,     \* the inode each name of each directory stands for
    content,   \* the chunks in each inode
    used       \* the PDF its extraction has read

admissionVars == <<stamp, recent, times>>
downloadVars == <<tmp, handle, received, files, content, used>>
requestVars == <<ticks, reqPc, admissionVars, downloadVars>>

Dirs == {DirOf[r] : r \in Requests}
\* Mutant: the name of a temporary file says no time.
OneTmpName(t) == <<"tmp", <<0>>>>
\* download-<milliseconds>.tmp
TmpName(t) == <<"tmp", <<t>>>>
PdfName(pdf) == <<"pdf", pdf>>
Names == {TmpName(t) : t \in 0..MaxTicks}
         \union {PdfName(p) : p \in UNION {Prefixes(Pdfs[r]) : r \in Requests}}

RequestsInit ==
    /\ ticks = 0
    /\ reqPc = [r \in Requests |-> "new"]
    /\ stamp = [r \in Requests |-> 0]
    /\ recent = [r \in Requests |-> {}]
    /\ times = {}
    /\ tmp = [r \in Requests |-> 0]
    /\ handle = [r \in Requests |-> NoFile]
    /\ received = [r \in Requests |-> << >>]
    /\ files = [d \in Dirs |-> [n \in Names |-> NoFile]]
    /\ content = [r \in Requests |-> << >>]
    /\ used = [r \in Requests |-> << >>]

TickRequests ==
    /\ ticks < MaxTicks
    /\ ticks' = ticks + 1
    /\ UNCHANGED <<reqPc, admissionVars, downloadVars>>

Turn(r, label) == reqPc' = [reqPc EXCEPT ![r] = label]

-----------------------------------------------------------------------------
(* Admission.                                                              *)

\* blacklist: an unregistered hotkey, unless claims_allow_unregistered.
\* _validate_synapse: another protocol or schema, or no input.
TurnAway(r) ==
    /\ reqPc[r] = "new"
    /\ Turn(r, "turned away")
    /\ UNCHANGED <<ticks, admissionVars, downloadVars>>

\* _enforce_rate_limit: now, and the times less than a window older.
ReadTimes(r) ==
    /\ reqPc[r] = "new"
    /\ stamp' = [stamp EXCEPT ![r] = ticks]
    /\ recent' = [recent EXCEPT ![r] =
                     {q \in times : ticks - stamp[q] < Window}]
    /\ Turn(r, "limiting")
    /\ UNCHANGED <<ticks, times, downloadVars>>

\* Mutant: a refused request counts.
RefuseAndCount(r) ==
    /\ reqPc[r] = "limiting"
    /\ Limit > 0
    /\ Cardinality(recent[r]) >= Limit
    /\ times' = recent[r] \union {r}
    /\ Turn(r, "refused")
    /\ UNCHANGED <<ticks, stamp, recent, downloadVars>>

Refuse(r) ==
    /\ reqPc[r] = "limiting"
    /\ Limit > 0
    /\ Cardinality(recent[r]) >= Limit
    /\ Turn(r, "refused")
    /\ UNCHANGED <<ticks, admissionVars, downloadVars>>

\* The list is replaced by the one that was read, and this request's time.
Admit(r) ==
    /\ reqPc[r] = "limiting"
    /\ Limit > 0 => Cardinality(recent[r]) < Limit
    /\ times' = IF Limit > 0 THEN recent[r] \union {r} ELSE times
    /\ Turn(r, IF Pdfs[r] = << >> THEN "ready" ELSE "admitted")
    /\ UNCHANGED <<ticks, stamp, recent, downloadVars>>

-----------------------------------------------------------------------------
(* download_pdf.                                                           *)

Dir(r) == files[DirOf[r]]
InodeOf(r) == Dir(r)[TmpName(tmp[r])]

NameTmp(r) ==
    /\ reqPc[r] = "admitted"
    /\ tmp' = [tmp EXCEPT ![r] = ticks]
    /\ Turn(r, "connecting")
    /\ UNCHANGED <<ticks, admissionVars, handle, received, files, content, used>>

\* tmp_path.open("wb") empties a file that is there.
OpenTmp(r) ==
    LET inode == IF InodeOf(r) = NoFile THEN r ELSE InodeOf(r)
    IN  /\ reqPc[r] = "connecting"
        /\ handle' = [handle EXCEPT ![r] = inode]
        /\ files' = [files EXCEPT ![DirOf[r]][TmpName(tmp[r])] = inode]
        /\ content' = [content EXCEPT ![inode] = << >>]
        /\ Turn(r, "receiving")
        /\ UNCHANGED <<ticks, admissionVars, tmp, received, used>>

\* The next chunk is written where the last one of this download ended; what
\* was cut off before that is a hole.
WriteAt(file, n, chunk) ==
    [i \in 1..(IF n > Len(file) THEN n ELSE Len(file)) |->
        IF i = n THEN chunk
        ELSE IF i <= Len(file) THEN file[i] ELSE "hole"]

ReceiveChunk(r) ==
    LET n == Len(received[r]) + 1
    IN  /\ reqPc[r] = "receiving"
        /\ n <= Len(Pdfs[r])
        /\ received' = [received EXCEPT ![r] = Append(@, Pdfs[r][n])]
        /\ content' = [content EXCEPT ![handle[r]] =
                          WriteAt(@, n, Pdfs[r][n])]
        /\ UNCHANGED <<ticks, reqPc, admissionVars, tmp, handle, files, used>>

\* The answer ends, which a connection that is cut does too, before its first
\* chunk or later: response.read tells no difference.
EndReceiving(r) ==
    /\ reqPc[r] = "receiving"
    /\ Turn(r, "received")
    /\ UNCHANGED <<ticks, admissionVars, downloadVars>>

Matches(r) == Expected[r] \in {<< >>, received[r]}

\* No connection, too many bytes, a wrong hash or content type: the name of
\* the temporary file is removed, whoever has written to it.  One that is gone
\* when it is to be renamed is an error too.
FailDownload(r) ==
    /\ \/ reqPc[r] \in {"connecting", "receiving", "received"}
       \/ reqPc[r] = "renaming" /\ InodeOf(r) = NoFile
    /\ files' = [files EXCEPT ![DirOf[r]][TmpName(tmp[r])] = NoFile]
    /\ Turn(r, "error")
    /\ UNCHANGED <<ticks, admissionVars, tmp, handle, received, content, used>>

\* final_path.exists(): a PDF that is there is taken and the temporary file
\* removed; else the temporary file is to become it.
LookForPdf(r) ==
    LET found == Dir(r)[PdfName(received[r])] # NoFile
    IN  /\ reqPc[r] = "received"
        /\ Matches(r)
        /\ files' = IF found
                    THEN [files EXCEPT ![DirOf[r]][TmpName(tmp[r])] = NoFile]
                    ELSE files
        /\ Turn(r, IF found THEN "downloaded" ELSE "renaming")
        /\ UNCHANGED <<ticks, admissionVars, tmp, handle, received, content,
                       used>>

\* tmp_path.replace(final_path), which replaces one that has come meanwhile.
RenameTmp(r) ==
    /\ reqPc[r] = "renaming"
    /\ InodeOf(r) # NoFile
    /\ files' = [files EXCEPT ![DirOf[r]][TmpName(tmp[r])] = NoFile,
                             ![DirOf[r]][PdfName(received[r])] = InodeOf(r)]
    /\ Turn(r, "downloaded")
    /\ UNCHANGED <<ticks, admissionVars, tmp, handle, received, content, used>>

\* The pipeline reads the file at the path it was given.
ReadPdf(r) ==
    /\ reqPc[r] = "downloaded"
    /\ used' = [used EXCEPT ![r] =
                   content[Dir(r)[PdfName(received[r])]]]
    /\ Turn(r, "ready")
    /\ UNCHANGED <<ticks, admissionVars, tmp, handle, received, files, content>>

RequestsNext ==
    \/ TickRequests
    \/ \E r \in Requests :
          \/ TurnAway(r) \/ ReadTimes(r) \/ Refuse(r)
          \/ Admit(r) \/ NameTmp(r) \/ OpenTmp(r) \/ ReceiveChunk(r)
          \/ EndReceiving(r) \/ FailDownload(r) \/ LookForPdf(r)
          \/ RenameTmp(r) \/ ReadPdf(r)

RequestsSpec == RequestsInit /\ [][RequestsNext]_requestVars

-----------------------------------------------------------------------------
(* Properties.                                                             *)

WasAdmitted(r) ==
    reqPc[r] \notin {"new", "turned away", "limiting", "refused"}

\* A request is refused only when as many as the limit allows were admitted
\* within the window before it: neither refused requests nor the unlocked list
\* count against a validator.  (The list may lose admissions: see the README.)
RefusedOnlyAtTheLimit ==
    \A r \in Requests : reqPc[r] = "refused" =>
        Cardinality({q \in Requests : /\ WasAdmitted(q)
                                      /\ stamp[r] - stamp[q] < Window}) >= Limit

HasDownloaded(r) == reqPc[r] \in {"downloaded", "ready"} /\ Pdfs[r] # << >>
HasNamed(r) ==
    WasAdmitted(r) /\ reqPc[r] # "admitted" /\ Pdfs[r] # << >>
\* Another download in its directory was named in the same millisecond.
SharesItsTmp(r) ==
    \E q \in Requests \ {r} :
        HasNamed(q) /\ DirOf[q] = DirOf[r] /\ tmp[q] = tmp[r]

\* An extraction reads the PDF its download is named after, and the one its
\* task asked for when that gives a hash, although tasks download into one
\* directory, take each other's files and connections are cut: only a file
\* that was downloaded in the same millisecond as another one can hold
\* something else, and then for all who take it later.
DownloadsAreWhatTheySay ==
    \A r \in Requests : reqPc[r] = "ready" /\ Pdfs[r] # << >> =>
        /\ Expected[r] \in {<< >>, received[r]}
        /\ \/ used[r] = received[r]
           \/ \E w \in Requests :
                 /\ HasDownloaded(w) /\ SharesItsTmp(w)
                 /\ DirOf[w] = DirOf[r] /\ received[w] = received[r]

=============================================================================
