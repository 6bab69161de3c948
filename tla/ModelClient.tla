----------------------------- MODULE ModelClient -----------------------------
(***************************************************************************)
(* LLMClient of miner/agent_v1/staged/llm.py, called by several threads of *)
(* the staged pipeline: a call posts its request with retries, asks once   *)
(* more when the answer is not a JSON object, and adds what its answers    *)
(* have cost to the totals and to its stage under a lock.                  *)
(*                                                                         *)
(* A usage is the number of its answers (each counter of the source is     *)
(* added up the same way) and whether every cost in it is known            *)
(* (cost_kind "actual").                                                   *)
(***************************************************************************)
EXTENDS Integers, FiniteSets

CONSTANTS
    Calls,      \* calls of complete_json
    NoCall,     \* stands for none
    StageOf,    \* the stage each is for
    Parameters, \* optional parameters of a request a provider may reject
    MaxRetries  \* LLMClient.max_retries

ASSUME ClientAssumption ==
    NoCall \notin Calls /\ IsFiniteSet(Calls) /\ MaxRetries \in Nat

VARIABLES
    callPc,   \* where each call is
    attempt,  \* posts of its current request
    body,     \* optional parameters still in that request
    usage,    \* what its answers have cost
    lock,     \* the call that holds _lock
    read,     \* the totals it has read
    totals, byStage

clientVars ==
    <<callPc, attempt, body, usage, lock, read, totals, byStage>>
callVars == <<callPc, attempt, body, usage>>

Stages == {StageOf[c] : c \in Calls}
EmptyUsage == [requests |-> 0, actual |-> TRUE]
\* _usage_from_payload
OneAnswer(costGiven) == [requests |-> 1, actual |-> costGiven]
\* _merge
Merge(u, v) == [requests |-> u.requests + v.requests,
                actual |-> u.actual /\ v.actual]

ClientInit ==
    /\ callPc \in [Calls -> {"idle"}]
    /\ attempt = [c \in Calls |-> 0]
    /\ body = [c \in Calls |-> Parameters]
    /\ usage = [c \in Calls |-> EmptyUsage]
    /\ lock = NoCall
    /\ read = EmptyUsage
    /\ totals = EmptyUsage
    /\ byStage = [s \in Stages |-> EmptyUsage]

Ended(c) == callPc[c] \in {"done", "failed"}
Goto(c, label) == callPc' = [callPc EXCEPT ![c] = label]

StartCall(c) ==
    /\ callPc[c] = "idle"
    /\ Goto(c, "request")
    /\ UNCHANGED <<attempt, body, usage, lock, read, totals, byStage>>

-----------------------------------------------------------------------------
(* _post_with_retries, of the request and of its nudge.                    *)

Posting(c) == callPc[c] \in {"request", "nudge"} /\ attempt[c] <= MaxRetries
Posted(c) == attempt' = [attempt EXCEPT ![c] = @ + 1]

\* HTTP 400 that names a parameter of the request: it is taken out.
Rejected(c) ==
    /\ Posting(c)
    /\ Posted(c)
    /\ \E p \in body[c] : body' = [body EXCEPT ![c] = @ \ {p}]
    /\ UNCHANGED <<callPc, usage, lock, read, totals, byStage>>

\* A network error, another status of at least 400, or an answer that is not
\* JSON, tells of an error, or has no choices or no text.
Unanswered(c) ==
    /\ Posting(c)
    /\ Posted(c)
    /\ UNCHANGED <<callPc, body, usage, lock, read, totals, byStage>>

\* Any other 400, 401 or 403, or an answer of an unforeseen shape.
Refused(c) ==
    /\ Posting(c)
    /\ Posted(c)
    /\ Goto(c, "failed")
    /\ UNCHANGED <<body, usage, lock, read, totals, byStage>>

GiveUp(c) ==
    /\ callPc[c] \in {"request", "nudge"}
    /\ attempt[c] > MaxRetries
    /\ Goto(c, "failed")
    /\ UNCHANGED <<attempt, body, usage, lock, read, totals, byStage>>

\* An answer with text whose JSON object _parse_json_object finds.
Answered(c) ==
    /\ Posting(c)
    /\ Posted(c)
    /\ \E costGiven \in BOOLEAN :
          usage' = [usage EXCEPT ![c] = Merge(@, OneAnswer(costGiven))]
    /\ Goto(c, "answered")
    /\ UNCHANGED <<body, lock, read, totals, byStage>>

\* Mutant: it asks until there is a JSON object.
NudgeAgain(c) ==
    /\ Posting(c)
    /\ \E costGiven \in BOOLEAN :
          usage' = [usage EXCEPT ![c] = OneAnswer(costGiven)]
    /\ Goto(c, "nudge")
    /\ attempt' = [attempt EXCEPT ![c] = 0]
    /\ body' = [body EXCEPT ![c] = Parameters]
    /\ UNCHANGED <<lock, read, totals, byStage>>

\* No JSON object: the request is made once more, as it was at first, and
\* then both answers are lost.
NotJson(c) ==
    /\ Posting(c)
    /\ \E costGiven \in BOOLEAN :
          usage' = [usage EXCEPT ![c] = Merge(@, OneAnswer(costGiven))]
    /\ \/ /\ callPc[c] = "request"
          /\ Goto(c, "nudge")
          /\ attempt' = [attempt EXCEPT ![c] = 0]
          /\ body' = [body EXCEPT ![c] = Parameters]
       \/ /\ callPc[c] = "nudge"
          /\ Goto(c, "failed")
          /\ Posted(c)
          /\ UNCHANGED body
    /\ UNCHANGED <<lock, read, totals, byStage>>

-----------------------------------------------------------------------------
(* _record, statement by statement.                                        *)

\* Mutant: the lock is not waited for.
TakeLockAnyway(c) ==
    /\ callPc[c] = "answered"
    /\ lock' = c
    /\ read' = totals
    /\ Goto(c, "adding")
    /\ UNCHANGED <<attempt, body, usage, totals, byStage>>

TakeLock(c) ==
    /\ callPc[c] = "answered"
    /\ lock = NoCall
    /\ lock' = c
    /\ read' = totals
    /\ Goto(c, "adding")
    /\ UNCHANGED <<attempt, body, usage, totals, byStage>>

AddToTotals(c) ==
    /\ callPc[c] = "adding"
    /\ totals' = Merge(read, usage[c])
    /\ Goto(c, "added")
    /\ UNCHANGED <<attempt, body, usage, lock, read, byStage>>

AddToStage(c) ==
    /\ callPc[c] = "added"
    /\ byStage' = [byStage EXCEPT ![StageOf[c]] = Merge(@, usage[c])]
    /\ lock' = NoCall
    /\ Goto(c, "done")
    /\ UNCHANGED <<attempt, body, usage, read, totals>>

CallStep(c) ==
    \/ Rejected(c) \/ Unanswered(c) \/ Refused(c) \/ GiveUp(c)
    \/ Answered(c) \/ NotJson(c)
    \/ TakeLock(c) \/ AddToTotals(c) \/ AddToStage(c)
ClientNext == \E c \in Calls : StartCall(c) \/ CallStep(c)

ClientSpec == ClientInit /\ [][ClientNext]_clientVars

-----------------------------------------------------------------------------
(* Properties.                                                             *)

\* The answers that a set of calls has had, each call and the answer's number.
AnswersOf(S) == UNION {{c} \X (1..usage[c].requests) : c \in S}
UsageOf(S) == [requests |-> Cardinality(AnswersOf(S)),
               actual |-> \A c \in S : usage[c].actual]
Done == {c \in Calls : callPc[c] = "done"}

\* usage_summary tells, for the run and for each stage, the answers and the
\* kind of cost of exactly the calls that returned, however the threads that
\* made them interleave in _record.
UsageIsOfReturnedCalls ==
    lock = NoCall =>
        /\ totals = UsageOf(Done)
        /\ \A s \in Stages :
              byStage[s] = UsageOf({c \in Done : StageOf[c] = s})

\* A call returns or raises, whatever the provider answers: the retries of
\* _post_with_retries, its retries without a parameter and the nudge do not
\* feed one another.
CallsEnd == \A c \in Calls : (callPc[c] # "idle") ~> Ended(c)

=============================================================================
