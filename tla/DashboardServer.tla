--------------------------- MODULE DashboardServer ---------------------------
(***************************************************************************)
(* The network proxy of server/app.py: handlers that run in the threads of *)
(* the server read one path of the claims API after the other through      *)
(* _cached_get, whose cache is locked for its lookups and its writes but   *)
(* not in between.  A payload is the time at which the API answered it.    *)
(***************************************************************************)
EXTENDS Integers, Sequences, SequencesExt

CONSTANTS
    Readers,   \* requests to the dashboard
    Endpoints, \* bound: the endpoints they call
    PathsOf,   \* the paths of the claims API an endpoint reads, in order
    Optional,  \* paths whose HTTP errors it passes over
    Ttl,       \* how long an answer of a path may be served
    MaxTime    \* bound: ticks of the clock

\* Every endpoint reads some path, and every answer may be served for a time.
ASSUME EndpointsAssumption ==
    \A e \in Endpoints : /\ PathsOf[e] \in Seq(ToSet(PathsOf[e])) \ {<< >>}
                         /\ \A p \in ToSet(PathsOf[e]) : Ttl[p] \in Nat \ {0}
ASSUME TimeAssumption == MaxTime \in Nat

VARIABLES
    clock,
    cache,     \* what is cached of each path
    endpoint,  \* what each reader asked for
    readerPc, at, \* where it is, and in which path
    now,     \* its "now" in _cached_get
    payload,   \* the payload in its hand
    served     \* what it has put into its answer: when asked, when made

serverVars ==
    <<clock, cache, endpoint, readerPc, at, now, payload, served>>

Paths == UNION {ToSet(PathsOf[e]) : e \in Endpoints}
Nothing == [stamp |-> -1, payload |-> -1]
Path(r) == PathsOf[endpoint[r]][at[r]]

ServerInit ==
    /\ clock = 0
    /\ cache = [p \in Paths |-> Nothing]
    /\ endpoint \in [Readers -> Endpoints]
    /\ readerPc = [r \in Readers |-> "idle"]
    /\ at = [r \in Readers |-> 1]
    /\ now = [r \in Readers |-> 0]
    /\ payload = [r \in Readers |-> 0]
    /\ served = [r \in Readers |-> << >>]

Tick ==
    /\ clock < MaxTime
    /\ clock' = clock + 1
    /\ UNCHANGED <<cache, endpoint, readerPc, at, now, payload, served>>

Moves(r, label) == readerPc' = [readerPc EXCEPT ![r] = label]

\* The handler goes on with its next path, or answers.
NextPath(r) ==
    IF at[r] = Len(PathsOf[endpoint[r]])
    THEN Moves(r, "answered") /\ UNCHANGED at
    ELSE Moves(r, "asking") /\ at' = [at EXCEPT ![r] = @ + 1]

Serve(r, asked, made) ==
    /\ served' = [served EXCEPT ![r] =
                     Append(@, [path |-> Path(r), asked |-> asked,
                                made |-> made])]
    /\ NextPath(r)

\* now = time.time()
Ask(r) ==
    /\ readerPc[r] \in {"idle", "asking"}
    /\ now' = [now EXCEPT ![r] = clock]
    /\ Moves(r, "asked")
    /\ UNCHANGED <<clock, cache, endpoint, at, payload, served>>

Fresh(r) ==
    LET hit == cache[Path(r)]
    IN  hit # Nothing /\ now[r] - hit.stamp < Ttl[Path(r)]

Hit(r) ==
    /\ readerPc[r] = "asked"
    /\ Fresh(r)
    /\ Serve(r, now[r], cache[Path(r)].payload)
    /\ UNCHANGED <<clock, cache, endpoint, now, payload>>

Miss(r) ==
    /\ readerPc[r] = "asked"
    /\ ~Fresh(r)
    /\ Moves(r, "fetching")
    /\ UNCHANGED <<clock, cache, endpoint, at, now, payload, served>>

\* The claims API makes its answer some time before it arrives.
ApiAnswers(r) ==
    /\ readerPc[r] = "fetching"
    /\ payload' = [payload EXCEPT ![r] = clock]
    /\ Moves(r, "fetched")
    /\ UNCHANGED <<clock, cache, endpoint, at, now, served>>

\* Mutant: the entry is as old as its write.
StoreNow(r) ==
    /\ readerPc[r] = "fetched"
    /\ cache' = [cache EXCEPT ![Path(r)] =
                    [stamp |-> clock, payload |-> payload[r]]]
    /\ Serve(r, now[r], payload[r])
    /\ UNCHANGED <<clock, endpoint, now, payload>>

Store(r) ==
    /\ readerPc[r] = "fetched"
    /\ cache' = [cache EXCEPT ![Path(r)] =
                    [stamp |-> now[r], payload |-> payload[r]]]
    /\ Serve(r, now[r], payload[r])
    /\ UNCHANGED <<clock, endpoint, now, payload>>

\* A status of at least 400 ends the handler with that status, except for a
\* path it can do without.
ApiRefuses(r) ==
    /\ readerPc[r] = "fetching"
    /\ IF Path(r) \in Optional THEN NextPath(r)
       ELSE Moves(r, "failed") /\ UNCHANGED at
    /\ UNCHANGED <<clock, cache, endpoint, now, payload, served>>

\* The request raises, or its answer is not JSON: nothing passes that over.
ApiFails(r) ==
    /\ readerPc[r] = "fetching"
    /\ Moves(r, "failed")
    /\ UNCHANGED <<clock, cache, endpoint, at, now, payload, served>>

ServerNext ==
    \/ Tick
    \/ \E r \in Readers :
          \/ Ask(r) \/ Hit(r) \/ Miss(r) \/ Store(r)
          \/ ApiAnswers(r) \/ ApiRefuses(r) \/ ApiFails(r)

ServerSpec == ServerInit /\ [][ServerNext]_serverVars

-----------------------------------------------------------------------------
(* Properties.                                                             *)

\* No part of an answer was made longer before it was asked for than its path
\* allows, although handlers that fetch the same path at the same time
\* overwrite one another's entries in any order.
AnswersAreFresh ==
    \A r \in Readers : \A i \in DOMAIN served[r] :
        LET part == served[r][i] IN part.asked - part.made < Ttl[part.path]

=============================================================================
