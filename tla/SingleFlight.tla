---------------------------- MODULE SingleFlight ----------------------------
(***************************************************************************)
(* What ClaimsMiner._run_task_coalesced (neurons/miner.py) promises its    *)
(* callers, without its lock, its loop and its cache files: a key is       *)
(* extracted by one caller at a time, and an extraction is returned only   *)
(* when one has been published for the caller's key.                       *)
(***************************************************************************)
CONSTANTS
    Callers,
    Keys,
    KeyOf,   \* the key of every caller
    Free     \* the holder of a key nobody is extracting

VARIABLES
    holder,     \* who is extracting each key
    published,  \* the keys of which an extraction was completed
    outcome     \* what each caller got

flightVars == <<holder, published, outcome>>

FlightInit ==
    /\ holder = [k \in Keys |-> Free]
    /\ published = {}
    /\ outcome = [c \in Callers |-> "none"]

Settle(c, result) ==
    /\ outcome[c] = "none"
    /\ outcome' = [outcome EXCEPT ![c] = result]

\* The caller takes off: nobody else is extracting its key.  It may have been
\* published meanwhile: a look-up is not repeated behind the lock, so the cache
\* promises one flight at a time and not one in all.  What it does promise of
\* calls that begin after a publication is not said here.
TakeOff(c) ==
    /\ outcome[c] = "none"
    /\ holder[KeyOf[c]] = Free
    /\ holder' = [holder EXCEPT ![KeyOf[c]] = c]
    /\ UNCHANGED <<published, outcome>>

\* The holder completes the extraction of its key ...
Publish(c) ==
    /\ holder[KeyOf[c]] = c
    /\ published' = published \union {KeyOf[c]}
    /\ UNCHANGED <<holder, outcome>>

\* ... and lands: it frees the key, with a published extraction or a failure.
Land(c) ==
    /\ holder[KeyOf[c]] = c
    /\ holder' = [holder EXCEPT ![KeyOf[c]] = Free]
    /\ \/ KeyOf[c] \in published /\ Settle(c, "completed")
       \/ Settle(c, "failed")
    /\ UNCHANGED published

\* Any other caller is served what was published ...
Reuse(c) ==
    /\ holder[KeyOf[c]] # c
    /\ KeyOf[c] \in published
    /\ Settle(c, "completed")
    /\ UNCHANGED <<holder, published>>

\* ... or gives up without touching the key.
GiveUp(c) ==
    /\ holder[KeyOf[c]] # c
    /\ Settle(c, "failed")
    /\ UNCHANGED <<holder, published>>

\* A restart loses the flights and the answers, never what was published.
Restart ==
    /\ holder' = [k \in Keys |-> Free]
    /\ outcome' = [c \in Callers |-> "none"]
    /\ UNCHANGED published

FlightNext ==
    \/ Restart
    \/ \E c \in Callers :
           TakeOff(c) \/ Publish(c) \/ Land(c) \/ Reuse(c) \/ GiveUp(c)

FlightSpec == FlightInit /\ [][FlightNext]_flightVars
=============================================================================
