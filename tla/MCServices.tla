------------------------------ MODULE MCServices ------------------------------
(***************************************************************************)
(* The model client, the network proxy of the dashboard and the requests   *)
(* of the miner share no state: in each behaviour one of them has work.    *)
(***************************************************************************)
EXTENDS ModelClient, DashboardServer, MinerRequests, TLC

VARIABLE service

CONSTANTS c1, c2

vars == <<service, clientVars, serverVars, requestVars>>

Init ==
    /\ service \in {"client", "server", "requests"}
    /\ ClientInit
    /\ ServerInit
    /\ service # "server" => endpoint = [r \in Readers |-> "miner"]
    /\ RequestsInit

ClientWorks ==
    /\ service = "client"
    /\ ClientNext
    /\ UNCHANGED <<service, serverVars, requestVars>>
ServerWorks ==
    /\ service = "server"
    /\ ServerNext
    /\ UNCHANGED <<service, clientVars, requestVars>>
RequestsWork ==
    /\ service = "requests"
    /\ RequestsNext
    /\ UNCHANGED <<service, clientVars, serverVars>>

Next == ClientWorks \/ ServerWorks \/ RequestsWork

\* A thread goes on when it can.
Spec ==
    /\ Init
    /\ [][Next]_vars
    /\ \A c \in Calls : WF_vars(/\ service = "client"
                                /\ CallStep(c)
                                /\ UNCHANGED <<service, serverVars, requestVars>>)

MCStageOf == c1 :> "extract" @@ c2 :> "merge"
MCPathsOf == "overview" :> <<"runs", "me">> @@ "miner" :> <<"me">>
MCTtl == "runs" :> 1 @@ "me" :> 2
MCPdfs == <<<<"a", "b">>, <<"a", "c">>, << >>>>
MCExpected == << <<"a", "b">>, << >>, << >> >>
MCDirOf == [r \in 1..3 |-> "pdf_downloads"]
=============================================================================
