------------------------------ MODULE MCCouncil ------------------------------
(***************************************************************************)
(* The council on small instances: its reports with the requests that      *)
(* decide on them, and its runs with the streams that tell of them.  A run *)
(* only adds reports, which CouncilReports lets happen at any time, so a   *)
(* behaviour is one of the part that "part" names from the start.          *)
(***************************************************************************)
EXTENDS CouncilReports, CouncilRuns

VARIABLE part

mcVars == <<part, vars, runVars>>

MCInit == part \in {"reports", "runs"} /\ Init /\ RunsInit

MCNext ==
    \/ part = "reports" /\ Next /\ UNCHANGED <<part, runVars>>
    \/ part = "runs" /\ RunsNext /\ UNCHANGED <<part, vars>>

MCSpec == MCInit /\ [][MCNext]_mcVars
===============================================================================
