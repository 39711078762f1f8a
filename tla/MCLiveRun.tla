------------------------------ MODULE MCLiveRun ------------------------------
(* Instances of LiveRun for TLC.  A search reserves two units, a turn and   *)
(* an embedding one.                                                        *)
EXTENDS LiveRun, TLC

CONSTANTS t1, t2

MCTools == {t1, t2}
MCCallers == {t1, t2, Turn}
MCCost == "chat" :> 1 @@ "embedding" :> 1 @@ "search" :> 1

Plain == [search |-> FALSE, answers |-> 0, expects |-> "options", flow |-> {}]
Planned == [search |-> FALSE, answers |-> 0, expects |-> "answer",
            flow |-> {"select", "plan", "followup"}]
Searching == [search |-> TRUE, answers |-> 1, expects |-> "answer", flow |-> {"resume"}]
MCScenarios == { <<Searching>>, <<Plain, Plain, Planned>> }
Symmetric == Permutations(MCTools)
=============================================================================
