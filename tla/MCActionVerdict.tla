-------------------------- MODULE MCActionVerdict --------------------------
(* Small windows for ActionVerdict: each kind of watch has its own.         *)
EXTENDS ActionVerdict, TLC

AllKinds == {"process", "outage", "pulse"}
FewSamples == "process" :> 2 @@ "outage" :> 2 @@ "pulse" :> 2
Floor == "process" :> 0 @@ "outage" :> 1 @@ "pulse" :> 1
Limits == "process" :> 1 @@ "outage" :> 1 @@ "pulse" :> 2
=============================================================================
