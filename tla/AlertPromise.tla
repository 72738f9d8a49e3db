---------------------------- MODULE AlertPromise ----------------------------
(***************************************************************************)
(* What the notifier promises the operator (culprit/notify.py, the module's *)
(* docstring): "One message per (node, finding) while it holds, one more if *)
(* it escalates from warn to critical, and one when it resolves."           *)
(*                                                                         *)
(* said[p] is the rank the operator was last told finding p has (0: nothing *)
(* outstanding), news the messages the last step put out.  A finding may    *)
(* also be forgotten without a word: a node removed, a subject that         *)
(* vanished, a host that restarted.                                         *)
(***************************************************************************)
EXTENDS Integers

CONSTANT Findings
VARIABLES said, news

Kinds == {"finding", "escalated", "resolved"}
About(p) == {e \in Kinds : [event |-> e, about |-> p] \in news'}

Announced(p) == About(p) = {"finding"} /\ said[p] = 0 /\ said'[p] > 0
Worse(p)     == About(p) = {"escalated"} /\ 0 < said[p] /\ said[p] < said'[p]
Over(p)      == About(p) = {"resolved"} /\ said[p] > 0 /\ said'[p] = 0
Unmentioned(p) == About(p) = {} /\ said'[p] \in {said[p], 0}

Init == said = [p \in Findings |-> 0] /\ news = {}

Next == /\ said' \in [Findings -> 0..2]
        /\ \A p \in Findings : Announced(p) \/ Worse(p) \/ Over(p) \/ Unmentioned(p)

Spec == Init /\ [][Next]_<<said, news>>
=============================================================================
