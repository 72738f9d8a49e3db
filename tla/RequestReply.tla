----------------------------- MODULE RequestReply -----------------------------
(***************************************************************************)
(* What the dashboard is promised about a command it sends to an agent,    *)
(* with no queue, no future and no network in sight: a request is asked    *)
(* once, its command runs at most once and only while it could still       *)
(* matter to somebody, and it ends exactly once, either with the answer of *)
(* its own run, refused before it ran, or abandoned.  CommandBroker implements this.       *)
(***************************************************************************)
CONSTANT Req                    \* the requests that may be asked

VARIABLES
  asked,                        \* requests somebody made
  ran,                          \* requests whose command an agent ran
  ended                         \* [Req -> how the request ended]

rvars == <<asked, ran, ended>>

Endings == {"open", "answered", "refused", "abandoned"}

Init == asked = {} /\ ran = {} /\ ended = [r \in Req |-> "open"]

Ask(r) == r \notin asked /\ asked' = asked \cup {r} /\ UNCHANGED <<ran, ended>>

(* A command may still run after its request was abandoned, but not after  *)
(* it was refused, and not twice.                                          *)
Run(r) == /\ r \in asked \ ran /\ ended[r] # "refused"
          /\ ran' = ran \cup {r}
          /\ UNCHANGED <<asked, ended>>

End(r, how) == /\ r \in asked /\ ended[r] = "open"
               /\ ended' = [ended EXCEPT ![r] = how]
               /\ UNCHANGED <<asked, ran>>

Answer(r)  == r \in ran /\ End(r, "answered")       \* the answer of its own run
Refuse(r)  == r \notin ran /\ End(r, "refused")     \* it did not and will not run
Abandon(r) == End(r, "abandoned")                   \* nobody can say

Next == \E r \in Req : Ask(r) \/ Run(r) \/ Answer(r) \/ Refuse(r) \/ Abandon(r)

Spec == Init /\ [][Next]_rvars
===============================================================================
