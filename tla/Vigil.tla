------------------------------- MODULE Vigil --------------------------------
(***************************************************************************)
(* The notifier in its surroundings: reports ingested on executor threads   *)
(* (nodes.py NodeRegistry.ingest), the Pulse that judges on the sweep        *)
(* (pulse.py _judge), the sweep loop that carries its verdicts to the       *)
(* notifier (main.py _sweep_loop) and the removal of agents.                *)
(*                                                                         *)
(* A report is a partial one: it may or may not carry a section the         *)
(* notifier is called for.  Its thread merges it under the lock, then lists  *)
(* what is active, then hands the list to the notifier, then the sections    *)
(* to the Pulse; the loop too lists and hands over in two steps.  Between    *)
(* any two of these other threads of the same node, and the loop, may run,   *)
(* so lists need not be handed over in the order they were made.  A key is   *)
(* a finding of the diagnosis, or a subject of the Pulse, which the agent    *)
(* last reported as busy, quiet or (by leaving it out) gone.                *)
(*                                                                         *)
(* A tick is a minute: the loop passes, and calls in flight end, within it. *)
(***************************************************************************)
EXTENDS Notifier

CONSTANTS
  Subjects,      \* the keys that are the Pulse's; the others are findings
  Untracked,     \* subjects _subject_gone does not know: journals, timers
  Threads,       \* executor threads that may ingest reports of one node
  Loop,          \* the event loop, which lists and hands over too
  Ranks,         \* what a diagnosis may give a finding; 0 when it lacks it
  Deaf,          \* CONTINUITY_GAP_S: unheard longer than this, nothing is judged
  Settle         \* QUIET_PERIOD_S: heard this long without a gap, it is again

ASSUME SubjectAssumption == Subjects \subseteq Keys /\ Untracked \subseteq Subjects
ASSUME CallerAssumption ==
  Loop \notin Threads /\ "judge" \notin Nodes /\ Ranks \subseteq 0..2 /\ 0 \in Ranks
ASSUME DeafAssumption == Deaf \in Nat /\ Settle \in Nat \ {0}

VARIABLES
  diagnosis,     \* the merged snapshot's findings: key -> rank
  subject,       \* what the Pulse last saw of a subject
  heard,         \* ticks since the Pulse saw a report (Never: no state)
  steady,        \* ticks since online_since
  items,         \* the Pulse's current items
  vanished,      \* keys to be dropped rather than resolved
  inflight,      \* per node and caller: how far its report, or its list, is
  todo,          \* nodes whose item set the loop has yet to carry over
  swept,         \* whether the loop has passed in this tick
  enrolled,      \* agents that exist
  unseen,        \* ticks since a node last reported anything
  lacked,        \* ticks since the merged snapshot last lacked a finding
  overtaken      \* findings the snapshot had when a list without them, made
                 \* before, was handed over last

pulseVars == <<subject, heard, steady, items, vanished>>
loopVars == <<todo, swept>>
pastVars == <<lacked, overtaken>>
allVars == <<vars, diagnosis, pulseVars, inflight, loopVars, enrolled, unseen, pastVars>>

Diagnosed == Keys \ Subjects
Callers == Threads \cup {Loop}
NoReport == [carries |-> "nothing"]

-----------------------------------------------------------------------------
(* The notifier is not called in a step, and so says nothing in it.          *)
NoCall == /\ mail' = {} /\ lost' = {}
          /\ UNCHANGED <<heldVars, cfg, recent, waiting, said, told, unlisted>>

(* _notifiable: the findings of the merged snapshot and the Pulse's items,  *)
(* as one list.                                                             *)
Notifiable(n) ==
  [k \in Keys |-> IF k \in Subjects THEN (IF k \in items[n] THEN 1 ELSE 0) ELSE diagnosis[n][k]]

(* A list as it is made, and what it was made of.                           *)
Listing(n) == [carries |-> "list", list |-> Notifiable(n), read |-> diagnosis[n]]

Idle(n, c) == inflight[n][c] = NoReport
Carries(n, c, what) == inflight[n][c].carries = what
Goes(n, c, report) == inflight' = [inflight EXCEPT ![n][c] = report]

(* A verified report reaches ingest: the snapshot is merged under the lock. *)
Receive(n, t, report) ==
  /\ n \in enrolled /\ Idle(n, t)
  /\ Goes(n, t, report)
  /\ unseen' = [unseen EXCEPT ![n] = 0]
  /\ NoCall /\ UNCHANGED <<pulseVars, loopVars, enrolled, overtaken>>

(* It carries a section the notifier is called for; or it does not.         *)
ReceiveList(n, t) ==
  \E d \in [Diagnosed -> Ranks] :
    /\ Receive(n, t, [carries |-> "merged"])
    /\ diagnosis' = [diagnosis EXCEPT ![n] = d]
    /\ lacked' = [lacked EXCEPT ![n] = [k \in Diagnosed |-> IF d[k] = 0 THEN 0 ELSE @[k]]]

ReceiveOther(n, t) == Receive(n, t, [carries |-> "other"]) /\ UNCHANGED <<diagnosis, lacked>>

(* The list is made from the live snapshot, outside the lock.               *)
MakeList(n, t) ==
  /\ Carries(n, t, "merged") /\ Goes(n, t, Listing(n))
  /\ NoCall /\ UNCHANGED <<diagnosis, pulseVars, loopVars, enrolled, unseen, pastVars>>

(* notifier.observe with a list made some time ago.                         *)
HandOver(n, c) ==
  /\ Carries(n, c, "list")
  /\ overtaken' = [overtaken EXCEPT ![n] =
                     {k \in Diagnosed : inflight[n][c].read[k] = 0 /\ diagnosis[n][k] > 0}]
  /\ Observe(n, inflight[n][c].list)
  /\ UNCHANGED <<diagnosis, pulseVars, swept, enrolled, unseen, lacked>>

Tell(n, t) == Goes(n, t, [carries |-> "other"]) /\ HandOver(n, t) /\ UNCHANGED todo

(* Last, pulse.observe: _continuity, then the services and ports sections   *)
(* if the report has them.                                                  *)
Fold(n, t) ==
  /\ Carries(n, t, "other") /\ Goes(n, t, NoReport)
  /\ heard' = [heard EXCEPT ![n] = 0]
  /\ steady' = [steady EXCEPT ![n] = IF heard[n] = Never \/ heard[n] > Deaf THEN 0 ELSE @]
  /\ \E seen \in [Subjects -> {"busy", "quiet", "gone"}] : subject' = [subject EXCEPT ![n] = seen]
  /\ NoCall /\ UNCHANGED <<diagnosis, items, vanished, loopVars, enrolled, unseen, pastVars>>

-----------------------------------------------------------------------------
(* _judge: which items a node may be given now.  Unheard or unsettled it    *)
(* has none; an item held stays while its subject is quiet; a quiet subject *)
(* may become one.                                                          *)
Judgements(n) ==
  IF heard[n] = Never THEN {items[n]}
  ELSE IF heard[n] > Deaf \/ steady[n] < Settle THEN {{}}
  ELSE LET quiet == {k \in Subjects : subject[n][k] = "quiet"}
       IN {its \in SUBSET quiet : items[n] \cap quiet \subseteq its}

(* Faulty variants: every node is renotified on every sweep; renotify hands  *)
(* over the Pulse's items alone.                                            *)
AlwaysChanged(n, its) == TRUE
CopyOfPulseOnly(n) ==
  /\ n \in todo /\ vanished[n] = {} /\ \A m \in Nodes : Idle(m, Loop)
  /\ Goes(n, Loop, [Listing(n) EXCEPT !.list = [k \in Keys |-> IF k \in items[n] THEN 1 ELSE 0]])
  /\ NoCall /\ UNCHANGED <<diagnosis, pulseVars, loopVars, enrolled, unseen, pastVars>>

SubjectGone(n, k) == k \notin Untracked /\ subject[n][k] = "gone"
Changed(n, its) == its # items[n]

(* One pass of the loop up to the verdicts: the notifier's sweep, then      *)
(* Pulse.sweep over every node.                                             *)
LoopSweep == /\ ~swept /\ todo = {}
             /\ swept' = TRUE /\ todo' = {"judge"}
             /\ Sweep
             /\ UNCHANGED <<diagnosis, pulseVars, inflight, enrolled, unseen, pastVars>>

LoopJudge ==
  /\ todo = {"judge"}
  /\ \E verdict \in [Nodes -> SUBSET Subjects] :
       /\ \A n \in Nodes : verdict[n] \in Judgements(n)
       /\ items' = verdict
       /\ vanished' = [n \in Nodes |-> {k \in items[n] \ verdict[n] : SubjectGone(n, k)}]
       /\ todo' = {n \in Nodes : Changed(n, verdict[n])}
  /\ NoCall
  /\ UNCHANGED <<diagnosis, subject, heard, steady, inflight, swept, enrolled, unseen, pastVars>>

(* For each changed node: drop what vanished, then renotify with the rest.  *)
(* The Pulse's items, which renotify reads after the snapshot, only the     *)
(* loop changes.                                                            *)
LoopDrop(n) ==
  /\ n \in todo /\ vanished[n] # {}
  /\ \E k \in vanished[n] : /\ DropKey(<<n, k>>)
                            /\ vanished' = [vanished EXCEPT ![n] = @ \ {k}]
  /\ UNCHANGED <<diagnosis, subject, heard, steady, items, inflight, loopVars, enrolled, unseen, pastVars>>

LoopCopy(n) ==
  /\ n \in todo /\ vanished[n] = {} /\ \A m \in Nodes : Idle(m, Loop)
  /\ Goes(n, Loop, Listing(n))
  /\ NoCall /\ UNCHANGED <<diagnosis, pulseVars, loopVars, enrolled, unseen, pastVars>>

LoopRenotify(n) == n \in todo /\ todo' = todo \ {n} /\ Goes(n, Loop, NoReport) /\ HandOver(n, Loop)

-----------------------------------------------------------------------------
(* DELETE /api/agents/{name}: the token stops verifying, the notifier and   *)
(* the Pulse forget the node; the merged snapshot stays in the registry.    *)
(* The loop does not answer it between judging and the last renotify.       *)
Remove(n) ==
  /\ todo \subseteq {"judge"}
  /\ n \in enrolled /\ enrolled' = enrolled \ {n}
  /\ ForgetNode(n)
  /\ items' = [items EXCEPT ![n] = {}] /\ vanished' = [vanished EXCEPT ![n] = {}]
  /\ heard' = [heard EXCEPT ![n] = Never] /\ steady' = [steady EXCEPT ![n] = 0]
  /\ subject' = [subject EXCEPT ![n] = [k \in Subjects |-> "gone"]]
  /\ UNCHANGED <<diagnosis, inflight, loopVars, unseen, pastVars>>

Minute ==
  /\ swept /\ todo = {} /\ \A n \in Nodes, t \in Threads : Idle(n, t)
  /\ swept' = FALSE
  /\ Tick
  /\ heard' = [n \in Nodes |-> Older(heard[n], Deaf + 1)]
  /\ steady' = [n \in Nodes |-> Older(steady[n], Settle)]
  /\ unseen' = [n \in Nodes |-> Older(unseen[n], SilentDrop + 1)]
  /\ lacked' = [n \in Nodes |-> [k \in Diagnosed |->
                 IF diagnosis[n][k] = 0 THEN 0 ELSE Older(lacked[n][k], Grace + 1)]]
  /\ UNCHANGED <<diagnosis, subject, items, vanished, inflight, todo, enrolled, overtaken>>

WorkerDelivers ==
  Deliver /\ UNCHANGED <<diagnosis, pulseVars, inflight, loopVars, enrolled, unseen, pastVars>>

VigilInit ==
  /\ Init
  /\ diagnosis = [n \in Nodes |-> [k \in Diagnosed |-> 0]]
  /\ subject = [n \in Nodes |-> [k \in Subjects |-> "gone"]]
  /\ heard = [n \in Nodes |-> Never] /\ steady = [n \in Nodes |-> 0]
  /\ items = [n \in Nodes |-> {}] /\ vanished = [n \in Nodes |-> {}]
  /\ inflight = [n \in Nodes |-> [c \in Callers |-> NoReport]] /\ todo = {} /\ swept = FALSE
  /\ enrolled = Nodes /\ unseen = [n \in Nodes |-> 0]
  /\ lacked = [n \in Nodes |-> [k \in Diagnosed |-> 0]] /\ overtaken = [n \in Nodes |-> {}]

VigilNext ==
  \/ \E n \in Nodes, t \in Threads :
       ReceiveList(n, t) \/ ReceiveOther(n, t) \/ MakeList(n, t) \/ Tell(n, t) \/ Fold(n, t)
  \/ \E n \in Nodes : LoopDrop(n) \/ LoopCopy(n) \/ LoopRenotify(n) \/ Remove(n)
  \/ LoopSweep \/ LoopJudge \/ Minute \/ WorkerDelivers

VigilSpec == VigilInit /\ [][VigilNext]_allVars

(* Minutes pass, and the loop passes in each: it is not held up for good,   *)
(* and calls in flight end, for Minute waits for both.                      *)
LoopFairness == WF_swept(swept' = ~swept)

FairVigil == VigilSpec /\ LoopFairness

-----------------------------------------------------------------------------
(* Every variable of the composition holds what the code can put there.     *)
VigilTypeOK ==
  /\ TypeOK
  /\ diagnosis \in [Nodes -> [Diagnosed -> Ranks]]
  /\ subject \in [Nodes -> [Subjects -> {"busy", "quiet", "gone"}]]
  /\ heard \in [Nodes -> Never..Deaf + 1] /\ steady \in [Nodes -> 0..Settle]
  /\ items \in [Nodes -> SUBSET Subjects] /\ vanished \in [Nodes -> SUBSET Subjects]
  /\ todo = {"judge"} \/ todo \subseteq Nodes
  /\ swept \in BOOLEAN /\ enrolled \subseteq Nodes /\ unseen \in [Nodes -> 0..SilentDrop + 1]
  /\ lacked \in [Nodes -> [Diagnosed -> 0..Grace + 1]] /\ overtaken \in [Nodes -> SUBSET Diagnosed]

BringsBack(n, k) ==
  \E c \in Callers : Carries(n, c, "merged") \/ (Carries(n, c, "list") /\ inflight[n][c].read[k] > 0)

(* "All four must be in every call" (_notifiable): a finding the merged     *)
(* snapshot has is not resolved, whichever part of the system last called   *)
(* the notifier, unless the report that brought it is still being folded.   *)
OnlyClearedResolves ==
  [][\A n \in Nodes, k \in Diagnosed :
       Note("resolved", <<n, k>>) \in mail' \cup lost' => diagnosis[n][k] = 0 \/ BringsBack(n, k)]_allVars

(* What the code keeps of that.  A finding is resolved only if the merged   *)
(* snapshot really lacked it at some moment of the grace period, whoever    *)
(* called the notifier since; and if the snapshot has it by then, either    *)
(* the report that brought it back is still being folded, or the last list  *)
(* handed over is one it overtook: made before, handed over after.          *)
ResolvedWasLacking ==
  [][\A n \in Nodes, k \in Diagnosed :
       Note("resolved", <<n, k>>) \in mail' \cup lost' =>
         /\ lacked[n][k] <= Grace
         /\ diagnosis[n][k] = 0 \/ BringsBack(n, k) \/ k \in overtaken[n]]_allVars

(* What the Pulse holds reaches the notifier, or the Pulse lets go of it,   *)
(* without waiting for a further report (that is what renotify is for).     *)
QuietIsHeld ==
  \A n \in Nodes, k \in Subjects :
    k \in items[n] ~> active[<<n, k>>].severity > 0 \/ k \notin items[n]

(* A node that once showed the notifier something and then sends nothing    *)
(* any more is marked offline, whatever the Pulse goes on judging of it.    *)
DeadNodeIsMarked ==
  \A n \in Nodes : unseen[n] > SilentDrop ~> n \in offline \/ silent[n] = Never \/ unseen[n] = 0

(* A subject is said to be busy again only when it was last seen busy.      *)
BusyAgainIsTrue ==
  [][\A n \in Nodes, k \in Subjects :
       Note("resolved", <<n, k>>) \in mail' => subject[n][k] = "busy"]_allVars
=============================================================================
