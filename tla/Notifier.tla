------------------------------ MODULE Notifier ------------------------------
(***************************************************************************)
(* The host's notifier (culprit/notify.py): which findings it holds, when it *)
(* speaks of one, and when it says a node stopped or resumed reporting.     *)
(*                                                                         *)
(* Time is in ticks.  Every stamp of the code is only ever compared with    *)
(* "now", so each is kept as an age, which stops counting one past the      *)
(* largest threshold it is compared with.  A message is [event, about];     *)
(* its wording is left out, its delivery is the worker emptying a queue.    *)
(***************************************************************************)
EXTENDS Integers, FiniteSets, Sequences

CONSTANTS
  Nodes,          \* agents
  Keys,           \* keys of findings
  Grace,          \* RESOLVE_GRACE_S
  OfflineAfter,   \* OFFLINE_AFTER_S
  SilentDrop,     \* SILENT_DROP_S
  Limit, Window,  \* RATE_LIMIT: so many messages in so many ticks
  QueueMax,       \* maxsize of the queue to the worker
  Configs         \* the settings an operator switches between

ASSUME FiniteAssumption == IsFiniteSet(Nodes) /\ IsFiniteSet(Keys)
ASSUME TimesAssumption ==
  /\ Grace \in Nat \ {0} /\ OfflineAfter \in Nat \ {0}
  /\ SilentDrop \in Nat /\ SilentDrop > OfflineAfter
ASSUME QueueAssumption == Limit \in Nat /\ Window \in Nat \ {0} /\ QueueMax \in Nat \ {0}
ASSUME ConfigAssumption ==
  Configs \subseteq [channels : BOOLEAN, floor : 1..2, resolved : BOOLEAN, offline : BOOLEAN]

Findings == Nodes \X Keys
Never == -1       \* absent_since is None; a node not in _node_seen

VARIABLES
  active,         \* _active: severity (0: not held), sent, ticks absent
  silent,         \* _node_seen: ticks since a node was last observed
  offline,        \* _node_offline
  intermittent,   \* _intermittent
  cfg,            \* config: any channel, notify_min_severity, the two switches
  recent,         \* _sent_times, as ages
  waiting,        \* messages in _queue
  mail, lost,     \* messages the last step queued, and those it had to drop
  said,           \* rank last asked to be told of a finding; 0 when over
  told,           \* the findings whose message really was queued
  unlisted        \* ticks since a list last had a finding (up to Grace)

heldVars == <<active, silent, offline, intermittent>>
postVars == <<recent, waiting, mail, lost, said, told>>
vars == <<heldVars, cfg, postVars, unlisted>>

Unheld == [severity |-> 0, sent |-> FALSE, absent |-> Never]
Entry == [severity : 0..2, sent : BOOLEAN, absent : Never..Grace]

Note(event, x) == [event |-> event, about |-> x]
OfNode(n) == {p \in Findings : p[1] = n}

-----------------------------------------------------------------------------
(* Faulty variants: the bugs the properties are there to notice.            *)
RankChanged(p, found) == active[p].severity > 0 /\ found[p[2]] # active[p].severity
PresentAsSent(p, found) ==
  [severity |-> IF found[p[2]] > active[p].severity THEN found[p[2]] ELSE active[p].severity,
   sent |-> TRUE, absent |-> Never]
PresentStillAbsent(p, found) ==
  [severity |-> IF found[p[2]] > active[p].severity THEN found[p[2]] ELSE active[p].severity,
   sent |-> active[p].sent \/ (cfg.channels /\ found[p[2]] >= cfg.floor), absent |-> active[p].absent]
MissingAnew(e) == IF e.severity > 0 THEN [e EXCEPT !.absent = 0] ELSE e
OfflineEverySweep == {n \in Nodes : silent[n] > OfflineAfter}
OfflineUnlessIntermittent == {n \in Nodes \ intermittent : silent[n] > OfflineAfter /\ n \notin offline}

-----------------------------------------------------------------------------
(* _enqueue for each message of a step.  The limiter counts a message even  *)
(* when the queue is then full.  Which messages lose out depends on their   *)
(* order in the list, so any may.                                           *)
AtMost(x, y) == IF x <= y THEN x ELSE y

Post(msgs) ==
  \E counted \in SUBSET msgs :
    \E kept \in SUBSET counted :
      /\ Cardinality(counted) = AtMost(Cardinality(msgs), Limit - Len(recent))
      /\ Cardinality(kept) = AtMost(Cardinality(counted), QueueMax - waiting)
      /\ recent' = recent \o [i \in 1..Cardinality(counted) |-> 0]
      /\ waiting' = waiting + Cardinality(kept)
      /\ mail' = kept /\ lost' = msgs \ kept
      /\ told' = {p \in Findings : /\ active'[p].severity > 0
                                   /\ \/ p \in told
                                      \/ \E e \in {"finding", "escalated"} : Note(e, p) \in kept}

(* The rank a step asks the operator to be told of p, spoken[p]; 0 for none. *)
Saying(spoken) ==
  said' = [p \in Findings |-> IF active'[p].severity = 0 THEN 0
                              ELSE IF spoken[p] > 0 THEN spoken[p] ELSE said[p]]

Silence == [p \in Findings |-> 0]
Quietly == Post({}) /\ Saying(Silence)

-----------------------------------------------------------------------------
(* observe(node, list): found[k] is the rank the list gives k, 0 when k is  *)
(* not in it or is expected.                                                *)
Rank(p, found) == IF active[p].severity = 0 THEN found[p[2]] ELSE active[p].severity
Escalates(p, found) == found[p[2]] > Rank(p, found)
Tells(p, found) == /\ found[p[2]] > 0 /\ cfg.channels /\ found[p[2]] >= cfg.floor
                   /\ ~active[p].sent \/ Escalates(p, found)

Present(p, found) ==
  [severity |-> IF Escalates(p, found) THEN found[p[2]] ELSE Rank(p, found),
   sent |-> active[p].sent \/ Tells(p, found), absent |-> Never]
Missing(e) == IF e.severity > 0 /\ e.absent = Never THEN [e EXCEPT !.absent = 0] ELSE e

Observed(n, found) ==
  [p \in Findings |-> IF p[1] # n THEN active[p]
                      ELSE IF found[p[2]] > 0 THEN Present(p, found) ELSE Missing(active[p])]

Back(n) == n \in offline /\ cfg.offline /\ cfg.channels /\ n \notin intermittent

ObserveNotes(n, found) ==
  {Note("finding", p) : p \in {q \in OfNode(n) : Tells(q, found) /\ ~active[q].sent}}
    \cup {Note("escalated", p) : p \in {q \in OfNode(n) : Tells(q, found) /\ active[q].sent}}
    \cup (IF Back(n) THEN {Note("online", n)} ELSE {})

Spoken(n, found) ==
  [p \in Findings |-> IF p[1] = n /\ Tells(p, found) THEN found[p[2]] ELSE 0]

Observe(n, found) ==
  /\ active' = Observed(n, found)
  /\ silent' = [silent EXCEPT ![n] = 0]
  /\ offline' = offline \ {n}
  /\ Post(ObserveNotes(n, found))
  /\ Saying(Spoken(n, found))
  /\ unlisted' = [p \in Findings |-> IF p[1] = n /\ found[p[2]] > 0 THEN 0 ELSE unlisted[p]]
  /\ UNCHANGED <<intermittent, cfg>>

-----------------------------------------------------------------------------
(* sweep(): forget what a silent node held, resolve what stayed absent for  *)
(* the grace period, and mark nodes unseen for too long.                    *)
Vanished(p) == active[p].severity > 0 /\ silent[p[1]] > SilentDrop
Cleared(p) == active[p].severity > 0 /\ ~Vanished(p) /\ active[p].absent >= Grace
Swept == [p \in Findings |-> IF Vanished(p) \/ Cleared(p) THEN Unheld ELSE active[p]]
NewlyOffline == {n \in Nodes : silent[n] > OfflineAfter /\ n \notin offline}

SweepNotes ==
  IF ~cfg.channels THEN {}
  ELSE (IF cfg.resolved THEN {Note("resolved", p) : p \in {q \in Findings : Cleared(q) /\ active[q].sent}}
                        ELSE {})
       \cup (IF cfg.offline THEN {Note("offline", n) : n \in NewlyOffline \ intermittent} ELSE {})

Sweep ==
  /\ active' = Swept
  /\ offline' = offline \cup NewlyOffline
  /\ Post(SweepNotes) /\ Saying(Silence)
  /\ UNCHANGED <<silent, intermittent, cfg, unlisted>>

-----------------------------------------------------------------------------
(* drop(node, key), forget_node(node), set_intermittent(node, flag),        *)
(* announce(): nothing of the last is tracked, it only takes its place in   *)
(* the limiter.                                                             *)
DropKey(p) ==
  /\ active' = [active EXCEPT ![p] = Unheld]
  /\ Quietly
  /\ UNCHANGED <<silent, offline, intermittent, cfg, unlisted>>

ForgetNode(n) ==
  /\ active' = [p \in Findings |-> IF p[1] = n THEN Unheld ELSE active[p]]
  /\ silent' = [silent EXCEPT ![n] = Never]
  /\ offline' = offline \ {n} /\ intermittent' = intermittent \ {n}
  /\ Quietly
  /\ UNCHANGED <<cfg, unlisted>>

SetIntermittent(n, flag) ==
  /\ intermittent' = IF flag THEN intermittent \cup {n} ELSE intermittent \ {n}
  /\ UNCHANGED <<active, silent, offline, cfg, unlisted>>
  /\ Quietly

Announce(n, rank) ==
  /\ UNCHANGED <<heldVars, cfg, unlisted>>
  /\ Post(IF cfg.channels /\ rank >= cfg.floor THEN {Note("event", n)} ELSE {})
  /\ Saying(Silence)

(* The settings are read afresh by every call.                              *)
Configure == /\ cfg' \in Configs \ {cfg}
             /\ UNCHANGED <<heldVars, unlisted>> /\ Quietly

(* _run: the worker takes the next message; a failed delivery is counted    *)
(* and not tried again, so for what is held both outcomes are the same.     *)
Deliver == /\ waiting > 0 /\ waiting' = waiting - 1
           /\ mail' = {} /\ lost' = {}
           /\ UNCHANGED <<heldVars, cfg, recent, said, told, unlisted>>

(* Time passes for every stamp at once.                                     *)
Older(age, cap) == IF age = Never \/ age = cap THEN age ELSE age + 1

(* The limiter's window.  Its stamps are in order, so those it drops are the *)
(* first ones.                                                              *)
Aged(s) ==
  LET fresh == {i \in DOMAIN s : s[i] + 1 < Window}
      first == CHOOSE i \in fresh : \A j \in fresh : i <= j
  IN  IF fresh = {} THEN <<>> ELSE SubSeq([i \in DOMAIN s |-> s[i] + 1], first, Len(s))

Tick ==
  /\ active' = [p \in Findings |-> [active[p] EXCEPT !.absent = Older(@, Grace)]]
  /\ silent' = [n \in Nodes |-> Older(silent[n], SilentDrop + 1)]
  /\ unlisted' = [p \in Findings |-> Older(unlisted[p], Grace)]
  /\ recent' = Aged(recent) /\ mail' = {} /\ lost' = {}
  /\ UNCHANGED <<offline, intermittent, cfg, waiting, said, told>>

(* A new host process: only the operator's marks are read back.             *)
HostRestart ==
  /\ active' = [p \in Findings |-> Unheld] /\ silent' = [n \in Nodes |-> Never]
  /\ offline' = {} /\ recent' = <<>> /\ waiting' = 0
  /\ mail' = {} /\ lost' = {} /\ told' = {} /\ said' = [p \in Findings |-> 0]
  /\ UNCHANGED <<intermittent, cfg, unlisted>>

Init ==
  /\ active = [p \in Findings |-> Unheld] /\ silent = [n \in Nodes |-> Never]
  /\ offline = {} /\ intermittent \in SUBSET Nodes /\ cfg \in Configs
  /\ recent = <<>> /\ waiting = 0 /\ mail = {} /\ lost = {}
  /\ said = [p \in Findings |-> 0] /\ told = {}
  /\ unlisted = [p \in Findings |-> 0]

Lists == [Keys -> 0..2]

Next ==
  \/ \E n \in Nodes, found \in Lists : Observe(n, found)
  \/ Sweep
  \/ \E p \in Findings : DropKey(p)
  \/ \E n \in Nodes : ForgetNode(n)
  \/ \E n \in Nodes, flag \in BOOLEAN : SetIntermittent(n, flag)
  \/ \E n \in Nodes, rank \in 0..2 : Announce(n, rank)
  \/ Configure \/ Deliver \/ Tick \/ HostRestart

(* The sweep runs every 15 s on the event loop, the worker never stops, and *)
(* time passes.                                                             *)
Fairness == WF_vars(Sweep) /\ WF_vars(Tick) /\ WF_vars(Deliver)

Spec == Init /\ [][Next]_vars
FairSpec == Spec /\ Fairness

-----------------------------------------------------------------------------
(* Every variable holds what the code can put there; the limiter's list and *)
(* the queue never outgrow their limits.                                    *)
Messages == [event : {"finding", "escalated", "resolved"}, about : Findings]
              \cup [event : {"online", "offline", "event"}, about : Nodes]

TypeOK ==
  /\ active \in [Findings -> Entry]
  /\ silent \in [Nodes -> Never..SilentDrop + 1]
  /\ offline \subseteq Nodes /\ intermittent \subseteq Nodes /\ cfg \in Configs
  /\ recent \in Seq(0..Window - 1) /\ Len(recent) <= Limit
  /\ waiting \in 0..QueueMax
  /\ mail \subseteq Messages /\ lost \subseteq Messages
  /\ said \in [Findings -> 0..2] /\ told \subseteq Findings
  /\ unlisted \in [Findings -> 0..Grace]

(* The notifier's own record agrees with what it has said: a finding it has *)
(* not marked sent was never spoken of, one marked sent was, at no more     *)
(* than the worst severity seen, and nothing is recorded of what it does    *)
(* not hold (observe, sweep, drop, forget_node).                            *)
RecordAgrees ==
  \A p \in Findings :
    /\ active[p].severity = 0 => active[p] = Unheld
    /\ active[p].sent <=> said[p] > 0
    /\ said[p] <= active[p].severity

(* Only a node the notifier has seen is ever thought offline, and one       *)
(* thought offline has been unseen for the whole of OFFLINE_AFTER_S since   *)
(* (observe clears the mark as it stamps the node, forget_node drops both). *)
OfflineIsUnseen == \A n \in offline : silent[n] > OfflineAfter

(* One message while a finding holds, one more when it gets worse, one when *)
(* it resolves, in that order and never twice: the notifier implements      *)
(* AlertPromise, whatever is observed, dropped, forgotten or reconfigured.  *)
Promise == INSTANCE AlertPromise WITH news <- mail \cup lost
KeepsPromise == Promise!Spec

(* A finding counted as absent was in no list for at least as long: being   *)
(* listed again ends its absence (observe).                                 *)
AbsenceIsReal == \A p \in Findings : active[p].absent <= unlisted[p]

(* What the notifier keeps is right: its record of findings, its marks of   *)
(* nodes and its absences, through every drop, setting and forgotten node.  *)
RecordsHold == TypeOK /\ RecordAgrees /\ OfflineIsUnseen /\ AbsenceIsReal

(* So sweep() resolves only what every list of the grace period left out.   *)
ResolvedAfterGrace ==
  [][\A p \in Findings : Note("resolved", p) \in mail' \cup lost' => unlisted[p] >= Grace]_vars

(* A message about a node going quiet is never repeated within one silence, *)
(* and the node's return is only spoken of when it was thought offline.     *)
OfflineOnce ==
  [][\A n \in Nodes :
       /\ Note("offline", n) \in mail' \cup lost' => n \notin offline /\ n \in offline' /\ n \notin intermittent
       /\ Note("online", n) \in mail' \cup lost' => n \in offline /\ n \notin offline' /\ n \notin intermittent]_vars

(* A finding the list left out does not stay held: it is listed again,      *)
(* resolved, or forgotten, however often the node reports meanwhile.        *)
AbsenceEnds == \A p \in Findings : active[p].absent # Never ~> active[p].absent = Never

(* A node that is never heard from again is marked offline by some sweep.   *)
SilenceIsNoticed == \A n \in Nodes : silent[n] > OfflineAfter ~> n \in offline \/ silent[n] <= OfflineAfter

(* "One when it resolves" is about a finding there was a message of: none   *)
(* is sent of one whose own message never got into the queue.               *)
ResolvedWasTold == [][\A p \in Findings : Note("resolved", p) \in mail' => p \in told]_vars
=============================================================================
