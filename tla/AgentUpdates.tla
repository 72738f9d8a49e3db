---------------------------- MODULE AgentUpdates ----------------------------
(***************************************************************************)
(* How the host moves agents between versions (culprit/main.py, nodes.py):  *)
(* the daily sweep, Update all, a node's own Update, a change to a chosen   *)
(* version, and the pin that one leaves.                                    *)
(*                                                                         *)
(* A version is a number, 0 when it is not known.  What a request read      *)
(* before it began to wait stays in the request.  Whether a node is online, *)
(* enabled and capable only decides whether a request is made at all.       *)
(* The ids of commands begin again with the process: after a restart any    *)
(* command of an earlier life, an update or not, may have its result taken  *)
(* for the answer to a request.                                             *)
(***************************************************************************)
EXTENDS Integers, FiniteSets

CONSTANTS
  Nodes,
  Newest,       \* versions are 1..Newest
  MinSelf,      \* MIN_SELF_UPDATE_VERSION: older agents cannot update
  RefsSince,    \* AGENT_REFS_SINCE: older agents take no ref
  Requests      \* requests of operators that may be open at once

ASSUME VersionAssumption ==
  /\ Newest \in Nat \ {0} /\ MinSelf \in 1..Newest /\ RefsSince \in 1..Newest

Versions == 1..Newest
Kinds == {"sweep", "all", "button", "version"}
Planned == {"sweep", "all"}     \* not an explicit action on this node
Tip == 0                        \* the target of an update without a ref

VARIABLES
  runs,       \* the version an agent really runs
  tip,        \* the version the agents' repository has
  seen,       \* _Node.agent_version, 0 before a report
  remote,     \* _remote_version
  pin,        \* agents.pinned_version, 0 for none
  claimed,    \* agents.last_auto_update is today
  hour,       \* this is the hour of auto_update_hour
  auto,       \* auto_update_enabled
  req,        \* the open requests and the commands that outlive them
  strays,     \* results of commands from before a restart may still come
  fired,      \* nodes a scheduled command began for today
  answered,   \* who answered a request for a chosen version
  basis,      \* who answered the request that stored the pin of a node
  early,      \* what was under way for a node when its pin was stored
  settled     \* it ran the pinned version then, and nothing undid that since

stored == <<pin, claimed>>
pinned == <<basis, early, settled>>
history == <<fired, answered, pinned>>
vars == <<runs, tip, seen, remote, stored, hour, auto, req, strays, history>>

\* The scheduled update has a place of its own, so that operators' requests
\* cannot keep it out of this bounded table.
Daily == "daily"
Places == Requests \cup {Daily}

None == [stage |-> "none"]
\* The request is loading the list of versions, waiting, has a result that
\* it will find, or is over; its command is queued, with the agent, or neither.
Waits == {"loading", "waiting", "done", "refused", "over"}
Commands == {"none", "queued", "handed"}
\* Nobody, its own agent, or a command of an earlier life of the host.
Answerers == {"nobody", "agent", "stray"}
Request == [kind : Kinds, node : Nodes, target : 0..Newest, pin : 0..Newest,
            latest : 0..Newest, wait : Waits, cmd : Commands]

-----------------------------------------------------------------------------
(* Faulty variants: the bugs the properties are there to notice.            *)
AnyTime(n) == TRUE
UnpinnedOrOlder(n) == pin[n] < remote
AnyResult(r) == {"done", "refused"}
KeptForEver == claimed

-----------------------------------------------------------------------------
(* What the host knows of a node when it decides (status_list).             *)
SelfUpdateBroken(n) == seen[n] < MinSelf
UpdateAvailable(n) == remote > 0 /\ seen[n] > 0 /\ remote > seen[n]
NotPinned(n) == pin[n] = 0

\* Only a change to a version looks at the published one afterwards, and only
\* the others at the pin.
Open(c, kind, n, target) ==
  /\ req[c] = None
  /\ req' = [req EXCEPT ![c] =
       [kind |-> kind, node |-> n, target |-> target,
        wait |-> IF kind = "version" THEN "loading" ELSE "waiting",
        cmd |-> IF kind = "version" THEN "none" ELSE "queued",
        pin |-> IF kind = "version" THEN 0 ELSE pin[n],
        latest |-> IF kind = "version" THEN remote ELSE 0]]
  /\ answered' = [answered EXCEPT ![c] = "nobody"]
  /\ settled' = [settled EXCEPT ![n] = @ /\ kind \in Planned]
  /\ early' = [m \in Nodes |-> IF settled'[m] THEN early[m] \ {c} ELSE {}]

\* mark_auto_updated: the row changes unless the slot of today is taken.
SlotFree(n) == ~claimed[n]

\* One node of _maybe_auto_update.
ScheduledUpdate(n) ==
  /\ auto /\ hour
  /\ UpdateAvailable(n) /\ NotPinned(n) /\ ~SelfUpdateBroken(n)
  /\ SlotFree(n)
  /\ claimed' = [claimed EXCEPT ![n] = TRUE]
  /\ Open(Daily, "sweep", n, Tip)
  /\ fired' = fired \cup {n}
  /\ UNCHANGED <<runs, tip, seen, remote, pin, hour, auto, strays, basis>>

\* One node of api_nodes_update_all (update_targets).
UpdateAll(c, n) ==
  /\ UpdateAvailable(n) /\ NotPinned(n) /\ ~SelfUpdateBroken(n)
  /\ Open(c, "all", n, Tip)
  /\ UNCHANGED <<runs, tip, seen, remote, stored, hour, auto, strays, fired, basis>>

\* api_node_update: only the capability, which a report brings, is asked for.
UpdateNode(c, n) ==
  /\ seen[n] > 0
  /\ Open(c, "button", n, Tip)
  /\ UNCHANGED <<runs, tip, seen, remote, stored, hour, auto, strays, fired, basis>>

\* api_node_version reads the node, then the versions (in a thread); one the
\* node is on, or that the mirror has not got, is refused.
ChooseVersion(c, n, v) ==
  /\ seen[n] >= RefsSince /\ seen[n] # v
  /\ Open(c, "version", n, v)
  /\ UNCHANGED <<runs, tip, seen, remote, stored, hour, auto, strays, fired, basis>>

VersionsLoaded(c) ==
  /\ req[c] # None /\ req[c].wait = "loading"
  /\ req' = [req EXCEPT ![c] = IF @.target <= tip THEN [@ EXCEPT !.wait = "waiting", !.cmd = "queued"]
                               ELSE None]
  /\ UNCHANGED <<runs, tip, seen, remote, stored, hour, auto, strays, history>>

\* No pin, and so nothing to remember of one.
Loosen(n) ==
  /\ basis' = [basis EXCEPT ![n] = "nobody"]
  /\ early' = [early EXCEPT ![n] = {}]
  /\ settled' = [settled EXCEPT ![n] = FALSE]

Unpin(n) ==
  /\ pin' = [pin EXCEPT ![n] = 0]
  /\ Loosen(n)
  /\ UNCHANGED <<runs, tip, seen, remote, claimed, hour, auto, req, strays, fired, answered>>

-----------------------------------------------------------------------------
(* The agent: it is handed a command, runs it, and may fail to.  An agent   *)
(* too old to update itself always fails.                                   *)
Deliver(c) ==
  /\ req[c] # None /\ req[c].cmd = "queued"
  /\ req' = [req EXCEPT ![c].cmd = "handed"]
  /\ UNCHANGED <<runs, tip, seen, remote, stored, hour, auto, strays, history>>

\* The result finds the request unless that has an answer, or is over.
Answered(r, result) ==
  [r EXCEPT !.cmd = "none", !.wait = IF r.wait = "waiting" THEN result ELSE r.wait]

Ends(c, result) ==
  req' = [req EXCEPT ![c] = IF @.wait = "over" THEN None ELSE Answered(@, result)]

WithAgent(c) == req[c] # None /\ req[c].cmd = "handed"

\* An agent that takes no ref ignores it and goes to the tip.
Goal(r) == IF r.target = Tip \/ runs[r.node] < RefsSince THEN tip ELSE r.target

\* Only a change to a version rests on who answered it, and while it waits.
Answerer(r, who) ==
  IF r.kind = "version" /\ r.wait \in {"waiting", "done"} THEN who ELSE "nobody"

RunUpdate(c) ==
  /\ WithAgent(c) /\ runs[req[c].node] >= MinSelf
  /\ runs' = [runs EXCEPT ![req[c].node] = Goal(req[c])]
  /\ answered' = [answered EXCEPT ![c] = Answerer(req[c], "agent")]
  /\ settled' = [n \in Nodes |-> settled[n] /\ c \notin early[n]]
  /\ early' = [n \in Nodes |-> IF settled'[n] THEN early[n] ELSE {}]
  /\ Ends(c, "done")
  /\ UNCHANGED <<tip, seen, remote, stored, hour, auto, strays, fired, basis>>

FailUpdate(c) ==
  /\ WithAgent(c)
  /\ Ends(c, "refused")
  /\ UNCHANGED <<runs, tip, seen, remote, stored, hour, auto, strays, history>>

\* A result of an earlier life of the host with the id of this request
\* (resolve); the command itself stays where it is.
StrayResult(c) ==
  /\ strays /\ req[c] # None /\ req[c].wait = "waiting"
  /\ \E result \in {"done", "refused"} : req' = [req EXCEPT ![c].wait = result]
  /\ answered' = [answered EXCEPT ![c] = Answerer(req[c], "stray")]
  /\ UNCHANGED <<runs, tip, seen, remote, stored, hour, auto, strays, fired, pinned>>

Report(n) ==
  /\ seen' = [seen EXCEPT ![n] = runs[n]]
  /\ UNCHANGED <<runs, tip, remote, stored, hour, auto, req, strays, history>>

-----------------------------------------------------------------------------
(* The end of a request: a result, or 504.  What it then writes rests on    *)
(* what it read at its start.                                               *)
Accepted(r) == {"done"}

Pins(r) == r.kind = "version" /\ r.wait \in Accepted(r) /\ r.target # r.latest

NewPin(r) ==
  IF r.wait \notin Accepted(r) THEN pin[r.node]
  ELSE IF r.kind = "version" THEN IF r.target # r.latest THEN r.target ELSE 0
  ELSE IF r.kind = "button" /\ r.pin > 0 THEN 0
  ELSE pin[r.node]

\* A request that is over leaves its command, and nothing it had read.
Left(r) == [r EXCEPT !.wait = "over", !.pin = 0, !.latest = 0]

UnderWay(n, open) == {d \in Places : open[d] # None /\ open[d].node = n}

Answer(c) ==
  /\ req[c] # None /\ req[c].wait \in {"done", "refused"}
  /\ pin' = [pin EXCEPT ![req[c].node] = NewPin(req[c])]
  /\ req' = [req EXCEPT ![c] = IF @.cmd = "none" THEN None ELSE Left(@)]
  /\ answered' = [answered EXCEPT ![c] = "nobody"]
  /\ LET n == req[c].node IN
     IF Pins(req[c])
     THEN /\ basis' = [basis EXCEPT ![n] = answered[c]]
          /\ settled' = [settled EXCEPT ![n] = runs[n] = pin'[n]]
          /\ early' = [early EXCEPT ![n] = IF settled'[n] THEN UnderWay(n, req') ELSE {}]
     ELSE IF pin'[n] = 0 THEN Loosen(n) ELSE UNCHANGED pinned
  /\ UNCHANGED <<runs, tip, seen, remote, claimed, hour, auto, strays, fired>>

\* A command the agent has not got yet is taken back, another is not.
GivenUp(r) == IF r.cmd = "handed" THEN Left(r) ELSE None

TimeOut(c) ==
  /\ req[c] # None /\ req[c].wait \in {"waiting", "done", "refused"}
  /\ req' = [req EXCEPT ![c] = GivenUp(@)]
  /\ answered' = [answered EXCEPT ![c] = "nobody"]
  /\ UNCHANGED <<runs, tip, seen, remote, stored, hour, auto, strays, fired, pinned>>

-----------------------------------------------------------------------------
(* Around them: what is published, what the host learns of it, the clock,   *)
(* the settings, and a new host process, which has the database only.       *)
Publish ==
  /\ tip < Newest /\ tip' = tip + 1
  /\ UNCHANGED <<runs, seen, remote, stored, hour, auto, req, strays, history>>

RefreshRemoteVersion ==
  /\ remote' = tip
  /\ UNCHANGED <<runs, tip, seen, stored, hour, auto, req, strays, history>>

\* A new day ends the claims of the old one.
Today == [n \in Nodes |-> FALSE]

Clock ==
  /\ hour' = ~hour
  /\ IF hour THEN UNCHANGED <<claimed, fired>>
     ELSE claimed' = Today /\ fired' = {}
  /\ UNCHANGED <<runs, tip, seen, remote, pin, auto, req, strays, answered, pinned>>

Configure ==
  /\ auto' = ~auto
  /\ UNCHANGED <<runs, tip, seen, remote, stored, hour, req, strays, history>>

HostRestart ==
  /\ seen' = [n \in Nodes |-> 0] /\ remote' = 0
  /\ req' = [c \in Places |-> IF req[c] = None THEN None ELSE GivenUp(req[c])]
  /\ strays' = TRUE
  /\ answered' = [c \in Places |-> "nobody"]
  /\ UNCHANGED <<runs, tip, stored, hour, auto, fired, pinned>>

Init ==
  /\ runs \in [Nodes -> Versions] /\ tip \in {Newest - 1, Newest} \cap Versions
  /\ \A n \in Nodes : runs[n] <= tip
  /\ seen = [n \in Nodes |-> 0] /\ remote = 0
  /\ pin = [n \in Nodes |-> 0] /\ claimed = [n \in Nodes |-> FALSE]
  /\ hour = FALSE /\ auto \in BOOLEAN
  /\ req = [c \in Places |-> None]
  /\ strays = FALSE
  /\ fired = {} /\ answered = [c \in Places |-> "nobody"] /\ basis = [n \in Nodes |-> "nobody"]
  /\ early = [n \in Nodes |-> {}] /\ settled = [n \in Nodes |-> FALSE]

Sweep == \E n \in Nodes : ScheduledUpdate(n)

Next ==
  \/ Sweep
  \/ \E c \in Requests, n \in Nodes : UpdateAll(c, n) \/ UpdateNode(c, n)
  \/ \E c \in Requests, n \in Nodes, v \in Versions : ChooseVersion(c, n, v)
  \/ \E n \in Nodes : Unpin(n) \/ Report(n)
  \/ \E c \in Places : \/ VersionsLoaded(c) \/ Deliver(c) \/ RunUpdate(c) \/ FailUpdate(c)
                         \/ StrayResult(c) \/ Answer(c) \/ TimeOut(c)
  \/ Publish \/ RefreshRemoteVersion \/ Clock \/ Configure \/ HostRestart

Spec == Init /\ [][Next]_vars

(* The clock and the sweep go on, a request ends after UPDATE_TIMEOUT_S,    *)
(* agents report and are handed commands, and do not fail for ever.         *)
RunPlanned == \E c \in Places : req[c] # None /\ req[c].kind \in Planned /\ RunUpdate(c)
DeliverPlanned == \E c \in Places : req[c] # None /\ req[c].kind \in Planned /\ Deliver(c)
Fairness ==
  /\ WF_hour(hour' = ~hour)
  /\ \A n \in Nodes : WF_vars(Report(n))
  /\ WF_vars(Answer(Daily) \/ TimeOut(Daily))
  /\ SF_vars(Sweep) /\ SF_vars(DeliverPlanned) /\ SF_vars(RunPlanned)
FairSpec == Spec /\ Fairness

-----------------------------------------------------------------------------
(* Every variable holds what the code can put there; no agent runs, or is   *)
(* pinned to, a version that was never published.                           *)
TypeOK ==
  /\ tip \in Versions /\ remote \in 0..tip
  /\ runs \in [Nodes -> 1..tip] /\ seen \in [Nodes -> 0..tip] /\ pin \in [Nodes -> 0..tip]
  /\ claimed \in [Nodes -> BOOLEAN] /\ hour \in BOOLEAN /\ auto \in BOOLEAN
  /\ req \in [Places -> Request \cup {None}]
  /\ strays \in BOOLEAN /\ fired \subseteq Nodes
  /\ answered \in [Places -> Answerers] /\ basis \in [Nodes -> Answerers]
  /\ early \in [Nodes -> SUBSET Places] /\ settled \in [Nodes -> BOOLEAN]

(* A node is sent at most one scheduled update a day, whatever became of it *)
(* and however often the host restarts (mark_auto_updated).                 *)
OnceADay ==
  [][\A c \in Places :
       /\ req[c] = None /\ req'[c] # None /\ req'[c].kind = "sweep"
       => req'[c].node \notin fired]_vars

(* A pin stands for a command that was carried out: one that failed, or    *)
(* that nobody heard of in time, pins nothing (api_node_version), unless a  *)
(* command of an earlier life of the host answered in its place.            *)
PinWasReached == \A n \in Nodes : pin[n] > 0 => basis[n] # "nobody"

(* The same without the exception, which ids that repeat refute.            *)
PinWasCarriedOut == \A n \in Nodes : pin[n] > 0 => basis[n] = "agent"

(* "An operator put it there; only an explicit action moves it" (main.py,   *)
(* _maybe_auto_update).  An agent that runs the version it is pinned to      *)
(* when the pin is stored goes on running it, whatever days, publications   *)
(* and restarts pass, until somebody asks for another version or an update  *)
(* of this node, or until a command under way when the pin was stored is    *)
(* carried out: the only planned update that moves a pinned agent.          *)
PinHolds == \A n \in Nodes : pin[n] > 0 /\ settled[n] => runs[n] = pin[n]

(* The comment's own words: no planned update moves a pinned agent.         *)
PlanLeavesPinned ==
  [][\A c \in Places :
       /\ req[c] # None /\ req[c].kind \in Planned /\ pin[req[c].node] > 0 /\ req'[c] # req[c]
       => runs'[req[c].node] = runs[req[c].node]]_vars

(* An agent that can update itself, that nothing pins and whose reports the *)
(* host has, runs what is published in the end.                             *)
CatchesUp == \A n \in Nodes :
  <>[](auto /\ pin[n] = 0 /\ seen[n] >= MinSelf /\ remote = tip) => <>(runs[n] = tip)
=============================================================================
