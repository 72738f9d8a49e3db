---------------------------- MODULE CommandBroker ----------------------------
(***************************************************************************)
(* The downlink to a push-only agent: CommandBroker (nodes.py) together    *)
(* with the two handlers that use it, _agent_command (a dashboard request  *)
(* waiting for an answer) and api_agent_report (an agent's report, which   *)
(* brings answers and takes commands away).  Both run on one event loop,   *)
(* so whatever happens between two awaits is one step here; the awaits are *)
(* wait_for in _agent_command and run_in_executor in api_agent_report.     *)
(*                                                                         *)
(* The agent itself is external: it runs what it is handed and reports.    *)
(* A response may be lost (its commands with it), an agent may report the  *)
(* same result again, and a report may name a command of another node.     *)
(* The k-th request ever made is request k; its payload is k itself.       *)
(***************************************************************************)
EXTENDS Naturals, Sequences, FiniteSets

CONSTANTS
  Node,         \* enrolled agents
  MaxReq,       \* bound: how many requests are ever made
  MaxPending,   \* _MAX_PENDING
  MaxReports,   \* bound: reports of one node in flight at once
  MaxRestarts   \* bound: restarts of the host process

ASSUME BoundsAssumption ==
  /\ MaxReq \in Nat /\ MaxPending \in Nat \ {0}
  /\ MaxReports \in Nat /\ MaxRestarts \in Nat

VARIABLES
  enabled,      \* nodes whose token is accepted (not revoked)
  seq,          \* CommandBroker._seq
  asked,        \* how many requests have been made, over all host lives
  id,           \* [Req -> the command id]: node and seq at the time
  pending,      \* CommandBroker._pending: queue of requests per node
  futures,      \* requests whose future is in CommandBroker._futures
  phase,        \* [Req -> where the handler of the request stands]
  result,       \* [Req -> what its future was given]
  reports,      \* [Node -> sound reports being ingested, not yet answered]
  badReports,   \* [Node -> reports being ingested that ingest will refuse]
  inbox,        \* [Node -> commands the agent has and did not run]
  outbox,       \* [Node -> results the agent may report]
  runs,         \* [Req -> how often an agent ran the command]
  restarts

hostVars  == <<seq, pending, futures, reports, badReports>>
reqVars   == <<asked, id, phase, result>>
agentVars == <<inbox, outbox, runs>>
vars == <<enabled, hostVars, reqVars, agentVars, restarts>>

Req == 1..MaxReq
NoId == [node |-> "none", n |-> 0]
NoResult == [kind |-> "none"]
Dropped == [kind |-> "dropped"]                 \* the 503 of a full queue
Ran(n, r) == [kind |-> "ran", by |-> n, of |-> r]
Id == [node : Node, n : 1..MaxReq]
Results == {NoResult, Dropped} \cup [kind : {"ran"}, by : Node, of : 0..MaxReq]

Phases == {"unasked", "waiting", "set", "expired",       \* in _agent_command
           "answered", "unavailable", "timeout",         \* 200/502, 503, 504
           "crashed"}                                    \* the host died
Live == {"waiting", "set", "expired"}
Ended == {"answered", "unavailable", "timeout", "crashed"}

Init ==
  /\ enabled = Node /\ seq = 0 /\ asked = 0 /\ restarts = 0
  /\ id = [r \in Req |-> NoId]
  /\ pending = [n \in Node |-> <<>>] /\ futures = {}
  /\ phase = [r \in Req |-> "unasked"] /\ result = [r \in Req |-> NoResult]
  /\ reports = [n \in Node |-> 0] /\ badReports = [n \in Node |-> 0]
  /\ inbox = [n \in Node |-> {}] /\ outbox = [n \in Node |-> {}]
  /\ runs = [r \in Req |-> 0]

-----------------------------------------------------------------------------
(* Faulty variants: the bugs the properties below are there to notice.     *)
(* Each stands in for the operator named after the dash in a mutant run.   *)

(* - Overflow: the oldest request is told 503 but its command stays queued. *)
KeepingOverflow(n, r) ==
  LET old == IF Len(pending[n]) < MaxPending THEN r ELSE Head(pending[n]) IN
  /\ pending' = [pending EXCEPT ![n] = Append(@, r)]
  /\ futures' = (futures \ {old}) \cup {r}
  /\ phase' = [phase EXCEPT ![r] = "waiting", ![old] = IF old = r THEN "waiting" ELSE "set"]
  /\ result' = [result EXCEPT ![old] = IF old = r THEN @ ELSE Dropped]

(* - Known: results are looked up without the node prefix check.           *)
KnownOfAnyNode(n, res) == {r \in futures : \E x \in res : x.id = id[r]}

(* - Cancel: popping a future that resolve() already popped raises.        *)
CancelStrict(r) ==
  /\ phase[r] = "expired" /\ r \in futures
  /\ pending' = [pending EXCEPT ![id[r].node] = SelectSeq(@, LAMBDA q : q # r)]
  /\ futures' = futures \ {r}
  /\ phase' = [phase EXCEPT ![r] = "timeout"]
  /\ UNCHANGED <<enabled, seq, badReports, reports, asked, id, result, agentVars, restarts>>

(* - Take: the queue is read but not popped.                               *)
TakeCopy(n) ==
  /\ reports[n] > 0
  /\ reports' = [reports EXCEPT ![n] = @ - 1]
  /\ inbox' = [inbox EXCEPT ![n] = @ \cup {pending[n][i] : i \in DOMAIN pending[n]}]
  /\ UNCHANGED <<enabled, seq, pending, futures, badReports, reqVars, outbox, runs,
                 restarts>>

-----------------------------------------------------------------------------
(* _agent_command up to its await, with CommandBroker.submit.  A full      *)
(* queue drops its oldest command and fails that command's future.         *)
Overflow(n, r) ==
  IF Len(pending[n]) < MaxPending
  THEN /\ pending' = [pending EXCEPT ![n] = Append(@, r)]
       /\ futures' = futures \cup {r}
       /\ phase' = [phase EXCEPT ![r] = "waiting"]
       /\ UNCHANGED result
  ELSE LET old == Head(pending[n])
           hit == old \in futures /\ phase[old] = "waiting" IN
       /\ pending' = [pending EXCEPT ![n] = Append(Tail(@), r)]
       /\ futures' = (futures \ {old}) \cup {r}
       /\ phase' = [phase EXCEPT ![r] = "waiting",
                                 ![old] = IF hit THEN "set" ELSE @]
       /\ result' = [result EXCEPT ![old] = IF hit THEN Dropped ELSE @]

Submit(n) ==
  /\ n \in enabled                              \* 404 / 409 otherwise
  /\ asked < MaxReq
  /\ asked' = asked + 1 /\ seq' = seq + 1
  /\ id' = [id EXCEPT ![asked + 1] = [node |-> n, n |-> seq + 1]]
  /\ Overflow(n, asked + 1)
  /\ UNCHANGED <<enabled, reports, badReports, agentVars, restarts>>

(* The await in _agent_command ends: the task resumes with the result.     *)
Wake(r) ==
  /\ phase[r] = "set"
  /\ phase' = [phase EXCEPT ![r] = IF result[r] = Dropped THEN "unavailable"
                                   ELSE "answered"]
  /\ UNCHANGED <<enabled, hostVars, asked, id, result, agentVars, restarts>>

(* wait_for's timer fires.  It cancels the task, and with it a future that *)
(* is still pending; the except branch runs when the task is next resumed. *)
(* A result that was set but not yet consumed is discarded with it.        *)
Expire(r) ==
  /\ phase[r] \in {"waiting", "set"}
  /\ phase' = [phase EXCEPT ![r] = "expired"]
  /\ UNCHANGED <<enabled, hostVars, asked, id, result, agentVars, restarts>>

(* A queue without request r.  A request is queued at most once.           *)
Without(q, r) ==
  IF \E i \in DOMAIN q : q[i] = r
  THEN LET k == CHOOSE i \in DOMAIN q : q[i] = r IN
       [i \in 1..(Len(q) - 1) |-> q[IF i < k THEN i ELSE i + 1]]
  ELSE q

(* The except branch: CommandBroker.cancel, then the 504.                  *)
Cancel(r) ==
  /\ phase[r] = "expired"
  /\ futures' = futures \ {r}
  /\ pending' = [n \in Node |-> Without(pending[n], r)]
  /\ phase' = [phase EXCEPT ![r] = "timeout"]
  /\ UNCHANGED <<enabled, seq, reports, badReports, asked, id, result, agentVars,
                 restarts>>

-----------------------------------------------------------------------------
(* CommandBroker.resolve for a report of node n: only ids of n are looked  *)
(* up, only a registered future is popped, only a pending one is set.      *)
Known(n, res) ==
  {r \in futures : id[r].node = n /\ \E x \in res : x.id = id[r]}

Resolve(n, res) ==
  LET hit == {r \in Known(n, res) : phase[r] = "waiting"}
      given(r) == CHOOSE x \in res : x.id = id[r] IN
  /\ futures' = futures \ Known(n, res)
  /\ phase' = [r \in Req |-> IF r \in hit THEN "set" ELSE phase[r]]
  /\ result' = [r \in Req |-> IF r \in hit THEN Ran(n, given(r).of) ELSE result[r]]

(* What a report of n may carry: results its agent holds, and ids of other *)
(* nodes' commands it never ran (of = 0).                                  *)
Foreign(n) == {[id |-> id[r], of |-> 0] : r \in {q \in 1..asked : id[q].node # n}}
OneEach(res) == \A x, y \in res : x.id = y.id => x = y

(* api_agent_report up to its await: the token is checked, results are     *)
(* resolved, the report goes to the executor, whether it is sound or one   *)
(* that sanitise_report refuses.  An agent that gets no reply may send the *)
(* same results again.                                                     *)
Report(n) ==
  /\ n \in enabled /\ reports[n] + badReports[n] < MaxReports
  /\ \E res \in SUBSET (outbox[n] \cup Foreign(n)) :
       /\ OneEach(res)
       /\ Resolve(n, res)
       /\ \E kept \in {{}, res \cap outbox[n]} :
            outbox' = [outbox EXCEPT ![n] = (@ \ res) \cup kept]
  /\ \/ reports' = [reports EXCEPT ![n] = @ + 1] /\ UNCHANGED badReports
     \/ badReports' = [badReports EXCEPT ![n] = @ + 1] /\ UNCHANGED reports
  /\ UNCHANGED <<enabled, seq, pending, asked, id, inbox, runs, restarts>>

(* The report is ingested: the reply takes the whole queue of the node.    *)
(* The reply may be lost on the way.                                       *)
Take(n) ==
  /\ reports[n] > 0
  /\ reports' = [reports EXCEPT ![n] = @ - 1]
  /\ pending' = [pending EXCEPT ![n] = <<>>]
  /\ \E lost \in BOOLEAN :
       inbox' = [inbox EXCEPT ![n] =
                   IF lost THEN @ ELSE @ \cup {pending[n][i] : i \in DOMAIN pending[n]}]
  /\ UNCHANGED <<enabled, seq, futures, badReports, reqVars, outbox, runs, restarts>>

(* ingest raised: the reply is a 400 and carries no commands.              *)
Reject(n) ==
  /\ badReports[n] > 0
  /\ badReports' = [badReports EXCEPT ![n] = @ - 1]
  /\ UNCHANGED <<enabled, seq, pending, futures, reports, reqVars, agentVars,
                 restarts>>

(* The agent (external) runs a command it was handed and keeps the result. *)
AgentRun(n, r) ==
  /\ r \in inbox[n]
  /\ inbox' = [inbox EXCEPT ![n] = @ \ {r}]
  /\ runs' = [runs EXCEPT ![r] = @ + 1]
  /\ outbox' = [outbox EXCEPT ![n] = @ \cup {[id |-> id[r], of |-> r]}]
  /\ UNCHANGED <<enabled, hostVars, reqVars, restarts>>

(* api_agent_revoke, and api_agent_rotate, which re-enables the node.      *)
(* Neither touches the broker.                                             *)
Revoke(n) == /\ n \in enabled /\ enabled' = enabled \ {n}
             /\ UNCHANGED <<hostVars, reqVars, agentVars, restarts>>
Rotate(n) == /\ n \notin enabled /\ enabled' = enabled \cup {n}
             /\ UNCHANGED <<hostVars, reqVars, agentVars, restarts>>

Next ==
  \/ \E n \in Node : Submit(n) \/ Report(n) \/ Take(n) \/ Reject(n)
                     \/ Revoke(n) \/ Rotate(n)
  \/ \E n \in Node, r \in Req : AgentRun(n, r)
  \/ \E r \in Req : Wake(r) \/ Expire(r) \/ Cancel(r)

Spec == Init /\ [][Next]_vars

(* The event loop resumes a task that can run, and every timer fires.      *)
FairSpec == Spec /\ \A r \in Req : WF_vars(Wake(r)) /\ WF_vars(Expire(r))
                                   /\ WF_vars(Cancel(r))

-----------------------------------------------------------------------------
(* The host process dies and starts again: CommandBroker.__init__ runs,    *)
(* so the queue, the futures and the sequence start from nothing, while    *)
(* agents keep what they were handed and what they have to report.         *)
HostRestart ==
  /\ restarts < MaxRestarts
  /\ restarts' = restarts + 1
  /\ seq' = 0 /\ futures' = {}
  /\ pending' = [n \in Node |-> <<>>]
  /\ reports' = [n \in Node |-> 0] /\ badReports' = [n \in Node |-> 0]
  /\ phase' = [r \in Req |-> IF phase[r] \in Live THEN "crashed" ELSE phase[r]]
  /\ UNCHANGED <<enabled, asked, id, result, agentVars>>

RestartSpec == Init /\ [][Next \/ HostRestart]_vars

-----------------------------------------------------------------------------
TypeOK ==
  /\ enabled \subseteq Node
  /\ asked \in 0..MaxReq /\ seq \in 0..asked /\ restarts \in 0..MaxRestarts
  /\ id \in [Req -> Id \cup {NoId}]
  /\ pending \in [Node -> Seq(Req)]
  /\ futures \subseteq Req
  /\ phase \in [Req -> Phases] /\ result \in [Req -> Results]
  /\ reports \in [Node -> 0..MaxReports] /\ badReports \in [Node -> 0..MaxReports]
  /\ inbox \in [Node -> SUBSET Req]
  /\ outbox \in [Node -> SUBSET [id : Id, of : Req]]
  /\ runs \in [Req -> Nat]

(* An answer comes from the node the command was sent to, whatever ids the *)
(* reports of other nodes name.                                            *)
AnswerFromOwnNode ==
  \A r \in Req : result[r].kind = "ran" => result[r].by = id[r].node

(* An answered request is answered with the result of its own command: the *)
(* one whose payload it sent, run by an agent.                             *)
AnswerIsOwn ==
  \A r \in Req : phase[r] = "answered" =>
    result[r].of = r /\ runs[r] > 0

(* No command runs twice, although replies and results are lost, repeated  *)
(* and reordered: take() hands it out once.                                *)
RunAtMostOnce == \A r \in Req : runs[r] <= 1

(* A request refused with 503 because the queue overflowed never runs.     *)
RefusedNeverRuns == \A r \in Req : phase[r] = "unavailable" => runs[r] = 0

(* Nothing is left behind by a request that ended: no queued command and   *)
(* no future of a request that nobody waits for any more.                  *)
NothingLeftBehind ==
  /\ \A n \in Node : \A i \in DOMAIN pending[n] :
       phase[pending[n][i]] \in {"waiting", "expired"} /\ id[pending[n][i]].node = n
  /\ \A r \in futures : phase[r] \in {"waiting", "expired"}

(* An agent that never reports cannot make the host's queue grow.          *)
QueueBounded == \A n \in Node : Len(pending[n]) <= MaxPending

(* Where a command is at any moment: nowhere yet, in its node's queue (once *)
(* and not twice), with its agent, or run; and what is known of it there.  *)
(* This is the inductive invariant the safety proofs rest on.              *)
Queued(r) == \E n \in Node : \E i \in DOMAIN pending[n] : pending[n][i] = r
AtAgent(r) == \E n \in Node : r \in inbox[n]

IdsInOrder ==
  /\ seq = asked
  /\ \A r \in Req : IF r <= asked THEN id[r] \in Id /\ id[r].n = r
                    ELSE /\ phase[r] = "unasked" /\ runs[r] = 0
                         /\ result[r] = NoResult /\ ~AtAgent(r) /\ ~Queued(r)
QueuesApart ==
  /\ \A n \in Node : \A i, j \in DOMAIN pending[n] :
       /\ id[pending[n][i]].node = n
       /\ pending[n][i] = pending[n][j] => i = j
  /\ \A n \in Node : \A r \in inbox[n] : id[r].node = n
  /\ \A r \in Req : /\ Queued(r) => ~AtAgent(r) /\ phase[r] \in {"waiting", "expired"}
                    /\ AtAgent(r) \/ Queued(r) => runs[r] = 0
ResultsTrue ==
  /\ \A n \in Node : \A x \in outbox[n] :
       /\ x.of <= asked /\ x.id = id[x.of] /\ x.id.node = n /\ runs[x.of] > 0
  /\ \A r \in Req :
       /\ result[r].kind = "ran" => result[r] = Ran(id[r].node, r) /\ runs[r] > 0
       /\ result[r] = Dropped => runs[r] = 0 /\ ~AtAgent(r) /\ ~Queued(r)
       /\ phase[r] \in {"unasked", "waiting"} => result[r] = NoResult
       /\ phase[r] = "set" => result[r] # NoResult
       /\ phase[r] = "answered" => result[r].kind = "ran"
       /\ phase[r] = "unavailable" => result[r] = Dropped
FuturesAwaited == \A r \in futures : phase[r] \in {"waiting", "expired"}

Bookkeeping ==
  /\ IdsInOrder /\ QueuesApart /\ ResultsTrue /\ FuturesAwaited /\ RunAtMostOnce

(* Every request comes to an end.                                          *)
EveryRequestEnds ==
  \A r \in Req : (phase[r] = "waiting") ~> (phase[r] \in Ended)

(* The broker implements the promise of RequestReply.                      *)
EndOf(p) == CASE p = "answered" -> "answered"
              [] p = "unavailable" -> "refused"
              [] p \in {"timeout", "crashed"} -> "abandoned"
              [] OTHER -> "open"

Promise == INSTANCE RequestReply WITH
  asked <- 1..asked,
  ran   <- {r \in Req : runs[r] > 0},
  ended <- [r \in Req |-> EndOf(phase[r])]
KeepsPromise == Promise!Spec
==============================================================================
