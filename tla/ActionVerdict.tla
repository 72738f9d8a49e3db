---------------------------- MODULE ActionVerdict ----------------------------
(***************************************************************************)
(* Did it work?  An operator's action on a node and the watch that judges   *)
(* it (verdict.py), from the baseline the handler reads (main.py             *)
(* _verified_action, api_node_unit_action) to the stored verdict.           *)
(*                                                                         *)
(* A process or outage watch is fed by threads that ingest reports, a Pulse *)
(* watch by the sweep loop, and the loop times all of them out.  They share *)
(* the watch without a lock; a step here is what CPython runs without a      *)
(* switch: the test and set of `done` is one, folding a sample in takes one  *)
(* for each finding, and so does every list that the judgement draws up.    *)
(* One watch at a time is followed: watches share nothing.  A sample is the *)
(* findings still active and how far the pressure has fallen since the      *)
(* baseline: 0, 1 (a fifth or more), 2 (half or more).                      *)
(***************************************************************************)
EXTENDS Integers, FiniteSets

CONSTANTS
  Keys,        \* findings (or items) that name the target of the action
  Threads,     \* executor threads with a report of this node
  Loop,        \* the event loop
  Kinds,       \* a subset of {"process", "outage", "pulse"}
  Enough,      \* kind -> WINDOW_SAMPLES, OUTAGE_SAMPLES, PULSE_JUDGEMENTS
  Least, Most, \* kind -> ..._MIN_SECONDS, ..._MAX_SECONDS
  Keep         \* KEEP_SECONDS

ASSUME ActorsAssumption == Loop \notin Threads
ASSUME KindsAssumption == Kinds \subseteq {"process", "outage", "pulse"}
ASSUME WindowAssumption ==
  /\ Keep \in Nat /\ Enough \in [Kinds -> Nat \ {0}]
  /\ Least \in [Kinds -> Nat] /\ Most \in [Kinds -> Nat]
  /\ \A k \in Kinds : Least[k] <= Most[k]

VARIABLES
  shown,       \* what the host last heard of the node: the active keys
  command,     \* the handler: what it watches and its baseline
  watch,       \* the watch in ActionVerifier._watches
  actor,       \* where each thread, and the loop, is in the verifier
  stored,      \* the verdict column of the action's row
  history      \* what was heard of the watched findings; nothing depends on it

vars == <<shown, command, watch, actor, stored, history>>

Never == -1
NoCommand == [kind |-> "none"]
NoWatch == [kind |-> "none"]
Idle == [at |-> "idle"]
Samples == [active : SUBSET Keys, fall : 0..2]
Passes == {"cleared", "still", "recurred", "times"}
Nothing == [p \in Passes |-> {}]
Unheard == [latest |-> {}, lacked |-> {}, torn |-> FALSE]
Outcomes == {"moot", "unknown", "helped", "fixed", "recurred", "partial", "no_change"}

-----------------------------------------------------------------------------
(* Faulty variants: the bugs the properties are there to notice.            *)
AlwaysOpen == TRUE
KeptIfStored == watch.done /\ stored # "none" /\ watch.over > Keep
ClearedForGood(k, s) == watch.cleared \cup ({k} \ s.active)

-----------------------------------------------------------------------------
(* The handler reads its baseline, then awaits the agent: findings may      *)
(* clear and others appear before it resumes.  A 502, 503 or 504 starts no  *)
(* watch.                                                                   *)
Ask == /\ command = NoCommand /\ watch = NoWatch
       /\ \E k \in Kinds : command' = [kind |-> k, baseline |-> shown]
       /\ UNCHANGED <<shown, watch, actor, stored, history>>

Fail == /\ command # NoCommand /\ command' = NoCommand
        /\ UNCHANGED <<shown, watch, actor, stored, history>>

(* start, start_outage, start_pulse: the action is recorded and watched;     *)
(* with nothing to watch for it is moot at once.                            *)
Start ==
  /\ command # NoCommand /\ command' = NoCommand
  /\ LET moot == command.baseline = {} IN
       /\ watch' = [kind |-> command.kind, targets |-> command.baseline, samples |-> 0, fall |-> 0,
                    cleared |-> {}, recurred |-> {}, done |-> moot, age |-> 0,
                    over |-> IF moot THEN 0 ELSE Never,
                    verdict |-> IF moot THEN "moot" ELSE "none"]
       /\ stored' = IF moot THEN "moot" ELSE "none"
  /\ history' = Unheard
  /\ UNCHANGED <<shown, actor>>

-----------------------------------------------------------------------------
(* observe, observe_outage: the section of a report is merged and, if there *)
(* is an open watch for it, the thread goes on to fold it in.               *)
Open == watch # NoWatch /\ ~watch.done

Receive(t) ==
  /\ actor[t] = Idle
  /\ \E s \in Samples :
       /\ shown' = s.active
       /\ actor' = [actor EXCEPT ![t] = IF Open /\ watch.kind # "pulse"
                                        THEN [at |-> "append", sample |-> s] ELSE Idle]
  /\ UNCHANGED <<command, watch, stored, history>>

(* observe_pulse, from the loop, with the items the Pulse now holds: none   *)
(* if the node is unheard.  The loop runs it as one step.                   *)
PulseItems ==
  /\ actor[Loop] = Idle /\ Open /\ watch.kind = "pulse"
  /\ \E s \in [active : SUBSET Keys, fall : {0}] :
       actor' = [actor EXCEPT ![Loop] = [at |-> "append", sample |-> s]]
  /\ UNCHANGED <<shown, command, watch, stored, history>>

Move(a, to) == actor' = [actor EXCEPT ![a] = to]

(* A thread that listed an open watch folds its sample in, and closes it,   *)
(* whatever has become of the watch meanwhile.                              *)
Folding(a) == actor[a].at = "fold"
Judging(a) == actor[a].at \in {"judge", "look"}
Actors == Threads \cup {Loop}

Append(a) ==
  /\ actor[a].at = "append"
  /\ LET s == actor[a].sample IN
       /\ watch' = [watch EXCEPT !.samples = IF @ = Enough[watch.kind] THEN @ ELSE @ + 1,
                                 !.fall = s.fall]
       /\ Move(a, [at |-> "fold", sample |-> s, todo |-> watch.targets])
       /\ history' = [history EXCEPT !.latest = s.active,
                        !.torn = \E b \in Actors \ {a} : Folding(b) \/ Judging(b)]
  /\ UNCHANGED <<shown, command, stored>>

Cleared(k, s) == (watch.cleared \cup {k}) \ (s.active \cap {k})
Recurred(k, s) == IF watch.kind = "process" THEN {} ELSE watch.recurred \cup (watch.cleared \cap s.active \cap {k})

(* One target, in the order of the list: any, as the keys have none here.   *)
FoldTarget(a, k) ==
  /\ Folding(a) /\ k \in actor[a].todo
  /\ LET s == actor[a].sample IN
       /\ watch' = [watch EXCEPT !.cleared = Cleared(k, s), !.recurred = Recurred(k, s)]
       /\ history' = [history EXCEPT !.lacked = IF k \notin s.active THEN @ \cup {k}
                                               ELSE IF watch.done THEN @ ELSE @ \ {k}]
  /\ Move(a, [actor[a] EXCEPT !.todo = @ \ {k}])
  /\ UNCHANGED <<shown, command, stored>>

(* finish(): the first to find the watch open marks it done and judges it.  *)
Unclaimed == ~watch.done
WindowOver == watch.samples >= Enough[watch.kind] /\ watch.age >= Least[watch.kind]

Finish(a) ==
  /\ watch' = [watch EXCEPT !.done = TRUE, !.over = 0] /\ Move(a, [at |-> "judge"])
  /\ history' = [history EXCEPT !.torn = @ \/ \E b \in Actors \ {a} : Folding(b)]

Close(a) ==
  /\ Folding(a) /\ actor[a].todo = {}
  /\ IF WindowOver /\ Unclaimed THEN Finish(a)
     ELSE Move(a, IF watch.done THEN [at |-> "store"] ELSE Idle) /\ UNCHANGED <<watch, history>>
  /\ UNCHANGED <<shown, command, stored>>

(* _judge.  With no sample the verdict is unknown; otherwise the pressure   *)
(* of the newest is read, and the lists of targets are drawn up one after   *)
(* another: what cleared, what did not, for items what came back, and when  *)
(* what cleared did so.  Each is a pass over the targets during which other *)
(* actors may go on folding.                                                *)
Looking(pass, todo, fall, found) ==
  [at |-> "look", pass |-> pass, todo |-> todo, fall |-> fall, found |-> found]

Judge(a) ==
  /\ actor[a].at = "judge"
  /\ IF watch.samples = 0
     THEN watch' = [watch EXCEPT !.verdict = "unknown"] /\ Move(a, [at |-> "store"])
     ELSE Move(a, Looking("cleared", watch.targets, watch.fall, Nothing)) /\ UNCHANGED watch
  /\ UNCHANGED <<shown, command, stored, history>>

Held(pass) == CASE pass \in {"cleared", "times"} -> watch.cleared
                [] pass = "still" -> Keys \ watch.cleared
                [] pass = "recurred" -> watch.recurred

Look(a, k) ==
  /\ actor[a].at = "look" /\ k \in actor[a].todo
  /\ LET p == actor[a] IN
       Move(a, Looking(p.pass, p.todo \ {k}, p.fall, [p.found EXCEPT ![p.pass] = @ \cup ({k} \cap Held(p.pass))]))
  /\ UNCHANGED <<shown, command, watch, stored, history>>

(* The times are read of a process watch, and of items that all cleared.    *)
NoneLeft(found) == found["still"] = {}
AllItemsCleared(found) == found["recurred"] = {} /\ found["cleared"] # {} /\ NoneLeft(found)

NextPass(pass, found) ==
  CASE pass = "cleared" -> "still"
    [] pass = "still" -> IF watch.kind = "process" THEN "times" ELSE "recurred"
    [] pass = "recurred" -> IF AllItemsCleared(found) THEN "times" ELSE "none"
    [] pass = "times" -> "none"

Turn(a) ==
  /\ actor[a].at = "look" /\ actor[a].todo = {}
  /\ LET p == actor[a]
         next == NextPass(p.pass, p.found) IN
       /\ next # "none"
       /\ Move(a, Looking(next, IF next = "times" THEN p.found["cleared"] ELSE watch.targets, p.fall, p.found))
  /\ UNCHANGED <<shown, command, watch, stored, history>>

(* The lists may disagree when a sample was folded in meanwhile, and then a *)
(* lookup or an index fails: the watch stays done without a verdict.        *)
ProcessOutcome(found, fall) ==
  IF found["times"] # found["cleared"] THEN "raised"
  ELSE IF NoneLeft(found) /\ (found["cleared"] # {} \/ fall = 2) THEN "helped"
  ELSE IF NoneLeft(found) THEN "raised"
  ELSE IF found["cleared"] # {} \/ fall > 0 THEN "partial" ELSE "no_change"

ItemOutcome(found) ==
  IF found["recurred"] # {} THEN "recurred"
  ELSE IF AllItemsCleared(found) THEN (IF found["times"] = found["cleared"] THEN "fixed" ELSE "raised")
  ELSE IF found["cleared"] # {} THEN "partial"
  ELSE IF NoneLeft(found) THEN "raised" ELSE "no_change"

Outcome(found, fall) ==
  IF watch.kind = "process" THEN ProcessOutcome(found, fall) ELSE ItemOutcome(found)

Conclude(a) ==
  /\ actor[a].at = "look" /\ actor[a].todo = {}
  /\ NextPass(actor[a].pass, actor[a].found) = "none"
  /\ LET verdict == Outcome(actor[a].found, actor[a].fall) IN
     IF verdict = "raised" THEN Move(a, Idle) /\ UNCHANGED watch
     ELSE watch' = [watch EXCEPT !.verdict = verdict] /\ Move(a, [at |-> "store"])
  /\ UNCHANGED <<shown, command, stored, history>>

(* _persist: a failure to write is logged and the verdict not stored.       *)
Store(a) ==
  /\ actor[a].at = "store" /\ Move(a, Idle)
  /\ stored' \in IF watch.verdict # "none" THEN {stored, watch.verdict} ELSE {stored}
  /\ UNCHANGED <<shown, command, watch, history>>

-----------------------------------------------------------------------------
(* sweep(): an open watch past its limit is finished, a finished one is     *)
(* kept for a while and then forgotten.                                     *)
TimedOut == ~watch.done /\ watch.age > Most[watch.kind]
TimeOut ==
  /\ actor[Loop] = Idle /\ watch # NoWatch /\ TimedOut
  /\ Finish(Loop)
  /\ UNCHANGED <<shown, command, stored>>

Kept == watch.done /\ watch.over > Keep
Forget ==
  /\ actor[Loop] = Idle /\ watch # NoWatch /\ Kept
  /\ watch' = NoWatch /\ stored' = "none" /\ history' = Unheard
  /\ UNCHANGED <<shown, command, actor>>

(* A tick is longer than any step of a thread takes.                        *)
AtRest == \A a \in Actors : actor[a] = Idle
Tick ==
  /\ watch # NoWatch /\ AtRest
  /\ watch' = [watch EXCEPT !.age = IF @ > Most[watch.kind] THEN @ ELSE @ + 1,
                            !.over = IF @ = Never \/ @ > Keep THEN @ ELSE @ + 1]
  /\ UNCHANGED <<shown, command, actor, stored, history>>

(* A new host process: the table of watches starts empty, and the row of an *)
(* action that was being watched keeps no verdict.                          *)
HostRestart ==
  /\ command' = NoCommand /\ watch' = NoWatch /\ shown' = {}
  /\ actor' = [a \in Actors |-> Idle] /\ stored' = "none" /\ history' = Unheard

Init ==
  /\ shown \in SUBSET Keys /\ command = NoCommand /\ watch = NoWatch
  /\ actor = [a \in Actors |-> Idle] /\ stored = "none" /\ history = Unheard

Advance(a) ==
  \/ Append(a) \/ Close(a) \/ Judge(a) \/ Turn(a) \/ Conclude(a) \/ Store(a)
  \/ \E k \in Keys : FoldTarget(a, k) \/ Look(a, k)

Next ==
  \/ Ask \/ Fail \/ Start \/ PulseItems \/ TimeOut \/ Forget \/ Tick \/ HostRestart
  \/ \E t \in Threads : Receive(t)
  \/ \E a \in Actors : Advance(a)

(* Threads and the loop go on, every pass of the loop sweeps, time passes.  *)
Fairness ==
  /\ SF_vars(TimeOut) /\ SF_vars(Forget) /\ SF_vars(Tick)
  /\ \A a \in Actors : WF_vars(Advance(a))

Spec == Init /\ [][Next]_vars
FairSpec == Spec /\ Fairness

-----------------------------------------------------------------------------
(* Every variable holds what the code can put there, and a thread is only   *)
(* ever half way through a watch that is still in the table.                *)
Watches ==
  [kind : Kinds, targets : SUBSET Keys, samples : Nat, fall : 0..2, cleared : SUBSET Keys,
   recurred : SUBSET Keys, done : BOOLEAN, age : Nat, over : Never..Keep + 1, verdict : Outcomes \cup {"none"}]
Places ==
  {Idle} \cup [at : {"judge", "store"}] \cup [at : {"append"}, sample : Samples]
    \cup [at : {"fold"}, sample : Samples, todo : SUBSET Keys]
    \cup [at : {"look"}, pass : Passes, todo : SUBSET Keys, fall : 0..2, found : [Passes -> SUBSET Keys]]

TypeOK ==
  /\ shown \subseteq Keys
  /\ history \in [latest : SUBSET Keys, lacked : SUBSET Keys, torn : BOOLEAN]
  /\ command = NoCommand \/ command \in [kind : Kinds, baseline : SUBSET Keys]
  /\ IF watch = NoWatch THEN AtRest
     ELSE /\ watch \in Watches /\ watch.samples <= Enough[watch.kind] /\ watch.age <= Most[watch.kind] + 1
          /\ watch.done <=> watch.over # Never
          /\ ~watch.done => watch.verdict = "none"
  /\ actor \in [Actors -> Places]
  /\ stored \in Outcomes \cup {"none"}

(* A verdict, once given, stands: a thread with a last sample and the sweep *)
(* that times the watch out never judge it twice (finish).                  *)
VerdictStands ==
  [][watch # NoWatch /\ watch' # NoWatch /\ watch.verdict # "none" => watch'.verdict = watch.verdict]_vars

(* What the track record holds is the verdict that was shown (_persist is   *)
(* also called by threads that did not judge).                              *)
StoredIsVerdict == watch # NoWatch /\ stored # "none" => stored = watch.verdict

(* The table, the actors half way through it and the track record agree.    *)
TableIsSound == TypeOK /\ StoredIsVerdict

Worked == watch # NoWatch /\ watch' # NoWatch /\ watch.verdict = "none" /\ watch'.verdict \in {"helped", "fixed"}

(* An action is only said to have worked when each finding it was to clear   *)
(* was missing from what was folded in about it last, at the beginning or at *)
(* some moment of the judgement; and when no sample was being folded in     *)
(* while another was, or while the watch was judged, when all were missing  *)
(* from the one newest sample (_judge and observe, a time-out on the loop    *)
(* against threads).                                                        *)
WorkedMeansClear ==
  [][Worked => /\ watch.targets \subseteq history.lacked
               /\ history.torn \/ watch.targets \cap history.latest = {}]_vars

(* verdict.py: "helped: the findings that named the process cleared", which  *)
(* a judgement in the middle of a sample may say with one still active.     *)
WorkedOnWholeSample == [][Worked => watch.targets \cap history.latest = {}]_vars

(* No watch stays in the table, whether its node reports or not and whether *)
(* its judgement or the storing of it fails.                                *)
EveryWatchLeaves == watch # NoWatch ~> watch = NoWatch

(* verdict.py: "unknown: the node stopped reporting before the window       *)
(* closed."  A watch the sweep closes for that reason is judged unknown.    *)
SilentIsUnknown ==
  [][Judging(Loop) /\ actor'[Loop].at = "store" /\ watch.kind # "pulse"
       => watch'.verdict = "unknown"]_vars
=============================================================================
