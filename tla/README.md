# Culprit: a verification project

TLA+ models of Culprit's host and of the parts of its agent that are in this repository,
the TLC runs that check them on small instances,
and TLAPS proofs of what matters most for instances of any size. Everything is
translated from `src/culprit/*.py`; line numbers in `PROJECT.json` ("map") say
which code each definition stands for.

Contents

1. [The system](#1-the-system)
2. [Modules](#2-modules)
3. [Runs](#3-runs)
4. [Proofs](#4-proofs)
5. [Where the code and its own words disagree](#5-where-the-code-and-its-own-words-disagree)
6. [What is not modelled](#6-what-is-not-modelled)
7. [Plan](#7-plan)
8. [Running it](#8-running-it)

## 1. The system

Culprit is a self-hosted health dashboard. A **host** process (FastAPI, one
asyncio event loop, SQLite) aggregates the reports of **agents**. Agents are
push-only: they POST a report every second or so, and the reply to a report is
the only way anything reaches them. People use the host through a browser.

There are three kinds of actor inside the host, and most of what is hard comes
from them:

* the **event loop**: every request handler between two awaits, and every 15 s
  one pass of `_sweep_loop` (main.py 69-118), the only place where something
  happens because nothing came;
* the **executor threads**: `registry.ingest` runs there, once per report, and
  calls the observers (expectations, verdicts, notifier, Coroner, wear, Pulse)
  one after another, in parallel with the loop and with other reports;
* the **worker threads**: the notifier's sender, the sampler's four tiers.

Beside it there are the **command line**, a process of its own on the same database, and
on every agent the **sampler**, whose tiers (fast, proc, slow, events) run on a thread each and
leave their readings in a store; the diagnoses read that store.

A restart of the host keeps the database only.

### Components

| Component | Source | State | Operations | Interacts with | Hard behaviour |
|---|---|---|---|---|---|
| Command broker | nodes.py `CommandBroker`; main.py `_agent_command`, `api_agent_report` | a sequence number, a queue of commands per node, a future per command | submit, take, resolve, cancel | called by every action on a node; its only transport is the reply to a report | lost replies, repeated results, time-out against a late answer, overflow, revocation, restart |
| Notifier | notify.py | per finding: severity seen, sent mark, absent since; per node: last seen, offline; the limiter's stamps; the queue to the sender | observe, sweep, drop, forget_node, set_intermittent, announce | called by ingest threads, the sweep loop, the Coroner, the handlers that remove an agent | one state machine driven by partial reports, settings, drops and a clock in any order; a rate limit in the middle |
| Pulse | pulse.py | per node: rings of samples, continuity, items said, the folded ones | observe, sweep/judge, take_vanished, renotify's items, forget | fed by ingest threads, judged by the loop, read by the notifier and the verdicts | must not take its own deafness for a silence; firing and clearing are different tests; memory bounded by the ring |
| Sweep loop and ingest | main.py, nodes.py | the merged snapshot per node; the list of what is active | ingest, renotify, remove | joins the three above | two actors handing lists to the notifier, made before they are handed over |
| Action verdicts | verdict.py; main.py `_verified_action`, `api_node_unit_action` | the table of watches; the row of an action | start, observe, finish, judge, persist, sweep | started by handlers, fed by threads (process, outage) or by the loop (Pulse) | a table shared by threads and loop without a lock; a time-out racing the last sample |
| Agent updates and pins | main.py, nodes.py, db.py | the published version, the versions reported, pins, the claim of the day | daily sweep, Update all, Update, choose a version, unpin | sends commands through the broker | what was read before a wait of up to 120 s decides what is written after it |
| Node registry | nodes.py, db.py `write_rollup` | merged sections, `known`, minute buckets, settings | ingest, accumulate, flush, status_list | all of them | delta reports whose full version was lost; a bucket emptied without a lock |
| Accounts and roles | auth.py, db.py, main.py, \_\_main\_\_.py | users, keys, identities, a cache of credentials for 5 s | login, change, remove, invalidate, the commands | every request | the last admin; a stale cache entry; a second process on the database |
| Provider sign-in | auth.py, oidc.py | pending and claimed identities | sign-in, claim, create, link, unlink | accounts | two sign-ins of one person; an account made and not yet linked |
| Flight recorder and Coroner | collectors/recorder.py, forensics.py, coroner.py, sampler.py | a ring, its file on the agent's disk, a boot id, the deaths stored | record, flush, mark, find, judge, store | ingest, notifier | a crash at any point of a flush; a death reported until answered |
| Outage Doctor | collectors/outage.py | counters of listeners held and gone, roots, first state of mounts, `since` | one sample per slow tick | the readings of the slow tier | readings that are partial, stale, or of different moments |
| Lag Doctor | collectors/lag.py, util.py `Sustain`, cgroups.py | streaks and their beginnings, two counters of OOM kills | one diagnosis per proc tick | the store between the tiers | readings of three paces; a fact told on some level of nested units, once |
| Wear, expectations, live stream, fleet map, trust, settings | wear.py, expect.py, state.py, fleetmap.py, trust.py, config.py | a memo per day; windows; bounded queues; deadlines | see "What is not modelled" | | failures after a memo is set; windows over midnight; frames dropped |
| Collectors, other diagnoses | collectors/*.py | rings and remembered findings | read and judge one machine | the sections of a report | mostly parsing and thresholds |
| Agent, dashboard | other repository, web/ | | | | external here |

### What makes the core correct

* *Broker*: every request ends; an answer is the result of its own command, from
  its own node; no command runs twice; a refused one never runs; nothing is left
  behind; queues stay bounded.
* *Notifier*: one message while a finding holds, one more when it gets worse, one
  when it resolves; nothing is resolved that is listed; an offline mark is true
  and is said once; absences end.
* *Pulse*: what is said to be quiet really was, while the host was listening; it is
  said in the end, stays said through twitches, and is cleared when the subject is
  back; its beginning does not move.
* *Together*: only what was lacking for a moment of the grace period is resolved, whoever called the notifier since;
  a dead node is marked.
* *Verdicts*: given once, stored as given, "worked" only when each thing was clear when last heard of, and all of
  them in the newest sample unless samples overlapped; no watch stays for ever.
* *Updates*: at most one scheduled update a day; a pin rests on a result; an agent that runs its pinned version keeps it until
  somebody asks for something else or what was under way is carried out; an agent that can update catches up.
* *Registry*: what the host has not is sent again; a minute's row counts each sample once and
  its findings are written once, unless reports raced for the bucket or the host restarted.
* *Accounts*: an admin remains; a change is seen by the next request, and whatever went round
  the cache after 5 s; a person ends in one account; nothing lingers that nobody can open.
* *Recorder and Coroner*: the recording reaches the end; an undisturbed stop is no death; a death is
  stored and announced once, and lost in two known ways only.
* *Doctors*: what a finding or item says was so, since when it says, and what was so long
  enough is said, on some level.

## 2. Modules

| Module | Models | |
|---|---|---|
| `RequestReply` | the promise of the downlink: a request is asked, its command runs at most once, it ends once | abstract |
| `CommandBroker` | broker, `_agent_command`, `api_agent_report`, the agent | implements `RequestReply` |
| `CommandBrokerProofs` | theorems about `CommandBroker` | theorems |
| `AlertPromise` | notify.py's docstring: one message, one escalation, one resolution | abstract |
| `Notifier`, `MCNotifier` | notify.py | implements `AlertPromise` |
| `NotifierProofs` | theorems about `Notifier` and `Vigil` | theorems |
| `Vigil`, `MCVigil` | ingest threads, the sweep loop, the Pulse's verdicts and removal of agents around `Notifier` (EXTENDS it) | composition |
| `ActionVerdict`, `MCActionVerdict` | one watch with the threads and the loop that share it | |
| `PulseJudge`, `MCPulseJudge` | the rings of one node and the went-quiet judgement | |
| `AgentUpdates` | updates, versions and pins | |
| `AgentUpdatesProofs` | theorems about `AgentUpdates` | theorems |
| `ActionVerdictProofs` | theorems about `ActionVerdict` | theorems |
| `NodeRegistry`, `MCNodeRegistry` | the registry's merge and minute rows, with the agent's delta reports around them | |
| `ReportProofs` | theorems about `NodeRegistry` and `PulseJudge`: what reports leave on the host | theorems |
| `Accounts`, `MCAccounts` | accounts, roles, logins, provider sign-in, the commands | |
| `AccountsProofs` | theorems about `Accounts` | theorems |
| `Coroner` | the verdict on one death, operators without a state | used by `BlackBox` |
| `BlackBox` | the flight recorder, the sampler's stop, the next start, the deaths table | composition |
| `BlackBoxProofs` | theorems about `BlackBox` | theorems |
| `OutageDoctor`, `MCOutageDoctor` | outage.py over the readings of the slow tick | |
| `LagDoctor`, `MCLagDoctor` | lag.py's bookkeeping over three tiers | |
| `DoctorProofs` | theorems about `OutageDoctor` and `LagDoctor` | theorems |

### How state and actions correspond to the code

**CommandBroker.** `pending`, `futures`, `seq` are the fields of the class. A
request is the k-th ever made; `id[k]` is the string the code builds from the node
and the sequence number, so that two lives of the host can build the same one.
`phase` is where the task of `_agent_command` stands: waiting, its future set,
its timer fired ("expired": cancelled, the except branch not yet run), ended. Whatever
happens between two awaits is one step; the awaits are `wait_for` (so `Expire` and
`Cancel` are apart and an answer may fall between) and `run_in_executor` (so
`Report`, which resolves, and `Take`, which hands out, are apart). Replies get lost in `Take`,
results are repeated or foreign in `Report`.

**Notifier.** `active`, `silent` (`_node_seen`), `offline`, `intermittent`, `recent`
(the limiter) and `waiting` (the queue) are the fields. Every time stamp is only
compared with "now", so it is kept as an age that stops one past the largest
threshold. `mail` and `lost` are the messages of the last step that were queued and
that were dropped. `said`, `told` and `unlisted` are history: the rank last spoken of, whether the
finding's message really was queued, and how long no list had it. A failed delivery
changes nothing that is held (`Deliver`).

**Vigil.** Of one node, several reports may be in a thread's hand at once. One is merged under the lock (`ReceiveList`), then its
list is made from the live snapshot (`MakeList`), handed to the notifier (`Tell`), and the report to the Pulse (`Fold`); one without a
section the notifier is called for goes straight to the Pulse. The loop's pass is `LoopSweep`, `LoopJudge`, and for each changed
node `LoopDrop`, then `LoopCopy`, which makes a list as a thread does, and `LoopRenotify`, which hands it over (nodes.py 511-526), with threads
between any two. Lists are therefore handed over in any order. The Pulse's
arithmetic is abstracted to the verdicts it may reach (`Judgements`); PulseJudge has
the arithmetic. History: `lacked`, how long ago the snapshot last lacked a finding, and `overtaken`, what the list handed over last
had not, although the snapshot had it by then.

**ActionVerdict.** One watch is followed, because watches share nothing. A step is what
CPython runs without switching threads at a call: a sample is appended (`Append`), folded in one target at a time
(`FoldTarget`), the window tested and claimed (`Close`, `TimeOut`, both by `Finish`), and the judgement draws up its lists, what cleared, what did not, what
came back, and when, each in a pass over the targets (`Judge`, `Look`, `Turn`, `Conclude`), while others may go on folding. Lists that
disagree in the end make the judgement raise, and the watch has no verdict. A sample is the set of findings still active and how far the pressure fell.
`history` has the newest sample, the targets that were missing when last heard of (or at a moment of the judgement), and whether one sample was folded in
while another was, or while the watch was judged (`torn`).

**PulseJudge.** One tick is one sample. `ring[s]` is the deque of a subject with ages
for stamps; `since` and `folded` are the items of the last judgement. `GoneQuiet`, `Recovered`, `Walked`, `Lasted` are
the tests of `judge_subject`, `Judge` the whole of `_judge` for this family of items,
with folding. The baseline is a constant: it enters as the line, the floor and the
level of a recovery.

**AgentUpdates.** A request keeps what its handler read before it waits (pin,
published version), because the handler writes from that. `wait` is where the handler is, `cmd` where its command is: a request that timed out may
leave its command with the agent, which carries it out all the same. `Answer` is the tail of each handler. After a
restart, ids repeat and agents still hold commands of the earlier life (`strays`): `StrayResult` lets the result of any of them answer any waiting
request, and leaves that request's own command where it is. `runs` and `tip` belong to the agents and
their repository. History: who answered a request (`answered`) and the request a pin rests on (`basis`), what was under way for a node when
its pin was stored (`early`), and whether nothing undid the pin since (`settled`).

**NodeRegistry.** The content of a section is a version, and `Unfit` are contents that `sanitise_report` drops, which the agent takes for held. A report is a
*flight*: on the wire, merged, with the bucket, folded; its answer comes last. `base` and `full` are the external
agent's: what it takes the host to hold, and that its next report carries everything. `bts` and `bucket` are the
fields of `_Node`, `rows` and `finds` the database. Nothing locks the bucket, and each of its reads and writes is a step: the test of the minute
(`Accumulate`), the aggregate (`Aggregate`, nodes.py 571), the minute it is written to (`Address`, 589-590), the row (`FlushBucket`), the new list (`Empty`),
the load of the list and the minute (`Place`), the append (`TakeSample`), which may go to a list nobody will flush. History: `taken` (samples by the minute they were taken in),
`disturbed` (minutes with a restart or a failing write), `raced` (minutes whose bucket two reports handled at once, or to which one came after a sample of a later minute),
`late` (an answer "unknown" was lost, or a report was merged after its agent had given it up).

**Accounts.** A handler on the loop is one step; that of POST /api/users is two, `FindFree` and `CreateUser`, because it asks for the name and then
adds it or, if a thread or a command took the name meanwhile, sets that account's password (db.py 1242-1254). A login or a sign-in on a thread is one step per query, a command
one for its count and one for its change. A password hash is a version, and `signed` the accounts with a session
signed by their present one. An entry of the cache has an age, how long it has been wrong (`off`), and whether the change
could not reach it (`excused`). A thread that is to undo or finish with an account carries whether its link was touched by somebody else meanwhile (`moved`).
An account is removed by its name, as in the code, whoever has it by then. `cut`, `ghosts`, `overlap` and `orphaned` are history: links taken away, those taken
from a sign-in that had the account in hand, two removals of admins that overlapped, accounts left empty.

**BlackBox and Coroner.** Time is counted in fast ticks. A flush is two steps, opening the temporary file and renaming
it; two flushes that have it open at once tear it. `loop`, `tick` and `proc` are where the event loop and the
threads of the fast and the proc tick stand, because cancelling a task does not stop its thread. The proc tick drops frames that left the window (`Trim`);
like a frame that is added, one that is dropped while a thread copies the deque makes that copy raise: the mark of a stop (`Disturb`), or the flush of a tick (`TrimInFlush`). `Found` is `detect_death` at the next start,
and its verdict is `Coroner!Judge`'s on the evidence the journal would hold. A death's uid is the boot and the time of
death. History: how each run ended (`ends`), when a shutdown was ordered (`orders`), which stops nothing disturbed (`quiet`), the deaths of which the recording told when a process
ended (`dead`), those the host answered without storing them (`unwritten`) and those whose recording was replaced before the host answered (`replaced`).

**OutageDoctor.** A step is a slow tick. A reading is any combination of services (by systemd, by the cgroups alone,
or none), ports (or none) and mounts, since the collectors read one after the other while the machine
changes. The walk to the root of a failed unit reads each dependency again (outage.py 577-597): `Walks` are the paths it may take, each to a dependency that is failed
or inactive with a failed result at that moment, whatever the list says of it. `held`, `gone`, `roots`, `base` and `itemSince` are the fields; ages stop where the code stops telling them apart.
`last`, `proven`, `inARow`, `beside`, `brokenAgo` and `wasRw` say what the readings, and the walks, really showed.

**LagDoctor.** A finding's key is a pair of a family and a subject. A family is the tier that reads it and what it may
read: bad, fine, no value, or nothing left to read about. `store` is the snapshot store between the tiers; `TickProc`
diagnoses with its own fresh readings and what the store has. `streak` and `since` are `Sustain`; `total` and
`counter` are the two counters of OOM kills. A walk counts kills only in units with a memory limit and in containers (`limited`), and keeps 0 for the others
(cgroups.py 115-127), so that a unit which gains a limit tells of the kills it ever had. `dropped` and `fineAgo` are history.

Each module begins with a short section of *faulty variants*: definitions that differ from
one of the module's by a plausible bug (a dropped guard, a swapped order, an off-by-one).
The specifications do not use them; replacing the definition by its variant makes the property named in `PROJECT.json`
("mutants") fail, which shows that the property is able to.

## 3. Runs

"pass" runs are explored exhaustively and without error. In the others TLC finds the
one property violated (section 5).

| Run | Bounds | Shows |
|---|---|---|
| `Broker` | 2 nodes, 2 requests, queue of 1, 2 reports of a node in flight, no restart | answers are own, the inductive invariant, that it implements `RequestReply`, and that every request ends |
| `BrokerRestart` | 1 node, 2 requests, 1 restart | a late result answers the wrong request (violation of `AnswerIsOwn`) |
| `Notifier` | 1 node, 2 findings, grace and offline of 1 tick, limit, window and queue of 1, three settings | the record agrees with what was said, absences and offline marks are true (`RecordsHold`), `AlertPromise`, resolution only after the grace period, and two liveness properties |
| `Vigil` | 1 node, a finding and a subject, 2 reports in flight beside the loop, deaf and offline after 1, dropped after 2 | what is resolved was lacking in the grace period, and a dead node is marked, with threads and loop interleaved and lists handed over out of order |
| `Verdict` | 2 findings, 1 thread beside the loop, each of the three kinds of watch, 2 samples | the table and the track record agree, a verdict stands, says that the action worked only when all was clear, and every watch leaves the table |
| `Pulse` | 1 listener and the network, 4 readings, ring of 3, window 1, hold 2, one listener is enough to fold, an intermittent machine | silences said are real and their beginning is kept (`QuietIsReal`), a twitch does not clear, what is quiet is said and what is back is cleared |
| `Updates` | 1 node, 3 versions of which the oldest cannot update itself, the schedule and one operator's request, restarts after which ids repeat | what a pin rests on and that it holds, the daily claim, and that agents catch up |
| `Registry` | 2 sections, one with a content the host drops, 2 reports under way, 2 versions, 3 minutes of 2 samples, 1 host restart, any number of agent restarts | what the host lacks is sent again, and a minute's row is whole, however the reports fall about its end |
| `Accounts` | 3 names, 1 person at the provider, 2 threads, cache of 2 ticks, 1 change on the loop, 2 logins or sign-ins, 1 command, restarts | the cache is fresh, an admin remains, a person ends in one account, no empty or unlinked account is left open |
| `BlackBox` | 4 ticks, 2 runs, 2 boots, a flush every 2 ticks, windows of 1, a readable journal, kills, power cuts, ordered shutdowns, failing writes | the recording reaches the end, deaths told are real, are buried once, and are lost in no third way |
| `Outage` | a service with a port, one that needs a mount, 1 mount; hold 3, gone 2, root 2, start 2 ticks; readings of any quality, walks that find what no list shows | what items say was so; a lost port was held, and is told |
| `Lag` | a service in a manager in a slice, and a port; sustain 2, 2 OOM kills inside or outside, a limit that comes and goes | "since" is the beginning, nothing is left out for nothing, a rise of the kernel's counter is told |

A few properties are conjunctions of named parts, which the modules comment one by one: `RecordsHold`, `TableIsSound`, `QuietIsReal`, `DeathIsReal`,
`RecordIsSound`, `RowsAreSound`, `CacheIsFresh`, `AccountsAreSound`, `ItemsAreTrue`, `DiagnosisIsSound`; where a module's
type invariant is checked, it is one of the parts. The type invariants of `CommandBroker`, `AgentUpdates`, `Vigil` and the other
modules are theorems or parts of the inductive invariants (section 4).

### Why the bounds are enough

*Broker*: overflow needs two requests for one node and a queue of one; a report of the wrong node needs two nodes; two reports
in flight let one resolve while another takes. *Notifier*: nodes do not share anything but the limiter and the queue, and two findings of
one node already compete for those; thresholds of one tick keep all orders of "before, at
and after the threshold". *Vigil*: the deaf, offline and drop thresholds keep the order
they have in the code (90 s, 180 s, 900 s), the first two at once; a second report is what an older list is overtaken by. *Verdict*: one watch; a thread and the loop are the two actors that
may both close it. *Pulse*: one listener
and the network are the smallest set that can fold; the readings are idle, active under the line, at the line,
and at the level of a recovery; the hold fits the ring, as it does by default.
*Updates*: three versions let an agent be too old, behind, and chosen off the tip.
*Registry*: two sections let one change while the other does not, two reports overlap, and of three minutes the
first and second are each filled, left and written late; the slots of reports are interchangeable, and one symmetry of them is used. *Accounts*: two names beside the first let one be
created while another is renamed, removed or linked; two threads are two sign-ins of one person; the command is the
second process. *BlackBox*: two boots and two runs give a death of the machine, a death of the agent and a run that
ends after another did; four ticks hold two flushes. Crashes and memory kills of the agent (the other values of
`Faults`) differ from kills in the verdict only, and are left out of the run. *Outage*: a chain of a service, its mount and a
port is what the three kinds of items share; the thresholds keep the code's order (hold longer than gone). *Lag*: three
nested units are the least in which a unit that yields is itself yielded to; the port has the slow
tier's pace.

### What the properties except

Where the code has a known way of going wrong, the property names it and says that there is no other; section 5 lists what it costs. A dropped message counts
as spoken (`RecordsHold`); what a list in hand overtook (`ResolvedWasLacking`); samples folded in at the same time (`torn`); a command under way when a pin was stored
(`early`), a result of an earlier life (`basis`); the interval after a failed flush (`missed`), a stop that was disturbed (`quiet`), a death not stored but answered or whose recording was replaced;
minutes that reports raced for or in which the host restarted (`raced`, `disturbed`), answers "unknown" that were lost (`late`); two removals of admins that overlapped (`overlap`), entries of the
cache a change could not reach (`excused`), a sign-in with the account in hand (`ghosts`) and a restart within one (`orphaned`); a port forgotten after an unreadable list (`proven`); a kill told with another (`RiseIsTold`).

### Bounded quantities

`MaxReq`, `MaxReports`, `MaxRestarts` (CommandBroker) bound counters of the model, not of the code;
`MaxPending` is the code's. Ages stop at the largest threshold (`Grace`, `SilentDrop + 1`, `Deaf + 1`, `Far`, `Most + 1`,
`Keep + 1`), where the code can no longer tell them apart. `Requests` bounds operators' requests
open at once and `Newest` the versions. `MaxVersion`, `MaxMinute`, `PerMinute`, `MaxStops` (NodeRegistry), `MaxChanges`, `MaxSignIns`,
`MaxCli` (Accounts), `MaxTime`, `MaxRuns`, `MaxBoots` (BlackBox) and `MaxKills` (LagDoctor) bound the model's counters; `Horizon` and the
thresholds of the doctors are where ages stop.

### Fairness

* *Broker*: the event loop resumes a task that can run, and a timer fires (`Wake`, `Expire`, `Cancel`).
  Nothing is assumed of agents.
* *Notifier*: the sweep runs every 15 s (`_sweep_loop` catches everything and goes
  on), the worker loops for ever, time passes. No fairness for
  reports: nodes may be silent for ever.
* *Vigil*: minutes pass and the loop passes in each; both wait for the calls in flight, which end. Again nothing is assumed of reports.
* *Verdict*: threads and loop go on; the sweep acts on every pass, so a time-out that
  is due again and again is taken (strong fairness: other steps disable it in between).
* *Pulse*: time passes and the sweep judges; `FairSpec` states it on the flag that
  alternates between the two, which is the same as weak fairness of `Next`.
* *Updates*: the hour comes and goes, an agent reports, a scheduled request ends (120 s time-out), and
  - for `CatchesUp` only - the sweep, the delivery and the running of a planned command
  are not passed over for ever. An agent that fails every update never catches up; that is an assumption, not a result.
* *BlackBox*, *Registry*, *Accounts*, *Outage*, *Lag* state safety only and assume no fairness.

The deadlock check is off for `Broker`, `BrokerRestart`, `BlackBox` and `Accounts`: their bounded numbers of requests, runs
or changes come to an end.

## 4. Proofs

For any nodes, findings, threads, names, sections, subjects, units, ports, versions, limits and numbers of requests, reports,
runs and restarts:

| Module | Theorems |
|---|---|
| `CommandBrokerProofs` | `TypeCorrect`, `CommandsAccountedFor`, `AnswersComeFromOwnNode`, `AnswersAreOwn`, `NoCommandRunsTwice`, `RefusedStaysUnrun`, `EndedLeavesNothing`, `QueuesStayBounded`, `BrokerKeepsPromise` |
| `NotifierProofs` | `NotifierInvariant`, `RecordsAgree`, `OfflineNodesAreUnseen`, `AbsencesAreReal`, `ResolutionsWaitForGrace`, `NotifierKeepsPromise`, `NotifierRecordsHold`, `OfflineToldOnce`; of Vigil `VigilInvariant`, `VigilTyped`, `VigilIsNotifier`, `ResolvedWereLacking` |
| `AgentUpdatesProofs` | `TypeCorrect`, `PinReached`, `ScheduledOnce`, `PinsHold` |
| `ActionVerdictProofs` | `VerdictInvariant`, `TableSound`, `VerdictsStand`, `WorkedIsClear` |
| `DoctorProofs` | of OutageDoctor `OutageInvariant`, `LostPortWasHeld`, `ItemsTrue`, `LostPortIsTold`; of LagDoctor `LagInvariant`, `SinceBegins`, `DiagnosisSound`, `RisesAreTold` |
| `BlackBoxProofs` | `RecorderInvariant`, `DeathsBuriedOnce`, `DeathsAreReal`, `RecordSound`, `DeathsKept` |
| `AccountsProofs` | `AccountsInvariant`, `CacheStaysFresh`, `AnAdminRemains`, `SignInsAgree`, `TablesStaySound` |
| `ReportProofs` | of NodeRegistry `RegistryInvariant`, `RowsStaySound`, `HolesGetRefilled`; of PulseJudge `PulseInvariant`, `SilencesAreReal`, `TwitchesDoNotClear` |

**Assumptions.** Those the modules name: `BoundsAssumption` (bounds are naturals, a queue
holds at least one command), `TimesAssumption`, `QueueAssumption` and `ConfigAssumption` (thresholds
are positive and a silent node is forgotten later than it is marked offline), `VersionAssumption`
(there is a version, the two thresholds are versions). TLC evaluates each in the runs.
`LagAssumption` says that the units inside a unit are finitely many, do not include it, and include those
inside them; `OutageAssumption` that thresholds are positive and a port's owner is a listed service. `LostPortIsTold` assumes in its statement that a port counts as gone after at most two
ticks, which is the code's constant: with three, two missing readings are not yet enough.
`FiniteAssumption` and the finiteness of `Names` (Accounts) and `Slots` (NodeRegistry) say that there are finitely many nodes, keys, accounts and
reports at a time. `BoundAssumption` gives BlackBox at least one tick and one boot. `SpanAssumption` and `HoldAssumption` put the Pulse's times in
order, the hold within the ring, as it is by default; `ReadingAssumption` says that readings are numbers and that there may be nothing to leave aside.
`CommandBroker`'s theorems are about `Spec`, one life of the host; with a restart `AnswerIsOwn` is false (run `BrokerRestart`).

**CommandBroker.** The properties are not inductive by themselves: that no command runs twice depends on
where the command is. The invariant is `TypeOK /\ Bookkeeping`. `IdsInOrder`:
in one life of the host the k-th request has sequence number k, so ids tell requests apart. `QueuesApart`: a
request is in one queue, once, of its own node, or with its agent, and has not run if it
is in either. `ResultsTrue`: a result an agent may report names the request it ran, and what a future holds is true.
`FuturesAwaited`: a future is there only while somebody may wait for it. There is one lemma
per action. `BrokerKeepsPromise` maps every step to a step or a stutter of `RequestReply`.

**Notifier.** The invariant `IInv` adds to the types that the record agrees with what was said, that an offline mark is older
than its threshold, and that an absence is never longer than the time no list had the finding.
All messages of a step come from `Post`, about which one lemma says that each is queued or lost; what a step posts about a finding is one of
four cases, which are the four actions of `AlertPromise`. `LimitsHold` keeps the limiter's stamps in order, which makes those in the window a
prefix: what `Post` appends to it is what there was room for.

**Vigil.** Every step is one of the notifier's or leaves it alone (`VigilIsNotifier`), so that the notifier's invariant carries over. Its own part follows a list in
hand: what it was made of may since be other than the snapshot, but a finding it had not, and the snapshot has, was lacking then, and calls end within
the minute (`ListsAgree`); the moment a snapshot lacks a finding is now (`LackingNow`); after a sweep no absence is as old as the grace period (`SweptOut`); and a finding the notifier counts as absent was lacking no longer ago than
it is absent, and is lacking still, on its way back, or overtaken (`AbsentIsCleared`). What is resolved was absent at the sweep (`ResolvedWereLacking`).

**AgentUpdates.** The invariant follows a request through its wait: past the list of versions its
target is a published one, and one that is done has an answer from somebody (`RequestsSound`, `AnswersKnown`); a node that had its scheduled update today has its slot taken (`FiredClaimed`);
and an agent whose pin is settled runs it, while all that is open for its node was under way when the pin was stored: what is begun later is begun by somebody who
asks for it and unsettles the pin, because planned updates leave a pinned node alone (`Undisturbed`). A request moved on or freed keeps the table sound (`MoveSound`), so each action is a few lines.

**ActionVerdict.** That a verdict stands depends on nobody else judging the watch at that moment. `OneJudge`: at most one actor is judging. `Undecided`: while
somebody is, the watch is claimed and has no verdict. `NotAged`: while an actor is at work on it, a finished watch does not grow old and
leave. `CommandFirst`: while the command is out there is no watch. `LackedHolds`, `LooksHold`: what the watch counts as cleared, and what a judge has looked at and not put
on the list of what is still there, was missing when last heard of. `Whole`: as long as nobody overlapped, one actor is at work, and what it has
folded so far, or has looked at, agrees with the newest sample; so a verdict "worked", which needs that nothing is left, is about a sample in which all was clear. `StoredIsVerdict`: what the database has is
what was concluded.

**OutageDoctor.** The code's counters are tied to what the readings showed: `HeldIsSeen` (the counter is full for a port that was seen bound often enough in a row and
not down since, and otherwise counts its present row), `GoneIsCounted` (a proven port that the last reading missed has been counted missing), `BaseIsSeen` (a mount's base is
"rw" only if it was seen so and listed since), `RootsAreRecent` (a remembered root the list showed as failed is one of the failed units
the roots were looked up for; another was found broken by a walk no longer ago than the roots are old).

**LagDoctor.** A streak and its beginning are bounded by the diagnoses since the condition was last fine or gone, with equality for families that
always have a value. `DiagnosisSound` takes the finding among those below a dropped one whose unit has the fewest
units inside: it cannot have been dropped itself, because what it was dropped for would have fewer.

**BlackBox.** The invariant follows a recording from the frame to the grave. `PastRec`: what a file says was written by a run that had not ended then.
`OnlyInProcess`: the memory is gone with the process, and a flush is open exactly while its thread is at it. `FlushedInTime`: while the agent runs the file is
its own and less than a flush behind. `MarkedQuiet`: a stop that nothing disturbed owns the temporary file alone, so the mark reaches the disk. `DeathsKnown`: a death of which a recording told is
stored, pending, still told by the file, or lost in one of the two ways; what a process leaves behind, a start finds. `DeathsArePast`: a
death is of a run that is over, so that its uid, the boot and the hour, is of one run, and burying by uid buries once.

**Accounts.** No two accounts sign with one hash (`VersionsApart`), so a session tells its account. `ThreadsInOrder` says what each thread
has in hand, place by place: credentials to be cached are present, or the change that made them old could not reach them; the account it may undo is there, empty and
nobody else's (`OwnersApart`), until somebody links or renames it (`moved`). Of accounts unlinked with nobody at work on them, nothing opens one again
(`UnlinkEndsAccess`, `CutsKnown`). `AdminRemains` needs of the command and the undo that who removes an admin counted another (`Survives`), and fails only
where two counts and changes overlapped.

**NodeRegistry.** For the minutes: two reports with the bucket at once have spoilt for each other every minute they may touch (`Apart`, `Spoilt`), so a report that may touch a minute that is
not raced for finds the bucket, at each of its steps, as it left it (`Undisturbed`), and once a minute is passed, no sample of it is still to come (`Passed`). With that, what is written
was taken, once in each life of the host (`Counted`), and of an undisturbed minute all of it (`Whole`).
For the sections: the report the agent waits for carries all that it is going to take for held (`Brought`), and if the host did not know the agent,
an answer under way says so (`WillBeTold`).

**PulseJudge.** `RingsAreSeen`: the ages of a ring are in order, and a run of its samples under the line is never older than the time since the subject was last at it.
Gaps, reboots, the turn of the hour and the ring's own length only shorten a run, and what the judgement walks back over is such a run.
`TwitchesDoNotClear` needs that a mean which reaches a bound has a sample that does: `SumExists` and `SumIsBelow` prove it of the fold that adds up a window,
by induction over a set of numbers (`AllNumbers`), because the library's induction theorems take an operator.

**Only model-checked.** All liveness (`EveryRequestEnds`, `AbsenceEnds`,
`SilenceIsNoticed`, `DeadNodeIsMarked`, `EveryWatchLeaves`, `QuietIsSaid`, `BackIsCleared`, `CatchesUp`): TLAPS
does not reason about fairness or ENABLED here. Every
other property of a passing run, each state invariant and each action property, is a theorem.

## 5. Where the code and its own words disagree

The first has a run in which TLC finds it ("findings" in `PROJECT.json`). The others were found by TLC as well; their
properties are kept in the modules, and a configuration that names one shows it again.

1. **A result can answer the wrong request** (`BrokerRestart`, `AnswerIsOwn`). Command ids start again at 1 with the
   process, while agents keep what they were handed.
2. **"Resolved" without a message before** (`Notifier`, `ResolvedWasTold`). The sent mark is set before
   the message passes the limiter and the queue, which may drop it.
3. **"Busy again" about an unheard machine** (`Vigil`, `BusyAgainIsTrue`, with one subject, one report in flight, messages of every severity, grace 2, offline after 3, dropped after 15). An unheard node has no items;
   the notifier reads their absence as recovery 120 s later, long before a node counts as
   silent (900 s).
4. **A fresh item of the Pulse is lost** (`Vigil`, `QuietIsHeld`, with one subject, one report in flight and grace 2). A thread that listed the items before
   the loop's renotify observes its older list after it.
5. **A finding the snapshot has is resolved** (`Vigil`, `OnlyClearedResolves`, bounds of `Vigil.cfg`). A list is made from the snapshot and handed over later, without a
   lock (nodes.py 436-441, 519-526); one made before a report brought the finding back may be handed over after that report's own list. `ResolvedWasLacking` is what the code keeps.
6. **"Unknown" needs that there was no sample at all** (`ActionVerdict`, `SilentIsUnknown`). A node that fell silent after one sample
   is judged on that sample.
7. **"Helped" with a finding still active** (`ActionVerdict`, `WorkedOnWholeSample`, bounds of `Verdict.cfg`). The loop's time-out may judge a watch while a thread has folded a sample into some of its
   targets and not into the others, which are still as cleared as in the sample before (verdict.py 104-109). `WorkedMeansClear` is what the code keeps.
8. **The age of a folded silence shrinks** (`PulseJudge`, `SilenceIsOneNumber`). The remembered beginning is kept under the card it was said on,
   and folding changes the card.
9. **A handled stop is read as a death** (`BlackBox`, `HandledStopIsNoDeath`). sampler.py 182 says it is not; a fast tick in flight
   at the stop may flush over the clean mark, or make it fail, and a tick of either tier that changes the deque makes the copy for the mark raise.
10. **`abrupt_stop` is no proof** (`BlackBox`, `AbruptIsProof`). coroner.py 358 calls a recording without a mark proof that no shutdown was
    orderly; an agent that was killed before the machine was shut down leaves the same recording.
11. **A death found is lost** (`BlackBox`, `EveryDeathIsStored`). The first flush of the new run replaces the recording at once, while the death is in memory until
    a report of it is answered; and the host answers a report whose death it failed to store. `NoDeathIsLost` says that there is no third way.
12. **A pin names a version nobody carried out** (`AgentUpdates`, `PinWasCarriedOut`, bounds of `Updates.cfg`). After a restart of the host, the result of an earlier life's command
    answers a request for a version (the ids of 1 again).
13. **A planned update moves a pinned agent** (`AgentUpdates`, `PlanLeavesPinned`). It was queued, or with the agent, when the pin was stored. main.py's "only an explicit
    action moves it" holds from then on (`PinHolds`).
14. **A minute's row counts another's samples** (`NodeRegistry`, `EveryRowIsItsOwn`, bounds of `Registry.cfg`). Two reports flush one bucket: one aggregates it, the other empties it and opens the next minute's,
    and the first then reads that minute to write to (nodes.py 571, 589).
15. **A restart costs a minute its first part** (`NodeRegistry`, `RestartsCostNoSample`). The row written at the stop is replaced by that of the rest of the minute, while its findings are added (db.py 468).
16. **A unit blamed for a failure need not be failed** (`OutageDoctor`, `RootStillFailed`, bounds of `Outage.cfg`). The walk finds a stopped unit with a failed result, or one that failed after the list was read, and blames it for up to
    ten minutes, whatever the list says of it by then. `RootWasFailed` is what the code keeps.
17. **An OOM kill is told twice** (`LagDoctor`, `KillIsNotRepeated`). lag.py 494 and src/README.md 469 say the machine-wide finding stays
    quiet when a unit explains the kill; its counter is one of the fast tier and may rise a diagnosis later.

Others seen while modelling, which no run is kept for:

* a report whose ingest is refused has already resolved its results (main.py 1050), while docs/API.md says a bad
  report changes nothing;
* the worst severity is remembered from a time when nothing could be sent, so an
  escalation seen without a channel is never told (notify.py 112);
* a stopped unit or a journal subject that is gone is not recognised as gone (pulse.py 635)
  and announced as busy again; after a unit was stopped, the walk back over
  its old samples claims time nobody watched (pulse.py 1260);
* a removed agent whose report is being ingested is held again by notifier and Pulse;
* `pulse_hold_minutes` may be set to 240 although the ring holds 40 minutes and only an item already said has a
  remembered beginning: beyond the ring nothing is ever said (config.py 454);
* the hour written at shutdown is replaced by the poorer row of the next process (pulse.py 462);
* a change to a version that
  outlasts its 120 s leaves no pin; a ref sent to an agent that was just
  downgraded below `AGENT_REFS_SINCE` is ignored, and the pin then names a version it does not run;
* *registry*: an answer "unknown" that is lost, or a report merged after its agent gave it up, leaves the host without a section until it changes, and so does a section
  `sanitise_report` drops, which the agent takes for held (`HolesAreRefilled` excepts these); a sample appended to a list that was just flushed is in no row; a
  minute's findings are those at its flush; removing an agent leaves its entry in the registry; a node's override survives at the
  agent when a restarted host has forgotten it (nodes.py 299);
* *accounts*: a renaming never invalidates the cache (auth.py 155), nor does a command; a login that read the old credentials caches them after
  `invalidate`; the host and a command may each remove one of the last two admins; a sign-in in hand at an unlink still gets its session;
  `oidc_link` deletes what it read as pending although it may be claimed by then (auth.py 344); a sign-in that undoes the account it made removes it by name, even
  when it was linked to somebody meanwhile (auth.py 326, whose comment says the empty one goes); a restart between creating and linking an account leaves one that
  nothing opens; an account added under a name that a sign-in took meanwhile gets its password set instead of being refused (main.py 928-930, db.py 1242-1254); `claim_identity` does not look at the e-mail again;
* *Coroner*: the end of any run in the last 15 minutes may be taken for this one's, so that a crash after an OOM kill is called one
  (forensics.py `_agent_end`);
* *Outage Doctor*: an unreadable list of services or a restart caught in the middle makes a lost port forgotten (outage.py 241),
  though its unit runs and has not bound it again (src/README.md 680); a mount whose statvfs fails for a tick loses what it was, and "read-only since the agent started" is then untrue; a failing
  `systemctl` makes items vanish and `since` begin again;
* *Lag Doctor*: one reading of the slow tier, fed by several proc ticks, becomes "sustained"; readings without a value freeze a streak; a kill outside
  all units in the same window as one inside, or seen a diagnosis late together with one, is not told, and `RiseIsTold` does not say that it is; a unit that gains a memory limit tells
  of the kills it ever had as new ones.

## 6. What is not modelled

* **Inside modelled components.** Message wording and the three transports; the limiter's unlocked list (one step here);
  texts and progress of verdicts; in the Pulse the hour buckets, the learned baselines, timers and their runs,
  severities; branch switches and Windows feeds of updates; the interior of the Pulse's `_judge` between its copy and its write-back; the registry's node list, settings and columns
  of a row; API keys, agents' tokens and the login limiter; the protocol with the identity provider, whose answer is an input; the sentences of the
  Coroner; in the Outage Doctor certificates, clock, DNS and what one sample decides; in the Lag Doctor scores, severities, culprits and
  forecasts.
* **Sampler.** Its deadlines, the events tier, the minute rows of the host's own machine, what it publishes. The tiers, the store between them and the stop are in
  BlackBox, OutageDoctor and LagDoctor.
* **Small and sequential.** Wear memory (a row per day from a sum in memory); expectations (minutes of a day, no state of
  their own; a window that ends shortly before midnight is looked for as overrun until midnight only, expect.py 307); the live stream, whose dropped frames the next one
  replaces; the fleet map, a join; trust, a decision over peer and headers; settings, a file.
* **Numbers.** The prognosis, the memory trend, ceilings, changes and the kernel's diagnosis are fits and thresholds over measurements. What they
  conclude enters LagDoctor as a choice of readings; what they compute is out of reach of a finite model.
* **Pure I/O.** The collectors that read /proc, /sys and command output, linux.py, portnames.py,
  changelog.py, SQLite itself, start-up and routing.
* **External.** The agent around its sampler (from how the host uses it and docs/API.md), systemd and the kernel, the
  identity provider, the agents' repository, the dashboard.

## 7. Plan

Done, in this order, the most important behaviour first: the downlink and its promise; the notifier and its promise; both with proofs;
the composition of notifier, Pulse, ingest and loop; verdicts; the Pulse's arithmetic; updates and their proofs; the flight recorder and
the Coroner; the registry; accounts and sign-in; the two doctors; the proofs about verdicts, doctors, the recorder and the Coroner, accounts, the
composition around the notifier, the registry and the Pulse.

Next:

1. In the Pulse: hour buckets, baselines and timers' runs; `_judge` in three steps, copy, compute and write back.
2. The history database's own bookkeeping: retention, thinning, the tables no component above owns.
3. The prognosis' remembered findings, as OutageDoctor has them for its items.
4. The refinement of the doctors to one abstract specification of "said only when so, and for as long as so".

Runs are kept few, one per question.

## 8. Running it

```
tlasany Notifier.tla                       # parse
tlc -workers 2 -config Notifier.cfg MCNotifier.tla
tlapm NotifierProofs.tla
```

`PROJECT.json` names the module of every run. `Notifier`, `Broker`, `Registry`, `Accounts` and `Lag` take two to three minutes on two
cores, the others one or so, and the proofs a quarter of an hour from nothing.
