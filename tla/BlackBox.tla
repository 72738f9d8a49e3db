------------------------------ MODULE BlackBox ------------------------------
(***************************************************************************)
(* The flight recorder of an agent, from its ticks to the grave on the host *)
(* (culprit/collectors/recorder.py, the sampler's fast tick and its stop,   *)
(* culprit/coroner.py, the deaths table of culprit/db.py).                   *)
(*                                                                         *)
(* Time is counted in fast ticks.  The proc tick adds what no property looks *)
(* at, and drops frames that left the window, from a thread of its own: that *)
(* matters while another thread goes through them.                           *)
(* A flush writes a temporary file and then renames it; a rename that       *)
(* returned is taken to be on the disk.  A file that two flushes had open   *)
(* at once is torn and cannot be read; one nobody has open is never read    *)
(* again and is not kept.  The agent process around the sampler, systemd    *)
(* and the kernel are external.                                             *)
(***************************************************************************)
EXTENDS Coroner, FiniteSets

CONSTANTS
  MaxTime, MaxRuns, MaxBoots,   \* bounds on the clock, agent runs and boots
  FlushTicks,   \* FLUSH_SECONDS
  Slack,        \* markers this late after the death still explain it (60 s)
  Lookback,     \* exits of the unit this long before it are read (15 min)
  ExitWindow,   \* and this long after it (120 s)
  Readable,     \* the values of journal_access that occur
  Faults        \* the ways a process ends without a stop

ASSUME BoundAssumption ==
  /\ MaxTime \in Nat \ {0} /\ MaxRuns \in Nat /\ MaxBoots \in Nat \ {0}
  /\ FlushTicks \in Nat \ {0}
  /\ {Slack, Lookback, ExitWindow} \subseteq Nat /\ Readable \subseteq BOOLEAN
  /\ Faults \subseteq {"killed", "crashed", "oom"}

Times == 0..MaxTime
Runs == 0..MaxRuns
Boots == 1..MaxBoots
Flushers == {"tick", "mark"}    \* the thread of the fast tick, the loop's stop

VARIABLES
  now,
  boot,       \* the boot the machine is in
  shutAt,     \* when the shutdown of this boot was ordered, 0 if it was not
  run,        \* the number of the newest agent process
  loop,       \* the event loop: off, run, reading, marking, closing
  tick,       \* the fast tick: idle, sampling, flushing
  proc,       \* the proc tick is in flight
  newest,     \* the time of the newest frame in the deque, 0 for none
  lastFlush,  \* _last_flush
  missed,     \* the last flush that ended did not reach the file
  disk, tmp,  \* the recording and the temporary file beside it
  out,        \* the flushes that have opened the temporary file
  ends,       \* how each run ended, and when
  orders,     \* for each boot that is over: when its shutdown was ordered, or 0
  pending,    \* deaths the agent has found and the host has not answered
  rows,       \* the deaths table
  dead,       \* deaths of which the recording told when a process ended
  unwritten,  \* deaths the host answered without being able to store them
  replaced,   \* deaths whose recording was replaced before the host answered
  announced,  \* how often each death was announced
  quiet       \* runs that were stopped, and nothing disturbed their mark

files == <<disk, tmp, out, missed, quiet>>
recorder == <<loop, tick, proc, newest, lastFlush, files>>
machine == <<boot, shutAt, run, ends, orders>>
host == <<rows, unwritten, announced>>
losses == <<dead, replaced>>
vars == <<now, machine, recorder, pending, host, losses>>

Recording == [run : Runs, boot : Boots, written : Times, newest : Times, clean : BOOLEAN]
NoFile == [state |-> "none"]
File == [state : {"partial", "whole", "torn"}, rec : Recording]
Uids == Boots \X Times
Death == [uid : Uids, kind : {"machine", "agent"}, died : Times, detected : Times,
          run : Runs, class : MachineClasses \cup AgentClasses,
          severity : {"info", "warn", "critical"}, confidence : {"low", "medium", "high"}]

-----------------------------------------------------------------------------
(* Faulty variants: the bugs the properties are there to notice.            *)
DueLate(t) == lastFlush = 0 \/ t - lastFlush > FlushTicks
NotMarked(frame, clean) ==
  [run |-> run, boot |-> boot, written |-> now, newest |-> frame, clean |-> FALSE]
OnlyAlarms(d) == rows' = IF d.severity \in Alarming THEN rows \cup {d} ELSE rows
AnnounceEach(d) ==
  announced' = [announced EXCEPT ![d.uid] = @ + IF d.severity \in Alarming THEN 1 ELSE 0]

-----------------------------------------------------------------------------
(* The recorder.                                                            *)

Recorded(frame, clean) ==
  [run |-> run, boot |-> boot, written |-> now, newest |-> frame, clean |-> clean]

Due(t) == lastFlush = 0 \/ t - lastFlush >= FlushTicks

\* _tick_fast begins on its executor thread, _tick_proc on another; cancelling
\* the task that awaits one does not stop it.
BeginTick ==
  /\ loop = "run"
  /\ \/ tick = "idle" /\ tick' = "sampling" /\ UNCHANGED proc
     \/ ~proc /\ proc' = TRUE /\ UNCHANGED tick
  /\ UNCHANGED <<now, machine, loop, newest, lastFlush, files, pending, host, losses>>

\* The frames are copied and gzip.open truncates the temporary file.
Open(f, rec) ==
  /\ out' = out \cup {f}
  /\ tmp' = [rec |-> rec, state |-> IF out = {} THEN "partial" ELSE "torn"]

\* Frames that come or go while the stop copies them make its flush raise.
Disturb(hurt) ==
  /\ loop' \in IF loop = "reading" THEN {"reading", "closing"} ELSE {loop}
  /\ quiet' = IF loop' # loop \/ hurt THEN quiet \ {run} ELSE quiet

\* observe_fast, then maybe_flush, which notes the time before it flushes.  One
\* that opens the file when the stop already writes its mark, or has, spoils it.
Observe ==
  /\ tick = "sampling"
  /\ newest' = now
  /\ Disturb(Due(now) /\ loop' \in {"marking", "closing"})
  /\ IF Due(now)
     THEN tick' = "flushing" /\ lastFlush' = now /\ Open("tick", Recorded(now, FALSE))
     ELSE tick' = "idle" /\ UNCHANGED <<lastFlush, out, tmp>>
  /\ UNCHANGED <<now, machine, proc, disk, missed, pending, host, losses>>

\* observe_proc: frames that left the window go.
Trim ==
  /\ proc /\ proc' = FALSE
  /\ Disturb(FALSE) /\ (newest = 0 => loop' = loop)
  /\ UNCHANGED <<now, machine, tick, newest, lastFlush, disk, tmp, out, missed, pending, host,
                 losses>>

\* The same while the tick copies them for its flush: no OSError, so the tick
\* fails, and the next flush is an interval away.
TrimInFlush ==
  /\ proc /\ proc' = FALSE
  /\ tick = "sampling" /\ Due(now)
  /\ tick' = "idle" /\ newest' = now /\ lastFlush' = now /\ missed' = TRUE
  /\ Disturb(FALSE)
  /\ UNCHANGED <<now, machine, disk, tmp, out, pending, host, losses>>

\* What follows a flush, whether it succeeded or not.
Done(f) ==
  /\ out' = out \ {f}
  /\ IF f = "tick" THEN tick' = "idle" /\ UNCHANGED loop
                   ELSE loop' = "closing" /\ UNCHANGED tick
  /\ UNCHANGED <<now, machine, proc, newest, lastFlush, pending, host, dead>>

Closed(file) == IF file.state = "partial" THEN [file EXCEPT !.state = "whole"] ELSE file

Rename == disk' = Closed(tmp) /\ tmp' = NoFile

\* The file is closed and os.replace puts it in place.
Replace(f) ==
  /\ f \in out /\ tmp # NoFile
  /\ Rename /\ missed' = FALSE
  /\ replaced' = replaced \cup {d.uid : d \in pending}
  /\ Done(f)
  /\ UNCHANGED quiet

\* OSError: a full disk, or a temporary file the other flush has renamed.
FlushFails(f) ==
  /\ f \in out
  /\ missed' = TRUE
  /\ quiet' = IF f = "mark" THEN quiet \ {run} ELSE quiet
  /\ Done(f)
  /\ tmp' = IF out' = {} THEN NoFile ELSE tmp
  /\ UNCHANGED <<disk, replaced>>

-----------------------------------------------------------------------------
(* The agent's process and its machine.                                     *)

\* SIGTERM: the ticks are cancelled, the stop goes on to its mark.
Stopping ==
  /\ loop' = "reading" /\ quiet' = quiet \cup {run}

Sigterm ==
  /\ loop = "run"
  /\ Stopping
  /\ UNCHANGED <<now, machine, tick, proc, newest, lastFlush, disk, tmp, out, missed, pending,
                 host, losses>>

\* flush(clean_stop=True) copies the frames; a tick may have the same temporary
\* file open.
ReadFrames ==
  /\ loop = "reading"
  /\ loop' = "marking"
  /\ Open("mark", Recorded(newest, TRUE))
  /\ quiet' = IF out = {} THEN quiet ELSE quiet \ {run}
  /\ UNCHANGED <<now, machine, tick, proc, newest, lastFlush, disk, missed, pending, host, losses>>

DiedAt(r) == IF r.newest > r.written THEN r.newest ELSE r.written
Unclean(r) == ~r.clean
Uid(r) == <<r.boot, DiedAt(r)>>

\* The deaths of which the file on the disk tells whoever reads it: none, if it
\* cannot be read or was marked clean.
Told == IF disk # NoFile /\ disk.state = "whole" /\ Unclean(disk.rec) THEN {Uid(disk.rec)} ELSE {}

\* Everything in the memory of the process is gone, its deaths included.
ProcessGone(how) ==
  /\ loop' = "off" /\ tick' = "idle" /\ proc' = FALSE /\ newest' = 0 /\ lastFlush' = 0
  /\ out' = {} /\ tmp' = NoFile /\ missed' = FALSE
  /\ ends' = [ends EXCEPT ![run] = [how |-> how, at |-> now]]
  /\ quiet' = IF how = "stopped" THEN quiet ELSE quiet \ {run}
  /\ pending' = {}
  /\ dead' = dead \cup Told
  /\ UNCHANGED <<now, run, disk, host, replaced>>

\* The executors are shut down after the ticks in flight have ended.
Exit ==
  /\ loop = "closing" /\ tick = "idle" /\ ~proc
  /\ ProcessGone("stopped")
  /\ UNCHANGED <<boot, shutAt, orders>>

\* SIGKILL, the OOM killer, or an error that ends the process.
Killed(how) ==
  /\ loop # "off"
  /\ ProcessGone(how)
  /\ UNCHANGED <<boot, shutAt, orders>>

NextBoot ==
  /\ boot < MaxBoots
  /\ boot' = boot + 1 /\ shutAt' = 0
  /\ orders' = [orders EXCEPT ![boot] = shutAt]

OrderShutdown ==
  /\ shutAt = 0 /\ now > 0
  /\ shutAt' = now
  /\ IF loop = "run" THEN Stopping ELSE UNCHANGED <<loop, quiet>>
  /\ UNCHANGED <<now, boot, run, ends, orders, tick, proc, newest, lastFlush, disk, tmp, out,
                 missed, pending, host, losses>>

Reboot ==
  /\ shutAt > 0 /\ loop = "off"
  /\ NextBoot
  /\ UNCHANGED <<now, run, ends, recorder, pending, host, losses>>

PowerCut ==
  /\ NextBoot
  /\ IF loop = "off" THEN UNCHANGED <<now, run, ends, recorder, pending, host, losses>>
                     ELSE ProcessGone("cut")

-----------------------------------------------------------------------------
(* The next start: detect_death, and the evidence.                          *)

Kind(r, b) == IF r.boot # b THEN "machine" ELSE "agent"

\* The shutdown in the journal of the boot that ended, not much later than
\* the recording.
Markers(r) ==
  IF orders[r.boot] \in 1..(DiedAt(r) + Slack)
  THEN {[kind |-> "shutdown_target", target |-> "shutdown"]} ELSE {}

\* The newest exit of the unit in the window, and whether it was stopped.
AgentEnd(r) ==
  LET exits == {i \in DOMAIN ends : /\ ends[i].how # "none"
                                     /\ ends[i].at >= DiedAt(r) - Lookback
                                     /\ ends[i].at <= DiedAt(r) + ExitWindow}
      bad == {i \in exits : ends[i].how \in {"killed", "crashed", "oom"}}
      last == CHOOSE i \in bad : \A j \in bad : j <= i
      how == IF bad = {} THEN "none" ELSE ends[last].how
  IN  [note |-> exits = {},
       oom |-> \E i \in bad : ends[i].how = "oom",
       code |-> CASE how = "killed" -> "killed" [] how = "crashed" -> "exited"
                  [] OTHER -> "none",
       signal |-> IF how = "killed" THEN "KILL" ELSE "none",
       stopped |-> \E i \in exits : ends[i].how = "stopped"]

Evidence(r, kind, journal) ==
  [journal |-> journal, previous |-> journal, pstore |-> "empty",
   markers |-> IF journal /\ kind = "machine" THEN Markers(r) ELSE {},
   agent |-> IF journal /\ kind = "agent" THEN AgentEnd(r)
             ELSE [NoAgentRecord EXCEPT !.note = FALSE]]

\* The record of a death, with the verdict the host will reach on it.
DeathOf(r, b, journal) ==
  LET kind == Kind(r, b)
      frames == [Unhurt EXCEPT !.n = IF r.newest = 0 THEN 0 ELSE 1]
      verdict == Judge(kind, Evidence(r, kind, journal), frames)
  IN  [uid |-> Uid(r), kind |-> kind, died |-> DiedAt(r),
       detected |-> now, run |-> r.run, class |-> verdict.class,
       severity |-> verdict.severity, confidence |-> verdict.confidence]

Found(journal) == IF Told = {} THEN {} ELSE {DeathOf(disk.rec, boot, journal)}

Start ==
  /\ loop = "off" /\ shutAt = 0 /\ run < MaxRuns
  /\ run' = run + 1 /\ loop' = "run"
  /\ \E journal \in Readable : pending' = Found(journal)
  /\ UNCHANGED <<now, boot, shutAt, ends, orders, tick, proc, newest, lastFlush, files,
                 host, losses>>

-----------------------------------------------------------------------------
(* The report and the host.                                                 *)

\* INSERT OR IGNORE on (node, uid).
WriteDeath(d) == rows' = IF \E r \in rows : r.uid = d.uid THEN rows ELSE rows \cup {d}

Announce(d) ==
  announced' = [announced EXCEPT ![d.uid] =
    @ + IF d.severity \in Alarming /\ ~(\E r \in rows : r.uid = d.uid) THEN 1 ELSE 0]

Answered(d) == pending' \in {pending, pending \ {d}}   \* the answer may be lost

\* A report reaches the host: Coroner.record, then the answer.  One that comes
\* after its agent has ended does what it would have done just before.
Record(d) ==
  /\ WriteDeath(d) /\ Announce(d)
  /\ Answered(d)
  /\ UNCHANGED <<now, machine, recorder, unwritten, losses>>

\* write_death returns None for a database error as it does for a second copy.
RecordFails(d) ==
  /\ Answered(d)
  /\ unwritten' = IF d \in pending' THEN unwritten ELSE unwritten \cup {d.uid}
  /\ UNCHANGED <<now, machine, recorder, rows, announced, losses>>

Clock ==
  /\ now < MaxTime
  /\ now' = now + 1
  /\ UNCHANGED <<machine, recorder, pending, host, losses>>

-----------------------------------------------------------------------------
NotEnded == [how |-> "none", at |-> 0]

Init ==
  /\ now = 1 /\ boot = 1 /\ shutAt = 0 /\ run = 0
  /\ loop = "off" /\ tick = "idle" /\ proc = FALSE /\ newest = 0 /\ lastFlush = 0 /\ missed = FALSE
  /\ disk = NoFile /\ tmp = NoFile /\ out = {}
  /\ ends = [r \in 1..MaxRuns |-> NotEnded]
  /\ orders = [b \in Boots |-> 0]
  /\ pending = {}
  /\ dead = {} /\ replaced = {}
  /\ rows = {} /\ unwritten = {} /\ announced = [u \in Uids |-> 0]
  /\ quiet = {}

Next ==
  \/ BeginTick \/ Observe \/ Trim \/ TrimInFlush
  \/ \E f \in Flushers : Replace(f) \/ FlushFails(f)
  \/ Sigterm \/ ReadFrames \/ Exit
  \/ \E how \in Faults : Killed(how)
  \/ OrderShutdown \/ Reboot \/ PowerCut
  \/ Start
  \/ \E d \in pending : Record(d) \/ RecordFails(d)
  \/ Clock

Spec == Init /\ [][Next]_vars
-----------------------------------------------------------------------------
(* What must hold.                                                          *)

\* Ranges of the state.
TypeOK ==
  /\ now \in Times /\ boot \in Boots /\ shutAt \in Times /\ run \in Runs
  /\ loop \in {"off", "run", "reading", "marking", "closing"}
  /\ tick \in {"idle", "sampling", "flushing"}
  /\ proc \in BOOLEAN /\ newest \in Times /\ lastFlush \in Times /\ missed \in BOOLEAN
  /\ disk \in File \cup {NoFile} /\ tmp \in File \cup {NoFile}
  /\ out \subseteq Flushers
  /\ ends \in [1..MaxRuns -> [how : {"none", "stopped", "killed", "crashed", "oom", "cut"},
                             at : Times]]
  /\ orders \in [Boots -> Times] /\ quiet \subseteq Runs
  /\ pending \subseteq Death /\ rows \subseteq Death
  /\ dead \subseteq Uids /\ replaced \subseteq Uids
  /\ unwritten \subseteq Uids /\ announced \in [Uids -> Nat]

\* A death is stored once and announced once, however often its report is
\* sent and however many starts find the same recording, and it is announced
\* only when it is stored (coroner.py, record; db.py, write_death).
BuriedOnce ==
  /\ \A d, e \in rows : d.uid = e.uid => d = e
  /\ \A u \in Uids : announced[u] =
       Cardinality({d \in rows : d.uid = u /\ d.severity \in Alarming})

\* The end of the run lies between the hour of death and its discovery, and a
\* death of the machine is one of a boot that is over (recorder.py, detect_death).
DeathIsDated ==
  \A d \in pending \cup rows :
    /\ ends[d.run].how # "none"
    /\ d.died <= ends[d.run].at /\ ends[d.run].at <= d.detected
    /\ d.kind = "machine" => d.uid[1] < boot

\* While an agent runs, what is on the disk is whole, its own, and less than
\* FLUSH_SECONDS older than its newest frame, unless the last write failed: the
\* record reaches the end, whenever the end comes (recorder.py, maybe_flush).
RecordReachesEnd ==
  loop = "run" /\ tick # "flushing" /\ newest > 0 /\ ~missed =>
    /\ disk.state = "whole" /\ disk.rec.run = run /\ ~disk.rec.clean
    /\ newest - disk.rec.written < FlushTicks

\* A stop is no death, neither at the next start nor at a later one, although
\* ticks are in flight when it comes and go on beside it: unless frames came or
\* went while it copied them, a tick opened the file together with it or after
\* it, or its write failed (sampler.py, stop).
QuietStopIsNoDeath ==
  \A d \in pending \cup rows : d.run \notin quiet

\* A death that is told happened, when it is said to have: not to a run that was
\* stopped in peace, and not to a boot that goes on.
DeathIsReal == DeathIsDated /\ QuietStopIsNoDeath

\* The recording is sound at any moment at which the agent may end.
RecordIsSound == TypeOK /\ RecordReachesEnd

\* A death of which the recording told when a process ended is stored, or on
\* its way, or the next start finds it again, however often agents end and
\* start in between.  There are two ways to lose one, and no other: the host
\* could not store it and answered, or the agent that had found it replaced the
\* recording before the host answered (nodes.py, ingest; coroner.py, record).
Buried(u) == \E d \in rows : d.uid = u
Underway(u) == \E d \in pending : d.uid = u
NoDeathIsLost ==
  \A u \in dead : Buried(u) \/ Underway(u) \/ u \in Told \cup unwritten \cup replaced

\* The same without the two ways, which the code does not keep.
EveryDeathIsStored == \A u \in dead : Buried(u) \/ Underway(u) \/ u \in Told

\* sampler.py:182: "A handled stop is not a death: the next start must not read
\* this recording as one."
HandledStopIsNoDeath ==
  \A d \in pending : ends[d.run].how # "stopped"

\* coroner.py:358: "A recorder that ran to the end with no clean stop marked is
\* proof of exactly that -- an orderly shutdown stops the agent first and the
\* agent marks the file": abrupt_stop with high confidence is not said of a boot
\* whose shutdown was ordered and did not end under a running agent.
AbruptIsProof ==
  \A d \in pending : d.class = "abrupt_stop" /\ d.confidence = "high" =>
    orders[d.uid[1]] = 0 \/ ends[d.run].how = "cut"
=============================================================================
