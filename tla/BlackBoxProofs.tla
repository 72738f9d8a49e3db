--------------------------- MODULE BlackBoxProofs ---------------------------
(***************************************************************************)
(* What the flight recorder and the grave promise for any number of runs,   *)
(* boots and ticks, any flush interval and any way an agent may end.        *)
(*                                                                         *)
(* The invariant follows a recording from the frame to the grave: what is   *)
(* in a file was written by a run that had not ended then, the file on the  *)
(* disk is the newest flush of the run that goes on, an undisturbed stop    *)
(* owns the temporary file alone until its mark is in place, a death speaks *)
(* of a run that is over, and the recording a death was found in is there   *)
(* for the next start until it is replaced.                                 *)
(***************************************************************************)
EXTENDS BlackBox, FiniteSetTheorems, TLAPS

Ended(r) == ends[r].how # "none"

\* All runs but the newest are over, and that one too when no process is there.
RunsEnd ==
  /\ run = 0 => loop = "off"
  /\ \A r \in 1..MaxRuns : /\ Ended(r) <=> r < run \/ (r = run /\ loop = "off")
                           /\ Ended(r) => ends[r].at <= now

\* A recording was written by a run, before now and before the end of that run.
PastRec(rec) ==
  /\ rec.run \in 1..run /\ rec.boot <= boot /\ rec.written <= now /\ rec.newest <= now
  /\ Ended(rec.run) => rec.written <= ends[rec.run].at /\ rec.newest <= ends[rec.run].at

FilesArePast ==
  /\ newest <= now /\ lastFlush <= now /\ now >= 1
  /\ disk # NoFile => PastRec(disk.rec)
  /\ tmp # NoFile => tmp.rec.run = run /\ PastRec(tmp.rec)

\* What the memory of a process holds is gone with it, and a flush is open
\* exactly while the thread it belongs to is at it.
OnlyInProcess ==
  /\ loop = "off" => tick = "idle" /\ ~proc /\ newest = 0 /\ lastFlush = 0 /\ ~missed /\ pending = {}
  /\ "tick" \in out <=> tick = "flushing"
  /\ "mark" \in out <=> loop = "marking"
  /\ out = {} => tmp = NoFile

\* While the agent runs, the tick alone writes, and the file on the disk is
\* what it wrote last.
FlushedInTime ==
  loop = "run" =>
    /\ newest = 0 <=> lastFlush = 0
    /\ newest - lastFlush < FlushTicks
    /\ tick = "flushing" => /\ tmp # NoFile /\ tmp.state = "partial" /\ ~tmp.rec.clean
                            /\ tmp.rec.written = lastFlush
    /\ tick # "flushing" /\ newest > 0 /\ ~missed =>
         /\ disk # NoFile /\ disk.state = "whole" /\ disk.rec.run = run
         /\ ~disk.rec.clean /\ disk.rec.written = lastFlush

\* From the moment an undisturbed stop writes its mark no tick writes beside it,
\* so what it writes is what is left.
MarkedQuiet ==
  /\ quiet \subseteq 1..run
  /\ run \in quiet => loop # "run"
  /\ run \in quiet /\ loop \in {"marking", "closing"} => tick # "flushing"
  /\ run \in quiet /\ loop = "marking" =>
       tmp # NoFile /\ tmp.state = "partial" /\ tmp.rec.clean
  /\ \A r \in quiet :
       disk # NoFile /\ disk.rec.run = r /\ (r # run \/ loop \in {"closing", "off"})
       => disk.rec.clean

\* A death the recording told of is accounted for without the recording as soon
\* as an agent runs; one on its way could be found again, unless it was replaced.
DeathsKnown ==
  /\ \A u \in dead : \/ Buried(u) \/ Underway(u) \/ u \in unwritten \cup replaced
                     \/ loop = "off" /\ u \in Told
  /\ \A d \in pending : d.uid \in Told \cup replaced

DeathsArePast == \A d \in pending \cup rows : d.run \in 1..run /\ Ended(d.run)

IInv == /\ TypeOK /\ RunsEnd /\ FilesArePast /\ OnlyInProcess /\ FlushedInTime
        /\ MarkedQuiet /\ DeathsArePast /\ DeathIsDated /\ QuietStopIsNoDeath /\ BuriedOnce
        /\ DeathsKnown

(* What no step but a report, a start, an end or a rename touches.          *)
LEMMA StillKnown ==
  ASSUME IInv, UNCHANGED <<pending, rows, unwritten, dead, replaced, disk>>,
         loop # "off" \/ loop' = loop
  PROVE  DeathsKnown'
  BY DEF IInv, DeathsKnown, Buried, Underway, Told

-----------------------------------------------------------------------------
(* Files and recordings: a file that is there has its fields, and a new one *)
(* is never the mark of a missing one.                                      *)
LEMMA FileFields ==
  ASSUME NEW f \in File \cup {NoFile}, f # NoFile
  PROVE  /\ f \in File /\ f.state \in {"partial", "whole", "torn"} /\ f.rec \in Recording
         /\ f.rec.run \in Runs /\ f.rec.boot \in Boots /\ f.rec.written \in Times
         /\ f.rec.newest \in Times /\ f.rec.clean \in BOOLEAN
  BY DEF File, Recording

LEMMA NewFile ==
  ASSUME NEW rec \in Recording, NEW st \in {"partial", "whole", "torn"}
  PROVE  [rec |-> rec, state |-> st] \in File /\ [rec |-> rec, state |-> st] # NoFile
<1> DEFINE f == [rec |-> rec, state |-> st]
<1>1. f \in File
  BY DEF File
<1>2. f.state = st /\ NoFile.state = "none"
  BY DEF NoFile
<1>3. f # NoFile
  BY <1>2
<1> QED
  BY <1>1, <1>3

LEMMA ClosedFile ==
  ASSUME NEW f \in File
  PROVE  /\ Closed(f) \in File /\ Closed(f) # NoFile /\ Closed(f).rec = f.rec
         /\ f.state = "partial" => Closed(f).state = "whole"
<1>1. f # NoFile
  <2>1. f.state \in {"partial", "whole", "torn"} /\ NoFile.state = "none"
    BY DEF File, NoFile
  <2> QED
    BY <2>1
<1>2. CASE f.state = "partial"
  <2>1. Closed(f) = [f EXCEPT !.state = "whole"]
    BY <1>2 DEF Closed
  <2>2. Closed(f) \in File /\ Closed(f).rec = f.rec /\ Closed(f).state = "whole"
    BY <2>1 DEF File
  <2> QED
    BY <2>2, <1>2 DEF NoFile
<1>3. CASE f.state # "partial"
  BY <1>1, <1>3 DEF Closed
<1> QED
  BY <1>2, <1>3

(* Bounds of the state, spelled out for the arithmetic.                     *)
LEMMA Numbers ==
  ASSUME TypeOK
  PROVE  /\ now \in Nat /\ boot \in Nat /\ run \in Nat /\ newest \in Nat /\ lastFlush \in Nat
         /\ now <= MaxTime /\ run <= MaxRuns /\ MaxRuns \in Nat /\ FlushTicks \in Nat
         /\ \A r \in 1..MaxRuns : ends[r].at \in Nat
  BY BoundAssumption DEF TypeOK, Times, Runs, Boots

-----------------------------------------------------------------------------
(* The ticks.                                                               *)
LEMMA BeginTickKeeps ==
  ASSUME IInv, BeginTick
  PROVE  IInv'
<1>0. /\ loop = "run" /\ UNCHANGED <<now, boot, shutAt, run, ends, orders, loop, newest, lastFlush,
                    disk, tmp, out, missed, quiet, pending, rows, unwritten, announced, dead, replaced>>
      /\ proc' \in BOOLEAN /\ tick' \in {tick, "sampling"} /\ (tick' = tick \/ tick = "idle")
  BY DEF BeginTick, machine, files, host, losses, IInv, TypeOK
<1>6. DeathsKnown'
  BY <1>0, StillKnown
<1> USE DEF IInv
<1>1. TypeOK'
  BY <1>0 DEF TypeOK
<1>2. RunsEnd' /\ FilesArePast'
  BY <1>0 DEF RunsEnd, FilesArePast, PastRec, Ended
<1>3. OnlyInProcess' /\ FlushedInTime'
  BY <1>0 DEF OnlyInProcess, FlushedInTime
<1>4. MarkedQuiet'
  BY <1>0 DEF MarkedQuiet
<1>5. DeathsArePast' /\ DeathIsDated' /\ QuietStopIsNoDeath' /\ BuriedOnce'
  BY <1>0 DEF DeathsArePast, Ended, DeathIsDated, QuietStopIsNoDeath, BuriedOnce
<1> QED
  BY <1>1, <1>2, <1>3, <1>4, <1>5, <1>6

(* The temporary file a flush has just opened.                              *)
LEMMA OpenKeeps ==
  ASSUME IInv, loop # "off", NEW f \in Flushers, NEW frame \in Times, frame <= now,
         NEW clean \in BOOLEAN, Open(f, Recorded(frame, clean))
  PROVE  /\ tmp' \in File /\ tmp' # NoFile
         /\ tmp'.state = IF out = {} THEN "partial" ELSE "torn"
         /\ tmp'.rec.run = run /\ tmp'.rec.written = now /\ tmp'.rec.clean = clean
         /\ PastRec(tmp'.rec)
         /\ out' \subseteq Flushers
<1> DEFINE rec == Recorded(frame, clean)
           st == IF out = {} THEN "partial" ELSE "torn"
<1>1. rec \in Recording /\ rec.run = run /\ rec.boot = boot /\ rec.written = now
      /\ rec.newest = frame /\ rec.clean = clean
  BY DEF IInv, TypeOK, Recorded, Recording
<1>2. run \in 1..run /\ ~Ended(run)
  BY Numbers, BoundAssumption DEF IInv, RunsEnd, TypeOK, Runs
<1>3. PastRec(rec)
  BY <1>1, <1>2, Numbers DEF PastRec, IInv
<1>4. tmp' = [rec |-> rec, state |-> st]
  BY DEF Open
<1> HIDE DEF rec
<1>5. tmp' \in File /\ tmp' # NoFile /\ tmp'.rec = rec /\ tmp'.state = st
  BY <1>1, <1>4, NewFile
<1> QED
  BY <1>1, <1>3, <1>5 DEF Open, IInv, TypeOK

(* A stop that is disturbed goes on without its mark, and is no longer one  *)
(* of those that count; any other goes on as it was.                        *)
LEMMA Disturbed ==
  ASSUME TypeOK, NEW hurt \in BOOLEAN, Disturb(hurt)
  PROVE  /\ loop' = loop \/ (loop = "reading" /\ loop' = "closing")
         /\ loop' \in {"off", "run", "reading", "marking", "closing"}
         /\ quiet' \subseteq quiet
         /\ run \in quiet' => loop' = loop /\ ~hurt
  BY DEF Disturb, TypeOK

(* A frame that is taken, with or without a flush, or a trim: what a tick   *)
(* may do beside the loop.                                                  *)
LEMMA BesideKeeps ==
  ASSUME IInv, loop # "off",
         UNCHANGED <<now, boot, shutAt, run, ends, orders, disk, pending, rows, unwritten,
                     announced, dead, replaced>>,
         loop' = loop \/ (loop = "reading" /\ loop' = "closing"),
         quiet' \subseteq quiet
  PROVE  /\ DeathsArePast' /\ DeathIsDated' /\ QuietStopIsNoDeath' /\ BuriedOnce' /\ RunsEnd'
         /\ DeathsKnown'
<1>1. DeathsKnown'
  BY StillKnown
<1>2. DeathsArePast' /\ DeathIsDated' /\ QuietStopIsNoDeath' /\ BuriedOnce' /\ RunsEnd'
  BY DEF IInv, DeathsArePast, Ended, DeathIsDated, QuietStopIsNoDeath, BuriedOnce, RunsEnd
<1> QED
  BY <1>1, <1>2

LEMMA ObserveKeeps ==
  ASSUME IInv, Observe
  PROVE  IInv'
<1>0. loop # "off" /\ run \in 1..MaxRuns
  BY Numbers DEF Observe, OnlyInProcess, RunsEnd, TypeOK, Runs, IInv
<1>1. /\ UNCHANGED <<now, boot, shutAt, run, ends, orders, proc, disk, missed, pending, rows,
                     unwritten, announced, dead, replaced>>
      /\ newest' = now /\ tick = "sampling"
  BY DEF Observe, machine, host, losses
<1>2. /\ loop' = loop \/ (loop = "reading" /\ loop' = "closing")
      /\ loop' \in {"off", "run", "reading", "marking", "closing"}
      /\ quiet' \subseteq quiet
      /\ run \in quiet' => loop' = loop /\ ~(Due(now) /\ loop' \in {"marking", "closing"})
  <2> DEFINE hurt == Due(now) /\ loop' \in {"marking", "closing"}
  <2>1. hurt \in BOOLEAN /\ Disturb(hurt) /\ TypeOK
    BY DEF Observe, IInv
  <2> HIDE DEF hurt
  <2>2. /\ loop' = loop \/ (loop = "reading" /\ loop' = "closing")
        /\ loop' \in {"off", "run", "reading", "marking", "closing"}
        /\ quiet' \subseteq quiet
        /\ run \in quiet' => loop' = loop /\ ~hurt
    BY <2>1, Disturbed
  <2> QED
    BY <2>2 DEF hurt
<1>3. /\ DeathsArePast' /\ DeathIsDated' /\ QuietStopIsNoDeath' /\ BuriedOnce' /\ RunsEnd'
      /\ DeathsKnown'
  BY <1>0, <1>1, <1>2, BesideKeeps
<1>4. CASE Due(now)
  <2>1. tick' = "flushing" /\ lastFlush' = now /\ Open("tick", Recorded(now, FALSE))
    BY <1>4 DEF Observe
  <2>2. /\ tmp' \in File /\ tmp' # NoFile
        /\ tmp'.state = IF out = {} THEN "partial" ELSE "torn"
        /\ tmp'.rec.run = run /\ tmp'.rec.written = now /\ tmp'.rec.clean = FALSE
        /\ PastRec(tmp'.rec)
        /\ out' \subseteq Flushers
    <3>1. now \in Times /\ now <= now /\ "tick" \in Flushers /\ FALSE \in BOOLEAN
      BY Numbers DEF TypeOK, Flushers, IInv
    <3> QED
      BY <1>0, <2>1, <3>1, OpenKeeps
  <2> USE DEF IInv
  <2>3. out' = out \cup {"tick"} /\ (out = {} \/ loop = "marking")
    BY <2>1, <1>1 DEF Open, OnlyInProcess, TypeOK, Flushers
  <2>4. TypeOK'
    BY <1>1, <1>2, <2>1, <2>2 DEF TypeOK
  <2>5. FilesArePast'
    BY <1>1, <2>1, <2>2, Numbers DEF FilesArePast, PastRec, Ended, TypeOK
  <2>6. OnlyInProcess'
    BY <1>0, <1>1, <1>2, <2>1, <2>3, <2>2 DEF OnlyInProcess
  <2>7. FlushedInTime'
    BY <1>0, <1>1, <1>2, <2>1, <2>2, <2>3, Numbers, BoundAssumption DEF FlushedInTime, FilesArePast
  <2>8. MarkedQuiet'
    BY <1>1, <1>2, <1>4 DEF MarkedQuiet
  <2> QED
    BY <1>3, <2>4, <2>5, <2>6, <2>7, <2>8
<1>5. CASE ~Due(now)
  <2>1. tick' = "idle" /\ UNCHANGED <<lastFlush, out, tmp>>
    BY <1>5 DEF Observe
  <2> USE DEF IInv
  <2>2. TypeOK'
    BY <1>1, <1>2, <2>1 DEF TypeOK
  <2>3. FilesArePast'
    BY <1>1, <2>1, Numbers DEF FilesArePast, PastRec, Ended
  <2>4. OnlyInProcess'
    BY <1>0, <1>1, <1>2, <2>1 DEF OnlyInProcess
  <2>5. FlushedInTime'
    BY <1>5, <1>0, <1>1, <1>2, <2>1, Numbers DEF FlushedInTime, FilesArePast, Due
  <2>6. MarkedQuiet'
    BY <1>1, <1>2, <2>1 DEF MarkedQuiet
  <2> QED
    BY <1>3, <2>2, <2>3, <2>4, <2>5, <2>6
<1> QED
  BY <1>4, <1>5

LEMMA TrimKeeps ==
  ASSUME IInv, Trim
  PROVE  IInv'
<1>1. /\ UNCHANGED <<now, boot, shutAt, run, ends, orders, tick, newest, lastFlush, disk, tmp, out,
                     missed, pending, rows, unwritten, announced, dead, replaced>>
      /\ proc' = FALSE /\ loop # "off"
  BY DEF Trim, machine, host, losses, IInv, OnlyInProcess
<1>2. /\ loop' = loop \/ (loop = "reading" /\ loop' = "closing")
      /\ loop' \in {"off", "run", "reading", "marking", "closing"}
      /\ quiet' \subseteq quiet
      /\ run \in quiet' => loop' = loop
  BY Disturbed DEF Trim, IInv
<1>3. /\ DeathsArePast' /\ DeathIsDated' /\ QuietStopIsNoDeath' /\ BuriedOnce' /\ RunsEnd'
      /\ DeathsKnown'
  BY <1>1, <1>2, BesideKeeps
<1> USE DEF IInv
<1>4. TypeOK'
  BY <1>1, <1>2 DEF TypeOK
<1>5. FilesArePast' /\ OnlyInProcess' /\ FlushedInTime'
  BY <1>1, <1>2 DEF FilesArePast, PastRec, Ended, OnlyInProcess, FlushedInTime
<1>6. MarkedQuiet'
  BY <1>1, <1>2 DEF MarkedQuiet
<1> QED
  BY <1>3, <1>4, <1>5, <1>6

LEMMA TrimInFlushKeeps ==
  ASSUME IInv, TrimInFlush
  PROVE  IInv'
<1>1. /\ UNCHANGED <<now, boot, shutAt, run, ends, orders, disk, tmp, out, pending, rows, unwritten,
                     announced, dead, replaced>>
      /\ proc' = FALSE /\ loop # "off" /\ tick = "sampling" /\ tick' = "idle"
      /\ newest' = now /\ lastFlush' = now /\ missed' = TRUE
  BY DEF TrimInFlush, machine, host, losses, IInv, OnlyInProcess
<1>2. /\ loop' = loop \/ (loop = "reading" /\ loop' = "closing")
      /\ loop' \in {"off", "run", "reading", "marking", "closing"}
      /\ quiet' \subseteq quiet
      /\ run \in quiet' => loop' = loop
  BY Disturbed DEF TrimInFlush, IInv
<1>3. /\ DeathsArePast' /\ DeathIsDated' /\ QuietStopIsNoDeath' /\ BuriedOnce' /\ RunsEnd'
      /\ DeathsKnown'
  BY <1>1, <1>2, BesideKeeps
<1> USE DEF IInv
<1>4. TypeOK'
  BY <1>1, <1>2 DEF TypeOK
<1>5. FilesArePast'
  BY <1>1, Numbers DEF FilesArePast, PastRec, Ended
<1>6. OnlyInProcess'
  BY <1>1, <1>2 DEF OnlyInProcess
<1>7. FlushedInTime'
  BY <1>1, <1>2, Numbers, BoundAssumption DEF FlushedInTime, FilesArePast
<1>8. MarkedQuiet'
  BY <1>1, <1>2 DEF MarkedQuiet
<1> QED
  BY <1>3, <1>4, <1>5, <1>6, <1>7, <1>8

(* A flush that ends, in place or not, leaves the deaths and the runs alone. *)
LEMMA DoneKeeps ==
  ASSUME IInv, NEW f \in Flushers, f \in out, Done(f), quiet' \subseteq quiet
  PROVE  /\ UNCHANGED <<now, boot, shutAt, run, ends, orders, newest, lastFlush, pending, proc,
                        rows, unwritten, announced, dead>>
         /\ DeathsArePast' /\ DeathIsDated' /\ QuietStopIsNoDeath' /\ BuriedOnce' /\ RunsEnd'
         /\ loop # "off" /\ loop' # "off" /\ out' = out \ {f}
         /\ f = "tick" => /\ tick = "flushing" /\ tick' = "idle" /\ loop' = loop
                          /\ out' = {} \/ loop = "marking"
         /\ f = "mark" => loop = "marking" /\ loop' = "closing" /\ tick' = tick
<1> USE DEF IInv
<1>1. UNCHANGED <<now, boot, shutAt, run, ends, orders, newest, lastFlush, pending, proc,
                  rows, unwritten, announced, dead>>
  BY DEF Done, machine, host
<1>2. /\ out' = out \ {f}
      /\ f = "tick" => tick = "flushing" /\ tick' = "idle" /\ loop' = loop
      /\ f = "mark" => loop = "marking" /\ loop' = "closing" /\ tick' = tick
      /\ loop # "off"
  BY DEF Done, OnlyInProcess, Flushers
<1>3. f = "tick" => out' = {} \/ loop = "marking"
  BY <1>2 DEF OnlyInProcess, TypeOK, Flushers
<1>4. loop' # "off"
  BY <1>2 DEF Flushers
<1>5. DeathsArePast' /\ DeathIsDated' /\ QuietStopIsNoDeath' /\ BuriedOnce'
  BY <1>1 DEF DeathsArePast, Ended, DeathIsDated, QuietStopIsNoDeath, BuriedOnce
<1>6. RunsEnd'
  BY <1>1, <1>2, <1>4 DEF RunsEnd, Ended
<1> QED
  BY <1>1, <1>2, <1>3, <1>4, <1>5, <1>6

LEMMA ReplaceKeeps ==
  ASSUME IInv, NEW f \in Flushers, Replace(f)
  PROVE  IInv'
<1> USE DEF IInv
<1>1. /\ f \in out /\ Done(f) /\ quiet' = quiet /\ missed' = FALSE
      /\ replaced' = replaced \cup {d.uid : d \in pending}
      /\ tmp # NoFile /\ disk' = Closed(tmp) /\ tmp' = NoFile
  BY DEF Replace, Rename
<1>2. /\ UNCHANGED <<now, boot, shutAt, run, ends, orders, newest, lastFlush, pending, proc,
                     rows, unwritten, announced, dead>>
      /\ DeathsArePast' /\ DeathIsDated' /\ QuietStopIsNoDeath' /\ BuriedOnce' /\ RunsEnd'
      /\ loop # "off" /\ loop' # "off" /\ out' = out \ {f}
      /\ f = "tick" => /\ tick = "flushing" /\ tick' = "idle" /\ loop' = loop
                       /\ out' = {} \/ loop = "marking"
      /\ f = "mark" => loop = "marking" /\ loop' = "closing" /\ tick' = tick
  <2> HIDE DEF IInv
  <2> QED
    BY <1>1, DoneKeeps
<1>3. /\ tmp \in File /\ disk' \in File /\ disk' # NoFile /\ disk'.rec = tmp.rec
      /\ tmp.state = "partial" => disk'.state = "whole"
      /\ tmp.rec.run = run /\ PastRec(tmp.rec)
  BY <1>1, FileFields, ClosedFile DEF TypeOK, FilesArePast
<1>9. {d.uid : d \in pending} \subseteq Uids
  BY DEF TypeOK, Death
<1>10. DeathsKnown'
  <2>1. \A d \in pending' : d.uid \in replaced'
    BY <1>1, <1>2
  <2>2. ASSUME NEW u \in dead'
        PROVE  Buried(u)' \/ Underway(u)' \/ u \in (unwritten \cup replaced)'
    BY <1>1, <1>2 DEF DeathsKnown, Buried, Underway
  <2> QED
    BY <2>1, <2>2 DEF DeathsKnown
<1>4. TypeOK'
  BY <1>1, <1>2, <1>3, <1>9 DEF TypeOK, Flushers
<1>5. FilesArePast'
  BY <1>1, <1>2, <1>3, Numbers DEF FilesArePast, PastRec, Ended
<1>6. OnlyInProcess'
  BY <1>1, <1>2 DEF OnlyInProcess, Flushers
<1>7. FlushedInTime'
  BY <1>1, <1>2, <1>3, Numbers DEF FlushedInTime, Flushers
<1>8. MarkedQuiet'
  <2>1. run \in quiet => (f = "mark" /\ loop = "marking")
                          \/ (f = "tick" /\ loop = "reading" /\ loop' = "reading")
    BY <1>2 DEF MarkedQuiet, Flushers, TypeOK
  <2>2. run \in quiet /\ f = "mark" => disk'.rec.clean
    BY <1>2, <1>3 DEF MarkedQuiet
  <2>3. disk'.rec.run = run
    BY <1>3
  <2> QED
    BY <1>1, <1>2, <2>1, <2>2, <2>3 DEF MarkedQuiet
<1> QED
  BY <1>2, <1>4, <1>5, <1>6, <1>7, <1>8, <1>10

LEMMA FlushFailsKeeps ==
  ASSUME IInv, NEW f \in Flushers, FlushFails(f)
  PROVE  IInv'
<1>1. /\ f \in out /\ Done(f) /\ missed' = TRUE /\ disk' = disk /\ replaced' = replaced
      /\ quiet' = IF f = "mark" THEN quiet \ {run} ELSE quiet
      /\ tmp' = IF out' = {} THEN NoFile ELSE tmp
  BY DEF FlushFails
<1>2. /\ UNCHANGED <<now, boot, shutAt, run, ends, orders, newest, lastFlush, pending, proc,
                     rows, unwritten, announced, dead>>
      /\ DeathsArePast' /\ DeathIsDated' /\ QuietStopIsNoDeath' /\ BuriedOnce' /\ RunsEnd'
      /\ loop # "off" /\ loop' # "off" /\ out' = out \ {f}
      /\ f = "tick" => /\ tick = "flushing" /\ tick' = "idle" /\ loop' = loop
                       /\ out' = {} \/ loop = "marking"
      /\ f = "mark" => loop = "marking" /\ loop' = "closing" /\ tick' = tick
  <2>1. quiet' \subseteq quiet
    BY <1>1
  <2> QED
    BY <1>1, <2>1, DoneKeeps
<1>3. DeathsKnown'
  BY <1>1, <1>2, StillKnown
<1> USE DEF IInv
<1>4. TypeOK'
  BY <1>1, <1>2 DEF TypeOK, Flushers
<1>5. FilesArePast'
  BY <1>1, <1>2, Numbers DEF FilesArePast, PastRec, Ended
<1>6. OnlyInProcess'
  BY <1>1, <1>2 DEF OnlyInProcess, Flushers
<1>7. FlushedInTime'
  BY <1>1, <1>2, Numbers DEF FlushedInTime, Flushers
<1>8. MarkedQuiet'
  BY <1>1, <1>2 DEF MarkedQuiet, Flushers
<1> QED
  BY <1>2, <1>3, <1>4, <1>5, <1>6, <1>7, <1>8

-----------------------------------------------------------------------------
(* The stop and the end of a process.                                       *)
LEMMA StoppingKeeps ==
  ASSUME IInv, loop = "run", Stopping,
         UNCHANGED <<now, boot, run, ends, orders, tick, proc, newest, lastFlush, disk,
                     tmp, out, missed, pending, host, losses>>,
         shutAt' \in Times
  PROVE  IInv'
<1>9. DeathsKnown'
  BY StillKnown DEF host, losses
<1> USE DEF IInv, host, losses
<1>1. loop' = "reading" /\ quiet' = quiet \cup {run}
  BY DEF Stopping
<1>2. run \in 1..MaxRuns /\ ~Ended(run)
  BY Numbers DEF RunsEnd, TypeOK, Runs
<1>3. TypeOK'
  BY <1>1 DEF TypeOK
<1>4. FilesArePast' /\ RunsEnd'
  BY <1>1 DEF FilesArePast, PastRec, Ended, RunsEnd
<1>5. OnlyInProcess' /\ FlushedInTime'
  BY <1>1 DEF OnlyInProcess, FlushedInTime
<1>6. MarkedQuiet'
  BY <1>1, <1>2 DEF MarkedQuiet
<1>7. DeathsArePast' /\ DeathIsDated' /\ BuriedOnce'
  BY DEF DeathsArePast, Ended, DeathIsDated, BuriedOnce
<1>8. QuietStopIsNoDeath'
  BY <1>1, <1>2 DEF QuietStopIsNoDeath, DeathsArePast
<1> QED
  BY <1>3, <1>4, <1>5, <1>6, <1>7, <1>8, <1>9

LEMMA SigtermKeeps ==
  ASSUME IInv, Sigterm
  PROVE  IInv'
<1>1. /\ loop = "run" /\ Stopping /\ shutAt' = shutAt
      /\ UNCHANGED <<now, boot, run, ends, orders, tick, proc, newest, lastFlush, disk,
                     tmp, out, missed, pending, host, losses>>
  BY DEF Sigterm, machine
<1>2. shutAt' \in Times
  BY <1>1 DEF IInv, TypeOK
<1> QED
  BY <1>1, <1>2, StoppingKeeps

LEMMA OrderShutdownKeeps ==
  ASSUME IInv, OrderShutdown
  PROVE  IInv'
<1>1. /\ UNCHANGED <<now, boot, run, ends, orders, tick, proc, newest, lastFlush, disk,
                     tmp, out, missed, pending, host, losses>>
      /\ shutAt' \in Times
  BY DEF OrderShutdown, IInv, TypeOK
<1>2. CASE loop = "run"
  <2>1. Stopping
    BY <1>2 DEF OrderShutdown
  <2> QED
    BY <1>1, <1>2, <2>1, StoppingKeeps
<1>3. CASE loop # "run"
  <2>5. DeathsKnown'
    BY <1>1, <1>3, StillKnown DEF OrderShutdown, host, losses
  <2> USE DEF IInv, host, losses
  <2>1. UNCHANGED <<loop, quiet>>
    BY <1>3 DEF OrderShutdown
  <2>2. TypeOK' /\ RunsEnd' /\ FilesArePast'
    BY <1>1, <2>1 DEF TypeOK, RunsEnd, FilesArePast, PastRec, Ended
  <2>3. OnlyInProcess' /\ FlushedInTime' /\ MarkedQuiet'
    BY <1>1, <2>1 DEF OnlyInProcess, FlushedInTime, MarkedQuiet
  <2>4. DeathsArePast' /\ DeathIsDated' /\ QuietStopIsNoDeath' /\ BuriedOnce'
    BY <1>1, <2>1 DEF DeathsArePast, Ended, DeathIsDated, QuietStopIsNoDeath, BuriedOnce
  <2> QED
    BY <2>2, <2>3, <2>4, <2>5
<1> QED
  BY <1>2, <1>3

LEMMA ReadFramesKeeps ==
  ASSUME IInv, ReadFrames
  PROVE  IInv'
<1>1. /\ loop = "reading" /\ loop' = "marking" /\ Open("mark", Recorded(newest, TRUE))
      /\ UNCHANGED <<now, boot, shutAt, run, ends, orders, tick, proc, newest, lastFlush,
                     disk, missed, pending, rows, unwritten, announced, dead, replaced>>
      /\ quiet' = IF out = {} THEN quiet ELSE quiet \ {run}
  BY DEF ReadFrames, machine, host, losses
<1>2. /\ tmp' \in File /\ tmp' # NoFile
      /\ tmp'.state = IF out = {} THEN "partial" ELSE "torn"
      /\ tmp'.rec.run = run /\ tmp'.rec.written = now /\ tmp'.rec.clean = TRUE
      /\ PastRec(tmp'.rec)
      /\ out' \subseteq Flushers
  <2>1. newest \in Times /\ newest <= now /\ "mark" \in Flushers /\ TRUE \in BOOLEAN
        /\ loop # "off"
    BY <1>1 DEF IInv, TypeOK, FilesArePast, Flushers
  <2> QED
    BY <1>1, <2>1, OpenKeeps
<1>3. out' = out \cup {"mark"}
  BY <1>1 DEF Open
<1>9. DeathsKnown'
  BY <1>1, StillKnown
<1> USE DEF IInv
<1>4. TypeOK' /\ RunsEnd'
  BY <1>1, <1>2 DEF TypeOK, RunsEnd, Ended
<1>5. FilesArePast'
  BY <1>1, <1>2 DEF FilesArePast, PastRec, Ended
<1>6. OnlyInProcess' /\ FlushedInTime'
  BY <1>1, <1>2, <1>3 DEF OnlyInProcess, FlushedInTime
<1>7. MarkedQuiet'
  <2>1. run \in quiet' => out = {} /\ tick # "flushing"
    BY <1>1 DEF OnlyInProcess
  <2> QED
    BY <1>1, <1>2, <2>1 DEF MarkedQuiet
<1>8. DeathsArePast' /\ DeathIsDated' /\ QuietStopIsNoDeath' /\ BuriedOnce'
  BY <1>1 DEF DeathsArePast, Ended, DeathIsDated, QuietStopIsNoDeath, BuriedOnce
<1> QED
  BY <1>4, <1>5, <1>6, <1>7, <1>8, <1>9

(* The end of a process: its memory goes, its run gets an end, and a stop   *)
(* in peace has its mark in place by then.                                  *)
LEMMA ProcessGoneKeeps ==
  ASSUME IInv, loop # "off", NEW how \in {"stopped", "killed", "crashed", "oom", "cut"},
         ProcessGone(how), how = "stopped" => loop = "closing",
         boot' \in Boots, boot <= boot', shutAt' \in Times, orders' \in [Boots -> Times]
  PROVE  IInv'
<1>1. /\ loop' = "off" /\ tick' = "idle" /\ proc' = FALSE /\ newest' = 0 /\ lastFlush' = 0
      /\ out' = {} /\ tmp' = NoFile /\ missed' = FALSE
      /\ ends' = [ends EXCEPT ![run] = [how |-> how, at |-> now]]
      /\ quiet' = IF how = "stopped" THEN quiet ELSE quiet \ {run}
      /\ pending' = {}
      /\ dead' = dead \cup Told
      /\ UNCHANGED <<now, run, disk, rows, unwritten, announced, replaced>>
  BY DEF ProcessGone, host
<1> USE DEF IInv
<1>2. run \in 1..MaxRuns /\ ~Ended(run)
  BY Numbers DEF RunsEnd, TypeOK, Runs
<1>3. /\ ends'[run].how = how /\ ends'[run].at = now
      /\ \A r \in 1..MaxRuns : r # run => ends'[r] = ends[r]
      /\ ends' \in [1..MaxRuns -> [how : {"none", "stopped", "killed", "crashed", "oom", "cut"},
                                   at : Times]]
  BY <1>1, <1>2 DEF TypeOK
<1>13. Told \subseteq Uids
  <2>1. ASSUME disk # NoFile PROVE Uid(disk.rec) \in Uids
    BY <2>1, FileFields DEF Uid, DiedAt, Uids, TypeOK
  <2> QED
    BY <2>1 DEF Told
<1>14. DeathsKnown'
  BY <1>1 DEF DeathsKnown, Buried, Underway, Told
<1>4. TypeOK'
  <2>1. 0 \in Times /\ quiet' \subseteq quiet
    BY <1>1, BoundAssumption DEF Times
  <2> QED
    BY <1>1, <1>3, <1>13, <2>1 DEF TypeOK
<1>5. RunsEnd'
  BY <1>1, <1>2, <1>3, Numbers DEF RunsEnd, Ended
<1>6. FilesArePast'
  <2>1. ASSUME disk # NoFile PROVE PastRec(disk.rec)'
    <3>1. PastRec(disk.rec)
      BY <2>1 DEF FilesArePast
    <3>2. disk.rec.boot \in Nat /\ boot \in Nat /\ boot' \in Nat
      BY <2>1, FileFields, BoundAssumption DEF TypeOK, Boots
    <3>3. disk.rec.run \in 1..MaxRuns
      BY <3>1, Numbers DEF PastRec
    <3> QED
      BY <1>1, <1>3, <3>1, <3>2, <3>3 DEF PastRec, Ended
  <2> QED
    BY <1>1, <2>1, Numbers, BoundAssumption DEF FilesArePast
<1>7. OnlyInProcess' /\ FlushedInTime'
  BY <1>1 DEF OnlyInProcess, FlushedInTime
<1>8. MarkedQuiet'
  BY <1>1 DEF MarkedQuiet
<1>9. ASSUME NEW d \in rows
      PROVE  d.run \in 1..run /\ d.run # run /\ ends'[d.run] = ends[d.run] /\ Ended(d.run)
  BY <1>2, <1>3, Numbers DEF DeathsArePast
<1>10. DeathsArePast'
  BY <1>1, <1>9 DEF DeathsArePast, Ended
<1>11. DeathIsDated'
  <2>1. boot \in Nat /\ boot' \in Nat /\ \A d \in rows : d.uid[1] \in Nat
    BY BoundAssumption DEF TypeOK, Boots, Death, Uids
  <2> QED
    BY <1>1, <1>9, <2>1 DEF DeathIsDated
<1>12. QuietStopIsNoDeath' /\ BuriedOnce'
  BY <1>1 DEF QuietStopIsNoDeath, BuriedOnce
<1> QED
  BY <1>4, <1>5, <1>6, <1>7, <1>8, <1>10, <1>11, <1>12, <1>14

LEMMA ExitKeeps ==
  ASSUME IInv, Exit
  PROVE  IInv'
<1>1. loop = "closing" /\ ProcessGone("stopped") /\ UNCHANGED <<boot, shutAt, orders>>
  BY DEF Exit
<1>2. boot' \in Boots /\ boot <= boot' /\ shutAt' \in Times /\ orders' \in [Boots -> Times]
  BY <1>1, Numbers DEF IInv, TypeOK
<1> QED
  BY <1>1, <1>2, ProcessGoneKeeps

LEMMA KilledKeeps ==
  ASSUME IInv, NEW how \in Faults, Killed(how)
  PROVE  IInv'
<1>1. loop # "off" /\ ProcessGone(how) /\ UNCHANGED <<boot, shutAt, orders>>
  BY DEF Killed
<1>2. boot' \in Boots /\ boot <= boot' /\ shutAt' \in Times /\ orders' \in [Boots -> Times]
  BY <1>1, Numbers DEF IInv, TypeOK
<1>3. how \in {"killed", "crashed", "oom"}
  BY BoundAssumption
<1> QED
  BY <1>1, <1>2, <1>3, ProcessGoneKeeps

LEMMA NextBootTyped ==
  ASSUME TypeOK, NextBoot
  PROVE  /\ boot' \in Boots /\ boot <= boot' /\ boot \in Nat /\ boot' \in Nat
         /\ shutAt' \in Times /\ orders' \in [Boots -> Times]
  BY BoundAssumption DEF NextBoot, TypeOK, Boots, Times

(* A machine that is started anew with no agent on it changes its boot only. *)
LEMMA BootKeeps ==
  ASSUME IInv, NextBoot, UNCHANGED <<now, run, ends, recorder, pending, host, losses>>
  PROVE  IInv'
<1>7. DeathsKnown'
  BY StillKnown DEF recorder, files, host, losses
<1> USE DEF IInv, recorder, files, host, losses
<1>1. /\ boot' \in Boots /\ boot <= boot' /\ boot \in Nat /\ boot' \in Nat
      /\ shutAt' \in Times /\ orders' \in [Boots -> Times]
  BY NextBootTyped
<1>2. TypeOK' /\ RunsEnd'
  BY <1>1 DEF TypeOK, RunsEnd, Ended
<1>3. FilesArePast'
  <2>1. /\ disk # NoFile => disk.rec.boot \in Nat
        /\ tmp # NoFile => tmp.rec.boot \in Nat
    BY FileFields, BoundAssumption DEF TypeOK, Boots
  <2> QED
    BY <1>1, <2>1 DEF FilesArePast, PastRec, Ended
<1>4. OnlyInProcess' /\ FlushedInTime' /\ MarkedQuiet'
  BY DEF OnlyInProcess, FlushedInTime, MarkedQuiet
<1>5. DeathsArePast' /\ QuietStopIsNoDeath' /\ BuriedOnce'
  BY DEF DeathsArePast, Ended, QuietStopIsNoDeath, BuriedOnce
<1>6. DeathIsDated'
  <2>1. \A d \in pending \cup rows : d.uid[1] \in Nat
    BY BoundAssumption DEF TypeOK, Boots, Death, Uids
  <2> QED
    BY <1>1, <2>1 DEF DeathIsDated
<1> QED
  BY <1>2, <1>3, <1>4, <1>5, <1>6, <1>7

LEMMA RebootKeeps ==
  ASSUME IInv, Reboot
  PROVE  IInv'
  BY BootKeeps DEF Reboot

LEMMA PowerCutKeeps ==
  ASSUME IInv, PowerCut
  PROVE  IInv'
<1>1. CASE loop = "off"
  BY <1>1, BootKeeps DEF PowerCut
<1>2. CASE loop # "off"
  <2>1. NextBoot /\ ProcessGone("cut")
    BY <1>2 DEF PowerCut
  <2>2. boot' \in Boots /\ boot <= boot' /\ shutAt' \in Times /\ orders' \in [Boots -> Times]
    BY <2>1, NextBootTyped DEF IInv
  <2> QED
    BY <1>2, <2>1, <2>2, ProcessGoneKeeps
<1> QED
  BY <1>1, <1>2

-----------------------------------------------------------------------------
(* The next start.  Whatever the evidence, a verdict has a class, a severity *)
(* and a confidence.                                                        *)
LEMMA JudgeTyped ==
  ASSUME NEW kind, NEW ev, NEW fr
  PROVE  /\ Judge(kind, ev, fr).class \in MachineClasses \cup AgentClasses
         /\ Judge(kind, ev, fr).severity \in {"info", "warn", "critical"}
         /\ Judge(kind, ev, fr).confidence \in {"low", "medium", "high"}
<1>1. MachineClass(ev, fr) \in MachineClasses
  BY Zenon DEF MachineClass, MachineClasses
<1>2. AgentClass(ev) \in AgentClasses
  BY Zenon DEF AgentClass, AgentClasses
<1> DEFINE class == IF kind = "machine" THEN MachineClass(ev, fr) ELSE AgentClass(ev)
<1>3. class \in MachineClasses \cup AgentClasses
  BY <1>1, <1>2
<1>4. Severity(class) \in {"info", "warn", "critical"}
  BY DEF Severity
<1>5. Confidence(kind, ev, fr, class) \in {"low", "medium", "high"}
  BY DEF Confidence
<1> QED
  BY <1>3, <1>4, <1>5 DEF Judge

(* What a start reads from a recording that was not marked clean.           *)
LEMMA DeathOfFields ==
  ASSUME TypeOK, NEW r \in Recording, NEW b \in Boots, NEW journal \in BOOLEAN
  PROVE  LET d == DeathOf(r, b, journal)
         IN  /\ d \in Death /\ d.run = r.run /\ d.died = DiedAt(r) /\ d.detected = now
             /\ d.uid[1] = r.boot /\ d.uid = Uid(r)
             /\ d.kind = "machine" => r.boot # b
<1> DEFINE kind == Kind(r, b)
           frames == [Unhurt EXCEPT !.n = IF r.newest = 0 THEN 0 ELSE 1]
           verdict == Judge(kind, Evidence(r, kind, journal), frames)
<1>1. /\ verdict.class \in MachineClasses \cup AgentClasses /\ verdict.severity \in {"info", "warn", "critical"}
      /\ verdict.confidence \in {"low", "medium", "high"}
  BY JudgeTyped
<1>2. kind \in {"machine", "agent"} /\ (kind = "machine" => r.boot # b)
  BY DEF Kind
<1>3. /\ r.run \in Runs /\ r.boot \in Boots /\ DiedAt(r) \in Times /\ now \in Times
  BY DEF Recording, DiedAt, TypeOK
<1>4. DeathOf(r, b, journal) =
        [uid |-> Uid(r), kind |-> kind, died |-> DiedAt(r),
         detected |-> now, run |-> r.run, class |-> verdict.class,
         severity |-> verdict.severity, confidence |-> verdict.confidence]
  BY DEF DeathOf
<1> HIDE DEF verdict, kind
<1>5. Uid(r) \in Uids /\ Uid(r)[1] = r.boot
  BY <1>3 DEF Uids, Uid
<1> QED
  BY <1>1, <1>2, <1>3, <1>4, <1>5 DEF Death

LEMMA StartKeeps ==
  ASSUME IInv, Start
  PROVE  IInv'
<1>1. /\ loop = "off" /\ run < MaxRuns /\ run' = run + 1 /\ loop' = "run"
      /\ UNCHANGED <<now, boot, shutAt, ends, orders, tick, proc, newest, lastFlush, disk,
                     tmp, out, missed, quiet, rows, unwritten, announced, dead, replaced>>
  BY DEF Start, files, host, losses
<1> USE DEF IInv
<1>2. PICK journal \in BOOLEAN : pending' = Found(journal)
  BY BoundAssumption DEF Start
<1>3. ASSUME NEW d \in pending'
      PROVE  /\ d \in Death /\ d.run \in 1..run /\ Ended(d.run) /\ d.run \notin quiet
             /\ d.died <= ends[d.run].at /\ ends[d.run].at <= d.detected
             /\ d.kind = "machine" => d.uid[1] < boot
  <2> DEFINE rec == disk.rec
  <2>1. /\ disk # NoFile /\ disk.state = "whole" /\ ~rec.clean
        /\ d = DeathOf(rec, boot, journal)
    BY <1>2 DEF Found, Told, Unclean
  <2>2. rec \in Recording /\ PastRec(rec) /\ boot \in Boots
    BY <2>1, FileFields DEF TypeOK, FilesArePast
  <2>3. /\ d \in Death /\ d.run = rec.run /\ d.died = DiedAt(rec) /\ d.detected = now
        /\ d.uid[1] = rec.boot
        /\ d.kind = "machine" => rec.boot # boot
    BY <2>1, <2>2, DeathOfFields
  <2>4. d.run \in 1..run /\ d.run \in 1..MaxRuns
    BY <2>2, <2>3, Numbers DEF PastRec
  <2>5. Ended(d.run) /\ ends[d.run].at <= now
    BY <1>1, <2>4, Numbers DEF RunsEnd
  <2>6. DiedAt(rec) <= ends[d.run].at
    BY <2>2, <2>3, <2>5 DEF PastRec, DiedAt
  <2>7. d.kind = "machine" => d.uid[1] < boot
    BY <2>2, <2>3, BoundAssumption DEF PastRec, Recording, Boots
  <2>8. d.run \notin quiet
    BY <1>1, <2>1, <2>3 DEF MarkedQuiet
  <2> QED
    BY <2>3, <2>4, <2>5, <2>6, <2>7, <2>8
<1>12. DeathsKnown'
  <2>1. ASSUME NEW u \in Told
        PROVE  /\ \A d \in pending' : d.uid = u
               /\ \E d \in pending' : d.uid = u
    <3>1. disk # NoFile /\ u = Uid(disk.rec)
      BY DEF Told
    <3>2. disk.rec \in Recording /\ boot \in Boots
      BY <3>1, FileFields DEF TypeOK
    <3>3. DeathOf(disk.rec, boot, journal).uid = Uid(disk.rec)
      BY <3>2, DeathOfFields
    <3>4. pending' = {DeathOf(disk.rec, boot, journal)}
      BY <1>2 DEF Found
    <3> QED
      BY <3>1, <3>3, <3>4
  <2>2. Told = {} => pending' = {}
    BY <1>2 DEF Found
  <2>3. Told' = Told
    BY <1>1 DEF Told
  <2>4. \A d \in pending' : d.uid \in Told'
    BY <2>1, <2>2, <2>3
  <2>5. pending = {}
    BY <1>1 DEF OnlyInProcess
  <2>6. ASSUME NEW u \in dead'
        PROVE  Buried(u)' \/ Underway(u)' \/ u \in (unwritten \cup replaced)'
    BY <1>1, <2>1, <2>5 DEF DeathsKnown, Buried, Underway
  <2> QED
    BY <2>4, <2>6 DEF DeathsKnown
<1>4. TypeOK'
  <2>1. run' \in Runs
    BY <1>1, Numbers DEF Runs
  <2> QED
    BY <1>1, <1>3, <2>1 DEF TypeOK
<1>5. RunsEnd'
  BY <1>1, Numbers DEF RunsEnd, Ended
<1>6. FilesArePast'
  <2>1. tmp = NoFile
    BY <1>1 DEF OnlyInProcess, TypeOK, Flushers
  <2> QED
    BY <1>1, <2>1, Numbers DEF FilesArePast, PastRec, Ended
<1>7. OnlyInProcess' /\ FlushedInTime'
  BY <1>1, BoundAssumption DEF OnlyInProcess, FlushedInTime
<1>8. MarkedQuiet'
  <2>1. run' \notin quiet /\ \A r \in quiet : r # run'
    BY <1>1, Numbers DEF MarkedQuiet
  <2>2. quiet \subseteq 1..run'
    BY <1>1, Numbers DEF MarkedQuiet
  <2>3. \A r \in quiet : disk # NoFile /\ disk.rec.run = r => disk.rec.clean
    BY <1>1 DEF MarkedQuiet
  <2> QED
    BY <1>1, <2>1, <2>2, <2>3 DEF MarkedQuiet
<1>9. DeathsArePast'
  BY <1>1, <1>3, Numbers DEF DeathsArePast, Ended
<1>10. DeathIsDated' /\ QuietStopIsNoDeath'
  BY <1>1, <1>3 DEF DeathIsDated, QuietStopIsNoDeath, Ended
<1>11. BuriedOnce'
  BY <1>1 DEF BuriedOnce
<1> QED
  BY <1>4, <1>5, <1>6, <1>7, <1>8, <1>9, <1>10, <1>11, <1>12

-----------------------------------------------------------------------------
(* The report.  The deaths on their way only get fewer.                     *)
LEMMA ReportKeeps ==
  ASSUME IInv, pending' \subseteq pending, rows' \subseteq rows \cup pending,
         UNCHANGED <<now, machine, recorder, losses>>, rows' \subseteq Death,
         rows \subseteq rows', unwritten \subseteq unwritten',
         \A d \in pending \ pending' : (\E e \in rows' : e.uid = d.uid) \/ d.uid \in unwritten',
         unwritten' \subseteq Uids, announced' \in [Uids -> Nat], BuriedOnce'
  PROVE  IInv'
<1> USE DEF IInv, machine, recorder, files, losses
<1>5. DeathsKnown'
  <2>1. \A d \in pending' : d.uid \in (Told \cup replaced)'
    BY DEF DeathsKnown, Told
  <2>2. ASSUME NEW u \in dead'
        PROVE  \/ Buried(u)' \/ Underway(u)' \/ u \in (unwritten \cup replaced)'
               \/ loop' = "off" /\ u \in Told'
    <3>1. CASE Underway(u)
      BY <3>1 DEF Buried, Underway
    <3>2. CASE ~Underway(u)
      BY <3>2 DEF DeathsKnown, Buried, Told
    <3> QED
      BY <3>1, <3>2
  <2> QED
    BY <2>1, <2>2 DEF DeathsKnown
<1>1. TypeOK' /\ RunsEnd' /\ FilesArePast'
  BY DEF TypeOK, RunsEnd, FilesArePast, PastRec, Ended
<1>2. OnlyInProcess' /\ FlushedInTime' /\ MarkedQuiet'
  BY DEF OnlyInProcess, FlushedInTime, MarkedQuiet
<1>3. DeathsArePast'
  BY DEF DeathsArePast, Ended
<1>4. DeathIsDated' /\ QuietStopIsNoDeath'
  BY DEF DeathIsDated, QuietStopIsNoDeath
<1> QED
  BY <1>1, <1>2, <1>3, <1>4, <1>5

(* A row and its announcement are made at one stroke, and only once.        *)
LEMMA RecordKeeps ==
  ASSUME IInv, NEW d \in pending, Record(d)
  PROVE  IInv'
<1> DEFINE Known == \E r \in rows : r.uid = d.uid
           Loud(u, R) == {x \in R : x.uid = u /\ x.severity \in Alarming}
<1>1. /\ pending' \subseteq pending /\ unwritten' = unwritten
      /\ UNCHANGED <<now, machine, recorder, losses>>
      /\ pending \ pending' \subseteq {d}
      /\ rows' = IF Known THEN rows ELSE rows \cup {d}
      /\ announced' = [announced EXCEPT ![d.uid] =
                         @ + IF d.severity \in Alarming /\ ~Known THEN 1 ELSE 0]
  BY DEF Record, WriteDeath, Announce, Answered
<1>2. d \in Death /\ d.uid \in Uids /\ rows \subseteq Death /\ unwritten \subseteq Uids
      /\ announced \in [Uids -> Nat]
  BY DEF IInv, TypeOK, Death
<1>3. rows' \subseteq Death /\ rows' \subseteq rows \cup pending
  BY <1>1, <1>2
<1>4. announced' \in [Uids -> Nat]
  BY <1>1, <1>2
<1>5. BuriedOnce'
  <2>1. /\ \A x, y \in rows : x.uid = y.uid => x = y
        /\ \A u \in Uids : announced[u] = Cardinality(Loud(u, rows))
    BY DEF IInv, BuriedOnce
  <2>2. \A x, y \in rows' : x.uid = y.uid => x = y
    BY <1>1, <2>1
  <2>3. ASSUME NEW u \in Uids PROVE announced'[u] = Cardinality(Loud(u, rows'))
    <3>1. CASE Known \/ u # d.uid
      <4>1. Loud(u, rows') = Loud(u, rows)
        BY <1>1, <3>1
      <4>2. announced'[u] = announced[u]
        BY <1>1, <1>2, <3>1
      <4> QED
        BY <2>1, <4>1, <4>2
    <3>2. CASE ~Known /\ u = d.uid
      <4>1. Loud(u, rows) = {} /\ rows' = rows \cup {d}
        BY <1>1, <3>2
      <4>2. announced[u] = 0
        BY <2>1, <4>1, FS_EmptySet
      <4>3. CASE d.severity \in Alarming
        <5>1. Loud(u, rows') = {d}
          BY <3>2, <4>1, <4>3
        <5>2. announced'[u] = 1
          BY <1>1, <1>2, <3>2, <4>2, <4>3
        <5> QED
          BY <5>1, <5>2, FS_Singleton
      <4>4. CASE d.severity \notin Alarming
        <5>1. Loud(u, rows') = {}
          BY <3>2, <4>1, <4>4
        <5>2. announced'[u] = 0
          BY <1>1, <1>2, <3>2, <4>2, <4>4
        <5> QED
          BY <5>1, <5>2, FS_EmptySet
      <4> QED
        BY <4>3, <4>4
    <3> QED
      BY <3>1, <3>2
  <2> QED
    BY <2>2, <2>3 DEF BuriedOnce
<1>6. rows \subseteq rows' /\ \E e \in rows' : e.uid = d.uid
  BY <1>1
<1> HIDE DEF Known, Loud
<1> QED
  BY <1>1, <1>2, <1>3, <1>4, <1>5, <1>6, ReportKeeps

LEMMA RecordFailsKeeps ==
  ASSUME IInv, NEW d \in pending, RecordFails(d)
  PROVE  IInv'
<1>1. /\ pending' \subseteq pending /\ pending \ pending' \subseteq {d}
      /\ unwritten' = IF d \in pending' THEN unwritten ELSE unwritten \cup {d.uid}
      /\ UNCHANGED <<now, machine, recorder, rows, announced, losses>>
  BY DEF RecordFails, Answered
<1>2. d.uid \in Uids /\ unwritten' \subseteq Uids /\ rows' \subseteq Death
      /\ announced' \in [Uids -> Nat] /\ rows' \subseteq rows \cup pending
  BY <1>1 DEF IInv, TypeOK, Death
<1>3. BuriedOnce'
  BY <1>1 DEF IInv, BuriedOnce
<1> QED
  BY <1>1, <1>2, <1>3, ReportKeeps

LEMMA ClockKeeps ==
  ASSUME IInv, Clock
  PROVE  IInv'
<1>1. /\ now' = now + 1 /\ now' \in Times /\ now \in Nat
      /\ UNCHANGED <<boot, shutAt, run, ends, orders, loop, tick, proc, newest, lastFlush, disk,
                     tmp, out, missed, quiet, pending, rows, unwritten, announced, dead, replaced>>
  BY BoundAssumption DEF Clock, machine, recorder, files, host, losses, IInv, TypeOK, Times
<1>6. DeathsKnown'
  BY <1>1, StillKnown
<1> USE DEF IInv
<1>2. TypeOK' /\ RunsEnd'
  BY <1>1, Numbers DEF TypeOK, RunsEnd, Ended
<1>3. FilesArePast'
  <2>1. /\ disk # NoFile => disk.rec.written \in Nat /\ disk.rec.newest \in Nat
        /\ tmp # NoFile => tmp.rec.written \in Nat /\ tmp.rec.newest \in Nat
    BY FileFields DEF TypeOK, Times
  <2> QED
    BY <1>1, <2>1, Numbers DEF FilesArePast, PastRec, Ended
<1>4. OnlyInProcess' /\ FlushedInTime' /\ MarkedQuiet'
  BY <1>1 DEF OnlyInProcess, FlushedInTime, MarkedQuiet
<1>5. DeathsArePast' /\ DeathIsDated' /\ QuietStopIsNoDeath' /\ BuriedOnce'
  BY <1>1 DEF DeathsArePast, Ended, DeathIsDated, QuietStopIsNoDeath, BuriedOnce
<1> QED
  BY <1>2, <1>3, <1>4, <1>5, <1>6

-----------------------------------------------------------------------------
LEMMA InitHolds == Init => IInv
<1> SUFFICES ASSUME Init PROVE IInv
  OBVIOUS
<1> USE DEF Init
<1>1. TypeOK
  <2>1. 0 \in Times /\ 1 \in Times /\ 0 \in Runs /\ 1 \in Boots
    BY BoundAssumption DEF Times, Runs, Boots
  <2>2. ends \in [1..MaxRuns -> [how : {"none", "stopped", "killed", "crashed", "oom", "cut"},
                                at : Times]]
    BY <2>1 DEF NotEnded
  <2>3. orders \in [Boots -> Times] /\ announced \in [Uids -> Nat]
    BY <2>1
  <2> QED
    BY <2>1, <2>2, <2>3 DEF TypeOK
<1>2. RunsEnd
  BY DEF RunsEnd, Ended, NotEnded
<1>3. FilesArePast /\ OnlyInProcess /\ FlushedInTime /\ MarkedQuiet
  BY BoundAssumption DEF FilesArePast, OnlyInProcess, FlushedInTime, MarkedQuiet
<1>4. DeathsArePast /\ DeathIsDated /\ QuietStopIsNoDeath /\ DeathsKnown
  BY DEF DeathsArePast, DeathIsDated, QuietStopIsNoDeath, DeathsKnown
<1>5. BuriedOnce
  <2>1. \A u \in Uids : {d \in rows : d.uid = u /\ d.severity \in Alarming} = {}
    OBVIOUS
  <2> QED
    BY <2>1, FS_EmptySet DEF BuriedOnce
<1> QED
  BY <1>1, <1>2, <1>3, <1>4, <1>5 DEF IInv

LEMMA StepKeeps == IInv /\ [Next]_vars => IInv'
<1> SUFFICES ASSUME IInv, [Next]_vars PROVE IInv'
  OBVIOUS
<1>1. CASE BeginTick
  BY <1>1, BeginTickKeeps
<1>2. CASE Observe \/ Trim \/ TrimInFlush
  BY <1>2, ObserveKeeps, TrimKeeps, TrimInFlushKeeps
<1>3. CASE \E f \in Flushers : Replace(f) \/ FlushFails(f)
  BY <1>3, ReplaceKeeps, FlushFailsKeeps
<1>4. CASE Sigterm \/ ReadFrames \/ Exit
  BY <1>4, SigtermKeeps, ReadFramesKeeps, ExitKeeps
<1>5. CASE \E how \in Faults : Killed(how)
  BY <1>5, KilledKeeps
<1>6. CASE OrderShutdown \/ Reboot \/ PowerCut
  BY <1>6, OrderShutdownKeeps, RebootKeeps, PowerCutKeeps
<1>7. CASE Start
  BY <1>7, StartKeeps
<1>8. CASE \E d \in pending : Record(d) \/ RecordFails(d)
  BY <1>8, RecordKeeps, RecordFailsKeeps
<1>9. CASE Clock
  BY <1>9, ClockKeeps
<1>10. CASE UNCHANGED vars
  <2>4. DeathsKnown'
    BY <1>10, StillKnown DEF vars, recorder, files, host, losses
  <2> USE <1>10 DEF vars, machine, recorder, files, host, losses, IInv
  <2>1. TypeOK' /\ RunsEnd' /\ FilesArePast'
    BY DEF TypeOK, RunsEnd, FilesArePast, PastRec, Ended
  <2>2. OnlyInProcess' /\ FlushedInTime' /\ MarkedQuiet'
    BY DEF OnlyInProcess, FlushedInTime, MarkedQuiet
  <2>3. DeathsArePast' /\ DeathIsDated' /\ QuietStopIsNoDeath' /\ BuriedOnce'
    BY DEF DeathsArePast, Ended, DeathIsDated, QuietStopIsNoDeath, BuriedOnce
  <2> QED
    BY <2>1, <2>2, <2>3, <2>4
<1> QED
  BY <1>1, <1>2, <1>3, <1>4, <1>5, <1>6, <1>7, <1>8, <1>9, <1>10 DEF Next

(* The invariant holds at every moment: whichever way a run ends and        *)
(* wherever in a flush that finds it, the recording left behind was written *)
(* by that run before its end (recorder.py, flush).                         *)
THEOREM RecorderInvariant == Spec => []IInv
<1>1. Init => IInv
  BY InitHolds
<1>2. IInv /\ [Next]_vars => IInv'
  BY StepKeeps
<1> QED
  BY <1>1, <1>2, PTL DEF Spec

(* A death is stored and announced once, over any number of starts, reports *)
(* and lost answers (coroner.py, record; db.py, write_death).               *)
THEOREM DeathsBuriedOnce == Spec => []BuriedOnce
<1>1. IInv => BuriedOnce
  BY DEF IInv
<1> QED
  BY <1>1, RecorderInvariant, PTL

(* A death that is told is one of a run that had ended, at an hour between  *)
(* the recording's last word and the discovery; a stop that nothing         *)
(* disturbed is never told as one (recorder.py, detect_death; sampler.py,   *)
(* stop).                                                                   *)
THEOREM DeathsAreReal == Spec => []DeathIsReal
<1>1. IInv => DeathIsReal
  BY DEF IInv, DeathIsReal
<1> QED
  BY <1>1, RecorderInvariant, PTL

(* While the agent runs and its writes succeed, the file on the disk is     *)
(* whole, its own and less than a flush interval behind the newest frame    *)
(* (recorder.py, maybe_flush).                                              *)
THEOREM RecordSound == Spec => []RecordIsSound
<1>1. IInv => RecordIsSound
  BY Numbers DEF IInv, RecordIsSound, RecordReachesEnd, FlushedInTime
<1> QED
  BY <1>1, RecorderInvariant, PTL

(* A death of which the recording told when its process ended is stored, on *)
(* its way, or found again by the next start, but for the two ways named:   *)
(* answered and not stored, or replaced before it was answered (coroner.py, *)
(* record; recorder.py, flush).                                             *)
THEOREM DeathsKept == Spec => []NoDeathIsLost
<1>1. IInv => NoDeathIsLost
  BY DEF IInv, DeathsKnown, NoDeathIsLost
<1> QED
  BY <1>1, RecorderInvariant, PTL
=============================================================================
