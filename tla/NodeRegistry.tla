---------------------------- MODULE NodeRegistry ----------------------------
(***************************************************************************)
(* What the host holds of one node (culprit/nodes.py, the report handler of *)
(* culprit/main.py, write_rollup of culprit/db.py): the merge of delta      *)
(* reports, the minute rows folded from them, host restarts.                *)
(*                                                                         *)
(* The content of a section is a version, 0 for none; some the host does    *)
(* not take.  The agent is external: it sends every section to a host that  *)
(* does not know it, then those that changed since a report that was        *)
(* answered, and gives up on a report that takes too long (docs/API.md).    *)
(* Reports run on threads, so one that was given up is folded in beside the *)
(* next, and nothing locks the bucket: each of its reads and writes is a    *)
(* step.                                                                    *)
(***************************************************************************)
EXTENDS Integers, FiniteSets

CONSTANTS
  Sections,
  Unfit,        \* the contents of each section that sanitise_report drops
  Slots,        \* reports that may be under way at once
  MaxVersion,   \* bound on the changes of sections
  MaxMinute,    \* bound on the clock; the last minute is not accumulated
  PerMinute,    \* bound on the reports of a minute that is
  MaxStops      \* bound on host restarts

Versions == 0..MaxVersion
Minutes == 1..MaxMinute
None == 0

ASSUME RegistryAssumption ==
  /\ {MaxVersion, MaxMinute} \subseteq Nat \ {0} /\ {PerMinute, MaxStops} \subseteq Nat
  /\ IsFiniteSet(Slots) /\ None \notin Slots
  /\ Unfit \in [Sections -> SUBSET Versions]

VARIABLES
  minute,
  version,    \* the newest version of any section
  have,       \* the agent's sections
  base,       \* what it takes the host to hold, by its answered reports
  full,       \* its next report carries every section
  open,       \* the report it waits for, None for none
  flights,    \* the reports under way
  snap,       \* _Node.snapshot
  bts, bucket,    \* _Node.bucket_ts, None for none, and the samples in _Node.bucket
  rows, finds,    \* samples: the n of a minute's row; findings: how often written
  stops,
  taken,      \* samples taken into a bucket, by the minute they belong to
  disturbed,  \* minutes with a host restart or a failing write
  raced,      \* minutes whose bucket two reports handled at once, or to which one
              \* came after a sample of a later minute
  late        \* some answer known = false never arrived, or an abandoned
              \* report was merged

agent == <<version, have, base, full, open>>
folding == <<bts, bucket, rows, finds, taken, disturbed, raced>>
vars == <<minute, agent, flights, snap, folding, stops, late>>

NoReport == [stage |-> "none"]
Bucketing == {"flushing", "aggregated", "addressed", "written", "flushed", "placing", "lost"}
Stages == {"wire", "merged", "folded"} \cup Bucketing
Report == [stage : Stages, data : [Sections -> Versions], at : Minutes, known : BOOLEAN,
           sum : Nat, row : Minutes \cup {None}]  \* what _flush has read of the bucket

Absent == [s \in Sections |-> 0]
InHost(r) == flights[r].stage \notin {"none", "wire"}

-----------------------------------------------------------------------------
(* Faulty variants: the bugs the properties are there to notice.            *)
KnownAlways == TRUE
WriteToday(m, n) ==
  /\ rows' = [rows EXCEPT ![minute] = n] /\ finds' = [finds EXCEPT ![minute] = @ + 1]

-----------------------------------------------------------------------------
(* The agent.                                                               *)

Change(s) ==
  /\ version < MaxVersion
  /\ version' = version + 1 /\ have' = [have EXCEPT ![s] = version + 1]
  /\ UNCHANGED <<minute, base, full, open, flights, snap, folding, stops, late>>

Delta == [s \in Sections |-> IF full \/ have[s] # base[s] THEN have[s] ELSE 0]

Send(r) ==
  /\ open = None /\ flights[r] = NoReport
  /\ open' = r
  /\ flights' = [flights EXCEPT ![r] =
       [stage |-> "wire", data |-> Delta, at |-> 1, known |-> FALSE, sum |-> 0, row |-> None]]
  /\ UNCHANGED <<minute, version, have, base, full, snap, folding, stops, late>>

\* The request times out, or its connection breaks; the report may go on.
GiveUp ==
  /\ open # None
  /\ open' = None
  /\ UNCHANGED <<minute, version, have, base, full, flights, snap, folding, stops, late>>

RestartAgent ==
  /\ ~full
  /\ base' = Absent /\ full' = TRUE /\ open' = None
  /\ UNCHANGED <<minute, version, have, flights, snap, folding, stops, late>>

-----------------------------------------------------------------------------
(* The report handler.                                                      *)

HostOnly == UNCHANGED <<minute, agent, stops>>
Stage(r, stage) == flights' = [flights EXCEPT ![r].stage = stage]

FoldedIn(r) == flights' = [flights EXCEPT ![r] = [@ EXCEPT !.stage = "folded", !.at = 1]]

Lose(r) ==
  /\ flights[r].stage = "wire"
  /\ flights' = [flights EXCEPT ![r] = NoReport]
  /\ HostOnly /\ UNCHANGED <<snap, folding, late>>

Known == snap # Absent
Taken(r, s) == flights[r].data[s] # 0 /\ flights[r].data[s] \notin Unfit[s]
Merged(r) == [s \in Sections |-> IF Taken(r, s) THEN flights[r].data[s] ELSE snap[s]]

\* The bound on the samples of a minute, those still to be folded included.
Pending(m) == {r \in Slots : InHost(r) /\ flights[r].stage # "folded" /\ flights[r].at = m}
Room == minute = MaxMinute \/ taken[minute] + Cardinality(Pending(minute)) < PerMinute

\* ingest under the registry's lock; the observers that follow are modelled in
\* Notifier, ActionVerdict, Vigil and BlackBox.  Of a report its agent gave up
\* nobody reads the answer, so its data and known are not kept.
Merge(r) ==
  /\ flights[r].stage = "wire" /\ Room
  /\ snap' = Merged(r)
  /\ flights' = [flights EXCEPT ![r] =
       [stage |-> "merged", at |-> minute, known |-> Known \/ open # r,
        data |-> IF open = r THEN @.data ELSE Absent, sum |-> 0, row |-> None]]
  /\ late' = (late \/ open # r)
  /\ HostOnly /\ UNCHANGED folding

-----------------------------------------------------------------------------
(* _accumulate and _flush: the minute bucket.                               *)

BucketOnly == HostOnly /\ UNCHANGED <<snap, late>>

Accumulated(r) == flights[r].at < MaxMinute
InBucket == {o \in Slots : flights[o].stage \in Bucketing}
Racing(r) == InBucket # {} \/ \E m \in Minutes : m > flights[r].at /\ taken[m] > 0
RacedWith(r) == ({bts, flights[r].at} \cup {flights[o].at : o \in InBucket}
                  \cup {flights[o].row : o \in InBucket}) \ {None}

\* The test of the minute: a bucket of another one is flushed first.
Accumulate(r) ==
  LET at == flights[r].at IN
  /\ flights[r].stage = "merged"
  /\ \/ ~Accumulated(r) /\ FoldedIn(r) /\ UNCHANGED <<bts, raced>>
     \/ /\ Accumulated(r)
        /\ raced' = IF Racing(r) THEN raced \cup RacedWith(r) ELSE raced
        /\ \/ bts \in {None, at} /\ bts' = at /\ Stage(r, "placing")
           \/ bts \notin {None, at} /\ Stage(r, "flushing") /\ UNCHANGED bts
  /\ BucketOnly /\ UNCHANGED <<bucket, rows, finds, taken, disturbed>>

Flushed(f) == [stage |-> "flushed", data |-> f.data, at |-> f.at, known |-> f.known,
               sum |-> 0, row |-> None]

\* The bucket becomes a new list; whoever has loaded the old one appends to that.
EmptyBucket(r) ==
  /\ bts' = None /\ bucket' = 0
  /\ flights' = [o \in Slots |->
       IF o = r THEN Flushed(flights[o])
       ELSE IF flights[o].stage = "placing" THEN [flights[o] EXCEPT !.stage = "lost"]
       ELSE flights[o]]
  /\ UNCHANGED <<rows, finds, taken, disturbed, raced>>

\* _flush up to the aggregate of the bucket's samples.
Aggregate(r) ==
  /\ flights[r].stage = "flushing"
  /\ \/ /\ bts # None /\ bucket > 0
        /\ flights' = [flights EXCEPT ![r] = [@ EXCEPT !.stage = "aggregated", !.sum = bucket]]
        /\ UNCHANGED folding
     \/ (bts = None \/ bucket = 0) /\ EmptyBucket(r)
  /\ BucketOnly

\* Only after the diagnosis and the Pulse's items are read is bucket_ts.
Address(r) ==
  /\ flights[r].stage = "aggregated"
  /\ flights' = [flights EXCEPT ![r] = [@ EXCEPT !.stage = "addressed", !.row = bts]]
  /\ BucketOnly /\ UNCHANGED folding

\* write_rollup: the minute's row is replaced, its findings are added.
WriteRow(m, n) ==
  /\ rows' = [rows EXCEPT ![m] = n] /\ finds' = [finds EXCEPT ![m] = @ + 1]

FailRow(m) == disturbed' = disturbed \cup ({m} \ {None}) /\ UNCHANGED <<rows, finds>>

\* A row without a minute is refused.
FlushBucket(r) ==
  LET m == flights[r].row IN
  /\ flights[r].stage = "addressed"
  /\ \/ m # None /\ WriteRow(m, flights[r].sum) /\ UNCHANGED disturbed
     \/ FailRow(m)
  /\ Stage(r, "written")
  /\ BucketOnly /\ UNCHANGED <<bts, bucket, taken, raced>>

Empty(r) == flights[r].stage = "written" /\ EmptyBucket(r) /\ BucketOnly

\* bucket_ts = bucket_ts or bucket, and the list to append to is loaded.
Place(r) ==
  /\ flights[r].stage = "flushed"
  /\ bts' = IF bts = None THEN flights[r].at ELSE bts
  /\ Stage(r, "placing")
  /\ BucketOnly /\ UNCHANGED <<bucket, rows, finds, taken, disturbed, raced>>

\* The sample goes in, or into a list nobody will flush.
TakeSample(r) ==
  /\ flights[r].stage \in {"placing", "lost"}
  /\ bucket' = IF flights[r].stage = "lost" THEN bucket ELSE bucket + 1
  /\ taken' = [taken EXCEPT ![flights[r].at] = @ + 1]
  /\ FoldedIn(r)
  /\ BucketOnly /\ UNCHANGED <<bts, rows, finds, disturbed, raced>>

-----------------------------------------------------------------------------
(* The answer to the report.                                                *)

\* The answer, which an agent that gave up does not read.
Answer(r) ==
  /\ flights[r].stage = "folded" /\ open = r
  /\ base' = [s \in Sections |-> IF flights[r].data[s] = 0 THEN base[s]
                                 ELSE flights[r].data[s]]
  /\ full' = ~flights[r].known
  /\ open' = None
  /\ flights' = [flights EXCEPT ![r] = NoReport]
  /\ UNCHANGED <<minute, version, have, snap, folding, stops, late>>

AnswerLost(r) ==
  /\ flights[r].stage = "folded"
  /\ open' = IF open = r THEN None ELSE open
  /\ late' = (late \/ ~flights[r].known)
  /\ flights' = [flights EXCEPT ![r] = NoReport]
  /\ UNCHANGED <<minute, version, have, base, full, snap, folding, stops>>

-----------------------------------------------------------------------------
(* Operators of the host, its restarts, the clock.                          *)

\* A stop flushes every bucket, a crash does not; then memory is empty, and so
\* are the requests.
Restart ==
  /\ stops < MaxStops /\ stops' = stops + 1
  /\ \/ bts # None /\ bucket > 0 /\ WriteRow(bts, bucket)
     \/ UNCHANGED <<rows, finds>>
  /\ disturbed' = disturbed \cup ({bts} \ {None})
  /\ bts' = None /\ bucket' = 0
  /\ snap' = Absent
  /\ flights' = [r \in Slots |-> IF flights[r].stage = "wire" THEN flights[r] ELSE NoReport]
  /\ UNCHANGED <<minute, agent, taken, raced, late>>

Clock ==
  /\ minute < MaxMinute
  /\ minute' = minute + 1
  /\ UNCHANGED <<agent, flights, snap, folding, stops, late>>
-----------------------------------------------------------------------------
Init ==
  /\ minute = 1 /\ version = 1 /\ have = [s \in Sections |-> 1] /\ base = Absent /\ full = TRUE
  /\ open = None /\ flights = [r \in Slots |-> NoReport]
  /\ snap = Absent
  /\ bts = None /\ bucket = 0 /\ stops = 0
  /\ rows = [m \in Minutes |-> 0] /\ finds = rows /\ taken = rows
  /\ disturbed = {} /\ raced = {} /\ late = FALSE

Work(r) == Accumulate(r) \/ Aggregate(r) \/ Address(r) \/ FlushBucket(r) \/ Empty(r)
             \/ Place(r) \/ TakeSample(r)

Next ==
  \/ \E s \in Sections : Change(s)
  \/ \E r \in Slots : Send(r) \/ Lose(r) \/ Merge(r) \/ Work(r) \/ Answer(r) \/ AnswerLost(r)
  \/ GiveUp \/ RestartAgent
  \/ Restart \/ Clock

Spec == Init /\ [][Next]_vars

-----------------------------------------------------------------------------
(* What must hold.                                                          *)

\* Ranges of the state.
TypeOK ==
  /\ minute \in Minutes /\ version \in Versions /\ full \in BOOLEAN
  /\ have \in [Sections -> Versions] /\ base \in [Sections -> Versions]
  /\ snap \in [Sections -> Versions] /\ open \in Slots \cup {None}
  /\ flights \in [Slots -> Report \cup {NoReport}]
  /\ bts \in Minutes \cup {None} /\ bucket \in Nat /\ (bts = None => bucket = 0) /\ stops \in 0..MaxStops
  /\ rows \in [Minutes -> Nat] /\ finds \in [Minutes -> Nat] /\ taken \in [Minutes -> 0..PerMinute]
  /\ disturbed \subseteq Minutes /\ raced \subseteq Minutes /\ late \in BOOLEAN

NothingUnderWay == \A r \in Slots : flights[r] = NoReport

\* A section of which the host has not the agent's version will be sent: it
\* changed since the last answered report, or the agent knows it must send
\* everything, or the host knows nothing and will say so.  The exceptions are an
\* answer known = false that was lost, a report folded in after its agent gave
\* it up, and a content the host dropped, which the agent takes to be held
\* (nodes.py, ingest; docs/API.md:626).
HolesAreRefilled ==
  NothingUnderWay /\ ~late =>
    \/ full \/ snap = Absent
    \/ \A s \in Sections : \/ snap[s] = have[s] \/ have[s] # base[s]
                           \/ have[s] \in Unfit[s]

\* The row of a minute that is over counts every sample taken into it, and its
\* findings were written once, however the reports fell about its end; only a
\* restart, a failing write or reports racing for the bucket cost samples
\* (nodes.py, _accumulate; db.py, write_rollup).
RowsAreWhole ==
  \A m \in Minutes \ (disturbed \cup raced) : taken[m] > 0 /\ m # bts =>
    rows[m] = taken[m] /\ finds[m] = 1

\* Whatever restarts and writes do, a minute that no reports raced for counts no
\* sample that is not its own, and each restart of the host writes its findings
\* at most once more.
NoSampleTwice ==
  \A m \in Minutes \ raced : rows[m] <= taken[m] /\ finds[m] <= 1 + stops

\* The bucket and the rows stay in step.
RowsAreSound == TypeOK /\ RowsAreWhole /\ NoSampleTwice

\* Not so of this code, for nothing locks the bucket: no row counts the samples
\* of another minute (nodes.py, _flush).
EveryRowIsItsOwn == \A m \in Minutes : rows[m] <= taken[m]

\* Not so of this code, for the second part of a restarted minute replaces the
\* first: a row counts what was taken unless a write failed (db.py:468).
RestartsCostNoSample ==
  \A m \in Minutes \ raced : taken[m] > 0 /\ minute > m + 1 /\ NothingUnderWay /\ finds[m] > 0 =>
    rows[m] = taken[m]
=============================================================================
