--------------------------- MODULE ReportProofs ---------------------------
(***************************************************************************)
(* What reports leave on the host: in the registry (NodeRegistry) and in    *)
(* the rings of the Pulse (PulseJudge), for any sections, reports under     *)
(* way, versions, minutes, samples and restarts, and for any subjects,      *)
(* readings, lengths of ring, window, hold and settling time.               *)
(*                                                                         *)
(* About the minutes: two reports with the bucket at once have spoilt every *)
(* minute they may touch, so a report that may touch a minute that is not   *)
(* raced for finds the bucket as it left it, and once the bucket is left    *)
(* for good no sample of its minute is still to come.                       *)
(* About the sections: the report the agent waits for carries all that the  *)
(* agent is going to take for held, and the host that did not know the      *)
(* agent has an answer under way that says so.                              *)
(* About the rings: what is walked back over is never older than the time   *)
(* the subject has been under its line.                                     *)
(***************************************************************************)
EXTENDS NodeRegistry, PulseJudge, FiniteSetTheorems, SequenceTheorems, WellFoundedInduction, TLAPS

Unfolded(r) == InHost(r) /\ flights[r].stage # "folded"

\* The samples in hand fit the minute they are of.
RoomKept == \A m \in Minutes :
  IF m = MaxMinute THEN taken[m] = 0 ELSE taken[m] + Cardinality(Pending(m)) <= PerMinute

\* A report in the host is of the present minute or one before; only who is about
\* to write a row has read of which minute.
OfTheirMinutes == \A r \in Slots :
  /\ InHost(r) => flights[r].at <= minute
  /\ r \in InBucket => flights[r].at # MaxMinute
  /\ flights[r] # NoReport /\ flights[r].stage \notin {"addressed", "written"} => flights[r].row = None

\* All that a report may still touch is raced for.
Spoilt(r) == {bts, flights[r].at, flights[r].row} \ {None} \subseteq raced

\* Two reports with the bucket have spoilt it for each other.
Apart == \A r, o \in InBucket : r # o => Spoilt(r)

\* A report with nobody beside it finds the bucket as it left it.
Undisturbed(r) ==
  /\ flights[r].stage # "lost"
  /\ flights[r].stage = "flushed" => bts = None
  /\ flights[r].stage = "placing" => bts = flights[r].at
  /\ flights[r].stage \in {"flushing", "aggregated", "addressed", "written"} =>
       bts # None /\ bucket > 0 /\ bts < flights[r].at
  /\ flights[r].stage \in {"aggregated", "addressed"} => flights[r].sum = bucket
  /\ flights[r].stage \in {"addressed", "written"} => flights[r].row = bts

SpoiltOrNot == \A r \in InBucket : Spoilt(r) \/ Undisturbed(r)

Loaded == \A r \in Slots : flights[r].stage = "placing" => bts # None

\* An open bucket has a sample, or is about to get one, of its minute.
Backed == bts # None =>
  /\ bucket > 0 \/ \E r \in Slots : flights[r].stage = "placing"
  /\ taken[bts] > 0 \/ \E r \in InBucket : flights[r].at = bts

\* No sample of the minute is still to come, unless it is raced for.
Later(m) ==
  \/ \E n \in Minutes : n > m /\ taken[n] > 0
  \/ \E r \in InBucket : flights[r].at > m
Passed(m) == Later(m) \/ (m < minute /\ \A r \in Slots : Unfolded(r) => flights[r].at # m)

InTime == \A r \in InBucket : flights[r].at \notin raced =>
  \A n \in Minutes : n > flights[r].at => taken[n] = 0

\* The bucket is open for the minute, its row still to be written.
Filling(m) == bts = m /\ \A r \in Slots : flights[r].stage # "written"

\* Nothing is written that was not taken, nor more than once in a life of the host.
Counted(m) ==
  /\ rows[m] <= taken[m] /\ (finds[m] > 0 => taken[m] > 0)
  /\ bts = m => bucket <= taken[m]
  /\ finds[m] <= stops + 1
  /\ Filling(m) \/ ~Passed(m) => finds[m] <= stops
OnlyTaken == \A m \in Minutes \ raced : Counted(m)

\* The open bucket has what was taken; the row of one that was left has it.
Whole(m) ==
  /\ Filling(m) => bucket = taken[m] /\ finds[m] = 0
  /\ taken[m] > 0 /\ ~Filling(m) => rows[m] = taken[m] /\ finds[m] = 1 /\ Passed(m)
AllTaken == \A m \in Minutes \ (raced \cup disturbed) : Whole(m)

RowsInv == /\ RoomKept /\ OfTheirMinutes /\ Apart /\ SpoiltOrNot /\ Loaded /\ Backed /\ InTime
           /\ OnlyTaken /\ AllTaken

Awaited(r) == open = r /\ flights[r] # NoReport

\* Versions grow: what the agent takes for held is no newer than what it has, nor
\* than what the report it waits for carries.
AgentInOrder == \A s \in Sections :
  /\ 0 < have[s] /\ have[s] <= version /\ base[s] <= have[s]
  /\ \A r \in Slots : Awaited(r) /\ flights[r].data[s] # 0 =>
       base[s] <= flights[r].data[s] /\ flights[r].data[s] <= have[s]

\* A full report carries every section.
FullIsFull == \A r \in Slots, s \in Sections : Awaited(r) /\ full => flights[r].data[s] # 0

\* The host has what the report that is waited for brought, if it takes that.
Brought == \A r \in Slots, s \in Sections :
  ~late /\ Awaited(r) /\ InHost(r) /\ Taken(r, s) => snap[s] = flights[r].data[s]

KnownIsHeld == \A r \in Slots : ~late /\ InHost(r) /\ flights[r].known => snap # Absent

InStep == \A s \in Sections : snap[s] = have[s] \/ have[s] # base[s] \/ have[s] \in Unfit[s]

\* Where the host lacks a section that the agent would not send, an answer under
\* way says that it does not know the agent.
WillBeTold == ~late =>
  full \/ snap = Absent \/ InStep \/ \E r \in Slots : InHost(r) /\ ~flights[r].known

HolesInv == AgentInOrder /\ FullIsFull /\ Brought /\ KnownIsHeld /\ WillBeTold

IInv == TypeOK /\ RowsInv /\ HolesInv

-----------------------------------------------------------------------------
LEMMA Sizes ==
  /\ MaxVersion \in Nat \ {0} /\ MaxMinute \in Nat \ {0} /\ PerMinute \in Nat /\ MaxStops \in Nat
  /\ IsFiniteSet(Slots) /\ None \notin Slots
BY RegistryAssumption

LEMMA PendingIsFinite ==
  ASSUME NEW m
  PROVE  IsFiniteSet(Pending(m)) /\ Cardinality(Pending(m)) \in Nat
<1>1. Pending(m) \subseteq Slots
  BY DEF Pending
<1> QED
  BY <1>1, Sizes, FS_Subset, FS_CardinalityType

LEMMA FlightFields ==
  ASSUME TypeOK, NEW r \in Slots, flights[r] # NoReport
  PROVE  /\ flights[r] \in Report /\ flights[r].stage \in Stages
         /\ flights[r].data \in [Sections -> Versions]
         /\ flights[r].at \in Minutes /\ flights[r].known \in BOOLEAN
BY DEF TypeOK, Report

LEMMA NoneIsNoReport ==
  ASSUME TypeOK, NEW r \in Slots
  PROVE  /\ flights[r] = NoReport <=> flights[r].stage = "none"
         /\ InHost(r) => flights[r] # NoReport
BY DEF TypeOK, Report, NoReport, InHost, Stages, Bucketing

\* How the flight of a report in the host moves.
LEMMA FlightMoves ==
  ASSUME TypeOK, NEW r \in Slots, NEW f \in Report, flights' = [flights EXCEPT ![r] = f]
  PROVE  /\ flights' \in [Slots -> Report \cup {NoReport}] /\ flights'[r] = f
         /\ \A o \in Slots \ {r} : flights'[o] = flights[o]
BY DEF TypeOK

LEMMA StageIs ==
  ASSUME NEW f \in Report, NEW st \in Stages
  PROVE  /\ [f EXCEPT !.stage = st] \in Report /\ [f EXCEPT !.stage = st].stage = st
         /\ [f EXCEPT !.stage = st].data = f.data /\ [f EXCEPT !.stage = st].at = f.at
         /\ [f EXCEPT !.stage = st].known = f.known /\ [f EXCEPT !.stage = st].sum = f.sum
         /\ [f EXCEPT !.stage = st].row = f.row
BY DEF Report

\* A report is worked on: what it carries stays, and its minute until it is done;
\* of the others some may lose their list.
Same(f, g) == f.data = g.data /\ f.at = g.at /\ f.known = g.known /\ f.sum = g.sum /\ f.row = g.row
Robbed(o) == /\ flights[o].stage = "placing" /\ flights'[o].stage = "lost"
             /\ flights'[o] \in Report /\ Same(flights'[o], flights[o])
Moves(r) ==
  /\ flights'[r] \in Report /\ flights'[r].data = flights[r].data /\ flights'[r].known = flights[r].known
  /\ flights'[r].stage # "folded" => flights'[r].at = flights[r].at
  /\ flights'[r].stage = "folded" => flights'[r].at = 1
  /\ \A o \in Slots \ {r} : flights'[o] = flights[o] \/ Robbed(o)
Keeps(r) == \A o \in Slots \ {r} : flights'[o] = flights[o]

LEMMA StageMoves ==
  ASSUME TypeOK, NEW r \in Slots, InHost(r), NEW st \in Stages \ {"folded"}, Stage(r, st)
  PROVE  Moves(r) /\ Keeps(r) /\ flights'[r].stage = st /\ Same(flights'[r], flights[r])
<1>1. flights[r] \in Report
  BY FlightFields, NoneIsNoReport
<1>2. flights' = [flights EXCEPT ![r] = [flights[r] EXCEPT !.stage = st]]
  BY DEF Stage
<1>3. [flights[r] EXCEPT !.stage = st] \in Report
  BY <1>1, StageIs
<1>4. flights'[r] = [flights[r] EXCEPT !.stage = st] /\ Keeps(r)
  BY <1>2, <1>3, FlightMoves DEF Keeps
<1>5. flights'[r].stage = st /\ Same(flights'[r], flights[r])
  BY <1>1, <1>4, StageIs DEF Same
<1> QED
  BY <1>3, <1>4, <1>5 DEF Moves, Keeps, Same

LEMMA FoldMoves ==
  ASSUME TypeOK, NEW r \in Slots, InHost(r), FoldedIn(r)
  PROVE  Moves(r) /\ Keeps(r) /\ flights'[r].stage = "folded" /\ flights'[r].row = flights[r].row
<1> DEFINE f == [flights[r] EXCEPT !.stage = "folded", !.at = 1]
<1>1. flights[r] \in Report
  BY FlightFields, NoneIsNoReport
<1>2. 1 \in Minutes
  BY Sizes DEF Minutes
<1>3. f \in Report /\ f.stage = "folded" /\ f.at = 1
  BY <1>1, <1>2 DEF Report, Stages
<1>4. f.data = flights[r].data /\ f.known = flights[r].known /\ f.row = flights[r].row
  BY <1>1 DEF Report
<1>5. flights'[r] = f /\ Keeps(r)
  <2>1. flights' = [flights EXCEPT ![r] = f]
    BY DEF FoldedIn
  <2> HIDE DEF f
  <2> QED
    BY <1>3, <2>1, FlightMoves DEF Keeps
<1> HIDE DEF f
<1> QED
  BY <1>3, <1>4, <1>5 DEF Moves, Keeps

LEMMA AggregateMoves ==
  ASSUME TypeOK, NEW r \in Slots, InHost(r),
         flights' = [flights EXCEPT ![r] = [@ EXCEPT !.stage = "aggregated", !.sum = bucket]]
  PROVE  /\ Moves(r) /\ Keeps(r) /\ flights'[r].stage = "aggregated" /\ flights'[r].sum = bucket
         /\ flights'[r].at = flights[r].at /\ flights'[r].row = flights[r].row
<1> DEFINE f == [flights[r] EXCEPT !.stage = "aggregated", !.sum = bucket]
<1>1. flights[r] \in Report
  BY FlightFields, NoneIsNoReport
<1>2. bucket \in Nat
  BY DEF TypeOK
<1>3. f \in Report /\ f.stage = "aggregated" /\ f.sum = bucket
  BY <1>1, <1>2 DEF Report, Stages, Bucketing
<1>4. f.data = flights[r].data /\ f.known = flights[r].known /\ f.row = flights[r].row /\ f.at = flights[r].at
  BY <1>1 DEF Report
<1>5. flights'[r] = f /\ Keeps(r)
  <2>1. flights' = [flights EXCEPT ![r] = f]
    OBVIOUS
  <2> HIDE DEF f
  <2> QED
    BY <1>3, <2>1, FlightMoves DEF Keeps
<1> HIDE DEF f
<1> QED
  BY <1>3, <1>4, <1>5 DEF Moves, Keeps

LEMMA AddressMoves ==
  ASSUME TypeOK, NEW r \in Slots, Address(r)
  PROVE  /\ Moves(r) /\ Keeps(r) /\ flights'[r].stage = "addressed" /\ flights'[r].row = bts
         /\ flights'[r].at = flights[r].at /\ flights'[r].sum = flights[r].sum
<1> DEFINE f == [flights[r] EXCEPT !.stage = "addressed", !.row = bts]
<1>1. flights[r] \in Report
  BY FlightFields, NoneIsNoReport DEF Address, InHost
<1>2. bts \in Minutes \cup {None}
  BY DEF TypeOK
<1>3. f \in Report /\ f.stage = "addressed" /\ f.row = bts
  BY <1>1, <1>2 DEF Report, Stages, Bucketing
<1>4. f.data = flights[r].data /\ f.known = flights[r].known /\ f.sum = flights[r].sum /\ f.at = flights[r].at
  BY <1>1 DEF Report
<1>5. flights'[r] = f /\ Keeps(r)
  <2>1. flights' = [flights EXCEPT ![r] = f]
    BY DEF Address
  <2> HIDE DEF f
  <2> QED
    BY <1>3, <2>1, FlightMoves DEF Keeps
<1> HIDE DEF f
<1> QED
  BY <1>3, <1>4, <1>5 DEF Moves, Keeps

LEMMA EmptyMoves ==
  ASSUME TypeOK, NEW r \in Slots, InHost(r), EmptyBucket(r)
  PROVE  /\ Moves(r) /\ flights'[r].stage = "flushed" /\ flights'[r].row = None
         /\ flights'[r].at = flights[r].at
<1> DEFINE f == Flushed(flights[r])
<1>1. flights[r] \in Report
  BY FlightFields, NoneIsNoReport
<1>2. f \in Report /\ f.stage = "flushed" /\ f.row = None
  BY <1>1 DEF Flushed, Report, Stages, Bucketing
<1>3. f.data = flights[r].data /\ f.known = flights[r].known /\ f.at = flights[r].at
  BY DEF Flushed
<1>4. flights'[r] = f
  BY DEF EmptyBucket
<1>5. ASSUME NEW o \in Slots \ {r} PROVE flights'[o] = flights[o] \/ Robbed(o)
  <2>1. CASE flights[o].stage = "placing"
    <3>1. flights'[o] = [flights[o] EXCEPT !.stage = "lost"]
      BY <2>1 DEF EmptyBucket
    <3>2. flights[o] \in Report
      BY <2>1, FlightFields DEF NoReport
    <3>3. "lost" \in Stages
      BY DEF Stages, Bucketing
    <3> QED
      BY <2>1, <3>1, <3>2, <3>3, StageIs DEF Robbed, Same
  <2>2. CASE flights[o].stage # "placing"
    BY <2>2 DEF EmptyBucket
  <2> QED
    BY <2>1, <2>2
<1> HIDE DEF f
<1> QED
  BY <1>2, <1>3, <1>4, <1>5 DEF Moves

\* Every step of the work on a report is such a move.
LEMMA WorkMoves ==
  ASSUME TypeOK, NEW r \in Slots, Work(r)
  PROVE  /\ Moves(r) /\ Unfolded(r) /\ flights[r] \in Report
         /\ flights'[r].stage \in Bucketing \cup {"folded"}
         /\ UNCHANGED <<minute, version, have, base, full, open, stops, snap, late>>
<1>1. UNCHANGED <<minute, version, have, base, full, open, stops, snap, late>>
  BY DEF Work, Accumulate, Aggregate, Address, FlushBucket, Empty, Place, TakeSample, BucketOnly, HostOnly, agent
<1>2. Unfolded(r)
  BY DEF Work, Accumulate, Aggregate, Address, FlushBucket, Empty, Place, TakeSample, Unfolded, InHost
<1>3. InHost(r) /\ flights[r] \in Report
  BY <1>2, FlightFields, NoneIsNoReport DEF Unfolded
<1> SUFFICES Moves(r) /\ flights'[r].stage \in Bucketing \cup {"folded"}
  BY <1>1, <1>2, <1>3
<1>4. CASE Accumulate(r)
  BY <1>3, <1>4, FoldMoves, StageMoves DEF Accumulate, Stages, Bucketing
<1>5. CASE Aggregate(r)
  BY <1>3, <1>5, AggregateMoves, EmptyMoves DEF Aggregate, Bucketing
<1>6. CASE Address(r)
  BY <1>6, AddressMoves DEF Bucketing
<1>7. CASE FlushBucket(r)
  BY <1>3, <1>7, StageMoves DEF FlushBucket, Stages, Bucketing
<1>8. CASE Empty(r)
  BY <1>3, <1>8, EmptyMoves DEF Empty, Bucketing
<1>9. CASE Place(r)
  BY <1>3, <1>9, StageMoves DEF Place, Stages, Bucketing
<1>10. CASE TakeSample(r)
  BY <1>3, <1>10, FoldMoves DEF TakeSample, Bucketing
<1> QED
  BY <1>1, <1>2, <1>3, <1>4, <1>5, <1>6, <1>7, <1>8, <1>9, <1>10 DEF Work

LEMMA MovesTyped ==
  ASSUME TypeOK, NEW r \in Slots, Work(r)
  PROVE  flights' \in [Slots -> Report \cup {NoReport}]
<1>1. \A o \in Slots : flights'[o] \in Report \cup {NoReport}
  BY WorkMoves DEF Moves, Robbed, TypeOK
<1>2. flights' = [o \in Slots |-> flights'[o]]
  <2>1. CASE EmptyBucket(r)
    BY <2>1 DEF EmptyBucket
  <2>2. CASE ~EmptyBucket(r)
    BY <2>2 DEF Work, Accumulate, Aggregate, Address, FlushBucket, Empty, Place, TakeSample, Stage, FoldedIn, TypeOK
  <2> QED
    BY <2>1, <2>2
<1> QED
  BY <1>1, <1>2

-----------------------------------------------------------------------------
(* Types.                                                                   *)

LEMMA TypesInitially ==
  ASSUME Init
  PROVE  TypeOK
<1>1. 1 \in Minutes /\ 0 \in Versions /\ 1 \in Versions /\ 0 \in 0..PerMinute /\ 0 \in 0..MaxStops
  BY Sizes DEF Minutes, Versions
<1>2. rows \in [Minutes -> Nat] /\ finds \in [Minutes -> Nat] /\ taken \in [Minutes -> 0..PerMinute]
  BY <1>1 DEF Init
<1> QED
  BY <1>1, <1>2 DEF Init, TypeOK, Absent

LEMMA AgentTyped ==
  ASSUME TypeOK, (\E s \in Sections : Change(s)) \/ GiveUp \/ RestartAgent
  PROVE  TypeOK'
<1>1. CASE \E s \in Sections : Change(s)
  <2> PICK s \in Sections : Change(s)
    BY <1>1
  <2>1. version + 1 \in Versions
    BY Sizes DEF Change, TypeOK, Versions
  <2> QED
    BY <2>1 DEF Change, TypeOK, folding
<1>2. CASE GiveUp
  BY <1>2 DEF GiveUp, TypeOK, folding
<1>3. CASE RestartAgent
  BY <1>3, Sizes DEF RestartAgent, TypeOK, folding, Absent, Versions
<1> QED
  BY <1>1, <1>2, <1>3

LEMMA DeltaTyped == TypeOK => Delta \in [Sections -> Versions]
BY Sizes DEF TypeOK, Delta, Versions

LEMMA SendTyped ==
  ASSUME TypeOK, NEW r \in Slots, Send(r)
  PROVE  TypeOK'
<1>1. [stage |-> "wire", data |-> Delta, at |-> 1, known |-> FALSE, sum |-> 0, row |-> None] \in Report
  BY DeltaTyped, Sizes DEF Report, Stages, Minutes
<1>2. flights' \in [Slots -> Report \cup {NoReport}]
  BY <1>1 DEF Send, TypeOK
<1> QED
  BY <1>2 DEF Send, TypeOK, folding

LEMMA DoneTyped ==
  ASSUME TypeOK, NEW r \in Slots, Lose(r) \/ Answer(r) \/ AnswerLost(r)
  PROVE  TypeOK'
<1>1. flights' \in [Slots -> Report \cup {NoReport}]
  BY DEF Lose, Answer, AnswerLost, TypeOK
<1>2. CASE Lose(r)
  BY <1>1, <1>2 DEF Lose, TypeOK, HostOnly, agent, folding
<1>3. CASE Answer(r)
  <2>1. flights[r] # NoReport
    BY <1>3 DEF Answer, NoReport
  <2>2. base' \in [Sections -> Versions] /\ full' \in BOOLEAN
    BY <1>3, <2>1, FlightFields DEF Answer, TypeOK
  <2> QED
    BY <1>1, <1>3, <2>2 DEF Answer, TypeOK, folding
<1>4. CASE AnswerLost(r)
  <2>1. open' \in Slots \cup {None} /\ late' \in BOOLEAN
    BY <1>4 DEF AnswerLost, TypeOK
  <2> QED
    BY <1>1, <1>4, <2>1 DEF AnswerLost, TypeOK, folding
<1> QED
  BY <1>2, <1>3, <1>4

LEMMA MergeTyped ==
  ASSUME TypeOK, NEW r \in Slots, Merge(r)
  PROVE  TypeOK'
<1>1. flights[r] # NoReport
  BY DEF Merge, NoReport
<1>2. flights[r].data \in [Sections -> Versions]
  BY <1>1, FlightFields
<1>3. snap' \in [Sections -> Versions]
  BY <1>2 DEF Merge, Merged, Taken, TypeOK
<1>4. [stage |-> "merged", at |-> minute, known |-> Known \/ open # r,
       data |-> IF open = r THEN flights[r].data ELSE Absent, sum |-> 0, row |-> None] \in Report
  BY <1>2, Sizes DEF Report, Stages, TypeOK, Absent, Versions, Known
<1>5. flights' \in [Slots -> Report \cup {NoReport}]
  BY <1>4 DEF Merge, TypeOK
<1>6. late' \in BOOLEAN
  BY DEF Merge, TypeOK
<1> QED
  BY <1>3, <1>5, <1>6 DEF Merge, TypeOK, HostOnly, agent, folding

-----------------------------------------------------------------------------
(* The work on a report: types and minutes.                                 *)

\* What the steps of the work do to bucket_ts, and to the minute a row is for.
LEMMA WorkTouches ==
  ASSUME TypeOK, NEW r \in Slots, Work(r)
  PROVE  /\ raced \subseteq raced' /\ disturbed \subseteq disturbed'
         /\ bts' \in {bts, None, flights[r].at}
         /\ flights'[r].row \in {None, bts, flights[r].row}
         /\ \/ flights'[r].row = None \/ flights'[r].stage \in {"addressed", "written"}
            \/ flights'[r].row = flights[r].row /\ flights[r].stage \notin {"addressed", "written"}
         /\ r \notin InBucket <=> Accumulate(r)
         /\ TakeSample(r) <=> r \in InBucket /\ flights'[r].stage = "folded"
         /\ ~TakeSample(r) => taken' = taken
<1>1. CASE Accumulate(r)
  <2>1. InHost(r) /\ r \notin InBucket
    BY <1>1 DEF Accumulate, InHost, InBucket, Bucketing
  <2>2. Moves(r) /\ flights'[r].row = flights[r].row
    BY <1>1, <2>1, FoldMoves, StageMoves DEF Accumulate, Same, Stages, Bucketing
  <2>3. flights[r].stage = "merged" /\ bts' \in {bts, flights[r].at} /\ raced \subseteq raced'
        /\ UNCHANGED <<disturbed, taken>>
    BY <1>1 DEF Accumulate
  <2>4. ~TakeSample(r)
    BY <2>3 DEF TakeSample
  <2> QED
    BY <1>1, <2>1, <2>2, <2>3, <2>4
<1>2. CASE ~Accumulate(r)
  <2>1. r \in InBucket /\ InHost(r)
    BY <1>2 DEF Work, Aggregate, Address, FlushBucket, Empty, Place, TakeSample, InBucket, Bucketing, InHost
  <2>2. CASE Aggregate(r)
    <3>1. flights'[r].stage # "folded" /\ ~TakeSample(r)
      BY <2>1, <2>2, AggregateMoves, EmptyMoves DEF Aggregate, TakeSample
    <3>2. flights'[r].row \in {None, flights[r].row} /\ flights[r].stage = "flushing"
      BY <2>1, <2>2, AggregateMoves, EmptyMoves DEF Aggregate
    <3>3. bts' \in {bts, None} /\ UNCHANGED <<raced, disturbed, taken>>
      BY <2>2 DEF Aggregate, EmptyBucket, folding
    <3> QED
      BY <1>2, <2>1, <3>1, <3>2, <3>3
  <2>3. CASE Address(r)
    <3>1. UNCHANGED folding /\ ~TakeSample(r)
      BY <2>3 DEF Address, TakeSample
    <3> QED
      BY <1>2, <2>1, <2>3, <3>1, AddressMoves DEF folding
  <2>4. CASE FlushBucket(r)
    <3>1. flights'[r].stage = "written" /\ flights'[r].row = flights[r].row
      BY <2>1, <2>4, StageMoves DEF FlushBucket, Same, Stages, Bucketing
    <3>2. ~TakeSample(r) /\ UNCHANGED <<bts, taken, raced>> /\ disturbed \subseteq disturbed'
      BY <2>4 DEF FlushBucket, FailRow, TakeSample
    <3> QED
      BY <1>2, <2>1, <3>1, <3>2
  <2>5. CASE Empty(r)
    <3>1. flights'[r].stage = "flushed" /\ flights'[r].row = None
      BY <2>1, <2>5, EmptyMoves DEF Empty
    <3>2. ~TakeSample(r) /\ bts' = None /\ UNCHANGED <<taken, raced, disturbed>>
      BY <2>5 DEF Empty, EmptyBucket, TakeSample
    <3> QED
      BY <1>2, <2>1, <3>1, <3>2
  <2>6. CASE Place(r)
    <3>1. flights'[r].stage = "placing" /\ flights'[r].row = flights[r].row /\ flights[r].stage = "flushed"
      BY <2>1, <2>6, StageMoves DEF Place, Same, Stages, Bucketing
    <3>2. ~TakeSample(r) /\ bts' \in {bts, flights[r].at} /\ UNCHANGED <<taken, raced, disturbed>>
      BY <2>6 DEF Place, TakeSample
    <3> QED
      BY <1>2, <2>1, <3>1, <3>2
  <2>7. CASE TakeSample(r)
    <3>1. flights'[r].stage = "folded" /\ flights'[r].row = flights[r].row
          /\ flights[r].stage \in {"placing", "lost"}
      BY <2>1, <2>7, FoldMoves DEF TakeSample
    <3> QED
      BY <1>2, <2>1, <2>7, <3>1 DEF TakeSample
  <2> QED
    BY <1>2, <2>2, <2>3, <2>4, <2>5, <2>6, <2>7 DEF Work
<1> QED
  BY <1>1, <1>2

\* What stays, of those worked on and of the others.
LEMMA WhoIsWhere ==
  ASSUME TypeOK, NEW r \in Slots, Work(r)
  PROVE  /\ \A o \in Slots \ {r} : o \in InBucket' <=> o \in InBucket
         /\ \A o \in Slots \ {r} : flights'[o].at = flights[o].at /\ flights'[o].row = flights[o].row
         /\ \A o \in Slots : Unfolded(o)' => Unfolded(o) /\ flights'[o].at = flights[o].at
         /\ \A o \in Slots : InHost(o)' <=> InHost(o)
         /\ \A o \in InBucket' : flights'[o].at = flights[o].at
         /\ \A o \in Slots \ {r} : flights'[o].stage = "placing" => flights[o].stage = "placing"
         /\ \A o \in Slots \ {r} : flights'[o].stage = "written" <=> flights[o].stage = "written"
<1>1. Moves(r) /\ Unfolded(r) /\ flights'[r].stage \in Bucketing \cup {"folded"}
  BY WorkMoves
<1>2. ASSUME NEW o \in Slots \ {r}
      PROVE  /\ o \in InBucket' <=> o \in InBucket
             /\ flights'[o].at = flights[o].at /\ flights'[o].row = flights[o].row
             /\ Unfolded(o)' <=> Unfolded(o)
             /\ InHost(o)' <=> InHost(o)
             /\ flights'[o].stage = "placing" => flights[o].stage = "placing"
             /\ flights'[o].stage = "written" <=> flights[o].stage = "written"
  <2>1. CASE flights'[o] = flights[o]
    BY <2>1 DEF InBucket, Unfolded, InHost
  <2>2. CASE Robbed(o)
    BY <2>2 DEF Robbed, Same, InBucket, Unfolded, InHost, Bucketing
  <2> QED
    BY <1>1, <2>1, <2>2 DEF Moves
<1>3. InHost(r)' /\ InHost(r)
  BY <1>1 DEF Unfolded, InHost, Bucketing
<1>4. (Unfolded(r)' \/ r \in InBucket') => flights'[r].at = flights[r].at
  BY <1>1 DEF Moves, Unfolded, InBucket, Bucketing
<1> QED
  BY <1>1, <1>2, <1>3, <1>4 DEF InBucket

\* A report in hand is counted among those its minute has room for.
LEMMA RoomForOne ==
  ASSUME TypeOK, RoomKept, NEW r \in Slots, Unfolded(r), flights[r].at # MaxMinute
  PROVE  taken[flights[r].at] + 1 <= PerMinute
<1>1. flights[r].at \in Minutes
  BY FlightFields, NoneIsNoReport DEF Unfolded
<1>2. r \in Pending(flights[r].at)
  BY DEF Pending, Unfolded
<1>3. Cardinality(Pending(flights[r].at)) # 0
  BY <1>2, PendingIsFinite, FS_EmptySet
<1> QED
  BY <1>1, <1>3, PendingIsFinite, Sizes DEF RoomKept, TypeOK

\* A sample is taken.
LEMMA TakenIs ==
  ASSUME TypeOK, RoomKept, OfTheirMinutes, NEW r \in Slots, TakeSample(r)
  PROVE  /\ flights[r].at \in Minutes \ {MaxMinute} /\ flights[r].at # None
         /\ taken[flights[r].at] \in Nat
         /\ taken'[flights[r].at] = taken[flights[r].at] + 1
         /\ \A m \in Minutes \ {flights[r].at} : taken'[m] = taken[m]
         /\ taken' \in [Minutes -> 0..PerMinute]
<1>1. Unfolded(r) /\ r \in InBucket
  BY DEF TakeSample, Unfolded, InHost, InBucket, Bucketing
<1>2. flights[r].at \in Minutes
  BY <1>1, FlightFields, NoneIsNoReport DEF Unfolded
<1>3. flights[r].at # MaxMinute
  BY <1>1 DEF OfTheirMinutes
<1>4. taken[flights[r].at] + 1 <= PerMinute /\ taken[flights[r].at] \in Nat
  BY <1>1, <1>2, <1>3, RoomForOne DEF TypeOK
<1>5. taken' = [taken EXCEPT ![flights[r].at] = @ + 1]
  BY DEF TakeSample
<1>6. flights[r].at # None
  BY <1>2 DEF Minutes, None
<1>7. taken[flights[r].at] + 1 \in 0..PerMinute
  BY <1>4, Sizes
<1> QED
  BY <1>2, <1>3, <1>4, <1>5, <1>6, <1>7 DEF TypeOK

\* A row is written with what it is given.
LEMMA RowWritten ==
  ASSUME TypeOK, NEW k \in Minutes, NEW n \in Nat, WriteRow(k, n)
  PROVE  /\ rows' \in [Minutes -> Nat] /\ finds' \in [Minutes -> Nat]
         /\ rows'[k] = n /\ finds'[k] = finds[k] + 1
         /\ \A m \in Minutes \ {k} : rows'[m] = rows[m] /\ finds'[m] = finds[m]
BY DEF TypeOK, WriteRow

LEMMA FlushIs ==
  ASSUME TypeOK, NEW r \in Slots, FlushBucket(r)
  PROVE  /\ rows' \in [Minutes -> Nat] /\ finds' \in [Minutes -> Nat] /\ disturbed' \subseteq Minutes
         /\ \/ /\ flights[r].row \in Minutes
               /\ rows'[flights[r].row] = flights[r].sum
               /\ finds'[flights[r].row] = finds[flights[r].row] + 1
               /\ \A m \in Minutes \ {flights[r].row} : rows'[m] = rows[m] /\ finds'[m] = finds[m]
               /\ disturbed' = disturbed
            \/ /\ rows' = rows /\ finds' = finds
               /\ disturbed \subseteq disturbed'
               /\ flights[r].row \in disturbed' \cup {None}
<1>1. flights[r].row \in Minutes \cup {None} /\ flights[r].sum \in Nat
  <2>1. flights[r] \in Report
    BY FlightFields, NoneIsNoReport DEF FlushBucket, InHost
  <2> QED
    BY <2>1 DEF Report
<1>2. CASE flights[r].row # None /\ WriteRow(flights[r].row, flights[r].sum) /\ UNCHANGED disturbed
  BY <1>1, <1>2, RowWritten DEF TypeOK
<1>3. CASE FailRow(flights[r].row)
  BY <1>1, <1>3 DEF FailRow, TypeOK
<1> QED
  BY <1>2, <1>3 DEF FlushBucket

LEMMA WorkTyped ==
  ASSUME TypeOK, RowsInv, NEW r \in Slots, Work(r)
  PROVE  TypeOK'
<1>1. /\ flights' \in [Slots -> Report \cup {NoReport}]
      /\ UNCHANGED <<minute, version, have, base, full, open, stops, snap, late>>
  BY WorkMoves, MovesTyped
<1>2. flights[r] \in Report /\ flights[r].at \in Minutes /\ flights[r].at # None
  BY WorkMoves, Sizes DEF Report, Minutes, None
<1>3. CASE Accumulate(r)
  <2>1. raced' \subseteq Minutes
    <3>1. \A o \in InBucket : flights[o].at \in Minutes /\ flights[o].row \in Minutes \cup {None}
      <4>1. \A o \in InBucket : flights[o] \in Report
        BY FlightFields, NoneIsNoReport DEF InBucket, InHost, Bucketing
      <4> QED
        BY <4>1 DEF Report
    <3>2. bts \in Minutes \cup {None}
      BY DEF TypeOK
    <3>3. RacedWith(r) \subseteq Minutes
      BY <1>2, <3>1, <3>2 DEF RacedWith
    <3> QED
      BY <1>3, <3>3 DEF Accumulate, TypeOK
  <2>2. bts' \in Minutes \cup {None} /\ (bts' = None => bts = None)
    BY <1>2, <1>3 DEF Accumulate, TypeOK
  <2> QED
    BY <1>1, <1>3, <2>1, <2>2 DEF Accumulate, TypeOK
<1>4. CASE Aggregate(r) \/ Empty(r)
  <2>1. \/ UNCHANGED folding
        \/ bts' = None /\ bucket' = 0 /\ UNCHANGED <<rows, finds, taken, disturbed, raced>>
    BY <1>4 DEF Aggregate, Empty, EmptyBucket
  <2> QED
    BY <1>1, <2>1 DEF TypeOK, folding
<1>5. CASE Address(r)
  BY <1>1, <1>5 DEF Address, TypeOK, folding
<1>6. CASE FlushBucket(r)
  <2>1. UNCHANGED <<bts, bucket, taken, raced>>
    BY <1>6 DEF FlushBucket
  <2> QED
    BY <1>1, <1>6, <2>1, FlushIs DEF TypeOK
<1>7. CASE Place(r)
  BY <1>1, <1>2, <1>7 DEF Place, TypeOK
<1>8. CASE TakeSample(r)
  <2>1. taken' \in [Minutes -> 0..PerMinute]
    BY <1>8, TakenIs DEF RowsInv
  <2>2. bucket' \in Nat /\ (bts = None => bucket' = 0)
    BY <1>8 DEF TakeSample, RowsInv, Loaded, TypeOK
  <2> QED
    BY <1>1, <1>8, <2>1, <2>2 DEF TakeSample, TypeOK
<1> QED
  BY <1>3, <1>4, <1>5, <1>6, <1>7, <1>8 DEF Work

LEMMA HostTyped ==
  ASSUME TypeOK, Restart \/ Clock \/ UNCHANGED vars
  PROVE  TypeOK'
<1>1. CASE Restart
  <2>1. rows' \in [Minutes -> Nat] /\ finds' \in [Minutes -> Nat]
    <3>1. bts # None => bts \in Minutes
      BY DEF TypeOK
    <3>2. bucket \in Nat
      BY DEF TypeOK
    <3> QED
      BY <1>1, <3>1, <3>2, RowWritten DEF Restart, TypeOK
  <2>2. flights' \in [Slots -> Report \cup {NoReport}]
    BY <1>1 DEF Restart, TypeOK
  <2>3. snap' \in [Sections -> Versions] /\ stops' \in 0..MaxStops
    BY <1>1, Sizes DEF Restart, Absent, Versions, TypeOK
  <2>4. disturbed' \subseteq Minutes
    BY <1>1 DEF Restart, TypeOK
  <2> QED
    BY <1>1, <2>1, <2>2, <2>3, <2>4 DEF Restart, TypeOK, agent
<1>2. CASE Clock
  <2>1. minute' \in Minutes
    BY <1>2, Sizes DEF Clock, TypeOK, Minutes
  <2> QED
    BY <1>2, <2>1 DEF Clock, TypeOK, agent, folding
<1>3. CASE UNCHANGED vars
  BY <1>3 DEF vars, TypeOK, agent, folding
<1> QED
  BY <1>1, <1>2, <1>3

LEMMA StepTyped ==
  ASSUME TypeOK, RowsInv, [Next]_vars
  PROVE  TypeOK'
<1>1. CASE \E s \in Sections : Change(s)
  BY <1>1, AgentTyped
<1>2. CASE \E r \in Slots : Send(r) \/ Lose(r) \/ Merge(r) \/ Work(r) \/ Answer(r) \/ AnswerLost(r)
  BY <1>2, SendTyped, DoneTyped, MergeTyped, WorkTyped
<1>3. CASE GiveUp \/ RestartAgent
  BY <1>3, AgentTyped
<1>4. CASE Restart \/ Clock \/ UNCHANGED vars
  BY <1>4, HostTyped
<1> QED
  BY <1>1, <1>2, <1>3, <1>4 DEF Next

-----------------------------------------------------------------------------
(* Who races for the bucket.                                                *)

\* A report that begins to race, or beside which one begins to, is spoilt.
LEMMA RacersAreSpoilt ==
  ASSUME TypeOK, RowsInv, NEW r \in Slots, Accumulate(r), Accumulated(r), Racing(r),
         NEW o \in Slots, o = r \/ o \in InBucket
  PROVE  Spoilt(o)'
<1>1. InHost(r) /\ flights[r].stage = "merged"
  BY DEF Accumulate, InHost
<1>2. flights'[o].at = flights[o].at /\ flights'[o].row = flights[o].row
  <2>1. Keeps(r) /\ Same(flights'[r], flights[r])
    BY <1>1, StageMoves DEF Accumulate, Stages, Bucketing
  <2> QED
    BY <2>1 DEF Keeps, Same
<1>3. flights[r].row = None
  BY <1>1, NoneIsNoReport DEF RowsInv, OfTheirMinutes
<1>4. raced' = raced \cup RacedWith(r) /\ bts' \in {bts, flights[r].at}
  BY DEF Accumulate
<1> QED
  BY <1>2, <1>3, <1>4 DEF Spoilt, RacedWith

LEMMA SpoiltStays ==
  ASSUME TypeOK, RowsInv, NEW r \in Slots, Work(r), NEW o \in InBucket, Spoilt(o), o \in InBucket'
  PROVE  Spoilt(o)'
<1>0. o \in Slots
  BY DEF InBucket
<1>1. CASE Accumulate(r)
  <2>1. o # r
    BY <1>1 DEF Accumulate, InBucket, Bucketing
  <2>2. CASE Accumulated(r)
    <3>1. Racing(r)
      BY DEF Racing
    <3> QED
      BY <1>0, <1>1, <2>2, <3>1, RacersAreSpoilt
  <2>3. CASE ~Accumulated(r)
    <3>1. bts' = bts /\ raced' = raced
      BY <1>1, <2>3 DEF Accumulate
    <3>2. flights'[o].at = flights[o].at /\ flights'[o].row = flights[o].row
      BY <1>0, <2>1, WhoIsWhere
    <3> QED
      BY <3>1, <3>2 DEF Spoilt
  <2> QED
    BY <2>2, <2>3
<1>2. CASE ~Accumulate(r)
  <2>1. r \in InBucket
    BY <1>2, WorkTouches
  <2>2. Spoilt(r)
    BY <2>1 DEF RowsInv, Apart
  <2>3. {bts'} \ {None} \subseteq raced
    <3>1. bts' \in {bts, None, flights[r].at}
      BY WorkTouches
    <3> QED
      BY <2>2, <3>1 DEF Spoilt
  <2>4. flights'[o].at = flights[o].at
    BY <1>0, WhoIsWhere
  <2>5. {flights'[o].row} \ {None} \subseteq raced
    <3>1. flights'[o].row \in {None, bts, flights[o].row}
      BY <1>0, WhoIsWhere, WorkTouches
    <3> QED
      BY <3>1 DEF Spoilt
  <2>6. raced \subseteq raced'
    BY WorkTouches
  <2> QED
    BY <2>3, <2>4, <2>5, <2>6 DEF Spoilt
<1> QED
  BY <1>1, <1>2

LEMMA ApartStays ==
  ASSUME TypeOK, RowsInv, NEW r \in Slots, Work(r)
  PROVE  Apart'
<1> SUFFICES ASSUME NEW q \in InBucket', NEW o \in InBucket', q # o PROVE Spoilt(q)'
  BY DEF Apart
<1>0. q \in Slots /\ o \in Slots
  BY DEF InBucket
<1>1. CASE q \in InBucket /\ o \in InBucket
  BY <1>1, SpoiltStays DEF RowsInv, Apart
<1>2. CASE q \notin InBucket \/ o \notin InBucket
  <2>1. Accumulate(r) /\ r \in InBucket' /\ r \notin InBucket
    BY <1>0, <1>2, WhoIsWhere, WorkTouches
  <2>2. (q = r /\ o \in InBucket) \/ (o = r /\ q \in InBucket)
    BY <1>0, <1>2, <2>1, WhoIsWhere
  <2>3. Accumulated(r) /\ Racing(r)
    <3>1. CASE ~Accumulated(r)
      <4>1. flights'[r].stage = "folded"
        BY <2>1, <3>1, WorkMoves, FoldMoves DEF Accumulate, Unfolded
      <4> QED
        BY <2>1, <4>1 DEF InBucket, Bucketing
    <3> QED
      BY <2>2, <3>1 DEF Racing
  <2> QED
    BY <1>0, <2>1, <2>2, <2>3, RacersAreSpoilt
<1> QED
  BY <1>1, <1>2

\* A report with nobody beside it goes on as it left the bucket.
LEMMA UndisturbedStays ==
  ASSUME TypeOK, RowsInv, NEW r \in InBucket, Work(r), Undisturbed(r), r \in InBucket'
  PROVE  Undisturbed(r)'
<1>0. r \in Slots /\ InHost(r)
  BY DEF InBucket, InHost, Bucketing
<1>1. ~Accumulate(r) /\ ~TakeSample(r)
  <2>1. flights'[r].stage # "folded"
    BY DEF InBucket, Bucketing
  <2> QED
    BY <1>0, <2>1, WorkTouches
<1>2. CASE Aggregate(r)
  <2>1. bts # None /\ bucket > 0 /\ bts < flights[r].at
    BY <1>2 DEF Aggregate, Undisturbed
  <2>2. ~(bts = None \/ bucket = 0)
    BY <2>1 DEF TypeOK
  <2>3. UNCHANGED folding
        /\ flights' = [flights EXCEPT ![r] = [@ EXCEPT !.stage = "aggregated", !.sum = bucket]]
    BY <1>2, <2>2 DEF Aggregate
  <2> QED
    BY <1>0, <2>1, <2>3, AggregateMoves DEF Undisturbed, folding
<1>3. CASE Address(r)
  <2>1. UNCHANGED folding /\ flights[r].stage = "aggregated"
    BY <1>3 DEF Address
  <2> QED
    BY <1>0, <1>3, <2>1, AddressMoves DEF Undisturbed, folding
<1>4. CASE FlushBucket(r)
  <2>1. UNCHANGED <<bts, bucket>> /\ flights[r].stage = "addressed"
    BY <1>4 DEF FlushBucket
  <2>2. flights'[r].stage = "written" /\ Same(flights'[r], flights[r])
    BY <1>0, <1>4, StageMoves DEF FlushBucket, Stages, Bucketing
  <2> QED
    BY <2>1, <2>2 DEF Undisturbed, Same
<1>5. CASE Empty(r)
  <2>1. flights'[r].stage = "flushed" /\ bts' = None
    BY <1>0, <1>5, EmptyMoves DEF Empty, EmptyBucket
  <2> QED
    BY <2>1 DEF Undisturbed
<1>6. CASE Place(r)
  <2>1. flights'[r].stage = "placing" /\ Same(flights'[r], flights[r])
    BY <1>0, <1>6, StageMoves DEF Place, Stages, Bucketing
  <2>2. bts = None
    BY <1>6 DEF Place, Undisturbed
  <2>3. bts' = flights[r].at
    BY <1>6, <2>2 DEF Place
  <2> QED
    BY <2>1, <2>3 DEF Undisturbed, Same
<1> QED
  BY <1>1, <1>2, <1>3, <1>4, <1>5, <1>6 DEF Work

\* A bucket found open has a sample in it, and one that is not of a later minute.
LEMMA EntersUndisturbed ==
  ASSUME TypeOK, RowsInv, NEW r \in Slots, Accumulate(r), ~Racing(r), r \in InBucket'
  PROVE  Undisturbed(r)' /\ flights[r].at \in Minutes /\ InBucket = {}
<1>1. InHost(r) /\ Work(r) /\ flights[r].at \in Minutes
  BY WorkMoves DEF Accumulate, InHost, Work, Report
<1>2. InBucket = {} /\ ~\E m \in Minutes : m > flights[r].at /\ taken[m] > 0
  BY DEF Racing
<1>3. Accumulated(r)
  <2>1. CASE ~Accumulated(r)
    BY <1>1, <2>1, FoldMoves DEF Accumulate, InBucket, Bucketing
  <2> QED
    BY <2>1
<1>4. CASE bts' = flights[r].at /\ Stage(r, "placing")
  <2>1. flights'[r].stage = "placing" /\ flights'[r].at = flights[r].at
    BY <1>1, <1>4, StageMoves DEF Same, Stages, Bucketing
  <2> QED
    BY <1>1, <1>2, <1>4, <2>1 DEF Undisturbed
<1>5. CASE bts \notin {None, flights[r].at} /\ Stage(r, "flushing") /\ UNCHANGED bts
  <2>1. flights'[r].stage = "flushing" /\ flights'[r].at = flights[r].at
    BY <1>1, <1>5, StageMoves DEF Same, Stages, Bucketing
  <2>2. \A o \in Slots : flights[o].stage # "placing"
    BY <1>2 DEF InBucket, Bucketing
  <2>3. bucket > 0 /\ taken[bts] > 0
    BY <1>2, <1>5, <2>2 DEF RowsInv, Backed
  <2>4. bts \in Minutes /\ bts \in Int /\ flights[r].at \in Int
    BY <1>1, <1>5 DEF TypeOK, Minutes
  <2>5. bts < flights[r].at
    BY <1>2, <1>5, <2>3, <2>4
  <2>6. bucket' = bucket
    BY DEF Accumulate
  <2> QED
    BY <1>1, <1>2, <1>5, <2>1, <2>3, <2>5, <2>6 DEF Undisturbed
<1> QED
  BY <1>3, <1>4, <1>5 DEF Accumulate

LEMMA SpoiltOrNotStays ==
  ASSUME TypeOK, RowsInv, NEW r \in Slots, Work(r)
  PROVE  SpoiltOrNot'
<1> SUFFICES ASSUME NEW o \in InBucket' PROVE Spoilt(o)' \/ Undisturbed(o)'
  BY DEF SpoiltOrNot
<1>0. o \in Slots
  BY DEF InBucket
<1>1. CASE o \in InBucket /\ Spoilt(o)
  BY <1>1, SpoiltStays
<1>2. CASE o \in InBucket /\ ~Spoilt(o)
  <2>1. Undisturbed(o)
    BY <1>2 DEF RowsInv, SpoiltOrNot
  <2>2. CASE o = r
    BY <1>2, <2>1, <2>2, UndisturbedStays
  <2>3. CASE o # r
    <3>1. r \notin InBucket
      BY <1>2, <2>3 DEF RowsInv, Apart
    <3>2. Accumulate(r)
      BY <3>1, WorkTouches
    <3>3. CASE Accumulated(r)
      <4>1. Racing(r)
        BY <1>2 DEF Racing
      <4> QED
        BY <1>0, <1>2, <3>2, <3>3, <4>1, RacersAreSpoilt
    <3>4. CASE ~Accumulated(r)
      <4>1. bts' = bts /\ bucket' = bucket /\ FoldedIn(r)
        BY <3>2, <3>4 DEF Accumulate
      <4>2. InHost(r)
        BY <3>2 DEF Accumulate, InHost
      <4>3. flights'[o] = flights[o]
        BY <1>0, <2>3, <4>1, <4>2, FoldMoves DEF Keeps
      <4> QED
        BY <2>1, <4>1, <4>3 DEF Undisturbed
    <3> QED
      BY <3>3, <3>4
  <2> QED
    BY <2>2, <2>3
<1>3. CASE o \notin InBucket
  <2>1. o = r
    BY <1>0, <1>3, WhoIsWhere
  <2>2. Accumulate(r)
    BY <1>3, <2>1, WorkTouches
  <2>3. CASE Racing(r)
    <3>1. CASE ~Accumulated(r)
      <4>1. flights'[r].stage = "folded"
        BY <2>2, <3>1, WorkMoves, FoldMoves DEF Accumulate, Unfolded
      <4> QED
        BY <2>1, <4>1 DEF InBucket, Bucketing
    <3> QED
      BY <2>1, <2>2, <2>3, <3>1, RacersAreSpoilt
  <2>4. CASE ~Racing(r)
    BY <2>1, <2>2, <2>4, EntersUndisturbed
  <2> QED
    BY <2>3, <2>4
<1> QED
  BY <1>1, <1>2, <1>3

-----------------------------------------------------------------------------
(* Minutes that were passed.                                                *)

LEMMA PassedStays ==
  ASSUME TypeOK, RowsInv, NEW r \in Slots, Work(r), NEW m \in Minutes, Passed(m)
  PROVE  Passed(m)'
<1>0. minute' = minute
  BY WorkMoves
<1>1. CASE \E n \in Minutes : n > m /\ taken[n] > 0
  <2>1. PICK n \in Minutes : n > m /\ taken[n] > 0
    BY <1>1
  <2>2. taken'[n] > 0
    <3>1. CASE TakeSample(r)
      BY <2>1, <3>1, TakenIs DEF RowsInv, TypeOK
    <3>2. CASE ~TakeSample(r)
      BY <2>1, <3>2, WorkTouches
    <3> QED
      BY <3>1, <3>2
  <2> QED
    BY <2>1, <2>2 DEF Passed, Later
<1>2. CASE \E o \in InBucket : flights[o].at > m
  <2>1. PICK o \in InBucket : flights[o].at > m
    BY <1>2
  <2>2. o \in Slots
    BY DEF InBucket
  <2>3. CASE o \in InBucket'
    <3>1. flights'[o].at = flights[o].at
      BY <2>2, <2>3, WhoIsWhere
    <3> QED
      BY <2>1, <2>3, <3>1 DEF Passed, Later
  <2>4. CASE o \notin InBucket'
    <3>1. o = r
      BY <2>1, <2>2, <2>4, WhoIsWhere
    <3>2. TakeSample(r)
      <4>1. flights'[r].stage \in Bucketing \cup {"folded"}
        BY WorkMoves
      <4>2. flights'[r].stage = "folded"
        BY <2>2, <2>4, <3>1, <4>1 DEF InBucket
      <4> QED
        BY <2>1, <3>1, <4>2, WorkTouches
    <3>3. flights[r].at \in Minutes /\ taken'[flights[r].at] > 0
      BY <3>2, TakenIs DEF RowsInv
    <3> QED
      BY <2>1, <3>1, <3>3 DEF Passed, Later
  <2> QED
    BY <2>3, <2>4
<1>3. CASE m < minute /\ \A o \in Slots : Unfolded(o) => flights[o].at # m
  <2>1. \A o \in Slots : Unfolded(o)' => flights'[o].at # m
    BY <1>3, WhoIsWhere
  <2> QED
    BY <1>0, <1>3, <2>1 DEF Passed
<1> QED
  BY <1>1, <1>2, <1>3 DEF Passed, Later

\* Who is alone with the bucket comes in time for its minute.
LEMMA NotPassed ==
  ASSUME TypeOK, RowsInv, NEW r \in InBucket, flights[r].at \notin raced
  PROVE  ~Passed(flights[r].at) /\ ~Spoilt(r) /\ InBucket = {r} /\ Undisturbed(r)
         /\ flights[r].at \in Minutes
<1>1. r \in Slots /\ Unfolded(r)
  BY DEF InBucket, Unfolded, InHost, Bucketing
<1>2. flights[r].at \in Minutes /\ flights[r].at # None
  BY <1>1, FlightFields, NoneIsNoReport DEF Unfolded, Minutes, None
<1>3. ~Spoilt(r)
  BY <1>2 DEF Spoilt
<1>4. InBucket = {r} /\ Undisturbed(r)
  BY <1>3 DEF RowsInv, Apart, SpoiltOrNot
<1>5. ~\E n \in Minutes : n > flights[r].at /\ taken[n] > 0
  BY DEF RowsInv, InTime
<1>6. ~\E o \in InBucket : flights[o].at > flights[r].at
  BY <1>2, <1>4 DEF Minutes
<1> QED
  BY <1>1, <1>2, <1>3, <1>4, <1>5, <1>6 DEF Passed, Later

\* So does who comes to it without racing.
LEMMA ComesInTime ==
  ASSUME TypeOK, NEW r \in Slots, Accumulate(r), ~Racing(r)
  PROVE  ~Passed(flights[r].at)
<1>1. Unfolded(r)
  BY DEF Accumulate, Unfolded, InHost
<1> QED
  BY <1>1 DEF Racing, Passed, Later

LEMMA InTimeStays ==
  ASSUME TypeOK, RowsInv, NEW r \in Slots, Work(r)
  PROVE  InTime'
<1> SUFFICES ASSUME NEW o \in InBucket', flights'[o].at \notin raced', NEW n \in Minutes, n > flights'[o].at
             PROVE  taken'[n] = 0
  BY DEF InTime
<1>0. o \in Slots /\ flights'[o].at = flights[o].at /\ flights[o].at \notin raced
  BY WhoIsWhere, WorkTouches DEF InBucket
<1>1. taken[n] = 0
  <2>1. CASE o \in InBucket
    BY <1>0, <2>1 DEF RowsInv, InTime
  <2>2. CASE o \notin InBucket
    <3>1. o = r /\ Accumulate(r)
      BY <1>0, <2>2, WhoIsWhere, WorkTouches
    <3>2. ~Racing(r)
      <4>1. Accumulated(r)
        <5>1. CASE ~Accumulated(r)
          <6>1. flights'[r].stage = "folded"
            BY <3>1, <5>1, WorkMoves, FoldMoves DEF Accumulate, Unfolded
          <6> QED
            BY <3>1, <6>1 DEF InBucket, Bucketing
        <5> QED
          BY <5>1
      <4>2. Racing(r) => flights[r].at \in raced' \cup {None}
        BY <3>1, <4>1 DEF Accumulate, RacedWith
      <4>3. flights[r].at # None
        BY <3>1, WorkMoves DEF Report, Minutes, None
      <4> QED
        BY <1>0, <3>1, <4>2, <4>3
    <3> QED
      BY <1>0, <3>1, <3>2 DEF Racing, TypeOK
  <2> QED
    BY <2>1, <2>2
<1>2. CASE TakeSample(r)
  <2>1. o # r
    BY <1>2, WorkTouches DEF InBucket, Bucketing
  <2>2. o \in InBucket /\ r \in InBucket
    BY <1>0, <1>2, <2>1, WhoIsWhere, WorkTouches
  <2> QED
    BY <1>0, <2>1, <2>2, NotPassed
<1>3. CASE ~TakeSample(r)
  BY <1>1, <1>3, WorkTouches
<1> QED
  BY <1>2, <1>3

-----------------------------------------------------------------------------
(* The work on a report keeps the minutes' invariant.                       *)

LEMMA RoomStays ==
  ASSUME TypeOK, TypeOK', RowsInv, NEW r \in Slots, Work(r)
  PROVE  RoomKept'
<1> SUFFICES ASSUME NEW m \in Minutes
             PROVE  IF m = MaxMinute THEN taken'[m] = 0
                    ELSE taken'[m] + Cardinality(Pending(m)') <= PerMinute
  BY DEF RoomKept
<1>1. Pending(m)' \subseteq Pending(m)
  BY WhoIsWhere DEF Pending, Unfolded
<1>2. IF m = MaxMinute THEN taken[m] = 0 ELSE taken[m] + Cardinality(Pending(m)) <= PerMinute
  BY DEF RowsInv, RoomKept
<1>3. taken[m] \in Nat /\ taken'[m] \in Nat
  BY DEF TypeOK
<1>4. CASE taken'[m] = taken[m]
  <2>1. Cardinality(Pending(m)') <= Cardinality(Pending(m)) /\ Cardinality(Pending(m)') \in Nat
    BY <1>1, PendingIsFinite, FS_Subset, FS_CardinalityType
  <2> QED
    BY <1>2, <1>3, <1>4, <2>1, PendingIsFinite, Sizes
<1>5. CASE taken'[m] # taken[m]
  <2>1. TakeSample(r)
    BY <1>5, WorkTouches
  <2>2. m = flights[r].at /\ taken'[m] = taken[m] + 1 /\ m # MaxMinute
    BY <1>5, <2>1, TakenIs DEF RowsInv
  <2>3. flights'[r].stage = "folded" /\ Unfolded(r)
    BY <2>1, WorkTouches, WorkMoves
  <2>4. r \in Pending(m) /\ r \notin Pending(m)'
    BY <2>2, <2>3 DEF Pending, Unfolded
  <2>5. Cardinality(Pending(m) \ {r}) = Cardinality(Pending(m)) - 1 /\ IsFiniteSet(Pending(m) \ {r})
    BY <2>4, PendingIsFinite, FS_RemoveElement
  <2>6. Pending(m)' \subseteq Pending(m) \ {r}
    BY <1>1, <2>4
  <2>7. Cardinality(Pending(m)') <= Cardinality(Pending(m)) - 1 /\ Cardinality(Pending(m)') \in Nat
    BY <2>5, <2>6, FS_Subset, FS_CardinalityType
  <2> QED
    BY <1>2, <1>3, <2>2, <2>7, PendingIsFinite, Sizes
<1> QED
  BY <1>4, <1>5

LEMMA MinutesStay ==
  ASSUME TypeOK, TypeOK', RowsInv, NEW r \in Slots, Work(r)
  PROVE  OfTheirMinutes'
<1> SUFFICES ASSUME NEW o \in Slots
             PROVE  /\ InHost(o)' => flights'[o].at <= minute'
                    /\ o \in InBucket' => flights'[o].at # MaxMinute
                    /\ flights'[o] # NoReport /\ flights'[o].stage \notin {"addressed", "written"} =>
                         flights'[o].row = None
  BY DEF OfTheirMinutes
<1>1. /\ InHost(o) => flights[o].at <= minute
      /\ o \in InBucket => flights[o].at # MaxMinute
      /\ flights[o] # NoReport /\ flights[o].stage \notin {"addressed", "written"} => flights[o].row = None
  BY DEF RowsInv, OfTheirMinutes
<1>2. minute' = minute /\ minute \in Int /\ minute >= 1
  BY WorkMoves DEF TypeOK, Minutes
<1>3. InHost(o)' => flights'[o].at <= minute'
  <2>1. InHost(o)' => InHost(o) /\ (flights'[o].at = flights[o].at \/ flights'[o].at = 1)
    BY WhoIsWhere, WorkMoves DEF Moves
  <2> QED
    BY <1>1, <1>2, <2>1
<1>4. o \in InBucket' => flights'[o].at # MaxMinute
  <2>1. CASE o \in InBucket
    BY <1>1, <2>1, WhoIsWhere
  <2>2. CASE o \notin InBucket /\ o \in InBucket'
    <3>1. o = r /\ Accumulate(r)
      BY <2>2, WhoIsWhere, WorkTouches
    <3>2. flights'[o].stage # "folded"
      BY <2>2 DEF InBucket, Bucketing
    <3>3. Accumulated(r)
      <4>1. InHost(r)
        BY <3>1 DEF Accumulate, InHost
      <4> QED
        BY <3>1, <3>2, <4>1, FoldMoves DEF Accumulate
    <3>4. flights'[o].at = flights[o].at /\ flights[o].at \in Minutes
      BY <2>2, <3>1, WhoIsWhere, WorkMoves DEF Report
    <3> QED
      BY <3>1, <3>3, <3>4, Sizes DEF Accumulated, Minutes
  <2> QED
    BY <2>1, <2>2
<1>5. flights'[o] # NoReport /\ flights'[o].stage \notin {"addressed", "written"} => flights'[o].row = None
  <2>1. CASE o = r
    <3>1. flights[r] # NoReport
      BY WorkMoves, NoneIsNoReport DEF Unfolded
    <3> QED
      BY <1>1, <2>1, <3>1, WorkTouches
  <2>2. CASE o # r
    <3>1. CASE flights'[o] = flights[o]
      BY <1>1, <3>1
    <3>2. CASE Robbed(o)
      <4>1. flights[o] # NoReport
        BY <3>2 DEF Robbed, NoReport
      <4> QED
        BY <1>1, <3>2, <4>1 DEF Robbed, Same
    <3> QED
      BY <2>2, <3>1, <3>2, WorkMoves DEF Moves
  <2> QED
    BY <2>1, <2>2
<1> QED
  BY <1>3, <1>4, <1>5

\* What the bucket is after each step of the work.
LEMMA BucketIs ==
  ASSUME TypeOK, NEW r \in Slots, Work(r)
  PROVE  \/ bts' = None /\ flights'[r].stage = "flushed"
            /\ \A o \in Slots : flights'[o].stage # "placing"
         \/ flights'[r].stage = "placing" /\ bts' # None /\ bts' \in {bts, flights[r].at}
            /\ r \in InBucket'
         \/ bts' = bts /\ bucket' = bucket /\ flights'[r].stage # "placing" /\ flights[r].stage # "placing"
            /\ Keeps(r)
         \/ TakeSample(r)
<1>1. InHost(r) /\ flights[r].at # None
  BY WorkMoves DEF Unfolded, Report, Minutes, None
<1>2. CASE EmptyBucket(r)
  <2>1. bts' = None /\ flights'[r].stage = "flushed"
    BY <1>1, <1>2, EmptyMoves DEF EmptyBucket
  <2>2. \A o \in Slots : flights'[o].stage # "placing"
    <3> TAKE o \in Slots
    <3>1. CASE o = r
      BY <2>1, <3>1
    <3>2. CASE o # r /\ flights[o].stage = "placing"
      <4>1. flights[o] \in Report
        BY <3>2, FlightFields DEF NoReport
      <4>2. flights'[o] = [flights[o] EXCEPT !.stage = "lost"]
        BY <1>2, <3>2 DEF EmptyBucket
      <4> QED
        BY <4>1, <4>2 DEF Report
    <3>3. CASE o # r /\ flights[o].stage # "placing"
      BY <1>2, <3>3 DEF EmptyBucket
    <3> QED
      BY <3>1, <3>2, <3>3
  <2> QED
    BY <2>1, <2>2
<1>3. CASE Accumulate(r)
  <2>1. CASE ~Accumulated(r)
    BY <1>1, <1>3, <2>1, FoldMoves DEF Accumulate
  <2>2. CASE bts' = flights[r].at /\ Stage(r, "placing")
    <3>1. flights'[r].stage = "placing"
      BY <1>1, <2>2, StageMoves DEF Stages, Bucketing
    <3> QED
      BY <1>1, <2>2, <3>1 DEF InBucket, Bucketing
  <2>3. CASE Stage(r, "flushing") /\ UNCHANGED bts
    <3>1. flights'[r].stage = "flushing" /\ Keeps(r)
      BY <1>1, <2>3, StageMoves DEF Stages, Bucketing
    <3> QED
      BY <1>3, <2>3, <3>1 DEF Accumulate
  <2> QED
    BY <1>3, <2>1, <2>2, <2>3 DEF Accumulate
<1>4. CASE Aggregate(r) /\ ~EmptyBucket(r)
  <2>1. UNCHANGED folding /\ flights[r].stage = "flushing"
        /\ flights' = [flights EXCEPT ![r] = [@ EXCEPT !.stage = "aggregated", !.sum = bucket]]
    BY <1>4 DEF Aggregate
  <2> QED
    BY <1>1, <2>1, AggregateMoves DEF folding
<1>5. CASE Address(r)
  BY <1>5, AddressMoves DEF Address, folding
<1>6. CASE FlushBucket(r)
  <2>1. flights'[r].stage = "written" /\ Keeps(r)
    BY <1>1, <1>6, StageMoves DEF FlushBucket, Stages, Bucketing
  <2> QED
    BY <1>6, <2>1 DEF FlushBucket
<1>7. CASE Place(r)
  <2>1. flights'[r].stage = "placing"
    BY <1>1, <1>7, StageMoves DEF Place, Stages, Bucketing
  <2> QED
    BY <1>1, <1>7, <2>1 DEF Place, InBucket, Bucketing
<1> QED
  BY <1>2, <1>3, <1>4, <1>5, <1>6, <1>7 DEF Work, Empty

LEMMA LoadedStays ==
  ASSUME TypeOK, RowsInv, NEW r \in Slots, Work(r)
  PROVE  Loaded'
<1>1. CASE bts' # None
  BY <1>1 DEF Loaded
<1>2. CASE bts' = None
  <2>1. CASE TakeSample(r)
    <3>1. bts' = bts /\ flights'[r].stage = "folded"
      BY <2>1, WorkTouches DEF TakeSample
    <3> QED
      BY <1>2, <3>1, WhoIsWhere DEF RowsInv, Loaded
  <2>2. CASE bts' = bts /\ flights'[r].stage # "placing"
    BY <1>2, <2>2, WhoIsWhere DEF RowsInv, Loaded
  <2> QED
    BY <1>2, <2>1, <2>2, BucketIs DEF Loaded
<1> QED
  BY <1>1, <1>2

LEMMA BackedStays ==
  ASSUME TypeOK, TypeOK', RowsInv, NEW r \in Slots, Work(r)
  PROVE  Backed'
<1> SUFFICES ASSUME bts' # None
             PROVE  /\ bucket' > 0 \/ \E o \in Slots : flights'[o].stage = "placing"
                    /\ taken'[bts'] > 0 \/ \E o \in InBucket' : flights'[o].at = bts'
  BY DEF Backed
<1>1. bts' \in Minutes
  BY DEF TypeOK
<1>2. bucket' > 0 \/ \E o \in Slots : flights'[o].stage = "placing"
  <2>1. CASE TakeSample(r)
    <3>1. CASE flights[r].stage = "placing"
      BY <2>1, <3>1 DEF TakeSample, TypeOK
    <3>2. CASE flights[r].stage = "lost"
      <4>1. bts' = bts /\ bucket' = bucket /\ Keeps(r)
        BY <2>1, <3>2, WorkMoves, FoldMoves DEF TakeSample, Unfolded
      <4>2. bucket > 0 \/ \E o \in Slots : flights[o].stage = "placing"
        BY <4>1 DEF RowsInv, Backed
      <4> QED
        BY <3>2, <4>1, <4>2 DEF Keeps
    <3> QED
      BY <2>1, <3>1, <3>2 DEF TakeSample
  <2>2. CASE flights'[r].stage = "placing"
    BY <2>2
  <2>3. CASE bts' = bts /\ bucket' = bucket /\ flights[r].stage # "placing" /\ Keeps(r)
    <3>1. bucket > 0 \/ \E o \in Slots : flights[o].stage = "placing"
      BY <2>3 DEF RowsInv, Backed
    <3> QED
      BY <2>3, <3>1 DEF Keeps
  <2> QED
    BY <2>1, <2>2, <2>3, BucketIs
<1>3. taken'[bts'] > 0 \/ \E o \in InBucket' : flights'[o].at = bts'
  <2>1. CASE r \in InBucket' /\ bts' = flights[r].at
    BY <2>1, WhoIsWhere
  <2>2. CASE bts' = bts
    <3>1. CASE taken[bts] > 0
      <4>1. CASE TakeSample(r)
        BY <1>1, <2>2, <3>1, <4>1, TakenIs DEF RowsInv, TypeOK
      <4>2. CASE ~TakeSample(r)
        BY <2>2, <3>1, <4>2, WorkTouches
      <4> QED
        BY <4>1, <4>2
    <3>2. CASE \E o \in InBucket : flights[o].at = bts
      <4>1. PICK o \in InBucket : flights[o].at = bts
        BY <3>2
      <4>2. o \in Slots
        BY DEF InBucket
      <4>3. CASE o \in InBucket'
        BY <2>2, <4>1, <4>2, <4>3, WhoIsWhere
      <4>4. CASE o \notin InBucket'
        <5>1. o = r
          BY <4>1, <4>2, <4>4, WhoIsWhere
        <5>2. TakeSample(r)
          <6>1. flights'[r].stage = "folded"
            BY <4>2, <4>4, <5>1, WorkMoves DEF InBucket
          <6> QED
            BY <4>1, <5>1, <6>1, WorkTouches
        <5> QED
          BY <2>2, <4>1, <5>1, <5>2, TakenIs DEF RowsInv
      <4> QED
        BY <4>3, <4>4
    <3> QED
      BY <2>2, <3>1, <3>2 DEF RowsInv, Backed
  <2>3. CASE bts' # bts
    <3>1. ~TakeSample(r)
      BY <2>3 DEF TakeSample
    <3>2. r \in InBucket' /\ bts' = flights[r].at
      BY <2>3, <3>1, BucketIs
    <3> QED
      BY <2>1, <3>2
  <2> QED
    BY <2>2, <2>3
<1> QED
  BY <1>2, <1>3

-----------------------------------------------------------------------------
(* The rows.                                                                *)

\* Of a minute that keeps its row and its samples, and for which the bucket is not
\* open before or after, nothing changes but that it may be passed.
LEMMA ElsewhereStays ==
  ASSUME TypeOK, NEW m \in Minutes, Counted(m), m # bts', stops' = stops,
         rows'[m] = rows[m], finds'[m] = finds[m], taken'[m] = taken[m],
         Passed(m) => Passed(m)', ~Filling(m)
  PROVE  Counted(m)' /\ (Whole(m) => Whole(m)')
<1>1. ~Filling(m)'
  BY DEF Filling
<1> QED
  BY <1>1 DEF Counted, Whole

\* Nor does it while the bucket stays open for it.
LEMMA OpenStays ==
  ASSUME TypeOK, NEW m \in Minutes, Counted(m), bts' = bts, bucket' = bucket, stops' = stops,
         rows'[m] = rows[m], finds'[m] = finds[m], taken'[m] = taken[m],
         Passed(m) => Passed(m)', Filling(m)' <=> Filling(m)
  PROVE  Counted(m)' /\ (Whole(m) => Whole(m)')
BY DEF Counted, Whole

\* A bucket is opened for a minute of which nothing was taken.
LEMMA OpeningStays ==
  ASSUME TypeOK, TypeOK', NEW m \in Minutes, Counted(m), ~Filling(m), ~Passed(m),
         bucket' = 0, stops' = stops, rows' = rows, finds' = finds, taken' = taken
  PROVE  Counted(m)' /\ (Whole(m) => Whole(m)')
<1>1. rows[m] \in Nat /\ finds[m] \in Nat /\ taken[m] \in Nat /\ stops \in Nat
  BY DEF TypeOK
<1>2. Counted(m)'
  BY <1>1 DEF Counted
<1>3. Whole(m) => taken[m] = 0 /\ finds[m] = 0
  BY <1>1 DEF Counted, Whole
<1> QED
  BY <1>2, <1>3 DEF Whole

\* In each step of the work, for each minute that is not raced for afterwards.
WorkSound(r) == \A m \in Minutes \ raced' :
  /\ Counted(m)'
  /\ m \notin disturbed' /\ Whole(m) => Whole(m)'

\* The minute whose bucket is open is that of who has it to himself, or is about to.
LEMMA OpenForOne ==
  ASSUME TypeOK, RowsInv, NEW r \in InBucket, bts # None, bts \notin raced
  PROVE  /\ Undisturbed(r) /\ InBucket = {r}
         /\ Filling(bts) <=> flights[r].stage # "written"
<1>1. ~Spoilt(r)
  BY DEF Spoilt
<1>2. Undisturbed(r) /\ InBucket = {r}
  BY <1>1 DEF RowsInv, SpoiltOrNot, Apart
<1>3. \A o \in Slots \ {r} : flights[o].stage # "written"
  BY <1>2 DEF InBucket, Bucketing
<1>4. r \in Slots
  BY DEF InBucket
<1> QED
  BY <1>2, <1>3, <1>4 DEF Filling

LEMMA AccumulateSound ==
  ASSUME TypeOK, TypeOK', RowsInv, NEW r \in Slots, Accumulate(r)
  PROVE  WorkSound(r)
<1> SUFFICES ASSUME NEW m \in Minutes \ raced' PROVE Counted(m)' /\ (Whole(m) => Whole(m)')
  BY DEF WorkSound
<1>1. Work(r) /\ InHost(r) /\ flights[r].stage = "merged"
  BY DEF Work, Accumulate, InHost
<1>2. /\ stops' = stops /\ UNCHANGED <<rows, finds, taken, bucket>>
  BY DEF Accumulate, BucketOnly, HostOnly
<1>3. Counted(m) /\ (Passed(m) => Passed(m)') /\ m \notin raced
  BY <1>1, PassedStays, WorkTouches DEF RowsInv, OnlyTaken
<1>4. CASE bts' = bts
  <2>1. flights'[r].stage # "written" /\ \A o \in Slots \ {r} : flights'[o].stage = flights[o].stage
    <3>1. Keeps(r) /\ flights'[r].stage # "written"
      BY <1>1, FoldMoves, StageMoves DEF Accumulate, Stages, Bucketing
    <3> QED
      BY <3>1 DEF Keeps
  <2>2. Filling(m)' <=> Filling(m)
    BY <1>1, <1>4, <2>1 DEF Filling
  <2> QED
    BY <1>2, <1>3, <1>4, <2>2, OpenStays
<1>5. CASE bts' # bts
  <2>1. bts' = flights[r].at /\ bts = None /\ Accumulated(r)
    BY <1>5 DEF Accumulate
  <2>2. CASE m = bts'
    <3>1. ~Racing(r)
      <4>1. Racing(r) => RacedWith(r) \subseteq raced'
        BY <2>1 DEF Accumulate
      <4>2. m \in RacedWith(r)
        BY <2>1, <2>2, <1>1, Sizes DEF RacedWith, Minutes, None
      <4> QED
        BY <4>1, <4>2
    <3>2. ~Passed(m)
      BY <2>1, <2>2, <3>1, ComesInTime
    <3>3. ~Filling(m) /\ bucket' = 0
      BY <1>2, <2>1, Sizes DEF Filling, TypeOK, Minutes, None
    <3> QED
      BY <1>2, <1>3, <3>2, <3>3, OpeningStays
  <2>3. CASE m # bts'
    <3>1. ~Filling(m)
      BY <2>1 DEF Filling, Minutes, None
    <3> QED
      BY <1>2, <1>3, <2>3, <3>1, ElsewhereStays
  <2> QED
    BY <2>2, <2>3
<1> QED
  BY <1>4, <1>5

LEMMA EmptySound ==
  ASSUME TypeOK, TypeOK', RowsInv, NEW r \in Slots, Aggregate(r) \/ Empty(r)
  PROVE  WorkSound(r)
<1> SUFFICES ASSUME NEW m \in Minutes \ raced' PROVE Counted(m)' /\ (Whole(m) => Whole(m)')
  BY DEF WorkSound
<1>1. Work(r) /\ r \in InBucket /\ InHost(r) /\ flights[r].stage \in {"flushing", "written"}
  BY DEF Work, Aggregate, Empty, InBucket, Bucketing, InHost
<1>2. stops' = stops /\ UNCHANGED <<rows, finds, taken>>
  BY DEF Aggregate, Empty, EmptyBucket, BucketOnly, HostOnly, folding
<1>3. Counted(m) /\ (Passed(m) => Passed(m)') /\ m \notin raced /\ m # None
  BY <1>1, PassedStays, WorkTouches DEF RowsInv, OnlyTaken, Minutes, None
<1>4. CASE Aggregate(r) /\ ~EmptyBucket(r)
  <2>1. UNCHANGED <<bts, bucket>> /\ flights[r].stage = "flushing"
    BY <1>4 DEF Aggregate, folding
  <2>2. flights'[r].stage = "aggregated"
    BY <1>1, <1>4, AggregateMoves DEF Aggregate
  <2>3. Filling(m)' <=> Filling(m)
    BY <1>1, <2>1, <2>2, WhoIsWhere DEF Filling
  <2> QED
    BY <1>2, <1>3, <2>1, <2>3, OpenStays
<1>5. CASE EmptyBucket(r)
  <2>1. bts' = None
    BY <1>5 DEF EmptyBucket
  <2>2. ~Filling(m)
    <3> SUFFICES ASSUME bts = m PROVE ~Filling(m)
      BY DEF Filling
    <3>1. Undisturbed(r) /\ (Filling(m) <=> flights[r].stage # "written")
      BY <1>1, <1>3, OpenForOne
    <3>2. CASE Aggregate(r)
      <4>1. flights[r].stage = "flushing" /\ bucket > 0
        BY <3>1, <3>2 DEF Aggregate, Undisturbed
      <4>2. UNCHANGED folding \/ bucket = 0
        BY <1>3, <3>2 DEF Aggregate
      <4>3. bts' = bts \/ bucket = 0
        BY <4>2 DEF folding
      <4> QED
        BY <1>3, <2>1, <4>1, <4>3
    <3>3. CASE Empty(r)
      BY <3>1, <3>3 DEF Empty
    <3> QED
      BY <3>2, <3>3
  <2> QED
    BY <1>2, <1>3, <2>1, <2>2, ElsewhereStays
<1> QED
  BY <1>4, <1>5 DEF Empty

LEMMA AddressSound ==
  ASSUME TypeOK, TypeOK', RowsInv, NEW r \in Slots, Address(r)
  PROVE  WorkSound(r)
<1> SUFFICES ASSUME NEW m \in Minutes \ raced' PROVE Counted(m)' /\ (Whole(m) => Whole(m)')
  BY DEF WorkSound
<1>1. Work(r) /\ flights[r].stage = "aggregated" /\ UNCHANGED folding /\ stops' = stops
  BY DEF Work, Address, BucketOnly, HostOnly
<1>2. Counted(m) /\ (Passed(m) => Passed(m)')
  BY <1>1, PassedStays, WorkTouches DEF RowsInv, OnlyTaken
<1>3. flights'[r].stage = "addressed"
  BY AddressMoves
<1>4. Filling(m)' <=> Filling(m)
  BY <1>1, <1>3, WhoIsWhere DEF Filling, folding
<1> QED
  BY <1>1, <1>2, <1>4, OpenStays DEF folding

\* A row that is written to an undisturbed minute is what was taken of it.
LEMMA FlushSound ==
  ASSUME TypeOK, TypeOK', RowsInv, NEW r \in Slots, FlushBucket(r)
  PROVE  WorkSound(r)
<1> DEFINE k == flights[r].row
<1> SUFFICES ASSUME NEW m \in Minutes \ raced'
             PROVE  Counted(m)' /\ (m \notin disturbed' /\ Whole(m) => Whole(m)')
  BY DEF WorkSound
<1>1. Work(r) /\ r \in InBucket /\ InHost(r) /\ flights[r].stage = "addressed"
  BY DEF Work, FlushBucket, InBucket, Bucketing, InHost
<1>2. stops' = stops /\ UNCHANGED <<bts, bucket, taken, raced>>
  BY DEF FlushBucket, BucketOnly, HostOnly
<1>3. Counted(m) /\ (Passed(m) => Passed(m)') /\ m \notin raced /\ m # None
  BY <1>1, PassedStays, WorkTouches DEF RowsInv, OnlyTaken, Minutes, None
<1>4. flights'[r].stage = "written"
  BY <1>1, StageMoves DEF FlushBucket, Stages, Bucketing
<1>5. rows[m] \in Nat /\ finds[m] \in Nat /\ taken[m] \in Nat /\ stops \in Nat /\ bucket \in Nat
  BY DEF TypeOK
<1>6. CASE m = k
  <2>1. ~Spoilt(r)
    BY <1>3, <1>6 DEF Spoilt
  <2>2. Undisturbed(r)
    BY <1>1, <2>1 DEF RowsInv, SpoiltOrNot
  <2>3. bts = m /\ bucket > 0 /\ m < flights[r].at /\ flights[r].sum = bucket
    BY <1>1, <1>6, <2>2 DEF Undisturbed
  <2>4. Filling(m)
    BY <1>1, <1>3, <2>3, OpenForOne
  <2>5. Passed(m)'
    <3>1. flights[r].at > m
      <4>1. flights[r].at \in Int /\ m \in Int
        BY <1>1, WorkMoves DEF Report, Minutes
      <4> QED
        BY <2>3, <4>1
    <3>2. Passed(m)
      BY <1>1, <3>1 DEF Passed, Later
    <3> QED
      BY <1>3, <3>2
  <2>6. ~Filling(m)'
    BY <1>4 DEF Filling
  <2>7. CASE rows'[k] = flights[r].sum /\ finds'[k] = finds[k] + 1
    <3>1. rows'[m] = bucket /\ finds'[m] = finds[m] + 1
      BY <1>6, <2>3, <2>7
    <3>2. Counted(m)'
      BY <1>2, <1>3, <1>5, <2>3, <2>4, <2>5, <2>6, <3>1 DEF Counted
    <3>3. Whole(m) => Whole(m)'
      BY <1>2, <1>5, <2>4, <2>5, <2>6, <3>1 DEF Whole
    <3> QED
      BY <3>2, <3>3
  <2>8. CASE rows' = rows /\ finds' = finds /\ k \in disturbed' \cup {None}
    <3>1. Counted(m)'
      BY <1>2, <1>3, <2>4, <2>5, <2>8 DEF Counted
    <3> QED
      BY <1>3, <1>6, <2>8, <3>1
  <2> QED
    BY <2>7, <2>8, FlushIs
<1>7. CASE m # k
  <2>1. rows'[m] = rows[m] /\ finds'[m] = finds[m]
    BY <1>7, FlushIs
  <2>2. Filling(m)' <=> Filling(m)
    <3>1. CASE bts = m
      <4>1. Undisturbed(r)
        BY <1>1, <1>3, <3>1, OpenForOne
      <4> QED
        BY <1>1, <1>7, <3>1, <4>1 DEF Undisturbed
    <3>2. CASE bts # m
      BY <1>2, <3>2 DEF Filling
    <3> QED
      BY <3>1, <3>2
  <2> QED
    BY <1>2, <1>3, <2>1, <2>2, OpenStays
<1> QED
  BY <1>6, <1>7

LEMMA PlaceSound ==
  ASSUME TypeOK, TypeOK', RowsInv, NEW r \in Slots, Place(r)
  PROVE  WorkSound(r)
<1> SUFFICES ASSUME NEW m \in Minutes \ raced' PROVE Counted(m)' /\ (Whole(m) => Whole(m)')
  BY DEF WorkSound
<1>1. Work(r) /\ r \in InBucket /\ InHost(r) /\ flights[r].stage = "flushed"
  BY DEF Work, Place, InBucket, Bucketing, InHost
<1>2. stops' = stops /\ UNCHANGED <<bucket, rows, finds, taken>>
  BY DEF Place, BucketOnly, HostOnly
<1>3. Counted(m) /\ (Passed(m) => Passed(m)') /\ m \notin raced /\ m # None
  BY <1>1, PassedStays, WorkTouches DEF RowsInv, OnlyTaken, Minutes, None
<1>4. flights'[r].stage = "placing"
  BY <1>1, StageMoves DEF Place, Stages, Bucketing
<1>5. CASE bts' = bts
  <2>1. Filling(m)' <=> Filling(m)
    BY <1>1, <1>4, <1>5, WhoIsWhere DEF Filling
  <2> QED
    BY <1>2, <1>3, <1>5, <2>1, OpenStays
<1>6. CASE bts = None /\ bts' = flights[r].at
  <2>1. ~Filling(m)
    BY <1>3, <1>6 DEF Filling
  <2>2. CASE m = bts'
    <3>1. ~Passed(m)
      BY <1>1, <1>3, <1>6, <2>2, NotPassed
    <3>2. bucket' = 0
      BY <1>2, <1>6 DEF TypeOK
    <3> QED
      BY <1>2, <1>3, <2>1, <3>1, <3>2, OpeningStays
  <2>3. CASE m # bts'
    BY <1>2, <1>3, <2>1, <2>3, ElsewhereStays
  <2> QED
    BY <2>2, <2>3
<1> QED
  BY <1>5, <1>6 DEF Place

LEMMA TakeSound ==
  ASSUME TypeOK, TypeOK', RowsInv, NEW r \in Slots, TakeSample(r)
  PROVE  WorkSound(r)
<1> DEFINE at == flights[r].at
<1> SUFFICES ASSUME NEW m \in Minutes \ raced' PROVE Counted(m)' /\ (Whole(m) => Whole(m)')
  BY DEF WorkSound
<1>1. Work(r) /\ r \in InBucket /\ flights[r].stage \in {"placing", "lost"}
  BY DEF Work, TakeSample, InBucket, Bucketing
<1>2. stops' = stops /\ UNCHANGED <<bts, rows, finds>>
  BY DEF TakeSample, BucketOnly, HostOnly
<1>3. Counted(m) /\ (Passed(m) => Passed(m)') /\ m \notin raced /\ m # None
  BY <1>1, PassedStays, WorkTouches DEF RowsInv, OnlyTaken, Minutes, None
<1>4. rows[m] \in Nat /\ finds[m] \in Nat /\ taken[m] \in Nat /\ bucket \in Nat
  BY DEF TypeOK
<1>5. CASE m = at
  <2>1. Undisturbed(r)
    BY <1>1, <1>3, <1>5, NotPassed
  <2>2. flights[r].stage = "placing" /\ bts = m
    BY <1>1, <1>5, <2>1 DEF Undisturbed
  <2>3. Filling(m)
    BY <1>1, <1>3, <2>2, OpenForOne
  <2>4. taken'[m] = taken[m] + 1 /\ bucket' = bucket + 1
    BY <1>5, <2>2, TakenIs DEF RowsInv, TakeSample
  <2>5. Filling(m)'
    <3>1. flights'[r].stage = "folded"
      BY <1>1, WorkTouches
    <3> QED
      BY <1>1, <1>2, <2>3, <3>1, WhoIsWhere DEF Filling
  <2>6. Counted(m)'
    BY <1>2, <1>3, <1>4, <2>2, <2>3, <2>4 DEF Counted
  <2>7. Whole(m) => Whole(m)'
    BY <1>2, <1>4, <2>3, <2>4, <2>5 DEF Whole
  <2> QED
    BY <2>6, <2>7
<1>6. CASE m # at
  <2>1. taken'[m] = taken[m]
    BY <1>6, TakenIs DEF RowsInv
  <2>2. m # bts
    <3> SUFFICES ASSUME m = bts PROVE FALSE
      OBVIOUS
    <3>1. Undisturbed(r)
      BY <1>1, <1>3, OpenForOne
    <3> QED
      BY <1>1, <1>6, <3>1 DEF Undisturbed
  <2>3. ~Filling(m) /\ m # bts'
    BY <1>2, <2>2 DEF Filling
  <2> QED
    BY <1>2, <1>3, <2>1, <2>3, ElsewhereStays
<1> QED
  BY <1>5, <1>6

LEMMA WorkKeepsRows ==
  ASSUME TypeOK, TypeOK', RowsInv, NEW r \in Slots, Work(r)
  PROVE  RowsInv'
<1>1. WorkSound(r)
  BY AccumulateSound, EmptySound, AddressSound, FlushSound, PlaceSound, TakeSound DEF Work
<1>2. OnlyTaken'
  BY <1>1 DEF WorkSound, OnlyTaken
<1>3. AllTaken'
  BY <1>1, WorkTouches DEF WorkSound, AllTaken, RowsInv
<1> QED
  BY <1>2, <1>3, RoomStays, MinutesStay, ApartStays, SpoiltOrNotStays, LoadedStays, BackedStays, InTimeStays
  DEF RowsInv

-----------------------------------------------------------------------------
(* The other steps keep the minutes' invariant.                             *)

\* The host's minutes are left alone: no report comes in or moves on, though some
\* may leave, and the clock may go on.
Calm ==
  /\ UNCHANGED <<folding, stops>> /\ minute' >= minute
  /\ \A r \in Slots : InHost(r)' => flights'[r] = flights[r]
  /\ \A r \in Slots : Unfolded(r) => flights'[r] = flights[r]
  /\ \A r \in Slots : flights'[r] # NoReport /\ flights'[r] # flights[r] => flights'[r].row = None

LEMMA CalmKeeps ==
  ASSUME TypeOK, TypeOK', RowsInv, Calm
  PROVE  RowsInv'
<1>1. /\ bts' = bts /\ bucket' = bucket /\ taken' = taken /\ rows' = rows /\ stops' = stops
      /\ finds' = finds /\ disturbed' = disturbed /\ raced' = raced /\ minute' >= minute
  BY DEF Calm, folding
<1>2. /\ \A r \in Slots : Unfolded(r)' <=> Unfolded(r)
      /\ \A r \in Slots : Unfolded(r) => flights'[r] = flights[r]
      /\ \A r \in Slots : InHost(r)' => InHost(r) /\ flights'[r] = flights[r]
  BY DEF Calm, InHost, Unfolded
<1>3. /\ \A r \in InBucket : Unfolded(r) /\ r \in Slots
      /\ \A r \in InBucket' : Unfolded(r) /\ r \in Slots
  BY <1>2 DEF InBucket, Unfolded, InHost, Bucketing
<1>4. InBucket' = InBucket /\ \A r \in InBucket : flights'[r] = flights[r]
  BY <1>2, <1>3 DEF InBucket
<1>5. minute \in Int /\ minute' \in Int
  BY DEF TypeOK, Minutes
<1>6. RoomKept'
  <2> SUFFICES ASSUME NEW m \in Minutes
               PROVE  IF m = MaxMinute THEN taken[m] = 0
                      ELSE taken[m] + Cardinality(Pending(m)') <= PerMinute
    BY <1>1 DEF RoomKept
  <2>1. Pending(m)' = Pending(m)
    BY <1>2 DEF Pending, Unfolded
  <2> QED
    BY <2>1 DEF RowsInv, RoomKept
<1>7. OfTheirMinutes'
  <2> SUFFICES ASSUME NEW o \in Slots
               PROVE  /\ InHost(o)' => flights'[o].at <= minute'
                      /\ o \in InBucket' => flights'[o].at # MaxMinute
                      /\ flights'[o] # NoReport /\ flights'[o].stage \notin {"addressed", "written"} =>
                           flights'[o].row = None
    BY DEF OfTheirMinutes
  <2>1. InHost(o)' => flights'[o].at <= minute'
    <3>1. InHost(o) => flights[o].at <= minute /\ flights[o].at \in Int
      BY FlightFields, NoneIsNoReport DEF RowsInv, OfTheirMinutes, Minutes
    <3> QED
      BY <1>1, <1>2, <1>5, <3>1
  <2>2. o \in InBucket' => flights'[o].at # MaxMinute
    BY <1>4 DEF RowsInv, OfTheirMinutes
  <2>3. flights'[o] # NoReport /\ flights'[o].stage \notin {"addressed", "written"} => flights'[o].row = None
    BY DEF RowsInv, OfTheirMinutes, Calm
  <2> QED
    BY <2>1, <2>2, <2>3
<1>8. Apart' /\ SpoiltOrNot'
  <2>1. \A r \in InBucket : (Spoilt(r)' <=> Spoilt(r)) /\ (Undisturbed(r)' <=> Undisturbed(r))
    BY <1>1, <1>4 DEF Spoilt, Undisturbed
  <2> QED
    BY <1>4, <2>1 DEF RowsInv, Apart, SpoiltOrNot
<1>9. \A r \in Slots : \A st \in Bucketing : flights'[r].stage = st <=> flights[r].stage = st
  BY <1>2, <1>3, <1>4 DEF InBucket
<1>10. Loaded' /\ Backed' /\ InTime'
  <2>1. \A r \in Slots : flights'[r].stage = "placing" <=> flights[r].stage = "placing"
    BY <1>9 DEF Bucketing
  <2> QED
    BY <1>1, <1>4, <2>1 DEF RowsInv, Loaded, Backed, InTime
<1>11. ASSUME NEW m \in Minutes, Counted(m) PROVE Counted(m)' /\ (Whole(m) => Whole(m)')
  <2>1. Later(m)' <=> Later(m)
    BY <1>1, <1>4 DEF Later
  <2>2. Passed(m) => Passed(m)'
    <3>1. m \in Int
      BY DEF Minutes
    <3> QED
      BY <1>1, <1>2, <1>5, <2>1, <3>1 DEF Passed
  <2>3. Filling(m)' <=> Filling(m)
    <3>1. \A r \in Slots : flights'[r].stage = "written" <=> flights[r].stage = "written"
      BY <1>9 DEF Bucketing
    <3> QED
      BY <1>1, <3>1 DEF Filling
  <2> QED
    BY <1>1, <1>11, <2>2, <2>3, OpenStays
<1>12. OnlyTaken' /\ AllTaken'
  BY <1>1, <1>11 DEF RowsInv, OnlyTaken, AllTaken
<1> QED
  BY <1>6, <1>7, <1>8, <1>10, <1>12 DEF RowsInv

LEMMA CalmSteps ==
  ASSUME TypeOK, TypeOK',
         \/ \E s \in Sections : Change(s)
         \/ \E r \in Slots : Send(r) \/ Lose(r) \/ Answer(r) \/ AnswerLost(r)
         \/ GiveUp \/ RestartAgent \/ Clock \/ UNCHANGED vars
  PROVE  Calm
<1>0. minute \in Int
  BY DEF TypeOK, Minutes
<1>1. CASE (\E s \in Sections : Change(s)) \/ GiveUp \/ RestartAgent \/ Clock \/ UNCHANGED vars
  BY <1>0, <1>1 DEF Change, GiveUp, RestartAgent, Clock, vars, Calm
<1>2. ASSUME NEW r \in Slots, Send(r) PROVE Calm
  <2>1. flights' = [flights EXCEPT ![r] =
          [stage |-> "wire", data |-> Delta, at |-> 1, known |-> FALSE, sum |-> 0, row |-> None]]
    BY <1>2 DEF Send
  <2>2. flights'[r].stage = "wire" /\ flights'[r].row = None
        /\ \A o \in Slots \ {r} : flights'[o] = flights[o]
    BY <2>1 DEF TypeOK
  <2>3. ~InHost(r) /\ ~InHost(r)'
    BY <1>2, <2>2 DEF Send, InHost, NoReport
  <2> QED
    BY <1>0, <1>2, <2>2, <2>3 DEF Send, Calm, Unfolded
<1>3. ASSUME NEW r \in Slots, Lose(r) \/ Answer(r) \/ AnswerLost(r) PROVE Calm
  <2>1. flights' = [flights EXCEPT ![r] = NoReport]
    BY <1>3 DEF Lose, Answer, AnswerLost
  <2>2. flights'[r] = NoReport /\ flights'[r].stage = "none"
        /\ \A o \in Slots \ {r} : flights'[o] = flights[o]
    BY <2>1 DEF TypeOK, NoReport
  <2>3. ~Unfolded(r) /\ ~InHost(r)'
    BY <1>3, <2>2 DEF Lose, Answer, AnswerLost, InHost, Unfolded
  <2>4. UNCHANGED <<minute, folding, stops>>
    BY <1>3 DEF Lose, Answer, AnswerLost, HostOnly
  <2> QED
    BY <1>0, <2>2, <2>3, <2>4 DEF Calm, Unfolded
<1> QED
  BY <1>1, <1>2, <1>3

\* A report comes in, of the present minute; the bucket is not touched.
LEMMA MergeKeepsRows ==
  ASSUME TypeOK, TypeOK', RowsInv, NEW r \in Slots, Merge(r)
  PROVE  RowsInv'
<1>1. /\ ~InHost(r) /\ flights'[r].stage = "merged" /\ flights'[r].at = minute /\ flights'[r].row = None
      /\ \A o \in Slots \ {r} : flights'[o] = flights[o]
  <2>1. flights' = [flights EXCEPT ![r] =
         [stage |-> "merged", at |-> minute, known |-> Known \/ open # r,
          data |-> IF open = r THEN @.data ELSE Absent, sum |-> 0, row |-> None]]
    BY DEF Merge
  <2> QED
    BY <2>1 DEF TypeOK, Merge, InHost
<1>2. /\ minute' = minute /\ bts' = bts /\ bucket' = bucket /\ rows' = rows /\ finds' = finds
      /\ taken' = taken /\ disturbed' = disturbed /\ raced' = raced /\ stops' = stops
  BY DEF Merge, HostOnly, folding
<1>3. /\ \A o \in Slots \ {r} : InHost(o)' => InHost(o) /\ flights'[o] = flights[o]
      /\ \A o \in Slots \ {r} : Unfolded(o)' => Unfolded(o) /\ flights'[o] = flights[o]
  BY <1>1 DEF InHost, Unfolded
<1>4. InBucket' = InBucket /\ r \notin InBucket /\ \A o \in InBucket : flights'[o] = flights[o]
  <2>1. r \notin InBucket /\ r \notin InBucket'
    BY <1>1 DEF InBucket, Bucketing, InHost
  <2> QED
    BY <1>1, <2>1 DEF InBucket
<1>5. minute \in Int
  BY DEF TypeOK, Minutes
<1>6. RoomKept'
  <2> SUFFICES ASSUME NEW m \in Minutes
               PROVE  IF m = MaxMinute THEN taken[m] = 0
                      ELSE taken[m] + Cardinality(Pending(m)') <= PerMinute
    BY <1>2 DEF RoomKept
  <2>1. CASE m = minute
    <3>1. Pending(m)' \subseteq Pending(m) \cup {r}
      BY <1>1 DEF Pending, InHost
    <3>2. r \notin Pending(m)
      BY <1>1 DEF Pending
    <3>3. Cardinality(Pending(m) \cup {r}) = Cardinality(Pending(m)) + 1 /\ IsFiniteSet(Pending(m) \cup {r})
      BY <3>2, PendingIsFinite, FS_AddElement
    <3>4. Cardinality(Pending(m)') <= Cardinality(Pending(m)) + 1 /\ Cardinality(Pending(m)') \in Nat
      BY <3>1, <3>3, FS_Subset, FS_CardinalityType
    <3>5. m # MaxMinute => taken[m] + Cardinality(Pending(m)) < PerMinute
      BY <2>1 DEF Merge, Room
    <3> QED
      BY <3>4, <3>5, PendingIsFinite, Sizes DEF RowsInv, RoomKept, TypeOK
  <2>2. CASE m # minute
    <3>1. Pending(m)' \subseteq Pending(m)
      BY <1>1, <2>2 DEF Pending, InHost
    <3>2. Cardinality(Pending(m)') <= Cardinality(Pending(m)) /\ Cardinality(Pending(m)') \in Nat
      BY <3>1, PendingIsFinite, FS_Subset, FS_CardinalityType
    <3> QED
      BY <3>2, PendingIsFinite, Sizes DEF RowsInv, RoomKept, TypeOK
  <2> QED
    BY <2>1, <2>2
<1>7. OfTheirMinutes'
  <2> SUFFICES ASSUME NEW o \in Slots
               PROVE  /\ InHost(o)' => flights'[o].at <= minute
                      /\ o \in InBucket => flights'[o].at # MaxMinute
                      /\ flights'[o] # NoReport /\ flights'[o].stage \notin {"addressed", "written"} =>
                           flights'[o].row = None
    BY <1>2, <1>4 DEF OfTheirMinutes
  <2>1. CASE o = r
    BY <1>1, <1>4, <1>5, <2>1
  <2>2. CASE o # r
    BY <1>1, <1>3, <2>2 DEF RowsInv, OfTheirMinutes
  <2> QED
    BY <2>1, <2>2
<1>8. Apart' /\ SpoiltOrNot'
  <2>1. \A o \in InBucket : (Spoilt(o)' <=> Spoilt(o)) /\ (Undisturbed(o)' <=> Undisturbed(o))
    BY <1>2, <1>4 DEF Spoilt, Undisturbed
  <2> QED
    BY <1>4, <2>1 DEF RowsInv, Apart, SpoiltOrNot
<1>9. \A o \in Slots : \A st \in {"placing", "written"} : flights'[o].stage = st <=> flights[o].stage = st
  <2>1. \A st \in {"placing", "written"} : flights[r].stage # st /\ flights'[r].stage # st
    BY <1>1 DEF InHost
  <2> QED
    BY <1>1, <2>1
<1>10. Loaded' /\ Backed' /\ InTime'
  BY <1>2, <1>4, <1>9 DEF RowsInv, Loaded, Backed, InTime
<1>11. ASSUME NEW m \in Minutes, Counted(m) PROVE Counted(m)' /\ (Whole(m) => Whole(m)')
  <2>1. Later(m)' <=> Later(m)
    BY <1>2, <1>4 DEF Later
  <2>2. Passed(m) => Passed(m)'
    <3>1. m \in Int
      BY DEF Minutes
    <3> QED
      BY <1>1, <1>2, <1>3, <1>5, <2>1, <3>1 DEF Passed
  <2>3. Filling(m)' <=> Filling(m)
    BY <1>2, <1>9 DEF Filling
  <2> QED
    BY <1>2, <1>11, <2>2, <2>3, OpenStays
<1>12. OnlyTaken' /\ AllTaken'
  BY <1>2, <1>11 DEF RowsInv, OnlyTaken, AllTaken
<1> QED
  BY <1>6, <1>7, <1>8, <1>10, <1>12 DEF RowsInv

\* After a restart nobody has the bucket, and the minute that was open is disturbed.
LEMMA RestartKeepsRows ==
  ASSUME TypeOK, TypeOK', RowsInv, Restart
  PROVE  RowsInv'
<1>1. /\ minute' = minute /\ taken' = taken /\ bts' = None /\ bucket' = 0 /\ raced' = raced
      /\ disturbed \subseteq disturbed' /\ (bts # None => bts \in disturbed') /\ stops' = stops + 1
  BY DEF Restart
<1>2. \A r \in Slots : ~InHost(r)' /\ ~Unfolded(r)' /\ (flights'[r] = NoReport \/ flights'[r] = flights[r])
  BY DEF Restart, InHost, NoReport, Unfolded
<1>3. InBucket' = {} /\ \A r \in Slots : flights'[r].stage \notin {"placing", "written"}
  BY <1>2 DEF InBucket, Bucketing, InHost
<1>4. /\ \A m \in Minutes \ {bts} : rows'[m] = rows[m] /\ finds'[m] = finds[m]
      /\ \/ rows' = rows /\ finds' = finds
         \/ bts # None /\ bucket > 0 /\ rows'[bts] = bucket /\ finds'[bts] = finds[bts] + 1
  <2>1. bts # None => bts \in Minutes
    BY DEF TypeOK
  <2>2. bucket \in Nat
    BY DEF TypeOK
  <2> QED
    BY <2>1, <2>2, RowWritten DEF Restart
<1>5. RoomKept'
  <2>1. \A m : Pending(m)' = {}
    BY <1>2 DEF Pending
  <2>2. \A m \in Minutes : taken[m] + 0 <= PerMinute
    BY Sizes DEF TypeOK
  <2>3. \A m \in Minutes : m = MaxMinute => taken[m] = 0
    BY DEF RowsInv, RoomKept
  <2> QED
    BY <1>1, <2>1, <2>2, <2>3, FS_EmptySet DEF RoomKept
<1>6. OfTheirMinutes'
  <2> SUFFICES ASSUME NEW o \in Slots, flights'[o] # NoReport
               PROVE  flights'[o].stage \notin {"addressed", "written"} => flights'[o].row = None
    BY <1>2, <1>3 DEF OfTheirMinutes
  <2> QED
    BY <1>2 DEF RowsInv, OfTheirMinutes
<1>7. Apart' /\ SpoiltOrNot' /\ Loaded' /\ Backed' /\ InTime'
  BY <1>1, <1>3 DEF Apart, SpoiltOrNot, Loaded, Backed, InTime
<1>8. ASSUME NEW m \in Minutes, Passed(m) PROVE Passed(m)'
  <2>1. CASE \E n \in Minutes : n > m /\ taken[n] > 0
    BY <1>1, <2>1 DEF Passed, Later
  <2>2. CASE \E r \in InBucket : flights[r].at > m
    <3>1. PICK r \in InBucket : flights[r].at > m
      BY <2>2
    <3>2. r \in Slots /\ InHost(r)
      BY DEF InBucket, InHost, Bucketing
    <3>3. flights[r].at <= minute /\ flights[r].at \in Int
      BY <3>2, FlightFields, NoneIsNoReport DEF RowsInv, OfTheirMinutes, Minutes
    <3>4. m < minute
      <4>1. m \in Int /\ minute \in Int
        BY DEF TypeOK, Minutes
      <4> QED
        BY <3>1, <3>3, <4>1
    <3> QED
      BY <1>1, <1>2, <3>4 DEF Passed
  <2>3. CASE m < minute
    BY <1>1, <1>2, <2>3 DEF Passed
  <2> QED
    BY <1>8, <2>1, <2>2, <2>3 DEF Passed, Later
<1>9. OnlyTaken'
  <2> SUFFICES ASSUME NEW m \in Minutes \ raced PROVE Counted(m)'
    BY <1>1 DEF OnlyTaken
  <2>1. Counted(m) /\ m # None
    BY DEF RowsInv, OnlyTaken, Minutes, None
  <2>2. rows[m] \in Nat /\ finds[m] \in Nat /\ taken[m] \in Nat /\ stops \in Nat /\ bucket \in Nat
    BY DEF TypeOK
  <2>3. ~Filling(m)' /\ bts' # m
    BY <1>1, <2>1 DEF Filling
  <2>4. ~Passed(m)' => finds[m] <= stops
    BY <1>8, <2>1 DEF Counted
  <2>5. CASE rows'[m] = rows[m] /\ finds'[m] = finds[m]
    BY <1>1, <2>1, <2>2, <2>3, <2>4, <2>5 DEF Counted
  <2>6. CASE m = bts /\ bucket > 0 /\ rows'[m] = bucket /\ finds'[m] = finds[m] + 1
    BY <1>1, <2>1, <2>2, <2>3, <2>4, <2>6 DEF Counted
  <2> QED
    BY <1>4, <2>5, <2>6
<1>10. AllTaken'
  <2> SUFFICES ASSUME NEW m \in Minutes \ (raced \cup disturbed') PROVE Whole(m)'
    BY <1>1 DEF AllTaken
  <2>1. Whole(m) /\ m # bts
    BY <1>1 DEF RowsInv, AllTaken, Minutes, None
  <2>2. ~Filling(m) /\ ~Filling(m)' /\ rows'[m] = rows[m] /\ finds'[m] = finds[m]
    BY <1>1, <1>4, <2>1 DEF Filling, Minutes, None
  <2> QED
    BY <1>1, <1>8, <2>1, <2>2 DEF Whole
<1> QED
  BY <1>5, <1>6, <1>7, <1>9, <1>10 DEF RowsInv

LEMMA StepKeepsRows ==
  ASSUME TypeOK, TypeOK', RowsInv, [Next]_vars
  PROVE  RowsInv'
<1>1. CASE \/ \E s \in Sections : Change(s)
           \/ \E r \in Slots : Send(r) \/ Lose(r) \/ Answer(r) \/ AnswerLost(r)
           \/ GiveUp \/ RestartAgent \/ Clock \/ UNCHANGED vars
  BY <1>1, CalmSteps, CalmKeeps
<1>2. CASE \E r \in Slots : Work(r)
  BY <1>2, WorkKeepsRows
<1>3. CASE \E r \in Slots : Merge(r)
  BY <1>3, MergeKeepsRows
<1>4. CASE Restart
  BY <1>4, RestartKeepsRows
<1> QED
  BY <1>1, <1>2, <1>3, <1>4 DEF Next

LEMMA RowsInitially ==
  ASSUME Init
  PROVE  RowsInv
<1>1. \A r \in Slots : flights[r] = NoReport /\ flights[r].stage = "none"
  BY DEF Init, NoReport
<1>2. InBucket = {}
  BY <1>1 DEF InBucket, Bucketing
<1>3. \A m \in Minutes : rows[m] = 0 /\ finds[m] = 0 /\ taken[m] = 0
  BY DEF Init
<1>4. \A m : Pending(m) = {}
  BY <1>1 DEF Pending, InHost
<1>5. RoomKept
  BY <1>3, <1>4, FS_EmptySet, Sizes DEF RoomKept
<1>6. \A m \in Minutes : ~Filling(m) /\ Counted(m) /\ Whole(m)
  BY <1>3 DEF Init, Filling, Counted, Whole, Minutes, None
<1> QED
  BY <1>1, <1>2, <1>5, <1>6 DEF Init, RowsInv, OfTheirMinutes, Apart, SpoiltOrNot, Loaded, Backed, InTime,
     OnlyTaken, AllTaken, InHost

-----------------------------------------------------------------------------
(* The sections.                                                            *)

LEMMA SectionVersions ==
  ASSUME TypeOK, NEW s \in Sections
  PROVE  have[s] \in Nat /\ base[s] \in Nat /\ snap[s] \in Nat /\ version \in Nat
BY DEF TypeOK, Versions

LEMMA DataVersions ==
  ASSUME TypeOK, NEW r \in Slots, flights[r] # NoReport, NEW s \in Sections
  PROVE  flights[r].data[s] \in Nat
BY FlightFields DEF Versions

\* A snapshot is not empty if it has some section.
LEMMA SomeSection == TypeOK => (snap # Absent <=> \E s \in Sections : snap[s] # 0)
<1> SUFFICES ASSUME TypeOK PROVE snap # Absent <=> \E s \in Sections : snap[s] # 0
  OBVIOUS
<1>1. ASSUME \A s \in Sections : snap[s] = 0 PROVE snap = Absent
  BY <1>1 DEF TypeOK, Absent
<1>2. ASSUME snap = Absent, NEW s \in Sections PROVE snap[s] = 0
  BY <1>2 DEF Absent
<1> QED
  BY <1>1, <1>2

\* Between the two sides nothing happens; reports may move on.
Untouched ==
  /\ UNCHANGED <<agent, snap, late>>
  /\ \A r \in Slots : /\ InHost(r)' <=> InHost(r)
                      /\ flights'[r] = NoReport <=> flights[r] = NoReport
                      /\ flights[r] # NoReport => flights'[r].data = flights[r].data /\ flights'[r].known = flights[r].known

LEMMA UntouchedKeeps ==
  ASSUME TypeOK, HolesInv, Untouched
  PROVE  HolesInv'
<1>1. /\ version' = version /\ have' = have /\ base' = base /\ full' = full /\ open' = open
      /\ snap' = snap /\ late' = late
  BY DEF Untouched, agent
<1>2. \A r \in Slots : Awaited(r)' <=> Awaited(r)
  BY <1>1 DEF Untouched, Awaited
<1>3. \A r \in Slots : InHost(r) => flights[r] # NoReport
  BY NoneIsNoReport
<1>4. AgentInOrder' /\ FullIsFull'
  BY <1>1, <1>2 DEF HolesInv, AgentInOrder, FullIsFull, Untouched, Awaited
<1>5. Brought' /\ KnownIsHeld'
  BY <1>1, <1>2, <1>3 DEF HolesInv, Brought, Taken, KnownIsHeld, Untouched, Awaited
<1>6. WillBeTold'
  BY <1>1, <1>3 DEF HolesInv, WillBeTold, InStep, Untouched
<1> QED
  BY <1>4, <1>5, <1>6 DEF HolesInv

LEMMA UntouchedSteps ==
  ASSUME TypeOK, (\E r \in Slots : Work(r)) \/ Clock \/ UNCHANGED vars
  PROVE  Untouched
<1>1. CASE Clock \/ UNCHANGED vars
  BY <1>1 DEF Clock, vars, Untouched, InHost
<1>2. ASSUME NEW r \in Slots, Work(r) PROVE Untouched
  <2>1. /\ Moves(r) /\ InHost(r) /\ flights[r] # NoReport /\ flights'[r].stage \in Bucketing \cup {"folded"}
        /\ UNCHANGED <<version, have, base, full, open, snap, late>>
    BY <1>2, WorkMoves, NoneIsNoReport DEF Unfolded
  <2>2. InHost(r)' /\ flights'[r] # NoReport
    BY <2>1 DEF InHost, Bucketing, NoReport
  <2>3. ASSUME NEW o \in Slots \ {r}, Robbed(o)
        PROVE  /\ InHost(o) /\ InHost(o)' /\ flights[o] # NoReport /\ flights'[o] # NoReport
               /\ flights'[o].data = flights[o].data /\ flights'[o].known = flights[o].known
    BY <2>3 DEF Robbed, Same, InHost, NoReport
  <2>4. ASSUME NEW o \in Slots \ {r}
        PROVE  /\ InHost(o)' <=> InHost(o)
               /\ flights'[o] = NoReport <=> flights[o] = NoReport
               /\ flights'[o].data = flights[o].data /\ flights'[o].known = flights[o].known
    <3>1. CASE flights'[o] = flights[o]
      BY <3>1 DEF InHost
    <3>2. CASE Robbed(o)
      BY <2>3, <3>2
    <3> QED
      BY <2>1, <3>1, <3>2 DEF Moves
  <2>5. flights'[r].data = flights[r].data /\ flights'[r].known = flights[r].known
    BY <2>1 DEF Moves
  <2> QED
    BY <2>1, <2>2, <2>4, <2>5 DEF Untouched, agent
<1> QED
  BY <1>1, <1>2

LEMMA ChangeKeepsHoles ==
  ASSUME TypeOK, HolesInv, NEW s \in Sections, Change(s)
  PROVE  HolesInv'
<1>1. /\ version' = version + 1 /\ have'[s] = version + 1
      /\ \A t \in Sections \ {s} : have'[t] = have[t]
  BY DEF Change, TypeOK
<1>2. /\ base' = base /\ full' = full /\ open' = open /\ flights' = flights
      /\ snap' = snap /\ late' = late
  BY DEF Change
<1>3. AgentInOrder'
  <2> SUFFICES ASSUME NEW t \in Sections
               PROVE  /\ 0 < have'[t] /\ have'[t] <= version' /\ base[t] <= have'[t]
                      /\ \A r \in Slots : Awaited(r) /\ flights[r].data[t] # 0 =>
                           base[t] <= flights[r].data[t] /\ flights[r].data[t] <= have'[t]
    BY <1>2 DEF AgentInOrder, Awaited
  <2>1. /\ 0 < have[t] /\ have[t] <= version /\ base[t] <= have[t]
        /\ \A r \in Slots : Awaited(r) /\ flights[r].data[t] # 0 =>
             base[t] <= flights[r].data[t] /\ flights[r].data[t] <= have[t]
    BY DEF HolesInv, AgentInOrder
  <2>2. have[t] <= have'[t] /\ have'[t] <= version' /\ have'[t] \in Nat
    BY <1>1, <2>1, SectionVersions
  <2>3. \A r \in Slots : Awaited(r) => flights[r].data[t] \in Nat
    BY DataVersions DEF Awaited
  <2> QED
    BY <2>1, <2>2, <2>3, SectionVersions
<1>4. InStep => InStep'
  <2> SUFFICES ASSUME InStep, NEW t \in Sections
               PROVE  snap[t] = have'[t] \/ have'[t] # base[t] \/ have'[t] \in Unfit[t]
    BY <1>2 DEF InStep
  <2>1. t = s => have'[t] # base[t]
    BY <1>1, SectionVersions DEF HolesInv, AgentInOrder
  <2> QED
    BY <1>1, <2>1 DEF InStep
<1> QED
  BY <1>2, <1>3, <1>4 DEF HolesInv, FullIsFull, Brought, Taken, KnownIsHeld, WillBeTold, Awaited, InHost

LEMMA SendKeepsHoles ==
  ASSUME TypeOK, HolesInv, NEW r \in Slots, Send(r)
  PROVE  HolesInv'
<1>1. /\ open' = r /\ flights'[r].stage = "wire" /\ flights'[r].data = Delta
      /\ flights[r] = NoReport /\ \A o \in Slots \ {r} : flights'[o] = flights[o]
  BY DEF Send, TypeOK
<1>2. /\ version' = version /\ have' = have /\ base' = base /\ full' = full
      /\ snap' = snap /\ late' = late
  BY DEF Send
<1>3. \A o \in Slots : Awaited(o)' => o = r
  BY <1>1 DEF Awaited
<1>4. \A o \in Slots : InHost(o)' <=> InHost(o)
  BY <1>1 DEF InHost, NoReport
<1>5. \A o \in Slots : InHost(o) => flights'[o] = flights[o]
  BY <1>1 DEF InHost, NoReport
<1>6. AgentInOrder'
  <2> SUFFICES ASSUME NEW t \in Sections
               PROVE  Delta[t] # 0 => base[t] <= Delta[t] /\ Delta[t] <= have[t]
    BY <1>1, <1>2, <1>3 DEF HolesInv, AgentInOrder
  <2> QED
    BY SectionVersions DEF Delta, HolesInv, AgentInOrder
<1>7. FullIsFull'
  BY <1>1, <1>2, <1>3, SectionVersions DEF FullIsFull, Delta, HolesInv, AgentInOrder
<1>8. Brought' /\ KnownIsHeld' /\ WillBeTold'
  BY <1>1, <1>2, <1>3, <1>4, <1>5 DEF HolesInv, Brought, Taken, KnownIsHeld, WillBeTold, InStep, InHost
<1> QED
  BY <1>6, <1>7, <1>8 DEF HolesInv

LEMMA GivingUpKeepsHoles ==
  ASSUME TypeOK, HolesInv, GiveUp \/ RestartAgent
  PROVE  HolesInv'
<1>1. /\ open' = None /\ version' = version /\ have' = have /\ flights' = flights
      /\ snap' = snap /\ late' = late
  BY DEF GiveUp, RestartAgent
<1>2. \A r \in Slots : ~Awaited(r)'
  BY <1>1, Sizes DEF Awaited
<1>3. AgentInOrder'
  <2>1. \A s \in Sections : base'[s] \in {base[s], 0}
    BY DEF GiveUp, RestartAgent, Absent
  <2> QED
    BY <1>1, <1>2, <2>1, SectionVersions DEF HolesInv, AgentInOrder
<1>4. KnownIsHeld' /\ Brought' /\ FullIsFull'
  BY <1>1, <1>2 DEF HolesInv, KnownIsHeld, Brought, Taken, FullIsFull, InHost
<1>5. WillBeTold'
  BY <1>1 DEF GiveUp, RestartAgent, HolesInv, WillBeTold, InStep, InHost
<1> QED
  BY <1>3, <1>4, <1>5 DEF HolesInv

\* A report that leaves without an answer was not folded in, or told nobody that
\* the host knew nothing.
LEMMA LossKeepsHoles ==
  ASSUME TypeOK, HolesInv, NEW r \in Slots, Lose(r) \/ AnswerLost(r)
  PROVE  HolesInv'
<1>1. /\ flights'[r] = NoReport /\ \A o \in Slots \ {r} : flights'[o] = flights[o]
  BY DEF Lose, AnswerLost, TypeOK
<1>2. /\ version' = version /\ have' = have /\ base' = base /\ full' = full
      /\ snap' = snap /\ (~late' => ~late /\ (InHost(r) => flights[r].known))
  <2>1. CASE Lose(r)
    BY <2>1 DEF Lose, HostOnly, agent, InHost
  <2>2. CASE AnswerLost(r)
    <3>1. late' = (late \/ ~flights[r].known)
      BY <2>2 DEF AnswerLost
    <3> QED
      BY <2>2, <3>1 DEF AnswerLost
  <2> QED
    BY <2>1, <2>2
<1>3. \A o \in Slots : Awaited(o)' => Awaited(o) /\ o # r
  BY <1>1, Sizes DEF Awaited, Lose, AnswerLost, HostOnly, agent
<1>4. \A o \in Slots : InHost(o)' => InHost(o) /\ o # r
  BY <1>1 DEF InHost, NoReport
<1>5. AgentInOrder' /\ FullIsFull'
  BY <1>1, <1>2, <1>3 DEF HolesInv, AgentInOrder, FullIsFull
<1>6. Brought' /\ KnownIsHeld'
  BY <1>1, <1>2, <1>3, <1>4 DEF HolesInv, Brought, Taken, KnownIsHeld
<1>7. WillBeTold'
  <2> SUFFICES ASSUME ~late', ~full, snap # Absent, ~InStep
               PROVE  \E o \in Slots : InHost(o)' /\ ~flights'[o].known
    BY <1>2 DEF WillBeTold, InStep
  <2>1. PICK o \in Slots : InHost(o) /\ ~flights[o].known
    BY <1>2 DEF HolesInv, WillBeTold
  <2>2. o # r
    BY <1>2, <2>1
  <2> QED
    BY <1>1, <2>1, <2>2 DEF InHost
<1> QED
  BY <1>5, <1>6, <1>7 DEF HolesInv

LEMMA RestartKeepsHoles ==
  ASSUME TypeOK, HolesInv, Restart
  PROVE  HolesInv'
<1>1. /\ version' = version /\ have' = have /\ base' = base /\ full' = full /\ open' = open
      /\ late' = late /\ snap' = Absent
  BY DEF Restart, agent
<1>2. \A r \in Slots : flights'[r] # NoReport => flights'[r] = flights[r]
  BY DEF Restart
<1>3. \A r \in Slots : ~InHost(r)'
  BY DEF Restart, InHost, NoReport
<1>4. \A r \in Slots : Awaited(r)' => Awaited(r) /\ flights'[r] = flights[r]
  BY <1>1, <1>2 DEF Awaited
<1>5. AgentInOrder' /\ FullIsFull'
  BY <1>1, <1>4 DEF HolesInv, AgentInOrder, FullIsFull
<1> QED
  BY <1>1, <1>3, <1>5 DEF HolesInv, Brought, KnownIsHeld, WillBeTold

\* What a report brings is in the snapshot; a host that had nothing says so.
LEMMA MergeKeepsHoles ==
  ASSUME TypeOK, HolesInv, NEW r \in Slots, Merge(r)
  PROVE  HolesInv'
<1>1. flights' = [flights EXCEPT ![r] =
       [stage |-> "merged", at |-> minute, known |-> Known \/ open # r,
        data |-> IF open = r THEN @.data ELSE Absent, sum |-> 0, row |-> None]]
  BY DEF Merge
<1>2. /\ flights'[r].stage = "merged" /\ flights'[r].known = (Known \/ open # r)
      /\ flights'[r].data = IF open = r THEN flights[r].data ELSE Absent
      /\ \A o \in Slots \ {r} : flights'[o] = flights[o]
  BY <1>1 DEF TypeOK
<1>3. /\ version' = version /\ have' = have /\ base' = base /\ full' = full /\ open' = open
      /\ snap' = Merged(r) /\ ~InHost(r) /\ flights[r] # NoReport
  BY DEF Merge, HostOnly, agent, InHost, NoReport
<1>4. ~late' => ~late /\ open = r
  <2>1. late' = (late \/ open # r)
    BY DEF Merge
  <2> QED
    BY <2>1
<1>5. \A o \in Slots : Awaited(o)' => Awaited(o) /\ flights'[o].data = flights[o].data
  BY <1>2, <1>3 DEF Awaited
<1>6. \A s \in Sections : snap'[s] = IF Taken(r, s) THEN flights[r].data[s] ELSE snap[s]
  BY <1>3 DEF Merged
<1>7. AgentInOrder' /\ FullIsFull'
  BY <1>3, <1>5 DEF HolesInv, AgentInOrder, FullIsFull
<1>8. Brought'
  <2> SUFFICES ASSUME NEW o \in Slots, NEW s \in Sections, ~late', Awaited(o)', Taken(o, s)'
               PROVE  snap'[s] = flights'[o].data[s]
    BY DEF Brought
  <2>1. o = r
    BY <1>3, <1>4 DEF Awaited
  <2>2. flights'[r].data = flights[r].data /\ Taken(r, s)
    BY <1>5, <2>1 DEF Taken
  <2> QED
    BY <1>6, <2>1, <2>2
<1>9. KnownIsHeld'
  <2> SUFFICES ASSUME NEW o \in Slots, ~late', InHost(o)', flights'[o].known
               PROVE  snap' # Absent
    BY DEF KnownIsHeld
  <2>1. snap # Absent
    <3>1. CASE o = r
      BY <1>2, <1>4, <3>1 DEF Known
    <3>2. CASE o # r
      BY <1>2, <1>4, <3>2 DEF HolesInv, KnownIsHeld, InHost
    <3> QED
      BY <3>1, <3>2
  <2>2. PICK s \in Sections : snap[s] # 0
    BY <2>1, SomeSection
  <2>3. snap'[s] # 0
    BY <1>6, <2>2 DEF Taken
  <2> QED
    BY <2>3 DEF Absent
<1>10. WillBeTold'
  <2> SUFFICES ASSUME ~late', ~full PROVE InStep' \/ \E o \in Slots : InHost(o)' /\ ~flights'[o].known
    BY <1>3 DEF WillBeTold
  <2>1. open = r /\ ~late
    BY <1>4
  <2>2. CASE snap = Absent
    <3>1. ~flights'[r].known
      BY <1>2, <2>1, <2>2 DEF Known
    <3> QED
      BY <1>2, <3>1 DEF InHost
  <2>3. CASE \E o \in Slots : InHost(o) /\ ~flights[o].known
    <3>1. PICK o \in Slots : InHost(o) /\ ~flights[o].known
      BY <2>3
    <3> QED
      BY <1>2, <1>3, <3>1 DEF InHost
  <2>4. CASE InStep
    <3>1. ASSUME NEW s \in Sections PROVE snap'[s] = have[s] \/ have[s] # base[s] \/ have[s] \in Unfit[s]
      <4>1. flights[r].data[s] # 0 => base[s] <= flights[r].data[s] /\ flights[r].data[s] <= have[s]
        BY <1>3, <2>1 DEF HolesInv, AgentInOrder, Awaited
      <4>2. flights[r].data[s] \in Nat /\ have[s] \in Nat /\ base[s] \in Nat
        BY <1>3, DataVersions, SectionVersions
      <4>3. snap[s] = have[s] \/ have[s] # base[s] \/ have[s] \in Unfit[s]
        BY <2>4 DEF InStep
      <4> QED
        BY <1>6, <4>1, <4>2, <4>3 DEF Taken
    <3> QED
      BY <1>3, <3>1 DEF InStep
  <2> QED
    BY <2>1, <2>2, <2>3, <2>4 DEF HolesInv, WillBeTold
<1> QED
  BY <1>7, <1>8, <1>9, <1>10 DEF HolesInv

\* The agent takes for held what the answered report carried, and the host has it.
LEMMA AnswerKeepsHoles ==
  ASSUME TypeOK, HolesInv, NEW r \in Slots, Answer(r)
  PROVE  HolesInv'
<1>1. /\ flights'[r] = NoReport /\ \A o \in Slots \ {r} : flights'[o] = flights[o]
  BY DEF Answer, TypeOK
<1>2. /\ version' = version /\ have' = have /\ open' = None /\ snap' = snap /\ late' = late
      /\ full' = ~flights[r].known
  BY DEF Answer
<1>3. \A s \in Sections : base'[s] = IF flights[r].data[s] = 0 THEN base[s] ELSE flights[r].data[s]
  BY DEF Answer
<1>4. Awaited(r) /\ InHost(r)
  BY DEF Answer, Awaited, InHost, NoReport
<1>5. \A o \in Slots : ~Awaited(o)'
  BY <1>2, Sizes DEF Awaited
<1>6. \A o \in Slots : InHost(o)' => InHost(o) /\ o # r
  BY <1>1 DEF InHost, NoReport
<1>7. AgentInOrder' /\ FullIsFull' /\ Brought'
  BY <1>2, <1>3, <1>4, <1>5, SectionVersions DEF HolesInv, AgentInOrder, FullIsFull, Brought
<1>8. KnownIsHeld'
  BY <1>1, <1>2, <1>6 DEF HolesInv, KnownIsHeld
<1>9. WillBeTold'
  <2> SUFFICES ASSUME ~late, flights[r].known
               PROVE  InStep' \/ \E o \in Slots : InHost(o)' /\ ~flights'[o].known
    BY <1>2 DEF WillBeTold
  <2>1. snap # Absent
    BY <1>4 DEF HolesInv, KnownIsHeld
  <2>2. CASE \E o \in Slots : InHost(o) /\ ~flights[o].known
    <3>1. PICK o \in Slots : InHost(o) /\ ~flights[o].known
      BY <2>2
    <3>2. o # r
      BY <3>1
    <3> QED
      BY <1>1, <3>1, <3>2 DEF InHost
  <2>3. CASE full \/ InStep
    <3>1. ASSUME NEW s \in Sections PROVE snap[s] = have[s] \/ have[s] # base'[s] \/ have[s] \in Unfit[s]
      <4>1. CASE flights[r].data[s] = 0
        <5>1. ~full
          BY <1>4, <4>1 DEF HolesInv, FullIsFull
        <5> QED
          BY <1>3, <2>3, <4>1, <5>1 DEF InStep
      <4>2. CASE flights[r].data[s] # 0
        <5>1. base'[s] = flights[r].data[s]
          BY <1>3, <4>2
        <5>2. CASE Taken(r, s)
          BY <1>4, <5>1, <5>2 DEF HolesInv, Brought
        <5>3. CASE ~Taken(r, s)
          BY <4>2, <5>1, <5>3 DEF Taken
        <5> QED
          BY <5>2, <5>3
      <4> QED
        BY <4>1, <4>2
    <3> QED
      BY <1>2, <3>1 DEF InStep
  <2> QED
    BY <2>1, <2>2, <2>3 DEF HolesInv, WillBeTold
<1> QED
  BY <1>7, <1>8, <1>9 DEF HolesInv

LEMMA StepKeepsHoles ==
  ASSUME TypeOK, HolesInv, [Next]_vars
  PROVE  HolesInv'
<1>1. CASE (\E r \in Slots : Work(r)) \/ Clock \/ UNCHANGED vars
  BY <1>1, UntouchedSteps, UntouchedKeeps
<1>2. CASE \E s \in Sections : Change(s)
  BY <1>2, ChangeKeepsHoles
<1>3. CASE \E r \in Slots : Send(r) \/ Lose(r) \/ Merge(r) \/ Answer(r) \/ AnswerLost(r)
  BY <1>3, SendKeepsHoles, LossKeepsHoles, MergeKeepsHoles, AnswerKeepsHoles
<1>4. CASE GiveUp \/ RestartAgent
  BY <1>4, GivingUpKeepsHoles
<1>5. CASE Restart
  BY <1>5, RestartKeepsHoles
<1> QED
  BY <1>1, <1>2, <1>3, <1>4, <1>5 DEF Next

LEMMA HolesInitially == Init => HolesInv
BY DEF Init, HolesInv, AgentInOrder, FullIsFull, Brought, KnownIsHeld, WillBeTold, Awaited, InHost, NoReport, Absent

-----------------------------------------------------------------------------
\* However reports overlap, get lost or are given up, and wherever a restart
\* falls, the bucket, the rows and what each side takes the other to hold agree
\* (nodes.py, ingest and _accumulate).
THEOREM RegistryInvariant == Spec => []IInv
<1>1. Init => IInv
  BY TypesInitially, RowsInitially, HolesInitially DEF IInv
<1>2. IInv /\ [Next]_vars => IInv'
  <2> SUFFICES ASSUME IInv, [Next]_vars PROVE IInv'
    OBVIOUS
  <2>1. TypeOK'
    BY StepTyped DEF IInv
  <2> QED
    BY <2>1, StepKeepsRows, StepKeepsHoles DEF IInv
<1> QED
  BY <1>1, <1>2, PTL DEF Spec

\* A minute's row counts each sample once and its findings are written once, unless
\* a restart, a failing write or reports racing for the bucket disturbed the minute;
\* and whatever restarts and writes do, it counts none twice, and its findings are
\* written at most once in a life of the host (nodes.py, _accumulate; db.py,
\* write_rollup).
THEOREM RowsStaySound == Spec => []RowsAreSound
<1>1. IInv => RowsAreWhole
  <2> SUFFICES ASSUME IInv, NEW m \in Minutes \ (disturbed \cup raced), taken[m] > 0, m # bts
               PROVE  rows[m] = taken[m] /\ finds[m] = 1
    BY DEF RowsAreWhole
  <2>1. Whole(m) /\ ~Filling(m)
    BY DEF IInv, RowsInv, AllTaken, Filling
  <2> QED
    BY <2>1 DEF Whole
<1>2. IInv => NoSampleTwice
  <2> SUFFICES ASSUME IInv, NEW m \in Minutes \ raced
               PROVE  rows[m] <= taken[m] /\ finds[m] <= 1 + stops
    BY DEF NoSampleTwice
  <2>1. Counted(m) /\ stops \in Nat /\ finds[m] \in Nat
    BY DEF IInv, RowsInv, OnlyTaken, TypeOK
  <2> QED
    BY <2>1 DEF Counted
<1>3. IInv => RowsAreSound
  BY <1>1, <1>2 DEF IInv, RowsAreSound
<1> QED
  BY <1>3, RegistryInvariant, PTL

\* What the host lacks is sent again, once no report is under way, unless an answer
\* that it knew nothing was lost, a report was folded in after its agent had given
\* it up, or the host dropped the content (nodes.py, ingest and sanitise_report).
THEOREM HolesGetRefilled == Spec => []HolesAreRefilled
<1>1. IInv => HolesAreRefilled
  <2> SUFFICES ASSUME IInv, NothingUnderWay, ~late
               PROVE  full \/ snap = Absent \/ InStep
    BY DEF HolesAreRefilled, InStep
  <2>1. \A r \in Slots : ~InHost(r)
    BY DEF NothingUnderWay, InHost, NoReport
  <2> QED
    BY <2>1 DEF IInv, HolesInv, WillBeTold
<1> QED
  BY <1>1, RegistryInvariant, PTL

-----------------------------------------------------------------------------
(* The Pulse.                                                               *)

Sample == [reading : Nat, age : 0..Far]

\* The samples up to the i-th newest are under the line.
UnderLine(q, i) == \A j \in 1..i : q[j].reading < Line

\* A run of samples under the line is as old as the subject has not been busy.
RunSeen(q, since_busy) == \A i \in DOMAIN q : UnderLine(q, i) => since_busy >= Older(q[i].age)

RingSound(s, q) ==
  /\ q \in Seq(Sample) /\ Len(q) <= Ring
  /\ \A i \in DOMAIN q : q[i] \in [reading : Readings[s], age : 0..Far]
  /\ \A i, j \in DOMAIN q : i < j => q[i].age <= q[j].age

RingsAreSeen ==
  /\ DOMAIN ring = Subjects
  /\ \A s \in Subjects : RingSound(s, ring[s]) /\ RunSeen(ring[s], busy[s])

PulseInv == PulseTypeOK /\ RingsAreSeen

LEMMA Spans ==
  /\ Far \in Nat \ {0} /\ Hold \in Nat \ {0} /\ Hold < Far /\ Ring \in Nat \ {0}
  /\ Line \in Nat /\ \A s \in Subjects : Readings[s] \subseteq Nat
  /\ All \notin Subjects /\ Net \in Subjects /\ Settle \in Nat
BY SpanAssumption, ReadingAssumption, NamesAssumption DEF All, Net, Subjects

LEMMA OlderIs ==
  ASSUME NEW n \in 0..Far
  PROVE  /\ Older(n) \in 0..Far /\ Older(n) >= n /\ Older(n) >= 1
         /\ \A k \in 0..Far : k <= n => Older(k) <= Older(n)
BY Spans DEF Older

LEMMA AgedIs ==
  ASSUME NEW q \in Seq(Sample)
  PROVE  /\ Aged(q) \in Seq(Sample) /\ Len(Aged(q)) = Len(q) /\ DOMAIN Aged(q) = DOMAIN q
         /\ DOMAIN q = 1..Len(q) /\ Len(q) \in Nat
         /\ \A i \in DOMAIN q : q[i].age \in 0..Far /\ Aged(q)[i].reading = q[i].reading
                                /\ Aged(q)[i].age = Older(q[i].age)
<1>1. Len(q) \in Nat /\ DOMAIN q = 1..Len(q)
  BY LenProperties
<1>2. \A i \in DOMAIN q : q[i] \in Sample
  BY <1>1, ElementOfSeq
<1>3. \A i \in DOMAIN q : /\ [q[i] EXCEPT !.age = Older(@)] = [reading |-> q[i].reading, age |-> Older(q[i].age)]
                          /\ Older(q[i].age) \in 0..Far
  BY <1>2, OlderIs DEF Sample
<1>4. \A i \in DOMAIN q : [q[i] EXCEPT !.age = Older(@)] \in Sample
  BY <1>2, <1>3 DEF Sample
<1>5. Aged(q) \in [1..Len(q) -> Sample]
  BY <1>1, <1>4 DEF Aged
<1>6. Aged(q) \in Seq(Sample) /\ Len(Aged(q)) = Len(q) /\ DOMAIN Aged(q) = DOMAIN q
  BY <1>1, <1>5
<1>7. \A i \in DOMAIN q : Aged(q)[i] = [reading |-> q[i].reading, age |-> Older(q[i].age)]
  BY <1>3 DEF Aged
<1> QED
  BY <1>1, <1>2, <1>6, <1>7 DEF Sample

LEMMA SampledIs ==
  ASSUME NEW q \in Seq(Sample), Len(q) <= Ring, NEW x \in Nat
  PROVE  /\ Sampled(q, x) \in Seq(Sample) /\ Len(Sampled(q, x)) <= Ring
         /\ Len(Sampled(q, x)) \in 1..(Len(q) + 1)
         /\ Sampled(q, x)[1] = [reading |-> x, age |-> 0]
         /\ \A i \in 2..Len(Sampled(q, x)) : Sampled(q, x)[i] = q[i - 1]
<1> DEFINE new == [reading |-> x, age |-> 0]
           rest == IF Len(q) = Ring THEN Front(q) ELSE q
<1>1. Len(q) \in Nat /\ \A i \in 1..Len(q) : q[i] \in Sample
  BY LenProperties, ElementOfSeq
<1>2. new \in Sample
  BY Spans DEF Sample
<1>3. <<new>> \in Seq(Sample) /\ Len(<<new>>) = 1 /\ <<new>>[1] = new
  BY <1>2
<1>4. /\ rest \in Seq(Sample) /\ Len(rest) \in Nat /\ Len(rest) <= Len(q) /\ Len(rest) < Ring
      /\ \A i \in 1..Len(rest) : rest[i] = q[i]
  <2>1. CASE Len(q) = Ring
    <3>1. rest = SubSeq(q, 1, Len(q) - 1)
      BY <2>1 DEF Front
    <3>2. \A i \in 1..(Len(q) - 1) : q[i] \in Sample
      BY <1>1
    <3>3. /\ SubSeq(q, 1, Len(q) - 1) \in Seq(Sample)
          /\ Len(SubSeq(q, 1, Len(q) - 1)) = IF 1 <= Len(q) - 1 THEN Len(q) - 1 - 1 + 1 ELSE 0
          /\ \A i \in 1..(Len(q) - 1 - 1 + 1) : SubSeq(q, 1, Len(q) - 1)[i] = q[1 + i - 1]
      BY <1>1, <3>2, SubSeqProperties
    <3> QED
      BY <1>1, <2>1, <3>1, <3>3, Spans
  <2>2. CASE Len(q) # Ring
    BY <1>1, <2>2, Spans
  <2> QED
    BY <2>1, <2>2
<1>5. Sampled(q, x) = <<new>> \o rest
  BY DEF Sampled
<1> HIDE DEF new, rest
<1>6. /\ <<new>> \o rest \in Seq(Sample) /\ Len(<<new>> \o rest) = 1 + Len(rest)
      /\ \A i \in 1..(1 + Len(rest)) : (<<new>> \o rest)[i] = IF i <= 1 THEN <<new>>[i] ELSE rest[i - 1]
  BY <1>3, <1>4, ConcatProperties
<1>7. (<<new>> \o rest)[1] = new
  BY <1>3, <1>4, <1>6
<1>8. \A i \in 2..(1 + Len(rest)) : (<<new>> \o rest)[i] = q[i - 1]
  BY <1>4, <1>6
<1>9. new = [reading |-> x, age |-> 0]
  BY DEF new
<1>10. 1 + Len(rest) <= Ring /\ 1 + Len(rest) \in 1..(Len(q) + 1)
  BY <1>1, <1>4, Spans
<1> QED
  BY <1>5, <1>6, <1>7, <1>8, <1>9, <1>10

LEMMA EmptyKeeps ==
  ASSUME NEW s, NEW b
  PROVE  RingSound(s, <<>>) /\ RunSeen(<<>>, b)
BY Spans DEF RingSound, RunSeen

LEMMA AgedKeeps ==
  ASSUME NEW s \in Subjects, NEW q, NEW b \in 0..Far, RingSound(s, q), RunSeen(q, b)
  PROVE  RingSound(s, Aged(q)) /\ RunSeen(Aged(q), Older(b))
<1> DEFINE p == Aged(q)
<1>1. /\ p \in Seq(Sample) /\ Len(p) = Len(q) /\ DOMAIN p = DOMAIN q
      /\ DOMAIN q = 1..Len(q) /\ Len(q) \in Nat
      /\ \A i \in DOMAIN q : q[i].age \in 0..Far /\ p[i].reading = q[i].reading
                             /\ p[i].age = Older(q[i].age)
  BY AgedIs DEF RingSound
<1> HIDE DEF p
<1>2. \A i \in DOMAIN p : p[i] \in [reading : Readings[s], age : 0..Far]
  <2> SUFFICES ASSUME NEW i \in DOMAIN p PROVE p[i] \in [reading : Readings[s], age : 0..Far]
    OBVIOUS
  <2>1. q[i].reading \in Readings[s]
    BY <1>1 DEF RingSound
  <2>2. p[i] \in Sample
    BY <1>1, ElementOfSeq
  <2> QED
    BY <1>1, <2>1, <2>2 DEF Sample
<1>3. \A i, j \in DOMAIN p : i < j => p[i].age <= p[j].age
  <2> SUFFICES ASSUME NEW i \in DOMAIN p, NEW j \in DOMAIN p, i < j PROVE p[i].age <= p[j].age
    OBVIOUS
  <2>1. q[i].age <= q[j].age
    BY <1>1 DEF RingSound
  <2> QED
    BY <1>1, <2>1, OlderIs
<1>4. RunSeen(p, Older(b))
  <2> SUFFICES ASSUME NEW i \in DOMAIN p, UnderLine(p, i) PROVE Older(b) >= Older(p[i].age)
    BY DEF RunSeen
  <2>1. UnderLine(q, i)
    BY <1>1 DEF UnderLine
  <2>2. b >= p[i].age /\ p[i].age \in 0..Far
    BY <1>1, <2>1, OlderIs DEF RunSeen
  <2>3. Older(p[i].age) <= Older(b) /\ Older(b) \in 0..Far /\ Older(p[i].age) \in 0..Far
    BY <2>2, OlderIs
  <2> QED
    BY <2>3
<1>5. RingSound(s, p)
  BY <1>1, <1>2, <1>3 DEF RingSound
<1> QED
  BY <1>4, <1>5 DEF p

LEMMA SampledKeeps ==
  ASSUME NEW s \in Subjects, NEW q, NEW b \in 0..Far, b >= 1, RingSound(s, q), RunSeen(q, b),
         NEW x \in Readings[s]
  PROVE  /\ RingSound(s, Sampled(q, x))
         /\ RunSeen(Sampled(q, x), IF x >= Line THEN 0 ELSE b)
<1> DEFINE p == Sampled(q, x)
<1>0. x \in Nat /\ Line \in Nat
  BY Spans
<1>1. /\ p \in Seq(Sample) /\ Len(p) <= Ring /\ Len(p) \in 1..(Len(q) + 1)
      /\ p[1] = [reading |-> x, age |-> 0]
      /\ \A i \in 2..Len(p) : p[i] = q[i - 1]
  BY <1>0, SampledIs DEF RingSound
<1> HIDE DEF p
<1>2. Len(q) \in Nat /\ DOMAIN q = 1..Len(q) /\ Len(p) \in Nat /\ DOMAIN p = 1..Len(p)
  BY <1>1, LenProperties DEF RingSound
<1>3. \A i \in 2..Len(p) : i - 1 \in DOMAIN q
  BY <1>1, <1>2
<1>4. \A i \in DOMAIN q : q[i] \in [reading : Readings[s], age : 0..Far]
  BY DEF RingSound
<1>5. \A i \in DOMAIN p : p[i] \in [reading : Readings[s], age : 0..Far]
  <2> SUFFICES ASSUME NEW i \in DOMAIN p PROVE p[i] \in [reading : Readings[s], age : 0..Far]
    OBVIOUS
  <2>1. CASE i = 1
    BY <1>1, <2>1, Spans
  <2>2. CASE i # 1
    <3>1. i \in 2..Len(p)
      BY <1>2, <2>2
    <3> QED
      BY <1>1, <1>3, <1>4, <3>1
  <2> QED
    BY <2>1, <2>2
<1>6. \A i, j \in DOMAIN p : i < j => p[i].age <= p[j].age
  <2> SUFFICES ASSUME NEW i \in DOMAIN p, NEW j \in DOMAIN p, i < j PROVE p[i].age <= p[j].age
    OBVIOUS
  <2>1. j \in 2..Len(p) /\ j - 1 \in DOMAIN q /\ p[j] = q[j - 1]
    BY <1>1, <1>2, <1>3
  <2>2. CASE i = 1
    BY <1>1, <1>4, <2>1, <2>2
  <2>3. CASE i # 1
    <3>1. i \in 2..Len(p) /\ i - 1 \in DOMAIN q /\ p[i] = q[i - 1] /\ i - 1 < j - 1
      BY <1>1, <1>2, <1>3, <2>3
    <3> QED
      BY <2>1, <3>1 DEF RingSound
  <2> QED
    BY <2>2, <2>3
<1>7. RunSeen(p, IF x >= Line THEN 0 ELSE b)
  <2> SUFFICES ASSUME NEW i \in DOMAIN p, UnderLine(p, i)
               PROVE  (IF x >= Line THEN 0 ELSE b) >= Older(p[i].age)
    BY DEF RunSeen
  <2>1. i \in Nat /\ 1 <= i /\ p[1].reading < Line
    BY <1>2 DEF UnderLine
  <2>2. x < Line
    BY <1>1, <2>1
  <2>3. CASE i = 1
    BY <1>0, <1>1, <2>2, <2>3, Spans DEF Older
  <2>4. CASE i # 1
    <3>1. i \in 2..Len(p) /\ i - 1 \in DOMAIN q /\ p[i] = q[i - 1] /\ i - 1 \in Nat
      BY <1>1, <1>2, <1>3, <2>4
    <3>2. UnderLine(q, i - 1)
      <4> SUFFICES ASSUME NEW j \in 1..(i - 1) PROVE q[j].reading < Line
        BY DEF UnderLine
      <4>1. j + 1 \in 2..Len(p) /\ j + 1 \in 1..i /\ (j + 1) - 1 = j
        BY <1>2, <3>1
      <4>2. p[j + 1] = q[j]
        BY <1>1, <4>1
      <4> QED
        BY <4>1, <4>2 DEF UnderLine
    <3> QED
      BY <1>0, <2>2, <3>1, <3>2 DEF RunSeen
  <2> QED
    BY <2>3, <2>4
<1>8. RingSound(s, p)
  BY <1>1, <1>5, <1>6 DEF RingSound
<1> QED
  BY <1>7, <1>8 DEF p

\* What passes of the time itself.
LEMMA TimeKeeps ==
  ASSUME PulseInv, TimePasses
  PROVE  /\ judged' = FALSE /\ folded' = folded /\ held' = held
         /\ \A k \in held : since'[k] \in 0..Far /\ since'[k] >= since[k]
<1>1. held' = held
  BY DEF TimePasses, held
<1>2. \A k \in held : since[k] \in 0..Far /\ since'[k] = Older(since[k])
  BY DEF TimePasses, PulseInv, PulseTypeOK, held
<1> QED
  BY <1>1, <1>2, OlderIs DEF TimePasses

LEMMA UnheardKeeps ==
  ASSUME PulseInv, Unheard
  PROVE  PulseInv'
<1>1. /\ judged' = FALSE /\ folded' = folded /\ held' = held
      /\ \A k \in held : since'[k] \in 0..Far
  BY TimeKeeps DEF Unheard
<1>2. DOMAIN ring' = Subjects /\ \A s \in Subjects : ring'[s] = Aged(ring[s]) /\ busy'[s] = Older(busy[s])
  BY DEF Unheard
<1>3. \A s \in Subjects : busy[s] \in 0..Far
  BY DEF PulseInv, PulseTypeOK
<1>4. \A s \in Subjects : RingSound(s, ring'[s]) /\ RunSeen(ring'[s], busy'[s])
  BY <1>2, <1>3, AgedKeeps DEF PulseInv, RingsAreSeen
<1>5. RingsAreSeen'
  BY <1>2, <1>4 DEF RingsAreSeen
<1>6. online' \in 0..Far /\ busy' \in [Subjects -> 0..Far]
  BY <1>3, OlderIs DEF Unheard, PulseInv, PulseTypeOK
<1>7. PulseTypeOK'
  <2>1. \A s \in Subjects :
          /\ Len(ring'[s]) <= Ring
          /\ \A i \in DOMAIN ring'[s] : ring'[s][i] \in [reading : Readings[s], age : 0..Far]
          /\ \A i, j \in DOMAIN ring'[s] : i < j => ring'[s][i].age <= ring'[s][j].age
    BY <1>4 DEF RingSound
  <2> QED
    BY <1>1, <1>6, <2>1 DEF Unheard, PulseInv, PulseTypeOK
<1> QED
  BY <1>5, <1>7 DEF PulseInv

LEMMA HearKeeps ==
  ASSUME PulseInv, Hear
  PROVE  PulseInv'
<1>1. PICK others \in SUBSET (Listeners \cup Units), out \in Asides, rebooted \in {FALSE, ~deaf},
           turned \in {FALSE, \E s \in Subjects : Stale(Aged(ring[s]))} :
        \E x \in Samples(others \cup {Net}) :
          TimePasses /\ Observe(others \cup {Net}, out, x, rebooted, turned)
  BY DEF Hear
<1>0. PICK x \in Samples(others \cup {Net}) :
        TimePasses /\ Observe(others \cup {Net}, out, x, rebooted, turned)
  BY <1>1
<1> DEFINE there == others \cup {Net}
           gap == deaf \/ rebooted
           kept(s) == Rolled(Cleared(Aged(ring[s]), gap), turned)
<1>2. /\ judged' = FALSE /\ folded' = folded /\ held' = held
      /\ \A k \in held : since'[k] \in 0..Far
  BY <1>0, TimeKeeps
<1>3. /\ up' = there /\ aside' = out /\ deaf' = FALSE /\ gapped' = (gapped \/ gap)
      /\ online' = IF gap THEN 0 ELSE Older(online)
      /\ DOMAIN ring' = Subjects /\ busy' \in [Subjects -> {busy'[s] : s \in Subjects}]
      /\ \A s \in Subjects :
           /\ ring'[s] = IF s \in there THEN Sampled(kept(s), x[s]) ELSE kept(s)
           /\ busy'[s] = IF s \in there /\ x[s] >= Line THEN 0 ELSE Older(busy[s])
  BY <1>0 DEF Observe
<1>4. there \subseteq Subjects /\ \A s \in there : x[s] \in Readings[s]
  BY DEF Samples, Subjects
<1>5. \A s \in Subjects : busy[s] \in 0..Far /\ Older(busy[s]) \in 0..Far /\ Older(busy[s]) >= 1
  BY OlderIs DEF PulseInv, PulseTypeOK
<1>6. \A s \in Subjects : kept(s) \in {Aged(ring[s]), <<>>}
  BY DEF Rolled, Cleared
<1>7. \A s \in Subjects : RingSound(s, kept(s)) /\ RunSeen(kept(s), Older(busy[s]))
  BY <1>5, <1>6, AgedKeeps, EmptyKeeps DEF PulseInv, RingsAreSeen
<1> HIDE DEF kept
<1>8. ASSUME NEW s \in Subjects
      PROVE  busy'[s] \in 0..Far /\ RingSound(s, ring'[s]) /\ RunSeen(ring'[s], busy'[s])
  <2>1. CASE s \in there
    <3>1. x[s] \in Readings[s]
      BY <1>4, <2>1
    <3>2. /\ RingSound(s, Sampled(kept(s), x[s]))
          /\ RunSeen(Sampled(kept(s), x[s]), IF x[s] >= Line THEN 0 ELSE Older(busy[s]))
      BY <1>5, <1>7, <3>1, SampledKeeps
    <3>3. ring'[s] = Sampled(kept(s), x[s]) /\ busy'[s] = IF x[s] >= Line THEN 0 ELSE Older(busy[s])
      BY <1>3, <2>1
    <3>4. busy'[s] \in 0..Far
      BY <1>5, <3>3, Spans
    <3> QED
      BY <3>2, <3>3, <3>4
  <2>2. CASE s \notin there
    BY <1>3, <1>5, <1>7, <2>2
  <2> QED
    BY <2>1, <2>2
<1>9. RingsAreSeen'
  BY <1>3, <1>8 DEF RingsAreSeen
<1>10. PulseTypeOK'
  <2>1. \A s \in Subjects :
          /\ Len(ring'[s]) <= Ring
          /\ \A i \in DOMAIN ring'[s] : ring'[s][i] \in [reading : Readings[s], age : 0..Far]
          /\ \A i, j \in DOMAIN ring'[s] : i < j => ring'[s][i].age <= ring'[s][j].age
    BY <1>8 DEF RingSound
  <2>2. busy' \in [Subjects -> 0..Far]
    BY <1>3, <1>8
  <2>3. online' \in 0..Far
    BY <1>3, OlderIs, Spans DEF PulseInv, PulseTypeOK
  <2>4. up' \subseteq Subjects /\ aside' \in Asides
    BY <1>3, <1>4
  <2>5. {deaf', gapped', judged'} \subseteq BOOLEAN
    BY <1>2, <1>3 DEF PulseInv, PulseTypeOK
  <2>6. /\ held' \subseteq Subjects \cup {All} /\ \A k \in held' : since'[k] \in 0..Far
        /\ folded' \subseteq Listeners \cup {Net} /\ held' \cap folded' = {}
    BY <1>2 DEF PulseInv, PulseTypeOK
  <2> QED
    BY <2>1, <2>2, <2>3, <2>4, <2>5, <2>6 DEF PulseTypeOK
<1> QED
  BY <1>9, <1>10 DEF PulseInv

LEMMA LeastOf ==
  ASSUME NEW S \in SUBSET Nat, S # {}
  PROVE  \E n \in S : \A m \in S : n <= m
<1> DEFINE Less == {p \in Nat \X Nat : p[1] < p[2]}
<1>1. Less = OpToRel(<, Nat)
  BY DEF OpToRel
<1>2. IsWellFoundedOn(Less, Nat)
  BY <1>1, NatLessThanWellFounded
<1> HIDE DEF Less
<1>3. PICK n \in S : \A m \in S : ~(<<m, n>> \in Less)
  BY <1>2, WFMin
<1>4. \A m \in S : ~(m < n)
  BY <1>3 DEF Less
<1>5. \A m \in S : n <= m
  BY <1>4
<1> QED
  BY <1>5

LEMMA MaxIsOfIt ==
  ASSUME NEW S \in SUBSET (0..Far), S # {}
  PROVE  Max(S) \in S
<1> DEFINE T == {Far - n : n \in S}
<1>1. T \in SUBSET Nat /\ T # {}
  <2>1. ASSUME NEW n \in S PROVE Far - n \in Nat
    <3>1. n \in 0..Far /\ Far \in Nat
      BY Spans
    <3> QED
      BY <3>1
  <2>2. \A t \in T : t \in Nat
    BY <2>1
  <2> QED
    BY <2>2
<1>2. PICK t \in T : \A m \in T : t <= m
  BY <1>1, LeastOf
<1>3. PICK n \in S : t = Far - n
  BY <1>2
<1>4. ASSUME NEW m \in S PROVE n >= m
  <2>1. Far - m \in T
    OBVIOUS
  <2>2. Far - n <= Far - m
    BY <1>2, <1>3, <2>1
  <2>3. m \in Int /\ n \in Int
    OBVIOUS
  <2> QED
    BY <2>2, <2>3, Spans
<1>5. \A m \in S : n >= m
  BY <1>4
<1> QED
  BY <1>5 DEF Max

\* The run under the line that the walk finds is one of the ring's.
LEMMA WalkedIs ==
  ASSUME NEW s, NEW q, RingSound(s, q), Line \in Nat, \A i \in DOMAIN q : q[i].reading \in Nat
  PROVE  /\ Walked(q) \in 0..Far
         /\ Walked(q) > 0 => \E i \in DOMAIN q : UnderLine(q, i) /\ q[i].age = Walked(q)
<1> DEFINE above == {i \in DOMAIN q : q[i].reading >= Line}
           last == IF above = {} THEN Len(q) ELSE Min(above) - 1
<1>1. Len(q) \in Nat /\ DOMAIN q = 1..Len(q) /\ \A i \in DOMAIN q : q[i].age \in 0..Far
  BY LenProperties DEF RingSound
<1>2. Walked(q) = IF last = 0 THEN 0 ELSE q[last].age
  BY DEF Walked
<1>3. last \in 0..Len(q) /\ \A j \in 1..last : j \notin above
  <2>1. CASE above = {}
    BY <1>1, <2>1
  <2>2. CASE above # {}
    <3>0. above \in SUBSET Nat
      BY <1>1
    <3>1. \E n \in above : \A m \in above : n <= m
      <4> HIDE DEF above
      <4> QED
        BY <2>2, <3>0, LeastOf
    <3>2. Min(above) \in above /\ \A m \in above : Min(above) <= m
      BY <3>1 DEF Min
    <3>3. Min(above) \in 1..Len(q) /\ above \subseteq Int
      BY <1>1, <3>2
    <3> HIDE DEF above
    <3> QED
      BY <1>1, <2>2, <3>2, <3>3
  <2> QED
    BY <2>1, <2>2
<1>4. \A j \in 1..last : j \in DOMAIN q /\ q[j].reading < Line
  BY <1>1, <1>3
<1> HIDE DEF last, above
<1>5. CASE last = 0
  BY <1>2, <1>5, Spans
<1>6. CASE last # 0
  <2>1. last \in DOMAIN q /\ UnderLine(q, last)
    BY <1>1, <1>3, <1>4, <1>6 DEF UnderLine
  <2> QED
    BY <1>1, <1>2, <1>6, <2>1
<1> QED
  BY <1>5, <1>6

\* The number a judgement states for a subject.
RunOf(s) == Stated(Walked(ring[s]), Hint(s))

\* It is not less than was said before, and of a subject newly said not more than
\* the time it has not been busy.
LEMMA RunIs ==
  ASSUME PulseInv, NEW s \in Subjects
  PROVE  /\ RunOf(s) \in 0..Far
         /\ s \in held => RunOf(s) >= since[s]
         /\ s \notin held => RunOf(s) <= busy[s] /\ (RunOf(s) >= Hold => busy[s] > Hold)
<1>1. RingSound(s, ring[s]) /\ RunSeen(ring[s], busy[s]) /\ busy[s] \in 0..Far
  BY DEF PulseInv, RingsAreSeen, PulseTypeOK
<1>2. \A i \in DOMAIN ring[s] : ring[s][i].reading \in Nat /\ ring[s][i].age \in 0..Far
  BY <1>1, Spans DEF RingSound
<1>3. /\ Walked(ring[s]) \in 0..Far
      /\ Walked(ring[s]) > 0 => \E i \in DOMAIN ring[s] : UnderLine(ring[s], i) /\ ring[s][i].age = Walked(ring[s])
  BY <1>1, <1>2, WalkedIs, Spans
<1>4. Hint(s) \in 0..Far /\ (s \in held => Hint(s) = since[s]) /\ (s \notin held => Hint(s) = 0)
  BY Spans DEF Hint, PulseInv, PulseTypeOK
<1>5. s \notin held => RunOf(s) = Walked(ring[s])
  BY <1>3, <1>4 DEF RunOf, Stated
<1>6. Walked(ring[s]) <= busy[s] /\ (Walked(ring[s]) >= Hold => busy[s] > Hold)
  <2>1. CASE Walked(ring[s]) = 0
    BY <1>1, <2>1, Spans
  <2>2. CASE Walked(ring[s]) > 0
    <3>1. PICK i \in DOMAIN ring[s] : UnderLine(ring[s], i) /\ ring[s][i].age = Walked(ring[s])
      BY <1>3, <2>2
    <3>2. busy[s] >= Older(Walked(ring[s]))
      BY <1>1, <3>1 DEF RunSeen
    <3> QED
      BY <1>1, <1>3, <3>2, Spans DEF Older
  <2> QED
    BY <1>3, <2>1, <2>2
<1> QED
  BY <1>1, <1>3, <1>4, <1>5, <1>6 DEF RunOf, Stated

\* What a judgement leaves: quiet subjects, by themselves or inside machine_quiet.
LEMMA JudgeIs ==
  ASSUME PulseInv, Judge
  PROVE  /\ judged' = TRUE /\ UNCHANGED <<ring, up, aside, deaf, online, gapped, busy>>
         /\ held' \subseteq Quiet \cup {All} /\ folded' \subseteq Quiet \cap (Listeners \cup {Net})
         /\ held' \cap folded' = {} /\ Quiet \subseteq held' \cup folded'
         /\ \A k \in held' : since'[k] \in 0..Far /\ (k # All => since'[k] = RunOf(k))
<1> DEFINE quiet == Quiet
           under == IF Folds(quiet) THEN quiet \cap (Listeners \cup {Net}) ELSE {}
           run == [s \in quiet |-> Stated(Walked(ring[s]), Hint(s))]
           keys == (quiet \ under) \cup (IF under = {} THEN {} ELSE {All})
<1>1. /\ judged' = TRUE /\ folded' = under
      /\ since' = [k \in keys |-> IF k = All THEN Max({run[s] : s \in under}) ELSE run[k]]
      /\ UNCHANGED <<reported, busy>>
  BY DEF Judge
<1>2. quiet \subseteq Subjects /\ under \subseteq quiet /\ All \notin quiet
  BY Spans DEF Quiet
<1>3. \A s \in quiet : run[s] = RunOf(s) /\ run[s] \in 0..Far
  <2>1. \A s \in quiet : run[s] = RunOf(s)
    BY DEF RunOf
  <2> QED
    BY <1>2, <2>1, RunIs
<1>4. held' = keys
  BY <1>1 DEF held
<1>5. under # {} => Max({run[s] : s \in under}) \in 0..Far
  <2>1. {run[s] : s \in under} \subseteq 0..Far
    BY <1>2, <1>3
  <2> SUFFICES ASSUME under # {} PROVE Max({run[s] : s \in under}) \in 0..Far
    OBVIOUS
  <2>2. {run[s] : s \in under} # {}
    OBVIOUS
  <2> HIDE DEF under, run
  <2> QED
    BY <2>1, <2>2, MaxIsOfIt
<1>6. folded' \subseteq Quiet \cap (Listeners \cup {Net})
  BY <1>1
<1>7. /\ held' \subseteq Quiet \cup {All} /\ held' \cap folded' = {}
      /\ Quiet \subseteq held' \cup folded'
  BY <1>1, <1>2, <1>4
<1>8. \A k \in held' : since'[k] \in 0..Far /\ (k # All => since'[k] = RunOf(k))
  <2> SUFFICES ASSUME NEW k \in held'
               PROVE  since'[k] \in 0..Far /\ (k # All => since'[k] = RunOf(k))
    OBVIOUS
  <2>1. since'[k] = IF k = All THEN Max({run[s] : s \in under}) ELSE run[k]
    BY <1>1, <1>4
  <2>2. CASE k = All
    <3>1. under # {}
      BY <1>2, <1>4, <2>2
    <3> QED
      BY <1>5, <2>1, <2>2, <3>1
  <2>3. CASE k # All
    <3>1. k \in quiet
      BY <1>4, <2>3
    <3> QED
      BY <1>3, <2>1, <2>3, <3>1
  <2> QED
    BY <2>2, <2>3
<1> QED
  BY <1>1, <1>6, <1>7, <1>8 DEF reported

LEMMA JudgeKeeps ==
  ASSUME PulseInv, Judge
  PROVE  PulseInv'
<1>1. /\ judged' = TRUE /\ UNCHANGED <<ring, up, aside, deaf, online, gapped, busy>>
      /\ held' \subseteq Quiet \cup {All} /\ folded' \subseteq Quiet \cap (Listeners \cup {Net})
      /\ held' \cap folded' = {}
      /\ \A k \in held' : since'[k] \in 0..Far
  BY JudgeIs
<1>2. Quiet \subseteq Subjects
  BY DEF Quiet
<1>3. RingsAreSeen'
  BY <1>1 DEF PulseInv, RingsAreSeen
<1>4. PulseTypeOK'
  BY <1>1, <1>2 DEF PulseInv, PulseTypeOK
<1> QED
  BY <1>3, <1>4 DEF PulseInv

LEMMA PulseInitially ==
  ASSUME PulseInit
  PROVE  PulseInv
<1>1. DOMAIN ring = Subjects /\ \A s \in Subjects : ring[s] = <<>>
  BY DEF PulseInit
<1>2. RingsAreSeen
  BY <1>1, EmptyKeeps DEF RingsAreSeen
<1>3. \A s \in Subjects : RingSound(s, ring[s])
  BY <1>2 DEF RingsAreSeen
<1>4. busy \in [Subjects -> 0..Far] /\ online \in 0..Far /\ up \subseteq Subjects /\ aside \in Asides
  BY Spans, ReadingAssumption DEF PulseInit
<1>5. held = {} /\ folded = {} /\ {deaf, gapped, judged} \subseteq BOOLEAN
  BY DEF PulseInit, held
<1>6. PulseTypeOK
  BY <1>3, <1>4, <1>5 DEF PulseTypeOK, RingSound
<1> QED
  BY <1>2, <1>6 DEF PulseInv

LEMMA PulseStepKeeps ==
  ASSUME PulseInv, [PulseNext]_pulseVars
  PROVE  PulseInv'
<1>1. CASE UNCHANGED pulseVars
  BY <1>1 DEF pulseVars, reported, said, PulseInv, PulseTypeOK, RingsAreSeen, held
<1> QED
  BY <1>1, HearKeeps, UnheardKeeps, JudgeKeeps DEF PulseNext, Tick

\* A ring never holds more than RING samples, in the order of their ages; and a run
\* under the line is never older than the subject has been idle, through gaps,
\* reboots, the turn of the hour and the ring's own end (pulse.py, _fold and _roll).
THEOREM PulseInvariant == PulseSpec => []PulseInv
<1>1. PulseInit => PulseInv
  BY PulseInitially
<1>2. PulseInv /\ [PulseNext]_pulseVars => PulseInv'
  BY PulseStepKeeps
<1> QED
  BY <1>1, <1>2, PTL DEF PulseSpec

LEMMA StepIsReal ==
  ASSUME PulseInv, PulseNext, NEW s \in Subjects
  PROVE  /\ (SaidOf(s))' /\ ~SaidOf(s) => busy[s] > Hold /\ online >= Settle /\ ~deaf
         /\ s \in held' /\ s \notin held => since'[s] <= busy[s]
         /\ s \in held' /\ s \in held => since'[s] >= since[s]
<1>1. CASE Tick
  <2>1. TimePasses
    BY <1>1 DEF Tick, Hear, Unheard
  <2> QED
    BY <2>1, TimeKeeps DEF SaidOf
<1>2. CASE Judge
  <2>1. s # All
    BY Spans
  <2>2. s \in held' => s \in Quiet /\ since'[s] = RunOf(s)
    BY <1>2, <2>1, JudgeIs
  <2>3. (SaidOf(s))' => s \in Quiet
    BY <1>2, <2>2, JudgeIs DEF SaidOf
  <2>4. ASSUME s \in Quiet, s \notin held
        PROVE  busy[s] > Hold /\ online >= Settle /\ ~deaf
    <3>1. ~deaf /\ Settled /\ QuietSubject(s)
      BY <2>4 DEF Quiet
    <3>2. RunOf(s) >= Hold
      BY <2>4, <3>1 DEF QuietSubject, Lasted, RunOf
    <3> QED
      BY <2>4, <3>1, <3>2, RunIs DEF Settled
  <2> QED
    BY <2>2, <2>3, <2>4, RunIs DEF SaidOf
<1> QED
  BY <1>1, <1>2 DEF PulseNext

\* Whatever readings, gaps, reboots and turns of the hour the rings went through, a
\* subject newly said to have gone quiet was not at its line for as long as quiet must
\* hold, the host had heard the node throughout the settling time, and the beginning
\* said of it is never moved to a later moment (pulse.py, judge_subject, _settled).
THEOREM SilencesAreReal == PulseSpec => QuietIsReal
<1> DEFINE Real == \A s \in Subjects :
             /\ (SaidOf(s))' /\ ~SaidOf(s) => busy[s] > Hold /\ online >= Settle /\ ~deaf
             /\ s \in held' /\ s \notin held => since'[s] <= busy[s]
             /\ s \in held' /\ s \in held => since'[s] >= since[s]
<1>1. PulseInv /\ [PulseNext]_pulseVars => [Real]_pulseVars
  BY StepIsReal
<1>2. PulseSpec => [][Real]_pulseVars
  BY <1>1, PulseInvariant, PTL DEF PulseSpec
<1> QED
  BY <1>2 DEF QuietIsReal

-----------------------------------------------------------------------------
(* Means: what the judgement adds up over a window.                         *)

(* Induction over a set of numbers, from the least one that is not in it.   *)
LEMMA AllNumbers ==
  ASSUME NEW T \in SUBSET Nat, 0 \in T, \A n \in T : n + 1 \in T
  PROVE  T = Nat
<1> DEFINE Less == {p \in Nat \X Nat : p[1] < p[2]}
           rest == Nat \ T
<1>1. Less = OpToRel(<, Nat)
  BY DEF OpToRel
<1>2. IsWellFoundedOn(Less, Nat)
  BY <1>1, NatLessThanWellFounded
<1>3. ASSUME rest # {} PROVE FALSE
  <2>1. rest \in SUBSET Nat
    OBVIOUS
  <2> HIDE DEF Less
  <2>2. PICK n \in rest : \A m \in rest : ~(<<m, n>> \in Less)
    <3> HIDE DEF rest
    <3> QED BY <1>2, <1>3, <2>1, WFMin
  <2>3. n \in Nat /\ n \notin T /\ n # 0 /\ n - 1 \in Nat /\ n - 1 < n
    BY <2>2
  <2>4. n - 1 \in T
    BY <2>2, <2>3 DEF Less
  <2> QED
    BY <2>3, <2>4
<1> QED
  BY <1>3

(* The recursion that a sum over a set of places stands for.                *)
Picked(s) == CHOOSE x \in s : TRUE
Summed(f, g, s) == IF s = {} THEN 0 ELSE f[Picked(s)] + g[s \ {Picked(s)}]
IsSum(f, g, S) == g = [s \in SUBSET S |-> Summed(f, g, s)]
UpToSize(S, n) == {s \in SUBSET S : Cardinality(s) <= n}

LEMMA Smaller ==
  ASSUME NEW S, IsFiniteSet(S), NEW s \in SUBSET S, s # {}
  PROVE  /\ Picked(s) \in s /\ s \ {Picked(s)} \in SUBSET S
         /\ IsFiniteSet(s) /\ Cardinality(s) \in Nat /\ Cardinality(s) >= 1
         /\ Cardinality(s \ {Picked(s)}) = Cardinality(s) - 1
<1>1. Picked(s) \in s
  BY DEF Picked
<1>2. IsFiniteSet(s)
  BY FS_Subset
<1>3. Cardinality(s) \in Nat /\ Cardinality(s) # 0
  BY <1>2, FS_CardinalityType, FS_EmptySet
<1>4. Cardinality(s \ {Picked(s)}) = Cardinality(s) - 1
  BY <1>1, <1>2, FS_RemoveElement
<1> QED
  BY <1>1, <1>2, <1>3, <1>4

LEMMA SizeOfPart ==
  ASSUME NEW S, IsFiniteSet(S), NEW s \in SUBSET S
  PROVE  Cardinality(s) \in Nat /\ (Cardinality(s) = 0 <=> s = {})
BY FS_Subset, FS_CardinalityType, FS_EmptySet

LEMMA SumExists ==
  ASSUME NEW f, NEW S, IsFiniteSet(S)
  PROVE  \E g : IsSum(f, g, S)
<1> DEFINE Has(n) == \E g : g = [s \in UpToSize(S, n) |-> Summed(f, g, s)]
           T == {n \in Nat : Has(n)}
<1>1. Has(0)
  <2> DEFINE g == [s \in UpToSize(S, 0) |-> 0]
  <2>1. \A s \in UpToSize(S, 0) : s = {}
    BY SizeOfPart DEF UpToSize
  <2>2. g = [s \in UpToSize(S, 0) |-> Summed(f, g, s)]
    BY <2>1 DEF Summed
  <2> HIDE DEF g
  <2> QED BY <2>2
<1>2. ASSUME NEW n \in Nat, Has(n) PROVE Has(n + 1)
  <2>1. PICK g : g = [s \in UpToSize(S, n) |-> Summed(f, g, s)]
    BY <1>2
  <2> DEFINE h == [s \in UpToSize(S, n + 1) |-> Summed(f, g, s)]
  <2>2. \A s \in UpToSize(S, n) : h[s] = g[s]
    <3>1. \A s \in UpToSize(S, n) : s \in UpToSize(S, n + 1)
      <4> TAKE s \in UpToSize(S, n)
      <4>1. s \in SUBSET S /\ Cardinality(s) <= n /\ Cardinality(s) \in Nat
        BY FS_Subset, FS_CardinalityType DEF UpToSize
      <4> QED BY <4>1 DEF UpToSize
    <3> QED BY <2>1, <3>1
  <2>3. \A s \in UpToSize(S, n + 1) : Summed(f, h, s) = Summed(f, g, s)
    <3> TAKE s \in UpToSize(S, n + 1)
    <3>1. ASSUME s # {} PROVE h[s \ {Picked(s)}] = g[s \ {Picked(s)}]
      <4>1. s \in SUBSET S /\ Cardinality(s) <= n + 1
        BY DEF UpToSize
      <4>2. s \ {Picked(s)} \in UpToSize(S, n)
        BY <3>1, <4>1, Smaller DEF UpToSize
      <4> HIDE DEF h
      <4> QED BY <2>2, <4>2
    <3> HIDE DEF h
    <3>2. CASE s = {}
      BY <3>2 DEF Summed
    <3> QED BY <3>1, <3>2 DEF Summed
  <2>4. h = [s \in UpToSize(S, n + 1) |-> Summed(f, h, s)]
    BY <2>3
  <2> HIDE DEF h
  <2> QED BY <2>4
<1> HIDE DEF Has
<1>3. T = Nat
  <2>1. T \in SUBSET Nat /\ 0 \in T /\ \A n \in T : n + 1 \in T
    BY <1>1, <1>2
  <2> HIDE DEF T
  <2> QED BY <2>1, AllNumbers
<1>4. Cardinality(S) \in Nat /\ UpToSize(S, Cardinality(S)) = SUBSET S
  BY FS_CardinalityType, FS_Subset DEF UpToSize
<1>5. Has(Cardinality(S))
  BY <1>3, <1>4
<1> QED
  BY <1>4, <1>5 DEF IsSum, Has

LEMMA SumIs ==
  ASSUME NEW f, NEW S, IsFiniteSet(S)
  PROVE  \E g : IsSum(f, g, S) /\ SumFunctionOnSet(f, S) = g[S]
<1> DEFINE iter == CHOOSE g : IsSum(f, g, S)
<1>1. SumFunctionOnSet(f, S) = LET g[s \in SUBSET S] ==
        IF s = {} THEN 0 ELSE LET x == CHOOSE x \in s : TRUE IN f[x] + g[s \ {x}] IN g[S]
  BY DEF SumFunctionOnSet, FoldFunctionOnSet, MapThenFoldSet
<1>2. SumFunctionOnSet(f, S) = iter[S]
  BY <1>1 DEF IsSum, Summed, Picked
<1>3. IsSum(f, iter, S)
  BY SumExists
<1> HIDE DEF iter
<1> QED
  BY <1>2, <1>3

(* If every number is less than a bound, so is their mean.                  *)
LEMMA SumIsBelow ==
  ASSUME NEW f, NEW S, IsFiniteSet(S), S # {}, NEW b \in Nat,
         \A i \in S : f[i] \in Nat /\ f[i] < b
  PROVE  SumFunctionOnSet(f, S) < b * Cardinality(S)
<1>1. PICK g : IsSum(f, g, S) /\ SumFunctionOnSet(f, S) = g[S]
  BY SumIs
<1> DEFINE Below(s) == g[s] \in Nat /\ g[s] + Cardinality(s) <= b * Cardinality(s)
           T == {n \in Nat : \A s \in SUBSET S : Cardinality(s) = n => Below(s)}
<1>2. \A s \in SUBSET S : g[s] = Summed(f, g, s)
  BY <1>1 DEF IsSum
<1>3. 0 \in T
  <2> SUFFICES ASSUME NEW s \in SUBSET S, Cardinality(s) = 0 PROVE Below(s)
    OBVIOUS
  <2>1. s = {}
    BY SizeOfPart
  <2>2. g[s] = 0
    BY <1>2, <2>1 DEF Summed
  <2>3. b * 0 = 0
    OBVIOUS
  <2> QED BY <2>2, <2>3
<1>4. ASSUME NEW n \in T PROVE n + 1 \in T
  <2> SUFFICES ASSUME NEW s \in SUBSET S, Cardinality(s) = n + 1 PROVE Below(s)
    OBVIOUS
  <2>0. n \in Nat
    OBVIOUS
  <2>1. s # {}
    BY <2>0, SizeOfPart
  <2> DEFINE p == Picked(s)
             r == s \ {Picked(s)}
  <2>2. p \in s /\ r \in SUBSET S /\ Cardinality(r) = n
    BY <2>0, <2>1, Smaller
  <2>3. g[s] = f[p] + g[r]
    BY <1>2, <2>1 DEF Summed
  <2>4. g[r] \in Nat /\ g[r] + n <= b * n
    BY <2>2
  <2>5. f[p] \in Nat /\ f[p] < b
    BY <2>2
  <2> HIDE DEF p, r, T
  <2>6. b * (n + 1) = b * n + b /\ b * n \in Nat
    BY <2>0
  <2>7. g[s] \in Nat /\ g[s] + (n + 1) <= b * n + b
    BY <2>0, <2>3, <2>4, <2>5, <2>6
  <2> QED BY <2>6, <2>7
<1>5. T = Nat
  <2>1. T \in SUBSET Nat
    OBVIOUS
  <2> HIDE DEF T
  <2> QED BY <1>3, <1>4, <2>1, AllNumbers
<1>6. Cardinality(S) \in Nat /\ Cardinality(S) >= 1
  BY Smaller
<1>7. Below(S)
  BY <1>5, <1>6
<1> HIDE DEF Below
<1>8. b * Cardinality(S) \in Nat
  BY <1>6
<1> QED
  BY <1>1, <1>6, <1>7, <1>8 DEF Below

LEMMA RingIsFinite ==
  ASSUME NEW q \in Seq(Sample)
  PROVE  IsFiniteSet(DOMAIN q)
<1>1. DOMAIN q = 1..Len(q) /\ Len(q) \in Int /\ 1 \in Int
  BY LenProperties
<1>2. \A a, b \in Int : IsFiniteSet(a..b)
  BY FS_Interval
<1> QED
  BY <1>1, <1>2

(* A window whose mean reaches a bound has a sample that does.              *)
LEMMA MeanReached ==
  ASSUME NEW q \in Seq(Sample), NEW w \in SUBSET DOMAIN q, Cardinality(w) > 0,
         NEW bound \in Nat, ~MeanBelow(q, w, bound)
  PROVE  \E i \in DOMAIN q : q[i].reading >= bound
<1> DEFINE readings == [i \in DOMAIN q |-> q[i].reading]
<1>1. DOMAIN q = 1..Len(q) /\ Len(q) \in Nat /\ \A i \in DOMAIN q : q[i].reading \in Nat
  <2>1. DOMAIN q = 1..Len(q) /\ Len(q) \in Nat
    BY LenProperties
  <2>2. \A i \in DOMAIN q : q[i] \in Sample
    BY <2>1, ElementOfSeq
  <2> QED BY <2>1, <2>2 DEF Sample
<1>2. IsFiniteSet(w)
  <2>1. IsFiniteSet(DOMAIN q)
    BY RingIsFinite
  <2> QED BY <2>1, FS_Subset
<1>3. w # {}
  <2>1. Cardinality({}) = 0
    BY FS_EmptySet
  <2>2. ~(0 > 0)
    OBVIOUS
  <2> QED BY <2>1, <2>2
<1> SUFFICES ASSUME \A i \in DOMAIN q : q[i].reading < bound
             PROVE  FALSE
  BY <1>1
<1>4. \A i \in w : readings[i] \in Nat /\ readings[i] < bound
  BY <1>1
<1>5. SumFunctionOnSet(readings, w) < bound * Cardinality(w)
  <2> HIDE DEF readings
  <2> QED BY <1>2, <1>3, <1>4, SumIsBelow
<1> QED
  BY <1>5 DEF MeanBelow, Total

LEMMA StepKeepsSaid ==
  ASSUME PulseInv, PulseNext, NEW s \in Subjects,
         s \in held, ~(SaidOf(s))', ~deaf, Settled, s \in up \ aside
  PROVE  \/ \E i \in DOMAIN ring[s] : ring[s][i].reading >= Back
         \/ Cardinality(Within(ring[s], Window)) < MinSamples
<1>1. Judge
  <2> SUFFICES ASSUME Tick PROVE FALSE
    BY DEF PulseNext
  <2>1. TimePasses
    BY DEF Tick, Hear, Unheard
  <2> QED
    BY <2>1, TimeKeeps DEF SaidOf
<1>2. s \notin Quiet
  <2>1. s # All
    BY Spans
  <2> QED
    BY <1>1, <2>1, JudgeIs DEF SaidOf
<1>3. ~QuietSubject(s)
  BY <1>2 DEF Quiet
<1>4. CASE Cardinality(Within(ring[s], Window)) < MinSamples
  BY <1>4
<1>5. CASE ~(Cardinality(Within(ring[s], Window)) < MinSamples)
  <2> DEFINE q == ring[s]
  <2>1. q \in Seq(Sample) /\ DOMAIN q = 1..Len(q) /\ Len(q) \in Nat
    BY LenProperties DEF PulseInv, RingsAreSeen, RingSound
  <2>2. \A span : Within(q, span) \in SUBSET DOMAIN q /\ Cardinality(Within(q, span)) \in Nat
    <3> HIDE DEF q
    <3>1. IsFiniteSet(DOMAIN q)
      BY <2>1, RingIsFinite
    <3> QED BY <3>1, FS_Subset, FS_CardinalityType DEF Within
  <2> HIDE DEF q
  <2>3. MinSamples \in Nat \ {0} /\ MinRecent \in Nat \ {0} /\ Back \in Nat
    BY SpanAssumption, ReadingAssumption
  <2>4. Recovered(q)
    BY <1>3, <1>5, <2>2, <2>3 DEF QuietSubject, q
  <2>5. PICK span : ~MeanBelow(q, Within(q, span), Back) /\ Cardinality(Within(q, span)) > 0
    <3>1. CASE Cardinality(Within(q, Recent)) < MinRecent
      <4>1. ~MeanBelow(q, Within(q, Window), Back)
        BY <2>4, <3>1 DEF Recovered
      <4>2. Cardinality(Within(q, Window)) > 0
        BY <1>5, <2>2, <2>3 DEF q
      <4> QED BY <4>1, <4>2
    <3>2. CASE ~(Cardinality(Within(q, Recent)) < MinRecent)
      <4>1. ~MeanBelow(q, Within(q, Recent), Back)
        BY <2>4, <3>2 DEF Recovered
      <4>2. Cardinality(Within(q, Recent)) > 0
        BY <3>2, <2>2, <2>3
      <4> QED BY <4>1, <4>2
    <3> QED BY <3>1, <3>2
  <2> QED
    BY <2>1, <2>2, <2>3, <2>5, MeanReached DEF q
<1> QED
  BY <1>4, <1>5

\* Through folds, gaps and twitches, a silence that was said of a subject itself is
\* taken back only after a sample at half the normal median, or when the window is
\* too thin to judge it (pulse.py, judge_subject).
THEOREM TwitchesDoNotClear == PulseSpec => TwitchDoesNotClear
<1> DEFINE Stays == \A s \in Subjects :
             /\ s \in held /\ ~(SaidOf(s))' /\ ~deaf /\ Settled
             /\ s \in up \ aside
             => \/ \E i \in DOMAIN ring[s] : ring[s][i].reading >= Back
                \/ Cardinality(Within(ring[s], Window)) < MinSamples
<1>1. PulseInv /\ [PulseNext]_pulseVars => [Stays]_pulseVars
  BY StepKeepsSaid
<1>2. PulseSpec => [][Stays]_pulseVars
  BY <1>1, PulseInvariant, PTL DEF PulseSpec
<1> QED
  BY <1>2 DEF TwitchDoesNotClear

=============================================================================
