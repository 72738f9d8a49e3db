----------------------------- MODULE LagDoctor -----------------------------
(***************************************************************************)
(* The Lag Doctor of an agent (culprit/collectors/lag.py, Sustain of        *)
(* culprit/util.py) under the tiers of the sampler (culprit/sampler.py):    *)
(* how readings of three tiers become findings, and since when, and how an  *)
(* OOM kill that two counters count is told.                                *)
(*                                                                         *)
(* A condition is the key of a finding.  A diagnosis reads it as bad or     *)
(* fine; has no value for it ("none": no PSI, a unit that was idle); or     *)
(* misses what it is about ("gone": a unit, a port, a limit).  Scores,      *)
(* severities, culprits, wording and the forecasts are left out.            *)
(***************************************************************************)
EXTENDS Integers, FiniteSetsExt

CONSTANTS
  Conditions,   \* pairs of a family and what a finding of it is about
  Units,        \* the units whose kills the walk may count
  Inside,       \* Inside[u]: the units inside the unit u
  SustainTicks, \* sustain_ticks
  Horizon,      \* bound on ages, in diagnoses
  MaxKills      \* bound on OOM kills

VARIABLES
  kills,        \* OOM kills since boot, in a unit or outside
  counter,      \* those each unit's own counter shows, by unit
  listed,       \* the units there are
  limited,      \* those the walk counts kills in: containers, and with a limit
  store,        \* the readings of the fast and the slow tier in the snapshot store
  total,        \* memory.oom_kills_total in the store
  prev,         \* cgroups.py, _prev: the kills of each unit at the last walk
  prevTotal,    \* _prev_oom
  streak, since,\* Sustain: ticks up to SustainTicks, and age up to Horizon
  findings,     \* the last diagnosis: conditions
  oom,          \* and its findings of OOM kills, in a unit or the machine's
  dropped,      \* conditions it left to a finding of a unit inside
  fineAgo       \* diagnoses since a condition was last read as fine or gone

machine == <<kills, counter, listed, limited>>
doctor == <<prev, prevTotal, streak, since, findings, oom, dropped, fineAgo>>
vars == <<machine, store, total, doctor>>

InUnit(u) == <<"unit_oom", u>>
InMachine == <<"oom_kill", "machine">>
Unseen == -1
UpTo(bound, n) == Min({bound, n})

-----------------------------------------------------------------------------
(* The families of findings: the tier that reads one, and what a diagnosis  *)
(* may read.  Several findings of a family may differ: some always have a   *)
(* value, some have none on a machine or for a moment.                      *)

Family(tier, reads) == [tier |-> tier, reads |-> reads]
Value == {"bad", "fine"}

Stalls == Family("fast", Value \cup {"none"})
Processor == Family("fast", Value \cup {"none"})
Memory == Family("fast", Value \cup {"none"})
Exhaustion == Family("proc", Value)
Throttled == Family("proc", Value \cup {"none", "gone"})     \* none: it did not run
AtLimit == Family("proc", Value \cup {"none", "gone"})       \* none: no limit any more
StalledInside == Family("proc", Value \cup {"none", "gone"})
Array == Family("proc", Value \cup {"gone"})
Interrupts == Family("proc", Value \cup {"gone"})
Ceiling == Family("slow", Value \cup {"gone"})
UnitCeiling == Family("proc", Value \cup {"gone"})           \* the tasks of a unit
TurnedAway == Family("slow", {"bad", "gone"})
Disk == Family("fast", Value \cup {"none"})
Graphics == Family("fast", Value \cup {"none"})
Filling == Family("slow", Value \cup {"none"})               \* none: it is not mounted

Families == [
  psi |-> Stalls, cpu |-> Processor, memory |-> Memory, memory_forecast |-> Exhaustion,
  unit_throttled |-> Throttled, unit_memlimit |-> AtLimit, unit_stalled |-> StalledInside,
  ceiling |-> Ceiling, unit_ceiling |-> UnitCeiling, turned_away |-> TurnedAway, raid |-> Array, softirq |-> Interrupts,
  disk |-> Disk, gpu |-> Graphics, space_forecast |-> Filling]

Reads(c) == Families[c[1]].reads
Of(tier) == {c \in Conditions : Families[c[1]].tier = tier}
Read(tier) == {r \in [Of(tier) -> Value \cup {"none", "gone"}] : \A c \in Of(tier) : r[c] \in Reads(c)}

UnitFamilies == {"unit_throttled", "unit_memlimit", "unit_stalled"}

\* The findings a unit's stall yields to: those of the units inside it.
Below(c) ==
  IF c[1] # "unit_stalled" THEN {}
  ELSE {d \in Conditions : d[1] \in UnitFamilies /\ d[2] \in Inside[c[2]]} 
       \cup {InUnit(u) : u \in Units \cap Inside[c[2]]}

ASSUME LagAssumption ==
  /\ \A c \in Conditions : /\ c[1] \in DOMAIN Families
                           /\ c[1] \in UnitFamilies => c[2] \in DOMAIN Inside
  /\ \A u \in DOMAIN Inside : /\ IsFiniteSet(Inside[u]) /\ u \notin Inside[u]
                              /\ \A v \in Inside[u] \cap DOMAIN Inside : Inside[v] \subseteq Inside[u]
  /\ {SustainTicks, Horizon} \subseteq Nat \ {0} /\ SustainTicks <= Horizon /\ MaxKills \in Nat

-----------------------------------------------------------------------------
(* Faulty variants: the bugs the properties are there to notice.            *)
NeverPruned(c, r) ==
  CASE r = "bad" -> UpTo(SustainTicks, streak[c] + 1) [] r = "fine" -> 0 [] OTHER -> streak[c]
AnyStreak(found) == {c \in Conditions : streak'[c] > 0} \cup oom'
OnceKilled == \E u \in listed \cap limited : counter[u] > 0

-----------------------------------------------------------------------------
(* The machine.                                                             *)

Kill(u) ==
  /\ u \in listed /\ kills < MaxKills
  /\ kills' = kills + 1 /\ counter' = [counter EXCEPT ![u] = @ + 1]
  /\ UNCHANGED <<listed, limited, store, total, doctor>>

KillOutside ==
  /\ kills < MaxKills
  /\ kills' = kills + 1
  /\ UNCHANGED <<counter, listed, limited, store, total, doctor>>

\* A unit ends, its counter with it, or starts.
Turn(u) ==
  /\ listed' = IF u \in listed THEN listed \ {u} ELSE listed \cup {u}
  /\ counter' = [counter EXCEPT ![u] = 0]
  /\ UNCHANGED <<kills, limited, store, total, doctor>>

\* A unit gains or loses its memory limit, and a walk that reads the limits
\* again (every tenth) sees it.
Limit(u) ==
  /\ limited' = IF u \in limited THEN limited \ {u} ELSE limited \cup {u}
  /\ UNCHANGED <<kills, counter, listed, store, total, doctor>>

-----------------------------------------------------------------------------
(* The tiers.  Each runs on a thread of its own and leaves its readings in   *)
(* the snapshot store, where the diagnosis of the proc tier finds them, the  *)
(* same ones again until that tier's next tick.                             *)

With(r) == [c \in DOMAIN store \cup DOMAIN r |-> IF c \in DOMAIN r THEN r[c] ELSE store[c]]

TickFast == \E r \in Read("fast") :
  /\ store' = With(r) /\ total' = kills
  /\ UNCHANGED <<machine, doctor>>

TickSlow == \E r \in Read("slow") :
  /\ store' = With(r)
  /\ UNCHANGED <<machine, total, doctor>>

-----------------------------------------------------------------------------
(* Sustain, with the pruning of keys that are about nothing any more.       *)

Feed(c, r) ==
  CASE r = "bad" -> UpTo(SustainTicks, streak[c] + 1)
    [] r = "none" -> streak[c]
    [] OTHER -> 0

Age(c, r) == IF streak[c] > 0 THEN UpTo(Horizon, since[c] + 1) ELSE 0

Sustained(c) == streak'[c] >= SustainTicks

-----------------------------------------------------------------------------
(* diagnose.                                                                *)

\* The walk counts no kills in a unit that has no limit and is no container,
\* and keeps that as 0.
Counted(u) == IF u \in limited THEN counter[u] ELSE 0

\* oom_kills_new of cgroups.py: nothing on the first walk that lists the unit.
\* A unit that gained a limit tells of every kill it ever had.
NewKills(u) == IF u \in listed /\ prev[u] # Unseen THEN Max({0, Counted(u) - prev[u]}) ELSE 0
Explained == \E u \in Units : NewKills(u) > 0

TellKills ==
  /\ oom' = {InUnit(u) : u \in {v \in Units : NewKills(v) > 0}}
            \cup {k \in {InMachine} : prevTotal # Unseen /\ total > prevTotal /\ ~Explained}
  /\ prevTotal' = total
  /\ prev' = [u \in Units |-> IF u \in listed THEN Counted(u) ELSE Unseen]

\* _unit_findings: a unit's stall is that of a unit inside it which has a finding.
Carrying(found) == found \cup oom'

Diagnose(reading) ==
  LET found == {c \in Conditions : reading[c] = "bad" /\ Sustained(c)} IN
  /\ streak' = [c \in Conditions |-> Feed(c, reading[c])]
  /\ since' = [c \in Conditions |-> IF streak'[c] = 0 THEN 0 ELSE Age(c, reading[c])]
  /\ TellKills
  /\ dropped' = {c \in found : Below(c) \cap Carrying(found) # {}}
  /\ findings' = found \ dropped'
  /\ fineAgo' = [c \in Conditions |-> IF reading[c] \in {"fine", "gone"} THEN 0
                                      ELSE UpTo(Horizon + 1, fineAgo[c] + 1)]

TickProc == \E r \in Read("proc") :
  /\ Diagnose(With(r))
  /\ UNCHANGED <<machine, store, total>>

-----------------------------------------------------------------------------
Init ==
  /\ kills = 0 /\ counter = [u \in Units |-> 0]
  /\ listed = Units /\ limited = Units
  /\ store \in {r \in [Of("fast") \cup Of("slow") -> {"none", "gone"}] :
                  \A c \in DOMAIN r : r[c] = IF "none" \in Reads(c) THEN "none" ELSE "gone"}
  /\ total = Unseen
  /\ prev = [u \in Units |-> Unseen] /\ prevTotal = Unseen
  /\ streak = [c \in Conditions |-> 0] /\ since = streak /\ fineAgo = streak
  /\ findings = {} /\ oom = {} /\ dropped = {}

Next ==
  \/ TickFast \/ TickProc \/ TickSlow
  \/ \E u \in Units : Kill(u) \/ Turn(u) \/ Limit(u)
  \/ KillOutside

Spec == Init /\ [][Next]_vars

-----------------------------------------------------------------------------
(* The variables have their types, and a condition is found only while it   *)
(* is sustained.                                                            *)
TypeOK ==
  /\ kills \in 0..MaxKills /\ counter \in [Units -> 0..MaxKills]
  /\ listed \subseteq Units /\ limited \subseteq Units /\ DOMAIN store = Of("fast") \cup Of("slow")
  /\ total \in Unseen..MaxKills /\ prevTotal \in Unseen..MaxKills
  /\ prev \in [Units -> Unseen..MaxKills]
  /\ streak \in [Conditions -> 0..SustainTicks] /\ since \in [Conditions -> 0..Horizon]
  /\ oom \subseteq {InUnit(u) : u \in Units} \cup {InMachine}
  /\ \A c \in findings : streak[c] = SustainTicks

(* "Since" is the beginning: when a finding is shown, the condition was not  *)
(* read as fine, and what it is about was there, in every diagnosis from     *)
(* then on; where there is always a value, it was not bad just before.       *)
SinceIsBeginning == \A c \in findings :
  /\ since[c] >= SustainTicks - 1
  /\ since[c] < fineAgo[c]
  /\ "none" \notin Reads(c) => since[c] = UpTo(Horizon, fineAgo[c] - 1)

(* The stall of a unit is left out only for a unit inside it that the       *)
(* diagnosis shows.                                                         *)
DroppedForShown == \A c \in dropped : Below(c) \cap (findings \cup oom) # {}

(* A diagnosis shows what is sustained, and leaves nothing out for nothing. *)
DiagnosisIsSound == TypeOK /\ DroppedForShown

(* When the machine's counter of OOM kills rose, the diagnosis that notices  *)
(* tells of a kill: of the machine's, or of a unit's that explains it.      *)
RiseIsTold == [][prevTotal # Unseen /\ prevTotal' > prevTotal => oom' # {}]_vars

(* lag.py:494: when a unit's own counter explains a kill, that finding names *)
(* the unit, and the machine-wide one stays quiet.                          *)
KillIsNotRepeated == [][kills = 1 /\ oom \ {InMachine} # {} => InMachine \notin oom']_vars
=============================================================================
