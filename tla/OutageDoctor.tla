---------------------------- MODULE OutageDoctor ----------------------------
(***************************************************************************)
(* The Outage Doctor of an agent (culprit/collectors/outage.py): what is    *)
(* broken, from the readings of one slow tick after another.  Modelled: the *)
(* failed units and the root they are blamed on, the listeners a running    *)
(* unit lost, the remounts, and since when an item holds.  Certificates,    *)
(* the clock, DNS and what is read off one sample (/boot, storage errors, a *)
(* reboot) are left out.                                                   *)
(*                                                                         *)
(* A reading is what the slow tick collected: any combination, because the  *)
(* collectors read the machine one after the other while it changes.  The   *)
(* walk to the root of a failed unit reads each dependency again, as it is  *)
(* at that moment.                                                         *)
(***************************************************************************)
EXTENDS Integers, Sequences, FiniteSetsExt

CONSTANTS
  AllUnits,    \* units, mounts included
  Hidden,      \* those that are not services: dependencies only, in no list
  Needs,       \* Needs[u]: the units u depends on
  States,      \* States[u]: the states of u that occur; a stopped unit may have a
               \* failed result
  Ports,
  Owner,       \* Owner[p]: the service that holds port p
  Mounts,
  SystemMounts,\* where read-only is an item from the start
  HoldTicks,   \* _LISTENER_HOLD_TICKS
  GoneTicks,   \* _LISTENER_GONE_TICKS
  RootTicks,   \* the 600 s a root is kept, in slow ticks
  StartTicks   \* the 90 s in which an item counts as there from the start

Listed == AllUnits \ Hidden

ASSUME OutageAssumption ==
  /\ Hidden \subseteq AllUnits /\ Needs \in [AllUnits -> SUBSET AllUnits]
  /\ States \in [AllUnits -> SUBSET {"running", "settled", "starting", "failed", "stopped"}]
  /\ Owner \in [Ports -> Listed] /\ SystemMounts \subseteq Mounts
  /\ {HoldTicks, GoneTicks, RootTicks, StartTicks} \subseteq Nat \ {0}

VARIABLES
  ticks,       \* slow ticks since the agent started, up to StartTicks
  failedSeen, failedAge, roots,  \* _failed_seen, the age of _failed_at, _roots
  held, gone,  \* _held and _gone: ticks seen (up to HoldTicks) and missing (up
               \* to GoneTicks), 0 for no entry
  base,        \* _mounts_base, "none" for no entry
  itemSince,   \* _since, by item: from the start or from later on
  items,       \* the items of the last sample
  last,        \* what the last reading said of each port
  proven,      \* ports seen bound HoldTicks readings in a row, and not down since
  inARow,      \* the readings in a row that saw it bound, 0 once it is proven
  beside,      \* units the last walks read as broken and the list had not as failed
  brokenAgo,   \* slow ticks since a unit was read as broken, up to RootTicks + 1, and
               \* of a service not in beside no more than whether it is listed as failed
  wasRw        \* mounts seen writable, and listed ever since

outageVars == <<ticks, failedSeen, failedAge, roots, held, gone, base, itemSince, items,
          last, proven, inARow, beside, brokenAgo, wasRw>>

NoUnit == "-"
AtMost(bound, n) == Min({bound, n})
Item(kind, subject, severity, root) ==
  [kind |-> kind, subject |-> subject, severity |-> severity, root |-> root]
KeyOf(i) == <<i.kind, i.subject>>

-----------------------------------------------------------------------------
(* The readings.                                                            *)

\* The services: systemd's list; where the bus does not answer the running
\* units found in the process cgroups; or nothing.
Anyhow == [Listed -> {"unread"}]
InCgroups(s) == s \in {"running", "settled"}
Services ==
  LET all == {f \in [Listed -> UNION {States[u] : u \in Listed}] : \A u \in Listed : f[u] \in States[u]} IN
  [source : {"systemd"}, state : all]
  \cup [source : {"cgroups"},
        state : {[u \in Listed |-> IF InCgroups(f[u]) THEN "running" ELSE "unread"] : f \in all}]
  \cup [source : {"none"}, state : Anyhow]
\* The ports each service holds, or no reading of them.
Unread == {"unread"}
Volumes == [Mounts -> {"rw", "ro", "missing"}]

In(services, states) == {u \in Listed : services.state[u] \in states}
Failed(services) == In(services, {"failed"})
Running(services) == In(services, {"running", "settled"})

-----------------------------------------------------------------------------
(* Faulty variants: the bugs the properties are there to notice.            *)
HeldOnce(p) == held[p] >= 1
MissedOnce(p) == 1
NeverOld(failed) == failedSeen # failed
BaseKept(volumes) ==
  [m \in Mounts |-> IF base[m] # "none" \/ volumes[m] = "missing" THEN base[m] ELSE volumes[m]]

-----------------------------------------------------------------------------
(* _units: the root of a failed unit is looked for when the failed units    *)
(* change, or after ten minutes.                                            *)

RootsAreOld(failed) == failedSeen # failed \/ failedAge >= RootTicks

\* _root_of: from a failed unit to a dependency that is found failed, or inactive
\* with a failed result, two levels deep; the last one found is the root.
Broken(u) == {d \in Needs[u] \ {u} : States[d] \cap {"failed", "stopped"} # {}}
Walks(u) == {<<>>} \cup {<<d>> : d \in Broken(u)}
              \cup UNION {{<<d, e>> : e \in Broken(d) \ {u}} : d \in Broken(u)}
RootOf(u, walk) == IF walk = <<>> THEN u ELSE walk[Len(walk)]

LooksForRoots(services) == services.source # "none" /\ RootsAreOld(Failed(services))
WalksMade(services) ==
  LET from == IF LooksForRoots(services) THEN Failed(services) ELSE {} IN
  {walk \in [from -> UNION {Walks(u) : u \in from}] : \A u \in from : walk[u] \in Walks(u)}

LookForRoots(services, walk) ==
  IF LooksForRoots(services)
  THEN /\ failedSeen' = Failed(services) /\ failedAge' = 0
       /\ roots' = [u \in Failed(services) |-> RootOf(u, walk[u])]
  ELSE failedAge' = AtMost(RootTicks, failedAge + 1) /\ UNCHANGED <<failedSeen, roots>>

UnitItems(services) ==
  {Item("unit_failed", u, "critical", roots'[u]) : u \in Failed(services)}
  \cup {Item("unit_looping", u, "warn", u) : u \in In(services, {"settled", "starting"})}
  \cup {Item("unit_stopped", u, "warn", u) : u \in In(services, {"stopped"})}

-----------------------------------------------------------------------------
(* _listeners: the ports a unit holds, and those it lost.                   *)

HeldEnough(p) == held[p] >= HoldTicks
Missing(p) == AtMost(GoneTicks, gone[p] + 1)

FollowListeners(services, ports) ==
  IF ports = Unread THEN UNCHANGED <<held, gone>>
  ELSE LET kept(p) == Owner[p] \in Running(services) /\ HeldEnough(p) IN
    /\ held' = [p \in Ports |-> IF p \in ports THEN AtMost(HoldTicks, held[p] + 1)
                               ELSE IF kept(p) THEN held[p] ELSE 0]
    /\ gone' = [p \in Ports |-> IF p \in ports \/ ~kept(p) THEN 0 ELSE Missing(p)]

GoneEnough(p) == gone'[p] >= GoneTicks

ListenerItems(ports) ==
  IF ports = Unread THEN {}
  ELSE {Item("not_listening", p, "warn", Owner[p]) : p \in {q \in Ports : GoneEnough(q)}}

-----------------------------------------------------------------------------
(* _mounts: a mount is compared with what it was when it was first listed.  *)

FirstSeen(volumes) ==
  [m \in Mounts |-> IF volumes[m] = "missing" THEN "none"
                    ELSE IF base[m] = "none" THEN volumes[m] ELSE base[m]]

MountItems(volumes) ==
  LET readonly == {m \in Mounts : volumes[m] = "ro"} IN
  {Item("readonly", m, "critical", NoUnit) : m \in {n \in readonly : base'[n] = "rw"}}
  \cup {Item("readonly", m, "warn", NoUnit) : m \in {n \in readonly \cap SystemMounts : base'[n] = "ro"}}

-----------------------------------------------------------------------------
(* What really was: for the properties.                                     *)

Said(services, ports, p) ==
  IF ports = Unread THEN "unread" ELSE IF p \in ports THEN "bound"
  ELSE IF Owner[p] \in Running(services) THEN "gone" ELSE "down"

FoundBroken(walk) == UNION {Range(walk[u]) : u \in DOMAIN walk}

Witness(services, walk, ports, volumes) ==
  /\ last' = [p \in Ports |-> Said(services, ports, p)]
  /\ proven' = {p \in Ports : last'[p] # "down" /\
       (p \in proven \/ (last'[p] = "bound" /\ inARow[p] + 1 = HoldTicks))}
  /\ inARow' = [p \in Ports |-> IF last'[p] \in {"gone", "down"} \/ p \in proven' THEN 0
                                ELSE IF last'[p] = "bound" THEN inARow[p] + 1 ELSE inARow[p]]
  /\ beside' = IF LooksForRoots(services) THEN FoundBroken(walk) \ Failed(services) ELSE beside
  /\ brokenAgo' = [u \in AllUnits |-> IF u \in Failed(services) \cup FoundBroken(walk) THEN 0
                                   ELSE IF u \in Listed \ beside' THEN 1
                                   ELSE AtMost(RootTicks + 1, brokenAgo[u] + 1)]
  /\ wasRw' = {m \in Mounts : volumes[m] = "rw" \/ (m \in wasRw /\ volumes[m] # "missing")}

-----------------------------------------------------------------------------
(* OutageCollector.sample.                                                  *)

Live == {KeyOf(i) : i \in items'}
Since(key) == IF key \in DOMAIN itemSince THEN itemSince[key]
              ELSE IF ticks < StartTicks THEN "start" ELSE "later"

Sample(services, walk, ports, volumes) ==
  /\ LookForRoots(services, walk) /\ FollowListeners(services, ports)
  /\ base' = FirstSeen(volumes)
  /\ items' = UnitItems(services) \cup ListenerItems(ports) \cup MountItems(volumes)
  /\ itemSince' = [key \in Live |-> Since(key)]
  /\ ticks' = AtMost(StartTicks, ticks + 1)
  /\ Witness(services, walk, ports, volumes)

TickOutage ==
  \E services \in Services, ports \in SUBSET Ports \cup {Unread}, volumes \in Volumes :
    \E walk \in WalksMade(services) : Sample(services, walk, ports, volumes)

OutageInit ==
  /\ ticks = 0 /\ failedSeen = {} /\ failedAge = RootTicks
  /\ roots = [u \in {} |-> NoUnit]
  /\ held = [p \in Ports |-> 0] /\ gone = held
  /\ base = [m \in Mounts |-> "none"]
  /\ items = {} /\ itemSince = [key \in {} |-> "start"]
  /\ last = [p \in Ports |-> "unread"] /\ proven = {} /\ inARow = held
  /\ beside = {} /\ brokenAgo = [u \in AllUnits |-> IF u \in Listed THEN 1 ELSE RootTicks + 1] /\ wasRw = {}

OutageNext == TickOutage

OutageSpec == OutageInit /\ [][OutageNext]_outageVars

-----------------------------------------------------------------------------
Reported(kind, subject) == \E i \in items : KeyOf(i) = <<kind, subject>>
Lost(p) == Reported("not_listening", p)

(* The variables have their types, a port is missed only while it counts as *)
(* held, and every item has its beginning.                                  *)
OutageTypeOK ==
  /\ ticks \in 0..StartTicks
  /\ failedSeen \subseteq Listed /\ failedAge \in 0..RootTicks
  /\ roots \in [failedSeen -> AllUnits]
  /\ held \in [Ports -> 0..HoldTicks] /\ gone \in [Ports -> 0..GoneTicks]
  /\ \A p \in Ports : gone[p] > 0 => HeldEnough(p)
  /\ base \in [Mounts -> {"rw", "ro", "none"}] /\ wasRw \subseteq Mounts
  /\ DOMAIN itemSince = {KeyOf(i) : i \in items}
  /\ proven \subseteq Ports /\ last \in [Ports -> {"bound", "gone", "down", "unread"}]

(* "Running but no longer listens" is said only of a port the unit was seen *)
(* to hold in HoldTicks readings in a row (README.md:680), with its unit     *)
(* running whenever the port was missing since, and missing now.            *)
LostWasHeld == \A p \in Ports : Lost(p) => p \in proven /\ last[p] = "gone"

(* A root that is blamed for the failure of a unit was broken itself.  A    *)
(* service the list had as failed when it was blamed, it has as failed now;  *)
(* a mount, or a service only the walk found broken, was found so within the *)
(* ten minutes a root is kept, since no list shows its recovery.            *)
RootWasFailed == \A i \in items : i.kind = "unit_failed" =>
  brokenAgo[i.root] <= IF i.root \in Listed \ beside THEN 0 ELSE RootTicks

(* Not so of this code, since the walk reads what the list does not show: a  *)
(* service that is blamed is failed in this reading, or found so in it.      *)
RootStillFailed == \A i \in items :
  i.kind = "unit_failed" /\ i.root \in Listed => brokenAgo[i.root] = 0

(* A mount is reported as remounted only if it was seen writable, and was   *)
(* listed ever since: a mount that comes back is another one.               *)
RemountWasWritable == \A m \in Mounts :
  (\E i \in items : KeyOf(i) = <<"readonly", m>> /\ i.severity = "critical") => m \in wasRw

(* What an item says was so, of unit roots and of mounts.                   *)
ItemsAreTrue == OutageTypeOK /\ RootWasFailed /\ RemountWasWritable

(* A port that was held and that two readings in a row find missing under a *)
(* running unit is an item, for as long as readings find it so              *)
(* (_LISTENER_GONE_TICKS is 2).                                             *)
LostIsTold == [][\A p \in Ports :
  p \in proven /\ last[p] = "gone" /\ last'[p] = "gone" => Lost(p)']_outageVars
=============================================================================
