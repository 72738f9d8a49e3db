---------------------------- MODULE DoctorProofs ----------------------------
(***************************************************************************)
(* What the two doctors of an agent promise, each by an invariant that ties *)
(* what it counts to what the readings said, whatever the readings.         *)
(*                                                                         *)
(* OutageDoctor, for any units, dependencies, ports, mounts and thresholds: *)
(* the ticks of a port follow its readings in a row, the base of a mount    *)
(* its having been writable, the age of a root the time since it was broken.*)
(*                                                                         *)
(* LagDoctor, for any conditions, units and thresholds: a streak is no      *)
(* longer than the time since the condition was last read as fine, and      *)
(* "since" counts that time.                                                *)
(***************************************************************************)
EXTENDS OutageDoctor, LagDoctor, FiniteSetTheorems, WellFoundedInduction, TLAPS

-----------------------------------------------------------------------------
(* The Outage Doctor.                                                       *)

HeldIsSeen == \A p \in Ports :
  /\ p \in proven => held[p] = HoldTicks
  /\ p \notin proven => held[p] = inARow[p] /\ inARow[p] \in 0..(HoldTicks - 1)
GoneIsCounted == \A p \in Ports : p \in proven /\ last[p] = "gone" => gone[p] >= 1
BaseIsSeen == \A m \in Mounts : base[m] = "rw" => m \in wasRw
RootsAreRecent == \A u \in failedSeen :
  IF roots[u] \in Listed \ beside THEN roots[u] \in failedSeen
  ELSE failedAge < RootTicks => brokenAgo[roots[u]] <= failedAge

OutageInv ==
  /\ OutageTypeOK /\ brokenAgo \in [AllUnits -> Nat]
  /\ HeldIsSeen /\ GoneIsCounted /\ BaseIsSeen /\ RootsAreRecent

Seen(services, walk, ports, volumes) ==
  /\ services \in Services /\ walk \in WalksMade(services)
  /\ ports \in SUBSET Ports \cup {Unread}
  /\ volumes \in Volumes
  /\ Sample(services, walk, ports, volumes)

-----------------------------------------------------------------------------
LEMMA AtMostIs ==
  ASSUME NEW bound \in Int, NEW n \in Int
  PROVE  AtMost(bound, n) = IF n <= bound THEN n ELSE bound
<1>1. \E x \in {bound, n} : \A y \in {bound, n} : x <= y
  OBVIOUS
<1>2. Min({bound, n}) \in {bound, n} /\ \A y \in {bound, n} : Min({bound, n}) <= y
  BY <1>1 DEF Min
<1> QED
  BY <1>2 DEF AtMost

(* A root is the failed unit itself, or was found broken on the walk.        *)
LEMMA RootIsFound ==
  ASSUME NEW u \in AllUnits, NEW w \in Walks(u)
  PROVE  RootOf(u, w) \in {u} \cup Range(w) /\ Range(w) \subseteq AllUnits
<1>1. Broken(u) \subseteq AllUnits /\ \A d \in Broken(u) : Broken(d) \subseteq AllUnits
  BY OutageAssumption DEF Broken
<1>2. CASE w = <<>>
  BY <1>2 DEF RootOf, Range
<1>3. ASSUME NEW d \in Broken(u), w = <<d>> PROVE RootOf(u, w) = d /\ Range(w) = {d}
  BY <1>3 DEF RootOf, Range
<1>4. ASSUME NEW d \in Broken(u), NEW e \in Broken(d), w = <<d, e>>
      PROVE  RootOf(u, w) = e /\ Range(w) = {d, e}
  BY <1>4 DEF RootOf, Range
<1> QED
  BY <1>1, <1>2, <1>3, <1>4 DEF Walks

LEMMA ServiceStates ==
  ASSUME NEW services \in Services
  PROVE  /\ services.source \in {"systemd", "cgroups", "none"}
         /\ services.source = "none" => Failed(services) = {}
  BY DEF Services, Anyhow, Failed, In, Listed

-----------------------------------------------------------------------------
(* The ports.                                                               *)
LEMMA PortsCounted ==
  ASSUME OutageInv, NEW services \in Services, NEW ports \in SUBSET Ports \cup {Unread}, NEW volumes \in Volumes,
         NEW walk, FollowListeners(services, ports), Witness(services, walk, ports, volumes)
  PROVE  /\ held' \in [Ports -> 0..HoldTicks] /\ gone' \in [Ports -> 0..GoneTicks]
         /\ proven' \subseteq Ports /\ last' \in [Ports -> {"bound", "gone", "down", "unread"}]
         /\ \A p \in Ports : gone'[p] > 0 => held'[p] >= HoldTicks
         /\ HeldIsSeen' /\ GoneIsCounted'
<1>1. HoldTicks \in Nat \ {0} /\ GoneTicks \in Nat \ {0}
  BY OutageAssumption
<1>2. \A n \in Int : AtMost(HoldTicks, n) = IF n <= HoldTicks THEN n ELSE HoldTicks
  BY <1>1, AtMostIs
<1>3. \A n \in Int : AtMost(GoneTicks, n) = IF n <= GoneTicks THEN n ELSE GoneTicks
  BY <1>1, AtMostIs
<1>4. \A p \in Ports : held[p] \in 0..HoldTicks /\ gone[p] \in 0..GoneTicks
  BY DEF OutageInv, OutageTypeOK
<1>5. CASE ports = Unread
  BY <1>1, <1>5 DEF OutageInv, OutageTypeOK, HeldIsSeen, GoneIsCounted, FollowListeners, Witness, Said, HeldEnough
<1>6. CASE ports # Unread
  <2> SUFFICES ASSUME NEW p \in Ports
               PROVE  /\ held'[p] \in 0..HoldTicks /\ gone'[p] \in 0..GoneTicks
                      /\ gone'[p] > 0 => held'[p] >= HoldTicks
                      /\ p \in proven' => held'[p] = HoldTicks
                      /\ p \notin proven' => held'[p] = inARow'[p] /\ inARow'[p] \in 0..(HoldTicks - 1)
                      /\ p \in proven' /\ last'[p] = "gone" => gone'[p] >= 1
    BY <1>6 DEF FollowListeners, Witness, Said, HeldIsSeen, GoneIsCounted
  <2> DEFINE running == Owner[p] \in Running(services)
  <2>1. held'[p] = IF p \in ports THEN AtMost(HoldTicks, held[p] + 1)
                   ELSE IF running /\ HeldEnough(p) THEN held[p] ELSE 0
    BY <1>6 DEF FollowListeners
  <2>2. gone'[p] = IF p \in ports \/ ~(running /\ HeldEnough(p)) THEN 0 ELSE Missing(p)
    BY <1>6 DEF FollowListeners
  <2>3. last'[p] = IF p \in ports THEN "bound" ELSE IF running THEN "gone" ELSE "down"
    BY <1>6 DEF Witness, Said
  <2>4. p \in proven' <=> last'[p] # "down" /\ (p \in proven \/ (last'[p] = "bound" /\ inARow[p] + 1 = HoldTicks))
    BY DEF Witness
  <2>5. inARow'[p] = IF last'[p] \in {"gone", "down"} \/ p \in proven' THEN 0
                  ELSE IF last'[p] = "bound" THEN inARow[p] + 1 ELSE inARow[p]
    BY DEF Witness
  <2>6. /\ p \in proven => held[p] = HoldTicks
        /\ p \notin proven => held[p] = inARow[p] /\ inARow[p] \in 0..(HoldTicks - 1)
    BY DEF OutageInv, HeldIsSeen
  <2> HIDE DEF running
  <2>7. CASE p \in ports
    BY <1>1, <1>2, <1>4, <2>1, <2>2, <2>3, <2>4, <2>5, <2>6, <2>7
  <2>8. CASE p \notin ports /\ running
    BY <1>1, <1>3, <1>4, <2>1, <2>2, <2>3, <2>4, <2>5, <2>6, <2>8 DEF HeldEnough, Missing
  <2>9. CASE p \notin ports /\ ~running
    BY <1>1, <1>4, <2>1, <2>2, <2>3, <2>4, <2>5, <2>6, <2>9
  <2> QED
    BY <2>7, <2>8, <2>9
<1> QED
  BY <1>5, <1>6

-----------------------------------------------------------------------------
(* The roots.                                                               *)
LEMMA RootsFound ==
  ASSUME OutageInv, NEW services \in Services, NEW walk \in WalksMade(services), NEW ports, NEW volumes,
         LookForRoots(services, walk), Witness(services, walk, ports, volumes)
  PROVE  /\ failedSeen' \subseteq Listed /\ failedAge' \in 0..RootTicks
         /\ roots' \in [failedSeen' -> AllUnits] /\ brokenAgo' \in [AllUnits -> Nat]
         /\ RootsAreRecent'
         /\ \A u \in Failed(services) :
              brokenAgo'[roots'[u]] <= IF roots'[u] \in Listed \ beside' THEN 0 ELSE RootTicks
<1> DEFINE failed == Failed(services)
           found == FoundBroken(walk)
<1>1. RootTicks \in Nat \ {0} /\ failedAge \in 0..RootTicks
  BY OutageAssumption DEF OutageInv, OutageTypeOK
<1>2. \A n \in Int : AtMost(RootTicks, n) = IF n <= RootTicks THEN n ELSE RootTicks
  BY <1>1, AtMostIs
<1>3. \A n \in Int : AtMost(RootTicks + 1, n) = IF n <= RootTicks + 1 THEN n ELSE RootTicks + 1
  BY <1>1, AtMostIs
<1>4. brokenAgo' \in [AllUnits -> Nat]
  BY <1>1, <1>3 DEF Witness, OutageInv
<1>5. \A u \in AllUnits : brokenAgo'[u] = IF u \in failed \cup found THEN 0
                                       ELSE IF u \in Listed \ beside' THEN 1
                                       ELSE AtMost(RootTicks + 1, brokenAgo[u] + 1)
  BY DEF Witness
<1>6. failed \subseteq Listed /\ Listed \subseteq AllUnits
  BY DEF Failed, In, Listed
<1>7. CASE LooksForRoots(services)
  <2>1. /\ failedSeen' = failed /\ failedAge' = 0
        /\ roots' = [u \in failed |-> RootOf(u, walk[u])] /\ beside' = found \ failed
    BY <1>7 DEF LookForRoots, Witness
  <2>2. DOMAIN walk = failed /\ \A u \in failed : walk[u] \in Walks(u)
    BY <1>7 DEF WalksMade
  <2>3. ASSUME NEW u \in failed PROVE roots'[u] \in failed \cup found /\ roots'[u] \in AllUnits
    <3>1. u \in AllUnits /\ walk[u] \in Walks(u)
      BY <1>6, <2>2
    <3>2. RootOf(u, walk[u]) \in {u} \cup Range(walk[u]) /\ Range(walk[u]) \subseteq AllUnits
      BY <3>1, RootIsFound
    <3>3. Range(walk[u]) \subseteq found
      BY <2>2 DEF FoundBroken
    <3> QED
      BY <2>1, <3>1, <3>2, <3>3
  <2>4. roots' \in [failed -> AllUnits]
    BY <2>1, <2>3
  <2>5. \A u \in failed : brokenAgo'[roots'[u]] = 0
    BY <1>5, <2>3
  <2> HIDE DEF failed, found
  <2>6. RootsAreRecent'
    BY <2>1, <2>3, <2>5 DEF RootsAreRecent
  <2>7. \A u \in failed : brokenAgo'[roots'[u]] <= IF roots'[u] \in Listed \ beside' THEN 0 ELSE RootTicks
    BY <1>1, <2>5
  <2> QED
    BY <1>1, <1>4, <1>6, <2>1, <2>4, <2>6, <2>7 DEF failed
<1>8. CASE ~LooksForRoots(services)
  <2>1. /\ failedAge' = AtMost(RootTicks, failedAge + 1) /\ failedSeen' = failedSeen /\ roots' = roots
        /\ beside' = beside
    BY <1>8 DEF LookForRoots, Witness
  <2>2. failedAge' = IF failedAge + 1 <= RootTicks THEN failedAge + 1 ELSE RootTicks
    BY <1>1, <1>2, <2>1
  <2>3. roots \in [failedSeen -> AllUnits] /\ failedSeen \subseteq Listed
    BY DEF OutageInv, OutageTypeOK
  <2>4. ASSUME NEW u \in failedSeen, roots[u] \notin Listed \ beside, failedAge < RootTicks
        PROVE  brokenAgo'[roots[u]] <= failedAge + 1
    <3>1. brokenAgo[roots[u]] <= failedAge /\ brokenAgo[roots[u]] \in Nat /\ roots[u] \in AllUnits
      BY <2>3, <2>4 DEF OutageInv, RootsAreRecent
    <3> HIDE DEF failed, found
    <3> QED
      BY <1>1, <1>3, <1>5, <2>1, <2>4, <3>1
  <2>5. RootsAreRecent'
    <3> SUFFICES ASSUME NEW u \in failedSeen
                 PROVE  IF roots[u] \in Listed \ beside THEN roots[u] \in failedSeen
                        ELSE failedAge' < RootTicks => brokenAgo'[roots[u]] <= failedAge'
      BY <2>1 DEF RootsAreRecent
    <3> QED
      BY <1>1, <2>2, <2>4 DEF OutageInv, RootsAreRecent
  <2>6. ASSUME NEW u \in failed
        PROVE  brokenAgo'[roots'[u]] <= IF roots'[u] \in Listed \ beside' THEN 0 ELSE RootTicks
    <3>1. services.source # "none" /\ failedSeen = failed /\ failedAge < RootTicks
      BY <1>1, <1>8, <2>6, ServiceStates DEF LooksForRoots, RootsAreOld
    <3>2. CASE roots[u] \in Listed \ beside
      <4>1. roots[u] \in failed
        BY <3>1, <3>2 DEF OutageInv, RootsAreRecent
      <4> QED
        BY <1>5, <1>6, <2>1, <3>2, <4>1
    <3>3. CASE roots[u] \notin Listed \ beside
      <4>1. brokenAgo'[roots[u]] <= failedAge + 1 /\ roots[u] \in AllUnits
        BY <2>3, <2>4, <3>1, <3>3
      <4> QED
        BY <1>1, <1>4, <2>1, <3>1, <3>3, <4>1
    <3> QED
      BY <3>2, <3>3
  <2> HIDE DEF failed
  <2> QED
    BY <1>1, <1>4, <2>1, <2>2, <2>3, <2>5, <2>6 DEF failed
<1> QED
  BY <1>7, <1>8

-----------------------------------------------------------------------------
(* The mounts.                                                              *)
LEMMA MountsCompared ==
  ASSUME OutageInv, NEW services, NEW walk, NEW ports, NEW volumes \in Volumes,
         base' = FirstSeen(volumes), Witness(services, walk, ports, volumes)
  PROVE  base' \in [Mounts -> {"rw", "ro", "none"}] /\ wasRw' \subseteq Mounts /\ BaseIsSeen'
<1>1. \A m \in Mounts : volumes[m] \in {"rw", "ro", "missing"} /\ base[m] \in {"rw", "ro", "none"}
  BY DEF Volumes, OutageInv, OutageTypeOK
<1>2. base' \in [Mounts -> {"rw", "ro", "none"}]
  BY <1>1 DEF FirstSeen
<1>3. ASSUME NEW m \in Mounts, base'[m] = "rw" PROVE m \in wasRw'
  BY <1>1, <1>3 DEF FirstSeen, Witness, OutageInv, BaseIsSeen
<1> QED
  BY <1>2, <1>3 DEF Witness, BaseIsSeen

-----------------------------------------------------------------------------
(* What an item of each kind comes from.                                    *)
LEMMA ItemsAreOfKind ==
  ASSUME NEW services, NEW ports, NEW volumes, NEW i \in items',
         items' = UnitItems(services) \cup ListenerItems(ports) \cup MountItems(volumes)
  PROVE  /\ i.kind = "unit_failed" => i.subject \in Failed(services) /\ i.root = roots'[i.subject]
         /\ i.kind = "not_listening" => ports # Unread /\ i.subject \in Ports /\ GoneEnough(i.subject)
         /\ i.kind = "readonly" /\ i.severity = "critical" => i.subject \in Mounts /\ base'[i.subject] = "rw"
<1>1. CASE i \in UnitItems(services)
  BY <1>1 DEF UnitItems, Item
<1>2. CASE i \in ListenerItems(ports)
  BY <1>2 DEF ListenerItems, Item
<1>3. CASE i \in MountItems(volumes)
  BY <1>3 DEF MountItems, Item
<1> QED
  BY <1>1, <1>2, <1>3

LEMMA SampleKeeps ==
  ASSUME OutageInv, NEW services, NEW walk, NEW ports, NEW volumes, Seen(services, walk, ports, volumes)
  PROVE  OutageInv' /\ LostWasHeld' /\ RootWasFailed' /\ RemountWasWritable'
         /\ \A i \in items' : i.kind = "unit_failed" => i.subject \in Failed(services)
<1>1. /\ LookForRoots(services, walk) /\ FollowListeners(services, ports) /\ base' = FirstSeen(volumes)
      /\ items' = UnitItems(services) \cup ListenerItems(ports) \cup MountItems(volumes)
      /\ Witness(services, walk, ports, volumes)
  BY DEF Seen, Sample
<1>2. services \in Services /\ walk \in WalksMade(services) /\ ports \in SUBSET Ports \cup {Unread} /\ volumes \in Volumes
  BY DEF Seen
<1>3. /\ held' \in [Ports -> 0..HoldTicks] /\ gone' \in [Ports -> 0..GoneTicks]
      /\ proven' \subseteq Ports /\ last' \in [Ports -> {"bound", "gone", "down", "unread"}]
      /\ \A p \in Ports : gone'[p] > 0 => held'[p] >= HoldTicks
      /\ HeldIsSeen' /\ GoneIsCounted'
  BY <1>1, <1>2, PortsCounted
<1>4. /\ failedSeen' \subseteq Listed /\ failedAge' \in 0..RootTicks
      /\ roots' \in [failedSeen' -> AllUnits] /\ brokenAgo' \in [AllUnits -> Nat]
      /\ RootsAreRecent'
      /\ \A u \in Failed(services) :
           brokenAgo'[roots'[u]] <= IF roots'[u] \in Listed \ beside' THEN 0 ELSE RootTicks
  BY <1>1, <1>2, RootsFound
<1>5. base' \in [Mounts -> {"rw", "ro", "none"}] /\ wasRw' \subseteq Mounts /\ BaseIsSeen'
  BY <1>1, <1>2, MountsCompared
<1>6. ticks' \in 0..StartTicks
  <2>1. ticks \in 0..StartTicks /\ StartTicks \in Nat /\ ticks' = AtMost(StartTicks, ticks + 1)
    BY OutageAssumption DEF OutageInv, OutageTypeOK, Seen, Sample
  <2> QED
    BY <2>1, AtMostIs
<1>7. DOMAIN itemSince' = {KeyOf(i) : i \in items'}
  BY DEF Seen, Sample, Live
<1>8. OutageTypeOK'
  BY <1>3, <1>4, <1>5, <1>6, <1>7 DEF OutageTypeOK, HeldEnough
<1>9. LostWasHeld'
  <2> SUFFICES ASSUME NEW p \in Ports, NEW i \in items', KeyOf(i) = <<"not_listening", p>>
               PROVE  p \in proven' /\ last'[p] = "gone"
    BY DEF LostWasHeld, Lost, Reported
  <2>1. i.kind = "not_listening" /\ i.subject = p
    BY DEF KeyOf
  <2>2. ports # Unread /\ gone'[p] >= GoneTicks
    BY <1>1, <2>1, ItemsAreOfKind DEF GoneEnough
  <2>3. GoneTicks \in Nat \ {0} /\ HoldTicks \in Nat \ {0}
    BY OutageAssumption
  <2>4. p \notin ports /\ Owner[p] \in Running(services) /\ HeldEnough(p)
    BY <1>1, <2>2, <2>3 DEF FollowListeners
  <2>5. p \in proven
    BY <2>3, <2>4 DEF OutageInv, HeldIsSeen, HeldEnough
  <2>6. last'[p] = "gone"
    BY <1>1, <2>2, <2>4 DEF Witness, Said
  <2> QED
    BY <1>1, <2>5, <2>6 DEF Witness
<1>10. \A i \in items' : i.kind = "unit_failed" => i.subject \in Failed(services) /\ i.root = roots'[i.subject]
  BY <1>1, ItemsAreOfKind
<1>11. RootWasFailed'
  BY <1>4, <1>10 DEF RootWasFailed
<1>12. RemountWasWritable'
  <2> SUFFICES ASSUME NEW m \in Mounts, NEW i \in items',
                      KeyOf(i) = <<"readonly", m>>, i.severity = "critical"
               PROVE  m \in wasRw'
    BY DEF RemountWasWritable
  <2>1. i.kind = "readonly" /\ i.subject = m
    BY DEF KeyOf
  <2>2. base'[m] = "rw"
    BY <1>1, <2>1, ItemsAreOfKind
  <2> QED
    BY <1>5, <2>2 DEF BaseIsSeen
<1> QED
  BY <1>3, <1>4, <1>5, <1>8, <1>9, <1>10, <1>11, <1>12 DEF OutageInv

LEMMA NextIsSample ==
  ASSUME OutageNext
  PROVE  \E services, walk, ports, volumes : Seen(services, walk, ports, volumes)
  BY DEF OutageNext, TickOutage, Seen

-----------------------------------------------------------------------------
(* The invariant, with the properties it is proved together with.           *)
OutageSafe == OutageInv /\ LostWasHeld /\ RootWasFailed /\ RemountWasWritable

(* They hold in every reading, of whatever quality it is.                   *)
THEOREM OutageInvariant == OutageSpec => []OutageSafe
<1>1. OutageInit => OutageSafe
  <2> SUFFICES ASSUME OutageInit PROVE OutageSafe
    OBVIOUS
  <2>1. /\ HoldTicks \in Nat \ {0} /\ GoneTicks \in Nat \ {0} /\ RootTicks \in Nat \ {0}
        /\ StartTicks \in Nat \ {0}
    BY OutageAssumption
  <2>2. OutageTypeOK
    BY <2>1 DEF OutageInit, OutageTypeOK, HeldEnough
  <2>3. HeldIsSeen /\ GoneIsCounted /\ BaseIsSeen /\ RootsAreRecent /\ brokenAgo \in [AllUnits -> Nat]
    BY <2>1 DEF OutageInit, HeldIsSeen, GoneIsCounted, BaseIsSeen, RootsAreRecent
  <2>4. LostWasHeld /\ RootWasFailed /\ RemountWasWritable
    BY DEF OutageInit, LostWasHeld, Lost, Reported, RootWasFailed, RemountWasWritable
  <2> QED
    BY <2>2, <2>3, <2>4 DEF OutageSafe, OutageInv
<1>2. OutageSafe /\ [OutageNext]_outageVars => OutageSafe'
  <2> SUFFICES ASSUME OutageSafe, [OutageNext]_outageVars PROVE OutageSafe'
    OBVIOUS
  <2>1. CASE OutageNext
    BY <2>1, NextIsSample, SampleKeeps DEF OutageSafe
  <2>2. CASE UNCHANGED outageVars
    BY <2>2 DEF outageVars, OutageSafe, OutageInv, OutageTypeOK, HeldEnough, HeldIsSeen, GoneIsCounted, BaseIsSeen, RootsAreRecent,
                LostWasHeld, Lost, Reported, RootWasFailed, RemountWasWritable
  <2> QED
    BY <2>1, <2>2
<1> QED
  BY <1>1, <1>2, PTL DEF OutageSpec

(* "Running but no longer listens" is said only of a port that was held for *)
(* as many readings as it takes, and is missing under a running unit.       *)
THEOREM LostPortWasHeld == OutageSpec => []LostWasHeld
<1>1. OutageSafe => LostWasHeld
  BY DEF OutageSafe
<1> QED
  BY <1>1, OutageInvariant, PTL

(* The root blamed for a failure was broken: listed as failed now, or found  *)
(* so by a walk of the last ten minutes; and a mount called remounted was    *)
(* writable and there ever since.                                          *)
THEOREM ItemsTrue == OutageSpec => []ItemsAreTrue
<1>1. OutageSafe => ItemsAreTrue
  BY DEF OutageSafe, OutageInv, ItemsAreTrue
<1> QED
  BY <1>1, OutageInvariant, PTL

(* With the code's two ticks, or one, a port that was held and is missing   *)
(* under a running unit in two readings is an item.                         *)
THEOREM LostPortIsTold ==
  ASSUME GoneTicks <= 2
  PROVE  OutageSpec => LostIsTold
<1> DEFINE Told == \A p \in Ports :
             p \in proven /\ last[p] = "gone" /\ last'[p] = "gone" => Lost(p)'
<1>1. OutageSafe /\ [OutageNext]_outageVars => [Told]_outageVars
  <2> SUFFICES ASSUME OutageInv, NEW services, NEW walk, NEW ports, NEW volumes,
                      Seen(services, walk, ports, volumes),
                      NEW p \in Ports, p \in proven, last[p] = "gone", last'[p] = "gone"
               PROVE  Lost(p)'
    BY NextIsSample DEF OutageSafe
  <2>1. /\ FollowListeners(services, ports) /\ Witness(services, walk, ports, volumes)
        /\ ListenerItems(ports) \subseteq items'
    BY DEF Seen, Sample
  <2>2. ports # Unread /\ p \notin ports /\ Owner[p] \in Running(services)
    BY <2>1 DEF Witness, Said
  <2>3. HeldEnough(p) /\ gone[p] >= 1 /\ gone[p] \in 0..GoneTicks /\ GoneTicks \in Nat \ {0}
    BY OutageAssumption DEF OutageInv, OutageTypeOK, HeldIsSeen, GoneIsCounted, HeldEnough
  <2>4. gone'[p] = AtMost(GoneTicks, gone[p] + 1)
    BY <2>1, <2>2, <2>3 DEF FollowListeners, Missing
  <2>5. GoneEnough(p)
    BY <2>3, <2>4, AtMostIs DEF GoneEnough
  <2>6. Item("not_listening", p, "warn", Owner[p]) \in items'
    BY <2>1, <2>2, <2>5 DEF ListenerItems
  <2> QED
    BY <2>6 DEF Lost, Reported, KeyOf, Item
<1> HIDE DEF Told
<1>2. OutageSpec => [][Told]_outageVars
  BY <1>1, OutageInvariant, PTL DEF OutageSpec
<1> QED
  BY <1>2 DEF LostIsTold, Told

-----------------------------------------------------------------------------
(* The Lag Doctor.                                                          *)

Stored == Of("fast") \cup Of("slow")

KillsBounded == \A u \in Units : counter[u] <= kills
StoreIsRead == DOMAIN store = Stored /\ \A c \in Stored : store[c] \in Reads(c)
StreakIsRecent == \A c \in Conditions :
  /\ streak[c] > 0 => since[c] < fineAgo[c] /\ since[c] >= streak[c] - 1
  /\ "none" \notin Reads(c) =>
       IF streak[c] = 0 THEN fineAgo[c] = 0 ELSE since[c] = UpTo(Horizon, fineAgo[c] - 1)

IInv ==
  /\ TypeOK /\ fineAgo \in [Conditions -> 0..(Horizon + 1)] /\ findings \subseteq Conditions
  /\ KillsBounded /\ StoreIsRead /\ StreakIsRecent

-----------------------------------------------------------------------------
LEMMA Bounds ==
  /\ SustainTicks \in Nat \ {0} /\ Horizon \in Nat \ {0} /\ SustainTicks <= Horizon /\ MaxKills \in Nat
  BY LagAssumption

LEMMA UpToIs ==
  ASSUME NEW bound \in Int, NEW n \in Int
  PROVE  UpTo(bound, n) = IF n <= bound THEN n ELSE bound
<1>1. \E x \in {bound, n} : \A y \in {bound, n} : x <= y
  OBVIOUS
<1>2. Min({bound, n}) \in {bound, n} /\ \A y \in {bound, n} : Min({bound, n}) <= y
  BY <1>1 DEF Min
<1> QED
  BY <1>2 DEF UpTo

(* Every condition is read by one tier; a reading with nothing to say has   *)
(* no value or says that there is nothing to read.                          *)
LEMMA Tiers ==
  /\ \A c \in Conditions : c \in Of("fast") \/ c \in Of("proc") \/ c \in Of("slow")
  /\ \A c \in Of("proc") : c \notin Stored
  /\ \A c \in Stored : "none" \in Reads(c) \/ "gone" \in Reads(c)
  /\ Stored \subseteq Conditions
<1>1. \A f \in DOMAIN Families : /\ Families[f].tier \in {"fast", "proc", "slow"}
                                 /\ Families[f].tier # "proc" => "none" \in Families[f].reads \/ "gone" \in Families[f].reads
  BY DEF Families, Family, Stalls, Processor, Memory, Exhaustion, Throttled, AtLimit, StalledInside, Array,
         Interrupts, Ceiling, UnitCeiling, TurnedAway, Disk, Graphics, Filling, Value
<1>2. \A c \in Conditions : c[1] \in DOMAIN Families
  BY LagAssumption
<1> QED
  BY <1>1, <1>2 DEF Of, Stored, Reads

(* What a tier leaves in the store is what it may read.                     *)
LEMMA StoreOver ==
  ASSUME IInv, NEW tier \in {"fast", "slow"}, NEW r \in Read(tier), store' = With(r)
  PROVE  StoreIsRead'
<1>1. DOMAIN store = Stored /\ Of(tier) \subseteq Stored
  BY DEF IInv, StoreIsRead, Stored
<1>2. DOMAIN r = Of(tier) /\ \A c \in Of(tier) : r[c] \in Reads(c)
  BY DEF Read
<1>3. \A c \in Stored : store'[c] = IF c \in Of(tier) THEN r[c] ELSE store[c]
  BY <1>1, <1>2 DEF With
<1>4. DOMAIN store' = Stored
  BY <1>1, <1>2 DEF With
<1> QED
  BY <1>2, <1>3, <1>4 DEF IInv, StoreIsRead

(* What a diagnosis reads of each condition.                                *)
LEMMA ReadingIsRead ==
  ASSUME IInv, NEW r \in Read("proc")
  PROVE  \A c \in Conditions : With(r)[c] \in Reads(c)
<1>1. DOMAIN store = Stored /\ \A c \in Stored : store[c] \in Reads(c)
  BY DEF IInv, StoreIsRead
<1>2. DOMAIN r = Of("proc") /\ \A c \in Of("proc") : r[c] \in Reads(c)
  BY DEF Read
<1>3. \A c \in Conditions : c \in Stored \cup Of("proc")
  BY Tiers DEF Stored
<1> QED
  BY <1>1, <1>2, <1>3 DEF With

-----------------------------------------------------------------------------
(* Sustain: one condition in one diagnosis.                                 *)
LEMMA Sustaining ==
  ASSUME IInv, NEW c \in Conditions, NEW reading, reading[c] \in Reads(c),
         streak'[c] = Feed(c, reading[c]),
         since'[c] = IF streak'[c] = 0 THEN 0 ELSE Age(c, reading[c]),
         fineAgo'[c] = IF reading[c] \in {"fine", "gone"} THEN 0 ELSE UpTo(Horizon + 1, fineAgo[c] + 1)
  PROVE  /\ streak'[c] \in 0..SustainTicks /\ since'[c] \in 0..Horizon /\ fineAgo'[c] \in 0..(Horizon + 1)
         /\ streak'[c] > 0 => since'[c] < fineAgo'[c] /\ since'[c] >= streak'[c] - 1
         /\ "none" \notin Reads(c) =>
              IF streak'[c] = 0 THEN fineAgo'[c] = 0 ELSE since'[c] = UpTo(Horizon, fineAgo'[c] - 1)
<1>1. /\ streak[c] \in 0..SustainTicks /\ since[c] \in 0..Horizon /\ fineAgo[c] \in 0..(Horizon + 1)
      /\ streak[c] > 0 => since[c] < fineAgo[c] /\ since[c] >= streak[c] - 1
      /\ "none" \notin Reads(c) =>
           IF streak[c] = 0 THEN fineAgo[c] = 0 ELSE since[c] = UpTo(Horizon, fineAgo[c] - 1)
  BY DEF IInv, TypeOK, StreakIsRecent
<1>2. SustainTicks \in Nat \ {0} /\ Horizon \in Nat \ {0} /\ SustainTicks <= Horizon
  BY Bounds
<1>3. \A n \in Int : UpTo(SustainTicks, n) = IF n <= SustainTicks THEN n ELSE SustainTicks
  BY <1>2, UpToIs
<1>4. \A n \in Int : UpTo(Horizon, n) = IF n <= Horizon THEN n ELSE Horizon
  BY <1>2, UpToIs
<1>5. \A n \in Int : UpTo(Horizon + 1, n) = IF n <= Horizon + 1 THEN n ELSE Horizon + 1
  BY <1>2, UpToIs
<1>6. CASE reading[c] = "bad"
  <2>1. streak'[c] = UpTo(SustainTicks, streak[c] + 1) /\ fineAgo'[c] = UpTo(Horizon + 1, fineAgo[c] + 1)
    BY <1>6 DEF Feed
  <2>2. streak'[c] = (IF streak[c] + 1 <= SustainTicks THEN streak[c] + 1 ELSE SustainTicks) /\ streak'[c] > 0
    BY <1>1, <1>2, <1>3, <2>1
  <2>3. fineAgo'[c] = IF fineAgo[c] + 1 <= Horizon + 1 THEN fineAgo[c] + 1 ELSE Horizon + 1
    BY <1>1, <1>2, <1>5, <2>1
  <2>4. since'[c] = IF streak[c] > 0 THEN (IF since[c] + 1 <= Horizon THEN since[c] + 1 ELSE Horizon) ELSE 0
    BY <1>1, <1>2, <1>4, <2>2 DEF Age
  <2>5. UpTo(Horizon, fineAgo'[c] - 1) = fineAgo'[c] - 1
    BY <1>1, <1>2, <1>4, <2>3
  <2>6. "none" \notin Reads(c) /\ streak[c] > 0 => since[c] = IF fineAgo[c] - 1 <= Horizon THEN fineAgo[c] - 1 ELSE Horizon
    BY <1>1, <1>2, <1>4
  <2> QED
    BY <1>1, <1>2, <2>2, <2>3, <2>4, <2>5, <2>6
<1>7. CASE reading[c] = "none"
  <2>1. streak'[c] = streak[c] /\ fineAgo'[c] = UpTo(Horizon + 1, fineAgo[c] + 1) /\ "none" \in Reads(c)
    BY <1>7 DEF Feed
  <2>2. fineAgo'[c] = IF fineAgo[c] + 1 <= Horizon + 1 THEN fineAgo[c] + 1 ELSE Horizon + 1
    BY <1>1, <1>2, <1>5, <2>1
  <2>3. since'[c] = IF streak[c] > 0 THEN (IF since[c] + 1 <= Horizon THEN since[c] + 1 ELSE Horizon) ELSE 0
    BY <1>1, <1>2, <1>4, <2>1 DEF Age
  <2> QED
    BY <1>1, <1>2, <2>1, <2>2, <2>3
<1>8. CASE reading[c] \notin {"bad", "none"}
  <2>1. reading[c] \in {"fine", "gone"}
    <3>1. c[1] \in DOMAIN Families
      BY LagAssumption
    <3>2. Reads(c) \subseteq {"bad", "fine", "none", "gone"}
      BY <3>1 DEF Reads, Families, Family, Stalls, Processor, Memory, Exhaustion, Throttled, AtLimit,
                  StalledInside, Array, Interrupts, Ceiling, UnitCeiling, TurnedAway, Disk, Graphics, Filling, Value
    <3> QED
      BY <1>8, <3>2
  <2>2. streak'[c] = 0 /\ fineAgo'[c] = 0 /\ since'[c] = 0
    BY <1>8, <2>1 DEF Feed
  <2> QED
    BY <1>2, <2>2
<1> QED
  BY <1>6, <1>7, <1>8

-----------------------------------------------------------------------------
(* A unit inside a unit has fewer units inside it, and a finding of a unit   *)
(* inside one below is below.                                               *)
LEMMA FewerInside ==
  ASSUME NEW u \in DOMAIN Inside, NEW v \in Inside[u] \cap DOMAIN Inside
  PROVE  Cardinality(Inside[u]) \in Nat /\ Cardinality(Inside[v]) \in Nat
         /\ Cardinality(Inside[v]) < Cardinality(Inside[u])
<1>1. IsFiniteSet(Inside[u]) /\ IsFiniteSet(Inside[v]) /\ Inside[v] \subseteq Inside[u] /\ v \notin Inside[v]
  BY LagAssumption
<1>2. Cardinality(Inside[u]) \in Nat /\ Cardinality(Inside[v]) \in Nat
  BY <1>1, FS_CardinalityType
<1>3. Cardinality(Inside[v]) <= Cardinality(Inside[u]) /\ Cardinality(Inside[v]) # Cardinality(Inside[u])
  BY <1>1, FS_Subset
<1> QED
  BY <1>2, <1>3

LEMMA BelowIs ==
  ASSUME NEW c
  PROVE  /\ c[1] # "unit_stalled" => Below(c) = {}
         /\ c[1] = "unit_stalled" =>
              Below(c) = {d \in Conditions : d[1] \in UnitFamilies /\ d[2] \in Inside[c[2]]}
                         \cup {InUnit(u) : u \in Units \cap Inside[c[2]]}
  BY DEF Below

LEMMA BelowIsNested ==
  ASSUME NEW c \in Conditions, NEW d \in Conditions \cap Below(c), d[1] \in UnitFamilies, d[2] \in Inside[c[2]]
  PROVE  Below(d) \subseteq Below(c)
<1>1. c[1] = "unit_stalled" /\ c[1] \in UnitFamilies
  BY BelowIs DEF UnitFamilies
<1>2. Inside[d[2]] \subseteq Inside[c[2]]
  BY <1>1, LagAssumption
<1>3. CASE d[1] = "unit_stalled"
  BY <1>1, <1>2, <1>3, BelowIs
<1>4. CASE d[1] # "unit_stalled"
  BY <1>4, BelowIs
<1> QED
  BY <1>3, <1>4

LEMMA LeastOf ==
  ASSUME NEW S \in SUBSET Nat, S # {}
  PROVE  \E n \in S : \A m \in S : ~(m < n)
<1> DEFINE Less == {p \in Nat \X Nat : p[1] < p[2]}
<1>1. Less = OpToRel(<, Nat)
  BY DEF OpToRel
<1>2. IsWellFoundedOn(Less, Nat)
  BY <1>1, NatLessThanWellFounded
<1> HIDE DEF Less
<1>3. \E n \in S : \A m \in S : ~(<<m, n>> \in Less)
  BY <1>2, WFMin
<1> QED
  BY <1>3 DEF Less

(* Of the findings below one that is left out, take one with the fewest      *)
(* units inside: it is shown.                                               *)
LEMMA ShownBelow ==
  ASSUME NEW found \in SUBSET Conditions, NEW told, told \subseteq {InUnit(u) : u \in Units} \cup {InMachine},
         NEW c \in found, Below(c) \cap (found \cup told) # {}
  PROVE  Below(c) \cap ((found \ {d \in found : Below(d) \cap (found \cup told) # {}}) \cup told) # {}
<1> DEFINE left == {d \in found : Below(d) \cap (found \cup told) # {}}
           below == {d \in found \ told : d \in Below(c)}
           size(d) == Cardinality(Inside[d[2]])
           sizes == {size(d) : d \in below}
<1> SUFFICES ASSUME Below(c) \cap ((found \ left) \cup told) = {}
             PROVE  FALSE
  OBVIOUS
<1>1. c[1] = "unit_stalled" /\ c[1] \in UnitFamilies /\ c[2] \in DOMAIN Inside
  BY BelowIs, LagAssumption DEF UnitFamilies
<1>2. Below(c) \cap told = {} /\ below # {}
  OBVIOUS
<1>3. \A d \in below : /\ d \in Conditions /\ d \in Below(c) /\ d[1] \in UnitFamilies /\ d[2] \in Inside[c[2]]
                       /\ d[2] \in DOMAIN Inside /\ d \in left
  <2>1. TAKE d \in below
  <2>2. d \in Conditions /\ d \in Below(c) /\ d \in left
    OBVIOUS
  <2>3. d \notin {InUnit(u) : u \in Units}
    <3>1. d[1] \in DOMAIN Families
      BY <2>2, LagAssumption
    <3>2. d[1] # "unit_oom"
      BY <3>1 DEF Families
    <3> QED
      BY <3>2 DEF InUnit
  <2>4. d[1] \in UnitFamilies /\ d[2] \in Inside[c[2]]
    BY <1>1, <2>2, <2>3, BelowIs
  <2> QED
    BY <2>2, <2>4, LagAssumption
<1>4. sizes \subseteq Nat
  BY <1>1, <1>3, FewerInside
<1>5. PICK d \in below : \A e \in below : ~(size(e) < size(d))
  <2>1. sizes # {}
    BY <1>2
  <2>2. sizes \in SUBSET Nat
    BY <1>4
  <2> HIDE DEF sizes
  <2>3. \E n \in sizes : \A m \in sizes : ~(m < n)
    BY <2>1, <2>2, LeastOf
  <2> USE DEF sizes
  <2> QED
    BY <2>3
<1>6. PICK e \in Below(d) : e \in found \cup told
  BY <1>3, <1>5
<1>7. e \in Below(c)
  BY <1>3, <1>6, BelowIsNested
<1>8. e \in below
  BY <1>2, <1>6, <1>7
<1>9. e[2] \in Inside[d[2]] /\ d[2] \in DOMAIN Inside
  <2>1. d[1] = "unit_stalled"
    BY <1>6, BelowIs
  <2>2. e[1] \in DOMAIN Families
    BY <1>3, <1>8, LagAssumption
  <2>3. e[1] # "unit_oom"
    BY <2>2 DEF Families
  <2>4. e \notin {InUnit(u) : u \in Units}
    BY <2>3 DEF InUnit
  <2> QED
    BY <1>3, <1>6, <2>1, <2>4, BelowIs
<1>10. size(e) < size(d)
  BY <1>3, <1>8, <1>9, FewerInside
<1> QED
  BY <1>5, <1>8, <1>10

-----------------------------------------------------------------------------
(* Each action keeps the invariant.                                         *)
LEMMA MachineKeeps ==
  ASSUME IInv, (\E u \in Units : Kill(u) \/ Turn(u) \/ Limit(u)) \/ KillOutside
  PROVE  IInv'
<1>1. /\ kills \in 0..MaxKills /\ MaxKills \in Nat /\ counter \in [Units -> 0..MaxKills]
      /\ listed \subseteq Units /\ limited \subseteq Units /\ \A u \in Units : counter[u] <= kills
  BY Bounds DEF IInv, TypeOK, KillsBounded
<1>2. UNCHANGED <<store, total, doctor>>
  BY DEF Kill, Turn, Limit, KillOutside
<1> DEFINE Kept == /\ kills' \in 0..MaxKills /\ counter' \in [Units -> 0..MaxKills]
                   /\ listed' \subseteq Units /\ limited' \subseteq Units /\ KillsBounded'
<1>3. ASSUME NEW u \in Units, Kill(u) PROVE Kept
  <2>1. kills' = kills + 1 /\ kills < MaxKills /\ listed' = listed /\ limited' = limited
    BY <1>3 DEF Kill
  <2>2. \A v \in Units : counter'[v] \in Nat /\ counter'[v] <= kills + 1
    BY <1>1, <1>3 DEF Kill
  <2>3. counter' = [v \in Units |-> counter'[v]]
    BY <1>1, <1>3 DEF Kill
  <2> QED
    BY <1>1, <2>1, <2>2, <2>3 DEF KillsBounded
<1>4. ASSUME NEW u \in Units, Turn(u) PROVE Kept
  BY <1>1, <1>4 DEF Turn, KillsBounded
<1>5. ASSUME NEW u \in Units, Limit(u) PROVE Kept
  BY <1>1, <1>5 DEF Limit, KillsBounded
<1>6. ASSUME KillOutside PROVE Kept
  BY <1>1, <1>6 DEF KillOutside, KillsBounded
<1>7. Kept
  BY <1>3, <1>4, <1>5, <1>6
<1> QED
  BY <1>2, <1>7 DEF IInv, TypeOK, StoreIsRead, StreakIsRecent, doctor

LEMMA TierKeeps ==
  ASSUME IInv, TickFast \/ TickSlow
  PROVE  IInv'
<1>1. StoreIsRead'
  BY StoreOver DEF TickFast, TickSlow
<1>2. total' \in Unseen..MaxKills
  <2>1. kills \in 0..MaxKills /\ total \in Unseen..MaxKills
    BY DEF IInv, TypeOK
  <2>2. total' = kills \/ total' = total
    BY DEF TickFast, TickSlow
  <2> QED
    BY <2>1, <2>2, Bounds DEF Unseen
<1>3. UNCHANGED <<machine, doctor>>
  BY DEF TickFast, TickSlow
<1> QED
  BY <1>1, <1>2, <1>3 DEF IInv, TypeOK, KillsBounded, StoreIsRead, StreakIsRecent, Stored, machine, doctor

LEMMA DiagnosisKeeps ==
  ASSUME IInv, NEW r \in Read("proc"), Diagnose(With(r)), UNCHANGED <<machine, store, total>>
  PROVE  IInv' /\ SinceIsBeginning' /\ DroppedForShown'
<1> DEFINE reading == With(r)
           found == {c \in Conditions : reading[c] = "bad" /\ Sustained(c)}
<1>1. \A c \in Conditions : reading[c] \in Reads(c)
  BY ReadingIsRead
<1>2. /\ streak' = [c \in Conditions |-> Feed(c, reading[c])]
      /\ since' = [c \in Conditions |-> IF streak'[c] = 0 THEN 0 ELSE Age(c, reading[c])]
      /\ TellKills
      /\ dropped' = {c \in found : Below(c) \cap Carrying(found) # {}}
      /\ findings' = found \ dropped'
      /\ fineAgo' = [c \in Conditions |-> IF reading[c] \in {"fine", "gone"} THEN 0
                                          ELSE UpTo(Horizon + 1, fineAgo[c] + 1)]
  BY DEF Diagnose
<1> HIDE DEF reading
<1>3. \A c \in Conditions :
        /\ streak'[c] \in 0..SustainTicks /\ since'[c] \in 0..Horizon /\ fineAgo'[c] \in 0..(Horizon + 1)
        /\ streak'[c] > 0 => since'[c] < fineAgo'[c] /\ since'[c] >= streak'[c] - 1
        /\ "none" \notin Reads(c) =>
             IF streak'[c] = 0 THEN fineAgo'[c] = 0 ELSE since'[c] = UpTo(Horizon, fineAgo'[c] - 1)
  BY <1>1, <1>2, Sustaining
<1>4. /\ streak' \in [Conditions -> 0..SustainTicks] /\ since' \in [Conditions -> 0..Horizon]
      /\ fineAgo' \in [Conditions -> 0..(Horizon + 1)]
  BY <1>2, <1>3
<1>5. StreakIsRecent'
  BY <1>3 DEF StreakIsRecent
<1>6. oom' \subseteq {InUnit(u) : u \in Units} \cup {InMachine}
  BY <1>2 DEF TellKills
<1>7. prev' \in [Units -> Unseen..MaxKills] /\ prevTotal' \in Unseen..MaxKills
  <2>1. total \in Unseen..MaxKills /\ counter \in [Units -> 0..MaxKills] /\ listed \subseteq Units
    BY DEF IInv, TypeOK
  <2>2. 0..MaxKills \subseteq Unseen..MaxKills /\ Unseen \in Unseen..MaxKills /\ 0 \in 0..MaxKills
    BY Bounds DEF Unseen
  <2>3. \A u \in Units : Counted(u) \in Unseen..MaxKills
    BY <2>1, <2>2 DEF Counted
  <2> QED
    BY <1>2, <2>1, <2>2, <2>3 DEF TellKills
<1>8. \A c \in findings' : c \in Conditions /\ streak'[c] = SustainTicks
  BY <1>2, <1>3, Bounds DEF Sustained
<1>9. TypeOK'
  BY <1>4, <1>6, <1>7, <1>8 DEF IInv, TypeOK, machine
<1>10. KillsBounded' /\ StoreIsRead'
  BY DEF IInv, KillsBounded, StoreIsRead, machine
<1>11. SinceIsBeginning'
  <2> SUFFICES ASSUME NEW c \in findings'
               PROVE  /\ since'[c] >= SustainTicks - 1 /\ since'[c] < fineAgo'[c]
                      /\ "none" \notin Reads(c) => since'[c] = UpTo(Horizon, fineAgo'[c] - 1)
    BY DEF SinceIsBeginning
  <2> QED
    BY <1>3, <1>8, Bounds
<1>12. DroppedForShown'
  <2> SUFFICES ASSUME NEW c \in dropped'
               PROVE  Below(c) \cap (findings' \cup oom') # {}
    BY DEF DroppedForShown
  <2>1. c \in found /\ Below(c) \cap (found \cup oom') # {} /\ found \in SUBSET Conditions
    BY <1>2 DEF Carrying
  <2>2. dropped' = {d \in found : Below(d) \cap (found \cup oom') # {}}
    BY <1>2 DEF Carrying
  <2>3. findings' = found \ dropped'
    BY <1>2
  <2> HIDE DEF found
  <2> QED
    BY <1>6, <2>1, <2>2, <2>3, ShownBelow
<1> QED
  BY <1>4, <1>5, <1>8, <1>9, <1>10, <1>11, <1>12 DEF IInv

-----------------------------------------------------------------------------
(* The invariant, with the properties it is proved together with.           *)
Safe == IInv /\ SinceIsBeginning /\ DroppedForShown

(* They hold in every diagnosis, at whatever pace the tiers tick.           *)
THEOREM LagInvariant == Spec => []Safe
<1>1. Init => Safe
  <2> SUFFICES ASSUME Init PROVE Safe
    OBVIOUS
  <2>1. SustainTicks \in Nat \ {0} /\ Horizon \in Nat \ {0} /\ MaxKills \in Nat
    BY Bounds
  <2>2. StoreIsRead
    <3>1. DOMAIN store = Stored
      BY DEF Init, Stored
    <3>2. \A c \in Stored : store[c] = IF "none" \in Reads(c) THEN "none" ELSE "gone"
      BY <3>1 DEF Init
    <3> QED
      BY <3>1, <3>2, Tiers DEF StoreIsRead
  <2>3. TypeOK
    BY <2>1, <2>2 DEF Init, TypeOK, StoreIsRead, Stored, Unseen
  <2>4. fineAgo \in [Conditions -> 0..(Horizon + 1)] /\ KillsBounded /\ StreakIsRecent /\ findings \subseteq Conditions
    BY <2>1 DEF Init, KillsBounded, StreakIsRecent
  <2>5. SinceIsBeginning /\ DroppedForShown
    BY DEF Init, SinceIsBeginning, DroppedForShown
  <2> QED
    BY <2>2, <2>3, <2>4, <2>5 DEF Safe, IInv
<1>2. Safe /\ [Next]_vars => Safe'
  <2> SUFFICES ASSUME Safe, [Next]_vars PROVE Safe'
    OBVIOUS
  <2>1. CASE TickProc
    BY <2>1, DiagnosisKeeps DEF TickProc, Safe
  <2>2. CASE TickFast \/ TickSlow
    <3>1. UNCHANGED doctor
      BY <2>2 DEF TickFast, TickSlow
    <3> QED
      BY <2>2, <3>1, TierKeeps DEF Safe, SinceIsBeginning, DroppedForShown, doctor
  <2>3. CASE (\E u \in Units : Kill(u) \/ Turn(u) \/ Limit(u)) \/ KillOutside
    <3>1. UNCHANGED doctor
      BY <2>3 DEF Kill, Turn, Limit, KillOutside
    <3> QED
      BY <2>3, <3>1, MachineKeeps DEF Safe, SinceIsBeginning, DroppedForShown, doctor
  <2>4. CASE UNCHANGED vars
    BY <2>4 DEF vars, machine, doctor, Safe, IInv, TypeOK, KillsBounded, StoreIsRead, StreakIsRecent,
                SinceIsBeginning, DroppedForShown
  <2> QED
    BY <2>1, <2>2, <2>3, <2>4 DEF Next
<1> QED
  BY <1>1, <1>2, PTL DEF Spec

(* A finding's "since" is its beginning: in no diagnosis from then on was   *)
(* its condition fine, or what it is about gone.                            *)
THEOREM SinceBegins == Spec => []SinceIsBeginning
<1>1. Safe => SinceIsBeginning
  BY DEF Safe
<1> QED
  BY <1>1, LagInvariant, PTL

(* A finding is sustained, and what a diagnosis leaves out it leaves out for *)
(* a finding it shows, however deep units are nested.                       *)
THEOREM DiagnosisSound == Spec => []DiagnosisIsSound
<1>1. Safe => DiagnosisIsSound
  BY DEF Safe, IInv, DiagnosisIsSound
<1> QED
  BY <1>1, LagInvariant, PTL

(* A diagnosis that finds the machine's counter risen tells of a kill.      *)
THEOREM RisesAreTold == Spec => RiseIsTold
<1> DEFINE Told == prevTotal # Unseen /\ prevTotal' > prevTotal => oom' # {}
<1>1. Safe /\ [Next]_vars => [Told]_vars
  <2> SUFFICES ASSUME Safe, Next, prevTotal # Unseen, prevTotal' > prevTotal PROVE oom' # {}
    OBVIOUS
  <2>1. prevTotal \in Int
    BY DEF Safe, IInv, TypeOK
  <2>2. prevTotal' # prevTotal
    BY <2>1
  <2>3. TickProc
    BY <2>2 DEF Next, TickFast, TickSlow, Kill, Turn, Limit, KillOutside, doctor
  <2>4. TellKills
    BY <2>3 DEF TickProc, Diagnose
  <2>5. CASE Explained
    BY <2>4, <2>5 DEF TellKills, Explained
  <2>6. CASE ~Explained
    BY <2>4, <2>6 DEF TellKills
  <2> QED
    BY <2>5, <2>6
<1> HIDE DEF Told
<1>2. Spec => [][Told]_vars
  BY <1>1, LagInvariant, PTL DEF Spec
<1> QED
  BY <1>2 DEF RiseIsTold, Told
=============================================================================
