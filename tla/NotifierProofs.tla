--------------------------- MODULE NotifierProofs ---------------------------
(***************************************************************************)
(* Proofs about Notifier, for any nodes, keys, thresholds and settings, and *)
(* about Vigil, the notifier in its surroundings, at the end.               *)
(***************************************************************************)
EXTENDS Vigil, FiniteSetTheorems, SequenceTheorems, NaturalsInduction, WellFoundedInduction, TLAPS

(* What is held, and the range of what is counted.                          *)
Typed ==
  /\ active \in [Findings -> Entry]
  /\ silent \in [Nodes -> Never..SilentDrop + 1]
  /\ offline \subseteq Nodes
  /\ cfg \in [channels : BOOLEAN, floor : 1..2, resolved : BOOLEAN, offline : BOOLEAN]
  /\ said \in [Findings -> 0..2]
  /\ unlisted \in [Findings -> 0..Grace]

\* The limiter's stamps are in order and no more than it allows, the queue holds
\* no more than its size, and only what is held counts as told.
LimitsHold ==
  /\ intermittent \subseteq Nodes /\ cfg \in Configs
  /\ recent \in Seq(0..Window - 1) /\ Len(recent) <= Limit
  /\ \A i, j \in DOMAIN recent : i < j => recent[j] <= recent[i]
  /\ waiting \in 0..QueueMax
  /\ mail \subseteq Messages /\ lost \subseteq Messages
  /\ told \subseteq {p \in Findings : active[p].severity > 0}

IInv == Typed /\ RecordAgrees /\ OfflineIsUnseen /\ AbsenceIsReal /\ LimitsHold

(* What a step that posts msgs leaves of the limiter: every message is      *)
(* either queued or lost.                                                   *)
LEMMA PostKeepsAll ==
  ASSUME NEW msgs, Post(msgs)
  PROVE  mail' \cup lost' = msgs
<1>1. PICK counted \in SUBSET msgs : \E kept \in SUBSET counted : mail' = kept /\ lost' = msgs \ kept
  BY DEF Post
<1>2. PICK kept \in SUBSET counted : mail' = kept /\ lost' = msgs \ kept
  BY <1>1
<1> QED BY <1>2

(* The bookkeeping of one finding, and what a step must do to keep it.      *)
Agrees(p) ==
  /\ active[p].severity = 0 => active[p] = Unheld
  /\ active[p].sent <=> said[p] > 0
  /\ said[p] <= active[p].severity
  /\ active[p].absent <= unlisted[p]

LEMMA ParametersTyped ==
  /\ Grace \in Nat /\ Grace > 0 /\ OfflineAfter \in Nat /\ OfflineAfter > 0
  /\ SilentDrop \in Nat /\ SilentDrop > OfflineAfter
BY TimesAssumption

LEMMA EntryFields ==
  ASSUME NEW e \in Entry
  PROVE  /\ e.severity \in 0..2 /\ e.sent \in BOOLEAN /\ e.absent \in -1..Grace
         /\ e = [severity |-> e.severity, sent |-> e.sent, absent |-> e.absent]
BY DEF Entry, Never

LEMMA UnheldIsEntry ==
  Unheld \in Entry /\ Unheld.severity = 0 /\ Unheld.sent = FALSE /\ Unheld.absent = -1
BY ParametersTyped DEF Unheld, Entry, Never

LEMMA InvAgrees ==
  IInv <=> Typed /\ OfflineIsUnseen /\ LimitsHold /\ \A p \in Findings : Agrees(p)
BY DEF IInv, RecordAgrees, AbsenceIsReal, Agrees

(* What a finding's rank becomes once its step has spoken.                  *)
LEMMA SayingTyped ==
  ASSUME NEW spoken \in [Findings -> 0..2], Saying(spoken), said \in [Findings -> 0..2]
  PROVE  /\ said' \in [Findings -> 0..2]
         /\ \A p \in Findings :
              said'[p] = IF active'[p].severity = 0 THEN 0
                         ELSE IF spoken[p] > 0 THEN spoken[p] ELSE said[p]
BY DEF Saying

LEMMA SilenceTyped == Silence \in [Findings -> 0..2] /\ \A p \in Findings : Silence[p] = 0
BY DEF Silence

(* A finding that is kept as it was, forgotten, or aged stays in agreement. *)
LEMMA KeptAgrees ==
  ASSUME IInv, NEW p \in Findings, Saying(Silence), unlisted'[p] = unlisted[p],
         active'[p] = active[p] \/ active'[p] = Unheld
  PROVE  Agrees(p)'
<1>1. active[p] \in Entry /\ said[p] \in 0..2 /\ unlisted[p] \in 0..Grace
  BY DEF IInv, Typed
<1>2. said'[p] = IF active'[p].severity = 0 THEN 0 ELSE said[p]
  BY SayingTyped, SilenceTyped DEF IInv, Typed
<1>3. Agrees(p)
  BY InvAgrees
<1>4. CASE active'[p] = active[p]
  <2>1. active[p].severity = 0 => said[p] = 0
    BY <1>1, <1>3, EntryFields DEF Agrees
  <2>2. said'[p] = said[p]
    BY <1>2, <1>4, <2>1
  <2> QED BY <1>3, <1>4, <2>2 DEF Agrees
<1>5. CASE active'[p] = Unheld
  <2>1. said'[p] = 0
    BY <1>2, <1>5, UnheldIsEntry
  <2> QED BY <1>1, <1>5, <2>1, UnheldIsEntry, ParametersTyped DEF Agrees
<1> QED BY <1>4, <1>5

-----------------------------------------------------------------------------
(* Observe: what becomes of a listed and of an unlisted finding.            *)
LEMMA PresentFields ==
  ASSUME Typed, NEW p \in Findings, NEW found \in Lists, NEW r, r = found[p[2]], r \in 1..2,
         NEW old, old = active[p].severity
  PROVE  LET e == Present(p, found) IN
         /\ e \in Entry /\ e.absent = -1
         /\ e.severity = IF old = 0 \/ r > old THEN r ELSE old
         /\ e.sent = (active[p].sent \/ Tells(p, found))
         /\ e.severity \in 1..2 /\ r <= e.severity /\ old <= e.severity
<1>1. active[p] \in Entry /\ old \in 0..2
  BY EntryFields DEF Typed
<1>2. Rank(p, found) = IF old = 0 THEN r ELSE old
  BY DEF Rank
<1>3. Escalates(p, found) <=> old # 0 /\ r > old
  BY <1>1, <1>2 DEF Escalates
<1> DEFINE sev == IF Escalates(p, found) THEN found[p[2]] ELSE Rank(p, found)
           sent == active[p].sent \/ Tells(p, found)
<1>4. sev = IF old = 0 \/ r > old THEN r ELSE old
  BY <1>1, <1>2, <1>3
<1>5. sev \in 1..2 /\ r <= sev /\ old <= sev
  BY <1>1, <1>4
<1>6. sent \in BOOLEAN
  OBVIOUS
<1>7. Present(p, found) = [severity |-> sev, sent |-> sent, absent |-> -1]
  BY DEF Present, Never
<1> HIDE DEF sev, sent
<1>8. Present(p, found) \in Entry
  BY <1>5, <1>6, <1>7, ParametersTyped DEF Entry, Never
<1>9. sent = (active[p].sent \/ Tells(p, found))
  BY DEF sent
<1> QED BY <1>4, <1>5, <1>7, <1>8, <1>9

LEMMA MissingFields ==
  ASSUME NEW e \in Entry
  PROVE  LET m == Missing(e) IN
         /\ m \in Entry /\ m.severity = e.severity /\ m.sent = e.sent
         /\ m.absent = e.absent \/ (m.absent = 0 /\ e.severity > 0)
<1>1. e.absent \in -1..Grace /\ e = [severity |-> e.severity, sent |-> e.sent, absent |-> e.absent]
  BY EntryFields
<1>2. [e EXCEPT !.absent = 0] = [severity |-> e.severity, sent |-> e.sent, absent |-> 0]
  BY <1>1
<1>3. [severity |-> e.severity, sent |-> e.sent, absent |-> 0] \in Entry
  BY EntryFields, ParametersTyped DEF Entry, Never
<1>4. Missing(e) = e \/ (e.severity > 0 /\ Missing(e) = [severity |-> e.severity, sent |-> e.sent, absent |-> 0])
  BY <1>2 DEF Missing
<1> QED BY <1>3, <1>4

LEMMA SpokenTyped ==
  ASSUME NEW n \in Nodes, NEW found \in Lists
  PROVE  /\ Spoken(n, found) \in [Findings -> 0..2]
         /\ \A p \in Findings :
              Spoken(n, found)[p] = IF p[1] = n /\ Tells(p, found) THEN found[p[2]] ELSE 0
<1>1. \A p \in Findings : found[p[2]] \in 0..2
  BY DEF Lists, Findings
<1> QED BY <1>1 DEF Spoken

LEMMA ObservedValue ==
  ASSUME NEW n, NEW found, active' = Observed(n, found), NEW p \in Findings
  PROVE  active'[p] = IF p[1] # n THEN active[p]
                      ELSE IF found[p[2]] > 0 THEN Present(p, found) ELSE Missing(active[p])
BY DEF Observed

LEMMA ObserveAgrees ==
  ASSUME IInv, NEW n \in Nodes, NEW found \in Lists, Observe(n, found), NEW p \in Findings
  PROVE  Agrees(p)' /\ active'[p] \in Entry
<1> DEFINE r == found[p[2]]
<1>1. active[p] \in Entry /\ said[p] \in 0..2 /\ unlisted[p] \in 0..Grace /\ r \in 0..2
  BY DEF IInv, Typed, Lists, Findings
<1>2. Agrees(p) /\ Typed
  BY InvAgrees
<1>3. active'[p] = IF p[1] # n THEN active[p]
                   ELSE IF r > 0 THEN Present(p, found) ELSE Missing(active[p])
  BY ObservedValue DEF Observe
<1>4. said'[p] = IF active'[p].severity = 0 THEN 0
                 ELSE IF Spoken(n, found)[p] > 0 THEN Spoken(n, found)[p] ELSE said[p]
  BY SayingTyped, SpokenTyped, <1>2 DEF Observe, Typed
<1>5. Spoken(n, found)[p] = IF p[1] = n /\ Tells(p, found) THEN r ELSE 0
  BY SpokenTyped
<1>6. unlisted'[p] = IF p[1] = n /\ r > 0 THEN 0 ELSE unlisted[p]
  BY DEF Observe
<1>7. active[p].severity = 0 => said[p] = 0 /\ active[p].sent = FALSE
  BY <1>1, <1>2, EntryFields DEF Agrees
<1> HIDE DEF r
<1>8. CASE p[1] # n
  <2>1. active'[p] = active[p] /\ said'[p] = said[p] /\ unlisted'[p] = unlisted[p]
    BY <1>1, <1>3, <1>4, <1>5, <1>6, <1>7, <1>8
  <2> QED BY <1>1, <1>2, <2>1 DEF Agrees
<1>9. CASE p[1] = n /\ r > 0
  <2>1. /\ active'[p] \in Entry /\ active'[p].absent = -1
        /\ active'[p].sent = (active[p].sent \/ Tells(p, found))
        /\ active'[p].severity \in 1..2 /\ r <= active'[p].severity
        /\ active[p].severity <= active'[p].severity
    BY <1>1, <1>2, <1>3, <1>9, PresentFields DEF r
  <2>2. said'[p] = IF Tells(p, found) THEN r ELSE said[p]
    BY <1>1, <1>4, <1>5, <1>9, <2>1
  <2>3. said[p] <= active'[p].severity
    BY <1>1, <1>2, <2>1, EntryFields DEF Agrees
  <2>4. said'[p] <= active'[p].severity
    BY <2>1, <2>2, <2>3
  <2>5. active'[p].sent <=> said'[p] > 0
    <3>1. CASE Tells(p, found)
      BY <1>9, <2>1, <2>2, <3>1
    <3>2. CASE ~Tells(p, found)
      <4>1. active'[p].sent = active[p].sent /\ said'[p] = said[p]
        BY <2>1, <2>2, <3>2, <1>1, EntryFields
      <4> QED BY <4>1, <1>2 DEF Agrees
    <3> QED BY <3>1, <3>2
  <2>6. unlisted'[p] = 0
    BY <1>6, <1>9
  <2> QED BY <2>1, <2>4, <2>5, <2>6 DEF Agrees
<1>10. CASE p[1] = n /\ ~(r > 0)
  <2>1. active'[p] = Missing(active[p]) /\ unlisted'[p] = unlisted[p]
    BY <1>3, <1>6, <1>10
  <2>2. /\ active'[p] \in Entry /\ active'[p].severity = active[p].severity
        /\ active'[p].sent = active[p].sent
        /\ active'[p].absent = active[p].absent \/ (active'[p].absent = 0 /\ active[p].severity > 0)
    BY <1>1, <2>1, MissingFields
  <2>3. said'[p] = said[p]
    BY <1>1, <1>4, <1>5, <1>7, <1>10, <2>2
  <2>4. active[p].severity = 0 => active'[p] = active[p]
    BY <2>1 DEF Missing
  <2> QED BY <1>1, <1>2, <2>1, <2>2, <2>3, <2>4 DEF Agrees
<1> QED BY <1>8, <1>9, <1>10

-----------------------------------------------------------------------------
(* The other operations keep, forget or age what is held.                   *)
LEMMA OlderBound ==
  ASSUME NEW cap \in Nat, NEW age \in -1..cap
  PROVE  /\ Older(age, cap) \in -1..cap /\ age <= Older(age, cap)
         /\ age \in 0..cap => Older(age, cap) \in 0..cap
BY DEF Older, Never

LEMMA AgedAgrees ==
  ASSUME IInv, Tick, NEW p \in Findings
  PROVE  Agrees(p)' /\ active'[p] \in Entry
<1>1. active[p] \in Entry /\ said[p] \in 0..2 /\ unlisted[p] \in 0..Grace /\ Agrees(p)
  BY InvAgrees DEF IInv, Typed
<1> DEFINE a == Older(active[p].absent, Grace)
<1>2. active'[p] = [active[p] EXCEPT !.absent = a]
  BY DEF Tick
<1>3. unlisted'[p] = Older(unlisted[p], Grace) /\ said' = said
  BY DEF Tick
<1>4. active[p].absent \in -1..Grace
  BY <1>1, EntryFields
<1>5. a \in -1..Grace /\ (active[p].absent = -1 => a = -1)
  BY <1>4, ParametersTyped DEF Older, Never
<1>6. a <= Older(unlisted[p], Grace)
  <2>1. active[p].absent <= unlisted[p]
    BY <1>1 DEF Agrees
  <2> QED BY <1>1, <1>4, <2>1, ParametersTyped DEF Older, Never
<1> HIDE DEF a
<1>7. active'[p] = [severity |-> active[p].severity, sent |-> active[p].sent, absent |-> a]
  BY <1>1, <1>2, EntryFields
<1>8. active'[p] \in Entry
  BY <1>1, <1>5, <1>7, EntryFields DEF Entry, Never
<1>9. active[p].severity = 0 => active'[p] = active[p]
  <2>1. SUFFICES ASSUME active[p].severity = 0 PROVE active'[p] = active[p]
    OBVIOUS
  <2>2. active[p].absent = -1
    BY <1>1, <2>1, UnheldIsEntry DEF Agrees
  <2> QED BY <1>1, <1>5, <1>7, <2>2, EntryFields
<1> QED BY <1>1, <1>3, <1>6, <1>7, <1>8, <1>9 DEF Agrees

LEMMA SweptValue ==
  ASSUME Sweep, NEW p \in Findings
  PROVE  active'[p] = active[p] \/ active'[p] = Unheld
BY DEF Sweep, Swept

LEMMA TypedNext ==
  ASSUME IInv, [Next]_vars
  PROVE  Typed' /\ \A p \in Findings : Agrees(p)'
<1>1. Typed /\ \A p \in Findings : Agrees(p) /\ active[p] \in Entry
  BY InvAgrees DEF IInv, Typed
<1>2. ASSUME NEW n \in Nodes, NEW found \in Lists, Observe(n, found)
      PROVE  Typed' /\ \A p \in Findings : Agrees(p)'
  <2>1. \A p \in Findings : Agrees(p)' /\ active'[p] \in Entry
    BY <1>2, ObserveAgrees
  <2>2. active' \in [Findings -> Entry]
    BY <2>1, <1>2 DEF Observe, Observed
  <2>3. silent' \in [Nodes -> Never..SilentDrop + 1]
    BY <1>1, <1>2, ParametersTyped DEF Observe, Typed, Never
  <2>4. said' \in [Findings -> 0..2]
    BY <1>1, <1>2, SayingTyped, SpokenTyped DEF Observe, Typed
  <2>5. unlisted' \in [Findings -> 0..Grace]
    BY <1>1, <1>2, ParametersTyped DEF Observe, Typed
  <2> QED BY <1>1, <1>2, <2>1, <2>2, <2>3, <2>4, <2>5 DEF Observe, Typed
<1>3. ASSUME Saying(Silence), \A p \in Findings : active'[p] = active[p] \/ active'[p] = Unheld,
             active' \in [Findings -> Entry], unlisted' = unlisted,
             silent' \in [Nodes -> Never..SilentDrop + 1], offline' \subseteq Nodes,
             cfg' \in [channels : BOOLEAN, floor : 1..2, resolved : BOOLEAN, offline : BOOLEAN]
      PROVE  Typed' /\ \A p \in Findings : Agrees(p)'
  <2>1. said' \in [Findings -> 0..2]
    BY <1>1, <1>3, SayingTyped, SilenceTyped DEF Typed
  <2>2. \A p \in Findings : Agrees(p)'
    BY <1>3, KeptAgrees
  <2> QED BY <1>1, <1>3, <2>1, <2>2 DEF Typed
<1>4. ASSUME Sweep
      PROVE  Typed' /\ \A p \in Findings : Agrees(p)'
  <2>1. active' \in [Findings -> Entry]
    BY <1>1, <1>4, UnheldIsEntry DEF Sweep, Swept, Typed
  <2>2. offline' \subseteq Nodes
    BY <1>1, <1>4 DEF Sweep, NewlyOffline, Typed
  <2>3. Saying(Silence) /\ UNCHANGED <<silent, cfg, unlisted>>
    BY <1>4 DEF Sweep
  <2> QED BY <1>1, <1>3, <1>4, <2>1, <2>2, <2>3, SweptValue DEF Typed
<1>5. ASSUME NEW q \in Findings, DropKey(q)
      PROVE  Typed' /\ \A p \in Findings : Agrees(p)'
  <2>1. active' \in [Findings -> Entry] /\ \A p \in Findings : active'[p] = active[p] \/ active'[p] = Unheld
    BY <1>1, <1>5, UnheldIsEntry DEF DropKey, Typed
  <2>2. Saying(Silence) /\ UNCHANGED <<silent, offline, cfg, unlisted>>
    BY <1>5 DEF DropKey, Quietly
  <2> QED BY <1>1, <1>3, <2>1, <2>2 DEF Typed
<1>6. ASSUME NEW n \in Nodes, ForgetNode(n)
      PROVE  Typed' /\ \A p \in Findings : Agrees(p)'
  <2>1. active' \in [Findings -> Entry] /\ \A p \in Findings : active'[p] = active[p] \/ active'[p] = Unheld
    BY <1>1, <1>6, UnheldIsEntry DEF ForgetNode, Typed
  <2>2. silent' \in [Nodes -> Never..SilentDrop + 1]
    BY <1>1, <1>6, ParametersTyped DEF ForgetNode, Typed, Never
  <2>3. Saying(Silence) /\ UNCHANGED <<cfg, unlisted>> /\ offline' \subseteq Nodes
    BY <1>1, <1>6 DEF ForgetNode, Quietly, Typed
  <2> QED BY <1>1, <1>3, <2>1, <2>2, <2>3 DEF Typed
<1>7. ASSUME NEW n \in Nodes, NEW flag \in BOOLEAN, SetIntermittent(n, flag)
      PROVE  Typed' /\ \A p \in Findings : Agrees(p)'
  <2>1. Saying(Silence) /\ UNCHANGED <<active, silent, offline, cfg, unlisted>>
    BY <1>7 DEF SetIntermittent, Quietly
  <2> QED BY <1>1, <1>3, <2>1 DEF Typed
<1>8. ASSUME NEW n \in Nodes, NEW rank \in 0..2, Announce(n, rank)
      PROVE  Typed' /\ \A p \in Findings : Agrees(p)'
  <2>1. Saying(Silence) /\ UNCHANGED <<active, silent, offline, cfg, unlisted>>
    BY <1>8 DEF Announce, heldVars
  <2> QED BY <1>1, <1>3, <2>1 DEF Typed
<1>9. ASSUME Configure
      PROVE  Typed' /\ \A p \in Findings : Agrees(p)'
  <2>1. Saying(Silence) /\ UNCHANGED <<active, silent, offline, unlisted>>
    BY <1>9 DEF Configure, Quietly, heldVars
  <2>2. cfg' \in [channels : BOOLEAN, floor : 1..2, resolved : BOOLEAN, offline : BOOLEAN]
    BY <1>9, ConfigAssumption DEF Configure
  <2> QED BY <1>1, <1>3, <2>1, <2>2 DEF Typed
<1>10. ASSUME UNCHANGED <<active, silent, offline, cfg, said, unlisted>>
       PROVE  Typed' /\ \A p \in Findings : Agrees(p)'
  BY <1>1, <1>10 DEF Typed, Agrees
<1>11. CASE Deliver
  BY <1>10, <1>11 DEF Deliver, heldVars
<1>12. CASE UNCHANGED vars
  BY <1>10, <1>12 DEF vars, heldVars, postVars
<1>13. ASSUME Tick
       PROVE  Typed' /\ \A p \in Findings : Agrees(p)'
  <2>1. \A p \in Findings : Agrees(p)' /\ active'[p] \in Entry
    BY <1>13, AgedAgrees
  <2>2. active' \in [Findings -> Entry]
    BY <2>1, <1>13 DEF Tick
  <2>3. silent' \in [Nodes -> Never..SilentDrop + 1]
    <3>1. SilentDrop + 1 \in Nat /\ \A n \in Nodes : silent[n] \in -1..SilentDrop + 1
      BY <1>1, ParametersTyped DEF Typed, Never
    <3>2. \A n \in Nodes : Older(silent[n], SilentDrop + 1) \in -1..SilentDrop + 1
      BY <3>1, OlderBound
    <3> QED BY <3>2, <1>13 DEF Tick, Never
  <2>4. unlisted' \in [Findings -> 0..Grace]
    <3>1. \A p \in Findings : Older(unlisted[p], Grace) \in 0..Grace
      <4>1. TAKE p \in Findings
      <4>2. unlisted[p] \in 0..Grace /\ unlisted[p] \in -1..Grace /\ Grace \in Nat
        BY <1>1, ParametersTyped DEF Typed
      <4> QED BY <4>2, OlderBound
    <3> QED BY <3>1, <1>13 DEF Tick
  <2> QED BY <1>1, <1>13, <2>1, <2>2, <2>3, <2>4 DEF Tick, Typed
<1>14. ASSUME HostRestart
       PROVE  Typed' /\ \A p \in Findings : Agrees(p)'
  <2>1. /\ active' = [p \in Findings |-> Unheld] /\ silent' = [n \in Nodes |-> Never]
        /\ offline' = {} /\ said' = [p \in Findings |-> 0] /\ UNCHANGED <<cfg, unlisted>>
    BY <1>14 DEF HostRestart
  <2>2. Typed'
    BY <1>1, <2>1, UnheldIsEntry, ParametersTyped DEF Typed, Never
  <2>3. \A p \in Findings : unlisted[p] \in 0..Grace
    BY <1>1 DEF Typed
  <2> QED BY <2>1, <2>2, <2>3, UnheldIsEntry DEF Agrees
<1> QED BY <1>2, <1>4, <1>5, <1>6, <1>7, <1>8, <1>9, <1>11, <1>12, <1>13, <1>14 DEF Next

(* A node thought offline stays unseen: what clears its age clears the mark. *)
LEMMA OfflineNext ==
  ASSUME IInv, [Next]_vars
  PROVE  OfflineIsUnseen'
<1>1. OfflineIsUnseen /\ silent \in [Nodes -> -1..SilentDrop + 1] /\ offline \subseteq Nodes
  BY DEF IInv, Typed, Never
<1>2. CASE UNCHANGED <<silent, offline>>
  BY <1>1, <1>2 DEF OfflineIsUnseen
<1>3. ASSUME NEW n \in Nodes, NEW found \in Lists, Observe(n, found) PROVE OfflineIsUnseen'
  BY <1>1, <1>3 DEF Observe, OfflineIsUnseen
<1>4. CASE Sweep
  BY <1>1, <1>4 DEF Sweep, NewlyOffline, OfflineIsUnseen
<1>5. ASSUME NEW n \in Nodes, ForgetNode(n) PROVE OfflineIsUnseen'
  BY <1>1, <1>5 DEF ForgetNode, OfflineIsUnseen
<1>6. CASE Tick
  BY <1>1, <1>6, ParametersTyped DEF Tick, OfflineIsUnseen, Older, Never
<1>7. CASE HostRestart
  BY <1>7 DEF HostRestart, OfflineIsUnseen
<1>8. ASSUME NEW p \in Findings, DropKey(p) PROVE OfflineIsUnseen'
  BY <1>2, <1>8 DEF DropKey
<1>9. ASSUME NEW n \in Nodes, NEW flag \in BOOLEAN, SetIntermittent(n, flag) PROVE OfflineIsUnseen'
  BY <1>2, <1>9 DEF SetIntermittent
<1>10. ASSUME NEW n \in Nodes, NEW rank \in 0..2, Announce(n, rank) PROVE OfflineIsUnseen'
  BY <1>2, <1>10 DEF Announce, heldVars
<1>11. CASE Configure
  BY <1>2, <1>11 DEF Configure, heldVars
<1>12. CASE Deliver
  BY <1>2, <1>12 DEF Deliver, heldVars
<1>13. CASE UNCHANGED vars
  BY <1>2, <1>13 DEF vars, heldVars
<1> QED BY <1>3, <1>4, <1>5, <1>6, <1>7, <1>8, <1>9, <1>10, <1>11, <1>12, <1>13 DEF Next

-----------------------------------------------------------------------------
(* The limiter and the queue.  There are finitely many messages to send, so *)
(* those a step counts and those it queues can be numbered.                 *)
LEMMA MessagesFinite == IsFiniteSet(Messages)
<1> DEFINE Fs == {"finding", "escalated", "resolved"} \X Findings
           Ns == {"online", "offline", "event"} \X Nodes
           f == [x \in Fs \cup Ns |-> Note(x[1], x[2])]
<1>1. IsFiniteSet(Findings)
  BY FS_Product, FiniteAssumption DEF Findings
<1>2. /\ IsFiniteSet({"finding", "escalated", "resolved"})
      /\ IsFiniteSet({"online", "offline", "event"})
  <2>1. IsFiniteSet({"finding"}) /\ IsFiniteSet({"online"})
    BY FS_Singleton
  <2>2. IsFiniteSet({"finding"} \cup {"escalated"}) /\ IsFiniteSet({"online"} \cup {"offline"})
    BY <2>1, FS_AddElement
  <2>3. /\ IsFiniteSet(({"finding"} \cup {"escalated"}) \cup {"resolved"})
        /\ IsFiniteSet(({"online"} \cup {"offline"}) \cup {"event"})
    BY <2>2, FS_AddElement
  <2>4. /\ ({"finding"} \cup {"escalated"}) \cup {"resolved"} = {"finding", "escalated", "resolved"}
        /\ ({"online"} \cup {"offline"}) \cup {"event"} = {"online", "offline", "event"}
    OBVIOUS
  <2> QED
    BY <2>3, <2>4
<1>3. IsFiniteSet(Fs) /\ IsFiniteSet(Ns)
  BY <1>1, <1>2, FS_Product, FiniteAssumption
<1>4. IsFiniteSet(Fs \cup Ns)
  BY <1>3, FS_Union
<1>5. f \in [Fs \cup Ns -> Messages]
  BY DEF Note, Messages
<1>6. ASSUME NEW m \in Messages PROVE \E x \in Fs \cup Ns : f[x] = m
  <2>1. <<m.event, m.about>> \in Fs \cup Ns /\ m = Note(m.event, m.about)
    BY DEF Messages, Note
  <2> QED
    BY <2>1
<1>7. f \in Surjection(Fs \cup Ns, Messages)
  BY <1>5, <1>6 DEF Surjection
<1> QED
  BY <1>4, <1>7, FS_Surjection

LEMMA PostKeepsLimits ==
  ASSUME LimitsHold, NEW msgs, msgs \subseteq Messages, Post(msgs),
         cfg' \in Configs, intermittent' \subseteq Nodes
  PROVE  LimitsHold'
<1>1. PICK counted \in SUBSET msgs :
        \E kept \in SUBSET counted :
          /\ Cardinality(counted) = AtMost(Cardinality(msgs), Limit - Len(recent))
          /\ Cardinality(kept) = AtMost(Cardinality(counted), QueueMax - waiting)
          /\ recent' = recent \o [i \in 1..Cardinality(counted) |-> 0]
          /\ waiting' = waiting + Cardinality(kept)
          /\ mail' = kept /\ lost' = msgs \ kept
          /\ told' = {p \in Findings : /\ active'[p].severity > 0
                                       /\ \/ p \in told
                                          \/ \E e \in {"finding", "escalated"} : Note(e, p) \in kept}
  BY DEF Post
<1>2. PICK kept \in SUBSET counted :
          /\ Cardinality(counted) = AtMost(Cardinality(msgs), Limit - Len(recent))
          /\ Cardinality(kept) = AtMost(Cardinality(counted), QueueMax - waiting)
          /\ recent' = recent \o [i \in 1..Cardinality(counted) |-> 0]
          /\ waiting' = waiting + Cardinality(kept)
          /\ mail' = kept /\ lost' = msgs \ kept
          /\ told' = {p \in Findings : /\ active'[p].severity > 0
                                       /\ \/ p \in told
                                          \/ \E e \in {"finding", "escalated"} : Note(e, p) \in kept}
  BY <1>1
<1> DEFINE c == Cardinality(counted)
           q == Cardinality(kept)
           zeros == [i \in 1..c |-> 0]
<1>3. Cardinality(msgs) \in Nat /\ c \in Nat /\ q \in Nat
  <2>1. IsFiniteSet(msgs)
    BY MessagesFinite, FS_Subset
  <2>2. IsFiniteSet(counted)
    BY <2>1, FS_Subset
  <2>3. IsFiniteSet(kept)
    BY <2>2, FS_Subset
  <2> QED
    BY <2>1, <2>2, <2>3, FS_CardinalityType
<1>4. /\ recent \in Seq(0..Window - 1) /\ Len(recent) \in Nat /\ Len(recent) <= Limit
      /\ Limit \in Nat /\ Window \in Nat /\ Window > 0 /\ QueueMax \in Nat
      /\ waiting \in 0..QueueMax
      /\ \A i, j \in DOMAIN recent : i < j => recent[j] <= recent[i]
  BY QueueAssumption DEF LimitsHold
<1>5. c <= Limit - Len(recent) /\ q <= QueueMax - waiting
  BY <1>2, <1>3, <1>4 DEF AtMost
<1> HIDE DEF c, q
<1>6. zeros \in Seq(0..Window - 1) /\ Len(zeros) = c /\ \A i \in 1..c : zeros[i] = 0
  BY <1>3, <1>4
<1>7. recent' = recent \o zeros
  BY <1>2 DEF c
<1> HIDE DEF zeros
<1>8. /\ recent' \in Seq(0..Window - 1) /\ Len(recent') = Len(recent) + c
      /\ \A i \in 1..Len(recent') :
           recent'[i] = IF i <= Len(recent) THEN recent[i] ELSE zeros[i - Len(recent)]
      /\ DOMAIN recent' = 1..Len(recent') /\ DOMAIN recent = 1..Len(recent)
  <2>1. /\ recent \o zeros \in Seq(0..Window - 1)
        /\ Len(recent \o zeros) = Len(recent) + Len(zeros)
        /\ \A i \in 1..Len(recent) + Len(zeros) :
             (recent \o zeros)[i] = IF i <= Len(recent) THEN recent[i] ELSE zeros[i - Len(recent)]
    BY <1>4, <1>6, ConcatProperties
  <2>2. DOMAIN recent' = 1..Len(recent') /\ DOMAIN recent = 1..Len(recent)
    BY <1>4, <1>7, <2>1, LenProperties
  <2> QED
    BY <1>6, <1>7, <2>1, <2>2
<1>9. Len(recent') <= Limit
  BY <1>3, <1>4, <1>5, <1>8
<1>10. ASSUME NEW i \in DOMAIN recent', NEW j \in DOMAIN recent', i < j
       PROVE  recent'[j] <= recent'[i]
  <2>1. i \in 1..Len(recent') /\ j \in 1..Len(recent') /\ recent'[i] \in 0..Window - 1
    BY <1>8, <1>10, ElementOfSeq
  <2>2. CASE j <= Len(recent)
    <3>1. i \in 1..Len(recent) /\ j \in 1..Len(recent)
      BY <1>4, <1>10, <2>1, <2>2
    <3> QED
      BY <1>4, <1>8, <1>10, <2>1, <2>2, <3>1
  <2>3. CASE j > Len(recent)
    <3>1. j - Len(recent) \in 1..c
      BY <1>3, <1>4, <1>8, <2>1, <2>3
    <3>2. recent'[j] = 0
      BY <1>4, <1>6, <1>8, <2>1, <2>3, <3>1
    <3> QED
      BY <1>4, <2>1, <3>2
  <2> QED
    BY <1>4, <2>1, <2>2, <2>3
<1>11. waiting' \in 0..QueueMax
  BY <1>2, <1>3, <1>4, <1>5 DEF q
<1> QED
  BY <1>2, <1>8, <1>9, <1>10, <1>11 DEF LimitsHold

LEMMA LeastOf ==
  ASSUME NEW S \in SUBSET Nat, S # {}
  PROVE  \E n \in S : \A m \in S : n <= m
<1> DEFINE Less == {p \in Nat \X Nat : p[1] < p[2]}
<1>1. Less = OpToRel(<, Nat)
  BY DEF OpToRel
<1>2. IsWellFoundedOn(Less, Nat)
  BY <1>1, NatLessThanWellFounded
<1> HIDE DEF Less
<1>3. PICK n \in S : \A m \in S : ~(<<m, n>> \in Less)
  BY <1>2, WFMin
<1>4. \A m \in S : ~(m < n)
  BY <1>3 DEF Less
<1>5. n \in Nat /\ \A m \in S : m \in Nat
  OBVIOUS
<1> QED
  BY <1>4, <1>5

(* What is left of the stamps after a tick is a later part of them.         *)
LEMMA AgedKeepsLimits ==
  ASSUME LimitsHold
  PROVE  /\ Aged(recent) \in Seq(0..Window - 1) /\ Len(Aged(recent)) <= Limit
         /\ \A i, j \in DOMAIN Aged(recent) : i < j => Aged(recent)[j] <= Aged(recent)[i]
<1> DEFINE fresh == {i \in DOMAIN recent : recent[i] + 1 < Window}
           first == CHOOSE i \in fresh : \A j \in fresh : i <= j
           older == [i \in DOMAIN recent |-> recent[i] + 1]
           n == Len(recent)
<1>1. /\ recent \in Seq(0..Window - 1) /\ n \in Nat /\ n <= Limit /\ DOMAIN recent = 1..n
      /\ Limit \in Nat /\ Window \in Nat /\ Window > 0
      /\ \A i \in 1..n : recent[i] \in 0..Window - 1
      /\ \A i, j \in 1..n : i < j => recent[j] <= recent[i]
  BY QueueAssumption DEF LimitsHold
<1>2. CASE fresh = {}
  <2>1. Aged(recent) = <<>>
    BY <1>2 DEF Aged
  <2> QED
    BY <1>1, <2>1
<1>3. CASE fresh # {}
  <2>1. fresh \in SUBSET Nat
    BY <1>1
  <2>2. first \in fresh
    <3> HIDE DEF fresh
    <3> QED
      BY <1>3, <2>1, LeastOf
  <2>3. Aged(recent) = SubSeq(older, first, n)
    BY <1>3 DEF Aged
  <2>4. first \in 1..n /\ recent[first] + 1 < Window
    BY <1>1, <2>2
  <2> HIDE DEF first, fresh
  <2>5. ASSUME NEW i \in first..n PROVE older[i] \in 0..Window - 1
    <3>1. i \in 1..n /\ recent[i] <= recent[first]
      BY <1>1, <2>4, <2>5
    <3> QED
      BY <1>1, <2>4, <3>1
  <2>6. \A i \in 1..n : older[i] = recent[i] + 1
    BY <1>1
  <2> HIDE DEF older
  <2> DEFINE s == SubSeq(older, first, n)
  <2>7. /\ s \in Seq(0..Window - 1) /\ Len(s) = n - first + 1
        /\ \A i \in 1..Len(s) : s[i] = older[first + i - 1]
    BY <1>1, <2>4, <2>5, SubSeqProperties
  <2>8. DOMAIN s = 1..Len(s)
    BY <2>7, LenProperties
  <2> HIDE DEF s
  <2>10. Len(s) <= Limit
    BY <1>1, <2>4, <2>7
  <2>11. ASSUME NEW i \in 1..Len(s), NEW j \in 1..Len(s), i < j PROVE s[j] <= s[i]
    <3>1. i \in Nat /\ j \in Nat /\ i >= 1 /\ j <= n - first + 1 /\ first \in Nat /\ n \in Nat
      BY <1>1, <2>4, <2>7
    <3>2. first + i - 1 \in 1..n /\ first + j - 1 \in 1..n /\ first + i - 1 < first + j - 1
      BY <2>4, <2>11, <3>1
    <3>3. recent[first + j - 1] <= recent[first + i - 1]
      BY <1>1, <3>2
    <3>4. recent[first + j - 1] \in Int /\ recent[first + i - 1] \in Int
      BY <1>1, <3>2
    <3>5. s[i] = recent[first + i - 1] + 1 /\ s[j] = recent[first + j - 1] + 1
      BY <2>6, <2>7, <3>2
    <3> QED
      BY <3>3, <3>4, <3>5
  <2> QED
    BY <2>3, <2>7, <2>8, <2>10, <2>11 DEF s
<1> QED
  BY <1>2, <1>3

(* Every step keeps them: what it sends are messages.                       *)
LEMMA NotesAreMessages ==
  /\ \A n \in Nodes, found \in Lists : ObserveNotes(n, found) \subseteq Messages
  /\ SweepNotes \subseteq Messages
  /\ \A n \in Nodes : {Note("event", n)} \subseteq Messages
  BY DEF ObserveNotes, SweepNotes, Messages, Note, OfNode, NewlyOffline

LEMMA LimitsNext ==
  ASSUME IInv, [Next]_vars
  PROVE  LimitsHold'
<1>1. LimitsHold /\ active \in [Findings -> Entry] /\ {} \subseteq Messages
      /\ cfg \in Configs /\ intermittent \subseteq Nodes
  BY DEF IInv, Typed, LimitsHold
<1>2. ASSUME NEW n \in Nodes, NEW found \in Lists, Observe(n, found) PROVE LimitsHold'
  <2>1. Post(ObserveNotes(n, found)) /\ cfg' = cfg /\ intermittent' = intermittent
    BY <1>2 DEF Observe
  <2> QED
    BY <1>1, <2>1, NotesAreMessages, PostKeepsLimits
<1>3. CASE Sweep
  <2>1. Post(SweepNotes) /\ cfg' = cfg /\ intermittent' = intermittent
    BY <1>3 DEF Sweep
  <2> QED
    BY <1>1, <2>1, NotesAreMessages, PostKeepsLimits
<1>4. ASSUME Post({}), cfg' \in Configs, intermittent' \subseteq Nodes PROVE LimitsHold'
  BY <1>1, <1>4, PostKeepsLimits
<1>5. ASSUME NEW p \in Findings, DropKey(p) PROVE LimitsHold'
  BY <1>1, <1>4, <1>5 DEF DropKey, Quietly
<1>6. ASSUME NEW n \in Nodes, ForgetNode(n) PROVE LimitsHold'
  BY <1>1, <1>4, <1>6 DEF ForgetNode, Quietly
<1>7. ASSUME NEW n \in Nodes, NEW flag \in BOOLEAN, SetIntermittent(n, flag) PROVE LimitsHold'
  BY <1>1, <1>4, <1>7 DEF SetIntermittent, Quietly
<1>8. ASSUME NEW n \in Nodes, NEW rank \in 0..2, Announce(n, rank) PROVE LimitsHold'
  <2> DEFINE msgs == IF cfg.channels /\ rank >= cfg.floor THEN {Note("event", n)} ELSE {}
  <2>1. Post(msgs) /\ cfg' = cfg /\ intermittent' = intermittent
    BY <1>8 DEF Announce, heldVars
  <2>2. msgs \subseteq Messages
    BY NotesAreMessages
  <2> HIDE DEF msgs
  <2> QED
    BY <1>1, <2>1, <2>2, PostKeepsLimits
<1>9. CASE Configure
  BY <1>1, <1>4, <1>9 DEF Configure, Quietly, heldVars
<1>10. CASE Deliver
  BY <1>1, <1>10, QueueAssumption DEF Deliver, heldVars, LimitsHold
<1>11. CASE Tick
  <2>1. \A p \in Findings : active'[p].severity = active[p].severity
    BY <1>1, <1>11 DEF Tick, Entry
  <2>2. /\ recent' = Aged(recent) /\ mail' = {} /\ lost' = {}
        /\ UNCHANGED <<intermittent, cfg, waiting, told>>
    BY <1>11 DEF Tick
  <2>3. /\ Aged(recent) \in Seq(0..Window - 1) /\ Len(Aged(recent)) <= Limit
        /\ \A i, j \in DOMAIN Aged(recent) : i < j => Aged(recent)[j] <= Aged(recent)[i]
    BY <1>1, AgedKeepsLimits
  <2> QED
    BY <1>1, <2>1, <2>2, <2>3 DEF LimitsHold
<1>12. CASE HostRestart
  BY <1>1, <1>12, QueueAssumption DEF HostRestart, LimitsHold
<1>13. CASE UNCHANGED vars
  BY <1>1, <1>13 DEF vars, heldVars, postVars, LimitsHold
<1> QED
  BY <1>2, <1>3, <1>5, <1>6, <1>7, <1>8, <1>9, <1>10, <1>11, <1>12, <1>13 DEF Next

LEMMA Initial == Init => IInv
<1> SUFFICES ASSUME Init PROVE IInv
  OBVIOUS
<1>1. Typed
  BY UnheldIsEntry, ParametersTyped, ConfigAssumption DEF Init, Typed, Never
<1>2. \A p \in Findings : Agrees(p)
  BY UnheldIsEntry DEF Init, Agrees
<1>3. OfflineIsUnseen
  BY DEF Init, OfflineIsUnseen
<1>4. LimitsHold
  BY QueueAssumption DEF Init, LimitsHold
<1> QED BY <1>1, <1>2, <1>3, <1>4, InvAgrees

LEMMA Inductive == IInv /\ [Next]_vars => IInv'
<1> SUFFICES ASSUME IInv, [Next]_vars PROVE IInv'
  OBVIOUS
<1>1. Typed' /\ \A p \in Findings : Agrees(p)'
  BY TypedNext
<1>2. OfflineIsUnseen'
  BY OfflineNext
<1>3. LimitsHold'
  BY LimitsNext
<1> QED BY <1>1, <1>2, <1>3 DEF IInv, RecordAgrees, AbsenceIsReal, Agrees

(* The inductive invariant holds in every reachable state.                  *)
THEOREM NotifierInvariant == Spec => []IInv
BY Initial, Inductive, PTL DEF Spec

(* The record of what was sent agrees with what was said, for any number of *)
(* nodes and findings and any settings (observe, sweep, drop, forget_node). *)
THEOREM RecordsAgree == Spec => []RecordAgrees
<1>1. IInv => RecordAgrees
  BY DEF IInv
<1> QED BY <1>1, NotifierInvariant, PTL

(* A node thought offline was unseen for longer than OFFLINE_AFTER_S.       *)
THEOREM OfflineNodesAreUnseen == Spec => []OfflineIsUnseen
<1>1. IInv => OfflineIsUnseen
  BY DEF IInv
<1> QED BY <1>1, NotifierInvariant, PTL

(* An absence the grace period is counted from is one no list interrupted.  *)
THEOREM AbsencesAreReal == Spec => []AbsenceIsReal
<1>1. IInv => AbsenceIsReal
  BY DEF IInv
<1> QED BY <1>1, NotifierInvariant, PTL

(* What the notifier keeps is in its range and right: its record of         *)
(* findings, its marks of nodes and its absences; the limiter never counts  *)
(* more than it allows, nor does the queue hold more than its size          *)
(* (notify.py, _enqueue).                                                   *)
THEOREM NotifierRecordsHold == Spec => []RecordsHold
<1>1. IInv => RecordsHold
  BY DEF IInv, RecordsHold, TypeOK, Typed, LimitsHold
<1> QED BY <1>1, NotifierInvariant, PTL

-----------------------------------------------------------------------------
(* What each step asks to be sent, but for the news passed on by announce.  *)
LEMMA NotesOfStep ==
  ASSUME [Next]_vars, NEW p, NEW e, e # "event",
         Note(e, p) \in mail' \cup lost',
         ~(UNCHANGED vars)
  PROVE  \/ \E n \in Nodes, found \in Lists : Observe(n, found) /\ Note(e, p) \in ObserveNotes(n, found)
         \/ Sweep /\ Note(e, p) \in SweepNotes
<1>1. ASSUME Post({}) PROVE FALSE
  BY <1>1, PostKeepsAll
<1>2. ASSUME NEW n \in Nodes, NEW found \in Lists, Observe(n, found)
      PROVE  Note(e, p) \in ObserveNotes(n, found)
  BY <1>2, PostKeepsAll DEF Observe
<1>3. ASSUME Sweep PROVE Note(e, p) \in SweepNotes
  BY <1>3, PostKeepsAll DEF Sweep
<1>4. ASSUME NEW n \in Nodes, NEW rank \in 0..2, Announce(n, rank) PROVE FALSE
  <2>1. mail' \cup lost' \subseteq {Note("event", n)}
    BY <1>4, PostKeepsAll DEF Announce
  <2>2. Note(e, p) = Note("event", n)
    BY <2>1
  <2> QED BY <2>2 DEF Note
<1>5. ~\E q \in Findings : DropKey(q)
  BY <1>1 DEF DropKey, Quietly
<1>6. ~\E n \in Nodes : ForgetNode(n)
  BY <1>1 DEF ForgetNode, Quietly
<1>7. ~\E n \in Nodes, flag \in BOOLEAN : SetIntermittent(n, flag)
  BY <1>1 DEF SetIntermittent, Quietly
<1>8. ~Configure
  BY <1>1 DEF Configure, Quietly
<1>9. ~Deliver /\ ~Tick /\ ~HostRestart
  BY DEF Deliver, Tick, HostRestart
<1> QED BY <1>2, <1>3, <1>4, <1>5, <1>6, <1>7, <1>8, <1>9 DEF Next

LEMMA NewsOfStep ==
  ASSUME [Next]_vars, NEW p \in Findings, NEW e \in Promise!Kinds,
         Note(e, p) \in mail' \cup lost',
         ~(UNCHANGED vars)
  PROVE  \/ \E n \in Nodes, found \in Lists : Observe(n, found) /\ Note(e, p) \in ObserveNotes(n, found)
         \/ Sweep /\ Note(e, p) \in SweepNotes
<1>1. e # "event"
  BY DEF Promise!Kinds
<1> QED BY <1>1, NotesOfStep

(* A node is said to have gone quiet by the sweep that marks it, and to be  *)
(* back by the report that takes the mark off.                              *)
LEMMA NodeNotes ==
  ASSUME [Next]_vars, ~(UNCHANGED vars), NEW n \in Nodes
  PROVE  /\ Note("offline", n) \in mail' \cup lost' =>
              n \notin offline /\ n \in offline' /\ n \notin intermittent
         /\ Note("online", n) \in mail' \cup lost' =>
              n \in offline /\ n \notin offline' /\ n \notin intermittent
<1>1. ASSUME NEW e \in {"offline", "online"}, Note(e, n) \in mail' \cup lost'
      PROVE  \/ /\ e = "online" /\ n \in offline /\ n \notin offline' /\ n \notin intermittent
             \/ /\ e = "offline" /\ n \notin offline /\ n \in offline' /\ n \notin intermittent
  <2>1. ASSUME NEW m \in Nodes, NEW found \in Lists, Observe(m, found),
               Note(e, n) \in ObserveNotes(m, found)
        PROVE  e = "online" /\ n \in offline /\ n \notin offline' /\ n \notin intermittent
    <3>1. e = "online" /\ m = n /\ Back(m)
      BY <1>1, <2>1 DEF ObserveNotes, Note
    <3> QED BY <2>1, <3>1 DEF Observe, Back
  <2>2. ASSUME Sweep, Note(e, n) \in SweepNotes
        PROVE  e = "offline" /\ n \notin offline /\ n \in offline' /\ n \notin intermittent
    <3>1. e = "offline" /\ n \in NewlyOffline \ intermittent
      BY <1>1, <2>2 DEF SweepNotes, Note
    <3> QED BY <2>2, <3>1 DEF Sweep, NewlyOffline
  <2>3. e # "event"
    BY <1>1
  <2> QED BY <1>1, <2>1, <2>2, <2>3, NotesOfStep
<1> QED BY <1>1

(* A silence is told once and its end once, and nothing is said of a node   *)
(* that may be away (notify.py, sweep and observe).                         *)
THEOREM OfflineToldOnce == Spec => OfflineOnce
<1>1. [Next]_vars =>
        [\A n \in Nodes :
          /\ Note("offline", n) \in mail' \cup lost' =>
               n \notin offline /\ n \in offline' /\ n \notin intermittent
          /\ Note("online", n) \in mail' \cup lost' =>
               n \in offline /\ n \notin offline' /\ n \notin intermittent]_vars
  BY NodeNotes
<1> QED BY <1>1, PTL DEF Spec, OfflineOnce

LEMMA ObserveNews ==
  ASSUME NEW n \in Nodes, NEW found \in Lists, NEW p \in Findings, NEW e \in Promise!Kinds
  PROVE  Note(e, p) \in ObserveNotes(n, found) <=>
           /\ p[1] = n /\ Tells(p, found)
           /\ \/ e = "finding" /\ ~active[p].sent
              \/ e = "escalated" /\ active[p].sent
BY DEF ObserveNotes, Note, OfNode, Promise!Kinds

LEMMA SweepNews ==
  ASSUME NEW p \in Findings, NEW e \in Promise!Kinds, Note(e, p) \in SweepNotes
  PROVE  e = "resolved" /\ Cleared(p) /\ active[p].sent
BY DEF SweepNotes, Note, Promise!Kinds

(* sweep resolves only what no list of the grace period mentioned.          *)
THEOREM ResolutionsWaitForGrace == Spec => ResolvedAfterGrace
<1>1. ASSUME IInv, [Next]_vars, NEW p \in Findings, Note("resolved", p) \in mail' \cup lost',
             ~(UNCHANGED vars)
      PROVE  unlisted[p] >= Grace
  <2>1. "resolved" \in Promise!Kinds
    BY DEF Promise!Kinds
  <2>2. Sweep /\ Note("resolved", p) \in SweepNotes
    BY <1>1, <2>1, NewsOfStep, ObserveNews
  <2>3. active[p].absent >= Grace
    BY <2>1, <2>2, SweepNews DEF Cleared
  <2>4. active[p] \in Entry /\ unlisted[p] \in 0..Grace /\ active[p].absent <= unlisted[p]
    BY <1>1 DEF IInv, Typed, AbsenceIsReal
  <2>5. active[p].absent \in -1..Grace
    BY <2>4, EntryFields
  <2> QED BY <2>3, <2>4, <2>5, ParametersTyped
<1>2. IInv /\ [Next]_vars =>
        [\A p \in Findings : Note("resolved", p) \in mail' \cup lost' => unlisted[p] >= Grace]_vars
  BY <1>1
<1> QED BY <1>2, NotifierInvariant, PTL DEF Spec, ResolvedAfterGrace

-----------------------------------------------------------------------------
(* Refinement: every step of the notifier is one of AlertPromise.           *)
Kept(p) == Promise!Announced(p) \/ Promise!Worse(p) \/ Promise!Over(p) \/ Promise!Unmentioned(p)

LEMMA AboutNews ==
  ASSUME NEW p, NEW e
  PROVE  e \in Promise!About(p) <=> e \in Promise!Kinds /\ Note(e, p) \in mail' \cup lost'
BY DEF Promise!About, Note

(* What a step says of a finding it does not observe.                       *)
LEMMA UnsaidStays ==
  ASSUME IInv, Saying(Silence), NEW p \in Findings
  PROVE  said'[p] \in {said[p], 0} /\ (active'[p].severity = 0 => said'[p] = 0)
BY SayingTyped, SilenceTyped DEF IInv, Typed

LEMMA SilentSteps ==
  ASSUME IInv, [Next]_vars, ~(UNCHANGED vars), NEW p \in Findings,
         ~\E n \in Nodes, found \in Lists : Observe(n, found), ~Sweep
  PROVE  said'[p] \in {said[p], 0}
<1>1. ASSUME Saying(Silence) PROVE said'[p] \in {said[p], 0}
  BY <1>1, UnsaidStays
<1>2. ASSUME NEW q \in Findings, DropKey(q) PROVE said'[p] \in {said[p], 0}
  BY <1>1, <1>2 DEF DropKey, Quietly
<1>3. ASSUME NEW n \in Nodes, ForgetNode(n) PROVE said'[p] \in {said[p], 0}
  BY <1>1, <1>3 DEF ForgetNode, Quietly
<1>4. ASSUME NEW n \in Nodes, NEW flag \in BOOLEAN, SetIntermittent(n, flag) PROVE said'[p] \in {said[p], 0}
  BY <1>1, <1>4 DEF SetIntermittent, Quietly
<1>5. ASSUME NEW n \in Nodes, NEW rank \in 0..2, Announce(n, rank) PROVE said'[p] \in {said[p], 0}
  BY <1>1, <1>5 DEF Announce
<1>6. ASSUME Configure PROVE said'[p] \in {said[p], 0}
  BY <1>1, <1>6 DEF Configure, Quietly
<1>7. CASE Deliver \/ Tick \/ HostRestart
  BY <1>7 DEF Deliver, Tick, HostRestart
<1> QED BY <1>2, <1>3, <1>4, <1>5, <1>6, <1>7 DEF Next

LEMMA ObserveKeeps ==
  ASSUME IInv, NEW n \in Nodes, NEW found \in Lists, Observe(n, found), NEW p \in Findings
  PROVE  Kept(p)
<1> DEFINE r == found[p[2]]
<1>1. active[p] \in Entry /\ said[p] \in 0..2 /\ r \in 0..2 /\ Agrees(p) /\ Typed
  BY InvAgrees DEF IInv, Typed, Lists, Findings
<1>2. said'[p] = IF active'[p].severity = 0 THEN 0
                 ELSE IF Spoken(n, found)[p] > 0 THEN Spoken(n, found)[p] ELSE said[p]
  BY SayingTyped, SpokenTyped, <1>1 DEF Observe, Typed
<1>3. Spoken(n, found)[p] = IF p[1] = n /\ Tells(p, found) THEN r ELSE 0
  BY SpokenTyped
<1>4. \A e \in Promise!Kinds : e \in Promise!About(p) <=> Note(e, p) \in ObserveNotes(n, found)
  BY AboutNews, PostKeepsAll DEF Observe
<1>5. Promise!About(p) \subseteq Promise!Kinds
  BY DEF Promise!About
<1>6. CASE p[1] = n /\ Tells(p, found)
  <2>1. r > 0
    BY <1>6 DEF Tells
  <2>2. active'[p] = Present(p, found)
    BY <1>6, <2>1, ObservedValue DEF Observe
  <2>3. active'[p].severity \in 1..2
    BY <1>1, <2>1, <2>2, PresentFields
  <2> HIDE DEF r
  <2>4. said'[p] = r
    BY <1>2, <1>3, <1>6, <2>1, <2>3, <1>1
  <2>5. CASE ~active[p].sent
    <3>1. \A e \in Promise!Kinds : e \in Promise!About(p) <=> e = "finding"
      BY <1>4, <1>6, <2>5, ObserveNews
    <3>2. Promise!About(p) = {"finding"}
      BY <1>5, <3>1 DEF Promise!Kinds
    <3>3. said[p] = 0
      BY <1>1, <2>5 DEF Agrees
    <3> QED BY <2>1, <2>4, <3>2, <3>3 DEF Kept, Promise!Announced
  <2>6. CASE active[p].sent
    <3>1. \A e \in Promise!Kinds : e \in Promise!About(p) <=> e = "escalated"
      BY <1>4, <1>6, <2>6, ObserveNews
    <3>2. Promise!About(p) = {"escalated"}
      BY <1>5, <3>1 DEF Promise!Kinds
    <3>3. said[p] > 0 /\ said[p] <= active[p].severity
      BY <1>1, <2>6 DEF Agrees
    <3>4. Escalates(p, found)
      BY <1>6, <2>6 DEF Tells
    <3>5. r > active[p].severity
      <4>1. active[p].severity \in 0..2 /\ active[p].severity # 0
        BY <1>1, <3>3, EntryFields
      <4> QED BY <3>4, <4>1 DEF Escalates, Rank, r
    <3>6. said[p] < r
      BY <1>1, <3>3, <3>5, EntryFields
    <3> QED BY <2>4, <3>2, <3>3, <3>6 DEF Kept, Promise!Worse
  <2> QED BY <2>5, <2>6
<1>7. CASE ~(p[1] = n /\ Tells(p, found))
  <2>1. Promise!About(p) = {}
    BY <1>4, <1>5, <1>7, ObserveNews
  <2>2. said'[p] \in {said[p], 0}
    BY <1>2, <1>3, <1>7
  <2> QED BY <2>1, <2>2 DEF Kept, Promise!Unmentioned
<1> QED BY <1>6, <1>7

LEMMA SweepKeeps ==
  ASSUME IInv, Sweep, NEW p \in Findings
  PROVE  Kept(p)
<1>1. Promise!About(p) \subseteq Promise!Kinds
  BY DEF Promise!About
<1>2. \A e \in Promise!About(p) : Note(e, p) \in SweepNotes
  BY AboutNews, PostKeepsAll DEF Sweep
<1>3. said'[p] \in {said[p], 0} /\ (active'[p].severity = 0 => said'[p] = 0)
  BY UnsaidStays DEF Sweep
<1>4. CASE Promise!About(p) = {}
  BY <1>3, <1>4 DEF Kept, Promise!Unmentioned
<1>5. CASE Promise!About(p) # {}
  <2>1. \A e \in Promise!About(p) : e = "resolved" /\ Cleared(p) /\ active[p].sent
    BY <1>1, <1>2, SweepNews
  <2>2. Promise!About(p) = {"resolved"} /\ Cleared(p) /\ active[p].sent
    BY <1>5, <2>1
  <2>3. active'[p].severity = 0
    BY <2>2, UnheldIsEntry DEF Sweep, Swept
  <2>4. said[p] > 0
    BY <2>2, InvAgrees DEF Agrees
  <2> QED BY <1>3, <2>2, <2>3, <2>4 DEF Kept, Promise!Over
<1> QED BY <1>4, <1>5

(* One message while a finding holds, one more when it gets worse and one   *)
(* when it resolves, in that order: the notifier implements AlertPromise,   *)
(* for any findings and settings, dropped messages counted as sent.         *)
THEOREM NotifierKeepsPromise == Spec => KeepsPromise
<1>1. Init => Promise!Init
  BY DEF Init, Promise!Init
<1>2. ASSUME IInv, IInv', [Next]_vars, ~(UNCHANGED vars) PROVE Promise!Next
  <2>1. said' \in [Findings -> 0..2]
    BY <1>2 DEF IInv, Typed
  <2>2. ASSUME NEW p \in Findings PROVE Kept(p)
    <3>1. CASE Sweep
      BY <1>2, <3>1, SweepKeeps
    <3>2. CASE \E n \in Nodes, found \in Lists : Observe(n, found)
      BY <1>2, <3>2, ObserveKeeps
    <3>3. CASE ~Sweep /\ ~\E n \in Nodes, found \in Lists : Observe(n, found)
      <4>1. said'[p] \in {said[p], 0}
        BY <1>2, <3>3, SilentSteps
      <4>2. Promise!About(p) = {}
        BY <1>2, <3>3, NewsOfStep, AboutNews
      <4> QED BY <4>1, <4>2 DEF Kept, Promise!Unmentioned
    <3> QED BY <3>1, <3>2, <3>3
  <2> QED BY <2>1, <2>2 DEF Promise!Next, Kept
<1>3. UNCHANGED vars => UNCHANGED <<said, mail \cup lost>>
  BY DEF vars, postVars
<1>4. IInv /\ IInv' /\ [Next]_vars => [Promise!Next]_<<said, mail \cup lost>>
  BY <1>2, <1>3
<1> QED BY <1>1, <1>4, NotifierInvariant, PTL DEF Spec, KeepsPromise, Promise!Spec

-----------------------------------------------------------------------------
(* The notifier in its surroundings.  A list in flight was made, within the *)
(* tick, of a snapshot that lacked whatever it lacks.  So a finding counted  *)
(* as absent was lacking no longer ago than it is absent; and if the         *)
(* snapshot has it again, the report that brought it back is still being     *)
(* folded, or was overtaken by the list last handed over.                    *)
Stages == {NoReport, [carries |-> "merged"], [carries |-> "other"]}
Reports == Stages \cup [carries : {"list"}, list : Lists, read : [Diagnosed -> Ranks]]

Surroundings ==
  /\ diagnosis \in [Nodes -> [Diagnosed -> Ranks]]
  /\ subject \in [Nodes -> [Subjects -> {"busy", "quiet", "gone"}]]
  /\ heard \in [Nodes -> Never..Deaf + 1] /\ steady \in [Nodes -> 0..Settle]
  /\ items \in [Nodes -> SUBSET Subjects] /\ vanished \in [Nodes -> SUBSET Subjects]
  /\ todo = {"judge"} \/ todo \subseteq Nodes
  /\ swept \in BOOLEAN /\ enrolled \subseteq Nodes /\ unseen \in [Nodes -> 0..SilentDrop + 1]
  /\ lacked \in [Nodes -> [Diagnosed -> 0..Grace + 1]] /\ overtaken \in [Nodes -> SUBSET Diagnosed]
  /\ inflight \in [Nodes -> [Callers -> Reports]]

ListsAgree ==
  \A n \in Nodes, c \in Callers, k \in Diagnosed :
    Carries(n, c, "list") =>
      /\ inflight[n][c].list[k] = inflight[n][c].read[k]
      /\ inflight[n][c].read[k] = 0 => lacked[n][k] = 0

LackingNow == \A n \in Nodes, k \in Diagnosed : diagnosis[n][k] = 0 => lacked[n][k] = 0
LoopWaits == \A n \in Nodes : ~Idle(n, Loop) => n \in todo

Absence(n, k) == active[<<n, k>>].absent
Absent(n, k) == Absence(n, k) # Never
SweptOut == swept => \A n \in Nodes, k \in Diagnosed : Absence(n, k) < Grace

Gone(n, k) == diagnosis[n][k] = 0 \/ BringsBack(n, k) \/ k \in overtaken[n]
AbsentIsCleared ==
  \A n \in Nodes, k \in Diagnosed : Absent(n, k) => lacked[n][k] <= Absence(n, k) /\ Gone(n, k)

Resolution(n, k) == Note("resolved", <<n, k>>)

Agreement == ListsAgree /\ LackingNow /\ LoopWaits /\ SweptOut /\ AbsentIsCleared
VInv == IInv /\ Surroundings /\ Agreement

LEMMA ReportFields ==
  ASSUME NEW r \in Reports
  PROVE  /\ r.carries \in {"nothing", "merged", "other", "list"}
         /\ r = NoReport <=> r.carries = "nothing"
         /\ r.carries = "list" => r.list \in Lists /\ r.read \in [Diagnosed -> Ranks]
  BY DEF Reports, Stages, NoReport

LEMMA ListingTyped ==
  ASSUME Surroundings, NEW n \in Nodes
  PROVE  /\ Listing(n) \in Reports /\ Listing(n).carries = "list" /\ Listing(n).read = diagnosis[n]
         /\ \A k \in Diagnosed : Listing(n).list[k] = diagnosis[n][k]
<1>1. diagnosis[n] \in [Diagnosed -> Ranks] /\ Diagnosed = Keys \ Subjects /\ Ranks \subseteq 0..2
  BY CallerAssumption DEF Surroundings, Diagnosed
<1>2. ASSUME NEW k \in Keys
      PROVE  (IF k \in Subjects THEN (IF k \in items[n] THEN 1 ELSE 0) ELSE diagnosis[n][k]) \in 0..2
  <2>1. k \notin Subjects => diagnosis[n][k] \in Ranks
    BY <1>1
  <2>2. k \notin Subjects => diagnosis[n][k] \in 0..2
    BY <1>1, <2>1
  <2>3. (IF k \in items[n] THEN 1 ELSE 0) \in 0..2
    OBVIOUS
  <2> QED BY <2>2, <2>3
<1>3. Notifiable(n) \in Lists /\ \A k \in Diagnosed : Notifiable(n)[k] = diagnosis[n][k]
  BY <1>1, <1>2 DEF Notifiable, Lists
<1> QED BY <1>1, <1>3 DEF Listing, Reports

(* What a finding counts as absent for is a number of ticks, or Never.      *)
LEMMA AbsenceTyped ==
  ASSUME IInv, NEW n \in Nodes, NEW k \in Diagnosed
  PROVE  /\ <<n, k>> \in Findings /\ active[<<n, k>>] \in Entry
         /\ Absence(n, k) \in -1..Grace /\ Grace \in Nat /\ Grace > 0
         /\ Absent(n, k) => Absence(n, k) \in 0..Grace
<1>1. <<n, k>> \in Findings /\ active[<<n, k>>] \in Entry
  BY DEF Findings, Diagnosed, IInv, Typed
<1>2. active[<<n, k>>].absent \in -1..Grace
  BY <1>1, EntryFields
<1> QED BY <1>1, <1>2, ParametersTyped DEF Absence, Absent, Never

(* Sending nothing is what setting a node's mark to what it is does.        *)
LEMMA SilentStep ==
  ASSUME IInv, mail' = {}, lost' = {},
         UNCHANGED <<heldVars, cfg, recent, waiting, said, told, unlisted>>
  PROVE  [Next]_vars
<1>1. /\ recent \in Seq(0..Window - 1) /\ Len(recent) \in Nat /\ Len(recent) <= Limit
      /\ Limit \in Nat /\ QueueMax \in Nat /\ waiting \in 0..QueueMax
      /\ mail \subseteq Messages /\ lost \subseteq Messages
      /\ told \subseteq {p \in Findings : active[p].severity > 0}
  BY QueueAssumption DEF IInv, LimitsHold
<1>2. Post({})
  <2>1. {} \in SUBSET {} /\ Cardinality({}) = 0
    BY FS_EmptySet
  <2>2. 0 = AtMost(0, Limit - Len(recent)) /\ 0 = AtMost(0, QueueMax - waiting)
    BY <1>1 DEF AtMost
  <2>3. recent' = recent \o [i \in 1..0 |-> 0]
    <3>1. [i \in 1..0 |-> 0] = << >>
      OBVIOUS
    <3> QED BY <1>1, <3>1, ConcatEmptySeq
  <2>4. waiting' = waiting + 0 /\ mail' = {} /\ lost' = {} \ {}
    BY <1>1
  <2>5. told' = {p \in Findings : /\ active'[p].severity > 0
                                  /\ \/ p \in told
                                     \/ \E e \in {"finding", "escalated"} : Note(e, p) \in {}}
    BY <1>1 DEF heldVars
  <2> QED BY <2>1, <2>2, <2>3, <2>4, <2>5 DEF Post
<1>3. Saying(Silence)
  <2>1. \A p \in Findings : said[p] = IF active[p].severity = 0 THEN 0 ELSE said[p]
    <3>1. \A p \in Findings : /\ active[p] \in Entry /\ said[p] \in 0..2 /\ Agrees(p)
      BY InvAgrees DEF IInv, Typed
    <3> QED BY <3>1, EntryFields DEF Agrees
  <2>2. said \in [Findings -> 0..2]
    BY DEF IInv, Typed
  <2>3. said' = [p \in Findings |-> IF active'[p].severity = 0 THEN 0
                                    ELSE IF Silence[p] > 0 THEN Silence[p] ELSE said[p]]
    BY <2>1, <2>2, SilenceTyped DEF heldVars
  <2> QED BY <2>3 DEF Saying
<1>4. CASE \E n \in Nodes : TRUE
  <2>1. PICK n \in Nodes : TRUE
    BY <1>4
  <2>2. \E flag \in BOOLEAN : SetIntermittent(n, flag)
    <3>1. UNCHANGED <<active, silent, offline, cfg, unlisted, intermittent>> /\ Quietly
      BY <1>2, <1>3 DEF Quietly, heldVars
    <3>2. CASE n \in intermittent
      <4>1. SetIntermittent(n, TRUE)
        BY <3>1, <3>2 DEF SetIntermittent
      <4> QED BY <4>1
    <3>3. CASE n \notin intermittent
      <4>1. SetIntermittent(n, FALSE)
        BY <3>1, <3>3 DEF SetIntermittent
      <4> QED BY <4>1
    <3> QED BY <3>2, <3>3
  <2> QED BY <2>1, <2>2 DEF Next
<1>5. CASE ~ \E n \in Nodes : TRUE
  <2>1. Messages = {}
    BY <1>5 DEF Messages, Findings
  <2> QED BY <1>1, <2>1 DEF vars, heldVars, postVars
<1> QED BY <1>4, <1>5

(* Whoever calls the notifier, it does what Notifier says.                  *)
LEMMA HandOverStep ==
  ASSUME VInv, NEW n \in Nodes, NEW c \in Callers, HandOver(n, c)
  PROVE  /\ inflight[n][c].list \in Lists /\ Observe(n, inflight[n][c].list)
         /\ [Next]_vars
<1>1. inflight[n][c] \in Reports /\ inflight[n][c].carries = "list"
  BY DEF VInv, Surroundings, HandOver, Carries
<1>2. inflight[n][c].list \in Lists /\ Observe(n, inflight[n][c].list)
  BY <1>1, ReportFields DEF HandOver
<1> QED BY <1>2 DEF Next

LEMMA VigilStep ==
  ASSUME VInv, [VigilNext]_allVars
  PROVE  [Next]_vars
<1>1. Surroundings /\ IInv
  BY DEF VInv
<1>2. CASE NoCall
  BY <1>1, <1>2, SilentStep DEF NoCall
<1>3. ASSUME NEW n \in Nodes, NEW t \in Threads,
             ReceiveList(n, t) \/ ReceiveOther(n, t) \/ MakeList(n, t) \/ Fold(n, t)
      PROVE  [Next]_vars
  BY <1>2, <1>3 DEF ReceiveList, ReceiveOther, Receive, MakeList, Fold
<1>4. ASSUME NEW n \in Nodes, NEW t \in Threads, Tell(n, t) PROVE [Next]_vars
  BY <1>4, HandOverStep DEF Tell, Callers
<1>5. ASSUME NEW n \in Nodes, LoopDrop(n) PROVE [Next]_vars
  <2>1. PICK k \in vanished[n] : DropKey(<<n, k>>)
    BY <1>5 DEF LoopDrop
  <2>2. <<n, k>> \in Findings
    BY <1>1, <2>1, SubjectAssumption DEF Surroundings, Findings
  <2> QED BY <2>1, <2>2 DEF Next
<1>6. ASSUME NEW n \in Nodes, LoopCopy(n) \/ LoopRenotify(n) PROVE [Next]_vars
  BY <1>2, <1>6, HandOverStep DEF LoopCopy, LoopRenotify, Callers
<1>7. ASSUME NEW n \in Nodes, Remove(n) PROVE [Next]_vars
  BY <1>7 DEF Remove, Next
<1>8. CASE LoopSweep
  BY <1>8 DEF LoopSweep, Next
<1>9. CASE LoopJudge
  BY <1>2, <1>9 DEF LoopJudge
<1>10. CASE Minute
  BY <1>10 DEF Minute, Next
<1>11. CASE WorkerDelivers
  BY <1>11 DEF WorkerDelivers, Next
<1>12. CASE UNCHANGED allVars
  BY <1>12 DEF allVars
<1> QED BY <1>3, <1>4, <1>5, <1>6, <1>7, <1>8, <1>9, <1>10, <1>11, <1>12 DEF VigilNext

(* What a call of the notifier does to the absences of findings.            *)
LEMMA ObserveAbsences ==
  ASSUME IInv, NEW n \in Nodes, NEW found \in Lists, Observe(n, found),
         NEW m \in Nodes, NEW k \in Diagnosed
  PROVE  /\ m # n => Absence(m, k)' = Absence(m, k)
         /\ m = n /\ found[k] > 0 => ~Absent(m, k)'
         /\ Absence(m, k)' \in {Absence(m, k), 0, Never}
         /\ Resolution(m, k) \notin mail' \cup lost'
<1> DEFINE p == <<m, k>>
<1>1. p \in Findings /\ p[1] = m /\ p[2] = k /\ active[p] \in Entry
  BY AbsenceTyped
<1>2. active'[p] = IF p[1] # n THEN active[p]
                   ELSE IF found[p[2]] > 0 THEN Present(p, found) ELSE Missing(active[p])
  BY <1>1, ObservedValue DEF Observe
<1>3. Present(p, found).absent = Never /\ Missing(active[p]).absent \in {active[p].absent, 0}
  BY <1>1 DEF Present, Missing, Entry
<1>4. mail' \cup lost' = ObserveNotes(n, found)
  BY PostKeepsAll DEF Observe
<1>5. Note("resolved", p) \notin ObserveNotes(n, found)
  BY <1>1, ObserveNews DEF Promise!Kinds
<1> HIDE DEF p
<1>6. /\ m # n => active'[p].absent = active[p].absent
      /\ m = n /\ found[k] > 0 => active'[p].absent = Never
      /\ active'[p].absent \in {active[p].absent, 0, Never}
      /\ Note("resolved", p) \notin mail' \cup lost'
  BY <1>1, <1>2, <1>3, <1>4, <1>5
<1> QED BY <1>6 DEF Absence, Absent, Resolution, p

(* A list handed over leaves absences in agreement with the snapshot.       *)
LEMMA HandOverKeeps ==
  ASSUME VInv, IInv', NEW n \in Nodes, NEW c \in Callers, NEW r \in Stages,
         HandOver(n, c), Goes(n, c, r), LoopWaits'
  PROVE  Agreement'
<1>1. IInv /\ Surroundings /\ ListsAgree /\ LackingNow /\ SweptOut /\ AbsentIsCleared
  BY DEF VInv, Agreement
<1> DEFINE found == inflight[n][c].list
<1>2. /\ found \in Lists /\ Observe(n, found)
      /\ UNCHANGED <<diagnosis, swept, lacked>>
      /\ overtaken' = [overtaken EXCEPT ![n] =
                         {k \in Diagnosed : inflight[n][c].read[k] = 0 /\ diagnosis[n][k] > 0}]
  BY HandOverStep DEF HandOver
<1>3. /\ \A k \in Diagnosed : found[k] = inflight[n][c].read[k] /\ (found[k] = 0 => lacked[n][k] = 0)
      /\ \A k \in Diagnosed : found[k] \in 0..2
  BY <1>1, <1>2 DEF HandOver, ListsAgree, Lists, Diagnosed
<1>4. /\ inflight'[n][c] = r /\ r.carries # "list"
      /\ \A m \in Nodes, d \in Callers : m # n \/ d # c => inflight'[m][d] = inflight[m][d]
  BY <1>1 DEF Goes, Surroundings, Stages, NoReport
<1> HIDE DEF found
<1>5. ListsAgree' /\ LackingNow'
  BY <1>1, <1>2, <1>4 DEF ListsAgree, LackingNow, Carries
<1>6. \A m \in Nodes, k \in Diagnosed :
        /\ m # n => Absence(m, k)' = Absence(m, k)
        /\ m = n /\ found[k] > 0 => ~Absent(m, k)'
        /\ Absence(m, k)' \in {Absence(m, k), 0, Never}
  BY <1>1, <1>2, ObserveAbsences
<1>7. SweptOut'
  <2>1. ASSUME NEW m \in Nodes, NEW k \in Diagnosed, Absence(m, k) < Grace
        PROVE  Absence(m, k)' < Grace
    <3>1. Absence(m, k)' \in {Absence(m, k), 0, Never}
      BY <1>6
    <3> QED BY <2>1, <3>1, ParametersTyped DEF Never
  <2> QED BY <1>1, <1>2, <2>1 DEF SweptOut
<1>8. ASSUME NEW m \in Nodes, NEW k \in Diagnosed, Absent(m, k)'
      PROVE  lacked'[m][k] <= Absence(m, k)' /\ Gone(m, k)'
  <2>1. CASE m # n
    <3>1. Absence(m, k)' = Absence(m, k) /\ Absent(m, k)
      BY <1>6, <1>8, <2>1 DEF Absent
    <3>2. lacked[m][k] <= Absence(m, k) /\ Gone(m, k)
      BY <1>1, <3>1 DEF AbsentIsCleared
    <3>3. overtaken'[m] = overtaken[m]
      BY <1>1, <1>2, <2>1 DEF Surroundings
    <3> QED BY <1>2, <1>4, <2>1, <3>1, <3>2, <3>3 DEF Gone, BringsBack, Carries
  <2>2. CASE m = n
    <3>1. found[k] = 0 /\ inflight[n][c].read[k] = 0 /\ lacked[n][k] = 0
      BY <1>3, <1>6, <1>8, <2>2
    <3>2. diagnosis[n][k] \in 0..2
      <4>1. diagnosis[n][k] \in Ranks
        BY <1>1 DEF Surroundings
      <4> QED BY <4>1, CallerAssumption
    <3>3. diagnosis[n][k] = 0 \/ k \in overtaken'[n]
      BY <1>1, <1>2, <3>1, <3>2 DEF Surroundings
    <3>4. Absence(m, k)' \in 0..Grace
      <4>1. active'[<<m, k>>] \in Entry
        BY <1>1, AbsenceTyped DEF IInv, Typed
      <4>2. active'[<<m, k>>].absent \in -1..Grace
        BY <4>1, EntryFields
      <4> QED BY <1>8, <4>2, ParametersTyped DEF Absent, Absence, Never
    <3> QED BY <1>2, <2>2, <3>1, <3>3, <3>4 DEF Gone
  <2> QED BY <2>1, <2>2
<1>9. AbsentIsCleared'
  BY <1>8 DEF AbsentIsCleared
<1> QED BY <1>5, <1>7, <1>9 DEF Agreement

(* The sweep resolves what has been absent for the grace period.            *)
LEMMA SweepResolves ==
  ASSUME VInv, Sweep, NEW n \in Nodes, NEW k \in Diagnosed
  PROVE  /\ Resolution(n, k) \in mail' \cup lost' => Absence(n, k) = Grace
         /\ Absent(n, k)' => Absence(n, k)' = Absence(n, k) /\ Absence(n, k) < Grace
<1> DEFINE p == <<n, k>>
<1>1. /\ IInv /\ p \in Findings /\ active[p] \in Entry /\ active[p].absent \in -1..Grace
      /\ Grace \in Nat /\ Grace > 0
  BY AbsenceTyped DEF VInv, Absence
<1>2. ASSUME Note("resolved", p) \in mail' \cup lost' PROVE active[p].absent = Grace
  <2>1. Note("resolved", p) \in SweepNotes
    BY <1>2, PostKeepsAll DEF Sweep
  <2>2. active[p].absent >= Grace
    BY <1>1, <2>1, SweepNews DEF Cleared, Promise!Kinds
  <2> QED BY <1>1, <2>2
<1>3. Unheld.absent = Never
  BY DEF Unheld
<1>4. ASSUME active'[p].absent # Never
      PROVE  active'[p].absent = active[p].absent /\ active[p].absent < Grace
  <2>1. active'[p] = IF Vanished(p) \/ Cleared(p) THEN Unheld ELSE active[p]
    BY <1>1 DEF Sweep, Swept
  <2>2. active'[p] = active[p] /\ ~Vanished(p) /\ ~Cleared(p)
    BY <1>3, <1>4, <2>1
  <2>3. active[p].severity # 0
    <3>1. active[p].severity = 0 => active[p] = Unheld
      BY <1>1, InvAgrees DEF Agrees
    <3> QED BY <1>3, <1>4, <2>2, <3>1
  <2>4. active[p].severity > 0
    BY <1>1, <2>3, EntryFields
  <2> QED BY <1>1, <2>2, <2>4 DEF Cleared
<1> HIDE DEF p
<1>5. /\ Note("resolved", p) \in mail' \cup lost' => active[p].absent = Grace
      /\ active'[p].absent # Never => active'[p].absent = active[p].absent /\ active[p].absent < Grace
  BY <1>2, <1>4
<1> QED BY <1>5 DEF Resolution, Absence, Absent, p

-----------------------------------------------------------------------------
LEMMA VigilInitial == VigilInit => VInv
<1> SUFFICES ASSUME VigilInit PROVE VInv
  OBVIOUS
<1>1. IInv
  BY Initial DEF VigilInit
<1>2. Surroundings
  <2>1. /\ 0 \in 0..Settle /\ Never \in Never..Deaf + 1 /\ 0 \in 0..SilentDrop + 1
        /\ 0 \in 0..Grace + 1 /\ 0 \in Ranks
    BY DeafAssumption, CallerAssumption, ParametersTyped DEF Never
  <2>2. NoReport \in Reports
    BY DEF Reports, Stages
  <2>3. /\ diagnosis \in [Nodes -> [Diagnosed -> Ranks]]
        /\ lacked \in [Nodes -> [Diagnosed -> 0..Grace + 1]] /\ overtaken \in [Nodes -> SUBSET Diagnosed]
        /\ subject \in [Nodes -> [Subjects -> {"busy", "quiet", "gone"}]]
    BY <2>1 DEF VigilInit
  <2>4. /\ heard \in [Nodes -> Never..Deaf + 1] /\ steady \in [Nodes -> 0..Settle]
        /\ unseen \in [Nodes -> 0..SilentDrop + 1]
    BY <2>1 DEF VigilInit
  <2>5. items \in [Nodes -> SUBSET Subjects] /\ vanished \in [Nodes -> SUBSET Subjects]
    BY DEF VigilInit
  <2>6. inflight \in [Nodes -> [Callers -> Reports]]
    BY <2>2 DEF VigilInit
  <2> QED BY <2>3, <2>4, <2>5, <2>6 DEF VigilInit, Surroundings
<1>3. \A n \in Nodes, c \in Callers : Idle(n, c) /\ ~Carries(n, c, "list")
  BY DEF VigilInit, Idle, Carries, NoReport
<1>4. ListsAgree /\ LackingNow /\ LoopWaits /\ SweptOut
  BY <1>3 DEF VigilInit, ListsAgree, LackingNow, LoopWaits, SweptOut, Callers
<1>5. AbsentIsCleared
  <2>1. \A n \in Nodes, k \in Diagnosed : <<n, k>> \in Findings
    BY DEF Findings, Diagnosed
  <2> QED BY <2>1 DEF VigilInit, Init, Unheld, AbsentIsCleared, Absent, Absence
<1> QED BY <1>1, <1>2, <1>4, <1>5 DEF VInv, Agreement

(* Steps that leave lists and diagnosis as they are and begin no absence.   *)
LEMMA AgreementStays ==
  ASSUME VInv, IInv', UNCHANGED <<diagnosis, inflight, lacked, overtaken>>, LoopWaits',
         \A n \in Nodes, k \in Diagnosed : Absent(n, k)' => Absence(n, k)' = Absence(n, k),
         \/ swept' = swept
         \/ \A n \in Nodes, k \in Diagnosed : Absent(n, k)' => Absence(n, k) < Grace
  PROVE  Agreement'
<1>1. IInv /\ ListsAgree /\ LackingNow /\ SweptOut /\ AbsentIsCleared
  BY DEF VInv, Agreement
<1>2. ListsAgree' /\ LackingNow'
  BY <1>1 DEF ListsAgree, LackingNow, Carries
<1>3. AbsentIsCleared'
  BY <1>1 DEF AbsentIsCleared, Absent, Gone, BringsBack, Carries
<1>4. SweptOut'
  <2>1. ASSUME NEW n \in Nodes, NEW k \in Diagnosed, swept' PROVE Absence(n, k)' < Grace
    <3>1. CASE Absent(n, k)'
      BY <1>1, <2>1, <3>1 DEF SweptOut
    <3>2. CASE ~Absent(n, k)'
      BY <3>2, ParametersTyped DEF Absent, Never
    <3> QED BY <3>1, <3>2
  <2> QED BY <2>1 DEF SweptOut
<1> QED BY <1>2, <1>3, <1>4 DEF Agreement

(* A step of one caller that leaves the notifier alone.                     *)
LEMMA CallKeeps ==
  ASSUME VInv, NEW n \in Nodes, NEW c \in Callers, NEW r \in Reports,
         Goes(n, c, r), NoCall, UNCHANGED <<swept, overtaken>>, LoopWaits',
         lacked' \in [Nodes -> [Diagnosed -> 0..Grace + 1]], LackingNow',
         \A m \in Nodes, k \in Diagnosed :
           /\ lacked'[m][k] <= lacked[m][k] /\ (m # n => diagnosis'[m] = diagnosis[m])
           /\ r.carries = "list" => /\ r.list[k] = r.read[k]
                                    /\ r.read[k] = 0 => lacked'[n][k] = 0
           /\ Gone(n, k) => Gone(n, k)'
  PROVE  Agreement'
<1>1. Surroundings /\ IInv /\ ListsAgree /\ SweptOut /\ AbsentIsCleared
  BY DEF VInv, Agreement
<1>2. /\ inflight'[n][c] = r
      /\ \A m \in Nodes, d \in Callers : m # n \/ d # c => inflight'[m][d] = inflight[m][d]
  BY <1>1 DEF Goes, Surroundings
<1>3. \A m \in Nodes, k \in Diagnosed : lacked[m][k] \in 0..Grace + 1 /\ lacked'[m][k] \in 0..Grace + 1
  BY <1>1 DEF Surroundings
<1>4. \A m \in Nodes, k \in Diagnosed : lacked[m][k] = 0 => lacked'[m][k] = 0
  BY <1>3, ParametersTyped
<1>5. ListsAgree'
  <2>1. ASSUME NEW m \in Nodes, NEW d \in Callers, NEW k \in Diagnosed, inflight'[m][d].carries = "list"
        PROVE  /\ inflight'[m][d].list[k] = inflight'[m][d].read[k]
               /\ inflight'[m][d].read[k] = 0 => lacked'[m][k] = 0
    <3>1. CASE m = n /\ d = c
      BY <1>2, <2>1, <3>1
    <3>2. CASE m # n \/ d # c
      BY <1>1, <1>2, <1>4, <2>1, <3>2 DEF ListsAgree, Carries
    <3> QED BY <3>1, <3>2
  <2> QED BY <2>1 DEF ListsAgree, Carries
<1>6. \A m \in Nodes, k \in Diagnosed : Absence(m, k)' = Absence(m, k)
  BY DEF NoCall, heldVars, Absence
<1>7. SweptOut'
  BY <1>1, <1>6 DEF SweptOut
<1>8. ASSUME NEW m \in Nodes, NEW k \in Diagnosed, Absent(m, k)'
      PROVE  lacked'[m][k] <= Absence(m, k)' /\ Gone(m, k)'
  <2>1. lacked[m][k] <= Absence(m, k) /\ Gone(m, k)
    BY <1>1, <1>6, <1>8 DEF AbsentIsCleared, Absent
  <2>2. lacked'[m][k] <= Absence(m, k)'
    <3>1. Absence(m, k) \in -1..Grace
      BY <1>1, AbsenceTyped
    <3> QED BY <1>3, <1>6, <2>1, <3>1, ParametersTyped
  <2>3. CASE m = n
    BY <2>1, <2>2, <2>3
  <2>4. CASE m # n
    BY <1>2, <2>1, <2>2, <2>4 DEF Gone, BringsBack, Carries
  <2> QED BY <2>3, <2>4
<1>9. AbsentIsCleared'
  BY <1>8 DEF AbsentIsCleared
<1> QED BY <1>5, <1>7, <1>9 DEF Agreement

LEMMA ReceiveKeeps ==
  ASSUME VInv, NEW n \in Nodes, NEW t \in Threads, ReceiveList(n, t) \/ ReceiveOther(n, t)
  PROVE  Surroundings' /\ Agreement'
<1>1. PICK r \in Stages : /\ Receive(n, t, r)
                          /\ \/ UNCHANGED <<diagnosis, lacked>>
                             \/ r.carries = "merged" /\ ReceiveList(n, t)
  <2>1. CASE ReceiveList(n, t)
    BY <2>1 DEF ReceiveList, Stages
  <2>2. CASE ReceiveOther(n, t)
    BY <2>2 DEF ReceiveOther, Stages
  <2> QED BY <2>1, <2>2
<1>2. /\ Idle(n, t) /\ Goes(n, t, r) /\ NoCall /\ unseen' = [unseen EXCEPT ![n] = 0]
      /\ UNCHANGED <<pulseVars, loopVars, enrolled, overtaken>>
  BY <1>1 DEF Receive
<1>3. Surroundings /\ LackingNow /\ LoopWaits /\ IInv
  BY DEF VInv, Agreement
<1>4. t \in Callers /\ t # Loop /\ r \in Reports /\ r.carries # "list"
  BY CallerAssumption DEF Callers, Reports, Stages, NoReport
<1> DEFINE Merges ==
             /\ diagnosis' \in [Nodes -> [Diagnosed -> Ranks]]
             /\ lacked' \in [Nodes -> [Diagnosed -> 0..Grace + 1]]
             /\ \A m \in Nodes : m # n => diagnosis'[m] = diagnosis[m] /\ lacked'[m] = lacked[m]
             /\ \A k \in Diagnosed : /\ lacked'[n][k] = IF diagnosis'[n][k] = 0 THEN 0 ELSE lacked[n][k]
                                     /\ r.carries = "merged" \/ diagnosis'[n][k] = diagnosis[n][k]
<1>5. Merges
  <2>1. CASE UNCHANGED <<diagnosis, lacked>>
    BY <1>3, <2>1 DEF Surroundings, LackingNow
  <2>2. CASE r.carries = "merged" /\ ReceiveList(n, t)
    <3>1. PICK d \in [Diagnosed -> Ranks] :
            /\ diagnosis' = [diagnosis EXCEPT ![n] = d]
            /\ lacked' = [lacked EXCEPT ![n] = [k \in Diagnosed |-> IF d[k] = 0 THEN 0 ELSE @[k]]]
      BY <2>2 DEF ReceiveList
    <3>2. [k \in Diagnosed |-> IF d[k] = 0 THEN 0 ELSE lacked[n][k]] \in [Diagnosed -> 0..Grace + 1]
      <4>1. \A k \in Diagnosed : lacked[n][k] \in 0..Grace + 1 /\ 0 \in 0..Grace + 1
        BY <1>3, ParametersTyped DEF Surroundings
      <4> QED BY <4>1
    <3> QED BY <1>3, <2>2, <3>1, <3>2 DEF Surroundings
  <2> QED BY <1>1, <2>1, <2>2
<1> HIDE DEF Merges
<1>6. inflight'[n][t] = r /\ inflight' \in [Nodes -> [Callers -> Reports]]
      /\ \A m \in Nodes, c \in Callers : m # n \/ c # t => inflight'[m][c] = inflight[m][c]
  BY <1>2, <1>3, <1>4 DEF Goes, Surroundings
<1>7. Surroundings'
  <2>1. unseen' \in [Nodes -> 0..SilentDrop + 1]
    BY <1>2, <1>3, ParametersTyped DEF Surroundings
  <2> QED BY <1>2, <1>3, <1>5, <1>6, <2>1 DEF Surroundings, pulseVars, loopVars, Merges
<1>8. LoopWaits'
  BY <1>2, <1>3, <1>4, <1>6, CallerAssumption DEF LoopWaits, Idle, loopVars, Callers
<1>9. LackingNow'
  BY <1>3, <1>5 DEF LackingNow, Merges
<1>10. ASSUME NEW m \in Nodes, NEW k \in Diagnosed PROVE lacked'[m][k] <= lacked[m][k]
  <2>1. lacked[m][k] \in 0..Grace + 1
    BY <1>3 DEF Surroundings
  <2>2. lacked'[m][k] \in {0, lacked[m][k]}
    BY <1>5 DEF Merges
  <2> QED BY <2>1, <2>2, ParametersTyped
<1>11. ASSUME NEW k \in Diagnosed, Gone(n, k) PROVE Gone(n, k)'
  <2>1. CASE r.carries = "merged"
    BY <1>4, <1>6, <2>1 DEF Gone, BringsBack, Carries
  <2>2. CASE r.carries # "merged"
    <3>1. diagnosis'[n][k] = diagnosis[n][k]
      BY <1>5, <2>2 DEF Merges
    <3>2. ~Carries(n, t, "merged") /\ ~Carries(n, t, "list")
      BY <1>2 DEF Idle, Carries, NoReport
    <3>3. BringsBack(n, k) => BringsBack(n, k)'
      BY <1>6, <3>2 DEF BringsBack, Carries
    <3> QED BY <1>2, <1>11, <3>1, <3>3 DEF Gone
  <2> QED BY <2>1, <2>2
<1>12. Agreement'
  <2>1. lacked' \in [Nodes -> [Diagnosed -> 0..Grace + 1]]
        /\ \A m \in Nodes : m # n => diagnosis'[m] = diagnosis[m]
    BY <1>5 DEF Merges
  <2> QED BY <1>2, <1>4, <1>8, <1>9, <1>10, <1>11, <2>1, CallKeeps DEF loopVars
<1> QED BY <1>7, <1>12

(* A list is made of the snapshot as it is, by a thread or by the loop.     *)
LEMMA ListingKeeps ==
  ASSUME VInv, NEW n \in Nodes, NEW c \in Callers, Goes(n, c, Listing(n)), NoCall,
         ~Carries(n, c, "list"), c = Loop => n \in todo,
         UNCHANGED <<diagnosis, pulseVars, loopVars, enrolled, unseen, pastVars>>
  PROVE  Surroundings' /\ Agreement'
<1> DEFINE r == Listing(n)
<1>1. Surroundings /\ LackingNow /\ LoopWaits /\ IInv
  BY DEF VInv, Agreement
<1>2. /\ r \in Reports /\ r.carries = "list" /\ r.read = diagnosis[n]
      /\ \A k \in Diagnosed : r.list[k] = diagnosis[n][k]
  BY <1>1, ListingTyped
<1> HIDE DEF r
<1>3. /\ Goes(n, c, r) /\ inflight'[n][c] = r /\ inflight' \in [Nodes -> [Callers -> Reports]]
      /\ \A m \in Nodes, d \in Callers : m # n \/ d # c => inflight'[m][d] = inflight[m][d]
  BY <1>1, <1>2 DEF Goes, Surroundings, r
<1>4. Surroundings'
  BY <1>1, <1>3 DEF Surroundings, pulseVars, loopVars, pastVars
<1>5. LackingNow' /\ LoopWaits'
  BY <1>1, <1>3 DEF LackingNow, LoopWaits, Idle, loopVars, pastVars, Callers
<1>6. \A m \in Nodes, k \in Diagnosed : lacked'[m][k] <= lacked[m][k]
  BY <1>1, ParametersTyped DEF Surroundings, pastVars
<1>7. ASSUME NEW k \in Diagnosed, Gone(n, k) PROVE Gone(n, k)'
  <2>1. CASE diagnosis[n][k] = 0
    BY <2>1 DEF Gone
  <2>2. CASE diagnosis[n][k] # 0
    <3>1. diagnosis[n][k] \in 0..2
      <4>1. diagnosis[n][k] \in Ranks
        BY <1>1 DEF Surroundings
      <4> QED BY <4>1, CallerAssumption
    <3>2. BringsBack(n, k)'
      BY <1>2, <1>3, <2>2, <3>1 DEF BringsBack, Carries
    <3> QED BY <3>2 DEF Gone
  <2> QED BY <2>1, <2>2
<1>8. Agreement'
  <2>1. /\ lacked' \in [Nodes -> [Diagnosed -> 0..Grace + 1]]
        /\ \A m \in Nodes : m # n => diagnosis'[m] = diagnosis[m]
        /\ \A k \in Diagnosed : r.list[k] = r.read[k] /\ (r.read[k] = 0 => lacked'[n][k] = 0)
    BY <1>1, <1>2 DEF Surroundings, LackingNow, pastVars
  <2> QED BY <1>2, <1>3, <1>5, <1>6, <1>7, <2>1, CallKeeps DEF loopVars, pastVars
<1> QED BY <1>4, <1>8

LEMMA FoldKeeps ==
  ASSUME VInv, NEW n \in Nodes, NEW t \in Threads, Fold(n, t)
  PROVE  Surroundings' /\ Agreement'
<1>1. Surroundings /\ LackingNow /\ LoopWaits /\ IInv
  BY DEF VInv, Agreement
<1>2. /\ Carries(n, t, "other") /\ Goes(n, t, NoReport) /\ NoCall
      /\ UNCHANGED <<diagnosis, items, vanished, todo, swept, enrolled, unseen, lacked, overtaken>>
  BY DEF Fold, loopVars, pastVars
<1>3. NoReport \in Reports /\ NoReport.carries = "nothing" /\ t \in Callers
  BY DEF Reports, Stages, NoReport, Callers
<1>4. /\ inflight'[n][t] = NoReport /\ inflight' \in [Nodes -> [Callers -> Reports]]
      /\ \A m \in Nodes, c \in Callers : m # n \/ c # t => inflight'[m][c] = inflight[m][c]
  BY <1>1, <1>2, <1>3 DEF Goes, Surroundings
<1>5. Surroundings'
  <2>1. heard' \in [Nodes -> Never..Deaf + 1]
    <3>1. heard' = [heard EXCEPT ![n] = 0] /\ 0 \in Never..Deaf + 1
      BY DeafAssumption DEF Fold, Never
    <3> QED BY <1>1, <3>1 DEF Surroundings
  <2>2. steady' \in [Nodes -> 0..Settle]
    <3>1. /\ steady' = [steady EXCEPT ![n] = IF heard[n] = Never \/ heard[n] > Deaf THEN 0 ELSE @]
          /\ 0 \in 0..Settle
      BY DeafAssumption DEF Fold
    <3> QED BY <1>1, <3>1 DEF Surroundings
  <2>3. subject' \in [Nodes -> [Subjects -> {"busy", "quiet", "gone"}]]
    BY <1>1 DEF Fold, Surroundings
  <2> QED BY <1>1, <1>2, <1>4, <2>1, <2>2, <2>3 DEF Surroundings
<1>6. LackingNow' /\ LoopWaits'
  BY <1>1, <1>2, <1>3, <1>4, CallerAssumption DEF LackingNow, LoopWaits, Idle, Callers
<1>7. \A m \in Nodes, k \in Diagnosed : lacked'[m][k] <= lacked[m][k]
  BY <1>1, <1>2, ParametersTyped DEF Surroundings
<1>8. ASSUME NEW k \in Diagnosed, Gone(n, k) PROVE Gone(n, k)'
  <2>1. ~Carries(n, t, "merged") /\ ~Carries(n, t, "list")
    BY <1>2 DEF Carries
  <2>2. BringsBack(n, k) => BringsBack(n, k)'
    BY <1>4, <2>1 DEF BringsBack, Carries
  <2> QED BY <1>2, <1>8, <2>2 DEF Gone
<1>9. lacked' \in [Nodes -> [Diagnosed -> 0..Grace + 1]] /\ diagnosis' = diagnosis
  BY <1>1, <1>2 DEF Surroundings
<1>10. Agreement'
  BY <1>2, <1>3, <1>6, <1>7, <1>8, <1>9, CallKeeps
<1> QED BY <1>5, <1>10

LEMMA TellKeeps ==
  ASSUME VInv, IInv', NEW n \in Nodes, NEW c \in Callers, NEW r \in Stages,
         HandOver(n, c), Goes(n, c, r), UNCHANGED pulseVars,
         \/ c # Loop /\ todo' = todo
         \/ c = Loop /\ r = NoReport /\ todo' = todo \ {n} /\ n \in todo
  PROVE  Surroundings' /\ Agreement'
<1>1. Surroundings /\ LoopWaits
  BY DEF VInv, Agreement
<1>2. /\ inflight'[n][c] = r /\ inflight' \in [Nodes -> [Callers -> Reports]]
      /\ \A m \in Nodes, d \in Callers : m # n \/ d # c => inflight'[m][d] = inflight[m][d]
  BY <1>1 DEF Goes, Surroundings, Reports
<1>3. LoopWaits'
  BY <1>1, <1>2 DEF LoopWaits, Idle, Callers
<1>4. todo' = {"judge"} \/ todo' \subseteq Nodes
  BY <1>1, CallerAssumption DEF Surroundings
<1>5. overtaken' \in [Nodes -> SUBSET Diagnosed]
  BY <1>1 DEF HandOver, Surroundings
<1>6. Surroundings'
  BY <1>1, <1>2, <1>4, <1>5 DEF Surroundings, HandOver, pulseVars
<1> QED BY <1>3, <1>6, HandOverKeeps

(* A key that is dropped, a node that is forgotten: nothing is said, and    *)
(* what is still absent is as absent as it was.                             *)
LEMMA ForgettingIsQuiet ==
  ASSUME IInv, NEW n \in Nodes, NEW k \in Diagnosed,
         \/ \E p \in Findings : DropKey(p)
         \/ \E m \in Nodes : ForgetNode(m)
         \/ Deliver \/ NoCall
  PROVE  Absent(n, k)' => Absence(n, k)' = Absence(n, k)
<1>1. <<n, k>> \in Findings /\ active \in [Findings -> Entry] /\ Unheld.absent = Never
  BY AbsenceTyped DEF IInv, Typed, Unheld
<1>2. CASE \E p \in Findings : DropKey(p)
  BY <1>1, <1>2 DEF DropKey, Absent, Absence
<1>3. CASE \E m \in Nodes : ForgetNode(m)
  BY <1>1, <1>3 DEF ForgetNode, Absent, Absence
<1>4. CASE Deliver \/ NoCall
  BY <1>4 DEF Deliver, NoCall, heldVars, Absence
<1> QED BY <1>2, <1>3, <1>4

(* A minute: every age grows together, and no list is in flight.            *)
LEMMA MinuteKeeps ==
  ASSUME VInv, IInv', Minute
  PROVE  Surroundings' /\ Agreement'
<1>1. Surroundings /\ IInv /\ LackingNow /\ LoopWaits /\ SweptOut /\ AbsentIsCleared
  BY DEF VInv, Agreement
<1>2. /\ swept /\ todo = {} /\ \A n \in Nodes, t \in Threads : Idle(n, t)
      /\ swept' = FALSE /\ Tick
      /\ heard' = [n \in Nodes |-> Older(heard[n], Deaf + 1)]
      /\ steady' = [n \in Nodes |-> Older(steady[n], Settle)]
      /\ unseen' = [n \in Nodes |-> Older(unseen[n], SilentDrop + 1)]
      /\ lacked' = [n \in Nodes |-> [k \in Diagnosed |->
                     IF diagnosis[n][k] = 0 THEN 0 ELSE Older(lacked[n][k], Grace + 1)]]
      /\ UNCHANGED <<diagnosis, subject, items, vanished, inflight, todo, enrolled, overtaken>>
  BY DEF Minute
<1>3. ASSUME NEW n \in Nodes
      PROVE  /\ Older(heard[n], Deaf + 1) \in Never..Deaf + 1
             /\ Older(steady[n], Settle) \in 0..Settle
             /\ Older(unseen[n], SilentDrop + 1) \in 0..SilentDrop + 1
  <2>1. /\ heard[n] \in -1..Deaf + 1 /\ steady[n] \in 0..Settle /\ unseen[n] \in 0..SilentDrop + 1
        /\ Deaf \in Nat /\ Settle \in Nat /\ SilentDrop \in Nat
    BY <1>1, DeafAssumption, ParametersTyped DEF Surroundings, Never
  <2> QED BY <2>1 DEF Older, Never
<1>4. ASSUME NEW n \in Nodes, NEW k \in Diagnosed
      PROVE  /\ lacked'[n][k] = IF diagnosis[n][k] = 0 THEN 0 ELSE Older(lacked[n][k], Grace + 1)
             /\ lacked'[n][k] \in 0..Grace + 1 /\ lacked'[n][k] <= lacked[n][k] + 1
  <2>1. lacked'[n][k] = IF diagnosis[n][k] = 0 THEN 0 ELSE Older(lacked[n][k], Grace + 1)
    BY <1>2
  <2>2. lacked[n][k] \in 0..Grace + 1 /\ Grace \in Nat
    BY <1>1, ParametersTyped DEF Surroundings
  <2>3. lacked'[n][k] \in {0, lacked[n][k], lacked[n][k] + 1}
        /\ (lacked[n][k] = Grace + 1 => lacked'[n][k] \in {0, Grace + 1})
    BY <2>1, <2>2 DEF Older
  <2> QED BY <2>1, <2>2, <2>3
<1>5. lacked' \in [Nodes -> [Diagnosed -> 0..Grace + 1]]
  BY <1>2, <1>4
<1>6. Surroundings'
  BY <1>1, <1>2, <1>3, <1>5 DEF Surroundings
<1>7. \A n \in Nodes, c \in Callers : Idle(n, c)
  BY <1>1, <1>2 DEF LoopWaits, Callers
<1>8. ListsAgree' /\ LackingNow' /\ LoopWaits' /\ SweptOut'
  <2>1. ListsAgree'
    BY <1>2, <1>7 DEF ListsAgree, Carries, Idle, NoReport
  <2>2. LackingNow'
    BY <1>2, <1>4 DEF LackingNow
  <2>3. LoopWaits' /\ SweptOut'
    BY <1>1, <1>2 DEF LoopWaits, SweptOut, Idle
  <2> QED BY <2>1, <2>2, <2>3
<1>9. ASSUME NEW n \in Nodes, NEW k \in Diagnosed, Absent(n, k)'
      PROVE  lacked'[n][k] <= Absence(n, k)' /\ Gone(n, k)'
  <2>1. <<n, k>> \in Findings /\ active[<<n, k>>] \in Entry /\ Absence(n, k) \in -1..Grace
        /\ Grace \in Nat
    BY <1>1, AbsenceTyped
  <2>2. Absence(n, k)' = Older(Absence(n, k), Grace)
    <3>1. active'[<<n, k>>] = [active[<<n, k>>] EXCEPT !.absent = Older(@, Grace)]
      BY <1>2, <2>1 DEF Tick
    <3> QED BY <2>1, <3>1 DEF Absence, Entry
  <2>3. Absent(n, k)
    BY <1>9, <2>2 DEF Absent, Older
  <2>4. Absence(n, k) < Grace
    BY <1>1, <1>2 DEF SweptOut
  <2>5. Absence(n, k)' = Absence(n, k) + 1
    BY <2>1, <2>2, <2>3, <2>4 DEF Absent, Older
  <2>6. lacked[n][k] <= Absence(n, k) /\ Gone(n, k) /\ lacked[n][k] \in 0..Grace + 1
    BY <1>1, <2>3 DEF AbsentIsCleared, Surroundings
  <2>7. lacked'[n][k] <= Absence(n, k)'
    BY <1>4, <2>1, <2>5, <2>6
  <2>8. Gone(n, k)'
    BY <1>2, <2>6 DEF Gone, BringsBack, Carries
  <2> QED BY <2>7, <2>8
<1>10. AbsentIsCleared'
  BY <1>9 DEF AbsentIsCleared
<1> QED BY <1>6, <1>8, <1>10 DEF Agreement

LEMMA VigilInductive == VInv /\ [VigilNext]_allVars => VInv'
<1> SUFFICES ASSUME VInv, [VigilNext]_allVars PROVE VInv'
  OBVIOUS
<1>1. IInv'
  BY VigilStep, Inductive DEF VInv
<1>2. IInv /\ Surroundings /\ LoopWaits
  BY DEF VInv, Agreement
<1>3. ASSUME UNCHANGED <<diagnosis, inflight, lacked, overtaken, swept>>, Surroundings', LoopWaits',
             \/ \E p \in Findings : DropKey(p)
             \/ \E m \in Nodes : ForgetNode(m)
             \/ Deliver \/ NoCall
      PROVE  VInv'
  <2>1. \A n \in Nodes, k \in Diagnosed : Absent(n, k)' => Absence(n, k)' = Absence(n, k)
    BY <1>2, <1>3, ForgettingIsQuiet
  <2> QED BY <1>1, <1>3, <2>1, AgreementStays DEF VInv
<1>4. ASSUME NEW n \in Nodes, NEW t \in Threads, ReceiveList(n, t) \/ ReceiveOther(n, t) PROVE VInv'
  BY <1>1, <1>4, ReceiveKeeps DEF VInv
<1>5. ASSUME NEW n \in Nodes, NEW t \in Threads, MakeList(n, t) PROVE VInv'
  <2>1. t \in Callers /\ t # Loop /\ ~Carries(n, t, "list")
    BY <1>5, CallerAssumption DEF MakeList, Carries, Callers
  <2> QED BY <1>1, <1>5, <2>1, ListingKeeps DEF VInv, MakeList
<1>6. ASSUME NEW n \in Nodes, NEW t \in Threads, Tell(n, t) PROVE VInv'
  <2>1. /\ t \in Callers /\ t # Loop /\ [carries |-> "other"] \in Stages /\ todo' = todo
        /\ HandOver(n, t) /\ Goes(n, t, [carries |-> "other"]) /\ UNCHANGED pulseVars
    BY <1>6, CallerAssumption DEF Tell, HandOver, Callers, Stages
  <2> QED BY <1>1, <2>1, TellKeeps DEF VInv
<1>7. ASSUME NEW n \in Nodes, NEW t \in Threads, Fold(n, t) PROVE VInv'
  BY <1>1, <1>7, FoldKeeps DEF VInv
<1>8. ASSUME NEW n \in Nodes, LoopDrop(n) PROVE VInv'
  <2>1. PICK k \in vanished[n] : DropKey(<<n, k>>) /\ vanished' = [vanished EXCEPT ![n] = @ \ {k}]
    BY <1>8 DEF LoopDrop
  <2>2. <<n, k>> \in Findings
    BY <1>2, <2>1, SubjectAssumption DEF Surroundings, Findings
  <2>3. Surroundings' /\ LoopWaits' /\ UNCHANGED <<diagnosis, inflight, lacked, overtaken, swept>>
    BY <1>2, <1>8, <2>1 DEF LoopDrop, loopVars, pastVars, Surroundings, LoopWaits, Idle
  <2> QED BY <1>3, <2>1, <2>2, <2>3
<1>9. ASSUME NEW n \in Nodes, LoopCopy(n) PROVE VInv'
  <2>1. Loop \in Callers /\ ~Carries(n, Loop, "list") /\ n \in todo
    BY <1>9 DEF LoopCopy, Idle, Carries, NoReport, Callers
  <2> QED BY <1>1, <1>9, <2>1, ListingKeeps DEF VInv, LoopCopy
<1>10. ASSUME NEW n \in Nodes, LoopRenotify(n) PROVE VInv'
  <2>1. /\ Loop \in Callers /\ NoReport \in Stages /\ n \in todo /\ todo' = todo \ {n}
        /\ HandOver(n, Loop) /\ Goes(n, Loop, NoReport) /\ UNCHANGED pulseVars
    BY <1>10 DEF LoopRenotify, HandOver, Callers, Stages
  <2> QED BY <1>1, <2>1, TellKeeps DEF VInv
<1>11. ASSUME NEW n \in Nodes, Remove(n) PROVE VInv'
  <2>1. /\ ForgetNode(n) /\ enrolled' = enrolled \ {n}
        /\ items' = [items EXCEPT ![n] = {}] /\ vanished' = [vanished EXCEPT ![n] = {}]
        /\ heard' = [heard EXCEPT ![n] = Never] /\ steady' = [steady EXCEPT ![n] = 0]
        /\ subject' = [subject EXCEPT ![n] = [k \in Subjects |-> "gone"]]
        /\ UNCHANGED <<diagnosis, inflight, todo, swept, unseen, lacked, overtaken>>
    BY <1>11 DEF Remove, loopVars, pastVars
  <2>2. Never \in Never..Deaf + 1 /\ 0 \in 0..Settle
        /\ [k \in Subjects |-> "gone"] \in [Subjects -> {"busy", "quiet", "gone"}]
    BY DeafAssumption DEF Never
  <2>3. Surroundings' /\ LoopWaits'
    BY <1>2, <2>1, <2>2 DEF Surroundings, LoopWaits, Idle
  <2> QED BY <1>3, <2>1, <2>3
<1>12. CASE LoopSweep
  <2>1. Sweep /\ swept' = TRUE /\ todo = {} /\ todo' = {"judge"}
        /\ UNCHANGED <<diagnosis, subject, heard, steady, items, vanished, inflight, enrolled, unseen,
                       lacked, overtaken>>
    BY <1>12 DEF LoopSweep, pulseVars, pastVars
  <2>2. Surroundings' /\ LoopWaits'
    BY <1>2, <2>1 DEF Surroundings, LoopWaits, Idle
  <2>3. \A n \in Nodes, k \in Diagnosed :
          Absent(n, k)' => Absence(n, k)' = Absence(n, k) /\ Absence(n, k) < Grace
    BY <2>1, SweepResolves
  <2> QED BY <1>1, <2>1, <2>2, <2>3, AgreementStays DEF VInv
<1>13. CASE LoopJudge
  <2>1. PICK verdict \in [Nodes -> SUBSET Subjects] :
          /\ items' = verdict
          /\ vanished' = [n \in Nodes |-> {k \in items[n] \ verdict[n] : SubjectGone(n, k)}]
          /\ todo' = {n \in Nodes : Changed(n, verdict[n])}
    BY <1>13 DEF LoopJudge
  <2>2. /\ NoCall /\ todo = {"judge"}
        /\ UNCHANGED <<diagnosis, subject, heard, steady, inflight, swept, enrolled, unseen, lacked,
                       overtaken>>
    BY <1>13 DEF LoopJudge, pastVars
  <2>3. vanished' \in [Nodes -> SUBSET Subjects] /\ todo' \subseteq Nodes
    BY <1>2, <2>1 DEF Surroundings
  <2>4. Surroundings'
    BY <1>2, <2>1, <2>2, <2>3 DEF Surroundings
  <2>5. LoopWaits'
    BY <1>2, <2>2, CallerAssumption DEF LoopWaits, Idle
  <2> QED BY <1>3, <2>2, <2>4, <2>5
<1>14. CASE Minute
  BY <1>1, <1>14, MinuteKeeps DEF VInv
<1>15. CASE WorkerDelivers
  <2>1. Deliver /\ Surroundings' /\ LoopWaits' /\ UNCHANGED <<diagnosis, inflight, lacked, overtaken, swept>>
    BY <1>2, <1>15 DEF WorkerDelivers, pulseVars, loopVars, pastVars, Surroundings, LoopWaits, Idle
  <2> QED BY <1>3, <2>1
<1>16. CASE UNCHANGED allVars
  <2>1. UNCHANGED <<active, diagnosis, inflight, lacked, overtaken, swept, todo>>
    BY <1>16 DEF allVars, vars, heldVars, loopVars, pastVars
  <2>2. Surroundings' /\ LoopWaits'
    BY <1>2, <1>16, <2>1 DEF allVars, pulseVars, loopVars, pastVars, Surroundings, LoopWaits, Idle
  <2>3. \A n \in Nodes, k \in Diagnosed : Absence(n, k)' = Absence(n, k)
    BY <2>1 DEF Absence
  <2> QED BY <1>1, <2>1, <2>2, <2>3, AgreementStays DEF VInv
<1> QED BY <1>4, <1>5, <1>6, <1>7, <1>8, <1>9, <1>10, <1>11, <1>12, <1>13, <1>14, <1>15, <1>16 DEF VigilNext

(* What ingest, the Pulse and the sweep loop hold agrees with what the      *)
(* notifier counts as absent, at every moment between their steps, however  *)
(* reports of a node overlap (nodes.py, ingest and renotify; main.py,       *)
(* _sweep_loop).                                                            *)
THEOREM VigilInvariant == VigilSpec => []VInv
<1> QED BY VigilInitial, VigilInductive, PTL DEF VigilSpec

(* The composition stays within its ranges (nodes.py, ingest; pulse.py,     *)
(* _judge).                                                                 *)
THEOREM VigilTyped == VigilSpec => []VigilTypeOK
<1>1. VInv => VigilTypeOK
  BY DEF VInv, IInv, Surroundings, VigilTypeOK, TypeOK, Typed, LimitsHold
<1> QED BY <1>1, VigilInvariant, PTL

(* In its surroundings the notifier is still the notifier: every call that  *)
(* ingest, the sweep loop and the removal of an agent make is one of its    *)
(* operations, so all that is proved of Notifier holds of Vigil.            *)
THEOREM VigilIsNotifier == VigilSpec => Spec
<1>1. VigilInit => Init
  BY DEF VigilInit
<1>2. VInv /\ [VigilNext]_allVars => [Next]_vars
  BY VigilStep
<1> QED BY <1>1, <1>2, VigilInvariant, PTL DEF VigilSpec, Spec

LEMMA OnlySweepResolves ==
  ASSUME VInv, VigilNext, NEW n \in Nodes, NEW k \in Diagnosed, Resolution(n, k) \in mail' \cup lost'
  PROVE  Sweep
<1>1. IInv /\ (NoCall => mail' \cup lost' = {})
  BY DEF VInv, NoCall
<1>2. ASSUME NEW m \in Nodes, NEW c \in Callers, HandOver(m, c) PROVE Resolution(n, k) \notin mail' \cup lost'
  <2>1. inflight[m][c].list \in Lists /\ Observe(m, inflight[m][c].list)
    BY <1>2, HandOverStep
  <2> QED BY <1>1, <2>1, ObserveAbsences
<1>3. Quietly => mail' \cup lost' = {}
  BY PostKeepsAll DEF Quietly
<1>4. ASSUME NEW m \in Nodes, NEW t \in Threads,
             \/ ReceiveList(m, t) \/ ReceiveOther(m, t) \/ MakeList(m, t) \/ Fold(m, t) \/ Tell(m, t)
      PROVE  FALSE
  BY <1>1, <1>2, <1>4 DEF ReceiveList, ReceiveOther, Receive, MakeList, Fold, Tell, Callers
<1>5. ASSUME NEW m \in Nodes, LoopDrop(m) \/ LoopCopy(m) \/ LoopRenotify(m) \/ Remove(m)
      PROVE  FALSE
  BY <1>1, <1>2, <1>3, <1>5 DEF LoopDrop, DropKey, LoopCopy, LoopRenotify, Remove, ForgetNode, Callers
<1>6. ~LoopJudge /\ ~Minute /\ ~WorkerDelivers
  BY <1>1 DEF LoopJudge, Minute, Tick, WorkerDelivers, Deliver
<1> QED BY <1>4, <1>5, <1>6 DEF VigilNext, LoopSweep

(* A finding is resolved only if the merged snapshot lacked it at some      *)
(* moment of the grace period; and if the snapshot has it again, only while *)
(* the report that brought it back is being folded, or after a list made    *)
(* before that report was handed over after it (nodes.py, ingest, renotify  *)
(* and _notifiable).                                                        *)
THEOREM ResolvedWereLacking == VigilSpec => ResolvedWasLacking
<1>1. ASSUME VInv, [VigilNext]_allVars, ~(UNCHANGED allVars), NEW n \in Nodes, NEW k \in Diagnosed,
             Note("resolved", <<n, k>>) \in mail' \cup lost'
      PROVE  /\ lacked[n][k] <= Grace
             /\ diagnosis[n][k] = 0 \/ BringsBack(n, k) \/ k \in overtaken[n]
  <2>1. AbsentIsCleared /\ IInv
    BY <1>1 DEF VInv, Agreement
  <2>2. Sweep
    BY <1>1, OnlySweepResolves DEF Resolution
  <2>3. Absence(n, k) = Grace
    BY <1>1, <2>2, SweepResolves DEF Resolution
  <2>4. Absent(n, k)
    BY <2>3, ParametersTyped DEF Absent, Never
  <2> QED BY <2>1, <2>3, <2>4 DEF AbsentIsCleared, Gone
<1>2. VInv /\ [VigilNext]_allVars =>
        [\A n \in Nodes, k \in Diagnosed :
           Note("resolved", <<n, k>>) \in mail' \cup lost' =>
             /\ lacked[n][k] <= Grace
             /\ diagnosis[n][k] = 0 \/ BringsBack(n, k) \/ k \in overtaken[n]]_allVars
  BY <1>1
<1> QED BY <1>2, VigilInvariant, PTL DEF VigilSpec, ResolvedWasLacking
=============================================================================
