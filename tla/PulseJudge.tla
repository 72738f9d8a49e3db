----------------------------- MODULE PulseJudge -----------------------------
(***************************************************************************)
(* The Pulse (culprit/pulse.py): what one node's reports leave in its rings, *)
(* and which subjects the judgement says have gone quiet.                    *)
(*                                                                         *)
(* One tick is one sample of every subject that reports.  Stamps are only    *)
(* compared with "now" and are kept as ages, capped at Far.  The baseline    *)
(* of a usable subject is the same at every hour; timers, severities and     *)
(* sentences are left out.                                                  *)
(***************************************************************************)
EXTENDS Integers, FiniteSets, Sequences, SequencesExt, FiniteSetsExt

CONSTANTS
  Listeners, Units,   \* subjects beside the machine's network (units: their
                      \* activity and what they log)
  Readings,           \* what a sample of each subject may be
  Asides,             \* which subjects may be set aside together
  Floor,              \* floor_a: a sample this high is activity
  Line,               \* max(floor_a, pulse_quiet_ratio * p10)
  Back,               \* RECOVERED_RATIO * median
  Ring, Window, Recent, Hold, MinSamples, MinRecent,
  Settle,             \* QUIET_PERIOD_S
  Hour,               \* what an intermittent machine must stay for
  Idle,               \* SUBJECT_IDLE_S
  Fold,               \* MACHINE_FOLD
  Intermittent,       \* the operator said the machine is not always on
  Far                 \* ages stop here

ASSUME SpanAssumption ==
  /\ {Ring, Window, Hold, MinSamples, MinRecent, Fold} \subseteq Nat \ {0}
  /\ {Recent, Settle, Hour, Idle} \subseteq Nat
  /\ Far \in Nat /\ \A n \in {Window, Recent, Hold, Settle, Hour, Idle} : n < Far
\* pulse_hold_minutes may be set to 240, the ring is 40 minutes deep
ASSUME HoldAssumption == Hold < Ring
ASSUME IntermittentAssumption == Intermittent \in BOOLEAN

Net == "net"
All == "machine_quiet"
Subjects == Listeners \cup Units \cup {Net}
ASSUME ReadingAssumption ==
  /\ \A s \in Subjects : Readings[s] \subseteq Nat
  /\ Asides \subseteq SUBSET Subjects /\ {} \in Asides
  /\ Floor \in Nat /\ Line \in Nat /\ Back \in Nat
  /\ Floor <= Line /\ Line <= Back
ASSUME NamesAssumption ==
  Listeners \cap Units = {} /\ {Net, All} \cap (Listeners \cup Units) = {}

VARIABLES
  ring,       \* rings: [reading, age] of a subject, the newest first
  up,         \* listeners there now, units there and running, the network
  aside,      \* subjects without a rhythm now, or the Outage Doctor's already
  deaf,       \* no report within CONTINUITY_GAP_S
  online,     \* age of online_since
  gapped,     \* gaps is not empty
  judged,     \* last_judged is less than JUDGE_EVERY_S old
  since,      \* items: the age of "since" of every key said
  folded,     \* subjects whose items are folded into machine_quiet
  busy        \* ticks since a subject was last seen at or above the line

reported == <<ring, up, aside, deaf, online, gapped>>
said == <<since, folded>>
pulseVars == <<reported, said, judged, busy>>

held == DOMAIN since
SaidOf(s) == s \in held \cup folded
Older(n) == IF n < Far THEN n + 1 ELSE Far

-----------------------------------------------------------------------------
(* What the rings say.                                                      *)
\* A window of a ring is the set of the places of its samples.
Within(q, span) == {i \in DOMAIN q : q[i].age <= span}
ActiveIn(q, w) == {i \in w : q[i].reading >= Floor}

\* A mean, compared with a bound without dividing.
Total(q, w) == SumFunctionOnSet([i \in DOMAIN q |-> q[i].reading], w)
MeanBelow(q, w, bound) == Total(q, w) < bound * Cardinality(w)

-----------------------------------------------------------------------------
(* Faulty variants: the bugs the properties are there to notice.            *)
AnyQuiet(q, hint) == TRUE
LongerThanHold(q, hint) == Len(q) > 0 /\ q[Len(q)].age > Hold
BackAtLine(q) == ~MeanBelow(q, Within(q, Window), Line)
BackIfMany(q) ==
  /\ Cardinality(Within(q, Recent)) >= MinSamples
  /\ ~MeanBelow(q, Within(q, Recent), Back)

-----------------------------------------------------------------------------
(* One subject against its baseline.                                        *)
\* The firing test: the window is below the line and the subject idle in it.
GoneQuiet(q) ==
  LET w == Within(q, Window)
  IN MeanBelow(q, w, Line) /\ 5 * Cardinality(ActiveIn(q, w)) < Cardinality(w)

\* The clearing test: the last ten minutes reach half the normal median.
Recovered(q) ==
  LET few == Cardinality(Within(q, Recent)) < MinRecent
  IN ~MeanBelow(q, Within(q, IF few THEN Window ELSE Recent), Back)

\* Walk back while samples stay under the line: how old the run is.
Walked(q) ==
  LET above == {i \in DOMAIN q : q[i].reading >= Line}
      last == IF above = {} THEN Len(q) ELSE Min(above) - 1
  IN IF last = 0 THEN 0 ELSE q[last].age

\* since_hint: the older of what the ring shows and what was said before.
Stated(walked, hint) == IF hint > walked THEN hint ELSE walked

\* Long enough to be said for the first time.
Lasted(q, hint) == Stated(Walked(q), hint) >= Hold

-----------------------------------------------------------------------------
(* The judgement.                                                           *)
Settled == online >= Settle /\ ~(Intermittent /\ gapped /\ online < Hour)

Hint(s) == IF s \in held THEN since[s] ELSE 0

QuietSubject(s) ==
  /\ s \in up \ aside
  /\ Cardinality(Within(ring[s], Window)) >= MinSamples
  /\ IF s \in held THEN ~Recovered(ring[s])
     ELSE GoneQuiet(ring[s]) /\ Lasted(ring[s], Hint(s))

Quiet == IF deaf \/ ~Settled THEN {} ELSE {s \in Subjects : QuietSubject(s)}

\* Enough quiet listeners and a quiet network are one fact.
Folds(quiet) == Net \in quiet /\ Cardinality(quiet \cap Listeners) >= Fold

Judge ==
  LET quiet == Quiet
      under == IF Folds(quiet) THEN quiet \cap (Listeners \cup {Net}) ELSE {}
      run == [s \in quiet |-> Stated(Walked(ring[s]), Hint(s))]
  IN /\ ~judged
     /\ judged' = TRUE
     /\ folded' = under
     /\ since' = [k \in (quiet \ under) \cup (IF under = {} THEN {} ELSE {All}) |->
                    IF k = All THEN Max({run[s] : s \in under}) ELSE run[k]]
     /\ UNCHANGED <<reported, busy>>

-----------------------------------------------------------------------------
(* A tick: a report, or none.                                               *)
Aged(q) == [i \in DOMAIN q |-> [q[i] EXCEPT !.age = Older(@)]]

\* A gap or a reboot ends the run the ring holds.
Cleared(q, gap) == IF gap THEN <<>> ELSE q

\* When the hour turns, a subject not seen for long loses its ring.
Stale(q) == q # <<>> /\ q[1].age > Idle
Rolled(q, turned) == IF turned /\ Stale(q) THEN <<>> ELSE q

Sampled(q, x) ==
  <<[reading |-> x, age |-> 0]>> \o (IF Len(q) = Ring THEN Front(q) ELSE q)

TimePasses ==
  /\ judged    \* the judgement runs every minute
  /\ judged' = FALSE
  /\ since' = [k \in held |-> Older(since[k])]
  /\ UNCHANGED folded

Observe(there, out, x, rebooted, turned) ==
  LET gap == deaf \/ rebooted
      kept(s) == Rolled(Cleared(Aged(ring[s]), gap), turned)
  IN /\ up' = there
     /\ aside' = out
     /\ ring' = [s \in Subjects |-> IF s \in there THEN Sampled(kept(s), x[s]) ELSE kept(s)]
     /\ online' = IF gap THEN 0 ELSE Older(online)
     /\ gapped' = (gapped \/ gap)
     /\ deaf' = FALSE
     /\ busy' = [s \in Subjects |-> IF s \in there /\ x[s] >= Line THEN 0 ELSE Older(busy[s])]

\* One sample of every subject that is up.
Samples(there) ==
  {x \in [there -> UNION {Readings[s] : s \in there}] : \A s \in there : x[s] \in Readings[s]}

\* A reboot and the hour's turn only matter where there is a ring to lose.
Hear == \E others \in SUBSET (Listeners \cup Units), out \in Asides,
           rebooted \in {FALSE, ~deaf},
           turned \in {FALSE, \E s \in Subjects : Stale(Aged(ring[s]))} :
          \E x \in Samples(others \cup {Net}) :
            TimePasses /\ Observe(others \cup {Net}, out, x, rebooted, turned)

Unheard ==
  /\ TimePasses
  /\ ring' = [s \in Subjects |-> Aged(ring[s])]
  /\ deaf' = TRUE
  /\ online' = Older(online)
  /\ busy' = [s \in Subjects |-> Older(busy[s])]
  /\ UNCHANGED <<up, aside, gapped>>

Tick == Hear \/ Unheard

\* The state the first report of a node makes, before anything is folded.
PulseInit ==
  /\ ring = [s \in Subjects |-> <<>>]
  /\ up = {Net}
  /\ aside = {} /\ deaf = FALSE /\ online = 0 /\ gapped = FALSE
  /\ judged = FALSE /\ since = [k \in {} |-> 0] /\ folded = {}
  /\ busy = [s \in Subjects |-> 0]

PulseNext == Tick \/ Judge
PulseSpec == PulseInit /\ [][PulseNext]_pulseVars

\* Time passes, and the sweep judges after every tick: Tick and Judge, which
\* only ever alternate, go on for ever.
FairSpec == PulseSpec /\ WF_judged(judged' = ~judged)

-----------------------------------------------------------------------------
(* Every variable holds what the code can put there: a ring is never longer *)
(* than RING and its ages grow, and a subject is said once, by itself or    *)
(* inside machine_quiet.                                                    *)
PulseTypeOK ==
  /\ \A s \in Subjects :
       /\ Len(ring[s]) <= Ring
       /\ \A i \in DOMAIN ring[s] : ring[s][i] \in [reading : Readings[s], age : 0..Far]
       /\ \A i, j \in DOMAIN ring[s] : i < j => ring[s][i].age <= ring[s][j].age
  /\ up \subseteq Subjects /\ aside \in Asides /\ {deaf, gapped, judged} \subseteq BOOLEAN
  /\ online \in 0..Far /\ busy \in [Subjects -> 0..Far]
  /\ held \subseteq Subjects \cup {All} /\ \A k \in held : since[k] \in 0..Far
  /\ folded \subseteq Listeners \cup {Net} /\ held \cap folded = {}

(* A subject newly said to have gone quiet really was never seen at or      *)
(* above its line for as long as quiet must hold, and the host had been     *)
(* hearing the node for long enough to know (judge_subject, _settled).  Its *)
(* stated beginning is not earlier than its last reading at the line, nor   *)
(* later than was said of it before: one run is one number (since_hint).    *)
QuietIsReal ==
  [][\A s \in Subjects :
       /\ (SaidOf(s))' /\ ~SaidOf(s) => busy[s] > Hold /\ online >= Settle /\ ~deaf
       /\ s \in held' /\ s \notin held => since'[s] <= busy[s]
       /\ s \in held' /\ s \in held => since'[s] >= since[s]]_pulseVars

(* What is said stays said until the ten-minute mean is back to half the    *)
(* normal median, as long as the subject is there and judged: a twitch just *)
(* above the line does not clear it.  A folded subject is still spoken of.  *)
TwitchDoesNotClear ==
  [][\A s \in Subjects :
       /\ s \in held /\ ~(SaidOf(s))' /\ ~deaf /\ Settled
       /\ s \in up \ aside
       => \/ \E i \in DOMAIN ring[s] : ring[s][i].reading >= Back
          \/ Cardinality(Within(ring[s], Window)) < MinSamples]_pulseVars

(* A subject that stays below its line while the node is heard and the      *)
(* subject judged is said in the end.                                       *)
Newest(s) == IF ring[s] = <<>> THEN 0 ELSE ring[s][1].reading
QuietIsSaid == \A s \in Subjects :
  <>[](s \in up \ aside /\ ~deaf /\ online = Far /\ Newest(s) < Floor) => <>SaidOf(s)

(* A subject that is steadily back is not called quiet for ever.            *)
BackIsCleared == \A s \in Subjects :
  <>[](s \in up /\ ~deaf /\ Newest(s) >= Back) => <>[]~SaidOf(s)

(* What pulse.py says of a run that lasts: the number stated for it never   *)
(* gets smaller while it is said, whatever card it is said on.              *)
SilenceIsOneNumber == [][\A k \in held \cap held' : since'[k] >= since[k]]_pulseVars

=============================================================================
