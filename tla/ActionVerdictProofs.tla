------------------------ MODULE ActionVerdictProofs ------------------------
(***************************************************************************)
(* What ActionVerdict promises for any findings, threads, windows and       *)
(* limits.  The invariant adds to the types that an actor half way through a *)
(* judgement is alone in it and finds no verdict, that nothing but the       *)
(* sweep's clock ages a finished watch, and that what counts as cleared, in  *)
(* the watch or on the list a judge has begun, was missing from what was     *)
(* heard of it last.                                                        *)
(***************************************************************************)
EXTENDS ActionVerdict, TLAPS

JudgePlaces == {"judge", "look"}

CommandFirst == command # NoCommand => watch = NoWatch
NotAged == \A a \in Actors : actor[a] # Idle /\ watch.done => watch.over = 0
Undecided == \A a \in Actors : actor[a].at \in JudgePlaces => watch.done /\ watch.verdict = "none"
OneJudge == \A a, b \in Actors :
  actor[a].at \in JudgePlaces /\ actor[b].at \in JudgePlaces => a = b

(* What a judge has looked at and not put on the list of what is still there. *)
Looked(a) == IF actor[a].pass = "cleared" THEN {}
             ELSE IF actor[a].pass = "still" THEN watch.targets \ actor[a].todo ELSE watch.targets
Said(a) == Looked(a) \ actor[a].found["still"]

LackedHolds == watch.cleared \subseteq history.lacked
LooksHold == \A a \in Actors : actor[a].at = "look" => Said(a) \subseteq history.lacked

(* Without overlaps, the newest sample is folded in by one actor or wholly. *)
Alone == \A a, b \in Actors : Folding(a) /\ (Folding(b) \/ Judging(b)) => a = b
Newest == \A a \in Actors : Folding(a) =>
  /\ actor[a].sample.active = history.latest
  /\ (watch.targets \ actor[a].todo) \cap watch.cleared \cap history.latest = {}
Folded == (\A a \in Actors : ~Folding(a)) => watch.targets \cap watch.cleared \cap history.latest = {}
LooksAgree == \A a \in Actors : actor[a].at = "look" => Said(a) \subseteq watch.cleared
Whole == ~history.torn => Alone /\ Newest /\ Folded /\ LooksAgree

Heard == watch # NoWatch => LackedHolds /\ LooksHold /\ Whole

IInv ==
  /\ TypeOK /\ StoredIsVerdict
  /\ CommandFirst /\ NotAged /\ Undecided /\ OneJudge /\ Heard

-----------------------------------------------------------------------------
(* An actor that is somewhere in the verifier has what belongs there.       *)
LEMMA PlaceFields ==
  ASSUME NEW p \in Places
  PROVE  /\ p.at \in {"append", "fold"} => p.sample \in Samples
         /\ p.at = "fold" => p.todo \in SUBSET Keys /\ p = [at |-> "fold", sample |-> p.sample, todo |-> p.todo]
         /\ p.at = "look" => /\ p.pass \in Passes /\ p.todo \in SUBSET Keys
                             /\ p.fall \in 0..2 /\ p.found \in [Passes -> SUBSET Keys]
         /\ p.at = "look" => p = [at |-> "look", pass |-> p.pass, todo |-> p.todo,
                                  fall |-> p.fall, found |-> p.found]
         /\ p = Idle <=> p.at = "idle"
         /\ p.at \in {"idle", "append", "fold", "judge", "look", "store"}
  BY DEF Places, Idle

(* There is a watch while anybody is in the verifier.                       *)
LEMMA BusyIsWatching ==
  ASSUME IInv, NEW a \in Actors, actor[a] # Idle
  PROVE  watch # NoWatch /\ watch \in Watches
  BY DEF IInv, TypeOK, AtRest, Actors

LEMMA WatchIsNotNone ==
  ASSUME NEW w \in Watches
  PROVE  w # NoWatch /\ w.kind \in Kinds /\ w.samples \in Nat /\ w.fall \in 0..2
         /\ w.targets \in SUBSET Keys /\ w.cleared \in SUBSET Keys /\ w.recurred \in SUBSET Keys
         /\ w.done \in BOOLEAN /\ w.age \in Nat /\ w.over \in Never..Keep + 1
         /\ w.verdict \in Outcomes \cup {"none"}
  BY KindsAssumption DEF Watches, NoWatch

-----------------------------------------------------------------------------
(* A watch that is finished, or given a verdict, is a watch.                *)
LEMMA DoneTyped ==
  ASSUME NEW w \in Watches
  PROVE  LET v == [w EXCEPT !.done = TRUE, !.over = 0] IN
         /\ v \in Watches /\ v.kind = w.kind /\ v.samples = w.samples
         /\ v.targets = w.targets /\ v.cleared = w.cleared /\ v.done = TRUE
         /\ v.age = w.age /\ v.over = 0 /\ v.verdict = w.verdict
  <1>1. 0 \in Never..Keep + 1
    BY WindowAssumption DEF Never
  <1> QED
    BY <1>1 DEF Watches

LEMMA VerdictTyped ==
  ASSUME NEW w \in Watches, NEW o \in Outcomes
  PROVE  LET v == [w EXCEPT !.verdict = o] IN
         /\ v \in Watches /\ v.kind = w.kind /\ v.samples = w.samples
         /\ v.targets = w.targets /\ v.cleared = w.cleared /\ v.done = w.done
         /\ v.age = w.age /\ v.over = w.over /\ v.verdict = o
  BY DEF Watches

LEMMA OutcomeTyped ==
  ASSUME NEW c, NEW f
  PROVE  Outcome(c, f) \in Outcomes \cup {"raised"}
  BY DEF Outcome, ProcessOutcome, ItemOutcome, Outcomes

-----------------------------------------------------------------------------
(* A step of an actor in the verifier keeps the invariant if what it makes  *)
(* of the watch is one, and if who judges stays in order.                   *)
LEMMA WorkStep ==
  ASSUME IInv, NEW a \in Actors, watch # NoWatch, NEW to \in Places, Move(a, to),
         UNCHANGED <<shown, command>>,
         watch' \in Watches, watch'.kind = watch.kind,
         watch'.samples <= Enough[watch'.kind], watch'.age = watch.age,
         watch'.done <=> watch'.over # Never,
         watch'.done => watch'.over = 0,
         ~watch'.done => watch'.verdict = "none",
         history' \in [latest : SUBSET Keys, lacked : SUBSET Keys, torn : BOOLEAN], Heard',
         stored' \in Outcomes \cup {"none"},
         stored' # "none" => stored' = watch'.verdict,
         Undecided', OneJudge'
  PROVE  IInv'
<1>1. watch \in Watches /\ watch.age <= Most[watch.kind] + 1
  BY DEF IInv, TypeOK
<1>2. watch' # NoWatch
  BY WatchIsNotNone
<1>3. TypeOK'
  <2>1. actor' \in [Actors -> Places]
    BY DEF Move, IInv, TypeOK, Actors
  <2>2. shown' \subseteq Keys /\ (command' = NoCommand \/ command' \in [kind : Kinds, baseline : SUBSET Keys])
    BY DEF IInv, TypeOK
  <2> QED
    BY <1>1, <1>2, <2>1, <2>2 DEF TypeOK, Actors
<1>4. CommandFirst'
  BY <1>1 DEF IInv, CommandFirst
<1>5. NotAged' /\ StoredIsVerdict'
  BY DEF NotAged, StoredIsVerdict
<1> QED
  BY <1>3, <1>4, <1>5 DEF IInv

(* Nobody else judges while an actor that does not judge moves to a place   *)
(* from which nobody judges, and the watch keeps its verdict.               *)
LEMMA JudgesStay ==
  ASSUME IInv, NEW a \in Actors, NEW to \in Places, to.at \notin JudgePlaces, Move(a, to),
         watch'.verdict = watch.verdict \/ actor[a].at \in JudgePlaces,
         watch'.done = watch.done
  PROVE  Undecided' /\ OneJudge'
<1>1. \A b \in Actors : actor'[b].at \in JudgePlaces => b # a /\ actor'[b] = actor[b]
  BY DEF Move, IInv, TypeOK, Actors
<1> QED
  BY <1>1 DEF IInv, Undecided, OneJudge

LEMMA OnlyOneMoves ==
  ASSUME IInv, NEW a \in Actors, NEW to, Move(a, to)
  PROVE  actor'[a] = to /\ \A b \in Actors \ {a} : actor'[b] = actor[b]
  BY DEF Move, IInv, TypeOK, Actors

(* An actor that leaves the verifier, or its judgement for the store, having *)
(* folded in all it had to, leaves behind what is known of the findings.    *)
LEMMA HeardLeaves ==
  ASSUME IInv, NEW a \in Actors, NEW to, to.at \in {"idle", "store"}, Move(a, to), watch # NoWatch,
         watch'.targets = watch.targets, watch'.cleared = watch.cleared, history' = history,
         Folding(a) => actor[a].todo = {}
  PROVE  Heard'
<1>1. actor'[a] = to /\ \A b \in Actors \ {a} : actor'[b] = actor[b]
  BY OnlyOneMoves
<1>2. \A b \in Actors : (Folding(b)' \/ Judging(b)' \/ actor'[b].at = "look") => b # a /\ actor'[b] = actor[b]
  BY <1>1 DEF Folding, Judging
<1>3. LackedHolds' /\ LooksHold'
  BY <1>2 DEF IInv, Heard, LackedHolds, LooksHold, Said, Looked
<1>4. ASSUME ~history.torn
      PROVE  Alone' /\ Newest' /\ Folded' /\ LooksAgree'
  <2>1. Alone /\ Newest /\ Folded /\ LooksAgree
    BY <1>4 DEF IInv, Heard, Whole
  <2>2. Alone' /\ Newest' /\ LooksAgree'
    BY <1>2, <2>1 DEF Alone, Newest, LooksAgree, Folding, Judging, Said, Looked
  <2>3. ASSUME \A b \in Actors : ~Folding(b)'
        PROVE  watch'.targets \cap watch'.cleared \cap history'.latest = {}
    <3>1. CASE Folding(a)
      BY <2>1, <3>1 DEF Newest
    <3>2. CASE ~Folding(a)
      <4>1. \A b \in Actors : ~Folding(b)
        BY <1>1, <2>3, <3>2 DEF Folding
      <4> QED
        BY <2>1, <4>1 DEF Folded
    <3> QED
      BY <3>1, <3>2
  <2> QED
    BY <2>2, <2>3 DEF Folded
<1> QED
  BY <1>3, <1>4 DEF Heard, Whole

(* An actor that goes on judging, or begins to, folds nothing in.           *)
LEMMA HeardJudges ==
  ASSUME IInv, NEW a \in Actors, NEW to, to.at \in JudgePlaces, Move(a, to), watch # NoWatch,
         watch'.targets = watch.targets, watch'.cleared = watch.cleared,
         history'.latest = history.latest, history'.lacked = history.lacked,
         ~history'.torn => ~history.torn /\ \A b \in Actors \ {a} : ~Folding(b),
         Folding(a) => actor[a].todo = {},
         to.at = "look" => Said(a)' \subseteq watch.cleared \/ (actor[a].at = "look" /\ Said(a)' \subseteq Said(a) \cup watch.cleared)
  PROVE  Heard'
<1>1. actor'[a] = to /\ \A b \in Actors \ {a} : actor'[b] = actor[b]
  BY OnlyOneMoves
<1>2. \A b \in Actors \ {a} : Said(b)' = Said(b)
  BY <1>1 DEF Said, Looked
<1>3. LackedHolds'
  BY DEF IInv, Heard, LackedHolds
<1>4. LooksHold'
  BY <1>1, <1>2 DEF IInv, Heard, LackedHolds, LooksHold
<1>5. ASSUME ~history'.torn
      PROVE  Alone' /\ Newest' /\ Folded' /\ LooksAgree'
  <2>1. Alone /\ Newest /\ Folded /\ LooksAgree
    BY <1>5 DEF IInv, Heard, Whole
  <2>2. \A b \in Actors : ~Folding(b)'
    BY <1>1, <1>5 DEF Folding, JudgePlaces
  <2>3. Alone' /\ Newest'
    BY <2>2 DEF Alone, Newest
  <2>4. watch'.targets \cap watch'.cleared \cap history'.latest = {}
    <3>1. CASE Folding(a)
      BY <2>1, <3>1 DEF Newest
    <3>2. CASE ~Folding(a)
      <4>1. \A b \in Actors : ~Folding(b)
        BY <1>5, <3>2
      <4> QED
        BY <2>1, <4>1 DEF Folded
    <3> QED
      BY <3>1, <3>2
  <2>5. LooksAgree'
    BY <1>1, <1>2, <2>1 DEF LooksAgree
  <2> QED
    BY <2>3, <2>4, <2>5 DEF Folded
<1> QED
  BY <1>3, <1>4, <1>5 DEF Heard, Whole

LEMMA AppendKeeps ==
  ASSUME IInv, NEW a \in Actors, Append(a)
  PROVE  IInv'
<1> DEFINE s == actor[a].sample
           to == [at |-> "fold", sample |-> s, todo |-> watch.targets]
<1>1. actor[a] \in Places /\ actor[a].at = "append" /\ actor[a] # Idle
  BY PlaceFields DEF Append, IInv, TypeOK, Actors
<1>2. watch # NoWatch /\ watch \in Watches /\ watch.samples <= Enough[watch.kind]
  BY <1>1, BusyIsWatching DEF IInv, TypeOK
<1>3. s \in Samples /\ s.fall \in 0..2 /\ s.active \in SUBSET Keys
  BY <1>1, PlaceFields DEF Samples
<1>4. to \in Places /\ to.at = "fold" /\ Move(a, to)
  BY <1>2, <1>3, WatchIsNotNone DEF Places, Append
<1>5. PICK n \in Nat : /\ n <= Enough[watch.kind]
                       /\ watch' = [watch EXCEPT !.samples = n, !.fall = s.fall]
  <2> DEFINE n == IF watch.samples = Enough[watch.kind] THEN watch.samples ELSE watch.samples + 1
  <2>1. Enough[watch.kind] \in Nat /\ watch.samples \in Nat
    BY <1>2, WatchIsNotNone, WindowAssumption
  <2>2. n \in Nat /\ n <= Enough[watch.kind]
    BY <2>1, <1>2
  <2>3. watch' = [watch EXCEPT !.samples = n, !.fall = s.fall]
    BY DEF Append
  <2> QED
    BY <2>2, <2>3
<1>6. /\ watch' \in Watches /\ watch'.samples = n /\ watch'.kind = watch.kind
      /\ watch'.targets = watch.targets /\ watch'.cleared = watch.cleared /\ watch'.done = watch.done
      /\ watch'.age = watch.age /\ watch'.over = watch.over /\ watch'.verdict = watch.verdict
  <2>1. ASSUME NEW fall \in 0..2, watch' = [watch EXCEPT !.samples = n, !.fall = fall]
        PROVE  /\ watch' \in Watches /\ watch'.samples = n /\ watch'.kind = watch.kind
               /\ watch'.targets = watch.targets /\ watch'.cleared = watch.cleared /\ watch'.done = watch.done
               /\ watch'.age = watch.age /\ watch'.over = watch.over /\ watch'.verdict = watch.verdict
    BY <1>2, <2>1 DEF Watches
  <2> QED
    BY <1>3, <1>5, <2>1
<1>7. Undecided' /\ OneJudge'
  BY <1>4, <1>6, JudgesStay DEF JudgePlaces
<1>8. /\ UNCHANGED <<shown, command, stored>>
      /\ history' \in [latest : SUBSET Keys, lacked : SUBSET Keys, torn : BOOLEAN]
      /\ history'.latest = s.active /\ history'.lacked = history.lacked
      /\ history'.torn = \E b \in Actors \ {a} : Folding(b) \/ Judging(b)
  BY <1>3 DEF Append, IInv, TypeOK
<1>9. watch.done => watch.over = 0
  BY <1>1 DEF IInv, NotAged
<1>10. Heard'
  <2>1. actor'[a] = to /\ \A b \in Actors \ {a} : actor'[b] = actor[b]
    BY <1>4, OnlyOneMoves
  <2>2. \A b \in Actors : actor'[b].at = "look" => b # a /\ actor[b].at = "look" /\ Said(b)' = Said(b)
    BY <1>6, <2>1 DEF Said, Looked
  <2>3. LackedHolds' /\ LooksHold'
    BY <1>2, <1>6, <1>8, <2>2 DEF IInv, Heard, LackedHolds, LooksHold
  <2>4. ASSUME ~history'.torn
        PROVE  Alone' /\ Newest' /\ Folded' /\ LooksAgree'
    <3>1. \A b \in Actors \ {a} : ~Folding(b)' /\ ~Judging(b)'
      BY <1>8, <2>1, <2>4 DEF Folding, Judging
    <3>2. Folding(a)' /\ ~Judging(a)'
      BY <2>1 DEF Folding, Judging
    <3>3. actor'[a].sample.active = history'.latest /\ watch'.targets \ actor'[a].todo = {}
      BY <1>6, <1>8, <2>1
    <3>4. Alone' /\ Folded'
      BY <3>1, <3>2 DEF Alone, Folded
    <3>5. Newest'
      BY <3>1, <3>3 DEF Newest
    <3>6. \A b \in Actors : actor'[b].at # "look"
      BY <3>1, <3>2 DEF Judging
    <3> QED
      BY <3>4, <3>5, <3>6 DEF LooksAgree
  <2> QED
    BY <2>3, <2>4 DEF Heard, Whole
<1> HIDE DEF to, s
<1> QED
  BY <1>1, <1>2, <1>4, <1>5, <1>6, <1>7, <1>8, <1>9, <1>10, WorkStep
     DEF IInv, TypeOK, StoredIsVerdict

LEMMA FoldTargetKeeps ==
  ASSUME IInv, NEW a \in Actors, NEW k \in Keys, FoldTarget(a, k)
  PROVE  IInv'
<1> DEFINE s == actor[a].sample
           to == [actor[a] EXCEPT !.todo = @ \ {k}]
<1>1. actor[a] \in Places /\ actor[a].at = "fold" /\ actor[a] # Idle /\ k \in actor[a].todo
  BY PlaceFields DEF FoldTarget, Folding, IInv, TypeOK, Actors
<1>2. watch # NoWatch /\ watch \in Watches /\ watch.samples <= Enough[watch.kind]
  BY <1>1, BusyIsWatching DEF IInv, TypeOK
<1>3. s \in Samples /\ s.active \in SUBSET Keys
  BY <1>1, PlaceFields DEF Samples
<1>4. /\ to \in Places /\ to.at = "fold" /\ to.sample = s /\ to.todo = actor[a].todo \ {k}
      /\ Move(a, to)
  <2>1. actor[a] = [at |-> "fold", sample |-> s, todo |-> actor[a].todo] /\ actor[a].todo \in SUBSET Keys
    BY <1>1, PlaceFields
  <2>2. to = [at |-> "fold", sample |-> s, todo |-> actor[a].todo \ {k}]
    BY <2>1
  <2>3. Move(a, to)
    BY DEF FoldTarget
  <2> QED
    BY <1>3, <2>1, <2>2, <2>3 DEF Places
<1>5. Cleared(k, s) \in SUBSET Keys /\ Recurred(k, s) \in SUBSET Keys
  BY <1>2, <1>3, WatchIsNotNone DEF Cleared, Recurred
<1>6. watch' = [watch EXCEPT !.cleared = Cleared(k, s), !.recurred = Recurred(k, s)]
  BY DEF FoldTarget
<1>7. /\ watch' \in Watches /\ watch'.samples = watch.samples /\ watch'.kind = watch.kind
      /\ watch'.targets = watch.targets /\ watch'.cleared = Cleared(k, s) /\ watch'.done = watch.done
      /\ watch'.age = watch.age /\ watch'.over = watch.over /\ watch'.verdict = watch.verdict
  <2>1. ASSUME NEW c \in SUBSET Keys, NEW r \in SUBSET Keys,
               watch' = [watch EXCEPT !.cleared = c, !.recurred = r]
        PROVE  /\ watch' \in Watches /\ watch'.samples = watch.samples /\ watch'.kind = watch.kind
               /\ watch'.targets = watch.targets /\ watch'.cleared = c /\ watch'.done = watch.done
               /\ watch'.age = watch.age /\ watch'.over = watch.over /\ watch'.verdict = watch.verdict
    BY <1>2, <2>1 DEF Watches
  <2> HIDE DEF s
  <2> QED
    BY <1>5, <1>6, <2>1
<1>8. Undecided' /\ OneJudge'
  BY <1>4, <1>7, JudgesStay DEF JudgePlaces
<1>9. UNCHANGED <<shown, command, stored>>
  BY DEF FoldTarget
<1>10. watch.done => watch.over = 0
  BY <1>1 DEF IInv, NotAged
<1>11. /\ history' \in [latest : SUBSET Keys, lacked : SUBSET Keys, torn : BOOLEAN]
       /\ history'.latest = history.latest /\ history'.torn = history.torn
       /\ history'.lacked = IF k \notin s.active THEN history.lacked \cup {k}
                            ELSE IF watch.done THEN history.lacked ELSE history.lacked \ {k}
  BY DEF FoldTarget, IInv, TypeOK
<1>12. Heard'
  <2>0. LackedHolds /\ LooksHold /\ Whole
    BY <1>2 DEF IInv, Heard
  <2>1. actor'[a] = to /\ \A b \in Actors \ {a} : actor'[b] = actor[b]
    BY <1>4, OnlyOneMoves
  <2>2. \A b \in Actors : actor'[b].at = "look" =>
          b # a /\ actor[b].at = "look" /\ Said(b)' = Said(b) /\ watch.done
    <3>1. \A b \in Actors : actor'[b].at = "look" => b # a /\ actor[b].at = "look" /\ actor'[b] = actor[b]
      BY <1>4, <2>1
    <3> QED
      BY <1>7, <3>1 DEF Said, Looked, IInv, Undecided, JudgePlaces
  <2>3. LackedHolds'
    BY <1>7, <1>11, <2>0 DEF LackedHolds, Cleared
  <2>4. LooksHold'
    BY <1>11, <2>0, <2>2 DEF LooksHold
  <2>5. ASSUME ~history'.torn
        PROVE  Alone' /\ Newest' /\ Folded' /\ LooksAgree'
    <3>1. Alone /\ Newest
      BY <1>11, <2>0, <2>5 DEF Whole
    <3>2. Folding(a) /\ Folding(a)' /\ ~Judging(a)'
      BY <1>1, <1>4, <2>1 DEF Folding, Judging
    <3>3. \A b \in Actors \ {a} : ~Folding(b)' /\ ~Judging(b)'
      BY <2>1, <3>1, <3>2 DEF Alone, Folding, Judging
    <3>4. s.active = history.latest /\ (watch.targets \ actor[a].todo) \cap watch.cleared \cap history.latest = {}
      BY <3>1, <3>2 DEF Newest
    <3>5. (watch.targets \ (actor[a].todo \ {k})) \cap Cleared(k, s) \cap history.latest = {}
      BY <3>4 DEF Cleared
    <3>6. /\ actor'[a].sample.active = history'.latest
          /\ (watch'.targets \ actor'[a].todo) \cap watch'.cleared \cap history'.latest = {}
      BY <1>4, <1>7, <1>11, <2>1, <3>4, <3>5
    <3>7. Alone' /\ Folded'
      BY <3>2, <3>3 DEF Alone, Folded
    <3>8. Newest'
      BY <3>3, <3>6 DEF Newest
    <3>9. \A b \in Actors : actor'[b].at # "look"
      BY <3>2, <3>3 DEF Judging
    <3> QED
      BY <3>7, <3>8, <3>9 DEF LooksAgree
  <2> QED
    BY <2>3, <2>4, <2>5 DEF Heard, Whole
<1> HIDE DEF s, to
<1> QED
  BY <1>1, <1>2, <1>3, <1>4, <1>5, <1>6, <1>7, <1>8, <1>9, <1>10, <1>11, <1>12, WorkStep
     DEF IInv, TypeOK, StoredIsVerdict

(* The first to find the watch open finishes it, alone.                     *)
LEMMA FinishKeeps ==
  ASSUME IInv, NEW a \in Actors, watch # NoWatch, ~watch.done, Finish(a),
         Folding(a) => actor[a].todo = {}, UNCHANGED <<shown, command, stored>>
  PROVE  IInv'
<1> DEFINE to == [at |-> "judge"]
<1>1. watch \in Watches /\ watch.samples <= Enough[watch.kind] /\ to \in Places
  BY DEF IInv, TypeOK, Places
<1>2. watch' = [watch EXCEPT !.done = TRUE, !.over = 0] /\ Move(a, to)
  BY DEF Finish
<1>3. /\ watch' \in Watches /\ watch'.kind = watch.kind /\ watch'.samples = watch.samples
      /\ watch'.targets = watch.targets /\ watch'.cleared = watch.cleared /\ watch'.done = TRUE
      /\ watch'.age = watch.age /\ watch'.over = 0 /\ watch'.verdict = watch.verdict
  BY <1>1, <1>2, DoneTyped
<1>4. \A b \in Actors : actor[b].at \notin JudgePlaces
  BY DEF IInv, Undecided
<1>5. \A b \in Actors : actor'[b].at \in JudgePlaces => b = a
  BY <1>2, <1>4 DEF Move, IInv, TypeOK, Actors
<1>6. watch.verdict = "none" /\ stored = "none"
  BY <1>1 DEF IInv, TypeOK, StoredIsVerdict
<1>7. Undecided' /\ OneJudge'
  BY <1>3, <1>5, <1>6 DEF Undecided, OneJudge
<1>8. /\ history' \in [latest : SUBSET Keys, lacked : SUBSET Keys, torn : BOOLEAN]
      /\ history'.latest = history.latest /\ history'.lacked = history.lacked
      /\ ~history'.torn => ~history.torn /\ \A b \in Actors \ {a} : ~Folding(b)
  BY DEF Finish, IInv, TypeOK
<1>9. Heard'
  BY <1>2, <1>3, <1>8, HeardJudges DEF JudgePlaces
<1>10. 0 # Never
  BY DEF Never
<1> HIDE DEF to
<1> QED
  BY <1>1, <1>2, <1>3, <1>6, <1>7, <1>8, <1>9, <1>10, WorkStep DEF IInv, TypeOK

LEMMA CloseKeeps ==
  ASSUME IInv, NEW a \in Actors, Close(a)
  PROVE  IInv'
<1>1. actor[a].at = "fold" /\ actor[a] # Idle /\ actor[a].todo = {}
  BY DEF Close, Folding, Idle
<1>2. watch # NoWatch /\ watch \in Watches /\ watch.samples <= Enough[watch.kind]
  BY <1>1, BusyIsWatching DEF IInv, TypeOK
<1>3. [at |-> "store"] \in Places /\ Idle \in Places /\ Idle.at = "idle"
  BY DEF Places, Idle
<1>4. UNCHANGED <<shown, command, stored>>
  BY DEF Close
<1>5. watch.done => watch.over = 0
  BY <1>1 DEF IInv, NotAged
<1>6. CASE WindowOver /\ Unclaimed
  BY <1>1, <1>2, <1>4, <1>6, FinishKeeps DEF Close, Unclaimed
<1>7. CASE ~(WindowOver /\ Unclaimed)
  <2>1. PICK to \in Places : Move(a, to) /\ to.at \in {"idle", "store"}
    <3>1. Move(a, IF watch.done THEN [at |-> "store"] ELSE Idle)
      BY <1>7 DEF Close
    <3>2. CASE watch.done
      BY <1>3, <3>1, <3>2
    <3>3. CASE ~watch.done
      BY <1>3, <3>1, <3>3
    <3> QED
      BY <3>2, <3>3
  <2>2. watch' = watch /\ history' = history
    BY <1>7 DEF Close
  <2>3. to.at \notin JudgePlaces
    BY <2>1 DEF JudgePlaces
  <2>4. Undecided' /\ OneJudge'
    BY <2>1, <2>2, <2>3, JudgesStay
  <2>5. Heard'
    BY <1>1, <1>2, <2>1, <2>2, HeardLeaves
  <2> QED
    BY <1>1, <1>2, <1>4, <1>5, <2>1, <2>2, <2>4, <2>5, WorkStep
       DEF IInv, TypeOK, StoredIsVerdict
<1> QED
  BY <1>6, <1>7

(* The one judge gives its verdict and goes to store it.                    *)
LEMMA GiveVerdict ==
  ASSUME IInv, NEW a \in Actors, actor[a].at \in JudgePlaces, NEW o \in Outcomes,
         watch' = [watch EXCEPT !.verdict = o], Move(a, [at |-> "store"]),
         UNCHANGED <<shown, command, stored, history>>
  PROVE  IInv'
<1>1. actor[a] # Idle /\ ~Folding(a)
  BY DEF Idle, JudgePlaces, Folding
<1>2. watch # NoWatch /\ watch \in Watches
  BY <1>1, BusyIsWatching
<1>3. watch.done /\ watch.verdict = "none" /\ stored = "none" /\ watch.over = 0
  BY <1>1, <1>2 DEF IInv, Undecided, StoredIsVerdict, NotAged
<1>4. [at |-> "store"] \in Places
  BY DEF Places
<1>5. /\ watch' \in Watches /\ watch'.kind = watch.kind /\ watch'.samples = watch.samples
      /\ watch'.targets = watch.targets /\ watch'.cleared = watch.cleared /\ watch'.done = watch.done
      /\ watch'.age = watch.age /\ watch'.over = watch.over
  BY <1>2, VerdictTyped
<1>6. Undecided' /\ OneJudge'
  BY <1>4, <1>5, JudgesStay DEF JudgePlaces
<1>7. Heard'
  BY <1>1, <1>2, <1>5, HeardLeaves
<1>8. 0 # Never
  BY DEF Never
<1> QED
  BY <1>2, <1>3, <1>4, <1>5, <1>6, <1>7, <1>8, WorkStep DEF IInv, TypeOK

(* The one judge goes on with its lists.                                    *)
LEMMA GoOnJudging ==
  ASSUME IInv, NEW a \in Actors, actor[a].at \in JudgePlaces,
         NEW to \in Places, to.at = "look", Move(a, to),
         Said(a)' \subseteq watch.cleared
           \/ (actor[a].at = "look" /\ Said(a)' \subseteq Said(a) \cup watch.cleared),
         UNCHANGED <<shown, command, watch, stored, history>>
  PROVE  IInv'
<1>1. actor[a] # Idle /\ ~Folding(a)
  BY DEF Idle, JudgePlaces, Folding
<1>2. watch # NoWatch /\ watch \in Watches
  BY <1>1, BusyIsWatching
<1>3. \A b \in Actors : actor'[b].at \in JudgePlaces => actor[b].at \in JudgePlaces
  BY OnlyOneMoves
<1>4. Undecided' /\ OneJudge'
  BY <1>3 DEF IInv, Undecided, OneJudge
<1>5. ~history.torn => \A b \in Actors \ {a} : ~Folding(b)
  BY <1>2 DEF IInv, Heard, Whole, Alone, Judging, JudgePlaces
<1>6. Heard'
  BY <1>1, <1>2, <1>5, HeardJudges DEF JudgePlaces
<1>7. watch.done => watch.over = 0
  BY <1>1 DEF IInv, NotAged
<1> QED
  BY <1>1, <1>2, <1>4, <1>6, <1>7, WorkStep DEF IInv, TypeOK, StoredIsVerdict

LEMMA JudgeKeeps ==
  ASSUME IInv, NEW a \in Actors, Judge(a)
  PROVE  IInv'
<1> DEFINE to == [at |-> "look", pass |-> "cleared", todo |-> watch.targets, fall |-> watch.fall,
                  found |-> Nothing]
<1>1. actor[a].at = "judge" /\ actor[a] # Idle /\ actor[a].at \in JudgePlaces
  BY DEF Judge, Idle, JudgePlaces
<1>2. watch # NoWatch /\ watch \in Watches
  BY <1>1, BusyIsWatching
<1>3. UNCHANGED <<shown, command, stored, history>>
  BY DEF Judge
<1>4. CASE watch.samples = 0
  <2>1. "unknown" \in Outcomes
    BY DEF Outcomes
  <2>2. watch' = [watch EXCEPT !.verdict = "unknown"] /\ Move(a, [at |-> "store"])
    BY <1>4 DEF Judge
  <2> QED
    BY <1>1, <1>3, <2>1, <2>2, GiveVerdict
<1>5. CASE watch.samples # 0
  <2>1. Move(a, to) /\ watch' = watch
    BY <1>5 DEF Judge, Looking
  <2>2. to \in Places
    BY <1>2, WatchIsNotNone DEF Places, Passes, Nothing
  <2>3. actor'[a] = to
    BY <2>1, OnlyOneMoves
  <2>4. Said(a)' = {}
    BY <2>3 DEF Said, Looked
  <2> QED
    BY <1>1, <1>3, <2>1, <2>2, <2>4, GoOnJudging
<1> QED
  BY <1>4, <1>5

LEMMA LookKeeps ==
  ASSUME IInv, NEW a \in Actors, NEW k \in Keys, Look(a, k)
  PROVE  IInv'
<1> DEFINE p == actor[a]
           new == [p.found EXCEPT ![p.pass] = @ \cup ({k} \cap Held(p.pass))]
           to == [at |-> "look", pass |-> p.pass, todo |-> p.todo \ {k}, fall |-> p.fall, found |-> new]
<1>1. p \in Places /\ p.at = "look" /\ p.at \in JudgePlaces /\ k \in p.todo
  BY DEF Look, IInv, TypeOK, JudgePlaces
<1>2. /\ p.pass \in Passes /\ p.todo \in SUBSET Keys /\ p.fall \in 0..2 /\ p.found \in [Passes -> SUBSET Keys]
      /\ p = [at |-> "look", pass |-> p.pass, todo |-> p.todo, fall |-> p.fall, found |-> p.found]
  BY <1>1, PlaceFields
<1>3. Move(a, to) /\ UNCHANGED <<shown, command, watch, stored, history>>
  BY DEF Look, Looking
<1>4. new \in [Passes -> SUBSET Keys] /\ to \in Places
  <2>1. new \in [Passes -> SUBSET Keys]
    BY <1>2
  <2> HIDE DEF new
  <2> QED
    BY <1>2, <2>1 DEF Places
<1>5. actor'[a] = to
  BY <1>3, OnlyOneMoves
<1>6. Said(a)' \subseteq Said(a) \cup watch.cleared
  <2>1. CASE p.pass = "still"
    <3>1. new["still"] = p.found["still"] \cup ({k} \cap Held("still"))
      BY <1>2, <2>1 DEF Passes
    <3>2. Held("still") = Keys \ watch.cleared
      BY DEF Held
    <3>3. Said(a)' = (watch.targets \ (p.todo \ {k})) \ new["still"]
      BY <1>3, <1>5, <2>1 DEF Said, Looked
    <3>4. Said(a) = (watch.targets \ p.todo) \ p.found["still"]
      BY <2>1 DEF Said, Looked
    <3> QED
      BY <3>1, <3>2, <3>3, <3>4
  <2>2. CASE p.pass # "still"
    <3>1. new["still"] = p.found["still"]
      BY <1>2, <2>2 DEF Passes
    <3> QED
      BY <1>3, <1>5, <2>2, <3>1 DEF Said, Looked
  <2> QED
    BY <2>1, <2>2
<1>7. to.at = "look"
  OBVIOUS
<1> HIDE DEF to, new
<1> QED
  BY <1>1, <1>3, <1>4, <1>6, <1>7, GoOnJudging

LEMMA TurnKeeps ==
  ASSUME IInv, NEW a \in Actors, Turn(a)
  PROVE  IInv'
<1> DEFINE p == actor[a]
           next == NextPass(p.pass, p.found)
           list == IF next = "times" THEN p.found["cleared"] ELSE watch.targets
           to == [at |-> "look", pass |-> next, todo |-> list, fall |-> p.fall, found |-> p.found]
<1>1. p \in Places /\ p.at = "look" /\ p.at \in JudgePlaces /\ p.todo = {} /\ p # Idle
  BY DEF Turn, IInv, TypeOK, JudgePlaces, Idle
<1>2. /\ p.pass \in Passes /\ p.fall \in 0..2 /\ p.found \in [Passes -> SUBSET Keys]
      /\ p = [at |-> "look", pass |-> p.pass, todo |-> p.todo, fall |-> p.fall, found |-> p.found]
  BY <1>1, PlaceFields
<1>3. Move(a, to) /\ next # "none" /\ UNCHANGED <<shown, command, watch, stored, history>>
  BY DEF Turn, Looking
<1>4. next \in {"still", "times", "recurred"} /\ (next = "still" <=> p.pass = "cleared")
  BY <1>2, <1>3 DEF NextPass, Passes
<1>5. list \in SUBSET Keys
  BY <1>1, <1>2, BusyIsWatching, WatchIsNotNone DEF Passes
<1>6. to \in Places
  BY <1>2, <1>4, <1>5 DEF Places, Passes
<1>7. actor'[a] = to
  BY <1>3, OnlyOneMoves
<1>8. Said(a)' \subseteq Said(a)
  <2>1. CASE p.pass = "cleared"
    <3>1. Looked(a)' = watch'.targets \ watch.targets
      BY <1>4, <1>7, <2>1 DEF Looked
    <3> QED
      BY <1>3, <3>1 DEF Said
  <2>2. CASE p.pass # "cleared"
    BY <1>1, <1>3, <1>4, <1>7, <2>2 DEF Said, Looked
  <2> QED
    BY <2>1, <2>2
<1>9. to.at = "look"
  OBVIOUS
<1> HIDE DEF to, next, list
<1> QED
  BY <1>1, <1>3, <1>6, <1>8, <1>9, GoOnJudging

LEMMA ConcludeKeeps ==
  ASSUME IInv, NEW a \in Actors, Conclude(a)
  PROVE  IInv'
<1> DEFINE outcome == Outcome(actor[a].found, actor[a].fall)
<1>1. actor[a].at = "look" /\ actor[a] # Idle /\ actor[a].at \in JudgePlaces /\ ~Folding(a)
  BY DEF Conclude, Idle, JudgePlaces, Folding
<1>2. watch # NoWatch /\ watch \in Watches
  BY <1>1, BusyIsWatching
<1>3. UNCHANGED <<shown, command, stored, history>>
  BY DEF Conclude
<1>4. CASE outcome = "raised"
  <2>1. watch' = watch /\ Move(a, Idle) /\ Idle.at = "idle" /\ Idle.at \notin JudgePlaces /\ Idle \in Places
    BY <1>4 DEF Conclude, Idle, JudgePlaces, Places
  <2>2. Undecided' /\ OneJudge'
    BY <2>1, JudgesStay
  <2>3. Heard'
    BY <1>1, <1>2, <1>3, <2>1, HeardLeaves
  <2>4. watch.done => watch.over = 0
    BY <1>1 DEF IInv, NotAged
  <2> QED
    BY <1>2, <1>3, <2>1, <2>2, <2>3, <2>4, WorkStep DEF IInv, TypeOK, StoredIsVerdict
<1>5. CASE outcome # "raised"
  <2>1. watch' = [watch EXCEPT !.verdict = outcome] /\ Move(a, [at |-> "store"]) /\ outcome \in Outcomes
    BY <1>5, OutcomeTyped DEF Conclude
  <2> HIDE DEF outcome
  <2> QED
    BY <1>1, <1>3, <2>1, GiveVerdict
<1> QED
  BY <1>4, <1>5

LEMMA StoreKeeps ==
  ASSUME IInv, NEW a \in Actors, Store(a)
  PROVE  IInv'
<1>1. actor[a].at = "store" /\ actor[a] # Idle /\ Move(a, Idle) /\ Idle \in Places
  BY DEF Store, Idle, Places
<1>2. watch # NoWatch /\ watch \in Watches
  BY <1>1, BusyIsWatching
<1>3. watch' = watch /\ UNCHANGED <<shown, command, history>>
  BY DEF Store
<1>4. /\ stored' = stored \/ (watch.verdict # "none" /\ stored' = watch.verdict)
      /\ watch.verdict \in Outcomes \cup {"none"}
  BY <1>2, WatchIsNotNone DEF Store
<1>5. Undecided' /\ OneJudge'
  <2>1. Idle.at \notin JudgePlaces
    BY DEF Idle, JudgePlaces
  <2> QED
    BY <1>1, <1>3, <2>1, JudgesStay
<1>6. watch.done => watch.over = 0
  BY <1>1 DEF IInv, NotAged
<1>7. Heard'
  <2>1. Idle.at = "idle" /\ ~Folding(a)
    BY DEF Idle, Store, Folding
  <2> QED
    BY <1>1, <1>2, <1>3, <2>1, HeardLeaves
<1> QED
  BY <1>1, <1>2, <1>3, <1>4, <1>5, <1>6, <1>7, WorkStep DEF IInv, TypeOK, StoredIsVerdict

LEMMA TimeOutKeeps ==
  ASSUME IInv, TimeOut
  PROVE  IInv'
<1>1. Loop \in Actors /\ ~Folding(Loop)
  BY DEF Actors, TimeOut, Folding, Idle
<1> QED
  BY <1>1, FinishKeeps DEF TimeOut, TimedOut

-----------------------------------------------------------------------------
(* With nobody in the verifier there is nothing to put in order.            *)
LEMMA RestIsInOrder ==
  ASSUME \A a \in Actors : actor[a] = Idle
  PROVE  NotAged /\ Undecided /\ OneJudge
  BY DEF NotAged, Undecided, OneJudge, JudgePlaces, Idle

LEMMA AtRestIdle == AtRest <=> \A a \in Actors : actor[a] = Idle
  BY DEF AtRest, Actors

(* Nothing is heard, and no judge goes on, in a step that moves no actor    *)
(* that folds or judges, nor what counts as cleared.                        *)
LEMMA HeardStays ==
  ASSUME IInv, watch # NoWatch, watch'.targets = watch.targets, watch'.cleared = watch.cleared,
         history' = history,
         \A a \in Actors : actor'[a] = actor[a]
           \/ (actor[a].at \in {"idle", "append"} /\ actor'[a].at \in {"idle", "append"})
  PROVE  Heard'
<1>1. \A a \in Actors : (Folding(a) \/ Judging(a) \/ actor[a].at = "look"
                          \/ Folding(a)' \/ Judging(a)' \/ actor'[a].at = "look") => actor'[a] = actor[a]
  BY DEF Folding, Judging
<1>2. LackedHolds' /\ LooksHold'
  BY <1>1 DEF IInv, Heard, LackedHolds, LooksHold, Said, Looked
<1>3. ASSUME ~history.torn
      PROVE  Alone' /\ Newest' /\ Folded' /\ LooksAgree'
  <2>1. Alone /\ Newest /\ Folded /\ LooksAgree
    BY <1>3 DEF IInv, Heard, Whole
  <2>2. \A a \in Actors : (Folding(a)' <=> Folding(a)) /\ (Judging(a)' <=> Judging(a))
    BY <1>1 DEF Folding, Judging
  <2>3. Alone' /\ Newest'
    BY <1>1, <2>1, <2>2 DEF Alone, Newest
  <2>4. Folded' /\ LooksAgree'
    BY <1>1, <2>1, <2>2 DEF Folded, LooksAgree, Said, Looked
  <2> QED
    BY <2>3, <2>4
<1> QED
  BY <1>2, <1>3 DEF Heard, Whole

LEMMA HandlerKeeps ==
  ASSUME IInv, Ask \/ Fail \/ Start
  PROVE  IInv'
<1>1. CASE Ask
  <2>1. /\ watch = NoWatch /\ watch' = watch /\ command' \in [kind : Kinds, baseline : SUBSET Keys]
        /\ UNCHANGED <<shown, actor, stored, history>>
    BY <1>1 DEF Ask, IInv, TypeOK
  <2> QED
    BY <2>1 DEF IInv, TypeOK, AtRest, StoredIsVerdict, CommandFirst, NotAged, Undecided, OneJudge, Heard
<1>2. CASE Fail
  BY <1>2 DEF Fail, IInv, TypeOK, AtRest, StoredIsVerdict, CommandFirst, NotAged, Undecided, OneJudge, Heard
<1>3. CASE Start
  <2> DEFINE moot == command.baseline = {}
             w == [kind |-> command.kind, targets |-> command.baseline, samples |-> 0, fall |-> 0,
                   cleared |-> {}, recurred |-> {}, done |-> moot, age |-> 0,
                   over |-> IF moot THEN 0 ELSE Never,
                   verdict |-> IF moot THEN "moot" ELSE "none"]
  <2>1. /\ command \in [kind : Kinds, baseline : SUBSET Keys] /\ command.kind \in Kinds
        /\ watch = NoWatch /\ AtRest
    BY <1>3 DEF Start, IInv, TypeOK, CommandFirst
  <2>2. /\ watch' = w /\ command' = NoCommand /\ history' = Unheard
        /\ stored' = IF moot THEN "moot" ELSE "none"
        /\ UNCHANGED <<shown, actor>>
    BY <1>3 DEF Start
  <2>3. 0 <= Enough[command.kind] /\ 0 <= Most[command.kind] + 1 /\ Keep \in Nat
    BY <2>1, WindowAssumption
  <2>4. w \in Watches /\ w # NoWatch
    <3>1. (IF moot THEN 0 ELSE Never) \in Never..Keep + 1
      BY <2>3 DEF Never
    <3>2. (IF moot THEN "moot" ELSE "none") \in Outcomes \cup {"none"}
      BY DEF Outcomes
    <3>3. w \in Watches
      BY <2>1, <3>1, <3>2 DEF Watches
    <3> QED
      BY <3>3, WatchIsNotNone
  <2>5. TypeOK'
    <3>1. w.done <=> w.over # Never
      <4>0. 0 # Never
        BY DEF Never
      <4>1. CASE moot
        BY <4>0, <4>1
      <4>2. CASE ~moot
        BY <4>2
      <4> QED
        BY <4>1, <4>2
    <3>2. ~w.done => w.verdict = "none"
      OBVIOUS
    <3>3. w.samples <= Enough[w.kind] /\ w.age <= Most[w.kind] + 1
      BY <2>3
    <3>4. stored' \in Outcomes \cup {"none"} /\ history' \in [latest : SUBSET Keys, lacked : SUBSET Keys, torn : BOOLEAN]
      BY <2>1, <2>2 DEF Outcomes, Unheard
    <3> HIDE DEF w, moot
    <3> QED
      BY <2>2, <2>4, <3>1, <3>2, <3>3, <3>4 DEF IInv, TypeOK
  <2>6. StoredIsVerdict' /\ CommandFirst'
    BY <2>2 DEF StoredIsVerdict, CommandFirst
  <2>8. Heard'
    <3>1. \A a \in Actors : actor'[a].at = "idle"
      BY <2>1, <2>2, AtRestIdle DEF Idle
    <3>2. w.cleared = {}
      OBVIOUS
    <3> HIDE DEF w
    <3> QED
      BY <2>2, <3>1, <3>2
         DEF Heard, LackedHolds, LooksHold, Whole, Alone, Newest, Folded, LooksAgree, Folding
  <2>7. NotAged' /\ Undecided' /\ OneJudge'
    BY <2>1, <2>2, AtRestIdle DEF NotAged, Undecided, OneJudge, JudgePlaces, Idle
  <2> QED
    BY <2>5, <2>6, <2>7, <2>8 DEF IInv
<1> QED
  BY <1>1, <1>2, <1>3

(* A sample is handed to an actor only while the watch is open.             *)
LEMMA HandOver ==
  ASSUME IInv, NEW a \in Actors, actor[a] = Idle, NEW to \in Places, Move(a, to),
         to = Idle \/ (Open /\ to.at = "append"), shown' \subseteq Keys,
         UNCHANGED <<command, watch, stored, history>>
  PROVE  IInv'
<1>1. actor' \in [Actors -> Places] /\ \A b \in Actors \ {a} : actor'[b] = actor[b]
  BY DEF Move, IInv, TypeOK, Actors
<1>2. actor'[a] = to
  BY DEF Move, IInv, TypeOK, Actors
<1>3. TypeOK'
  <2>1. CASE watch = NoWatch
    <3>1. to = Idle
      BY <2>1 DEF Open
    <3>2. AtRest'
      BY <1>1, <1>2, <2>1, <3>1 DEF IInv, TypeOK, AtRest, Actors
    <3> QED
      BY <1>1, <2>1, <3>2 DEF IInv, TypeOK, Actors
  <2>2. CASE watch # NoWatch
    BY <1>1, <2>2 DEF IInv, TypeOK, Actors
  <2> QED
    BY <2>1, <2>2
<1>4. to.at \notin JudgePlaces
  BY DEF Idle, JudgePlaces
<1>5. NotAged' /\ Undecided' /\ OneJudge'
  BY <1>1, <1>2, <1>4 DEF IInv, NotAged, Undecided, OneJudge, Open
<1>6. StoredIsVerdict' /\ CommandFirst'
  BY DEF IInv, StoredIsVerdict, CommandFirst
<1>7. Heard'
  <2>1. CASE watch = NoWatch
    BY <2>1 DEF Heard
  <2>2. CASE watch # NoWatch
    <3>1. \A b \in Actors : actor'[b] = actor[b]
            \/ (actor[b].at \in {"idle", "append"} /\ actor'[b].at \in {"idle", "append"})
      BY <1>1, <1>2 DEF Idle
    <3> QED
      BY <2>2, <3>1, HeardStays
  <2> QED
    BY <2>1, <2>2
<1> QED
  BY <1>3, <1>5, <1>6, <1>7 DEF IInv

LEMMA ReceiveKeeps ==
  ASSUME IInv, NEW t \in Threads, Receive(t)
  PROVE  IInv'
<1>1. PICK s \in Samples : /\ shown' = s.active
                           /\ Move(t, IF Open /\ watch.kind # "pulse" THEN [at |-> "append", sample |-> s] ELSE Idle)
  BY DEF Receive, Move
<1>2. [at |-> "append", sample |-> s] \in Places /\ Idle \in Places
  BY DEF Places
<1>3. t \in Actors /\ actor[t] = Idle /\ s.active \subseteq Keys /\ UNCHANGED <<command, watch, stored, history>>
  BY DEF Receive, Samples, Actors
<1>4. CASE Open /\ watch.kind # "pulse"
  BY <1>1, <1>2, <1>3, <1>4, HandOver
<1>5. CASE ~(Open /\ watch.kind # "pulse")
  BY <1>1, <1>2, <1>3, <1>5, HandOver
<1> QED
  BY <1>4, <1>5

LEMMA PulseItemsKeeps ==
  ASSUME IInv, PulseItems
  PROVE  IInv'
<1>1. PICK s \in [active : SUBSET Keys, fall : {0}] : Move(Loop, [at |-> "append", sample |-> s])
  BY DEF PulseItems, Move
<1>2. [at |-> "append", sample |-> s] \in Places
  BY DEF Places, Samples
<1> QED
  BY <1>1, <1>2, HandOver DEF PulseItems, Actors, IInv, TypeOK

LEMMA ForgetKeeps ==
  ASSUME IInv, Forget
  PROVE  IInv'
<1>1. \A a \in Actors : actor[a] = Idle
  BY WindowAssumption DEF Forget, Kept, IInv, TypeOK, NotAged, Watches
<1>2. AtRest' /\ actor' = actor
  BY <1>1, AtRestIdle DEF Forget, AtRest
<1>3. TypeOK'
  BY <1>2 DEF Forget, IInv, TypeOK, Unheard
<1>4. NotAged' /\ Undecided' /\ OneJudge'
  BY <1>1, <1>2 DEF NotAged, Undecided, OneJudge, JudgePlaces, Idle
<1>5. StoredIsVerdict' /\ Heard' /\ CommandFirst'
  BY DEF Forget, StoredIsVerdict, Heard, CommandFirst
<1> QED
  BY <1>3, <1>4, <1>5 DEF IInv

LEMMA TickKeeps ==
  ASSUME IInv, Tick
  PROVE  IInv'
<1>1. watch # NoWatch /\ watch \in Watches /\ \A a \in Actors : actor[a] = Idle
  BY AtRestIdle DEF Tick, IInv, TypeOK
<1>2. PICK n \in Nat, o \in Never..Keep + 1 :
        /\ watch' = [watch EXCEPT !.age = n, !.over = o]
        /\ n <= Most[watch.kind] + 1 /\ (o = Never <=> watch.over = Never)
  <2> DEFINE n == IF watch.age > Most[watch.kind] THEN watch.age ELSE watch.age + 1
             o == IF watch.over = Never \/ watch.over > Keep THEN watch.over ELSE watch.over + 1
  <2>1. Most[watch.kind] \in Nat /\ watch.age \in Nat /\ watch.over \in Never..Keep + 1 /\ Keep \in Nat
        /\ watch.age <= Most[watch.kind] + 1
    BY <1>1, WatchIsNotNone, WindowAssumption DEF IInv, TypeOK
  <2>2. n \in Nat /\ n <= Most[watch.kind] + 1 /\ o \in Never..Keep + 1 /\ (o = Never <=> watch.over = Never)
    BY <2>1 DEF Never
  <2>3. watch' = [watch EXCEPT !.age = n, !.over = o]
    BY DEF Tick
  <2> HIDE DEF n, o
  <2> QED
    BY <2>2, <2>3
<1>3. /\ watch' \in Watches /\ watch'.kind = watch.kind /\ watch'.samples = watch.samples
      /\ watch'.targets = watch.targets /\ watch'.cleared = watch.cleared /\ watch'.done = watch.done
      /\ watch'.age = n /\ watch'.over = o /\ watch'.verdict = watch.verdict
  BY <1>1, <1>2 DEF Watches
<1>4. watch' # NoWatch
  BY <1>3, WatchIsNotNone
<1>5. UNCHANGED <<shown, command, actor, stored, history>>
  BY DEF Tick
<1>6. TypeOK'
  BY <1>1, <1>2, <1>3, <1>4, <1>5 DEF IInv, TypeOK
<1>7. NotAged' /\ Undecided' /\ OneJudge'
  BY <1>1, <1>5 DEF NotAged, Undecided, OneJudge, JudgePlaces, Idle
<1>8. StoredIsVerdict' /\ CommandFirst'
  BY <1>1, <1>3, <1>5 DEF IInv, StoredIsVerdict, CommandFirst
<1>9. Heard'
  <2>1. watch'.targets = watch.targets /\ watch'.cleared = watch.cleared /\ history' = history /\ actor' = actor
    BY <1>3, <1>5
  <2> QED
    BY <1>1, <2>1, HeardStays
<1> QED
  BY <1>6, <1>7, <1>8, <1>9 DEF IInv

LEMMA RestartKeeps ==
  ASSUME HostRestart
  PROVE  IInv'
<1>1. \A a \in Actors : actor'[a] = Idle
  BY DEF HostRestart, Actors
<1>2. NotAged' /\ Undecided' /\ OneJudge'
  BY <1>1 DEF NotAged, Undecided, OneJudge, JudgePlaces, Idle
<1>3. TypeOK' /\ StoredIsVerdict' /\ Heard' /\ CommandFirst'
  BY DEF HostRestart, TypeOK, AtRest, Places, StoredIsVerdict, Heard, Unheard, CommandFirst
<1> QED
  BY <1>2, <1>3 DEF IInv

-----------------------------------------------------------------------------
(* The invariant holds throughout: one actor at most judges the watch, what  *)
(* is stored is its verdict, and what counts as cleared was missing from    *)
(* what was heard of it last.                                               *)
THEOREM VerdictInvariant == Spec => []IInv
<1>1. Init => IInv
  <2> SUFFICES ASSUME Init PROVE IInv
    OBVIOUS
  <2>1. \A a \in Actors : actor[a] = Idle
    BY DEF Init, Actors
  <2>2. TypeOK /\ StoredIsVerdict /\ Heard /\ CommandFirst
    BY DEF Init, TypeOK, AtRest, Places, StoredIsVerdict, Heard, Unheard, CommandFirst
  <2> QED
    BY <2>1, <2>2, RestIsInOrder DEF IInv
<1>2. IInv /\ [Next]_vars => IInv'
  <2> SUFFICES ASSUME IInv, [Next]_vars PROVE IInv'
    OBVIOUS
  <2>1. CASE Ask \/ Fail \/ Start
    BY <2>1, HandlerKeeps
  <2>2. CASE PulseItems \/ TimeOut \/ Forget \/ Tick \/ HostRestart
    BY <2>2, PulseItemsKeeps, TimeOutKeeps, ForgetKeeps, TickKeeps, RestartKeeps
  <2>3. ASSUME NEW t \in Threads, Receive(t) PROVE IInv'
    BY <2>3, ReceiveKeeps
  <2>4. ASSUME NEW a \in Actors, Advance(a) PROVE IInv'
    <3>1. ASSUME NEW k \in Keys, FoldTarget(a, k) \/ Look(a, k) PROVE IInv'
      BY <3>1, FoldTargetKeeps, LookKeeps
    <3> QED
      BY <2>4, <3>1, AppendKeeps, CloseKeeps, JudgeKeeps, TurnKeeps, ConcludeKeeps, StoreKeeps DEF Advance
  <2>5. CASE UNCHANGED vars
    <3>1. Heard'
      BY <2>5 DEF vars, IInv, Heard, LackedHolds, LooksHold, Whole, Alone, Newest, Folded, LooksAgree,
                  Said, Looked, Folding, Judging
    <3> QED
      BY <2>5, <3>1 DEF vars, IInv, TypeOK, AtRest, StoredIsVerdict, CommandFirst, NotAged, Undecided, OneJudge
  <2> QED
    BY <2>1, <2>2, <2>3, <2>4, <2>5 DEF Next
<1> QED
  BY <1>1, <1>2, PTL DEF Spec

(* The table, the actors half way through it and the track record agree:    *)
(* what is stored is the verdict that was given.                            *)
THEOREM TableSound == Spec => []TableIsSound
<1>1. IInv => TableIsSound
  BY DEF IInv, TableIsSound
<1> QED
  BY <1>1, VerdictInvariant, PTL

(* A verdict, once given, stands, however many threads hold the watch.      *)
THEOREM VerdictsStand == Spec => VerdictStands
<1> DEFINE Stands == watch # NoWatch /\ watch' # NoWatch /\ watch.verdict # "none"
                       => watch'.verdict = watch.verdict
<1>1. IInv /\ [Next]_vars => [Stands]_vars
  <2> SUFFICES ASSUME IInv, Next, watch # NoWatch, watch' # NoWatch, watch.verdict # "none"
               PROVE  watch'.verdict = watch.verdict
    OBVIOUS
  <2>0. watch \in Watches
    BY DEF IInv, TypeOK
  <2>1. CASE Ask \/ Fail \/ PulseItems
    BY <2>1 DEF Ask, Fail, PulseItems
  <2>2. CASE Start
    BY <2>2 DEF Start, IInv, CommandFirst
  <2>3. CASE TimeOut \/ Tick
    BY <2>0, <2>3 DEF TimeOut, Finish, Tick, Watches
  <2>4. CASE Forget \/ HostRestart
    BY <2>4 DEF Forget, HostRestart
  <2>5. ASSUME NEW t \in Threads, Receive(t) PROVE watch'.verdict = watch.verdict
    BY <2>5 DEF Receive
  <2>6. ASSUME NEW a \in Actors, Advance(a) PROVE watch'.verdict = watch.verdict
    <3>1. ~Conclude(a) /\ ~Judge(a)
      BY DEF Conclude, Judge, IInv, Undecided, JudgePlaces
    <3>2. CASE Append(a) \/ Close(a) \/ \E k \in Keys : FoldTarget(a, k)
      BY <2>0, <3>2 DEF Append, FoldTarget, Close, Finish, Watches
    <3>3. CASE Turn(a) \/ Store(a) \/ \E k \in Keys : Look(a, k)
      BY <3>3 DEF Turn, Look, Store
    <3> QED
      BY <2>6, <3>1, <3>2, <3>3 DEF Advance
  <2> QED
    BY <2>1, <2>2, <2>3, <2>4, <2>5, <2>6 DEF Next
<1> HIDE DEF Stands
<1>2. Spec => [][Stands]_vars
  BY <1>1, VerdictInvariant, PTL DEF Spec
<1> QED
  BY <1>2 DEF VerdictStands, Stands

(* "Helped" and "fixed" are said only when each finding the action was to    *)
(* clear was missing from what was folded in about it last, and, but for     *)
(* overlapping samples, when all were from the newest sample.               *)
THEOREM WorkedIsClear == Spec => WorkedMeansClear
<1> DEFINE Clear == Worked => /\ watch.targets \subseteq history.lacked
                              /\ history.torn \/ watch.targets \cap history.latest = {}
<1>1. IInv /\ [Next]_vars => [Clear]_vars
  <2> SUFFICES ASSUME IInv, Next, watch # NoWatch, watch' # NoWatch, watch.verdict = "none",
                      watch'.verdict \in {"helped", "fixed"}
               PROVE  /\ watch.targets \subseteq history.lacked
                      /\ history.torn \/ watch.targets \cap history.latest = {}
    BY DEF Worked
  <2> DEFINE Goal == /\ watch.targets \subseteq history.lacked
                     /\ history.torn \/ watch.targets \cap history.latest = {}
  <2>0. watch \in Watches
    BY DEF IInv, TypeOK
  <2>1. CASE Ask \/ Fail \/ PulseItems
    BY <2>1 DEF Ask, Fail, PulseItems
  <2>2. CASE Start
    BY <2>2 DEF Start, IInv, CommandFirst
  <2>3. CASE TimeOut \/ Tick
    BY <2>0, <2>3 DEF TimeOut, Finish, Tick, Watches
  <2>4. CASE Forget \/ HostRestart
    BY <2>4 DEF Forget, HostRestart
  <2>5. ASSUME NEW t \in Threads, Receive(t) PROVE FALSE
    BY <2>5 DEF Receive
  <2>6. ASSUME NEW a \in Actors, Advance(a) PROVE Goal
    <3>1. CASE Append(a) \/ Close(a) \/ \E k \in Keys : FoldTarget(a, k)
      BY <2>0, <3>1 DEF Append, FoldTarget, Close, Finish, Watches
    <3>2. CASE Turn(a) \/ Store(a) \/ \E k \in Keys : Look(a, k)
      BY <3>2 DEF Turn, Look, Store
    <3>3. CASE Judge(a)
      BY <2>0, <3>3 DEF Judge, Watches
    <3>4. CASE Conclude(a)
      <4>1. Outcome(actor[a].found, actor[a].fall) \in {"helped", "fixed"}
        BY <2>0, <3>4 DEF Conclude, Watches
      <4>2. actor[a].found["still"] = {}
        BY <4>1 DEF Outcome, ProcessOutcome, ItemOutcome, AllItemsCleared, NoneLeft
      <4>3. actor[a].pass \notin {"cleared", "still"} /\ actor[a].at = "look" /\ Judging(a)
        BY <3>4 DEF Conclude, NextPass, Judging
      <4>4. Said(a) = watch.targets
        BY <4>2, <4>3 DEF Said, Looked
      <4>5. watch.targets \subseteq history.lacked
        BY <4>3, <4>4 DEF IInv, Heard, LooksHold
      <4>6. ASSUME ~history.torn PROVE watch.targets \cap history.latest = {}
        <5>1. Alone /\ Folded /\ LooksAgree
          BY <4>6 DEF IInv, Heard, Whole
        <5>2. watch.targets \subseteq watch.cleared
          BY <4>3, <4>4, <5>1 DEF LooksAgree
        <5>3. \A b \in Actors : ~Folding(b)
          BY <4>3, <5>1 DEF Alone, Folding, Judging
        <5> QED
          BY <5>1, <5>2, <5>3 DEF Folded
      <4> QED
        BY <4>5, <4>6
    <3> QED
      BY <2>6, <3>1, <3>2, <3>3, <3>4 DEF Advance
  <2> QED
    BY <2>1, <2>2, <2>3, <2>4, <2>5, <2>6 DEF Next
<1> HIDE DEF Clear
<1>2. Spec => [][Clear]_vars
  BY <1>1, VerdictInvariant, PTL DEF Spec
<1> QED
  BY <1>2 DEF WorkedMeansClear, Clear
=============================================================================
