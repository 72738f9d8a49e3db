------------------------- MODULE AgentUpdatesProofs -------------------------
(***************************************************************************)
(* What AgentUpdates promises for any nodes, versions and number of open    *)
(* requests.  The invariant says what an open request may still be trusted  *)
(* with (past the list of versions its target is a published one, and a     *)
(* chosen version is done only when a command answered for it), and that    *)
(* whatever is under way for an agent that sits on its pin was under way    *)
(* when the pin was stored.                                                 *)
(***************************************************************************)
EXTENDS AgentUpdates, TLAPS

Sound(r, published) ==
  /\ r.kind = "version" => r.target \in Versions
  /\ IF r.wait = "loading" THEN r.cmd = "none" ELSE r.target <= published

RequestsSound == \A c \in Places : req[c] # None => Sound(req[c], tip)
AnswersKnown == \A c \in Places :
  req[c] # None /\ req[c].kind = "version" /\ req[c].wait = "done" => answered[c] # "nobody"
FiredClaimed == \A n \in fired : claimed[n]
Undisturbed == \A n \in Nodes : settled[n] =>
  /\ pin[n] > 0 /\ runs[n] = pin[n]
  /\ \A c \in Places : req[c] # None /\ req[c].node = n => c \in early[n]

IInv == TypeOK /\ RequestsSound /\ AnswersKnown /\ FiredClaimed /\ PinWasReached /\ Undisturbed

-----------------------------------------------------------------------------
(* A request is never the mark of a free place, and what a step makes of    *)
(* one is a request of the same kind, for the same node and version.        *)
LEMMA RequestFields ==
  ASSUME NEW r \in Request \cup {None}, r # None
  PROVE  /\ r \in Request /\ r.wait \in Waits /\ r.cmd \in Commands
         /\ r.kind \in Kinds /\ r.node \in Nodes
         /\ r.target \in 0..Newest /\ r.pin \in 0..Newest /\ r.latest \in 0..Newest
  BY DEF Request, None

Same(q, r) ==
  q \in Request /\ q # None /\ q.kind = r.kind /\ q.node = r.node /\ q.target = r.target

LEMMA Waited ==
  ASSUME NEW r \in Request, NEW w \in Waits
  PROVE  Same([r EXCEPT !.wait = w], r) /\ [r EXCEPT !.wait = w].wait = w
  BY DEF Request, None, Waits, Same

LEMMA Commanded ==
  ASSUME NEW r \in Request, NEW k \in Commands
  PROVE  Same([r EXCEPT !.cmd = k], r) /\ [r EXCEPT !.cmd = k].wait = r.wait
  BY DEF Request, None, Commands, Same

LEMMA Sent ==
  ASSUME NEW r \in Request
  PROVE  /\ Same([r EXCEPT !.wait = "waiting", !.cmd = "queued"], r)
         /\ [r EXCEPT !.wait = "waiting", !.cmd = "queued"].wait = "waiting"
  BY DEF Request, None, Commands, Waits, Same

LEMMA Ended ==
  ASSUME NEW r \in Request, NEW result \in {"done", "refused"}
  PROVE  /\ Same(Answered(r, result), r)
         /\ Answered(r, result).wait = IF r.wait = "waiting" THEN result ELSE r.wait
  BY DEF Request, None, Commands, Waits, Same, Answered

LEMMA LeftOver ==
  ASSUME NEW r \in Request
  PROVE  Same(Left(r), r) /\ Left(r).wait = "over"
<1>1. 0 \in 0..Newest /\ "over" \in Waits
  BY VersionAssumption DEF Waits
<1>2. Left(r) \in Request
  BY <1>1 DEF Request, Left
<1>3. /\ Left(r).kind = r.kind /\ Left(r).node = r.node /\ Left(r).target = r.target
      /\ Left(r).wait = "over"
  BY DEF Request, Left
<1>4. Left(r) # None
  BY <1>2 DEF Request, None
<1> QED
  BY <1>2, <1>3, <1>4 DEF Same

-----------------------------------------------------------------------------
(* A new request: a planned one is only begun for an unpinned node, and any *)
(* other ends the rest of the agent it is for.                              *)
LEMMA OpenKeeps ==
  ASSUME IInv, NEW c \in Places, NEW kind \in Kinds, NEW n \in Nodes,
         NEW target \in 0..Newest,
         kind = "version" => target \in Versions,
         kind # "version" => target = Tip,
         kind \in Planned => NotPinned(n),
         Open(c, kind, n, target),
         UNCHANGED <<runs, tip, pin, basis>>
  PROVE  /\ req' \in [Places -> Request \cup {None}]
         /\ answered' \in [Places -> Answerers] /\ basis' \in [Nodes -> Answerers]
         /\ early' \in [Nodes -> SUBSET Places] /\ settled' \in [Nodes -> BOOLEAN]
         /\ RequestsSound' /\ AnswersKnown' /\ PinWasReached' /\ Undisturbed'
<1> DEFINE r == [kind |-> kind, node |-> n, target |-> target,
                 wait |-> IF kind = "version" THEN "loading" ELSE "waiting",
                 cmd |-> IF kind = "version" THEN "none" ELSE "queued",
                 pin |-> IF kind = "version" THEN 0 ELSE pin[n],
                 latest |-> IF kind = "version" THEN remote ELSE 0]
<1>1. pin[n] \in 0..Newest /\ remote \in 0..Newest /\ tip \in 1..Newest
  BY VersionAssumption DEF IInv, TypeOK, Versions
<1>2. r \in Request
  BY <1>1, VersionAssumption DEF Request, Waits, Commands
<1>3. req' = [req EXCEPT ![c] = r]
  BY DEF Open
<1>4. Sound(r, tip') /\ r.wait # "done" /\ r.node = n
  BY <1>1 DEF Sound, Tip, Versions, Kinds
<1> HIDE DEF r
<1>5. /\ req \in [Places -> Request \cup {None}]
      /\ req' \in [Places -> Request \cup {None}]
      /\ req'[c] = r /\ \A d \in Places \ {c} : req'[d] = req[d]
  BY <1>2, <1>3 DEF IInv, TypeOK
<1>6. RequestsSound'
  BY <1>4, <1>5 DEF IInv, RequestsSound, Sound
<1>7. answered' \in [Places -> Answerers] /\ \A d \in Places \ {c} : answered'[d] = answered[d]
  BY DEF Open, IInv, TypeOK, Answerers
<1>8. AnswersKnown'
  BY <1>4, <1>5, <1>7 DEF IInv, AnswersKnown
<1>9. settled' \in [Nodes -> BOOLEAN] /\ early' \in [Nodes -> SUBSET Places]
  BY DEF Open, IInv, TypeOK
<1>10. ASSUME NEW m \in Nodes, settled'[m]
       PROVE  settled[m] /\ m # n /\ early'[m] = early[m] \ {c}
  <2>1. settled[m] /\ (m = n => kind \in Planned) /\ early'[m] = early[m] \ {c}
    BY <1>10 DEF Open, IInv, TypeOK
  <2> QED
    BY <2>1 DEF IInv, Undisturbed, NotPinned
<1>11. Undisturbed'
  <2> SUFFICES ASSUME NEW m \in Nodes, settled'[m]
               PROVE  /\ pin[m] > 0 /\ runs[m] = pin[m]
                      /\ \A d \in Places : req'[d] # None /\ req'[d].node = m => d \in early'[m]
    BY DEF Undisturbed
  <2>1. settled[m] /\ m # n /\ early'[m] = early[m] \ {c}
    BY <1>10
  <2>2. /\ pin[m] > 0 /\ runs[m] = pin[m]
        /\ \A d \in Places : req[d] # None /\ req[d].node = m => d \in early[m]
    BY <2>1 DEF IInv, Undisturbed
  <2> QED
    BY <1>4, <1>5, <2>1, <2>2
<1> QED
  BY <1>5, <1>6, <1>7, <1>8, <1>9, <1>11 DEF IInv, TypeOK, PinWasReached

(* A request that is moved on or dropped: the table stays sound, and nobody *)
(* is under way that was not.                                               *)
LEMMA MoveSound ==
  ASSUME IInv, NEW c \in Places, req[c] # None,
         NEW q, q = None \/ Same(q, req[c]),
         q # None => q.wait # "loading" /\ req[c].target <= tip,
         q # None /\ q.wait = "done" /\ q.kind = "version" => answered'[c] # "nobody",
         \A d \in Places \ {c} : answered'[d] = answered[d],
         req' = [req EXCEPT ![c] = q], tip' = tip
  PROVE  /\ req' \in [Places -> Request \cup {None}] /\ RequestsSound' /\ AnswersKnown'
         /\ \A d \in Places : req'[d] # None => req[d] # None /\ req'[d].node = req[d].node
<1>1. /\ req \in [Places -> Request \cup {None}] /\ Sound(req[c], tip)
      /\ q \in Request \cup {None}
  BY DEF IInv, TypeOK, RequestsSound, Same
<1>2. req'[c] = q /\ \A d \in Places \ {c} : req'[d] = req[d]
  BY <1>1
<1>3. req' \in [Places -> Request \cup {None}]
  BY <1>1
<1>4. RequestsSound'
  <2>1. q # None => Sound(q, tip')
    BY <1>1 DEF Sound, Same
  <2> QED
    BY <1>2, <2>1 DEF IInv, RequestsSound
<1>5. AnswersKnown'
  BY <1>2 DEF IInv, AnswersKnown
<1> QED
  BY <1>2, <1>3, <1>4, <1>5 DEF Same

(* Nothing new under way and no agent, pin or rest changed: no agent that   *)
(* sits on its pin is disturbed.                                            *)
LEMMA StillUndisturbed ==
  ASSUME IInv, UNCHANGED <<runs, pin, pinned>>,
         \A d \in Places : req'[d] # None => req[d] # None /\ req'[d].node = req[d].node
  PROVE  Undisturbed' /\ PinWasReached'
  BY DEF IInv, Undisturbed, PinWasReached, pinned

-----------------------------------------------------------------------------
(* One lemma per action: the invariant is kept.                             *)
LEMMA InitInv == Init => IInv
<1> SUFFICES ASSUME Init PROVE IInv
  OBVIOUS
<1>1. /\ tip \in Versions /\ remote \in 0..tip /\ runs \in [Nodes -> 1..tip]
      /\ seen \in [Nodes -> 0..tip] /\ pin \in [Nodes -> 0..tip]
  BY VersionAssumption DEF Init, Versions
<1>2. req \in [Places -> Request \cup {None}]
  BY DEF Init
<1>3. TypeOK
  BY <1>1, <1>2 DEF Init, TypeOK, Answerers
<1>4. RequestsSound /\ AnswersKnown /\ FiredClaimed /\ PinWasReached /\ Undisturbed
  BY DEF Init, RequestsSound, AnswersKnown, FiredClaimed, PinWasReached, Undisturbed
<1> QED
  BY <1>3, <1>4 DEF IInv

LEMMA ScheduledKeeps ==
  ASSUME IInv, NEW n \in Nodes, ScheduledUpdate(n) PROVE IInv'
<1>1. /\ req' \in [Places -> Request \cup {None}]
      /\ answered' \in [Places -> Answerers] /\ basis' \in [Nodes -> Answerers]
      /\ early' \in [Nodes -> SUBSET Places] /\ settled' \in [Nodes -> BOOLEAN]
      /\ RequestsSound' /\ AnswersKnown' /\ PinWasReached' /\ Undisturbed'
  <2>1. /\ Daily \in Places /\ "sweep" \in Kinds /\ Tip \in 0..Newest
        /\ Open(Daily, "sweep", n, Tip) /\ NotPinned(n) /\ UNCHANGED <<runs, tip, pin, basis>>
    BY VersionAssumption DEF ScheduledUpdate, Places, Kinds, Tip
  <2> QED
    BY <2>1, OpenKeeps
<1>2. TypeOK'
  BY <1>1 DEF IInv, TypeOK, ScheduledUpdate
<1>3. FiredClaimed'
  BY DEF IInv, TypeOK, ScheduledUpdate, FiredClaimed
<1> QED
  BY <1>1, <1>2, <1>3 DEF IInv

LEMMA UpdateAllKeeps ==
  ASSUME IInv, NEW c \in Requests, NEW n \in Nodes, UpdateAll(c, n) PROVE IInv'
<1>1. /\ req' \in [Places -> Request \cup {None}]
      /\ answered' \in [Places -> Answerers] /\ basis' \in [Nodes -> Answerers]
      /\ early' \in [Nodes -> SUBSET Places] /\ settled' \in [Nodes -> BOOLEAN]
      /\ RequestsSound' /\ AnswersKnown' /\ PinWasReached' /\ Undisturbed'
  <2>1. /\ c \in Places /\ "all" \in Kinds /\ Tip \in 0..Newest
        /\ Open(c, "all", n, Tip) /\ NotPinned(n) /\ UNCHANGED <<runs, tip, pin, basis>>
    BY VersionAssumption DEF UpdateAll, Places, Kinds, Planned, Tip, stored
  <2> QED
    BY <2>1, OpenKeeps
<1> QED
  BY <1>1 DEF IInv, TypeOK, UpdateAll, stored, FiredClaimed

LEMMA UpdateNodeKeeps ==
  ASSUME IInv, NEW c \in Requests, NEW n \in Nodes, UpdateNode(c, n) PROVE IInv'
<1>1. /\ req' \in [Places -> Request \cup {None}]
      /\ answered' \in [Places -> Answerers] /\ basis' \in [Nodes -> Answerers]
      /\ early' \in [Nodes -> SUBSET Places] /\ settled' \in [Nodes -> BOOLEAN]
      /\ RequestsSound' /\ AnswersKnown' /\ PinWasReached' /\ Undisturbed'
  <2>1. /\ c \in Places /\ "button" \in Kinds /\ Tip \in 0..Newest
        /\ Open(c, "button", n, Tip) /\ "button" \notin Planned /\ UNCHANGED <<runs, tip, pin, basis>>
    BY VersionAssumption DEF UpdateNode, Places, Kinds, Planned, Tip, stored
  <2> QED
    BY <2>1, OpenKeeps
<1> QED
  BY <1>1 DEF IInv, TypeOK, UpdateNode, stored, FiredClaimed

LEMMA ChooseVersionKeeps ==
  ASSUME IInv, NEW c \in Requests, NEW n \in Nodes, NEW v \in Versions, ChooseVersion(c, n, v)
  PROVE  IInv'
<1>1. /\ req' \in [Places -> Request \cup {None}]
      /\ answered' \in [Places -> Answerers] /\ basis' \in [Nodes -> Answerers]
      /\ early' \in [Nodes -> SUBSET Places] /\ settled' \in [Nodes -> BOOLEAN]
      /\ RequestsSound' /\ AnswersKnown' /\ PinWasReached' /\ Undisturbed'
  <2>1. /\ c \in Places /\ "version" \in Kinds \ Planned /\ v \in 0..Newest
        /\ Open(c, "version", n, v) /\ UNCHANGED <<runs, tip, pin, basis>>
    BY VersionAssumption DEF ChooseVersion, Places, Kinds, Planned, Versions, stored
  <2> QED
    BY <2>1, OpenKeeps
<1> QED
  BY <1>1 DEF IInv, TypeOK, ChooseVersion, stored, FiredClaimed

LEMMA VersionsLoadedKeeps ==
  ASSUME IInv, NEW c \in Places, VersionsLoaded(c) PROVE IInv'
<1>0. req[c] # None /\ req[c] \in Request
  BY RequestFields DEF VersionsLoaded, IInv, TypeOK
<1> DEFINE q == IF req[c].target <= tip
                THEN [req[c] EXCEPT !.wait = "waiting", !.cmd = "queued"] ELSE None
<1>1. q = None \/ (Same(q, req[c]) /\ q.wait = "waiting" /\ req[c].target <= tip)
  BY <1>0, Sent
<1>2. req' = [req EXCEPT ![c] = q] /\ answered' = answered /\ UNCHANGED <<runs, pin, pinned, tip>>
  BY DEF VersionsLoaded, history, stored
<1> HIDE DEF q
<1>3. /\ req' \in [Places -> Request \cup {None}] /\ RequestsSound' /\ AnswersKnown'
      /\ \A d \in Places : req'[d] # None => req[d] # None /\ req'[d].node = req[d].node
  BY <1>0, <1>1, <1>2, MoveSound
<1>4. Undisturbed' /\ PinWasReached'
  BY <1>2, <1>3, StillUndisturbed
<1> QED
  BY <1>3, <1>4 DEF IInv, TypeOK, VersionsLoaded, stored, history, pinned, FiredClaimed

LEMMA UnpinKeeps ==
  ASSUME IInv, NEW n \in Nodes, Unpin(n) PROVE IInv'
<1>1. TypeOK'
  BY DEF IInv, TypeOK, Unpin, Loosen, Versions, Answerers
<1>2. RequestsSound' /\ AnswersKnown' /\ FiredClaimed' /\ PinWasReached'
  BY DEF IInv, TypeOK, Unpin, Loosen, RequestsSound, Sound, AnswersKnown, FiredClaimed, PinWasReached
<1>3. Undisturbed'
  BY DEF IInv, TypeOK, Unpin, Loosen, Undisturbed
<1> QED
  BY <1>1, <1>2, <1>3 DEF IInv

LEMMA DeliverKeeps ==
  ASSUME IInv, NEW c \in Places, Deliver(c) PROVE IInv'
<1>0. req[c] # None /\ req[c] \in Request /\ Sound(req[c], tip)
  BY RequestFields DEF Deliver, IInv, TypeOK, RequestsSound
<1> DEFINE q == [req[c] EXCEPT !.cmd = "handed"]
<1>1. Same(q, req[c]) /\ q.wait = req[c].wait
  BY <1>0, Commanded DEF Commands
<1>2. req' = [req EXCEPT ![c] = q] /\ answered' = answered /\ UNCHANGED <<runs, pin, pinned, tip>>
  BY DEF Deliver, history, stored
<1>3. q.wait = "done" /\ q.kind = "version" => answered'[c] # "nobody"
  BY <1>0, <1>1, <1>2 DEF IInv, AnswersKnown, Same
<1>3a. q.wait # "loading" /\ req[c].target <= tip
  BY <1>0, <1>1 DEF Sound, Deliver
<1> HIDE DEF q
<1>4. /\ req' \in [Places -> Request \cup {None}] /\ RequestsSound' /\ AnswersKnown'
      /\ \A d \in Places : req'[d] # None => req[d] # None /\ req'[d].node = req[d].node
  BY <1>0, <1>1, <1>2, <1>3, <1>3a, MoveSound
<1>5. Undisturbed' /\ PinWasReached'
  BY <1>2, <1>4, StillUndisturbed
<1> QED
  BY <1>4, <1>5 DEF IInv, TypeOK, Deliver, stored, history, pinned, FiredClaimed

(* A step that brings a request a result: of its own command, which ends    *)
(* with it, or of another.                                                  *)
LEMMA EndsSound ==
  ASSUME IInv, NEW c \in Places, req[c] # None, req[c].wait # "loading",
         NEW s \in {"done", "refused"}, Ends(c, s),
         s = "done" /\ req[c].kind = "version" /\ req[c].wait \in {"waiting", "done"}
           => answered'[c] # "nobody",
         s = "refused" => answered'[c] = answered[c],
         \A d \in Places \ {c} : answered'[d] = answered[d], tip' = tip
  PROVE  /\ req' \in [Places -> Request \cup {None}] /\ RequestsSound' /\ AnswersKnown'
         /\ \A d \in Places : req'[d] # None => req[d] # None /\ req'[d].node = req[d].node
<1>0. req[c] \in Request /\ Sound(req[c], tip)
  BY RequestFields DEF IInv, TypeOK, RequestsSound
<1> DEFINE e == Answered(req[c], s)
           q == IF req[c].wait = "over" THEN None ELSE e
<1>1. Same(e, req[c]) /\ e.wait = IF req[c].wait = "waiting" THEN s ELSE req[c].wait
  BY <1>0, Ended
<1>2. req' = [req EXCEPT ![c] = q]
  BY DEF Ends
<1> HIDE DEF e
<1>3. q # None /\ q.wait = "done" /\ q.kind = "version" => answered'[c] # "nobody"
  BY <1>0, <1>1 DEF IInv, AnswersKnown, Same
<1>4. q = None \/ Same(q, req[c])
  BY <1>1
<1>5. req[c].target <= tip /\ (q # None => q.wait # "loading")
  BY <1>0, <1>1 DEF Sound
<1> HIDE DEF q
<1> QED
  BY <1>2, <1>3, <1>4, <1>5, MoveSound

LEMMA RunUpdateKeeps ==
  ASSUME IInv, NEW c \in Places, RunUpdate(c) PROVE IInv'
<1>1. /\ req[c] # None /\ req[c] \in Request /\ Sound(req[c], tip) /\ req[c].node \in Nodes
      /\ req[c].target \in 0..Newest /\ tip \in 1..Newest
  BY RequestFields DEF RunUpdate, WithAgent, IInv, TypeOK, RequestsSound, Versions
<1>2. req[c].wait # "loading"
  BY <1>1 DEF RunUpdate, WithAgent, Sound
<1>3. Goal(req[c]) \in 1..tip
  BY <1>1, <1>2 DEF Goal, Sound, Tip
<1>4. /\ answered' \in [Places -> Answerers] /\ tip' = tip
      /\ answered'[c] = Answerer(req[c], "agent")
      /\ \A d \in Places \ {c} : answered'[d] = answered[d]
  BY DEF RunUpdate, IInv, TypeOK, Answerer, Answerers
<1>5. /\ req' \in [Places -> Request \cup {None}] /\ RequestsSound' /\ AnswersKnown'
      /\ \A d \in Places : req'[d] # None => req[d] # None /\ req'[d].node = req[d].node
  BY <1>1, <1>2, <1>4, EndsSound DEF RunUpdate, Answerer
<1>6. runs' \in [Nodes -> 1..tip] /\ \A n \in Nodes \ {req[c].node} : runs'[n] = runs[n]
  BY <1>1, <1>3 DEF IInv, TypeOK, RunUpdate
<1>7. /\ early' \in [Nodes -> SUBSET Places] /\ settled' \in [Nodes -> BOOLEAN]
      /\ \A n \in Nodes : settled'[n] => settled[n] /\ c \notin early[n] /\ early'[n] = early[n]
  BY DEF IInv, TypeOK, RunUpdate
<1>8. TypeOK'
  BY <1>4, <1>5, <1>6, <1>7 DEF IInv, TypeOK, RunUpdate, stored
<1>9. pin' = pin /\ basis' = basis /\ claimed' = claimed /\ fired' = fired
  BY DEF RunUpdate, stored
<1>10. Undisturbed'
  <2> SUFFICES ASSUME NEW n \in Nodes, settled'[n]
               PROVE  /\ pin[n] > 0 /\ runs'[n] = pin[n]
                      /\ \A d \in Places : req'[d] # None /\ req'[d].node = n => d \in early'[n]
    BY <1>9 DEF Undisturbed
  <2>1. settled[n] /\ c \notin early[n] /\ early'[n] = early[n]
    BY <1>7
  <2>2. /\ pin[n] > 0 /\ runs[n] = pin[n] /\ n # req[c].node
        /\ \A d \in Places : req[d] # None /\ req[d].node = n => d \in early[n]
    BY <1>1, <2>1 DEF IInv, Undisturbed
  <2> QED
    BY <1>5, <1>6, <2>1, <2>2
<1>11. FiredClaimed' /\ PinWasReached'
  BY <1>9 DEF IInv, FiredClaimed, PinWasReached
<1> QED
  BY <1>5, <1>8, <1>10, <1>11 DEF IInv

LEMMA FailUpdateKeeps ==
  ASSUME IInv, NEW c \in Places, FailUpdate(c) PROVE IInv'
<1>1. req[c] # None /\ req[c].wait # "loading"
  BY DEF FailUpdate, WithAgent, IInv, RequestsSound, Sound
<1>2. answered' = answered /\ UNCHANGED <<runs, pin, pinned, tip>>
  BY DEF FailUpdate, history, stored
<1>3. /\ req' \in [Places -> Request \cup {None}] /\ RequestsSound' /\ AnswersKnown'
      /\ \A d \in Places : req'[d] # None => req[d] # None /\ req'[d].node = req[d].node
  BY <1>1, <1>2, EndsSound DEF FailUpdate
<1>4. Undisturbed' /\ PinWasReached'
  BY <1>2, <1>3, StillUndisturbed
<1> QED
  BY <1>3, <1>4 DEF IInv, TypeOK, FailUpdate, stored, history, pinned, FiredClaimed

LEMMA StrayResultKeeps ==
  ASSUME IInv, NEW c \in Places, StrayResult(c) PROVE IInv'
<1>1. /\ req[c] # None /\ req[c] \in Request /\ Sound(req[c], tip) /\ req[c].wait = "waiting"
  BY RequestFields DEF StrayResult, IInv, TypeOK, RequestsSound
<1>2. PICK s \in {"done", "refused"} : req' = [req EXCEPT ![c].wait = s]
  BY DEF StrayResult
<1> DEFINE q == [req[c] EXCEPT !.wait = s]
<1>3. Same(q, req[c]) /\ q.wait = s
  BY <1>1, Waited DEF Waits
<1>4. /\ answered' \in [Places -> Answerers] /\ answered'[c] = Answerer(req[c], "stray")
      /\ \A d \in Places \ {c} : answered'[d] = answered[d]
      /\ UNCHANGED <<runs, pin, pinned, tip>>
  BY DEF StrayResult, stored, Answerer, Answerers, IInv, TypeOK
<1>5. req' = [req EXCEPT ![c] = q] /\ req[c].target <= tip /\ q.wait # "loading"
  BY <1>1, <1>2, <1>3 DEF Sound
<1> HIDE DEF q
<1>6. q.wait = "done" /\ q.kind = "version" => answered'[c] # "nobody"
  BY <1>1, <1>3, <1>4 DEF Answerer, Same
<1>7. /\ req' \in [Places -> Request \cup {None}] /\ RequestsSound' /\ AnswersKnown'
      /\ \A d \in Places : req'[d] # None => req[d] # None /\ req'[d].node = req[d].node
  BY <1>1, <1>3, <1>4, <1>5, <1>6, MoveSound
<1>8. Undisturbed' /\ PinWasReached'
  BY <1>4, <1>7, StillUndisturbed
<1> QED
  BY <1>4, <1>7, <1>8 DEF IInv, TypeOK, StrayResult, stored, pinned, FiredClaimed

LEMMA ReportKeeps ==
  ASSUME IInv, NEW n \in Nodes, Report(n) PROVE IInv'
<1>1. seen' \in [Nodes -> 0..tip]
  BY DEF IInv, TypeOK, Report, Versions
<1>2. TypeOK'
  BY <1>1 DEF IInv, TypeOK, Report, stored, history, pinned
<1>3. RequestsSound' /\ AnswersKnown' /\ FiredClaimed' /\ PinWasReached' /\ Undisturbed'
  BY DEF IInv, Report, stored, history, pinned, RequestsSound, Sound, AnswersKnown, FiredClaimed,
         PinWasReached, Undisturbed
<1> QED
  BY <1>2, <1>3 DEF IInv

(* The pin an answer leaves is the old one, none, or a chosen version that  *)
(* a command answered for; a new one begins a new rest, with all that is    *)
(* under way for the node.                                                  *)
LEMMA AnswerKeeps ==
  ASSUME IInv, NEW c \in Places, Answer(c) PROVE IInv'
<1> DEFINE n == req[c].node
           q == IF req[c].cmd = "none" THEN None ELSE Left(req[c])
<1>1. /\ req[c] # None /\ req[c] \in Request /\ Sound(req[c], tip) /\ n \in Nodes
      /\ req[c].target \in 0..Newest /\ req[c].wait # "loading"
  BY RequestFields DEF Answer, IInv, TypeOK, RequestsSound
<1>2. /\ answered' \in [Places -> Answerers] /\ \A d \in Places \ {c} : answered'[d] = answered[d]
      /\ tip' = tip /\ runs' = runs /\ claimed' = claimed /\ fired' = fired
  BY DEF Answer, IInv, TypeOK, Answerers
<1>3. q = None \/ (Same(q, req[c]) /\ q.wait = "over")
  BY <1>1, LeftOver
<1>4. req' = [req EXCEPT ![c] = q]
  BY DEF Answer
<1>5. req[c].target <= tip
  BY <1>1 DEF Sound
<1> HIDE DEF q
<1>6. /\ req' \in [Places -> Request \cup {None}] /\ RequestsSound' /\ AnswersKnown'
      /\ \A d \in Places : req'[d] # None => req[d] # None /\ req'[d].node = req[d].node
  BY <1>1, <1>2, <1>3, <1>4, <1>5, MoveSound
<1>7. /\ pin' = [pin EXCEPT ![n] = NewPin(req[c])] /\ NewPin(req[c]) \in 0..tip
      /\ pin' \in [Nodes -> 0..tip]
  BY <1>1, <1>5 DEF Answer, NewPin, Accepted, IInv, TypeOK, Versions
<1>8. /\ basis' \in [Nodes -> Answerers] /\ settled' \in [Nodes -> BOOLEAN]
      /\ early' \in [Nodes -> SUBSET Places]
      /\ \A m \in Nodes \ {n} : /\ basis'[m] = basis[m] /\ settled'[m] = settled[m]
                             /\ early'[m] = early[m] /\ pin'[m] = pin[m]
  <2>1. CASE Pins(req[c])
    <3>1. /\ basis' = [basis EXCEPT ![n] = answered[c]]
          /\ settled' = [settled EXCEPT ![n] = runs[n] = pin'[n]]
          /\ early' = [early EXCEPT ![n] = IF settled'[n] THEN UnderWay(n, req') ELSE {}]
      BY <2>1 DEF Answer
    <3>2. answered[c] \in Answerers /\ UnderWay(n, req') \subseteq Places
      BY DEF IInv, TypeOK, UnderWay
    <3> QED
      BY <1>7, <3>1, <3>2 DEF IInv, TypeOK
  <2>2. CASE ~Pins(req[c]) /\ pin'[n] = 0
    <3>1. Loosen(n)
      BY <2>2 DEF Answer
    <3> QED
      BY <1>7, <3>1 DEF IInv, TypeOK, Loosen, Answerers
  <2>3. CASE ~Pins(req[c]) /\ pin'[n] # 0
    BY <1>7, <2>3 DEF Answer, IInv, TypeOK, pinned
  <2> QED
    BY <2>1, <2>2, <2>3
<1>9. TypeOK'
  BY <1>2, <1>6, <1>7, <1>8 DEF IInv, TypeOK, Answer
<1>10. /\ pin'[n] > 0 => basis'[n] # "nobody"
       /\ settled'[n] => /\ pin'[n] > 0 /\ runs[n] = pin'[n]
                         /\ \A d \in Places : req'[d] # None /\ req'[d].node = n => d \in early'[n]
  <2>1. CASE Pins(req[c])
    <3>1. answered[c] # "nobody" /\ pin'[n] = req[c].target /\ req[c].target > 0
      BY <1>1, <1>7, <2>1 DEF Pins, NewPin, Accepted, IInv, TypeOK, AnswersKnown, Sound, Versions
    <3>2. /\ basis'[n] = answered[c] /\ settled'[n] = (runs[n] = pin'[n])
          /\ early'[n] = IF settled'[n] THEN UnderWay(n, req') ELSE {}
      BY <1>1, <2>1 DEF Answer, IInv, TypeOK
    <3> QED
      BY <3>1, <3>2 DEF UnderWay
  <2>2. CASE ~Pins(req[c]) /\ pin'[n] = 0
    BY <1>1, <2>2 DEF Answer, IInv, TypeOK, Loosen
  <2>3. CASE ~Pins(req[c]) /\ pin'[n] # 0
    <3>1. pin'[n] = pin[n]
      BY <1>1, <1>7, <2>3 DEF Pins, NewPin, IInv, TypeOK
    <3>2. basis'[n] = basis[n] /\ settled'[n] = settled[n] /\ early'[n] = early[n]
      BY <2>3 DEF Answer, pinned
    <3>3. pin[n] > 0 => basis[n] # "nobody"
      BY <1>1 DEF IInv, PinWasReached
    <3>4. settled[n] => /\ pin[n] > 0 /\ runs[n] = pin[n]
                        /\ \A d \in Places : req[d] # None /\ req[d].node = n => d \in early[n]
      BY <1>1 DEF IInv, Undisturbed
    <3> QED
      BY <1>6, <3>1, <3>2, <3>3, <3>4
  <2> QED
    BY <2>1, <2>2, <2>3
<1>11. PinWasReached'
  BY <1>8, <1>10 DEF IInv, PinWasReached
<1>12. Undisturbed'
  <2> SUFFICES ASSUME NEW m \in Nodes, m # n, settled'[m]
               PROVE  /\ pin'[m] > 0 /\ runs'[m] = pin'[m]
                      /\ \A d \in Places : req'[d] # None /\ req'[d].node = m => d \in early'[m]
    BY <1>2, <1>10 DEF Undisturbed
  <2>1. /\ pin[m] > 0 /\ runs[m] = pin[m]
        /\ \A d \in Places : req[d] # None /\ req[d].node = m => d \in early[m]
    BY <1>8 DEF IInv, Undisturbed
  <2> QED
    BY <1>2, <1>6, <1>8, <2>1
<1>13. FiredClaimed'
  BY <1>2 DEF IInv, FiredClaimed
<1> QED
  BY <1>6, <1>9, <1>11, <1>12, <1>13 DEF IInv

LEMMA TimeOutKeeps ==
  ASSUME IInv, NEW c \in Places, TimeOut(c) PROVE IInv'
<1>1. /\ req[c] # None /\ req[c] \in Request /\ Sound(req[c], tip) /\ req[c].wait # "loading"
  BY RequestFields DEF TimeOut, IInv, TypeOK, RequestsSound
<1> DEFINE q == GivenUp(req[c])
<1>2. q = None \/ (Same(q, req[c]) /\ q.wait = "over")
  BY <1>1, LeftOver DEF GivenUp
<1>3. /\ req' = [req EXCEPT ![c] = q] /\ UNCHANGED <<runs, pin, pinned, tip>>
      /\ answered' \in [Places -> Answerers] /\ \A d \in Places \ {c} : answered'[d] = answered[d]
  BY DEF TimeOut, stored, IInv, TypeOK, Answerers
<1>4. req[c].target <= tip
  BY <1>1 DEF Sound
<1> HIDE DEF q
<1>5. /\ req' \in [Places -> Request \cup {None}] /\ RequestsSound' /\ AnswersKnown'
      /\ \A d \in Places : req'[d] # None => req[d] # None /\ req'[d].node = req[d].node
  BY <1>1, <1>2, <1>3, <1>4, MoveSound
<1>6. Undisturbed' /\ PinWasReached'
  BY <1>3, <1>5, StillUndisturbed
<1> QED
  BY <1>3, <1>5, <1>6 DEF IInv, TypeOK, TimeOut, stored, pinned, FiredClaimed

LEMMA PublishKeeps == ASSUME IInv, Publish PROVE IInv'
<1>1. tip \in 1..Newest /\ tip' \in 1..Newest /\ tip < tip'
  BY VersionAssumption DEF IInv, TypeOK, Publish, Versions
<1>2. 0..tip \subseteq 0..tip' /\ 1..tip \subseteq 1..tip'
  BY <1>1
<1>3. /\ runs' \in [Nodes -> 1..tip'] /\ seen' \in [Nodes -> 0..tip']
      /\ pin' \in [Nodes -> 0..tip'] /\ remote' \in 0..tip'
  BY <1>2 DEF IInv, TypeOK, Publish, stored
<1>4. TypeOK'
  BY <1>1, <1>3 DEF IInv, TypeOK, Publish, stored, history, pinned, Versions
<1>5. RequestsSound'
  <2> SUFFICES ASSUME NEW c \in Places, req[c] # None PROVE Sound(req[c], tip')
    BY DEF Publish, RequestsSound
  <2>1. Sound(req[c], tip) /\ req[c].target \in 0..Newest
    BY RequestFields DEF IInv, TypeOK, RequestsSound
  <2> QED
    BY <1>1, <2>1 DEF Sound
<1>6. AnswersKnown' /\ FiredClaimed' /\ PinWasReached' /\ Undisturbed'
  BY DEF IInv, Publish, stored, history, pinned, AnswersKnown, FiredClaimed, PinWasReached,
         Undisturbed
<1> QED
  BY <1>4, <1>5, <1>6 DEF IInv

(* What else changes touches neither a request nor a pin; the claims and    *)
(* the commands of a day end together.                                      *)
LEMMA AroundKeeps ==
  ASSUME IInv, RefreshRemoteVersion \/ Clock \/ Configure \/ UNCHANGED vars
  PROVE  IInv'
<1>1. CASE RefreshRemoteVersion
  BY <1>1 DEF RefreshRemoteVersion, IInv, TypeOK, stored, history, pinned, RequestsSound, Sound,
              AnswersKnown, FiredClaimed, PinWasReached, Undisturbed, Versions
<1>2. CASE Configure
  BY <1>2 DEF Configure, IInv, TypeOK, stored, history, pinned, RequestsSound, Sound,
              AnswersKnown, FiredClaimed, PinWasReached, Undisturbed
<1>3. CASE Clock
  <2>1. /\ hour' \in BOOLEAN /\ claimed' \in [Nodes -> BOOLEAN] /\ fired' \subseteq Nodes
        /\ FiredClaimed'
    BY <1>3 DEF Clock, Today, IInv, TypeOK, FiredClaimed
  <2>2. TypeOK'
    BY <1>3, <2>1 DEF Clock, IInv, TypeOK, pinned
  <2>3. RequestsSound' /\ AnswersKnown' /\ PinWasReached' /\ Undisturbed'
    BY <1>3 DEF Clock, IInv, pinned, RequestsSound, Sound, AnswersKnown, PinWasReached, Undisturbed
  <2> QED
    BY <2>1, <2>2, <2>3 DEF IInv
<1>4. CASE UNCHANGED vars
  BY <1>4 DEF vars, IInv, TypeOK, stored, history, pinned, RequestsSound, Sound, AnswersKnown,
              FiredClaimed, PinWasReached, Undisturbed
<1> QED
  BY <1>1, <1>2, <1>3, <1>4

LEMMA HostRestartKeeps == ASSUME IInv, HostRestart PROVE IInv'
<1>1. ASSUME NEW c \in Places
      PROVE  /\ req'[c] \in Request \cup {None}
             /\ req'[c] # None => /\ req[c] # None /\ Sound(req'[c], tip)
                                  /\ req'[c].wait = "over" /\ req'[c].node = req[c].node
  <2>1. CASE req[c] = None \/ req[c].cmd # "handed"
    BY <2>1 DEF HostRestart, GivenUp
  <2>2. CASE req[c] # None /\ req[c].cmd = "handed"
    <3>1. req[c] \in Request /\ Sound(req[c], tip)
      BY <2>2, RequestFields DEF IInv, TypeOK, RequestsSound
    <3>2. req'[c] = Left(req[c])
      BY <2>2 DEF HostRestart, GivenUp
    <3>3. Same(Left(req[c]), req[c]) /\ Left(req[c]).wait = "over"
      BY <3>1, LeftOver
    <3>4. req[c].target <= tip
      BY <2>2, <3>1 DEF Sound
    <3> QED
      BY <2>2, <3>1, <3>2, <3>3, <3>4 DEF Sound, Same
  <2> QED
    BY <2>1, <2>2
<1>2. req' \in [Places -> Request \cup {None}]
  BY <1>1 DEF HostRestart
<1>3. /\ RequestsSound' /\ AnswersKnown'
      /\ \A d \in Places : req'[d] # None => req[d] # None /\ req'[d].node = req[d].node
  BY <1>1 DEF HostRestart, RequestsSound, AnswersKnown
<1>4. seen' \in [Nodes -> 0..tip] /\ remote' \in 0..tip
  BY DEF HostRestart, IInv, TypeOK, Versions
<1>5. TypeOK'
  BY <1>2, <1>4 DEF HostRestart, IInv, TypeOK, stored, pinned, Answerers
<1>6. Undisturbed' /\ PinWasReached'
  <2>1. UNCHANGED <<runs, pin, pinned>>
    BY DEF HostRestart, stored
  <2> QED
    BY <1>3, <2>1, StillUndisturbed
<1> QED
  BY <1>3, <1>5, <1>6 DEF HostRestart, IInv, stored, FiredClaimed

-----------------------------------------------------------------------------
LEMMA StepInv == IInv /\ [Next]_vars => IInv'
<1> SUFFICES ASSUME IInv, [Next]_vars PROVE IInv'
  OBVIOUS
<1>1. CASE Sweep
  BY <1>1, ScheduledKeeps DEF Sweep
<1>2. CASE \E c \in Requests, n \in Nodes : UpdateAll(c, n) \/ UpdateNode(c, n)
  BY <1>2, UpdateAllKeeps, UpdateNodeKeeps
<1>3. CASE \E c \in Requests, n \in Nodes, v \in Versions : ChooseVersion(c, n, v)
  BY <1>3, ChooseVersionKeeps
<1>4. CASE \E n \in Nodes : Unpin(n) \/ Report(n)
  BY <1>4, UnpinKeeps, ReportKeeps
<1>5. CASE \E c \in Places : \/ VersionsLoaded(c) \/ Deliver(c) \/ RunUpdate(c) \/ FailUpdate(c)
                               \/ StrayResult(c) \/ Answer(c) \/ TimeOut(c)
  BY <1>5, VersionsLoadedKeeps, DeliverKeeps, RunUpdateKeeps, FailUpdateKeeps, StrayResultKeeps,
     AnswerKeeps, TimeOutKeeps
<1>6. CASE Publish
  BY <1>6, PublishKeeps
<1>7. CASE RefreshRemoteVersion \/ Clock \/ Configure \/ UNCHANGED vars
  BY <1>7, AroundKeeps
<1>8. CASE HostRestart
  BY <1>8, HostRestartKeeps
<1> QED
  BY <1>1, <1>2, <1>3, <1>4, <1>5, <1>6, <1>7, <1>8 DEF Next

LEMMA AlwaysIInv == Spec => []IInv
<1> QED
  BY InitInv, StepInv, PTL DEF Spec

(* Every variable keeps its range, for any nodes and versions: above all no *)
(* agent runs, reports or is pinned to a version never published.           *)
THEOREM TypeCorrect == Spec => []TypeOK
<1>1. IInv => TypeOK
  BY DEF IInv
<1> QED
  BY <1>1, AlwaysIInv, PTL

(* A pin in agents.pinned_version stands for a command that was carried     *)
(* out, whatever was refused, timed out or restarted in between, but for    *)
(* the results of an earlier life of the host.                              *)
THEOREM PinReached == Spec => []PinWasReached
<1>1. IInv => PinWasReached
  BY DEF IInv
<1> QED
  BY <1>1, AlwaysIInv, PTL

(* mark_auto_updated lets one scheduled update a day through to a node: a   *)
(* node that had one today has its slot taken, so no other begins.          *)
THEOREM ScheduledOnce == Spec => OnceADay
<1> DEFINE Once == \A c \in Places :
             /\ req[c] = None /\ req'[c] # None /\ req'[c].kind = "sweep"
             => req'[c].node \notin fired
<1>1. IInv /\ [Next]_vars => [Once]_vars
  <2> SUFFICES ASSUME IInv, Next, NEW d \in Places, req[d] = None, req'[d] # None,
                      req'[d].kind = "sweep"
               PROVE  req'[d].node \notin fired
    OBVIOUS
  <2>1. ASSUME NEW n \in Nodes, ScheduledUpdate(n) PROVE req'[d].node \notin fired
    BY <2>1 DEF ScheduledUpdate, Open, SlotFree, IInv, TypeOK, FiredClaimed
  <2>2. ASSUME NEW c \in Requests, NEW n \in Nodes, UpdateAll(c, n) \/ UpdateNode(c, n) PROVE FALSE
    BY <2>2 DEF UpdateAll, UpdateNode, Open, IInv, TypeOK
  <2>3. ASSUME NEW c \in Requests, NEW n \in Nodes, NEW v \in Versions, ChooseVersion(c, n, v)
        PROVE FALSE
    BY <2>3 DEF ChooseVersion, Open, IInv, TypeOK
  <2>4. ASSUME NEW c \in Places,
               \/ VersionsLoaded(c) \/ Deliver(c) \/ RunUpdate(c) \/ FailUpdate(c)
               \/ StrayResult(c) \/ Answer(c) \/ TimeOut(c)
        PROVE  FALSE
    <3>1. req[c] # None
      BY <2>4 DEF VersionsLoaded, Deliver, RunUpdate, FailUpdate, WithAgent, StrayResult,
                      Answer, TimeOut
    <3>2. req'[d] = req[d]
      BY <2>4, <3>1 DEF VersionsLoaded, Deliver, RunUpdate, FailUpdate, Ends, StrayResult, Answer,
                        TimeOut, IInv, TypeOK
    <3> QED
      BY <3>2
  <2>5. ASSUME \/ \E n \in Nodes : Unpin(n) \/ Report(n)
               \/ Publish \/ RefreshRemoteVersion \/ Clock \/ Configure
        PROVE  FALSE
    BY <2>5 DEF Unpin, Report, Publish, RefreshRemoteVersion, Clock, Configure
  <2>6. ASSUME HostRestart PROVE FALSE
    BY <2>6 DEF HostRestart
  <2> QED
    BY <2>1, <2>2, <2>3, <2>4, <2>5, <2>6 DEF Next, Sweep
<1> HIDE DEF Once
<1>2. Spec => [][Once]_vars
  BY <1>1, AlwaysIInv, PTL DEF Spec
<1> QED
  BY <1>2 DEF OnceADay, Once

(* An agent that ran the version it was pinned to when the pin was stored   *)
(* is moved by no sweep, Update all or restart: by an explicit action, or   *)
(* by a command that was already under way.                                 *)
THEOREM PinsHold == Spec => []PinHolds
<1>1. IInv => PinHolds
  BY DEF IInv, Undisturbed, PinHolds
<1> QED
  BY <1>1, AlwaysIInv, PTL
=============================================================================
