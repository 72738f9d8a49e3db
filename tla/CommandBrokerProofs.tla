------------------------- MODULE CommandBrokerProofs -------------------------
(***************************************************************************)
(* Safety of the command broker for any number of nodes, requests and      *)
(* reports in flight, in one life of the host process.                     *)
(*                                                                         *)
(* The inductive invariant is TypeOK together with Bookkeeping, which says *)
(* where a command is at any moment: in the queue of its node, with its    *)
(* agent, or run, and in one of these places only.  The properties the     *)
(* runs check follow from it.                                              *)
(***************************************************************************)
EXTENDS CommandBroker, TLAPS

Inv == TypeOK /\ Bookkeeping

LEMMA InitInv == Init => Inv
<1> SUFFICES ASSUME Init PROVE Inv
  OBVIOUS
<1> USE BoundsAssumption DEF Init
<1>1. TypeOK
  BY DEF TypeOK, Req, Phases, Results, NoResult, NoId
<1>2. \A r \in Req : ~Queued(r) /\ ~AtAgent(r)
  BY DEF Queued, AtAgent
<1>3. Bookkeeping
  BY <1>2 DEF Bookkeeping, IdsInOrder, QueuesApart, ResultsTrue, FuturesAwaited,
              RunAtMostOnce, Req, NoResult, Dropped
<1> QED BY <1>1, <1>3 DEF Inv

(* Removing a request from a queue keeps the rest, in order and once each. *)
LEMMA WithoutFacts ==
  ASSUME NEW q \in Seq(Req), NEW r \in Req,
         \A i, j \in DOMAIN q : q[i] = q[j] => i = j
  PROVE  /\ Without(q, r) \in Seq(Req)
         /\ \A i \in DOMAIN Without(q, r) :
              Without(q, r)[i] # r /\ \E j \in DOMAIN q : q[j] = Without(q, r)[i]
         /\ \A i, j \in DOMAIN Without(q, r) : Without(q, r)[i] = Without(q, r)[j] => i = j
<1>1. CASE ~\E i \in DOMAIN q : q[i] = r
  BY <1>1 DEF Without
<1>2. CASE \E i \in DOMAIN q : q[i] = r
  <2> DEFINE k == CHOOSE i \in DOMAIN q : q[i] = r
             w == [i \in 1..(Len(q) - 1) |-> q[IF i < k THEN i ELSE i + 1]]
  <2>1. k \in 1..Len(q) /\ q[k] = r /\ Without(q, r) = w
    BY <1>2 DEF Without
  <2> HIDE DEF k
  <2>2. \A i \in 1..(Len(q) - 1) : (IF i < k THEN i ELSE i + 1) \in 1..Len(q) \ {k}
    BY <2>1
  <2>3. w \in Seq(Req)
    <3>1. w \in [1..(Len(q) - 1) -> Req] /\ Len(q) - 1 \in Nat
      BY <2>1, <2>2
    <3> QED BY <3>1
  <2>4. DOMAIN w = 1..(Len(q) - 1) /\ DOMAIN q = 1..Len(q)
    BY <2>1
  <2>5. \A i \in DOMAIN w : w[i] # r /\ \E j \in DOMAIN q : q[j] = w[i]
    BY <2>1, <2>2, <2>4
  <2>6. \A i, j \in DOMAIN w : w[i] = w[j] => i = j
    <3> SUFFICES ASSUME NEW i \in 1..(Len(q) - 1), NEW j \in 1..(Len(q) - 1), w[i] = w[j]
                 PROVE  i = j
      BY <2>4
    <3>1. (IF i < k THEN i ELSE i + 1) = (IF j < k THEN j ELSE j + 1)
      BY <2>2, <2>4
    <3> QED BY <3>1, <2>1
  <2> QED BY <2>1, <2>3, <2>5, <2>6
<1> QED BY <1>1, <1>2

(* A request is asked and queued, perhaps at the cost of the oldest one.   *)
LEMMA SubmitInv ==
  ASSUME Inv, NEW n \in Node, Submit(n) PROVE Inv'
<1> DEFINE r == asked + 1
           old == Head(pending[n])
           full == ~(Len(pending[n]) < MaxPending)
<1> USE BoundsAssumption
<1>1. /\ r \in Req /\ asked \in Nat /\ asked < MaxReq /\ r \notin 1..asked
      /\ phase[r] = "unasked" /\ runs[r] = 0 /\ result[r] = NoResult
      /\ ~AtAgent(r) /\ ~Queued(r) /\ r \notin futures
  <2>1. r \in Req /\ asked \in Nat /\ asked < MaxReq /\ ~(r <= asked)
    BY DEF Submit, Inv, TypeOK, Req
  <2>2. /\ phase[r] = "unasked" /\ runs[r] = 0 /\ result[r] = NoResult
        /\ ~AtAgent(r) /\ ~Queued(r)
    BY <2>1 DEF Inv, Bookkeeping, IdsInOrder
  <2> QED BY <2>1, <2>2 DEF Inv, Bookkeeping, FuturesAwaited
<1>2. /\ id' = [id EXCEPT ![r] = [node |-> n, n |-> r]] /\ asked' = r /\ seq' = r
      /\ UNCHANGED <<enabled, reports, badReports, inbox, outbox, runs, restarts>>
      /\ Overflow(n, r)
  BY DEF Submit, Inv, Bookkeeping, IdsInOrder, agentVars
<1>3. id' \in [Req -> Id \cup {NoId}] /\ id'[r] \in Id /\ id'[r].node = n /\ id'[r].n = r
      /\ \A q \in Req : q # r => id'[q] = id[q]
  BY <1>1, <1>2 DEF Inv, TypeOK, Id, Req
<1>4. pending[n] \in Seq(Req) /\ \A i, j \in DOMAIN pending[n] : pending[n][i] = pending[n][j] => i = j
  BY DEF Inv, TypeOK, Bookkeeping, QueuesApart
<1>5. full => /\ old \in Req /\ old # r /\ Queued(old) /\ phase[old] \in {"waiting", "expired"}
              /\ ~AtAgent(old) /\ runs[old] = 0 /\ old \in 1..asked
              /\ Len(pending[n]) >= 1 /\ pending[n][1] = old
  <2>1. full => Len(pending[n]) >= 1 /\ pending[n][1] = old /\ 1 \in DOMAIN pending[n] /\ old \in Req
    BY <1>4
  <2>2. full => Queued(old)
    BY <2>1 DEF Queued
  <2> QED BY <2>1, <2>2, <1>1 DEF Inv, TypeOK, Bookkeeping, QueuesApart, IdsInOrder, Req
\* What the step does to the queue of n, in both cases.
<1>6. /\ pending' \in [Node -> Seq(Req)]
      /\ \A m \in Node \ {n} : pending'[m] = pending[m]
      /\ \A i, j \in DOMAIN pending'[n] : pending'[n][i] = pending'[n][j] => i = j
      /\ \A i \in DOMAIN pending'[n] :
           pending'[n][i] = r \/ /\ \E j \in DOMAIN pending[n] : pending[n][j] = pending'[n][i]
                                 /\ full => pending'[n][i] # old
  <2>1. CASE ~full
    <3>1. pending' = [pending EXCEPT ![n] = Append(pending[n], r)]
      BY <2>1, <1>2 DEF Overflow
    <3>2. \A i \in DOMAIN pending[n] : pending[n][i] # r
      BY <1>1 DEF Queued
    <3> QED BY <2>1, <3>1, <3>2, <1>1, <1>4 DEF Inv, TypeOK
  <2>2. CASE full
    <3> DEFINE t == Tail(pending[n])
    <3>1. pending' = [pending EXCEPT ![n] = Append(t, r)]
      BY <2>2, <1>2 DEF Overflow
    <3>2. \A i \in DOMAIN pending[n] : pending[n][i] # r
      BY <1>1 DEF Queued
    <3>3. /\ t \in Seq(Req) /\ Len(t) = Len(pending[n]) - 1 /\ DOMAIN t = 1..Len(t)
          /\ \A i \in 1..Len(t) : t[i] = pending[n][i + 1] /\ i + 1 \in DOMAIN pending[n]
      BY <2>2, <1>4, <1>5
    <3>4. \A i, j \in DOMAIN t : t[i] = t[j] => i = j
      BY <3>3, <1>4
    <3>5. \A i \in DOMAIN t : t[i] # old /\ t[i] # r
      BY <2>2, <3>2, <3>3, <1>4, <1>5
    <3> DEFINE s == Append(t, r)
    <3>6. /\ s \in Seq(Req) /\ DOMAIN s = 1..(Len(t) + 1) /\ s[Len(t) + 1] = r
          /\ \A i \in 1..Len(t) : s[i] = t[i]
      BY <3>3, <1>1
    <3>7. pending'[n] = s /\ \A m \in Node \ {n} : pending'[m] = pending[m]
      BY <3>1 DEF Inv, TypeOK
    <3>8. pending' \in [Node -> Seq(Req)]
      BY <3>1, <3>6 DEF Inv, TypeOK
    <3> HIDE DEF t, s
    <3>9. Len(t) \in Nat /\ DOMAIN t = 1..Len(t)
      BY <3>3
    <3>10. \A i, j \in DOMAIN s : s[i] = s[j] => i = j
      <4>1. \A i \in 1..Len(t) : s[i] # r
        BY <3>5, <3>6, <3>9
      <4> QED BY <4>1, <3>4, <3>6, <3>9
    <3>11. \A i \in DOMAIN s : s[i] = r \/ /\ \E j \in DOMAIN pending[n] : pending[n][j] = s[i]
                                           /\ s[i] # old
      <4>1. \A i \in DOMAIN s : i = Len(t) + 1 \/ i \in 1..Len(t)
        BY <3>6, <3>9
      <4>2. \A i \in 1..Len(t) : s[i] = pending[n][i + 1] /\ i + 1 \in DOMAIN pending[n] /\ s[i] # old
        BY <3>3, <3>5, <3>6
      <4> QED BY <4>1, <4>2, <3>6
    <3> QED BY <3>7, <3>8, <3>10, <3>11
  <2> QED BY <2>1, <2>2
<1>7. \A q \in Req : Queued(q)' => q = r \/ (Queued(q) /\ (full => q # old))
  <2>1. \A m \in Node \ {n} : \A i \in DOMAIN pending[m] : full => pending[m][i] # old
    BY <1>5 DEF Inv, Bookkeeping, QueuesApart
  <2> QED BY <1>6, <2>1 DEF Queued
<1>8. /\ futures' \subseteq Req /\ phase' \in [Req -> Phases] /\ result' \in [Req -> Results]
      /\ phase'[r] = "waiting" /\ result'[r] = NoResult
      /\ \A q \in Req \ {r} :
           \/ phase'[q] = phase[q] /\ result'[q] = result[q]
           \/ full /\ q = old /\ phase[q] = "waiting" /\ phase'[q] = "set" /\ result'[q] = Dropped
      /\ \A q \in futures' : q = r \/ (q \in futures /\ phase'[q] = phase[q])
  <2>1. CASE ~full
    <3>1. futures' = futures \cup {r} /\ phase' = [phase EXCEPT ![r] = "waiting"] /\ result' = result
      BY <2>1, <1>2 DEF Overflow
    <3>2. phase' \in [Req -> Phases]
      BY <3>1, <1>1 DEF Inv, TypeOK, Phases
    <3>3. futures \subseteq Req /\ phase \in [Req -> Phases] /\ result \in [Req -> Results]
      BY DEF Inv, TypeOK
    <3>4. phase'[r] = "waiting" /\ \A q \in Req \ {r} : phase'[q] = phase[q]
      BY <3>1, <3>3, <1>1
    <3> HIDE DEF r, old, full
    <3> QED BY <3>1, <3>2, <3>3, <3>4, <1>1
  <2>2. CASE full
    <3> DEFINE hit == old \in futures /\ phase[old] = "waiting"
    <3>1. /\ futures' = (futures \ {old}) \cup {r}
          /\ phase' = [phase EXCEPT ![r] = "waiting", ![old] = IF hit THEN "set" ELSE @]
          /\ result' = [result EXCEPT ![old] = IF hit THEN Dropped ELSE @]
      BY <2>2, <1>2 DEF Overflow
    <3>2. phase \in [Req -> Phases] /\ result \in [Req -> Results] /\ Dropped \in Results
          /\ old \in Req /\ old # r
      BY <2>2, <1>5 DEF Inv, TypeOK, Results
    <3>3. phase' \in [Req -> Phases] /\ result' \in [Req -> Results]
      BY <3>1, <3>2, <1>1 DEF Phases
    <3>4. /\ phase'[r] = "waiting" /\ result'[r] = NoResult
          /\ \A q \in Req \ {r, old} : phase'[q] = phase[q] /\ result'[q] = result[q]
          /\ hit => phase'[old] = "set" /\ result'[old] = Dropped
          /\ ~hit => phase'[old] = phase[old] /\ result'[old] = result[old]
      BY <3>1, <3>2, <1>1
    <3>5. futures \subseteq Req
      BY DEF Inv, TypeOK
    <3>6. hit => phase[old] = "waiting"
      OBVIOUS
    <3>7. \A q \in futures' : q = r \/ (q \in futures /\ q \notin {r, old})
      BY <3>1, <1>1
    <3> HIDE DEF r, old, full, hit
    <3>8. \A q \in futures' : q = r \/ (q \in futures /\ phase'[q] = phase[q])
      BY <3>4, <3>5, <3>7
    <3> QED BY <2>2, <3>1, <3>2, <3>3, <3>4, <3>5, <3>6, <3>8, <1>1
  <2> QED BY <2>1, <2>2
<1>9. \A q \in Req : AtAgent(q)' <=> AtAgent(q)
  BY <1>2 DEF AtAgent
<1>10. TypeOK'
  BY <1>1, <1>2, <1>3, <1>6, <1>8 DEF Inv, TypeOK
<1>11. IdsInOrder'
  <2> SUFFICES ASSUME NEW q \in Req
      PROVE IF q \leq r THEN id'[q] \in Id /\ id'[q].n = q
            ELSE /\ phase'[q] = "unasked" /\ runs[q] = 0 /\ result'[q] = NoResult
                 /\ ~AtAgent(q) /\ ~Queued(q)'
    BY <1>2, <1>9 DEF IdsInOrder
  <2>1. CASE q = r
    BY <2>1, <1>1, <1>3
  <2>2. CASE q # r
    BY <2>2, <1>1, <1>3, <1>5, <1>7, <1>8 DEF Inv, TypeOK, Bookkeeping, IdsInOrder, Req
  <2> QED BY <2>1, <2>2
<1>12. QueuesApart'
  <2>1. \A m \in Node : \A i, j \in DOMAIN pending'[m] :
           id'[pending'[m][i]].node = m /\ (pending'[m][i] = pending'[m][j] => i = j)
    <3> SUFFICES ASSUME NEW m \in Node, NEW i \in DOMAIN pending'[m]
        PROVE /\ id'[pending'[m][i]].node = m
              /\ \A j \in DOMAIN pending'[m] : pending'[m][i] = pending'[m][j] => i = j
      OBVIOUS
    <3>1. \A x \in Node : \A k \in DOMAIN pending[x] : pending[x][k] # r /\ pending[x][k] \in Req
      BY <1>1 DEF Queued, Inv, TypeOK
    <3>2. CASE m = n
      BY <3>1, <3>2, <1>3, <1>6 DEF Inv, Bookkeeping, QueuesApart
    <3>3. CASE m # n
      BY <3>1, <3>3, <1>3, <1>6 DEF Inv, Bookkeeping, QueuesApart
    <3> QED BY <3>2, <3>3
  <2>2. \A m \in Node : \A q \in inbox'[m] : id'[q].node = m
    BY <1>1, <1>2, <1>3 DEF AtAgent, Inv, TypeOK, Bookkeeping, QueuesApart
  <2>3. \A q \in Req : /\ Queued(q)' => ~AtAgent(q)' /\ phase'[q] \in {"waiting", "expired"}
                       /\ AtAgent(q)' \/ Queued(q)' => runs'[q] = 0
    BY <1>1, <1>2, <1>7, <1>8, <1>9 DEF Inv, Bookkeeping, QueuesApart
  <2> QED BY <2>1, <2>2, <2>3 DEF QueuesApart
<1>13. ResultsTrue'
  <2>1. \A m \in Node : \A x \in outbox[m] : x.of \in Req /\ x.of # r /\ x.of <= asked
    BY <1>1 DEF Inv, TypeOK, Bookkeeping, ResultsTrue
  <2>2. \A m \in Node : \A x \in outbox'[m] :
          x.of <= asked' /\ x.id = id'[x.of] /\ x.id.node = m /\ runs'[x.of] > 0
    BY <2>1, <1>1, <1>2, <1>3 DEF Inv, TypeOK, Bookkeeping, ResultsTrue, Req
  <2>3. ASSUME NEW q \in Req
        PROVE  /\ result'[q].kind = "ran" => result'[q] = Ran(id'[q].node, q) /\ runs'[q] > 0
               /\ result'[q] = Dropped => runs'[q] = 0 /\ ~AtAgent(q)' /\ ~Queued(q)'
               /\ phase'[q] \in {"unasked", "waiting"} => result'[q] = NoResult
               /\ phase'[q] = "set" => result'[q] # NoResult
               /\ phase'[q] = "answered" => result'[q].kind = "ran"
               /\ phase'[q] = "unavailable" => result'[q] = Dropped
    <3>1. CASE q = r
      BY <3>1, <1>8 DEF NoResult, Dropped
    <3>2. CASE q # r /\ result'[q] = result[q] /\ phase'[q] = phase[q]
      BY <3>2, <1>2, <1>3, <1>7, <1>9 DEF Inv, Bookkeeping, ResultsTrue
    <3>3. CASE full /\ q = old /\ q # r /\ phase'[q] = "set" /\ result'[q] = Dropped
      BY <3>3, <1>2, <1>5, <1>7, <1>9 DEF Dropped, NoResult
    <3> QED BY <3>1, <3>2, <3>3, <1>8
  <2> QED BY <2>2, <2>3 DEF ResultsTrue
<1>14. FuturesAwaited' /\ RunAtMostOnce'
  BY <1>2, <1>8 DEF Inv, Bookkeeping, FuturesAwaited, RunAtMostOnce
<1> QED BY <1>10, <1>11, <1>12, <1>13, <1>14 DEF Inv, Bookkeeping

(* The handler's own steps: its task resumes, its timer fires.             *)
LEMMA HandlerInv ==
  ASSUME Inv, NEW r \in Req, Wake(r) \/ Expire(r) PROVE Inv'
<1>1. /\ UNCHANGED <<enabled, hostVars, asked, id, result, agentVars, restarts>>
      /\ phase' = [phase EXCEPT ![r] = phase'[r]]
      /\ phase'[r] \in Phases
      /\ \/ phase[r] = "set" /\ phase'[r] \in {"unavailable", "answered"}
            /\ (phase'[r] = "unavailable" <=> result[r] = Dropped)
         \/ phase[r] \in {"waiting", "set"} /\ phase'[r] = "expired"
  BY DEF Inv, TypeOK, Wake, Expire, Phases
<1>2. UNCHANGED <<enabled, seq, asked, id, pending, futures, result, reports, badReports,
                  inbox, outbox, runs, restarts>>
  BY <1>1 DEF hostVars, agentVars
<1>3. \A q \in Req : (Queued(q)' <=> Queued(q)) /\ (AtAgent(q)' <=> AtAgent(q))
  BY <1>2 DEF Queued, AtAgent
<1>4. phase' \in [Req -> Phases] /\ \A q \in Req \ {r} : phase'[q] = phase[q]
  BY <1>1 DEF Inv, TypeOK
<1>5. TypeOK'
  BY <1>2, <1>4 DEF Inv, TypeOK
<1>6. phase[r] = "set" => ~Queued(r) /\ r \notin futures
  BY DEF Inv, Bookkeeping, QueuesApart, FuturesAwaited
<1>7. IdsInOrder'
  BY <1>1, <1>2, <1>3, <1>4 DEF Inv, Bookkeeping, IdsInOrder
<1>8. QueuesApart'
  <2>1. \A q \in Req : Queued(q) => phase'[q] \in {"waiting", "expired"}
    BY <1>1, <1>4, <1>6 DEF Inv, Bookkeeping, QueuesApart
  <2> QED BY <2>1, <1>2, <1>3 DEF Inv, Bookkeeping, QueuesApart
<1>9. ResultsTrue'
  <2>1. phase'[r] = "answered" => result[r].kind = "ran"
    <3> SUFFICES ASSUME phase'[r] = "answered" PROVE result[r].kind = "ran"
      OBVIOUS
    <3>1. phase[r] = "set" /\ result[r] # Dropped
      BY <1>1
    <3>2. result[r] # NoResult /\ result[r] \in Results
      BY <3>1 DEF Inv, TypeOK, Bookkeeping, ResultsTrue
    <3> QED BY <3>1, <3>2 DEF Results
  <2>2. \A q \in Req :
          /\ phase'[q] \in {"unasked", "waiting"} => result[q] = NoResult
          /\ phase'[q] = "set" => result[q] # NoResult
          /\ phase'[q] = "answered" => result[q].kind = "ran"
          /\ phase'[q] = "unavailable" => result[q] = Dropped
    BY <2>1, <1>1, <1>4 DEF Inv, Bookkeeping, ResultsTrue
  <2> QED BY <2>2, <1>2, <1>3 DEF Inv, Bookkeeping, ResultsTrue
<1>10. FuturesAwaited' /\ RunAtMostOnce'
  <2>1. \A f \in futures : f \in Req /\ phase[f] \in {"waiting", "expired"}
    BY DEF Inv, TypeOK, Bookkeeping, FuturesAwaited
  <2>2. \A f \in futures : phase'[f] \in {"waiting", "expired"}
    BY <2>1, <1>1, <1>4
  <2> QED BY <2>2, <1>2 DEF Inv, Bookkeeping, FuturesAwaited, RunAtMostOnce
<1> QED BY <1>5, <1>7, <1>8, <1>9, <1>10 DEF Inv, Bookkeeping

(* cancel() removes the request from the queue and from the futures.       *)
LEMMA CancelInv ==
  ASSUME Inv, NEW r \in Req, Cancel(r) PROVE Inv'
<1>1. /\ phase[r] = "expired" /\ futures' = futures \ {r}
      /\ phase' = [phase EXCEPT ![r] = "timeout"]
      /\ pending' = [n \in Node |-> Without(pending[n], r)]
      /\ UNCHANGED <<enabled, seq, reports, badReports, asked, id, result,
                     inbox, outbox, runs, restarts>>
  BY DEF Cancel, agentVars
<1>2. phase' \in [Req -> Phases] /\ phase'[r] = "timeout"
      /\ \A q \in Req \ {r} : phase'[q] = phase[q]
  BY <1>1 DEF Inv, TypeOK, Phases
<1>3. ASSUME NEW n \in Node
      PROVE  /\ pending'[n] \in Seq(Req)
             /\ \A i \in DOMAIN pending'[n] :
                  pending'[n][i] # r /\ \E j \in DOMAIN pending[n] : pending[n][j] = pending'[n][i]
             /\ \A i, j \in DOMAIN pending'[n] : pending'[n][i] = pending'[n][j] => i = j
  <2>1. pending[n] \in Seq(Req) /\ \A i, j \in DOMAIN pending[n] : pending[n][i] = pending[n][j] => i = j
    BY DEF Inv, TypeOK, Bookkeeping, QueuesApart
  <2>2. pending'[n] = Without(pending[n], r)
    BY <1>1
  <2> QED BY <2>1, <2>2, WithoutFacts
<1>4. \A q \in Req : /\ Queued(q)' => (Queued(q) /\ q # r)
                     /\ AtAgent(q)' <=> AtAgent(q)
  <2>1. ASSUME NEW q \in Req, Queued(q)' PROVE Queued(q) /\ q # r
    <3>1. PICK n \in Node : \E i \in DOMAIN pending'[n] : pending'[n][i] = q
      BY <2>1 DEF Queued
    <3> QED BY <3>1, <1>3 DEF Queued
  <2>2. \A q \in Req : AtAgent(q)' <=> AtAgent(q)
    BY <1>1 DEF AtAgent
  <2> QED BY <2>1, <2>2
<1>5. TypeOK'
  <2>1. pending' \in [Node -> Seq(Req)]
    BY <1>1, <1>3
  <2> QED BY <2>1, <1>1, <1>2 DEF Inv, TypeOK
<1>6. IdsInOrder'
  BY <1>1, <1>2, <1>4 DEF Inv, Bookkeeping, IdsInOrder
<1>7. QueuesApart'
  <2>1. \A n \in Node : \A i \in DOMAIN pending'[n] : id[pending'[n][i]].node = n
    <3> SUFFICES ASSUME NEW n \in Node, NEW i \in DOMAIN pending'[n]
                 PROVE  id[pending'[n][i]].node = n
      OBVIOUS
    <3>1. PICK j \in DOMAIN pending[n] : pending[n][j] = pending'[n][i]
      BY <1>3
    <3> QED BY <3>1 DEF Inv, Bookkeeping, QueuesApart
  <2>2. \A n \in Node : \A i, j \in DOMAIN pending'[n] : pending'[n][i] = pending'[n][j] => i = j
    BY <1>3
  <2>3. \A n \in Node : \A q \in inbox'[n] : id'[q].node = n
    BY <1>1 DEF Inv, Bookkeeping, QueuesApart
  <2>4. \A q \in Req : /\ Queued(q)' => ~AtAgent(q)' /\ phase'[q] \in {"waiting", "expired"}
                       /\ AtAgent(q)' \/ Queued(q)' => runs'[q] = 0
    BY <1>1, <1>2, <1>4 DEF Inv, Bookkeeping, QueuesApart
  <2> QED BY <2>1, <2>2, <2>3, <2>4, <1>1 DEF QueuesApart
<1>8. ResultsTrue'
  BY <1>1, <1>2, <1>4 DEF Inv, Bookkeeping, ResultsTrue
<1>9. FuturesAwaited' /\ RunAtMostOnce'
  BY <1>1, <1>2 DEF Inv, TypeOK, Bookkeeping, FuturesAwaited, RunAtMostOnce
<1> QED BY <1>5, <1>6, <1>7, <1>8, <1>9 DEF Inv, Bookkeeping

(* A result that names a registered request of the reporting node is the   *)
(* result of that very request: no other node's report can name it, and    *)
(* what the node holds is true.                                            *)
LEMMA ReportedResultIsTrue ==
  ASSUME Inv, NEW n \in Node, NEW x \in outbox[n] \cup Foreign(n),
         NEW r \in Req, r <= asked, id[r].node = n, x.id = id[r]
  PROVE  x.of = r /\ runs[r] > 0
<1>1. x \notin Foreign(n)
  BY DEF Foreign
<1>2. x \in outbox[n] /\ x.of \in Req
  BY <1>1 DEF Inv, TypeOK
<1>3. x.of <= asked /\ x.id = id[x.of] /\ runs[x.of] > 0
  BY <1>2 DEF Inv, Bookkeeping, ResultsTrue
<1>4. id[r].n = r /\ id[x.of].n = x.of
  BY <1>2, <1>3 DEF Inv, Bookkeeping, IdsInOrder
<1>5. x.of = r
  BY <1>3, <1>4
<1> QED BY <1>3, <1>5

(* A report resolves the requests its results name.                        *)
LEMMA ReportInv ==
  ASSUME Inv, NEW n \in Node, Report(n) PROVE Inv'
<1>1. PICK res \in SUBSET (outbox[n] \cup Foreign(n)) :
        /\ OneEach(res) /\ Resolve(n, res)
        /\ \E kept \in {{}, res \cap outbox[n]} :
             outbox' = [outbox EXCEPT ![n] = (@ \ res) \cup kept]
  BY DEF Report
<1>2. /\ UNCHANGED <<enabled, seq, pending, asked, id, inbox, runs, restarts>>
      /\ reports[n] + badReports[n] < MaxReports
      /\ \/ reports' = [reports EXCEPT ![n] = @ + 1] /\ UNCHANGED badReports
         \/ badReports' = [badReports EXCEPT ![n] = @ + 1] /\ UNCHANGED reports
  BY DEF Report
<1> DEFINE hit == {r \in Known(n, res) : phase[r] = "waiting"}
           given(r) == CHOOSE x \in res : x.id = id[r]
<1>3. /\ futures' = futures \ Known(n, res)
      /\ phase' = [r \in Req |-> IF r \in hit THEN "set" ELSE phase[r]]
      /\ result' = [r \in Req |-> IF r \in hit THEN Ran(n, given(r).of) ELSE result[r]]
  BY <1>1 DEF Resolve
<1>4. ASSUME NEW r \in hit
      PROVE  /\ r \in Req /\ r \in futures /\ phase[r] = "waiting" /\ id[r].node = n /\ r <= asked
             /\ given(r).of = r /\ runs[r] > 0
  <2>1. r \in Req /\ r \in futures /\ phase[r] = "waiting" /\ id[r].node = n
        /\ \E x \in res : x.id = id[r]
    BY DEF Known, Inv, TypeOK
  <2>2. r <= asked
    BY <2>1 DEF Inv, Bookkeeping, IdsInOrder
  <2>3. given(r) \in res /\ given(r).id = id[r]
    BY <2>1
  <2> HIDE DEF given
  <2>4. given(r) \in outbox[n] \cup Foreign(n)
    BY <2>3
  <2> QED BY <2>1, <2>2, <2>3, <2>4, ReportedResultIsTrue
<1> HIDE DEF hit, given
<1>5. /\ phase' \in [Req -> Phases] /\ result' \in [Req -> Results]
      /\ \A r \in Req : r \in hit => phase'[r] = "set" /\ result'[r] = Ran(n, r)
      /\ \A r \in Req : r \notin hit => phase'[r] = phase[r] /\ result'[r] = result[r]
  <2>1. \A r \in Req : r \in hit => phase'[r] = "set" /\ result'[r] = Ran(n, r)
    BY <1>3, <1>4
  <2>2. \A r \in Req : r \notin hit => phase'[r] = phase[r] /\ result'[r] = result[r]
    BY <1>3
  <2>3. \A r \in Req : Ran(n, r) \in Results
    BY DEF Ran, Results, Req
  <2>4. \A r \in Req : phase'[r] \in Phases /\ result'[r] \in Results
    BY <2>1, <2>2, <2>3 DEF Inv, TypeOK, Phases
  <2> QED BY <1>3, <2>1, <2>2, <2>4
<1>6. outbox' \in [Node -> SUBSET [id : Id, of : Req]]
      /\ \A m \in Node : outbox'[m] \subseteq outbox[m]
  BY <1>1 DEF Inv, TypeOK
<1>7. \A q \in Req : (Queued(q)' <=> Queued(q)) /\ (AtAgent(q)' <=> AtAgent(q))
  BY <1>2 DEF Queued, AtAgent
<1>8. \A q \in hit : ~Queued(q)
  BY <1>4 DEF Inv, TypeOK, Bookkeeping, QueuesApart
<1>9. TypeOK'
  <2>1. /\ reports' \in [Node -> 0..MaxReports] /\ badReports' \in [Node -> 0..MaxReports]
    <3>1. /\ reports \in [Node -> 0..MaxReports] /\ badReports \in [Node -> 0..MaxReports]
          /\ MaxReports \in Nat
      BY BoundsAssumption DEF Inv, TypeOK
    <3>2. reports[n] \in 0..MaxReports /\ badReports[n] \in 0..MaxReports
      BY <3>1
    <3>3. reports[n] + 1 \in 0..MaxReports /\ badReports[n] + 1 \in 0..MaxReports
      BY <3>1, <3>2, <1>2
    <3>4. CASE reports' = [reports EXCEPT ![n] = @ + 1] /\ UNCHANGED badReports
      BY <3>1, <3>3, <3>4
    <3>5. CASE badReports' = [badReports EXCEPT ![n] = @ + 1] /\ UNCHANGED reports
      BY <3>1, <3>3, <3>5
    <3> QED BY <3>4, <3>5, <1>2
  <2>2. futures' \subseteq Req
    BY <1>3 DEF Inv, TypeOK
  <2> QED BY <2>1, <2>2, <1>2, <1>5, <1>6 DEF Inv, TypeOK
<1>10. IdsInOrder'
  BY <1>2, <1>4, <1>5, <1>7 DEF Inv, Bookkeeping, IdsInOrder
<1>11. QueuesApart'
  <2>1. \A r \in Req : Queued(r)' => phase'[r] \in {"waiting", "expired"}
    BY <1>5, <1>7, <1>8 DEF Inv, Bookkeeping, QueuesApart
  <2> QED BY <2>1, <1>2, <1>7 DEF Inv, Bookkeeping, QueuesApart
<1>12. ResultsTrue'
  <2>1. \A m \in Node : \A x \in outbox'[m] :
          x.of <= asked' /\ x.id = id'[x.of] /\ x.id.node = m /\ runs'[x.of] > 0
    BY <1>2, <1>6 DEF Inv, Bookkeeping, ResultsTrue
  <2>2. ASSUME NEW q \in Req
        PROVE  /\ result'[q].kind = "ran" => result'[q] = Ran(id'[q].node, q) /\ runs'[q] > 0
               /\ result'[q] = Dropped => runs'[q] = 0 /\ ~AtAgent(q)' /\ ~Queued(q)'
               /\ phase'[q] \in {"unasked", "waiting"} => result'[q] = NoResult
               /\ phase'[q] = "set" => result'[q] # NoResult
               /\ phase'[q] = "answered" => result'[q].kind = "ran"
               /\ phase'[q] = "unavailable" => result'[q] = Dropped
    <3>1. CASE q \in hit
      BY <3>1, <1>2, <1>4, <1>5 DEF Ran, NoResult, Dropped
    <3>2. CASE q \notin hit
      BY <3>2, <1>2, <1>5, <1>7 DEF Inv, Bookkeeping, ResultsTrue
    <3> QED BY <3>1, <3>2
  <2> QED BY <2>1, <2>2 DEF ResultsTrue
<1>13. FuturesAwaited' /\ RunAtMostOnce'
  <2>1. \A r \in futures' : r \notin hit /\ r \in futures /\ r \in Req
    BY <1>3 DEF hit, Inv, TypeOK
  <2> QED BY <2>1, <1>2, <1>5 DEF Inv, Bookkeeping, FuturesAwaited, RunAtMostOnce
<1> QED BY <1>9, <1>10, <1>11, <1>12, <1>13 DEF Inv, Bookkeeping

(* The reply of a sound report takes the whole queue of its node.          *)
LEMMA TakeInv ==
  ASSUME Inv, NEW n \in Node, Take(n) PROVE Inv'
<1>1. /\ reports[n] > 0
      /\ reports' = [reports EXCEPT ![n] = @ - 1]
      /\ pending' = [pending EXCEPT ![n] = <<>>]
      /\ UNCHANGED <<enabled, seq, futures, badReports, asked, id, phase, result,
                     outbox, runs, restarts>>
  BY DEF Take, reqVars
<1>2. \/ inbox' = inbox
      \/ inbox' = [inbox EXCEPT ![n] = @ \cup {pending[n][i] : i \in DOMAIN pending[n]}]
  <2>1. PICK lost \in BOOLEAN :
       inbox' = [inbox EXCEPT ![n] =
                   IF lost THEN @ ELSE @ \cup {pending[n][i] : i \in DOMAIN pending[n]}]
    BY DEF Take
  <2> QED BY <2>1 DEF Inv, TypeOK
<1>3. pending[n] \in Seq(Req) /\ inbox \in [Node -> SUBSET Req]
  BY DEF Inv, TypeOK
<1>4. /\ pending'[n] = <<>> /\ \A m \in Node \ {n} : pending'[m] = pending[m]
      /\ pending' \in [Node -> Seq(Req)]
  BY <1>1 DEF Inv, TypeOK
<1>5. /\ inbox' \in [Node -> SUBSET Req]
      /\ \A m \in Node : \A q \in inbox'[m] :
           q \in inbox[m] \/ (m = n /\ \E i \in DOMAIN pending[n] : pending[n][i] = q)
  BY <1>2, <1>3
<1>6. ASSUME NEW q \in Req
      PROVE  /\ Queued(q)' => (Queued(q) /\ ~AtAgent(q)')
             /\ AtAgent(q)' => (AtAgent(q) \/ Queued(q))
  <2>1. AtAgent(q)' => (AtAgent(q) \/ Queued(q))
    BY <1>5 DEF AtAgent, Queued
  <2>2. ASSUME Queued(q)' PROVE Queued(q) /\ ~AtAgent(q)'
    <3>1. PICK m \in Node : \E i \in DOMAIN pending'[m] : pending'[m][i] = q
      BY <2>2 DEF Queued
    <3>2. m # n /\ \E i \in DOMAIN pending[m] : pending[m][i] = q
      BY <3>1, <1>4
    <3>3. Queued(q) /\ id[q].node = m
      BY <3>2 DEF Queued, Inv, Bookkeeping, QueuesApart
    <3>4. ~AtAgent(q) /\ ~\E i \in DOMAIN pending[n] : pending[n][i] = q
      BY <3>2, <3>3 DEF Inv, Bookkeeping, QueuesApart
    <3>5. ~AtAgent(q)'
      BY <3>4, <1>5 DEF AtAgent
    <3> QED BY <3>3, <3>5
  <2> QED BY <2>1, <2>2
<1>7. TypeOK'
  <2>1. reports' \in [Node -> 0..MaxReports]
    <3>1. reports \in [Node -> 0..MaxReports] /\ MaxReports \in Nat
      BY BoundsAssumption DEF Inv, TypeOK
    <3>2. reports[n] - 1 \in 0..MaxReports
      BY <3>1, <1>1
    <3> QED BY <3>1, <3>2, <1>1
  <2> QED BY <2>1, <1>1, <1>4, <1>5 DEF Inv, TypeOK
<1>8. IdsInOrder'
  BY <1>1, <1>6 DEF Inv, Bookkeeping, IdsInOrder
<1>9. QueuesApart'
  <2>1. \A m \in Node : \A i, j \in DOMAIN pending'[m] :
          id[pending'[m][i]].node = m /\ (pending'[m][i] = pending'[m][j] => i = j)
    BY <1>4 DEF Inv, Bookkeeping, QueuesApart
  <2>2. \A m \in Node : \A q \in inbox'[m] : id[q].node = m
    BY <1>5 DEF Inv, Bookkeeping, QueuesApart
  <2>3. \A q \in Req : /\ Queued(q)' => ~AtAgent(q)' /\ phase'[q] \in {"waiting", "expired"}
                       /\ AtAgent(q)' \/ Queued(q)' => runs'[q] = 0
    BY <1>1, <1>6 DEF Inv, Bookkeeping, QueuesApart
  <2> QED BY <2>1, <2>2, <2>3, <1>1 DEF QueuesApart
<1>10. ResultsTrue'
  BY <1>1, <1>6 DEF Inv, Bookkeeping, ResultsTrue
<1>11. FuturesAwaited' /\ RunAtMostOnce'
  BY <1>1 DEF Inv, Bookkeeping, FuturesAwaited, RunAtMostOnce
<1> QED BY <1>7, <1>8, <1>9, <1>10, <1>11 DEF Inv, Bookkeeping

(* A refused report hands nothing out.                                     *)
LEMMA RejectInv ==
  ASSUME Inv, NEW n \in Node, Reject(n) PROVE Inv'
<1>1. /\ badReports[n] > 0
      /\ badReports' = [badReports EXCEPT ![n] = @ - 1]
      /\ UNCHANGED <<enabled, seq, pending, futures, reports, asked, id, phase, result,
                     inbox, outbox, runs, restarts>>
  BY DEF Reject, reqVars, agentVars
<1>2. badReports' \in [Node -> 0..MaxReports]
  <2>1. badReports \in [Node -> 0..MaxReports] /\ MaxReports \in Nat
    BY BoundsAssumption DEF Inv, TypeOK
  <2>2. badReports[n] - 1 \in 0..MaxReports
    BY <2>1, <1>1
  <2> QED BY <2>1, <2>2, <1>1
<1>3. \A q \in Req : (Queued(q)' <=> Queued(q)) /\ (AtAgent(q)' <=> AtAgent(q))
  BY <1>1 DEF Queued, AtAgent
<1> QED BY <1>1, <1>2, <1>3
        DEF Inv, TypeOK, Bookkeeping, IdsInOrder, QueuesApart, ResultsTrue, FuturesAwaited,
            RunAtMostOnce

(* The agent runs a command it holds; nobody else holds it.                *)
LEMMA AgentRunInv ==
  ASSUME Inv, NEW n \in Node, NEW r \in Req, AgentRun(n, r) PROVE Inv'
<1> DEFINE x == [id |-> id[r], of |-> r]
<1>1. /\ r \in inbox[n]
      /\ inbox' = [inbox EXCEPT ![n] = @ \ {r}]
      /\ runs' = [runs EXCEPT ![r] = @ + 1]
      /\ outbox' = [outbox EXCEPT ![n] = @ \cup {x}]
      /\ UNCHANGED <<enabled, seq, pending, futures, reports, badReports, asked, id,
                     phase, result, restarts>>
  BY DEF AgentRun, hostVars, reqVars
<1>2. AtAgent(r) /\ ~Queued(r) /\ runs[r] = 0 /\ id[r].node = n /\ r <= asked /\ id[r] \in Id
  <2>1. AtAgent(r) /\ id[r].node = n
    BY <1>1 DEF AtAgent, Inv, Bookkeeping, QueuesApart
  <2> QED BY <2>1 DEF Inv, Bookkeeping, QueuesApart, IdsInOrder
<1>3. /\ inbox' \in [Node -> SUBSET Req] /\ runs' \in [Req -> Nat]
      /\ inbox'[n] = inbox[n] \ {r} /\ \A m \in Node \ {n} : inbox'[m] = inbox[m]
      /\ runs'[r] = 1 /\ \A q \in Req \ {r} : runs'[q] = runs[q]
  BY <1>1, <1>2 DEF Inv, TypeOK
<1>4. /\ outbox' \in [Node -> SUBSET [id : Id, of : Req]]
      /\ \A m \in Node : \A y \in outbox'[m] : y \in outbox[m] \/ (m = n /\ y = x)
  BY <1>1, <1>2 DEF Inv, TypeOK
<1>5. \A m \in Node : m # n => r \notin inbox[m]
  BY <1>2 DEF Inv, Bookkeeping, QueuesApart
<1>6. \A q \in Req : (Queued(q)' <=> Queued(q)) /\ (AtAgent(q)' => (AtAgent(q) /\ q # r))
  BY <1>1, <1>3, <1>5 DEF Queued, AtAgent
<1>7. TypeOK'
  BY <1>1, <1>3, <1>4 DEF Inv, TypeOK
<1>8. IdsInOrder'
  BY <1>1, <1>2, <1>3, <1>6 DEF Inv, Bookkeeping, IdsInOrder
<1>9. QueuesApart'
  <2>1. \A m \in Node : \A q \in inbox'[m] : id[q].node = m
    BY <1>3 DEF Inv, Bookkeeping, QueuesApart
  <2>2. \A q \in Req : /\ Queued(q)' => ~AtAgent(q)' /\ phase'[q] \in {"waiting", "expired"}
                       /\ AtAgent(q)' \/ Queued(q)' => runs'[q] = 0
    BY <1>1, <1>2, <1>3, <1>6 DEF Inv, Bookkeeping, QueuesApart
  <2> QED BY <2>1, <2>2, <1>1 DEF Inv, Bookkeeping, QueuesApart
<1>10. ResultsTrue'
  <2>1. \A m \in Node : \A y \in outbox'[m] :
          y.of <= asked' /\ y.id = id'[y.of] /\ y.id.node = m /\ runs'[y.of] > 0
    <3> SUFFICES ASSUME NEW m \in Node, NEW y \in outbox'[m]
                 PROVE y.of <= asked /\ y.id = id[y.of] /\ y.id.node = m /\ runs'[y.of] > 0
      BY <1>1
    <3>1. CASE y \in outbox[m]
      <4>1. y.of \in Req /\ y.of <= asked /\ y.id = id[y.of] /\ y.id.node = m /\ runs[y.of] > 0
        BY <3>1 DEF Inv, TypeOK, Bookkeeping, ResultsTrue
      <4> QED BY <4>1, <1>3
    <3>2. CASE m = n /\ y = x
      BY <3>2, <1>2, <1>3
    <3> QED BY <3>1, <3>2, <1>4
  <2>2. result[r].kind # "ran" /\ result[r] # Dropped
    BY <1>2 DEF Inv, Bookkeeping, ResultsTrue
  <2>3. \A q \in Req :
       /\ result[q].kind = "ran" => result[q] = Ran(id[q].node, q) /\ runs'[q] > 0
       /\ result[q] = Dropped => runs'[q] = 0 /\ ~AtAgent(q)' /\ ~Queued(q)'
    BY <2>2, <1>3, <1>6 DEF Inv, Bookkeeping, ResultsTrue
  <2> QED BY <2>1, <2>3, <1>1 DEF Inv, Bookkeeping, ResultsTrue
<1>11. FuturesAwaited' /\ RunAtMostOnce'
  BY <1>1, <1>3 DEF Inv, Bookkeeping, FuturesAwaited, RunAtMostOnce
<1> QED BY <1>7, <1>8, <1>9, <1>10, <1>11 DEF Inv, Bookkeeping

(* Revoking a token, minting a new one, and stuttering move no command.    *)
LEMMA TokenInv ==
  ASSUME Inv, (\E n \in Node : Revoke(n) \/ Rotate(n)) \/ UNCHANGED vars PROVE Inv'
<1>1. /\ enabled' \subseteq Node
      /\ UNCHANGED <<seq, pending, futures, reports, badReports, asked, id, phase, result,
                     inbox, outbox, runs, restarts>>
  BY DEF Inv, TypeOK, Revoke, Rotate, vars, hostVars, reqVars, agentVars
<1>2. \A q \in Req : (Queued(q)' <=> Queued(q)) /\ (AtAgent(q)' <=> AtAgent(q))
  BY <1>1 DEF Queued, AtAgent
<1> QED BY <1>1, <1>2
        DEF Inv, TypeOK, Bookkeeping, IdsInOrder, QueuesApart, ResultsTrue, FuturesAwaited,
            RunAtMostOnce

LEMMA StepInv == Inv /\ [Next]_vars => Inv'
<1> SUFFICES ASSUME Inv, [Next]_vars PROVE Inv'
  OBVIOUS
<1>1. CASE \E n \in Node : Submit(n)
  BY <1>1, SubmitInv
<1>2. CASE \E r \in Req : Wake(r) \/ Expire(r)
  BY <1>2, HandlerInv
<1>3. CASE \E r \in Req : Cancel(r)
  BY <1>3, CancelInv
<1>4. CASE \E n \in Node : Report(n)
  BY <1>4, ReportInv
<1>5. CASE \E n \in Node : Take(n)
  BY <1>5, TakeInv
<1>6. CASE \E n \in Node : Reject(n)
  BY <1>6, RejectInv
<1>7. CASE \E n \in Node, r \in Req : AgentRun(n, r)
  BY <1>7, AgentRunInv
<1>8. CASE (\E n \in Node : Revoke(n) \/ Rotate(n)) \/ UNCHANGED vars
  BY <1>8, TokenInv
<1> QED BY <1>1, <1>2, <1>3, <1>4, <1>5, <1>6, <1>7, <1>8 DEF Next

(* Commands are where Bookkeeping says, in every reachable state.          *)
THEOREM Invariance == Spec => []Inv
<1> QED BY InitInv, StepInv, PTL DEF Spec

(* The state of the broker, its handlers and the agents is well typed.     *)
THEOREM TypeCorrect == Spec => []TypeOK
<1>1. Inv => TypeOK
  BY DEF Inv
<1> QED BY <1>1, Invariance, PTL

(* A command is in its node's queue, with its agent or run, never in two   *)
(* of these places, and results are true (Bookkeeping, nodes.py 866-913).  *)
THEOREM CommandsAccountedFor == Spec => []Bookkeeping
<1>1. Inv => Bookkeeping
  BY DEF Inv
<1> QED BY <1>1, Invariance, PTL

(* resolve() accepts an answer only from the node the command was sent to. *)
THEOREM AnswersComeFromOwnNode == Spec => []AnswerFromOwnNode
<1>1. Inv => AnswerFromOwnNode
  <2>1. Inv => \A r \in Req : result[r].kind = "ran" => result[r] = Ran(id[r].node, r)
    BY DEF Inv, Bookkeeping, ResultsTrue
  <2>2. \A n, r : Ran(n, r).by = n
    BY DEF Ran
  <2> QED BY <2>1, <2>2 DEF AnswerFromOwnNode
<1> QED BY <1>1, Invariance, PTL

(* An answered request got the result of its own command, which ran.       *)
THEOREM AnswersAreOwn == Spec => []AnswerIsOwn
<1>1. Inv => AnswerIsOwn
  <2>1. Inv => \A r \in Req : phase[r] = "answered" =>
                 result[r] = Ran(id[r].node, r) /\ runs[r] > 0
    BY DEF Inv, Bookkeeping, ResultsTrue
  <2>2. \A n, r : Ran(n, r).of = r
    BY DEF Ran
  <2> QED BY <2>1, <2>2 DEF AnswerIsOwn
<1> QED BY <1>1, Invariance, PTL

(* take() hands a command out once: it never runs twice.                   *)
THEOREM NoCommandRunsTwice == Spec => []RunAtMostOnce
<1>1. Inv => RunAtMostOnce
  BY DEF Inv, Bookkeeping
<1> QED BY <1>1, Invariance, PTL

(* A request refused because the queue overflowed never runs.              *)
THEOREM RefusedStaysUnrun == Spec => []RefusedNeverRuns
<1>1. Inv => RefusedNeverRuns
  BY DEF Inv, Bookkeeping, ResultsTrue, RefusedNeverRuns
<1> QED BY <1>1, Invariance, PTL

(* An ended request leaves neither a queued command nor a future behind.   *)
THEOREM EndedLeavesNothing == Spec => []NothingLeftBehind
<1>1. Inv => NothingLeftBehind
  <2> SUFFICES ASSUME Inv PROVE NothingLeftBehind
    OBVIOUS
  <2>1. ASSUME NEW n \in Node, NEW i \in DOMAIN pending[n]
        PROVE  phase[pending[n][i]] \in {"waiting", "expired"} /\ id[pending[n][i]].node = n
    <3>1. pending[n][i] \in Req /\ Queued(pending[n][i])
      BY DEF Queued, Inv, TypeOK
    <3> QED BY <3>1 DEF Inv, Bookkeeping, QueuesApart
  <2> QED BY <2>1 DEF Inv, Bookkeeping, FuturesAwaited, NothingLeftBehind
<1> QED BY <1>1, Invariance, PTL

(* No queue outgrows _MAX_PENDING, whatever agents do not collect.         *)
THEOREM QueuesStayBounded == Spec => []QueueBounded
<1>1. Init => QueueBounded
  BY BoundsAssumption DEF Init, QueueBounded
<1>2. Inv /\ QueueBounded /\ [Next]_vars => QueueBounded'
  <2> SUFFICES ASSUME Inv, QueueBounded, [Next]_vars, NEW m \in Node
               PROVE  Len(pending'[m]) <= MaxPending
    BY DEF QueueBounded
  <2>1. /\ pending \in [Node -> Seq(Req)] /\ pending[m] \in Seq(Req)
        /\ Len(pending[m]) <= MaxPending /\ MaxPending \in Nat \ {0}
    BY BoundsAssumption DEF Inv, TypeOK, QueueBounded
  <2>2. ASSUME NEW n \in Node, Submit(n) PROVE Len(pending'[m]) <= MaxPending
    <3>1. Overflow(n, asked + 1) /\ asked + 1 \in Req
      <4>1. Overflow(n, asked + 1) /\ asked < MaxReq
        BY <2>2 DEF Submit
      <4>2. asked + 1 \in Req
        BY <4>1, BoundsAssumption DEF Inv, TypeOK, Req
      <4> QED BY <4>1, <4>2
    <3>2. CASE m # n
      <4>1. \E q : pending' = [pending EXCEPT ![n] = q]
        BY <3>1 DEF Overflow
      <4> QED BY <4>1, <3>2, <2>1
    <3>3. CASE m = n /\ Len(pending[n]) < MaxPending
      <4>1. pending'[m] = Append(pending[m], asked + 1)
        BY <3>1, <3>3, <2>1 DEF Overflow
      <4>2. Len(Append(pending[m], asked + 1)) = Len(pending[m]) + 1
        BY <2>1
      <4> QED BY <4>1, <4>2, <3>3, <2>1
    <3>4. CASE m = n /\ ~(Len(pending[n]) < MaxPending)
      <4>1. pending'[m] = Append(Tail(pending[m]), asked + 1)
        BY <3>1, <3>4, <2>1 DEF Overflow
      <4>2. Len(Append(Tail(pending[m]), asked + 1)) = Len(pending[m])
        BY <2>1, <3>1, <3>4
      <4> QED BY <4>1, <4>2, <2>1
    <3> QED BY <3>2, <3>3, <3>4
  <2>3. ASSUME NEW r \in Req, Cancel(r) PROVE Len(pending'[m]) <= MaxPending
    <3>1. pending'[m] = Without(pending[m], r)
      BY <2>3 DEF Cancel
    <3>2. Len(Without(pending[m], r)) <= Len(pending[m])
      <4>1. CASE \E i \in DOMAIN pending[m] : pending[m][i] = r
        <5> DEFINE q == pending[m]
                   k == CHOOSE i \in DOMAIN q : q[i] = r
                   w == [i \in 1..(Len(q) - 1) |-> q[IF i < k THEN i ELSE i + 1]]
        <5>1. Without(q, r) = w /\ Len(q) - 1 \in Nat
          BY <4>1, <2>1 DEF Without
        <5>2. Len(w) = Len(q) - 1
          BY <5>1
        <5> QED BY <5>1, <5>2, <2>1
      <4>2. CASE ~\E i \in DOMAIN pending[m] : pending[m][i] = r
        BY <4>2, <2>1 DEF Without
      <4> QED BY <4>1, <4>2
    <3> QED BY <3>1, <3>2, <2>1, WithoutFacts DEF Inv, Bookkeeping, QueuesApart
  <2>4. ASSUME NEW n \in Node, Take(n) PROVE Len(pending'[m]) <= MaxPending
    BY <2>4, <2>1 DEF Take
  <2>5. CASE UNCHANGED pending
    BY <2>5, <2>1
  <2>6. [Next]_vars => \/ \E n \in Node : Submit(n) \/ Take(n)
                       \/ \E r \in Req : Cancel(r)
                       \/ UNCHANGED pending
    BY DEF Next, Wake, Expire, Report, Reject, AgentRun, Revoke, Rotate, hostVars, vars
  <2> QED BY <2>2, <2>3, <2>4, <2>5, <2>6
<1> QED BY <1>1, <1>2, Invariance, PTL DEF Spec

(***************************************************************************)
(* The broker keeps the promise of RequestReply: every step asks, runs,    *)
(* answers, refuses or abandons one request, or changes nothing there.     *)
(***************************************************************************)
LEMMA EndOfFacts ==
  /\ EndOf("answered") = "answered" /\ EndOf("unavailable") = "refused"
  /\ EndOf("timeout") = "abandoned"
  /\ EndOf("unasked") = "open" /\ EndOf("waiting") = "open"
  /\ EndOf("set") = "open" /\ EndOf("expired") = "open"
BY DEF EndOf

LEMMA InitKeepsPromise == Init => Promise!Init
BY BoundsAssumption, EndOfFacts DEF Init, Promise!Init, Req

\* Only phases that map to "open" change, nothing runs, nothing is asked.
LEMMA QuietStep ==
  ASSUME UNCHANGED <<asked, runs>>,
         \A r \in Req : EndOf(phase'[r]) = EndOf(phase[r])
  PROVE  UNCHANGED Promise!rvars
BY DEF Promise!rvars

\* One request ends, nothing else happens.
LEMMA EndStep ==
  ASSUME Inv, UNCHANGED <<asked, runs>>, NEW r \in Req, phase[r] # "unasked",
         EndOf(phase[r]) = "open", \A q \in Req \ {r} : phase'[q] = phase[q]
  PROVE  /\ EndOf(phase'[r]) = "answered" /\ runs[r] > 0 => Promise!Answer(r)
         /\ EndOf(phase'[r]) = "refused" /\ runs[r] = 0 => Promise!Refuse(r)
         /\ EndOf(phase'[r]) = "abandoned" => Promise!Abandon(r)
<1>1. r \in 1..asked
  BY DEF Inv, TypeOK, Bookkeeping, IdsInOrder, Req
<1>2. [q \in Req |-> EndOf(phase'[q])] =
      [[q \in Req |-> EndOf(phase[q])] EXCEPT ![r] = EndOf(phase'[r])]
  OBVIOUS
<1>3. ASSUME NEW how, EndOf(phase'[r]) = how PROVE Promise!End(r, how)
  BY <1>1, <1>2, <1>3 DEF Promise!End
<1>4. EndOf(phase'[r]) = "answered" /\ runs[r] > 0 => Promise!Answer(r)
  BY <1>3 DEF Promise!Answer
<1>5. EndOf(phase'[r]) = "refused" /\ runs[r] = 0 => Promise!Refuse(r)
  BY <1>3 DEF Promise!Refuse
<1>6. EndOf(phase'[r]) = "abandoned" => Promise!Abandon(r)
  BY <1>3 DEF Promise!Abandon
<1> QED BY <1>4, <1>5, <1>6

LEMMA StepKeepsPromise ==
  ASSUME Inv, [Next]_vars PROVE [Promise!Next]_(Promise!rvars)
<1>1. ASSUME NEW n \in Node, Submit(n) PROVE [Promise!Next]_(Promise!rvars)
  <2> DEFINE r == asked + 1
             old == Head(pending[n])
  <2>1. asked \in Nat /\ r \in Req /\ r \notin 1..asked /\ asked' = asked + 1 /\ runs' = runs
        /\ Overflow(n, r) /\ phase[r] = "unasked"
    <3>1. asked \in Nat /\ r \in Req /\ ~(r <= asked) /\ asked' = asked + 1
      BY <1>1, BoundsAssumption DEF Submit, Inv, TypeOK, Req
    <3>2. runs' = runs /\ Overflow(n, r)
      BY <1>1 DEF Submit, agentVars
    <3>3. phase[r] = "unasked"
      BY <3>1 DEF Inv, Bookkeeping, IdsInOrder
    <3> QED BY <3>1, <3>2, <3>3
  <2>2. \A q \in Req : EndOf(phase'[q]) = EndOf(phase[q])
    <3>1. phase \in [Req -> Phases]
      BY DEF Inv, TypeOK
    <3>2. \/ phase' = [phase EXCEPT ![r] = "waiting"]
          \/ phase' = [phase EXCEPT ![r] = "waiting",
                                    ![old] = IF old \in futures /\ phase[old] = "waiting"
                                             THEN "set" ELSE @]
      BY <2>1 DEF Overflow
    <3> HIDE DEF r, old
    <3>3. CASE phase' = [phase EXCEPT ![r] = "waiting"]
      BY <3>1, <3>3, <2>1, EndOfFacts
    <3>4. CASE phase' = [phase EXCEPT ![r] = "waiting",
                                    ![old] = IF old \in futures /\ phase[old] = "waiting"
                                             THEN "set" ELSE @]
      <4>1. \A q \in Req : \/ phase'[q] = phase[q]
                           \/ q = r /\ phase'[q] = "waiting"
                           \/ phase[q] = "waiting" /\ phase'[q] = "set"
                           \/ q = r /\ phase'[q] = "set"
        BY <3>1, <3>4
      <4> QED BY <4>1, <2>1, EndOfFacts
    <3> QED BY <3>2, <3>3, <3>4
  <2>3. 1..asked' = (1..asked) \cup {r}
    BY <2>1
  <2>4. [q \in Req |-> EndOf(phase'[q])] = [q \in Req |-> EndOf(phase[q])]
    BY <2>2
  <2>5. Promise!Ask(r)
    BY <2>1, <2>3, <2>4 DEF Promise!Ask
  <2> QED BY <2>1, <2>5 DEF Promise!Next
<1>2. ASSUME NEW r \in Req, Wake(r) PROVE [Promise!Next]_(Promise!rvars)
  <2>1. /\ phase[r] = "set" /\ UNCHANGED <<asked, runs>>
        /\ phase'[r] = IF result[r] = Dropped THEN "unavailable" ELSE "answered"
        /\ \A q \in Req \ {r} : phase'[q] = phase[q]
    BY <1>2 DEF Wake, agentVars, Inv, TypeOK
  <2>2. result[r] = Dropped \/ result[r].kind = "ran"
    BY <2>1 DEF Inv, TypeOK, Bookkeeping, ResultsTrue, Results
  <2>3. /\ result[r] = Dropped => runs[r] = 0
        /\ result[r].kind = "ran" => runs[r] > 0
    BY DEF Inv, Bookkeeping, ResultsTrue
  <2>4. Promise!Answer(r) \/ Promise!Refuse(r)
    BY <2>1, <2>2, <2>3, EndStep, EndOfFacts
  <2> QED BY <2>4 DEF Promise!Next
<1>3. ASSUME NEW r \in Req, Cancel(r) PROVE [Promise!Next]_(Promise!rvars)
  <2>1. /\ phase[r] = "expired" /\ UNCHANGED <<asked, runs>> /\ phase'[r] = "timeout"
        /\ \A q \in Req \ {r} : phase'[q] = phase[q]
    BY <1>3 DEF Cancel, agentVars, Inv, TypeOK
  <2>2. Promise!Abandon(r)
    BY <2>1, EndStep, EndOfFacts
  <2> QED BY <2>2 DEF Promise!Next
<1>4. ASSUME NEW n \in Node, NEW r \in Req, AgentRun(n, r)
      PROVE  [Promise!Next]_(Promise!rvars)
  <2>1. /\ UNCHANGED <<asked, phase>> /\ r \in inbox[n] /\ runs' = [runs EXCEPT ![r] = @ + 1]
    BY <1>4 DEF AgentRun, reqVars
  <2>2. AtAgent(r) /\ runs \in [Req -> Nat] /\ phase[r] \in Phases
    BY <2>1 DEF AtAgent, Inv, TypeOK
  <2>3. runs[r] = 0 /\ result[r] # Dropped /\ r <= asked
    BY <2>2 DEF Inv, Bookkeeping, QueuesApart, ResultsTrue, IdsInOrder
  <2>4. phase[r] # "unavailable"
    BY <2>3 DEF Inv, Bookkeeping, ResultsTrue
  <2>5. EndOf(phase[r]) # "refused"
    BY <2>2, <2>4 DEF EndOf, Phases
  <2>6. {q \in Req : runs'[q] > 0} = {q \in Req : runs[q] > 0} \cup {r}
    BY <2>1, <2>2, <2>3
  <2>7. r \in 1..asked
    BY <2>3 DEF Inv, TypeOK, Req
  <2>8. Promise!Run(r)
    BY <2>1, <2>3, <2>5, <2>6, <2>7 DEF Promise!Run
  <2> QED BY <2>8 DEF Promise!Next
<1>5. ASSUME NEW r \in Req, Expire(r) PROVE UNCHANGED Promise!rvars
  <2>1. UNCHANGED <<asked, runs>> /\ \A q \in Req : EndOf(phase'[q]) = EndOf(phase[q])
    BY <1>5, EndOfFacts DEF Expire, agentVars, Inv, TypeOK
  <2> QED BY <2>1, QuietStep
<1>6. ASSUME NEW n \in Node, Report(n) PROVE UNCHANGED Promise!rvars
  <2>1. PICK res : Resolve(n, res)
    BY <1>6 DEF Report
  <2>2. \A q \in Req : phase'[q] = phase[q] \/ (phase[q] = "waiting" /\ phase'[q] = "set")
    BY <2>1 DEF Resolve
  <2>3. UNCHANGED <<asked, runs>> /\ \A q \in Req : EndOf(phase'[q]) = EndOf(phase[q])
    BY <1>6, <2>2, EndOfFacts DEF Report
  <2> QED BY <2>3, QuietStep
<1>7. ASSUME \/ \E n \in Node : Take(n) \/ Reject(n) \/ Revoke(n) \/ Rotate(n)
             \/ UNCHANGED vars
      PROVE  UNCHANGED Promise!rvars
  <2>1. UNCHANGED <<asked, runs, phase>>
    BY <1>7 DEF Take, Reject, Revoke, Rotate, vars, reqVars, agentVars
  <2> QED BY <2>1, QuietStep
<1> QED BY <1>1, <1>2, <1>3, <1>4, <1>5, <1>6, <1>7 DEF Next

(* The broker, its handlers and its agents implement RequestReply.         *)
THEOREM BrokerKeepsPromise == Spec => KeepsPromise
<1>1. Inv /\ [Next]_vars => [Promise!Next]_(Promise!rvars)
  BY StepKeepsPromise
<1> QED BY <1>1, InitKeepsPromise, Invariance, PTL DEF Spec, KeepsPromise, Promise!Spec
==============================================================================
