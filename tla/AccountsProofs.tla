--------------------------- MODULE AccountsProofs ---------------------------
(***************************************************************************)
(* Proofs about the accounts: the four invariants of the model hold for any *)
(* finite set of names, any subjects and threads, and any bounds.           *)
(***************************************************************************)
EXTENDS Accounts, FiniteSetTheorems, TLAPS

(* The inductive invariant, in parts.                                       *)

Users == {None} \cup [is : {"user"}, role : Roles, version : Versions, pass : BOOLEAN]
Links == {None} \cup [is : {"pending", "claimed"}, sub : Subjects]
Credentials == [role : Roles, version : Versions]
Entries == {None} \cup
  [is : {"entry"}, creds : Credentials, age : 0..(TTL - 1), off : Nat, excused : BOOLEAN]
Commands == {None} \cup
  [is : {"counted"}, name : Names, role : Roles \cup {"none"}, seen : SUBSET Names]

\* What a thread can have in hand, by the place it is at.
Reading ==
  [at : {"dated"}, name : Names, age : 0..TTL] \cup
  [at : {"store"}, name : Names, age : 0..TTL, off : Nat, creds : Credentials, excused : BOOLEAN]
Seeking == [at : {"look", "claim", "create", "again"}, sub : Subjects, tries : 1..2]
Holding ==
  [at : {"update", "found", "add", "link", "undo"},
   sub : Subjects, tries : 1..2, moved : BOOLEAN, name : Names]
Removing ==
  [at : {"remove"}, sub : Subjects, tries : 1..2, moved : BOOLEAN, name : Names,
   seen : SUBSET Names]
Linking == [at : {"join", "drop", "bind"}, sub : Subjects, name : Names]
Places == {Idle} \cup Reading \cup Seeking \cup Holding \cup Removing \cup Linking

Typed ==
  /\ users \in [Names -> Users] /\ ident \in [Names -> Links]
  /\ cache \in [Names -> Entries] /\ threads \in [Threads -> Places]
  /\ cli \in Commands /\ newest \in Versions
  /\ asked \in [changes : Nat, signins : Nat, cli : Nat]
  /\ signed \subseteq Names /\ cut \subseteq Names /\ ghosts \subseteq Names
  /\ overlap \in BOOLEAN /\ orphaned \subseteq Names

\* No two accounts sign with one hash, and the next hash is a new one.
VersionsApart ==
  /\ \A n \in Names : Exists(n) => users[n].version <= newest
  /\ \A m, n \in Names : m # n /\ Exists(m) /\ Exists(n) => users[m].version # users[n].version

\* A link belongs to an account, and a subject to one link.
LinksSound ==
  /\ \A n \in Names : ident[n] # None => Exists(n)
  /\ \A m, n \in Names : \A s \in Subjects :
       ident[m] = Claimed(s) /\ ident[n] = Claimed(s) => m = n

CacheFresh ==
  \A n \in Names : cache[n] # None =>
    /\ cache[n].off <= cache[n].age
    /\ cache[n].excused \/ (Exists(n) /\ cache[n].creds = Creds(n))

\* An account that was unlinked while nobody had it in hand, and that nothing
\* opens since.
Sealed(n) == n \in cut \ ghosts /\ Unopened(n)

\* A sign-in with the account it made: nobody else has touched it since.
Owns(r) == r.at \in {"link", "undo", "remove"} /\ ~r.moved

\* Who removes an account has seen that it is not the last admin.
Survives(n, S) == n \in S => S \ {n} # {}

\* What a thread has in hand is true of the tables: the credentials it read are
\* the present ones, the account it found is linked to the subject, the account
\* it may undo is there and still empty, and none it opens is sealed.
InOrder(r) ==
  /\ r.at = "store" =>
       /\ r.off <= r.age
       /\ r.excused \/ (Exists(r.name) /\ r.creds = Creds(r.name))
  /\ r.at = "remove" => Survives(r.name, r.seen)
  /\ r.at = "found" /\ ~r.moved => ident[r.name] = Claimed(r.sub)
  /\ Owns(r) => Exists(r.name) /\ ident[r.name] = None
  /\ r.at \in {"found", "dated", "store"} => ~Sealed(r.name)

ThreadsInOrder == \A t \in Threads : InOrder(threads[t])

OwnersApart ==
  \A t, u \in Threads : t # u /\ Owns(threads[t]) /\ Owns(threads[u]) =>
    threads[t].name # threads[u].name

CliInOrder == cli # None => cli.role = "admin" \/ Survives(cli.name, cli.seen)

CutsKnown == \A n \in cut : Exists(n) \/ n \in ghosts

IInv ==
  /\ Typed /\ VersionsApart /\ LinksSound /\ CacheFresh /\ CliInOrder /\ AdminRemains
  /\ ThreadsInOrder /\ OwnersApart /\ NothingEmptyStays /\ UnlinkEndsAccess /\ CutsKnown

-----------------------------------------------------------------------------
(* What a thread has in hand, by the place it is at.                        *)

\* A thread at a place that holds an account has its fields.
LEMMA PlaceHas ==
  ASSUME NEW r \in Places
  PROVE  /\ r.at = "dated" => r.name \in Names /\ r.age \in 0..TTL
         /\ r.at = "store" => r \in [at : {"store"}, name : Names, age : 0..TTL, off : Nat,
                                     creds : Credentials, excused : BOOLEAN]
         /\ r.at \in {"look", "claim", "create", "again"} => r \in Seeking
         /\ r.at \in {"update", "found", "add", "link", "undo"} => r \in Holding
         /\ r.at = "remove" => r \in Removing
         /\ r.at \in {"join", "drop", "bind"} => r \in Linking
  BY DEF Places, Reading, Seeking, Holding, Removing, Linking, Idle

\* A change leaves a thread where it is, with what it has in hand; only what the
\* change could not reach is marked.
LEMMA MissedIs ==
  ASSUME Typed, NEW C, NEW L, NEW t \in Threads,
         NEW r, r = threads[t], NEW q, q = Missed(C, L)[t]
  PROVE  /\ q \in Places
         /\ q.at = r.at
         /\ r.at \in {"dated", "store", "update", "found", "add", "link", "undo", "remove",
                      "join", "drop", "bind"} => q.name = r.name
         /\ r.at \in {"dated", "store"} => q.age = r.age
         /\ r.at = "store" => /\ q.off = r.off /\ q.creds = r.creds
                              /\ q.excused \/ (~r.excused /\ r.name \notin C)
         /\ r.at \in {"found", "link", "undo", "remove"} =>
              q.sub = r.sub /\ (q.moved \/ (~r.moved /\ r.name \notin L))
         /\ r.at = "remove" => q.seen = r.seen
<1>1. r \in Places
  BY DEF Typed
<1>2. q = IF r.at = "store" /\ r.name \in C
          THEN [r EXCEPT !.excused = TRUE]
          ELSE IF r.at \in {"found", "link", "undo", "remove"} /\ r.name \in L
          THEN [r EXCEPT !.moved = TRUE]
          ELSE r
  BY DEF Missed
<1>3. CASE r.at = "store" /\ r.name \in C
  <2>1. r \in [at : {"store"}, name : Names, age : 0..TTL, off : Nat,
               creds : Credentials, excused : BOOLEAN]
    BY <1>1, <1>3, PlaceHas
  <2>2. q = [r EXCEPT !.excused = TRUE]
    BY <1>2, <1>3
  <2>3. q \in [at : {"store"}, name : Names, age : 0..TTL, off : Nat,
               creds : Credentials, excused : BOOLEAN]
    BY <2>1, <2>2
  <2> QED
    BY <1>3, <2>1, <2>2, <2>3 DEF Places, Reading
<1>4. CASE r.at = "remove" /\ r.name \in L
  <2>1. r \in Removing
    BY <1>1, <1>4, PlaceHas
  <2>2. q = [r EXCEPT !.moved = TRUE]
    BY <1>2, <1>4
  <2>3. q \in Removing
    BY <2>1, <2>2 DEF Removing
  <2> QED
    BY <1>4, <2>1, <2>2, <2>3 DEF Places, Removing
<1>5. CASE r.at \in {"found", "link", "undo"} /\ r.name \in L
  <2>1. r \in Holding
    BY <1>1, <1>5, PlaceHas
  <2>2. q = [r EXCEPT !.moved = TRUE]
    BY <1>2, <1>5
  <2>3. q \in Holding
    BY <2>1, <2>2 DEF Holding
  <2> QED
    BY <1>5, <2>1, <2>2, <2>3 DEF Places, Holding
<1>6. CASE /\ ~(r.at = "store" /\ r.name \in C)
           /\ ~(r.at \in {"found", "link", "undo", "remove"} /\ r.name \in L)
  <2>1. q = r
    BY <1>2, <1>6
  <2>2. r.at = "store" => r.excused \in BOOLEAN
    BY <1>1, PlaceHas
  <2>3. r.at \in {"found", "link", "undo", "remove"} => r.moved \in BOOLEAN
    BY <1>1, PlaceHas DEF Holding, Removing
  <2> QED
    BY <1>1, <1>6, <2>1, <2>2, <2>3
<1> QED
  BY <1>3, <1>4, <1>5, <1>6

\* With nothing changed nothing is marked.
LEMMA NothingMissed ==
  ASSUME NEW t \in Threads
  PROVE  Missed({}, {})[t] = threads[t]
  BY DEF Missed

\* What the steps of the tables keep: the credentials of all accounts but those
\* of C; the links, and the empty accounts, of all but those of L.
CredsKept(C) ==
  \A n \in Names \ C : Exists(n) => Exists(n)' /\ Creds(n)' = Creds(n)
LinksKept(L) ==
  \A n \in Names \ L :
    /\ ident[n].is = "claimed" => ident'[n] = ident[n]
    /\ Exists(n) /\ ident[n] = None => Exists(n)' /\ ident'[n] = None
SealedFree == \A n \in Names : Sealed(n)' => ~InHand(n)

\* Nobody has a sealed account in hand.
LEMMA SealedAway ==
  ASSUME IInv, NEW n \in Names, Sealed(n)
  PROVE  ~InHand(n)
  BY DEF InHand, IInv, ThreadsInOrder, InOrder

\* A thread that a change passes by still has true things in hand.
LEMMA StillInOrder ==
  ASSUME IInv, NEW C, NEW L, NEW t \in Threads, threads'[t] = Missed(C, L)[t],
         CredsKept(C), LinksKept(L), SealedFree
  PROVE  InOrder(threads[t])'
<1> DEFINE r == threads[t]
           q == Missed(C, L)[t]
<1>0. InOrder(r) /\ r \in Places /\ Typed /\ threads'[t] = q
  BY DEF IInv, ThreadsInOrder, Typed
<1>1. /\ q.at = r.at
      /\ r.at \in {"dated", "store", "update", "found", "add", "link", "undo", "remove",
                   "join", "drop", "bind"} => q.name = r.name
      /\ r.at \in {"dated", "store"} => q.age = r.age
      /\ r.at = "store" => /\ q.off = r.off /\ q.creds = r.creds
                           /\ q.excused \/ (~r.excused /\ r.name \notin C)
      /\ r.at \in {"found", "link", "undo", "remove"} =>
           q.sub = r.sub /\ (q.moved \/ (~r.moved /\ r.name \notin L))
      /\ r.at = "remove" => q.seen = r.seen
  <2> HIDE DEF r, q
  <2> QED BY <1>0, MissedIs DEF r, q
<1>2. r.at \in {"dated", "store", "found", "link", "undo", "remove"} => r.name \in Names
  BY <1>0, PlaceHas DEF Holding, Removing
<1>3. r.at \in {"found", "dated", "store"} => InHand(r.name)
  BY DEF InHand
<1> HIDE DEF r, q
<1>9. PICK k : k = r.name
  OBVIOUS
<1>4. q.at = "store" =>
        /\ q.name = k /\ q.off <= q.age
        /\ q.excused \/ (Exists(k)' /\ q.creds = Creds(k)')
  BY <1>0, <1>1, <1>2, <1>9 DEF InOrder, CredsKept
<1>5. q.at = "remove" => Survives(q.name, q.seen)
  BY <1>0, <1>1 DEF InOrder, Survives
<1>6. q.at = "found" /\ ~q.moved => ident'[q.name] = Claimed(q.sub)
  BY <1>0, <1>1, <1>2 DEF InOrder, LinksKept, Claimed
<1>7. Owns(q) => q.name = k /\ Exists(k)' /\ ident'[k] = None
  BY <1>0, <1>1, <1>2, <1>9 DEF InOrder, LinksKept, Owns
<1>8. q.at \in {"found", "dated", "store"} => q.name = k /\ ~Sealed(k)'
  BY <1>1, <1>2, <1>3, <1>9 DEF SealedFree
<1> QED
  BY <1>0, <1>4, <1>5, <1>6, <1>7, <1>8 DEF InOrder, Owns, Survives, Exists, Creds, Claimed, Sealed, Unopened

\* The threads a change passes by have true things in hand, and the accounts they
\* made apart; those that act (A) are looked at on their own.
LEMMA ThreadsPass ==
  ASSUME IInv, NEW C, NEW L, NEW A \in SUBSET Threads,
         \A u \in Threads \ A : threads'[u] = Missed(C, L)[u],
         CredsKept(C), LinksKept(L), SealedFree,
         \A u \in A : InOrder(threads[u])',
         \A u \in A, v \in Threads :
           u # v /\ Owns(threads'[u]) /\ Owns(threads'[v]) => threads'[u].name # threads'[v].name
  PROVE  /\ ThreadsInOrder'
         /\ OwnersApart'
         /\ \A n \in Names : BusyWith(n) =>
              BusyWith(n)' \/ \E u \in A : threads[u].at \in {"link", "undo", "remove"}
                                           /\ threads[u].name = n
<1>1. ThreadsInOrder'
  <2>1. \A u \in Threads \ A : InOrder(threads[u])'
    BY StillInOrder
  <2> QED
    BY <2>1 DEF ThreadsInOrder
<1>2. ASSUME NEW u \in Threads \ A
      PROVE  /\ threads'[u].at = threads[u].at
             /\ threads[u].at \in {"link", "undo", "remove"} => threads'[u].name = threads[u].name
             /\ Owns(threads'[u]) => Owns(threads[u])
  <2>1. threads[u].at \in {"link", "undo", "remove"} => threads[u].moved \in BOOLEAN
    BY PlaceHas DEF IInv, Typed, Holding, Removing
  <2> QED
    BY <2>1, MissedIs DEF IInv, Owns
<1>3. OwnersApart'
  <2>1. ASSUME NEW u \in Threads, NEW v \in Threads, u # v,
               Owns(threads'[u]), Owns(threads'[v])
        PROVE  threads'[u].name # threads'[v].name
    <3>1. CASE u \in A \/ v \in A
      BY <2>1, <3>1
    <3>2. CASE u \notin A /\ v \notin A
      BY <1>2, <2>1, <3>2 DEF IInv, OwnersApart, Owns
    <3> QED
      BY <3>1, <3>2
  <2> QED
    BY <2>1 DEF OwnersApart, Owns
<1>4. ASSUME NEW n \in Names, BusyWith(n)
      PROVE  BusyWith(n)' \/ \E u \in A : threads[u].at \in {"link", "undo", "remove"}
                                          /\ threads[u].name = n
  BY <1>2, <1>4 DEF BusyWith
<1> QED
  BY <1>1, <1>3, <1>4

\* The entries stay fresh: those of changed accounts go, or are marked.
LEMMA CachePasses ==
  ASSUME IInv, NEW C, CredsKept(C), cache' = [n \in Names |-> cache'[n]],
         \A n \in Names : \/ cache'[n] = None
                          \/ n \notin C /\ cache'[n] = cache[n]
                          \/ cache[n] # None /\ cache'[n] = [cache[n] EXCEPT !.excused = TRUE]
  PROVE  cache' \in [Names -> Entries] /\ CacheFresh'
<1>1. ASSUME NEW n \in Names
      PROVE  /\ cache'[n] \in Entries
             /\ cache'[n] # None =>
                  /\ cache'[n].off <= cache'[n].age
                  /\ cache'[n].excused \/ (Exists(n)' /\ cache'[n].creds = Creds(n)')
  <2>0. cache[n] \in Entries
    BY DEF IInv, Typed
  <2>1. CASE cache'[n] = None
    BY <2>1 DEF Entries
  <2>2. CASE n \notin C /\ cache'[n] = cache[n]
    BY <2>0, <2>2 DEF IInv, CacheFresh, CredsKept
  <2>3. CASE cache[n] # None /\ cache'[n] = [cache[n] EXCEPT !.excused = TRUE]
    BY <2>0, <2>3 DEF IInv, CacheFresh, Entries
  <2> QED
    BY <2>1, <2>2, <2>3
<1> QED
  BY <1>1 DEF CacheFresh, Exists, Creds

\* The rule on admins leaves one.
LEMMA OneSurvives ==
  ASSUME IInv, NEW n \in Names, Exists(n), LeavesAdmin(n, "none")
  PROVE  Survives(n, Admins)
<1>1. IsFiniteSet(Admins)
  <2>1. Admins \subseteq Names
    BY DEF Admins
  <2> QED
    BY <2>1, FS_Subset, AccountsAssumption
<1>2. ASSUME n \in Admins, Admins \ {n} = {}
      PROVE  FALSE
  <2>1. Admins = {n}
    BY <1>2
  <2>2. Cardinality(Admins) = 1
    BY <2>1, FS_Singleton
  <2>3. users[n].role = "admin"
    BY <1>2 DEF Admins
  <2> QED
    BY <2>2, <2>3 DEF LeavesAdmin
<1> QED
  BY <1>2 DEF Survives

\* A change that passes by every thread.
LEMMA AllPass ==
  ASSUME IInv, NEW C, NEW L, threads' = Missed(C, L),
         CredsKept(C), LinksKept(L), SealedFree
  PROVE  /\ ThreadsInOrder' /\ OwnersApart'
         /\ \A n \in Names : BusyWith(n) => BusyWith(n)'
<1>1. PICK A : A = {}
  OBVIOUS
<1>2. /\ A \in SUBSET Threads
      /\ \A u \in Threads \ A : threads'[u] = Missed(C, L)[u]
      /\ \A u \in A : InOrder(threads[u])'
      /\ \A u \in A, v \in Threads :
           u # v /\ Owns(threads'[u]) /\ Owns(threads'[v]) => threads'[u].name # threads'[v].name
  BY <1>1
<1>3. /\ ThreadsInOrder'
      /\ OwnersApart'
      /\ \A n \in Names : BusyWith(n) =>
           BusyWith(n)' \/ \E u \in A : threads[u].at \in {"link", "undo", "remove"}
                                        /\ threads[u].name = n
  BY <1>2, ThreadsPass
<1> QED
  BY <1>1, <1>3

\* A change that passes by every thread but one.
LEMMA AllButOnePass ==
  ASSUME IInv, NEW C, NEW L, NEW t \in Threads,
         \A u \in Threads \ {t} : threads'[u] = Missed(C, L)[u],
         CredsKept(C), LinksKept(L), SealedFree, InOrder(threads[t])',
         \A v \in Threads :
           v # t /\ Owns(threads'[t]) /\ Owns(threads'[v]) => threads'[t].name # threads'[v].name
  PROVE  /\ ThreadsInOrder' /\ OwnersApart'
         /\ \A n \in Names : BusyWith(n) =>
              BusyWith(n)' \/ (threads[t].at \in {"link", "undo", "remove"} /\ threads[t].name = n)
<1>1. PICK A : A = {t}
  OBVIOUS
<1>2. /\ A \in SUBSET Threads
      /\ \A u \in Threads \ A : threads'[u] = Missed(C, L)[u]
      /\ \A u \in A : InOrder(threads[u])'
      /\ \A u \in A, v \in Threads :
           u # v /\ Owns(threads'[u]) /\ Owns(threads'[v]) => threads'[u].name # threads'[v].name
  BY <1>1
<1>3. /\ ThreadsInOrder'
      /\ OwnersApart'
      /\ \A n \in Names : BusyWith(n) =>
           BusyWith(n)' \/ \E u \in A : threads[u].at \in {"link", "undo", "remove"}
                                        /\ threads[u].name = n
  BY <1>2, ThreadsPass
<1> QED
  BY <1>1, <1>3

LEMMA MissedTyped ==
  ASSUME Typed, NEW C, NEW L
  PROVE  Missed(C, L) \in [Threads -> Places]
<1>1. \A t \in Threads : Missed(C, L)[t] \in Places
  BY MissedIs
<1>2. Missed(C, L) = [t \in Threads |-> Missed(C, L)[t]]
  BY DEF Missed
<1> HIDE DEF Missed
<1> QED
  BY <1>1, <1>2

-----------------------------------------------------------------------------
(* The handlers keep the invariant.                                         *)

LEMMA ChangeRoleKeeps ==
  ASSUME IInv, NEW n \in Names, NEW role \in Roles, ChangeRole(n, role)
  PROVE  IInv'
<1> USE DEF ChangeRole, Change, Forget
<1>0. Typed /\ users[n] \in Users /\ users[n].is = "user"
  BY DEF IInv, Typed, Users, Exists, None
<1>1. users' = [users EXCEPT ![n].role = role] /\ users' \in [Names -> Users]
  <2>1. [users[n] EXCEPT !.role = role] \in Users
    BY <1>0 DEF Users, None
  <2> QED
    BY <1>0, <2>1 DEF Typed
<1>2. /\ \A m \in Names : Exists(m)' = Exists(m) /\ Unopened(m)' = Unopened(m)
      /\ \A m \in Names : Exists(m) => users'[m].version = users[m].version
      /\ CredsKept({n}) /\ LinksKept({}) /\ SealedFree
  <2>1. \A m \in Names : Exists(m)' = Exists(m) /\ Unopened(m)' = Unopened(m)
    BY <1>0, <1>1 DEF Exists, Unopened, None, Users, Typed
  <2>2. \A m \in Names : users'[m].version = users[m].version
    BY <1>0, <1>1 DEF Typed, Users
  <2>3. CredsKept({n}) /\ LinksKept({})
    BY <2>1, <1>1 DEF CredsKept, LinksKept, Creds, Exists
  <2>4. SealedFree
    BY <2>1 DEF SealedFree, Sealed, InHand, IInv, ThreadsInOrder, InOrder
  <2> QED
    BY <2>1, <2>2, <2>3, <2>4
<1>3. VersionsApart' /\ LinksSound'
  BY <1>2 DEF IInv, VersionsApart, LinksSound, Exists
<1>4. cache' \in [Names -> Entries] /\ CacheFresh'
  BY <1>2, CachePasses
<1>5. threads' \in [Threads -> Places]
  BY <1>0, MissedTyped
<1>6. /\ ThreadsInOrder' /\ OwnersApart'
      /\ \A m \in Names : BusyWith(m) => BusyWith(m)'
  BY <1>2, AllPass
<1>7. Typed'
  <2>1. asked' \in [changes : Nat, signins : Nat, cli : Nat]
    BY <1>0 DEF Typed
  <2> QED
    BY <1>0, <1>1, <1>4, <1>5, <2>1 DEF Typed
<1>8. AdminRemains'
  <2>1. CASE role = "admin"
    BY <1>0, <1>1, <2>1 DEF AdminRemains, Admins, Users, None, Typed
  <2>2. CASE role # "admin"
    <3>1. Survives(n, Admins)
      BY <2>2, OneSurvives DEF LeavesAdmin
    <3>2. Admins' = Admins \ {n}
      BY <1>0, <1>1, <2>2 DEF Admins, None, Users, Typed
    <3> QED
      BY <3>1, <3>2 DEF IInv, AdminRemains, Survives
  <2> QED
    BY <2>1, <2>2
<1>9. NothingEmptyStays'
  BY <1>2, <1>6 DEF IInv, NothingEmptyStays
<1>10. UnlinkEndsAccess'
  BY <1>0, <1>2 DEF IInv, UnlinkEndsAccess, Typed
<1>11. CutsKnown' /\ CliInOrder'
  BY <1>0, <1>2 DEF IInv, CutsKnown, CliInOrder, Typed
<1> QED
  BY <1>3, <1>4, <1>6, <1>7, <1>8, <1>9, <1>10, <1>11 DEF IInv

\* An account written with the next version.
LEMMA FreshVersion ==
  ASSUME IInv, NEW n \in Names, NEW u \in Users, u.is = "user", u.version = newest + 1,
         users' = [users EXCEPT ![n] = u], newest' = newest + 1
  PROVE  users' \in [Names -> Users] /\ newest' \in Versions /\ VersionsApart'
<1>0. Typed
  BY DEF IInv
<1>1. users' \in [Names -> Users] /\ newest' \in Versions
  BY <1>0 DEF Typed, Versions
<1>2. \A m \in Names : m # n => users'[m] = users[m]
  BY <1>0 DEF Typed
<1>3. users'[n] = u
  BY <1>0 DEF Typed
<1>4. \A m \in Names : Exists(m) => users[m].version \in Versions /\ users[m].version <= newest
  BY <1>0 DEF IInv, VersionsApart, Typed, Users, Exists
<1>5. VersionsApart'
  <2>1. \A m \in Names : Exists(m)' => users'[m].version <= newest'
    BY <1>0, <1>2, <1>3, <1>4 DEF Exists, Typed, Versions
  <2>2. ASSUME NEW k \in Names, NEW m \in Names, k # m, Exists(k)', Exists(m)'
        PROVE  users'[k].version # users'[m].version
    <3>1. CASE k # n /\ m # n
      BY <1>2, <2>2, <3>1 DEF IInv, VersionsApart, Exists
    <3>2. CASE k = n \/ m = n
      BY <1>0, <1>2, <1>3, <1>4, <2>2, <3>2 DEF Exists, Typed, Versions
    <3> QED
      BY <3>1, <3>2
  <2> QED
    BY <2>1, <2>2 DEF VersionsApart
<1> QED
  BY <1>1, <1>5

LEMMA ChangePasswordKeeps ==
  ASSUME IInv, NEW n \in Names, ChangePassword(n)
  PROVE  IInv'
<1> USE DEF ChangePassword, Change, Forget
<1>0. Typed /\ users[n] \in Users /\ users[n].is = "user"
  BY DEF IInv, Typed, Users, Exists, None
<1>1. users' \in [Names -> Users] /\ newest' \in Versions /\ VersionsApart'
  <2> DEFINE u == [users[n] EXCEPT !.version = newest + 1]
  <2>1. u \in Users /\ u.is = "user" /\ u.version = newest + 1
    BY <1>0 DEF Users, None, Typed, Versions
  <2>2. users' = [users EXCEPT ![n] = u]
    BY <1>0 DEF Typed
  <2> HIDE DEF u
  <2> QED
    BY <2>1, <2>2, FreshVersion
<1>2. /\ \A m \in Names : Exists(m)' = Exists(m) /\ Unopened(m)' = Unopened(m)
      /\ ~Unopened(n)'
      /\ \A m \in Names : users'[m].role = users[m].role
      /\ CredsKept({n}) /\ LinksKept({}) /\ SealedFree
  <2>1. \A m \in Names : Exists(m)' = Exists(m) /\ Unopened(m)' = Unopened(m)
    BY <1>0 DEF Exists, Unopened, None, Users, Typed
  <2>2. ~Unopened(n)' /\ \A m \in Names : users'[m].role = users[m].role
    BY <1>0 DEF Typed, Users, Unopened
  <2>3. CredsKept({n}) /\ LinksKept({})
    BY <1>0, <2>1 DEF CredsKept, LinksKept, Creds, Exists, Typed
  <2>4. SealedFree
    BY <2>1 DEF SealedFree, Sealed, InHand, IInv, ThreadsInOrder, InOrder
  <2> QED
    BY <2>1, <2>2, <2>3, <2>4
<1>3. LinksSound'
  BY <1>2 DEF IInv, LinksSound
<1>4. cache' \in [Names -> Entries] /\ CacheFresh'
  BY <1>2, CachePasses
<1>5. threads' \in [Threads -> Places]
  BY <1>0, MissedTyped
<1>6. /\ ThreadsInOrder' /\ OwnersApart'
      /\ \A m \in Names : BusyWith(m) => BusyWith(m)'
  BY <1>2, AllPass
<1>7. Typed'
  <2>1. asked' \in [changes : Nat, signins : Nat, cli : Nat] /\ signed' \subseteq Names
    BY <1>0 DEF Typed
  <2> QED
    BY <1>0, <1>1, <1>4, <1>5, <2>1 DEF Typed
<1>8. AdminRemains'
  BY <1>2 DEF IInv, AdminRemains, Admins, Exists
<1>9. NothingEmptyStays'
  BY <1>2, <1>6 DEF IInv, NothingEmptyStays
<1>10. UnlinkEndsAccess'
  BY <1>0, <1>2 DEF IInv, UnlinkEndsAccess, Typed
<1>11. CutsKnown' /\ CliInOrder'
  BY <1>0, <1>2 DEF IInv, CutsKnown, CliInOrder, Typed
<1> QED
  BY <1>1, <1>3, <1>4, <1>6, <1>7, <1>8, <1>9, <1>10, <1>11 DEF IInv

\* What the removal of an account leaves.
LEMMA DeleteLeaves ==
  ASSUME IInv, NEW n \in Names, Delete(n), newest' = newest
  PROVE  /\ users' \in [Names -> Users] /\ ident' \in [Names -> Links]
         /\ signed' \subseteq Names /\ cut' \subseteq Names /\ ghosts' \subseteq Names
         /\ orphaned' \subseteq Names
         /\ \A m \in Names \ {n} : users'[m] = users[m] /\ ident'[m] = ident[m]
         /\ ~Exists(n)' /\ ident'[n] = None
         /\ \A m \in Names : Unopened(m)' => m # n /\ Unopened(m)
         /\ VersionsApart' /\ LinksSound' /\ UnlinkEndsAccess' /\ CutsKnown'
         /\ CredsKept({n}) /\ LinksKept({n}) /\ SealedFree
         /\ Admins' = Admins \ {n}
<1> USE DEF Delete
<1>0. Typed
  BY DEF IInv
<1>1. users' \in [Names -> Users] /\ ident' \in [Names -> Links]
  BY <1>0 DEF Typed, Users, Links
<1>2. /\ \A m \in Names \ {n} : users'[m] = users[m] /\ ident'[m] = ident[m]
      /\ users'[n] = None /\ ident'[n] = None
  BY <1>0 DEF Typed
<1>3. /\ signed' \subseteq Names /\ cut' \subseteq Names /\ ghosts' \subseteq Names
      /\ orphaned' \subseteq Names
  BY <1>0 DEF Typed
<1>4. \A m \in Names : Unopened(m)' => m # n /\ Unopened(m)
  BY <1>2 DEF Unopened, Exists
<1>5. VersionsApart'
  BY <1>2 DEF IInv, VersionsApart, Exists
<1>6. LinksSound'
  <2>1. \A m \in Names : ident'[m] # None => Exists(m)'
    BY <1>2 DEF IInv, LinksSound, Exists
  <2>2. ASSUME NEW k \in Names, NEW m \in Names, NEW s \in Subjects,
               ident'[k] = Claimed(s), ident'[m] = Claimed(s)
        PROVE  k = m
    <3>1. k # n /\ m # n
      BY <1>2, <2>2 DEF None, Claimed
    <3> QED
      BY <1>2, <2>2, <3>1 DEF IInv, LinksSound
  <2> QED
    BY <2>1, <2>2 DEF LinksSound, Claimed
<1>7. UnlinkEndsAccess' /\ CutsKnown'
  <2>1. UnlinkEndsAccess'
    BY <1>4, <1>3 DEF IInv, UnlinkEndsAccess
  <2>2. CutsKnown'
    BY <1>2, <1>0 DEF IInv, CutsKnown, Exists, Typed
  <2> QED
    BY <2>1, <2>2
<1>8. CredsKept({n}) /\ LinksKept({n})
  BY <1>2 DEF CredsKept, LinksKept, Creds, Exists
<1>9. SealedFree
  <2>1. \A m \in Names : Sealed(m)' => Sealed(m)
    BY <1>4 DEF Sealed
  <2> QED
    BY <2>1, SealedAway DEF SealedFree
<1>10. Admins' = Admins \ {n}
  BY <1>2 DEF Admins
<1> QED
  BY <1>1, <1>2, <1>3, <1>4, <1>5, <1>6, <1>7, <1>8, <1>9, <1>10 DEF Exists

LEMMA RemoveUserKeeps ==
  ASSUME IInv, NEW n \in Names, RemoveUser(n)
  PROVE  IInv'
<1> USE DEF RemoveUser, Change, Forget
<1>0. Typed
  BY DEF IInv
<1>1. /\ users' \in [Names -> Users] /\ ident' \in [Names -> Links]
      /\ signed' \subseteq Names /\ cut' \subseteq Names /\ ghosts' \subseteq Names
      /\ orphaned' \subseteq Names
      /\ \A m \in Names : Unopened(m)' => m # n /\ Unopened(m)
      /\ VersionsApart' /\ LinksSound' /\ UnlinkEndsAccess' /\ CutsKnown'
      /\ CredsKept({n}) /\ LinksKept({n}) /\ SealedFree
      /\ Admins' = Admins \ {n}
  BY DeleteLeaves
<1>2. cache' \in [Names -> Entries] /\ CacheFresh'
  BY <1>1, CachePasses
<1>3. threads' \in [Threads -> Places]
  BY <1>0, MissedTyped
<1>4. /\ ThreadsInOrder' /\ OwnersApart'
      /\ \A m \in Names : BusyWith(m) => BusyWith(m)'
  BY <1>1, AllPass
<1>5. Typed'
  <2>1. asked' \in [changes : Nat, signins : Nat, cli : Nat]
    BY <1>0 DEF Typed
  <2> QED
    BY <1>0, <1>1, <1>2, <1>3, <2>1 DEF Typed
<1>6. AdminRemains'
  <2>1. Survives(n, Admins)
    BY OneSurvives
  <2> QED
    BY <1>1, <2>1 DEF IInv, AdminRemains, Survives
<1>7. NothingEmptyStays'
  BY <1>1, <1>4 DEF IInv, NothingEmptyStays, Delete
<1>8. CliInOrder'
  BY DEF IInv, CliInOrder
<1> QED
  BY <1>1, <1>2, <1>4, <1>5, <1>6, <1>7, <1>8 DEF IInv

LEMMA PrelinkKeeps ==
  ASSUME IInv, NEW n \in Names, NEW s \in Subjects, Prelink(n, s)
  PROVE  IInv'
<1> USE DEF Prelink
<1>0. Typed
  BY DEF IInv
<1>1. /\ ident' \in [Names -> Links] /\ ident'[n] = Pending(s)
      /\ \A m \in Names \ {n} : ident'[m] = ident[m]
      /\ \A m \in Names : Exists(m)' = Exists(m)
      /\ \A m \in Names : Unopened(m)' => Unopened(m)
  <2>1. Pending(s) \in Links /\ Pending(s) # None
    BY DEF Links, Pending, None
  <2>2. ident'[n] = Pending(s) /\ \A m \in Names \ {n} : ident'[m] = ident[m]
    BY <1>0 DEF Typed
  <2>3. \A m \in Names : Exists(m)' = Exists(m)
    BY DEF Exists
  <2>4. \A m \in Names : Unopened(m)' => Unopened(m)
    BY <2>1, <2>2, <2>3 DEF Unopened
  <2> QED
    BY <1>0, <2>1, <2>2, <2>3, <2>4 DEF Typed
<1>2. CredsKept({}) /\ LinksKept({n}) /\ SealedFree
  <2>1. \A m \in Names : Sealed(m)' => Sealed(m)
    BY <1>1 DEF Sealed, notes
  <2>2. SealedFree
    BY <2>1, SealedAway DEF SealedFree
  <2> QED
    BY <1>1, <2>2 DEF CredsKept, LinksKept, Creds
<1>3. LinksSound'
  <2>1. \A m \in Names : ident'[m] # None => Exists(m)'
    BY <1>1 DEF IInv, LinksSound
  <2>2. ASSUME NEW k \in Names, NEW m \in Names, NEW z \in Subjects,
               ident'[k] = Claimed(z), ident'[m] = Claimed(z)
        PROVE  k = m
    <3>1. k # n /\ m # n
      BY <1>1, <2>2 DEF Pending, Claimed
    <3> QED
      BY <1>1, <2>2, <3>1 DEF IInv, LinksSound
  <2> QED
    BY <2>1, <2>2 DEF LinksSound, Claimed
<1>4. threads' \in [Threads -> Places]
  BY <1>0, MissedTyped
<1>5. /\ ThreadsInOrder' /\ OwnersApart'
      /\ \A m \in Names : BusyWith(m) => BusyWith(m)'
  BY <1>2, AllPass
<1>6. Typed'
  <2>1. asked' \in [changes : Nat, signins : Nat, cli : Nat]
    BY <1>0 DEF Typed
  <2> QED
    BY <1>0, <1>1, <1>4, <2>1 DEF Typed, notes
<1>7. /\ VersionsApart' /\ CacheFresh' /\ CliInOrder' /\ AdminRemains' /\ CutsKnown'
  BY DEF IInv, VersionsApart, CacheFresh, CliInOrder, AdminRemains, CutsKnown, Exists, Admins,
         Creds, notes
<1>8. NothingEmptyStays' /\ UnlinkEndsAccess'
  <2>1. NothingEmptyStays'
    BY <1>1, <1>5 DEF IInv, NothingEmptyStays, notes
  <2>2. UnlinkEndsAccess'
    BY <1>0, <1>1 DEF IInv, UnlinkEndsAccess, Typed, notes
  <2> QED
    BY <2>1, <2>2
<1> QED
  BY <1>3, <1>5, <1>6, <1>7, <1>8 DEF IInv

LEMMA UnlinkKeeps ==
  ASSUME IInv, NEW n \in Names, Unlink(n)
  PROVE  IInv'
<1> USE DEF Unlink, Change, Forget
<1> DEFINE C == IF users[n].pass THEN {} ELSE {n}
<1>0. Typed /\ users[n] \in Users /\ users[n].is = "user"
  BY DEF IInv, Typed, Users, Exists, None
<1>1. /\ users' \in [Names -> Users] /\ newest' \in Versions /\ VersionsApart'
      /\ \A m \in Names : Exists(m)' = Exists(m) /\ users'[m].role = users[m].role
                          /\ (Exists(m) => users'[m].pass = users[m].pass)
      /\ \A m \in Names \ {n} : users'[m] = users[m]
      /\ users[n].pass => users'[n] = users[n] /\ signed' = signed
      /\ ~users[n].pass => n \notin signed'
      /\ signed' \subseteq signed
  <2>1. CASE users[n].pass
    <3>1. users' = users /\ newest' = newest /\ signed' = signed
      BY <2>1 DEF Rotate
    <3> QED
      BY <1>0, <2>1, <3>1 DEF IInv, Typed, VersionsApart, Exists
  <2>2. CASE ~users[n].pass
    <3> DEFINE u == [users[n] EXCEPT !.version = newest + 1]
    <3>1. /\ u \in Users /\ u.is = "user" /\ u.version = newest + 1
          /\ u.role = users[n].role /\ u.pass = users[n].pass
      BY <1>0 DEF Users, None, Typed, Versions
    <3>2. users' = [users EXCEPT ![n] = u] /\ newest' = newest + 1 /\ signed' = signed \ {n}
      BY <1>0, <2>2 DEF Rotate, Typed
    <3> HIDE DEF u
    <3>3. users' \in [Names -> Users] /\ newest' \in Versions /\ VersionsApart'
      BY <3>1, <3>2, FreshVersion
    <3>4. users'[n] = u /\ \A m \in Names \ {n} : users'[m] = users[m]
      BY <1>0, <3>2 DEF Typed
    <3> QED
      BY <1>0, <2>2, <3>1, <3>2, <3>3, <3>4 DEF Exists, None
  <2> QED
    BY <2>1, <2>2
<1>2. /\ ident' \in [Names -> Links] /\ ident'[n] = None
      /\ \A m \in Names \ {n} : ident'[m] = ident[m]
      /\ \A m \in Names \ {n} : Unopened(m)' => Unopened(m)
  <2>1. /\ ident' \in [Names -> Links] /\ ident'[n] = None
        /\ \A m \in Names \ {n} : ident'[m] = ident[m]
    BY <1>0 DEF Typed, Links
  <2>2. \A m \in Names \ {n} : Unopened(m)' => Unopened(m)
    BY <1>1, <2>1 DEF Unopened, Exists
  <2> QED
    BY <2>1, <2>2
<1>3. /\ cut' = cut \cup {n} /\ ghosts' \subseteq ghosts \cup {n} /\ ghosts \subseteq ghosts'
      /\ InHand(n) => n \in ghosts'
  OBVIOUS
<1>4. CredsKept(C) /\ LinksKept({n})
  <2>1. CredsKept(C)
    BY <1>1 DEF CredsKept, Creds
  <2>2. LinksKept({n})
    BY <1>1, <1>2 DEF LinksKept
  <2> QED
    BY <2>1, <2>2
<1>5. SealedFree
  <2>1. ASSUME NEW m \in Names, m # n, Sealed(m)'
        PROVE  ~InHand(m)
    <3>1. Sealed(m)
      BY <1>2, <1>3, <2>1 DEF Sealed
    <3> QED
      BY <3>1, SealedAway
  <2>2. Sealed(n)' => ~InHand(n)
    BY <1>3 DEF Sealed
  <2> QED
    BY <2>1, <2>2 DEF SealedFree
<1>6. threads' = Missed(C, {n}) /\ cache' = [m \in Names |-> IF m \in C THEN None ELSE cache[m]]
  OBVIOUS
<1> HIDE DEF C
<1>7. cache' \in [Names -> Entries] /\ CacheFresh'
  BY <1>4, <1>6, CachePasses
<1>8. threads' \in [Threads -> Places]
  BY <1>0, <1>6, MissedTyped
<1>9. /\ ThreadsInOrder' /\ OwnersApart'
      /\ \A m \in Names : BusyWith(m) => BusyWith(m)'
  BY <1>4, <1>5, <1>6, AllPass
<1>10. Typed'
  <2>1. asked' \in [changes : Nat, signins : Nat, cli : Nat] /\ signed' \subseteq Names
        /\ cut' \subseteq Names /\ ghosts' \subseteq Names
    BY <1>0, <1>1, <1>3 DEF Typed
  <2> QED
    BY <1>0, <1>1, <1>2, <1>7, <1>8, <2>1 DEF Typed
<1>11. LinksSound'
  <2>1. \A m \in Names : ident'[m] # None => Exists(m)'
    BY <1>1, <1>2 DEF IInv, LinksSound
  <2>2. ASSUME NEW k \in Names, NEW m \in Names, NEW z \in Subjects,
               ident'[k] = Claimed(z), ident'[m] = Claimed(z)
        PROVE  k = m
    <3>1. k # n /\ m # n
      BY <1>2, <2>2 DEF None, Claimed
    <3> QED
      BY <1>2, <2>2, <3>1 DEF IInv, LinksSound
  <2> QED
    BY <2>1, <2>2 DEF LinksSound, Claimed
<1>12. AdminRemains'
  BY <1>1 DEF IInv, AdminRemains, Admins, Exists
<1>13. NothingEmptyStays'
  BY <1>2, <1>3, <1>9 DEF IInv, NothingEmptyStays
<1>14. UnlinkEndsAccess'
  <2>1. ASSUME NEW m \in Names, m # n, m \in cut' \ ghosts', Unopened(m)'
        PROVE  m \notin signed'
    <3>1. m \in cut \ ghosts /\ Unopened(m)
      BY <1>2, <1>3, <2>1
    <3> QED
      BY <1>1, <3>1 DEF IInv, UnlinkEndsAccess
  <2>2. Unopened(n)' => n \notin signed'
    BY <1>1 DEF Unopened, Exists
  <2> QED
    BY <2>1, <2>2, <1>10 DEF UnlinkEndsAccess, Typed
<1>15. CutsKnown' /\ CliInOrder'
  <2>1. CutsKnown'
    BY <1>0, <1>1, <1>3 DEF IInv, CutsKnown, Typed
  <2> QED
    BY <2>1 DEF IInv, CliInOrder
<1> QED
  BY <1>1, <1>7, <1>9, <1>10, <1>11, <1>12, <1>13, <1>14, <1>15 DEF IInv

LEMMA RenameKeeps ==
  ASSUME IInv, NEW n \in Names, NEW m \in Names, Rename(n, m)
  PROVE  IInv'
<1> USE DEF Rename
<1>0. Typed /\ n # m /\ users[m] = None /\ ident[m] = None
  BY DEF IInv, LinksSound, Exists
<1>1. /\ users' \in [Names -> Users] /\ ident' \in [Names -> Links]
      /\ users'[m] = users[n] /\ users'[n] = None /\ ident'[m] = ident[n] /\ ident'[n] = None
      /\ \A k \in Names \ {n, m} : users'[k] = users[k] /\ ident'[k] = ident[k]
  BY <1>0 DEF Typed, Users, Links
<1>2. \A k \in Names : Unopened(k)' => k \notin {n, m} /\ Unopened(k)
  BY <1>1 DEF Unopened, Exists
<1>3. /\ cut' \subseteq Names /\ ghosts' \subseteq Names /\ orphaned' \subseteq Names
      /\ signed' \subseteq Names /\ n \notin cut'
      /\ \A k \in Names \ {n, m} :
           /\ (k \in cut' <=> k \in cut) /\ (k \in ghosts' <=> k \in ghosts)
           /\ (k \in orphaned' <=> k \in orphaned) /\ (k \in signed' <=> k \in signed)
  <2>1. cut' = (IF n \in cut THEN (cut \ {n}) \cup {m} ELSE cut)
    OBVIOUS
  <2>2. ghosts' = (IF n \in ghosts THEN (ghosts \ {n}) \cup {m} ELSE ghosts)
    OBVIOUS
  <2>3. orphaned' = (IF n \in orphaned THEN (orphaned \ {n}) \cup {m} ELSE orphaned)
    OBVIOUS
  <2>4. signed' = (signed \ {n}) \cup {m}
    OBVIOUS
  <2> QED
    BY <1>0, <2>1, <2>2, <2>3, <2>4 DEF Typed
<1>4. VersionsApart'
  BY <1>0, <1>1 DEF IInv, VersionsApart, Exists
<1>5. LinksSound'
  <2>1. \A k \in Names : ident'[k] # None => Exists(k)'
    BY <1>1 DEF IInv, LinksSound, Exists
  <2>2. ASSUME NEW k \in Names, NEW l \in Names, NEW z \in Subjects,
               ident'[k] = Claimed(z), ident'[l] = Claimed(z)
        PROVE  k = l
    <3>1. k # n /\ l # n
      BY <1>1, <2>2 DEF None, Claimed
    <3> QED
      BY <1>0, <1>1, <2>2, <3>1 DEF IInv, LinksSound, None, Claimed
  <2> QED
    BY <2>1, <2>2 DEF LinksSound, Claimed
<1>6. CredsKept({n, m}) /\ LinksKept({n, m})
  BY <1>1 DEF CredsKept, LinksKept, Creds, Exists
<1>7. SealedFree
  <2>1. \A k \in Names : Sealed(k)' => Sealed(k)
    BY <1>2, <1>3 DEF Sealed
  <2> QED
    BY <2>1, SealedAway DEF SealedFree
<1>8. /\ threads' = Missed({n, m}, {n, m})
      /\ cache' = [k \in Names |-> IF k \in {n, m} /\ cache[k] # None
                                   THEN [cache[k] EXCEPT !.excused = TRUE] ELSE cache[k]]
  BY DEF Unheard
<1>9. cache' \in [Names -> Entries] /\ CacheFresh'
  BY <1>6, <1>8, CachePasses
<1>10. threads' \in [Threads -> Places]
  BY <1>0, <1>8, MissedTyped
<1>11. /\ ThreadsInOrder' /\ OwnersApart'
       /\ \A k \in Names : BusyWith(k) => BusyWith(k)'
  BY <1>6, <1>7, <1>8, AllPass
<1>12. Typed'
  <2>1. asked' \in [changes : Nat, signins : Nat, cli : Nat]
    BY <1>0 DEF Typed
  <2> QED
    BY <1>0, <1>1, <1>3, <1>9, <1>10, <2>1 DEF Typed
<1>13. AdminRemains'
  <2>1. ASSUME NEW k \in Admins
        PROVE  Admins' # {}
    <3>1. CASE k = n
      <4>1. m \in Admins'
        BY <1>1, <2>1, <3>1 DEF Admins
      <4> QED
        BY <4>1
    <3>2. CASE k # n
      <4>1. k \in Admins'
        BY <1>0, <1>1, <2>1, <3>2 DEF Admins
      <4> QED
        BY <4>1
    <3> QED
      BY <3>1, <3>2
  <2> QED
    BY <2>1 DEF IInv, AdminRemains
<1>14. NothingEmptyStays'
  BY <1>2, <1>3, <1>11 DEF IInv, NothingEmptyStays
<1>15. UnlinkEndsAccess' /\ CutsKnown' /\ CliInOrder'
  <2>1. UnlinkEndsAccess'
    BY <1>2, <1>3 DEF IInv, UnlinkEndsAccess
  <2>2. CutsKnown'
    <3>1. ASSUME NEW k \in cut'
          PROVE  Exists(k)' \/ k \in ghosts'
      <4>1. CASE k = m
        BY <1>1, <4>1 DEF Exists
      <4>2. CASE k # m
        BY <1>1, <1>3, <3>1, <4>2 DEF IInv, CutsKnown, Exists
      <4> QED
        BY <4>1, <4>2
    <3> QED
      BY <3>1 DEF CutsKnown
  <2>3. CliInOrder'
    BY DEF IInv, CliInOrder
  <2> QED
    BY <2>1, <2>2, <2>3
<1> QED
  BY <1>4, <1>5, <1>9, <1>11, <1>12, <1>13, <1>14, <1>15 DEF IInv

-----------------------------------------------------------------------------
(* The commands keep it.                                                    *)

\* What a change that nobody hears of does to the cache and the threads.
LEMMA UnheardPasses ==
  ASSUME IInv, NEW S, Unheard(S), CredsKept(S), LinksKept(S), SealedFree
  PROVE  /\ cache' \in [Names -> Entries] /\ CacheFresh'
         /\ threads' \in [Threads -> Places]
         /\ ThreadsInOrder' /\ OwnersApart'
         /\ \A n \in Names : BusyWith(n) => BusyWith(n)'
<1>1. /\ threads' = Missed(S, S)
      /\ cache' = [n \in Names |-> IF n \in S /\ cache[n] # None
                                   THEN [cache[n] EXCEPT !.excused = TRUE] ELSE cache[n]]
  BY DEF Unheard
<1>2. cache' \in [Names -> Entries] /\ CacheFresh'
  BY <1>1, CachePasses
<1>3. threads' \in [Threads -> Places]
  BY <1>1, MissedTyped DEF IInv
<1>4. /\ ThreadsInOrder' /\ OwnersApart'
      /\ \A n \in Names : BusyWith(n) => BusyWith(n)'
  BY <1>1, AllPass
<1> QED
  BY <1>2, <1>3, <1>4

\* A new account, or a new password, behind the back of the cache and the threads.
LEMMA AddUserKeeps ==
  ASSUME IInv, NEW n \in Names, NEW role \in Roles, AddUser(n, role),
         asked' \in [changes : Nat, signins : Nat, cli : Nat]
  PROVE  IInv'
<1> USE DEF AddUser
<1> DEFINE u == User(IF Exists(n) THEN users[n].role ELSE role, newest + 1, TRUE)
<1>0. Typed
  BY DEF IInv
<1>1. users' \in [Names -> Users] /\ newest' \in Versions /\ VersionsApart'
  <2>1. (IF Exists(n) THEN users[n].role ELSE role) \in Roles
    BY <1>0 DEF Typed, Users, Exists, Roles
  <2>2. u \in Users /\ u.is = "user" /\ u.version = newest + 1
    BY <1>0, <2>1 DEF Users, User, Typed, Versions
  <2>3. users' = [users EXCEPT ![n] = u] /\ newest' = newest + 1
    OBVIOUS
  <2> HIDE DEF u
  <2> QED
    BY <2>2, <2>3, FreshVersion
<1>2. /\ users'[n] = u /\ \A m \in Names \ {n} : users'[m] = users[m]
      /\ \A m \in Names : Exists(m) => Exists(m)'
      /\ \A m \in Names : Unopened(m)' => m # n /\ Unopened(m)
      /\ Admins \subseteq Admins'
  <2>1. users'[n] = u /\ \A m \in Names \ {n} : users'[m] = users[m]
    BY <1>0 DEF Typed
  <2>2. \A m \in Names : Exists(m) => Exists(m)'
    BY <2>1 DEF Exists, User, None
  <2>3. \A m \in Names : Unopened(m)' => m # n /\ Unopened(m)
    BY <2>1 DEF Unopened, Exists, User
  <2>4. Admins \subseteq Admins'
    BY <2>1 DEF Admins, Exists, User, None
  <2> QED
    BY <2>1, <2>2, <2>3, <2>4
<1>3. CredsKept({n}) /\ LinksKept({n}) /\ SealedFree
  <2>1. \A m \in Names : Sealed(m)' => Sealed(m)
    BY <1>2 DEF Sealed
  <2>2. SealedFree
    BY <2>1, SealedAway DEF SealedFree
  <2>3. CredsKept({n}) /\ LinksKept({n})
    BY <1>2 DEF CredsKept, LinksKept, Creds
  <2> QED
    BY <2>2, <2>3
<1>4. /\ cache' \in [Names -> Entries] /\ CacheFresh'
      /\ threads' \in [Threads -> Places]
      /\ ThreadsInOrder' /\ OwnersApart'
      /\ \A m \in Names : BusyWith(m) => BusyWith(m)'
  BY <1>3, UnheardPasses
<1>5. LinksSound'
  BY <1>2 DEF IInv, LinksSound
<1>6. Typed'
  <2>1. signed' \subseteq Names
    BY <1>0 DEF Typed
  <2> QED
    BY <1>0, <1>1, <1>4, <2>1 DEF Typed
<1>7. AdminRemains'
  BY <1>2 DEF IInv, AdminRemains
<1>8. NothingEmptyStays'
  BY <1>2, <1>4 DEF IInv, NothingEmptyStays
<1>9. UnlinkEndsAccess'
  BY <1>0, <1>2 DEF IInv, UnlinkEndsAccess, Typed
<1>10. CutsKnown' /\ CliInOrder'
  BY <1>0, <1>2 DEF IInv, CutsKnown, CliInOrder, Typed
<1> QED
  BY <1>1, <1>4, <1>5, <1>6, <1>7, <1>8, <1>9, <1>10 DEF IInv

LEMMA CliAddKeeps ==
  ASSUME IInv, NEW n \in Names, CliAdd(n)
  PROVE  IInv'
<1>1. asked' \in [changes : Nat, signins : Nat, cli : Nat]
  BY DEF CliAdd, IInv, Typed
<1> QED
  BY <1>1, AddUserKeeps DEF CliAdd, Roles

LEMMA CreateUserKeeps ==
  ASSUME IInv, NEW n \in Names, NEW role \in Roles, CreateUser(n, role)
  PROVE  IInv'
<1>1. asked' \in [changes : Nat, signins : Nat, cli : Nat]
  BY DEF CreateUser, IInv, Typed
<1> QED
  BY <1>1, AddUserKeeps DEF CreateUser

LEMMA CliActsKeeps ==
  ASSUME IInv, CliActs
  PROVE  IInv'
<1> DEFINE n == cli.name
<1>0. /\ Typed /\ n \in Names /\ cli.role \in Roles \cup {"none"} /\ cli # None
      /\ cli.role = "admin" \/ Survives(n, cli.seen)
      /\ cli' = None /\ Unheard({n}) /\ newest' = newest /\ asked' = asked
      /\ overlap' = (overlap \/ cli.seen # Admins)
  BY DEF IInv, Typed, Commands, CliActs, CliInOrder
<1> HIDE DEF n
<1>1. CASE cli.role = "none"
  <2>0. Delete(n)
    BY <1>1 DEF CliActs, n
  <2>00. PICK k : k = n
    OBVIOUS
  <2>1. /\ users' \in [Names -> Users] /\ ident' \in [Names -> Links]
        /\ signed' \subseteq Names /\ cut' \subseteq Names /\ ghosts' \subseteq Names
        /\ orphaned' \subseteq Names
        /\ \A m \in Names : Unopened(m)' => m # k /\ Unopened(m)
        /\ VersionsApart' /\ LinksSound' /\ UnlinkEndsAccess' /\ CutsKnown'
        /\ CredsKept({k}) /\ LinksKept({k}) /\ SealedFree
        /\ Admins' = Admins \ {k}
    BY <1>0, <2>0, <2>00, DeleteLeaves
  <2>2. /\ cache' \in [Names -> Entries] /\ CacheFresh'
        /\ threads' \in [Threads -> Places]
        /\ ThreadsInOrder' /\ OwnersApart'
        /\ \A m \in Names : BusyWith(m) => BusyWith(m)'
    BY <1>0, <2>1, <2>00, UnheardPasses
  <2>3. Typed'
    BY <1>0, <2>1, <2>2 DEF Typed, Commands
  <2>4. AdminRemains'
    BY <1>0, <1>1, <2>1, <2>00 DEF IInv, AdminRemains, Survives
  <2>5. NothingEmptyStays'
    BY <2>0, <2>1, <2>2, <2>00 DEF IInv, NothingEmptyStays, Delete
  <2>6. CliInOrder'
    BY <1>0 DEF CliInOrder
  <2> QED
    BY <2>1, <2>2, <2>3, <2>4, <2>5, <2>6 DEF IInv
<1>2. CASE cli.role # "none"
  <2>00. PICK k, role : k = n /\ role = cli.role
    OBVIOUS
  <2>0. /\ users' = IF Exists(k) THEN [users EXCEPT ![k].role = role] ELSE users
        /\ UNCHANGED <<ident, signed, cut, ghosts, orphaned>>
        /\ k \in Names /\ role \in Roles
    BY <1>0, <1>2, <2>00 DEF CliActs, n
  <2>1. /\ users' \in [Names -> Users]
        /\ \A m \in Names : Exists(m)' = Exists(m) /\ Unopened(m)' = Unopened(m)
        /\ \A m \in Names : users'[m].version = users[m].version
        /\ \A m \in Names \ {k} : users'[m] = users[m]
        /\ Exists(k) => users'[k].role = role
        /\ ~Exists(k) => users' = users
    <3>1. CASE Exists(k)
      <4>1. users[k] \in Users /\ users[k].is = "user"
        BY <1>0, <2>0, <3>1 DEF Typed, Users, Exists, None
      <4>2. [users[k] EXCEPT !.role = role] \in Users
        BY <2>0, <4>1 DEF Users, None
      <4> QED
        BY <1>0, <2>0, <3>1, <4>1, <4>2 DEF Typed, Exists, Unopened, Users, None
    <3>2. CASE ~Exists(k)
      BY <1>0, <2>0, <3>2 DEF Typed, Exists, Unopened
    <3> QED
      BY <3>1, <3>2
  <2>2. CredsKept({k}) /\ LinksKept({k}) /\ SealedFree
    <3>1. \A m \in Names : Sealed(m)' => Sealed(m)
      BY <2>0, <2>1 DEF Sealed
    <3>2. SealedFree
      BY <3>1, SealedAway DEF SealedFree
    <3> QED
      BY <2>0, <2>1, <3>2 DEF CredsKept, LinksKept, Creds
  <2>3. /\ cache' \in [Names -> Entries] /\ CacheFresh'
        /\ threads' \in [Threads -> Places]
        /\ ThreadsInOrder' /\ OwnersApart'
        /\ \A m \in Names : BusyWith(m) => BusyWith(m)'
    BY <1>0, <2>2, <2>00, UnheardPasses
  <2>4. VersionsApart' /\ LinksSound'
    BY <1>0, <2>0, <2>1 DEF IInv, VersionsApart, LinksSound, Exists
  <2>5. Typed'
    BY <1>0, <2>0, <2>1, <2>3 DEF Typed, Commands
  <2>6. AdminRemains'
    <3>1. Admins \ {k} \subseteq Admins'
      BY <2>0, <2>1 DEF Admins, Exists
    <3>2. role = "admin" /\ k \in Admins => k \in Admins'
      BY <2>0, <2>1 DEF Admins, Exists
    <3> QED
      BY <1>0, <2>00, <3>1, <3>2 DEF IInv, AdminRemains, Survives
  <2>7. NothingEmptyStays'
    BY <2>0, <2>1, <2>3 DEF IInv, NothingEmptyStays
  <2>8. UnlinkEndsAccess' /\ CutsKnown'
    BY <1>0, <2>0, <2>1 DEF IInv, UnlinkEndsAccess, CutsKnown, Typed
  <2>9. CliInOrder'
    BY <1>0 DEF CliInOrder
  <2> QED
    BY <2>3, <2>4, <2>5, <2>6, <2>7, <2>8, <2>9 DEF IInv
<1> QED
  BY <1>1, <1>2

\* A step that changes the tables, the threads and the notes in nothing.
LEMMA TablesStay ==
  ASSUME IInv, UNCHANGED <<tables, threads, newest, notes>>
  PROVE  /\ VersionsApart' /\ LinksSound' /\ AdminRemains' /\ ThreadsInOrder' /\ OwnersApart'
         /\ NothingEmptyStays' /\ UnlinkEndsAccess' /\ CutsKnown'
<1> USE DEF tables, notes
<1>1. VersionsApart' /\ LinksSound' /\ AdminRemains'
  BY DEF IInv, VersionsApart, LinksSound, AdminRemains, Admins, Exists
<1>2. ThreadsInOrder' /\ OwnersApart'
  BY DEF IInv, ThreadsInOrder, OwnersApart, InOrder, Owns, Survives, Sealed, Unopened, Exists,
         Creds
<1>3. NothingEmptyStays' /\ UnlinkEndsAccess' /\ CutsKnown'
  BY DEF IInv, NothingEmptyStays, UnlinkEndsAccess, CutsKnown, BusyWith, Unopened, Exists
<1> QED
  BY <1>1, <1>2, <1>3

LEMMA CliCountsKeeps ==
  ASSUME IInv, NEW n \in Names, NEW role \in Roles \cup {"none"}, CliCounts(n, role)
  PROVE  IInv'
<1> USE DEF CliCounts, tables, notes
<1>1. Survives(n, Admins) \/ role = "admin"
  BY OneSurvives DEF LeavesAdmin
<1>2. CliInOrder'
  BY <1>1 DEF CliInOrder
<1>3. CacheFresh'
  BY DEF IInv, CacheFresh, Exists, Creds
<1>4. Typed'
  <2>1. asked' \in [changes : Nat, signins : Nat, cli : Nat] /\ Admins \subseteq Names
    BY DEF IInv, Typed, Admins
  <2> QED
    BY <2>1 DEF IInv, Typed, Commands
<1> QED
  BY <1>2, <1>3, <1>4, TablesStay DEF IInv

\* An entry that a request makes is fresh.
LEMMA EntryFits ==
  ASSUME IInv, NEW n \in Names, cache' = [cache EXCEPT ![n] = Entry(n)], UNCHANGED tables
  PROVE  cache' \in [Names -> Entries] /\ CacheFresh'
<1>1. /\ Entry(n) \in Entries
      /\ Entry(n) # None => /\ Entry(n).off <= Entry(n).age
                            /\ Entry(n).excused \/ (Exists(n) /\ Entry(n).creds = Creds(n))
  <2>1. CASE cache[n] # None
    BY <2>1 DEF Entry, IInv, Typed, CacheFresh
  <2>2. CASE cache[n] = None /\ ~Exists(n)
    BY <2>2 DEF Entry, Entries
  <2>3. CASE cache[n] = None /\ Exists(n)
    <3>1. Creds(n) \in Credentials
      BY <2>3 DEF IInv, Typed, Users, Exists, Creds, Credentials
    <3>2. 0 \in 0..(TTL - 1) /\ 0 \in Nat /\ FALSE \in BOOLEAN
      BY AccountsAssumption
    <3> QED
      BY <2>3, <3>1, <3>2 DEF Entry, Entries
  <2> QED
    BY <2>1, <2>2, <2>3
<1>2. cache'[n] = Entry(n) /\ \A m \in Names \ {n} : cache'[m] = cache[m]
  BY DEF IInv, Typed
<1>3. \A m \in Names : Exists(m)' = Exists(m) /\ Creds(m)' = Creds(m)
  BY DEF Exists, Creds, tables
<1> QED
  BY <1>1, <1>2, <1>3 DEF IInv, Typed, CacheFresh

LEMMA RequestKeeps ==
  ASSUME IInv, NEW n \in Names, Request(n)
  PROVE  IInv'
<1> USE DEF Request
<1>1. cache' \in [Names -> Entries] /\ CacheFresh'
  BY EntryFits
<1>2. Typed' /\ CliInOrder'
  BY <1>1 DEF IInv, Typed, CliInOrder, tables, notes
<1> QED
  BY <1>1, <1>2, TablesStay DEF IInv

-----------------------------------------------------------------------------
(* The steps of the threads keep it.                                        *)

\* A thread moves on, and nothing that the others have in hand is changed.
LEMMA Moves ==
  ASSUME IInv, NEW t \in Threads, NEW x \in Places, threads' = [threads EXCEPT ![t] = x],
         UNCHANGED <<tables, newest, cli, cut, ghosts, overlap>>,
         InOrder(x), Owns(x) => Owns(threads[t]) /\ x.name = threads[t].name,
         asked' \in [changes : Nat, signins : Nat, cli : Nat],
         cache' \in [Names -> Entries], CacheFresh',
         signed' \subseteq Names, \A n \in signed' \ signed : ~Sealed(n),
         orphaned \subseteq orphaned', orphaned' \subseteq Names,
         threads[t].at \in {"link", "undo", "remove"} =>
           \/ x.at \in {"link", "undo", "remove"} /\ x.name = threads[t].name
           \/ ~Unopened(threads[t].name) \/ threads[t].name \in orphaned'
  PROVE  IInv'
<1> USE DEF tables
<1>0. Typed
  BY DEF IInv
<1>1. PICK C : C = {}
  OBVIOUS
<1>2. threads'[t] = x /\ \A u \in Threads : u # t => threads'[u] = threads[u]
  BY <1>0 DEF Typed
<1>3. \A n \in Names : /\ Exists(n)' = Exists(n) /\ Unopened(n)' = Unopened(n)
                       /\ Sealed(n)' = Sealed(n)
  BY DEF Exists, Unopened, Sealed
<1>4. CredsKept(C) /\ LinksKept(C) /\ SealedFree
  <2>1. SealedFree
    BY <1>3, SealedAway DEF SealedFree
  <2> QED
    BY <1>3, <2>1 DEF CredsKept, LinksKept, Creds
<1>5. \A u \in Threads \ {t} : threads'[u] = Missed(C, C)[u]
  BY <1>1, <1>2, NothingMissed
<1>6. InOrder(threads[t])'
  BY <1>2 DEF InOrder, Owns, Survives, Sealed, Unopened, Exists, Creds
<1>7. \A v \in Threads :
        v # t /\ Owns(threads'[t]) /\ Owns(threads'[v]) => threads'[t].name # threads'[v].name
  BY <1>2 DEF IInv, OwnersApart, Owns
<1>9. /\ ThreadsInOrder' /\ OwnersApart'
      /\ \A n \in Names : BusyWith(n) =>
           BusyWith(n)' \/ (threads[t].at \in {"link", "undo", "remove"} /\ threads[t].name = n)
  BY <1>4, <1>5, <1>6, <1>7, AllButOnePass
<1>10. ASSUME NEW n \in Names, Unopened(n), BusyWith(n)
       PROVE  BusyWith(n)' \/ n \in orphaned'
  <2>1. CASE threads[t].at \in {"link", "undo", "remove"} /\ threads[t].name = n
    BY <1>2, <1>10, <2>1 DEF BusyWith
  <2>2. CASE ~(threads[t].at \in {"link", "undo", "remove"} /\ threads[t].name = n)
    BY <1>9, <1>10, <2>2
  <2> QED
    BY <2>1, <2>2
<1>11. NothingEmptyStays'
  BY <1>3, <1>10 DEF IInv, NothingEmptyStays
<1>12. UnlinkEndsAccess'
  BY <1>0, <1>3 DEF IInv, UnlinkEndsAccess, Typed, Sealed
<1>13. CutsKnown' /\ CliInOrder' /\ VersionsApart' /\ LinksSound' /\ AdminRemains'
  BY <1>0 DEF IInv, CutsKnown, CliInOrder, VersionsApart, LinksSound, AdminRemains, Admins,
              Exists, Typed
<1>14. Typed'
  BY <1>0 DEF Typed
<1> QED
  BY <1>9, <1>11, <1>12, <1>13, <1>14 DEF IInv

\* The same of a step that touches neither the cache nor the notes.
LEMMA QuietMoves ==
  ASSUME IInv, NEW t \in Threads, NEW x \in Places, threads' = [threads EXCEPT ![t] = x],
         UNCHANGED <<tables, cache, cli, newest, notes>>,
         asked' \in [changes : Nat, signins : Nat, cli : Nat],
         InOrder(x), Owns(x) => Owns(threads[t]) /\ x.name = threads[t].name,
         threads[t].at \in {"link", "undo", "remove"} =>
           \/ x.at \in {"link", "undo", "remove"} /\ x.name = threads[t].name
           \/ ~Unopened(threads[t].name)
  PROVE  IInv'
<1>1. cache' \in [Names -> Entries] /\ CacheFresh'
  BY DEF IInv, Typed, CacheFresh, Exists, Creds, tables
<1>2. signed' = signed /\ orphaned' = orphaned /\ signed \subseteq Names /\ orphaned \subseteq Names
  BY DEF IInv, Typed, notes
<1>3. UNCHANGED <<tables, newest, cli, cut, ghosts, overlap>>
  BY DEF notes
<1> QED
  BY <1>1, <1>2, <1>3, Moves

LEMMA IdleFits ==
  ASSUME NEW r, r = Idle
  PROVE  r \in Places /\ InOrder(r) /\ ~Owns(r) /\ r.at = "idle"
  BY DEF Idle, Places, InOrder, Owns

\* A sign-in that looks for its account has nothing in hand.
LEMMA SeekFits ==
  ASSUME NEW at \in {"look", "claim", "create", "again"}, NEW s \in Subjects, NEW k \in 1..2,
         NEW r, r = [at |-> at, sub |-> s, tries |-> k]
  PROVE  r \in Places /\ InOrder(r) /\ ~Owns(r)
  BY DEF Places, Seeking, InOrder, Owns

\* A sign-in that has found the account of its subject.
LEMMA FoundMoves ==
  ASSUME IInv, NEW t \in Threads, NEW n \in Names, ident[n] = Claimed(threads[t].sub),
         Holds(t, "found", n), UNCHANGED <<tables, cache, cli, newest, asked, notes>>,
         threads[t] \in Seeking
  PROVE  IInv'
<1>1. PICK x : x = With(threads[t], "found", n)
  OBVIOUS
<1>2. x \in Places /\ x.at = "found" /\ x.name = n /\ x.sub = threads[t].sub
  BY <1>1 DEF With, Places, Holding, Seeking
<1>3. InOrder(x) /\ ~Owns(x)
  <2>1. ~Sealed(n)
    BY DEF Sealed, Unopened, Claimed, None
  <2> QED
    BY <1>2, <2>1 DEF InOrder, Owns
<1>4. threads' = [threads EXCEPT ![t] = x]
  BY <1>1 DEF Holds
<1>5. threads[t].at \notin {"link", "undo", "remove"}
  BY DEF Seeking
<1>6. asked' \in [changes : Nat, signins : Nat, cli : Nat]
  BY DEF IInv, Typed
<1> QED
  BY <1>2, <1>3, <1>4, <1>5, <1>6, QuietMoves

\* A sign-in that takes an account to update or to add.
LEMMA HoldMoves ==
  ASSUME IInv, NEW t \in Threads, NEW n \in Names, NEW at \in {"update", "add"},
         Holds(t, at, n), UNCHANGED <<tables, cache, cli, newest, asked, notes>>,
         threads[t] \in Seeking
  PROVE  IInv'
<1>1. PICK x : x = With(threads[t], at, n)
  OBVIOUS
<1>2. x \in Places /\ x.at = at
  BY <1>1 DEF With, Places, Holding, Seeking
<1>3. InOrder(x) /\ ~Owns(x)
  BY <1>2 DEF InOrder, Owns
<1>4. threads' = [threads EXCEPT ![t] = x]
  BY <1>1 DEF Holds
<1>5. threads[t].at \notin {"link", "undo", "remove"}
  BY DEF Seeking
<1>6. asked' \in [changes : Nat, signins : Nat, cli : Nat]
  BY DEF IInv, Typed
<1> QED
  BY <1>2, <1>3, <1>4, <1>5, <1>6, QuietMoves

\* A sign-in that goes on looking.
LEMMA SeekMoves ==
  ASSUME IInv, NEW t \in Threads, NEW at \in {"claim", "create"}, Goes(t, at),
         UNCHANGED <<tables, cache, cli, newest, asked, notes>>,
         threads[t] \in Seeking
  PROVE  IInv'
<1>1. PICK r : r = threads[t]
  OBVIOUS
<1> DEFINE x == [at |-> at, sub |-> r.sub, tries |-> r.tries]
<1>2. r.sub \in Subjects /\ r.tries \in 1..2 /\ [r EXCEPT !.at = at] = x
  BY <1>1 DEF Seeking
<1>3. threads' = [threads EXCEPT ![t] = x]
  BY <1>1, <1>2 DEF Goes, IInv, Typed
<1>4. x \in Places /\ InOrder(x) /\ ~Owns(x)
  BY <1>2, SeekFits
<1> HIDE DEF x
<1>5. threads[t].at \notin {"link", "undo", "remove"}
  BY DEF Seeking
<1>6. asked' \in [changes : Nat, signins : Nat, cli : Nat]
  BY DEF IInv, Typed
<1> QED
  BY <1>3, <1>4, <1>5, <1>6, QuietMoves

\* A thread that ends, having made nothing.
LEMMA EndMoves ==
  ASSUME IInv, NEW t \in Threads, Ends(t),
         UNCHANGED <<tables, cache, cli, newest, asked, notes>>,
         threads[t].at \notin {"link", "undo", "remove"}
  PROVE  IInv'
<1>1. asked' \in [changes : Nat, signins : Nat, cli : Nat]
  BY DEF IInv, Typed
<1> QED
  BY <1>1, QuietMoves, IdleFits DEF Ends

LEMMA LoginKeeps ==
  ASSUME IInv, NEW t \in Threads, NEW n \in Names, Login(t, n)
  PROVE  IInv'
<1> USE DEF Login, Begin
<1> DEFINE x == [at |-> "dated", name |-> n, age |-> 0]
<1>1. x \in Places
  <2>1. 0 \in 0..TTL
    BY AccountsAssumption
  <2> QED
    BY <2>1 DEF Places, Reading
<1>2. InOrder(x) /\ ~Owns(x)
  BY DEF InOrder, Owns, Sealed, Unopened
<1>3. asked' \in [changes : Nat, signins : Nat, cli : Nat] /\ threads[t].at = "idle"
  BY DEF IInv, Typed, Idle
<1> HIDE DEF x
<1> QED
  BY <1>1, <1>2, <1>3, QuietMoves DEF x

LEMMA SignInKeeps ==
  ASSUME IInv, NEW t \in Threads, NEW s \in Subjects, SignIn(t, s)
  PROVE  IInv'
<1> USE DEF SignIn, Begin
<1> DEFINE x == [at |-> "look", sub |-> s, tries |-> 2]
<1>1. x \in Places /\ InOrder(x) /\ ~Owns(x)
  BY SeekFits
<1>2. asked' \in [changes : Nat, signins : Nat, cli : Nat] /\ threads[t].at = "idle"
  BY DEF IInv, Typed, Idle
<1> HIDE DEF x
<1> QED
  BY <1>1, <1>2, QuietMoves DEF x

LEMMA LinkSelfKeeps ==
  ASSUME IInv, NEW t \in Threads, NEW n \in Names, NEW s \in Subjects, LinkSelf(t, n, s)
  PROVE  IInv'
<1> USE DEF LinkSelf, Begin
<1> DEFINE x == [at |-> "join", sub |-> s, name |-> n]
<1>1. x \in Places /\ InOrder(x) /\ ~Owns(x)
  BY DEF Places, Linking, InOrder, Owns
<1>2. asked' \in [changes : Nat, signins : Nat, cli : Nat] /\ threads[t].at = "idle"
  BY DEF IInv, Typed, Idle
<1> HIDE DEF x
<1> QED
  BY <1>1, <1>2, QuietMoves DEF x

\* What is signed with an entry of the cache, or with credentials, is not sealed
\* when the account is in hand.
LEMMA SignIs ==
  ASSUME IInv, NEW n \in Names, NEW version, Sign(n, version), ~Sealed(n)
  PROVE  signed' \subseteq Names /\ \A m \in signed' \ signed : ~Sealed(m)
  BY DEF Sign, IInv, Typed

LEMMA ReadKeeps ==
  ASSUME IInv, NEW t \in Threads, Read(t)
  PROVE  IInv'
<1> USE DEF Read, Ends
<1>0. Typed /\ threads[t] \in Places /\ threads[t].at = "dated" /\ InOrder(threads[t])
  BY DEF IInv, Typed, ThreadsInOrder
<1>1. PICK n, a : n = threads[t].name /\ a = threads[t].age
  OBVIOUS
<1>2. n \in Names /\ a \in 0..TTL /\ ~Sealed(n)
  BY <1>0, <1>1, PlaceHas DEF InOrder
<1>3. /\ UNCHANGED <<tables, newest, cli, cut, ghosts, overlap>>
      /\ asked' \in [changes : Nat, signins : Nat, cli : Nat]
      /\ cache' \in [Names -> Entries] /\ CacheFresh'
      /\ orphaned \subseteq orphaned' /\ orphaned' \subseteq Names
  BY DEF IInv, Typed, CacheFresh, Exists, Creds, tables
<1>4. CASE cache[n] = None /\ Exists(n)
  <2> DEFINE x == [at |-> "store", name |-> n, age |-> a, off |-> 0, creds |-> Creds(n),
                   excused |-> FALSE]
  <2>1. threads' = [threads EXCEPT ![t] = x] /\ signed' = signed
    BY <1>1, <1>4
  <2>2. Creds(n) \in Credentials
    BY <1>0, <1>2, <1>4 DEF Typed, Users, Exists, Creds, Credentials
  <2>3. x \in Places
    BY <1>2, <2>2 DEF Places, Reading
  <2>4. InOrder(x) /\ ~Owns(x)
    BY <1>2, <1>4 DEF InOrder, Owns
  <2>5. signed' \subseteq Names
    BY <1>0, <2>1 DEF Typed
  <2> HIDE DEF x
  <2> QED
    BY <1>0, <1>3, <2>1, <2>3, <2>4, <2>5, Moves
<1>5. CASE ~(cache[n] = None /\ Exists(n))
  <2>1. threads' = [threads EXCEPT ![t] = Idle]
    BY <1>1, <1>5
  <2>2. signed' \subseteq Names /\ \A m \in signed' \ signed : ~Sealed(m)
    <3>1. CASE cache[n] # None
      BY <1>1, <1>2, <3>1, SignIs
    <3>2. CASE cache[n] = None
      BY <1>0, <1>1, <1>5, <3>2 DEF Typed
    <3> QED
      BY <3>1, <3>2
  <2> QED
    BY <1>0, <1>3, <2>1, <2>2, Moves, IdleFits
<1> QED
  BY <1>4, <1>5

LEMMA StoreKeeps ==
  ASSUME IInv, NEW t \in Threads, Store(t)
  PROVE  IInv'
<1> USE DEF Store, Ends
<1>0. /\ Typed /\ threads[t] \in Places /\ threads[t].at = "store" /\ InOrder(threads[t])
      /\ threads[t] \in [at : {"store"}, name : Names, age : 0..TTL, off : Nat,
                         creds : Credentials, excused : BOOLEAN]
  BY PlaceHas DEF IInv, Typed, ThreadsInOrder
<1>1. PICK r : r = threads[t]
  OBVIOUS
<1>2. r.name \in Names /\ ~Sealed(r.name)
  BY <1>0, <1>1 DEF InOrder
<1>3. /\ UNCHANGED <<tables, newest, cli, cut, ghosts, overlap>>
      /\ asked' \in [changes : Nat, signins : Nat, cli : Nat]
      /\ orphaned \subseteq orphaned' /\ orphaned' \subseteq Names
      /\ threads' = [threads EXCEPT ![t] = Idle]
  BY DEF IInv, Typed
<1>4. cache' \in [Names -> Entries] /\ CacheFresh'
  <2> DEFINE e == IF r.age >= TTL THEN None
                  ELSE [is |-> "entry", creds |-> r.creds, age |-> r.age, off |-> r.off,
                        excused |-> r.excused]
  <2>1. cache' = [cache EXCEPT ![r.name] = e]
    BY <1>1 DEF Age
  <2>2. e \in Entries
    <3>1. r.age < TTL => r.age \in 0..(TTL - 1)
      BY <1>0, <1>1, AccountsAssumption
    <3> QED
      BY <1>0, <1>1, <3>1, AccountsAssumption DEF Entries
  <2>3. e # None => /\ e.off <= e.age
                    /\ e.excused \/ (Exists(r.name) /\ e.creds = Creds(r.name))
    BY <1>0, <1>1 DEF InOrder
  <2> HIDE DEF e
  <2>4. cache'[r.name] = e /\ \A m \in Names \ {r.name} : cache'[m] = cache[m]
    BY <1>0, <1>2, <2>1 DEF Typed
  <2>5. \A m \in Names : Exists(m)' = Exists(m) /\ Creds(m)' = Creds(m)
    BY <1>3 DEF Exists, Creds, tables
  <2> QED
    BY <1>0, <1>2, <2>1, <2>2, <2>3, <2>4, <2>5 DEF IInv, Typed, CacheFresh
<1>5. signed' \subseteq Names /\ \A m \in signed' \ signed : ~Sealed(m)
  BY <1>1, <1>2, SignIs
<1> QED
  BY <1>0, <1>3, <1>4, <1>5, Moves, IdleFits

LEMMA LookKeeps ==
  ASSUME IInv, NEW t \in Threads, Look(t)
  PROVE  IInv'
<1> USE DEF Look, Quiet
<1>1. threads[t].at = "look" /\ threads[t] \in Seeking
  BY PlaceHas DEF IInv, Typed
<1>2. UNCHANGED <<tables, cache, cli, newest, asked, notes>>
  OBVIOUS
<1>3. ASSUME NEW n \in Holder(threads[t].sub), Holds(t, "found", n)
      PROVE  IInv'
  BY <1>1, <1>2, <1>3, FoundMoves DEF Holder
<1>4. CASE Ends(t)
  BY <1>1, <1>2, <1>4, EndMoves
<1>5. CASE Goes(t, "claim") \/ Goes(t, "create")
  BY <1>1, <1>2, <1>5, SeekMoves
<1> QED
  BY <1>3, <1>4, <1>5

LEMMA ClaimKeeps ==
  ASSUME IInv, NEW t \in Threads, Claim(t)
  PROVE  IInv'
<1> USE DEF Claim, Quiet
<1>1. threads[t].at = "claim" /\ threads[t] \in Seeking
  BY PlaceHas DEF IInv, Typed
<1>2. UNCHANGED <<tables, cache, cli, newest, asked, notes>>
  OBVIOUS
<1>3. ASSUME NEW n \in PendingFor(threads[t].sub), Holds(t, "update", n)
      PROVE  IInv'
  BY <1>1, <1>2, <1>3, HoldMoves DEF PendingFor
<1>4. CASE Goes(t, "create")
  BY <1>1, <1>2, <1>4, SeekMoves
<1> QED
  BY <1>3, <1>4

LEMMA CreateKeeps ==
  ASSUME IInv, NEW t \in Threads, Create(t)
  PROVE  IInv'
<1> USE DEF Create, Quiet
<1>1. threads[t].at = "create" /\ threads[t] \in Seeking
  BY PlaceHas DEF IInv, Typed
<1>2. UNCHANGED <<tables, cache, cli, newest, asked, notes>>
  OBVIOUS
<1>3. ASSUME NEW n \in Names, Holds(t, "add", n)
      PROVE  IInv'
  BY <1>1, <1>2, <1>3, HoldMoves
<1>4. CASE Ends(t)
  BY <1>1, <1>2, <1>4, EndMoves
<1> QED
  BY <1>3, <1>4

LEMMA AgainKeeps ==
  ASSUME IInv, NEW t \in Threads, Again(t)
  PROVE  IInv'
<1> USE DEF Again, Quiet
<1>1. threads[t].at = "again" /\ threads[t] \in Seeking
  BY PlaceHas DEF IInv, Typed
<1>2. UNCHANGED <<tables, cache, cli, newest, asked, notes>>
  OBVIOUS
<1>3. ASSUME NEW n \in Holder(threads[t].sub), Holds(t, "found", n)
      PROVE  IInv'
  BY <1>1, <1>2, <1>3, FoundMoves DEF Holder
<1>4. CASE Ends(t)
  BY <1>1, <1>2, <1>4, EndMoves
<1> QED
  BY <1>3, <1>4

LEMMA JoinKeeps ==
  ASSUME IInv, NEW t \in Threads, Join(t)
  PROVE  IInv'
<1> USE DEF Join, Quiet
<1>1. threads[t].at = "join" /\ threads[t] \in Linking
  BY PlaceHas DEF IInv, Typed
<1>2. UNCHANGED <<tables, cache, cli, newest, asked, notes>>
  OBVIOUS
<1>3. CASE Ends(t)
  BY <1>1, <1>2, <1>3, EndMoves
<1>4. ASSUME NEW at \in {"bind", "drop"}, Goes(t, at)
      PROVE  IInv'
  <2>1. PICK x : x = [threads[t] EXCEPT !.at = at]
    OBVIOUS
  <2>2. x \in Places /\ x.at = at
    BY <1>1, <2>1 DEF Places, Linking
  <2>3. InOrder(x) /\ ~Owns(x)
    BY <2>2 DEF InOrder, Owns
  <2>4. threads' = [threads EXCEPT ![t] = x]
    BY <1>4, <2>1 DEF Goes, IInv, Typed
  <2>5. asked' \in [changes : Nat, signins : Nat, cli : Nat]
    BY DEF IInv, Typed
  <2> QED
    BY <1>1, <1>2, <2>2, <2>3, <2>4, <2>5, QuietMoves
<1> QED
  BY <1>3, <1>4

LEMMA CallbackKeeps ==
  ASSUME IInv, NEW t \in Threads, Callback(t)
  PROVE  IInv'
<1> USE DEF Callback, Ends
<1>0. /\ Typed /\ threads[t] \in Places /\ threads[t].at = "found" /\ InOrder(threads[t])
      /\ threads[t] \in Holding
  BY PlaceHas DEF IInv, Typed, ThreadsInOrder
<1>1. PICK n : n = threads[t].name
  OBVIOUS
<1>2. n \in Names /\ ~Sealed(n)
  BY <1>0, <1>1 DEF InOrder, Holding
<1>3. cache' \in [Names -> Entries] /\ CacheFresh'
  BY <1>1, <1>2, EntryFits
<1>4. signed' \subseteq Names /\ \A m \in signed' \ signed : ~Sealed(m)
  <2>1. CASE Entry(n) = None
    BY <1>0, <1>1, <2>1 DEF Typed
  <2>2. CASE Entry(n) # None
    BY <1>1, <1>2, <2>2, SignIs
  <2> QED
    BY <2>1, <2>2
<1>5. /\ UNCHANGED <<tables, newest, cli, cut, ghosts, overlap>>
      /\ asked' \in [changes : Nat, signins : Nat, cli : Nat]
      /\ orphaned \subseteq orphaned' /\ orphaned' \subseteq Names
      /\ threads' = [threads EXCEPT ![t] = Idle]
  BY <1>0 DEF Typed
<1> QED
  BY <1>0, <1>3, <1>4, <1>5, Moves, IdleFits

\* What a claim of a free subject by an account leaves.
LEMMA ClaimLeaves ==
  ASSUME IInv, NEW n \in Names, NEW s \in Subjects, Exists(n), TakenBy(s) = {},
         ident' = [ident EXCEPT ![n] = Claimed(s)],
         UNCHANGED <<users, newest, cli, signed, cut, ghosts, overlap>>
  PROVE  /\ ident' \in [Names -> Links] /\ ident'[n] = Claimed(s)
         /\ \A m \in Names \ {n} : ident'[m] = ident[m]
         /\ \A m \in Names : Unopened(m)' => m # n /\ Unopened(m)
         /\ VersionsApart' /\ LinksSound' /\ AdminRemains' /\ CliInOrder'
         /\ UnlinkEndsAccess' /\ CutsKnown'
         /\ CredsKept({}) /\ LinksKept({n}) /\ SealedFree
<1>0. Typed
  BY DEF IInv
<1>1. /\ ident' \in [Names -> Links] /\ ident'[n] = Claimed(s)
      /\ \A m \in Names \ {n} : ident'[m] = ident[m]
  BY <1>0 DEF Typed, Links, Claimed
<1>2. \A m \in Names : Exists(m)' = Exists(m)
  BY DEF Exists
<1>3. \A m \in Names : Unopened(m)' => m # n /\ Unopened(m)
  BY <1>1, <1>2 DEF Unopened, Claimed, None
<1>4. LinksSound'
  <2>1. \A m \in Names : ident'[m] # None => Exists(m)'
    BY <1>1, <1>2 DEF IInv, LinksSound
  <2>2. ASSUME NEW k \in Names, NEW m \in Names, NEW z \in Subjects, k # m,
               ident'[k] = Claimed(z), ident'[m] = Claimed(z)
        PROVE  FALSE
    <3>1. \A l \in Names : ident[l] # Claimed(s)
      BY DEF TakenBy, Holder
    <3>2. CASE k # n /\ m # n
      BY <1>1, <2>2, <3>2 DEF IInv, LinksSound
    <3>3. CASE k = n \/ m = n
      <4>1. z = s
        BY <1>1, <2>2, <3>3 DEF Claimed
      <4> QED
        BY <1>1, <2>2, <3>1, <3>3, <4>1
    <3> QED
      BY <3>2, <3>3
  <2> QED
    BY <2>1, <2>2 DEF LinksSound, Claimed
<1>5. VersionsApart' /\ AdminRemains' /\ CliInOrder' /\ CutsKnown'
  BY DEF IInv, VersionsApart, AdminRemains, Admins, CliInOrder, CutsKnown, Exists
<1>6. UnlinkEndsAccess'
  BY <1>0, <1>3 DEF IInv, UnlinkEndsAccess, Typed
<1>7. CredsKept({}) /\ LinksKept({n}) /\ SealedFree
  <2>1. \A m \in Names : Sealed(m)' => Sealed(m)
    BY <1>3 DEF Sealed
  <2>2. SealedFree
    BY <2>1, SealedAway DEF SealedFree
  <2> QED
    BY <1>1, <1>2, <2>2 DEF CredsKept, LinksKept, Creds
<1> QED
  BY <1>1, <1>3, <1>4, <1>5, <1>6, <1>7

LEMMA UpdateKeeps ==
  ASSUME IInv, NEW t \in Threads, Update(t)
  PROVE  IInv'
<1> USE DEF Update
<1>0. /\ Typed /\ threads[t].at = "update" /\ threads[t] \in Holding
  BY PlaceHas DEF IInv, Typed
<1>1. PICK r, n, s : r = threads[t] /\ n = r.name /\ s = r.sub
  OBVIOUS
<1>2. n \in Names /\ s \in Subjects /\ r.tries \in 1..2
  BY <1>0, <1>1 DEF Holding
<1>3. CASE ident[n].is = "pending" /\ TakenBy(s) = {}
  <2>1. PICK x : x = With(r, "found", n)
    OBVIOUS
  <2>2. /\ ident' = [ident EXCEPT ![n] = Claimed(s)]
        /\ threads' = [threads EXCEPT ![t] = x]
        /\ UNCHANGED <<users, cache, cli, newest, asked, notes>>
    BY <1>1, <1>3, <2>1 DEF Holds
  <2>3. Exists(n)
    BY <1>2, <1>3 DEF IInv, LinksSound, None
  <2>4. /\ ident' \in [Names -> Links] /\ ident'[n] = Claimed(s)
        /\ \A m \in Names \ {n} : ident'[m] = ident[m]
        /\ \A m \in Names : Unopened(m)' => m # n /\ Unopened(m)
        /\ VersionsApart' /\ LinksSound' /\ AdminRemains' /\ CliInOrder'
        /\ UnlinkEndsAccess' /\ CutsKnown'
        /\ CredsKept({}) /\ LinksKept({n}) /\ SealedFree
    BY <1>2, <1>3, <2>2, <2>3, ClaimLeaves DEF notes
  <2>5. LinksKept({})
    BY <1>2, <1>3, <2>4 DEF LinksKept, None
  <2>6. x \in Places /\ x.at = "found" /\ x.name = n /\ x.sub = s
    BY <1>0, <1>1, <2>1 DEF With, Places, Holding
  <2>7. threads'[t] = x /\ \A u \in Threads \ {t} : threads'[u] = Missed({}, {})[u]
    BY <1>0, <2>2, NothingMissed DEF Typed
  <2>8. ~Owns(threads'[t]) /\ InOrder(threads[t])'
    <3>1. ~Unopened(n)'
      BY <1>2, <2>4
    <3> QED
      BY <2>4, <2>6, <2>7, <3>1 DEF InOrder, Owns, Sealed, Claimed, Unopened, Exists, None
  <2>9. /\ ThreadsInOrder' /\ OwnersApart'
        /\ \A m \in Names : BusyWith(m) =>
             BusyWith(m)' \/ (threads[t].at \in {"link", "undo", "remove"} /\ threads[t].name = m)
    BY <2>4, <2>5, <2>7, <2>8, AllButOnePass
  <2>10. NothingEmptyStays'
    BY <1>0, <2>2, <2>4, <2>9 DEF IInv, NothingEmptyStays, notes
  <2>11. CacheFresh'
    BY <2>2 DEF IInv, CacheFresh, Exists, Creds
  <2>12. Typed'
    BY <1>0, <2>2, <2>4, <2>6 DEF Typed, notes
  <2> QED
    BY <2>4, <2>9, <2>10, <2>11, <2>12 DEF IInv
<1>4. CASE ~(ident[n].is = "pending" /\ TakenBy(s) = {})
  <2> DEFINE x == [at |-> "create", sub |-> s, tries |-> r.tries]
  <2>1. /\ threads' = [threads EXCEPT ![t] = x]
        /\ UNCHANGED <<tables, cache, cli, newest, asked, notes>>
    BY <1>1, <1>4 DEF Seeks, tables
  <2>2. x \in Places /\ InOrder(x) /\ ~Owns(x)
    BY <1>2, SeekFits
  <2>3. asked' \in [changes : Nat, signins : Nat, cli : Nat]
    BY <1>0, <2>1 DEF Typed
  <2> HIDE DEF x
  <2> QED
    BY <1>0, <2>1, <2>2, <2>3, QuietMoves
<1> QED
  BY <1>3, <1>4

LEMMA AddKeeps ==
  ASSUME IInv, NEW t \in Threads, Add(t)
  PROVE  IInv'
<1> USE DEF Add
<1>0. /\ Typed /\ threads[t].at = "add" /\ threads[t] \in Holding
  BY PlaceHas DEF IInv, Typed
<1>1. PICK r, n : r = threads[t] /\ n = r.name
  OBVIOUS
<1>2. n \in Names /\ r.sub \in Subjects /\ r.tries \in 1..2
  BY <1>0, <1>1 DEF Holding
<1>3. ASSUME ~Exists(n)
      PROVE  IInv'
  <2>1. PICK x : x = [r EXCEPT !.at = "link"]
    OBVIOUS
  <2>2. /\ users' = [users EXCEPT ![n] = Unusable(n, newest + 1)] /\ newest' = newest + 1
        /\ threads' = [threads EXCEPT ![t] = x]
        /\ UNCHANGED <<ident, cache, cli, asked, notes>>
    BY <1>0, <1>1, <1>3, <2>1 DEF Goes, Typed
  <2>3. x \in Places /\ x.at = "link" /\ x.name = n
    BY <1>0, <1>1, <2>1 DEF Places, Holding
  <2>4. users' \in [Names -> Users] /\ newest' \in Versions /\ VersionsApart'
    <3>1. PICK u : u = Unusable(n, newest + 1)
      OBVIOUS
    <3>2. u \in Users /\ u.is = "user" /\ u.version = newest + 1
      BY <1>0, <3>1, AccountsAssumption DEF Unusable, User, Users, Typed, Versions
    <3> QED
      BY <1>2, <2>2, <3>1, <3>2, FreshVersion
  <2>5. /\ \A m \in Names : Exists(m) => m # n /\ Exists(m)' /\ users'[m] = users[m]
        /\ Exists(n)'
        /\ \A m \in Names : Unopened(m)' => m = n \/ Unopened(m)
        /\ ident'[n] = None
    <3>1. /\ users'[n] = Unusable(n, newest + 1)
          /\ \A m \in Names \ {n} : users'[m] = users[m]
      BY <1>0, <1>2, <2>2 DEF Typed
    <3>2. \A m \in Names : Exists(m) => m # n /\ Exists(m)' /\ users'[m] = users[m]
      BY <1>3, <3>1 DEF Exists
    <3>3. Exists(n)'
      BY <3>1 DEF Exists, Unusable, User, None
    <3>4. \A m \in Names : Unopened(m)' => m = n \/ Unopened(m)
      BY <2>2, <3>1 DEF Unopened, Exists
    <3>5. ident'[n] = None
      BY <1>2, <1>3, <2>2 DEF IInv, LinksSound
    <3> QED
      BY <3>2, <3>3, <3>4, <3>5
  <2>6. \A m \in Names : Sealed(m)' => Sealed(m)
    BY <1>3, <2>2, <2>5 DEF Sealed, notes, IInv, CutsKnown
  <2>7. CredsKept({}) /\ LinksKept({}) /\ SealedFree
    <3>1. SealedFree
      BY <2>6, SealedAway DEF SealedFree
    <3> QED
      BY <2>2, <2>5, <3>1 DEF CredsKept, LinksKept, Creds
  <2>8. threads'[t] = x /\ \A u \in Threads \ {t} : threads'[u] = Missed({}, {})[u]
    BY <1>0, <2>2, NothingMissed DEF Typed
  <2>9. InOrder(threads[t])'
    BY <2>2, <2>3, <2>5, <2>8 DEF InOrder, Owns, Exists
  <2>10. ASSUME NEW v \in Threads, v # t, Owns(threads'[v])
         PROVE  threads'[t].name # threads'[v].name
    <3>1. threads'[v] = threads[v]
      BY <1>0, <2>2, <2>10 DEF Typed
    <3>2. Exists(threads[v].name)
      BY <2>10, <3>1 DEF IInv, ThreadsInOrder, InOrder
    <3> QED
      BY <1>3, <2>3, <2>8, <3>1, <3>2
  <2>11. /\ ThreadsInOrder' /\ OwnersApart'
         /\ \A m \in Names : BusyWith(m) =>
              BusyWith(m)' \/ (threads[t].at \in {"link", "undo", "remove"} /\ threads[t].name = m)
    BY <2>7, <2>8, <2>9, <2>10, AllButOnePass
  <2>12. NothingEmptyStays'
    <3>1. BusyWith(n)'
      BY <2>3, <2>8 DEF BusyWith
    <3> QED
      BY <1>0, <2>2, <2>5, <2>11, <3>1 DEF IInv, NothingEmptyStays, notes
  <2>13. LinksSound'
    BY <2>2, <2>5 DEF IInv, LinksSound
  <2>14. CacheFresh'
    BY <2>2, <2>5 DEF IInv, CacheFresh, Creds
  <2>15. Typed'
    BY <1>0, <2>2, <2>3, <2>4 DEF Typed, notes
  <2>16. AdminRemains'
    BY <2>2, <2>5 DEF IInv, AdminRemains, Admins, Exists, notes
  <2>17. UnlinkEndsAccess'
    BY <1>0, <2>2, <2>6 DEF IInv, UnlinkEndsAccess, Sealed, Typed, notes
  <2>18. CutsKnown' /\ CliInOrder'
    BY <1>0, <2>2, <2>5 DEF IInv, CutsKnown, CliInOrder, Typed, notes
  <2> QED
    BY <2>4, <2>11, <2>12, <2>13, <2>14, <2>15, <2>16, <2>17, <2>18 DEF IInv
<1>4. ASSUME Exists(n), r.tries > 1
      PROVE  IInv'
  <2> DEFINE x == [at |-> "create", sub |-> r.sub, tries |-> r.tries - 1]
  <2>1. CASE threads' = [threads EXCEPT ![t] = x] /\ UNCHANGED <<users, newest>>
    <3>1. UNCHANGED <<tables, cache, cli, newest, asked, notes>>
      BY <2>1 DEF tables
    <3>2. r.tries - 1 \in 1..2
      BY <1>2, <1>4
    <3>3. x \in Places /\ InOrder(x) /\ ~Owns(x)
      BY <1>2, <3>2, SeekFits
    <3>4. asked' \in [changes : Nat, signins : Nat, cli : Nat]
      BY <1>0 DEF Typed
    <3> HIDE DEF x
    <3> QED
      BY <1>0, <2>1, <3>1, <3>3, <3>4, QuietMoves
  <2> QED
    BY <1>1, <1>2, <1>4, <2>1
<1>5. ASSUME Exists(n), r.tries = 1
      PROVE  IInv'
  <2>1. Ends(t) /\ UNCHANGED <<tables, cache, cli, newest, asked, notes>>
    BY <1>1, <1>5 DEF tables
  <2> QED
    BY <1>0, <2>1, EndMoves
<1> QED
  BY <1>1, <1>2, <1>3, <1>4, <1>5

LEMMA LinkKeeps ==
  ASSUME IInv, NEW t \in Threads, Link(t)
  PROVE  IInv'
<1> USE DEF Link
<1>0. /\ Typed /\ threads[t].at = "link" /\ threads[t] \in Holding
  BY PlaceHas DEF IInv, Typed
<1>1. PICK r, n, s : r = threads[t] /\ n = r.name /\ s = r.sub
  OBVIOUS
<1>2. n \in Names /\ s \in Subjects /\ r.tries \in 1..2
  BY <1>0, <1>1 DEF Holding
<1>3. ASSUME CanLink(n, s)
      PROVE  IInv'
  <2>1. PICK x : x = With(r, "found", n)
    OBVIOUS
  <2>2. /\ ident' = [ident EXCEPT ![n] = Claimed(s)] /\ Forget({n})
        /\ threads' = [Missed({}, {n}) EXCEPT ![t] = x]
        /\ UNCHANGED <<users, cli, newest, asked, notes>>
    BY <1>1, <1>3, <2>1
  <2>3. /\ ident' \in [Names -> Links] /\ ident'[n] = Claimed(s)
        /\ \A m \in Names \ {n} : ident'[m] = ident[m]
        /\ \A m \in Names : Unopened(m)' => m # n /\ Unopened(m)
        /\ VersionsApart' /\ LinksSound' /\ AdminRemains' /\ CliInOrder'
        /\ UnlinkEndsAccess' /\ CutsKnown'
        /\ CredsKept({}) /\ LinksKept({n}) /\ SealedFree
    BY <1>2, <1>3, <2>2, ClaimLeaves DEF notes, CanLink
  <2>4. x \in Places /\ x.at = "found" /\ x.name = n /\ x.sub = s
    BY <1>0, <1>1, <2>1 DEF With, Places, Holding
  <2>5. /\ threads' \in [Threads -> Places]
        /\ threads'[t] = x /\ \A u \in Threads \ {t} : threads'[u] = Missed({}, {n})[u]
    <3>1. PICK f : f = Missed({}, {n})
      OBVIOUS
    <3>2. f \in [Threads -> Places]
      BY <1>0, <3>1, MissedTyped
    <3> QED
      BY <2>2, <2>4, <3>1, <3>2
  <2>6. ~Owns(threads'[t]) /\ InOrder(threads[t])'
    <3>1. ~Unopened(n)'
      BY <1>2, <2>3
    <3> QED
      BY <2>3, <2>4, <2>5, <3>1 DEF InOrder, Owns, Sealed, Claimed, Unopened, Exists, None
  <2>7. /\ ThreadsInOrder' /\ OwnersApart'
        /\ \A m \in Names : BusyWith(m) =>
             BusyWith(m)' \/ (threads[t].at \in {"link", "undo", "remove"} /\ threads[t].name = m)
    BY <2>3, <2>5, <2>6, AllButOnePass
  <2>8. NothingEmptyStays'
    BY <1>1, <2>2, <2>3, <2>7 DEF IInv, NothingEmptyStays, notes
  <2>9. cache' \in [Names -> Entries] /\ CacheFresh'
    BY <2>2, <2>3, CachePasses DEF Forget
  <2>10. Typed'
    BY <1>0, <2>2, <2>3, <2>5, <2>9 DEF Typed, notes
  <2> QED
    BY <2>3, <2>7, <2>8, <2>9, <2>10 DEF IInv
<1>4. ASSUME ~CanLink(n, s)
      PROVE  IInv'
  <2>1. PICK x : x = [r EXCEPT !.at = "undo"]
    OBVIOUS
  <2>2. /\ threads' = [threads EXCEPT ![t] = x]
        /\ UNCHANGED <<tables, cache, cli, newest, asked, notes>>
    BY <1>0, <1>1, <1>4, <2>1 DEF Goes, Typed, tables
  <2>3. x \in Places /\ x.at = "undo" /\ x.name = n /\ (Owns(x) => Owns(r))
    BY <1>0, <1>1, <2>1 DEF Places, Holding, Owns
  <2>4. InOrder(x)
    BY <1>1, <2>3 DEF InOrder, IInv, ThreadsInOrder
  <2>5. asked' \in [changes : Nat, signins : Nat, cli : Nat]
    BY <1>0, <2>2 DEF Typed
  <2> QED
    BY <1>1, <2>2, <2>3, <2>4, <2>5, QuietMoves
<1> QED
  BY <1>1, <1>3, <1>4

LEMMA UndoKeeps ==
  ASSUME IInv, NEW t \in Threads, Undo(t)
  PROVE  IInv'
<1> USE DEF Undo
<1>0. /\ Typed /\ threads[t].at = "undo" /\ threads[t] \in Holding /\ InOrder(threads[t])
  BY PlaceHas DEF IInv, Typed, ThreadsInOrder
<1>1. PICK r, n : r = threads[t] /\ n = r.name
  OBVIOUS
<1>2. n \in Names /\ r.sub \in Subjects /\ r.tries \in 1..2 /\ r.moved \in BOOLEAN
  BY <1>0, <1>1 DEF Holding
<1>3. /\ UNCHANGED <<tables, newest, cli, cut, ghosts, overlap>>
      /\ asked' \in [changes : Nat, signins : Nat, cli : Nat]
      /\ cache' \in [Names -> Entries] /\ CacheFresh'
      /\ signed' = signed /\ signed' \subseteq Names
  BY <1>0 DEF IInv, Typed, CacheFresh, Exists, Creds, tables
<1>4. ASSUME Exists(n), LeavesAdmin(n, "none")
      PROVE  IInv'
  <2> DEFINE x == [at |-> "remove", sub |-> r.sub, tries |-> r.tries, moved |-> r.moved,
                   name |-> n, seen |-> Admins]
  <2>1. threads' = [threads EXCEPT ![t] = x] /\ orphaned' = orphaned /\ orphaned' \subseteq Names
    BY <1>0, <1>1, <1>4 DEF Typed
  <2>2. Admins \subseteq Names
    BY DEF Admins
  <2>3. x \in Places /\ x.at = "remove" /\ x.name = n
    BY <1>2, <2>2 DEF Places, Removing
  <2>4. Survives(n, Admins)
    BY <1>2, <1>4, OneSurvives
  <2>5. Owns(x) => Owns(r)
    BY <1>0, <1>1 DEF Owns
  <2>6. InOrder(x)
    BY <1>0, <1>1, <2>4, <2>5 DEF InOrder, Owns
  <2> HIDE DEF x
  <2> QED
    BY <1>1, <1>3, <2>1, <2>3, <2>5, <2>6, Moves
<1>5. ASSUME ~Exists(n) \/ n \in orphaned', Seeks(t, "again"), orphaned \subseteq orphaned',
             orphaned' \subseteq Names
      PROVE  IInv'
  <2> DEFINE x == [at |-> "again", sub |-> r.sub, tries |-> r.tries]
  <2>1. threads' = [threads EXCEPT ![t] = x]
    BY <1>1, <1>5 DEF Seeks
  <2>2. x \in Places /\ InOrder(x) /\ ~Owns(x)
    BY <1>2, SeekFits
  <2>3. ~Unopened(n) \/ n \in orphaned'
    BY <1>5 DEF Unopened
  <2> HIDE DEF x
  <2> QED
    BY <1>1, <1>3, <1>5, <2>1, <2>2, <2>3, Moves
<1> QED
  <2>1. orphaned \subseteq Names
    BY <1>0 DEF Typed
  <2> QED
    BY <1>1, <1>2, <1>4, <1>5, <2>1

\* The account that a sign-in made, and removes untouched, is in nobody else's
\* hands: what the removal marks is what marking all of them would.
LEMMA AloneMissed ==
  ASSUME IInv, NEW t \in Threads, NEW n, Owns(threads[t]), threads[t].name = n,
         NEW u \in Threads \ {t}
  PROVE  Missed({n}, {})[u] = Missed({n}, {n})[u]
<1>1. threads[u] \in Places /\ InOrder(threads[u]) /\ InOrder(threads[t])
  BY DEF IInv, Typed, ThreadsInOrder
<1>2. PICK r : r = threads[u]
  OBVIOUS
<1>3. CASE r.at \in {"found", "link", "undo", "remove"} /\ r.name = n
  <2>1. r.moved
    <3>1. ident[n] = None
      BY <1>1 DEF InOrder
    <3>2. r.at = "found" /\ ~r.moved => ident[n] = Claimed(r.sub)
      BY <1>1, <1>2, <1>3 DEF InOrder
    <3>3. ~Owns(r)
      BY <1>2, <1>3 DEF IInv, OwnersApart
    <3> QED
      BY <1>3, <3>1, <3>2, <3>3 DEF Owns, None, Claimed
  <2>2. r.moved \in BOOLEAN
    BY <1>1, <1>2, <1>3, PlaceHas DEF Holding, Removing
  <2>3. r.moved = TRUE
    BY <2>1, <2>2
  <2>4. [r EXCEPT !.moved = TRUE] = r
    <3>1. CASE r.at = "remove"
      <4>1. r \in Removing
        BY <1>1, <1>2, <3>1, PlaceHas
      <4> QED
        BY <2>3, <4>1 DEF Removing
    <3>2. CASE r.at # "remove"
      <4>1. r \in Holding
        BY <1>1, <1>2, <1>3, <3>2, PlaceHas
      <4> QED
        BY <2>3, <4>1 DEF Holding
    <3> QED
      BY <3>1, <3>2
  <2> QED
    BY <1>2, <1>3, <2>4 DEF Missed
<1>4. CASE ~(r.at \in {"found", "link", "undo", "remove"} /\ r.name = n)
  BY <1>2, <1>4 DEF Missed
<1> QED
  BY <1>3, <1>4

LEMMA RemoveKeeps ==
  ASSUME IInv, NEW t \in Threads, Remove(t)
  PROVE  IInv'
<1> USE DEF Remove, Discard
<1>0. /\ Typed /\ threads[t].at = "remove" /\ threads[t] \in Removing /\ InOrder(threads[t])
  BY PlaceHas DEF IInv, Typed, ThreadsInOrder
<1>1. PICK r, n : r = threads[t] /\ n = r.name
  OBVIOUS
<1>2. PICK L : L = IF r.moved THEN {n} ELSE {}
  OBVIOUS
<1>3. PICK x : x = [at |-> "again", sub |-> r.sub, tries |-> r.tries]
  OBVIOUS
<1>4. /\ n \in Names /\ Survives(n, r.seen)
      /\ Delete(n) /\ UNCHANGED <<cli, newest, asked>>
      /\ threads' = [Missed({n}, L) EXCEPT ![t] = x]
      /\ cache' = [cache EXCEPT ![n] = IF @ = None THEN @ ELSE [@ EXCEPT !.excused = TRUE]]
      /\ overlap' = (overlap \/ r.seen # Admins)
  <2>1. n \in Names /\ Survives(n, r.seen)
    BY <1>0, <1>1 DEF Removing, InOrder
  <2>2. /\ Delete(n) /\ UNCHANGED <<cli, newest, asked>>
        /\ overlap' = (overlap \/ r.seen # Admins)
        /\ cache' = [cache EXCEPT ![n] = IF @ = None THEN @ ELSE [@ EXCEPT !.excused = TRUE]]
    BY <1>1
  <2>3. threads' = [Missed({n}, L) EXCEPT ![t] = x]
    <3>1. x = [at |-> "again", sub |-> Missed({n}, L)[t].sub, tries |-> Missed({n}, L)[t].tries]
      <4>1. /\ Missed({n}, L)[t].sub = r.sub
            /\ Missed({n}, L)[t].tries = r.tries
        BY <1>0, <1>1 DEF Missed, Removing
      <4> QED
        BY <1>3, <4>1
    <3> QED
      BY <1>1, <1>2, <3>1
  <2> QED
    BY <2>1, <2>2, <2>3
<1>5. x \in Places /\ InOrder(x) /\ ~Owns(x)
  BY <1>0, <1>1, <1>3, SeekFits DEF Removing
<1>6. /\ users' \in [Names -> Users] /\ ident' \in [Names -> Links]
      /\ signed' \subseteq Names /\ cut' \subseteq Names /\ ghosts' \subseteq Names
      /\ orphaned' \subseteq Names
      /\ \A m \in Names : Unopened(m)' => m # n /\ Unopened(m)
      /\ VersionsApart' /\ LinksSound' /\ UnlinkEndsAccess' /\ CutsKnown'
      /\ CredsKept({n}) /\ LinksKept({n}) /\ SealedFree
      /\ Admins' = Admins \ {n}
  BY <1>4, DeleteLeaves
<1>7. /\ threads' \in [Threads -> Places] /\ threads'[t] = x
      /\ \A u \in Threads \ {t} : threads'[u] = Missed({n}, {n})[u]
  <2>1. PICK f : f = Missed({n}, L)
    OBVIOUS
  <2>2. f \in [Threads -> Places]
    BY <1>0, <2>1, MissedTyped
  <2>3. ASSUME NEW u \in Threads \ {t}
        PROVE  f[u] = Missed({n}, {n})[u]
    <3>1. CASE r.moved
      BY <1>2, <2>1, <3>1
    <3>2. CASE ~r.moved
      <4>1. Owns(r)
        BY <1>0, <1>1, <3>2 DEF Owns
      <4> QED
        BY <1>1, <1>2, <2>1, <3>2, <4>1, AloneMissed
    <3> QED
      BY <3>1, <3>2
  <2>4. threads' = [f EXCEPT ![t] = x]
    BY <1>4, <2>1
  <2>5. x \in Places /\ DOMAIN f = Threads
    BY <1>5, <2>2
  <2>6. threads' \in [Threads -> Places]
    BY <2>2, <2>4, <2>5
  <2>7. threads'[t] = x /\ \A u \in Threads \ {t} : threads'[u] = f[u]
    BY <2>4, <2>5
  <2> QED
    BY <2>3, <2>6, <2>7
<1>8. InOrder(threads[t])'
  BY <1>3, <1>7 DEF InOrder, Owns
<1>9. /\ ThreadsInOrder' /\ OwnersApart'
      /\ \A m \in Names : BusyWith(m) =>
           BusyWith(m)' \/ (threads[t].at \in {"link", "undo", "remove"} /\ threads[t].name = m)
  BY <1>5, <1>6, <1>7, <1>8, AllButOnePass
<1>10. cache' \in [Names -> Entries] /\ CacheFresh'
  <2>1. \A m \in Names : cache'[m] = IF m = n /\ cache[m] # None
                                     THEN [cache[m] EXCEPT !.excused = TRUE] ELSE cache[m]
    BY <1>0, <1>4 DEF Typed
  <2>2. cache' = [m \in Names |-> cache'[m]]
    BY <1>0, <1>4 DEF Typed
  <2>3. \A m \in Names : \/ cache'[m] = None
                         \/ m \notin {n} /\ cache'[m] = cache[m]
                         \/ cache[m] # None /\ cache'[m] = [cache[m] EXCEPT !.excused = TRUE]
    BY <2>1
  <2> QED
    BY <1>6, <2>2, <2>3, CachePasses
<1>11. Typed'
  BY <1>0, <1>4, <1>6, <1>7, <1>10 DEF Typed
<1>12. AdminRemains'
  <2>1. CASE r.seen = Admins
    <3>1. CASE n \in Admins
      <4>1. Admins' # {}
        BY <1>4, <1>6, <2>1, <3>1 DEF Survives
      <4> QED
        BY <4>1 DEF AdminRemains
    <3>2. CASE n \notin Admins
      <4>1. Admins' = Admins /\ (overlap => overlap')
        <5>1. Admins' = Admins
          BY <1>6, <3>2
        <5>2. overlap => overlap'
          BY <1>4
        <5> QED
          BY <5>1, <5>2
      <4> QED
        BY <4>1 DEF IInv, AdminRemains
    <3> QED
      BY <3>1, <3>2
  <2>2. CASE r.seen # Admins
    BY <1>4, <2>2 DEF AdminRemains
  <2> QED
    BY <2>1, <2>2
<1>13. NothingEmptyStays'
  BY <1>1, <1>4, <1>6, <1>9 DEF IInv, NothingEmptyStays, Delete
<1>14. CliInOrder'
  BY <1>4 DEF IInv, CliInOrder
<1> QED
  BY <1>6, <1>9, <1>10, <1>11, <1>12, <1>13, <1>14 DEF IInv

LEMMA DropKeeps ==
  ASSUME IInv, NEW t \in Threads, Drop(t)
  PROVE  IInv'
<1> USE DEF Drop
<1>0. /\ Typed /\ threads[t].at = "drop" /\ threads[t] \in Linking
  BY PlaceHas DEF IInv, Typed
<1>1. PICK r, n : r = threads[t] /\ n = r.name
  OBVIOUS
<1>2. PICK x : x = [r EXCEPT !.at = "bind"]
  OBVIOUS
<1>3. n \in Names /\ x \in Places /\ x.at = "bind"
  BY <1>0, <1>1, <1>2 DEF Linking, Places
<1>4. /\ threads' \in [Threads -> Places]
      /\ threads'[t] = x /\ \A u \in Threads \ {t} : threads'[u] = Missed({}, {n})[u]
  <2>1. PICK f : f = Missed({}, {n})
    OBVIOUS
  <2>2. f \in [Threads -> Places] /\ f[t] = r
    <3>1. f \in [Threads -> Places]
      BY <1>0, <2>1, MissedTyped
    <3>2. f[t] = r
      BY <1>0, <1>1, <2>1 DEF Missed
    <3> QED
      BY <3>1, <3>2
  <2>3. threads' = [f EXCEPT ![t] = x]
    BY <1>1, <1>2, <2>1, <2>2
  <2> QED
    BY <1>3, <2>1, <2>2, <2>3
<1>5. /\ ident' = [ident EXCEPT ![n] = None]
      /\ cut' = cut \cup {n} /\ ghosts' = ghosts \cup {n}
      /\ UNCHANGED <<users, cache, cli, newest, asked, signed, overlap, orphaned>>
  BY <1>1
<1>6. /\ ident' \in [Names -> Links] /\ ident'[n] = None
      /\ \A m \in Names \ {n} : ident'[m] = ident[m]
      /\ \A m \in Names : Exists(m)' = Exists(m)
      /\ \A m \in Names \ {n} : Unopened(m)' => Unopened(m)
  <2>1. /\ ident' \in [Names -> Links] /\ ident'[n] = None
        /\ \A m \in Names \ {n} : ident'[m] = ident[m]
    BY <1>0, <1>3, <1>5 DEF Typed, Links
  <2> QED
    BY <1>5, <2>1 DEF Exists, Unopened
<1>7. CredsKept({}) /\ LinksKept({n}) /\ SealedFree
  <2>1. \A m \in Names : Sealed(m)' => Sealed(m)
    BY <1>5, <1>6 DEF Sealed
  <2>2. SealedFree
    BY <2>1, SealedAway DEF SealedFree
  <2>3. CredsKept({})
    BY <1>5, <1>6 DEF CredsKept, Creds
  <2>4. LinksKept({n})
    BY <1>6 DEF LinksKept
  <2> QED
    BY <2>2, <2>3, <2>4
<1>8. InOrder(threads[t])' /\ ~Owns(threads'[t])
  BY <1>3, <1>4 DEF InOrder, Owns
<1>9. /\ ThreadsInOrder' /\ OwnersApart'
      /\ \A m \in Names : BusyWith(m) =>
           BusyWith(m)' \/ (threads[t].at \in {"link", "undo", "remove"} /\ threads[t].name = m)
  BY <1>4, <1>7, <1>8, AllButOnePass
<1>10. NothingEmptyStays'
  BY <1>0, <1>5, <1>6, <1>9 DEF IInv, NothingEmptyStays
<1>11. UnlinkEndsAccess'
  BY <1>0, <1>5, <1>6 DEF IInv, UnlinkEndsAccess, Typed
<1>12. LinksSound'
  <2>1. \A m \in Names : ident'[m] # None => Exists(m)'
    BY <1>6 DEF IInv, LinksSound
  <2>2. ASSUME NEW k \in Names, NEW m \in Names, NEW z \in Subjects,
               ident'[k] = Claimed(z), ident'[m] = Claimed(z)
        PROVE  k = m
    <3>1. k # n /\ m # n
      BY <1>6, <2>2 DEF None, Claimed
    <3> QED
      BY <1>6, <2>2, <3>1 DEF IInv, LinksSound
  <2> QED
    BY <2>1, <2>2 DEF LinksSound, Claimed
<1>13. VersionsApart' /\ AdminRemains' /\ CacheFresh' /\ CliInOrder'
  BY <1>5 DEF IInv, VersionsApart, AdminRemains, Admins, CacheFresh, CliInOrder, Exists, Creds
<1>14. CutsKnown'
  BY <1>0, <1>5, <1>6 DEF IInv, CutsKnown, Typed
<1>15. Typed'
  BY <1>0, <1>3, <1>4, <1>5, <1>6 DEF Typed
<1> QED
  BY <1>9, <1>10, <1>11, <1>12, <1>13, <1>14, <1>15 DEF IInv

LEMMA BindKeeps ==
  ASSUME IInv, NEW t \in Threads, Bind(t)
  PROVE  IInv'
<1> USE DEF Bind
<1>0. /\ Typed /\ threads[t].at = "bind" /\ threads[t] \in Linking
  BY PlaceHas DEF IInv, Typed
<1>1. PICK n, s : n = threads[t].name /\ s = threads[t].sub
  OBVIOUS
<1>2. n \in Names /\ s \in Subjects
  BY <1>0, <1>1 DEF Linking
<1>3. ASSUME CanLink(n, s)
      PROVE  IInv'
  <2>1. /\ ident' = [ident EXCEPT ![n] = Claimed(s)]
        /\ threads' = [Missed({}, {n}) EXCEPT ![t] = Idle]
        /\ UNCHANGED <<users, cache, cli, newest, asked, notes>>
    BY <1>1, <1>3
  <2>2. /\ ident' \in [Names -> Links]
        /\ \A m \in Names : Unopened(m)' => m # n /\ Unopened(m)
        /\ VersionsApart' /\ LinksSound' /\ AdminRemains' /\ CliInOrder'
        /\ UnlinkEndsAccess' /\ CutsKnown'
        /\ CredsKept({}) /\ LinksKept({n}) /\ SealedFree
    BY <1>2, <1>3, <2>1, ClaimLeaves DEF notes, CanLink
  <2>3. /\ threads' \in [Threads -> Places]
        /\ threads'[t] = Idle /\ \A u \in Threads \ {t} : threads'[u] = Missed({}, {n})[u]
    <3>1. PICK f : f = Missed({}, {n})
      OBVIOUS
    <3>2. f \in [Threads -> Places] /\ Idle \in Places
      BY <1>0, <3>1, MissedTyped, IdleFits
    <3> QED
      BY <2>1, <3>1, <3>2
  <2>4. ~Owns(threads'[t]) /\ InOrder(threads[t])'
    BY <2>3 DEF InOrder, Owns, Idle
  <2>5. /\ ThreadsInOrder' /\ OwnersApart'
        /\ \A m \in Names : BusyWith(m) =>
             BusyWith(m)' \/ (threads[t].at \in {"link", "undo", "remove"} /\ threads[t].name = m)
    BY <2>2, <2>3, <2>4, AllButOnePass
  <2>6. NothingEmptyStays'
    BY <1>0, <2>1, <2>2, <2>5 DEF IInv, NothingEmptyStays, notes
  <2>7. CacheFresh'
    BY <2>1 DEF IInv, CacheFresh, Exists, Creds
  <2>8. Typed'
    BY <1>0, <2>1, <2>2, <2>3 DEF Typed, notes
  <2> QED
    BY <2>2, <2>5, <2>6, <2>7, <2>8 DEF IInv
<1>4. CASE Ends(t) /\ UNCHANGED ident
  BY <1>0, <1>4, EndMoves DEF tables
<1> QED
  BY <1>1, <1>3, <1>4

-----------------------------------------------------------------------------
(* The clock and a restart keep it.                                         *)

\* An entry, or what a thread will store, that has grown older has been behind for
\* no longer than it is old.
LEMMA EntryGrows ==
  ASSUME NEW S, NEW n,
         NEW e \in [is : {"entry"}, creds : Credentials, age : S, off : Nat, excused : BOOLEAN],
         e.age \in Nat, e.off <= e.age,
         NEW g, g = Behind(Older(e), n)
  PROVE  /\ g.off <= g.age /\ g.creds = e.creds /\ g.excused = e.excused
         /\ g \in [is : {"entry"}, creds : Credentials, age : {e.age + 1}, off : Nat,
                   excused : BOOLEAN]
<1>1. PICK k : k = IF Exists(n) /\ e.creds = Creds(n) THEN 0 ELSE e.off + 1
  OBVIOUS
<1>2. k \in Nat /\ k <= e.age + 1
  BY <1>1
<1>3. g = [is |-> "entry", creds |-> e.creds, age |-> e.age + 1, off |-> k, excused |-> e.excused]
  BY <1>1 DEF Behind, Older
<1> QED
  BY <1>2, <1>3

LEMMA StoreGrows ==
  ASSUME NEW S, NEW n,
         NEW e \in [at : {"store"}, name : Names, age : S, off : Nat, creds : Credentials,
                    excused : BOOLEAN],
         e.age \in Nat, e.off <= e.age,
         NEW g, g = Behind(Older(e), n)
  PROVE  /\ g.off <= g.age /\ g.creds = e.creds /\ g.excused = e.excused /\ g.name = e.name
         /\ g \in [at : {"store"}, name : Names, age : {e.age + 1}, off : Nat,
                   creds : Credentials, excused : BOOLEAN]
<1>1. PICK k : k = IF Exists(n) /\ e.creds = Creds(n) THEN 0 ELSE e.off + 1
  OBVIOUS
<1>2. k \in Nat /\ k <= e.age + 1
  BY <1>1
<1>3. g = [at |-> "store", name |-> e.name, age |-> e.age + 1, off |-> k, creds |-> e.creds,
           excused |-> e.excused]
  BY <1>1 DEF Behind, Older
<1> QED
  BY <1>2, <1>3

LEMMA ClockKeeps ==
  ASSUME IInv, Clock
  PROVE  IInv'
<1> USE DEF tables, notes
<1>0. Typed /\ TTL \in Nat \ {0}
  BY AccountsAssumption DEF IInv
<1>1. UNCHANGED <<tables, cli, newest, asked, notes>>
  BY DEF Clock
<1>2. cache' = [n \in Names |->
        IF cache[n] = None \/ cache[n].age + 1 >= TTL THEN None
        ELSE Behind(Older(cache[n]), n)]
  BY DEF Clock
<1>3. threads' = [t \in Threads |->
        IF threads[t].at \in {"dated", "store"} /\ threads[t].age < TTL
        THEN IF threads[t].at = "dated" THEN Older(threads[t])
             ELSE Behind(Older(threads[t]), threads[t].name)
        ELSE threads[t]]
  BY DEF Clock
<1>4. /\ \A n \in Names : Exists(n)' = Exists(n) /\ Creds(n)' = Creds(n)
      /\ \A n \in Names : Sealed(n)' = Sealed(n) /\ Unopened(n)' = Unopened(n)
  BY <1>1 DEF Exists, Creds, Sealed, Unopened
<1>5. cache' \in [Names -> Entries] /\ CacheFresh'
  <2>1. ASSUME NEW n \in Names
        PROVE  /\ cache'[n] \in Entries
               /\ cache'[n] # None =>
                    /\ cache'[n].off <= cache'[n].age
                    /\ cache'[n].excused \/ (Exists(n) /\ cache'[n].creds = Creds(n))
    <3>1. CASE cache[n] = None \/ cache[n].age + 1 >= TTL
      BY <1>2, <3>1 DEF Entries
    <3>2. CASE ~(cache[n] = None \/ cache[n].age + 1 >= TTL)
      <4>1. PICK e, g : e = cache[n] /\ g = Behind(Older(e), n)
        OBVIOUS
      <4>2. /\ e \in [is : {"entry"}, creds : Credentials, age : 0..(TTL - 1), off : Nat,
                      excused : BOOLEAN]
            /\ e.off \in Nat /\ e.age \in Nat /\ e.off <= e.age /\ e.age + 1 < TTL
            /\ e.excused \/ (Exists(n) /\ e.creds = Creds(n))
        BY <1>0, <3>2, <4>1 DEF IInv, Typed, Entries, CacheFresh
      <4>3. /\ g.off <= g.age /\ g.creds = e.creds /\ g.excused = e.excused
            /\ g \in [is : {"entry"}, creds : Credentials, age : {e.age + 1}, off : Nat,
                      excused : BOOLEAN]
        BY <4>1, <4>2, EntryGrows
      <4>4. e.age + 1 \in 0..(TTL - 1)
        BY <1>0, <4>2
      <4>5. g \in Entries
        BY <4>3, <4>4 DEF Entries
      <4>6. cache'[n] = g
        BY <1>2, <3>2, <4>1
      <4> QED
        BY <4>2, <4>3, <4>5, <4>6
    <3> QED
      BY <3>1, <3>2
  <2> QED
    BY <1>2, <1>4, <2>1 DEF CacheFresh
<1>6. ASSUME NEW t \in Threads, NEW r, r = threads[t], NEW q, q = threads'[t]
      PROVE  /\ q \in Places /\ q.at = r.at
             /\ r.at \in {"link", "undo", "remove"} => q = r
             /\ r.at \in {"found", "dated", "store"} => q.name = r.name
             /\ InOrder(q)
  <2>0. r \in Places /\ InOrder(r)
    BY <1>0, <1>6 DEF IInv, Typed, ThreadsInOrder
  <2>1. CASE r.at = "dated" /\ r.age < TTL
    <3>1. r \in [at : {"dated"}, name : Names, age : 0..TTL] /\ q = Older(r)
      BY <1>3, <1>6, <2>0, <2>1 DEF Places, Reading, Seeking, Holding, Removing, Linking, Idle
    <3>2. q = [at |-> "dated", name |-> r.name, age |-> r.age + 1]
      BY <3>1 DEF Older
    <3>3. r.age + 1 \in 0..TTL
      BY <1>0, <2>1, <3>1
    <3>4. q \in Places
      BY <3>1, <3>2, <3>3 DEF Places, Reading
    <3> QED
      BY <2>0, <2>1, <3>2, <3>4 DEF InOrder, Owns
  <2>2. CASE r.at = "store" /\ r.age < TTL
    <3>1. /\ r \in [at : {"store"}, name : Names, age : 0..TTL, off : Nat,
                    creds : Credentials, excused : BOOLEAN]
          /\ r.off <= r.age /\ r.off \in Nat /\ r.age \in Nat /\ r.name \in Names
          /\ r.excused \/ (Exists(r.name) /\ r.creds = Creds(r.name))
          /\ ~Sealed(r.name)
      BY <2>0, <2>2, PlaceHas DEF InOrder
    <3>2. q = Behind(Older(r), r.name)
      BY <1>3, <1>6, <2>2
    <3>3. /\ q.off <= q.age /\ q.creds = r.creds /\ q.excused = r.excused /\ q.name = r.name
          /\ q \in [at : {"store"}, name : Names, age : {r.age + 1}, off : Nat,
                    creds : Credentials, excused : BOOLEAN]
      BY <3>1, <3>2, StoreGrows
    <3>4. r.age + 1 \in 0..TTL
      BY <1>0, <2>2, <3>1
    <3>5. q \in Places
      BY <3>3, <3>4 DEF Places, Reading
    <3>6. q.at = "store"
      BY <3>3
    <3> QED
      BY <2>2, <3>1, <3>3, <3>5, <3>6 DEF InOrder, Owns
  <2>3. CASE ~(r.at \in {"dated", "store"} /\ r.age < TTL)
    <3>1. q = r
      BY <1>3, <1>6, <2>3
    <3> QED
      BY <2>0, <3>1
  <2> QED
    BY <2>1, <2>2, <2>3
<1>7. threads' \in [Threads -> Places]
  <2>1. \A t \in Threads : threads'[t] \in Places
    BY <1>6
  <2> QED
    BY <1>3, <2>1
<1>8. ThreadsInOrder'
  <2>1. ASSUME NEW t \in Threads
        PROVE  InOrder(threads[t])'
    <3>1. InOrder(threads'[t])
      BY <1>6
    <3>2. PICK q : q = threads'[t]
      OBVIOUS
    <3>3. q \in Places
      BY <1>6, <3>2
    <3>4. q.at \in {"store", "dated", "found", "link", "undo", "remove"} => q.name \in Names
      BY <3>3, PlaceHas DEF Holding, Removing
    <3> QED
      BY <1>1, <1>4, <3>1, <3>2, <3>4 DEF InOrder, Owns, Survives, Claimed
  <2> QED
    BY <2>1 DEF ThreadsInOrder
<1>9. OwnersApart' /\ \A n \in Names : BusyWith(n) => BusyWith(n)'
  <2>1. \A t \in Threads : threads'[t].at = threads[t].at
                           /\ (threads[t].at \in {"link", "undo", "remove"} =>
                                 threads'[t] = threads[t])
    BY <1>6
  <2> QED
    BY <2>1 DEF IInv, OwnersApart, Owns, BusyWith
<1>10. NothingEmptyStays' /\ UnlinkEndsAccess' /\ CutsKnown' /\ CliInOrder'
  <2>1. NothingEmptyStays'
    BY <1>1, <1>4, <1>9 DEF IInv, NothingEmptyStays
  <2>2. UnlinkEndsAccess'
    BY <1>0, <1>1, <1>4 DEF IInv, UnlinkEndsAccess, Typed
  <2>3. CutsKnown' /\ CliInOrder'
    BY <1>0, <1>1, <1>4 DEF IInv, CutsKnown, CliInOrder, Typed
  <2> QED
    BY <2>1, <2>2, <2>3
<1>11. VersionsApart' /\ LinksSound' /\ AdminRemains'
  BY <1>1 DEF IInv, VersionsApart, LinksSound, AdminRemains, Admins, Exists
<1>12. Typed'
  BY <1>0, <1>1, <1>5, <1>7 DEF Typed
<1> QED
  BY <1>5, <1>8, <1>9, <1>10, <1>11, <1>12 DEF IInv

LEMMA RestartKeeps ==
  ASSUME IInv, Restart
  PROVE  IInv'
<1> USE DEF tables
<1>0. Typed
  BY DEF IInv
<1>1. /\ cache' = [n \in Names |-> None] /\ threads' = [t \in Threads |-> Idle]
      /\ UNCHANGED <<tables, cli, newest, asked, signed, cut, ghosts, overlap>>
      /\ orphaned \subseteq orphaned'
      /\ \A t \in Threads : threads[t].at \in {"link", "undo", "remove"} =>
           threads[t].name \in orphaned'
      /\ \A n \in orphaned' : n \in orphaned \/
           \E t \in Threads : threads[t].at \in {"link", "undo", "remove"} /\ threads[t].name = n
  BY DEF Restart
<1>2. orphaned' \subseteq Names
  <2>1. \A t \in Threads : threads[t].at \in {"link", "undo", "remove"} =>
          threads[t].name \in Names
    BY <1>0, PlaceHas DEF Typed, Holding, Removing
  <2> QED
    BY <1>0, <1>1, <2>1 DEF Typed
<1>3. ThreadsInOrder' /\ OwnersApart' /\ CacheFresh'
  BY <1>1 DEF ThreadsInOrder, OwnersApart, CacheFresh, InOrder, Owns, Idle, None
<1>4. NothingEmptyStays'
  <2>1. \A n \in Names : Unopened(n)' = Unopened(n)
    BY <1>1 DEF Unopened, Exists
  <2>2. \A n \in Names : BusyWith(n) => n \in orphaned'
    BY <1>1 DEF BusyWith
  <2> QED
    BY <1>1, <2>1, <2>2 DEF IInv, NothingEmptyStays
<1>5. UnlinkEndsAccess' /\ CutsKnown' /\ CliInOrder' /\ VersionsApart' /\ LinksSound' /\ AdminRemains'
  BY <1>1 DEF IInv, UnlinkEndsAccess, CutsKnown, CliInOrder, VersionsApart, LinksSound,
              AdminRemains, Admins, Unopened, Exists
<1>6. Typed'
  <2>1. None \in Entries /\ Idle \in Places
    BY DEF Entries, Places
  <2> QED
    BY <1>0, <1>1, <1>2, <2>1 DEF Typed
<1> QED
  BY <1>3, <1>4, <1>5, <1>6 DEF IInv

-----------------------------------------------------------------------------
(* The theorems.                                                            *)

LEMMA InitHolds ==
  ASSUME Init
  PROVE  IInv
<1> USE DEF Init
<1>1. Typed
  <2>1. User("admin", 1, TRUE) \in Users /\ None \in Users
    BY DEF User, Users, Roles, Versions
  <2>2. None \in Links /\ None \in Entries /\ Idle \in Places /\ None \in Commands
    BY DEF Links, Entries, Places, Commands
  <2>3. users \in [Names -> Users]
    BY <2>1
  <2>4. ident \in [Names -> Links] /\ cache \in [Names -> Entries]
    BY <2>2
  <2>5. threads \in [Threads -> Places] /\ cli \in Commands
    BY <2>2
  <2>6. newest \in Versions /\ asked \in [changes : Nat, signins : Nat, cli : Nat]
    BY DEF Versions
  <2> QED
    BY <2>3, <2>4, <2>5, <2>6 DEF Typed
<1>2. \A n \in Names : Exists(n) <=> n = Root
  BY DEF Exists, User, None
<1>3. \A n \in Names : ~Unopened(n)
  BY DEF Unopened, Exists, User, None
<1>4. VersionsApart
  BY <1>2 DEF VersionsApart, User
<1>5. LinksSound /\ CacheFresh /\ CliInOrder
  BY DEF LinksSound, CacheFresh, CliInOrder, None, Claimed
<1>6. AdminRemains
  <2>1. Root \in Admins
    BY AccountsAssumption DEF Admins, User, None
  <2> QED
    BY <2>1 DEF AdminRemains
<1>7. ThreadsInOrder /\ OwnersApart
  BY DEF ThreadsInOrder, OwnersApart, InOrder, Owns, Idle
<1>8. NothingEmptyStays /\ UnlinkEndsAccess /\ CutsKnown
  BY <1>3 DEF NothingEmptyStays, UnlinkEndsAccess, CutsKnown
<1> QED
  BY <1>1, <1>4, <1>5, <1>6, <1>7, <1>8 DEF IInv

LEMMA StutterKeeps ==
  ASSUME IInv, UNCHANGED vars
  PROVE  IInv'
<1> USE DEF vars
<1>1. Typed' /\ CacheFresh' /\ CliInOrder'
  BY DEF IInv, Typed, CacheFresh, CliInOrder, Exists, Creds, tables, notes
<1> QED
  BY <1>1, TablesStay DEF IInv

\* The handler that finds a name free changes nothing yet.
LEMMA FindFreeKeeps ==
  ASSUME IInv, NEW n \in Names, NEW role \in Roles, FindFree(n, role)
  PROVE  IInv'
<1> USE DEF FindFree
<1>1. asked' \in [changes : Nat, signins : Nat, cli : Nat]
  BY DEF IInv, Typed
<1>2. Typed' /\ CacheFresh' /\ CliInOrder'
  BY <1>1 DEF IInv, Typed, CacheFresh, CliInOrder, Exists, Creds, tables, notes
<1> QED
  BY <1>2, TablesStay DEF IInv

\* One step, by one actor: a handler, a command, a thread, the clock, a restart.
LEMMA StepKeeps ==
  ASSUME IInv, [Next]_vars
  PROVE  IInv'
<1>1. ASSUME NEW n \in Names, Request(n) \/ Handler(n)
      PROVE  IInv'
  <2>1. CASE Request(n)
    BY <2>1, RequestKeeps
  <2>2. CASE Handler(n)
    <3>1. ASSUME NEW role \in Roles, ChangeRole(n, role)
          PROVE  IInv'
      BY <3>1, ChangeRoleKeeps
    <3>2. CASE ChangePassword(n) \/ RemoveUser(n) \/ Unlink(n)
      BY <3>2, ChangePasswordKeeps, RemoveUserKeeps, UnlinkKeeps
    <3>3. ASSUME NEW s \in Subjects, Prelink(n, s)
          PROVE  IInv'
      BY <3>3, PrelinkKeeps
    <3>4. ASSUME NEW m \in Names, Rename(n, m)
          PROVE  IInv'
      BY <3>4, RenameKeeps
    <3> QED
      BY <2>2, <3>1, <3>2, <3>3, <3>4 DEF Handler
  <2> QED
    BY <1>1, <2>1, <2>2
<1>2. CASE OnLoop
  BY <1>1, <1>2, CallbackKeeps DEF OnLoop
<1>3. ASSUME NEW n \in Names, NEW role \in Roles, FindFree(n, role) \/ CreateUser(n, role)
      PROVE  IInv'
  BY <1>3, FindFreeKeeps, CreateUserKeeps
<1>4. ASSUME NEW n \in Names, Command(n)
      PROVE  IInv'
  <2>1. CASE CliAdd(n)
    BY <2>1, CliAddKeeps
  <2>2. ASSUME NEW role \in Roles \cup {"none"}, CliCounts(n, role)
        PROVE  IInv'
    BY <2>2, CliCountsKeeps
  <2> QED
    BY <1>4, <2>1, <2>2 DEF Command
<1>5. ASSUME NEW t \in Threads, Read(t) \/ Store(t) \/ SignInStep(t)
      PROVE  IInv'
  <2>1. CASE Read(t) \/ Store(t)
    BY <2>1, ReadKeeps, StoreKeeps
  <2>2. CASE SignInStep(t)
    BY <2>2, LookKeeps, ClaimKeeps, UpdateKeeps, CreateKeeps, AddKeeps, LinkKeeps, UndoKeeps,
       RemoveKeeps, AgainKeeps, JoinKeeps, DropKeeps, BindKeeps DEF SignInStep
  <2> QED
    BY <1>5, <2>1, <2>2
<1>6. ASSUME NEW t \in Threads, NEW n \in Names, Login(t, n) \/ \E s \in Subjects : LinkSelf(t, n, s)
      PROVE  IInv'
  BY <1>6, LoginKeeps, LinkSelfKeeps
<1>7. ASSUME NEW t \in Threads, NEW s \in Subjects, SignIn(t, s)
      PROVE  IInv'
  BY <1>7, SignInKeeps
<1>8. CASE CliActs \/ Clock \/ Restart
  BY <1>8, CliActsKeeps, ClockKeeps, RestartKeeps
<1>9. CASE Beside
  BY <1>4, <1>5, <1>6, <1>7, <1>8, <1>9 DEF Beside
<1>10. CASE UNCHANGED vars
  BY <1>10, StutterKeeps
<1> QED
  BY <1>2, <1>3, <1>8, <1>9, <1>10 DEF Next

\* In every reachable state the tables, the cache, and what every thread and the
\* command line have in hand agree (auth.py, db.py, the handlers of main.py).
THEOREM AccountsInvariant == Spec => []IInv
<1>1. Init => IInv
  BY InitHolds
<1>2. IInv /\ [Next]_vars => IInv'
  BY StepKeeps
<1> QED
  BY <1>1, <1>2, PTL DEF Spec

\* What the host takes for an account's role and hash was so less than TTL ago;
\* after a change through the dashboard it is so now, unless a command, a renaming,
\* an account added under a name taken meanwhile, or a login that had read the old
\* credentials is behind it (auth.py, _entry and invalidate).
THEOREM CacheStaysFresh == Spec => []CacheIsFresh
<1>1. ASSUME IInv
      PROVE  CacheIsFresh
  <2>1. StaleOnlyForTTL
    BY <1>1, AccountsAssumption DEF IInv, Typed, CacheFresh, Entries, StaleOnlyForTTL
  <2>2. NextRequestSees
    BY <1>1 DEF IInv, CacheFresh, NextRequestSees
  <2> QED
    BY <2>1, <2>2 DEF CacheIsFresh
<1>2. IInv => CacheIsFresh
  BY <1>1
<1> QED
  BY <1>2, AccountsInvariant, PTL

\* There is always an admin, unless the admins changed between the count and the
\* removal, or change of role, that it allowed (db.py, remove_user and set_role).
THEOREM AnAdminRemains == Spec => []AdminRemains
<1>1. IInv => AdminRemains
  BY DEF IInv
<1> QED
  BY <1>1, AccountsInvariant, PTL

\* Whoever comes back from the provider is signed in to the account linked to
\* them, and to no other, unless somebody changed that account's link meanwhile
\* (auth.py, oidc_signin).
THEOREM SignInsAgree == Spec => []SignedInIsLinked
<1>1. ASSUME IInv
      PROVE  SignedInIsLinked
  <2>1. ASSUME NEW t \in Threads, threads[t].at = "found", ~threads[t].moved
        PROVE  Holder(threads[t].sub) = {threads[t].name}
    <3>1. PICK s, n : s = threads[t].sub /\ n = threads[t].name
      OBVIOUS
    <3>2. ident[n] = Claimed(s) /\ n \in Names /\ s \in Subjects
      BY <1>1, <2>1, <3>1, PlaceHas DEF IInv, ThreadsInOrder, InOrder, Typed, Holding
    <3>3. \A m \in Names : ident[m] = Claimed(s) => m = n
      BY <1>1, <3>2 DEF IInv, LinksSound
    <3>4. Holder(s) = {n}
      BY <3>2, <3>3 DEF Holder
    <3> QED
      BY <3>1, <3>4
  <2> QED
    BY <2>1 DEF SignedInIsLinked
<1>2. IInv => SignedInIsLinked
  BY <1>1
<1> QED
  BY <1>2, AccountsInvariant, PTL

\* The tables stay sound: hashes apart, links only on accounts, nothing left that
\* nothing opens, no session of an account that was unlinked (auth.py, oidc_signin;
\* main.py, api_user_unlink).
THEOREM TablesStaySound == Spec => []AccountsAreSound
<1>1. ASSUME IInv
      PROVE  AccountsAreSound
  <2>1. \A n \in Names : cache[n] = None \/ cache[n].age \in 0..(TTL - 1)
    BY <1>1 DEF IInv, Typed, Entries
  <2>2. TypeOK
    BY <1>1, <2>1 DEF IInv, Typed, Users, Links, VersionsApart, LinksSound, TypeOK
  <2> QED
    BY <1>1, <2>2 DEF IInv, AccountsAreSound
<1>2. IInv => AccountsAreSound
  BY <1>1
<1> QED
  BY <1>2, AccountsInvariant, PTL

=============================================================================
