------------------------------ MODULE Accounts ------------------------------
(***************************************************************************)
(* Accounts, their roles and sign-in (culprit/auth.py, the users and        *)
(* identities tables of culprit/db.py, the handlers of culprit/main.py).    *)
(*                                                                         *)
(* Handlers run on the event loop, one at a time; logins and provider       *)
(* sign-ins run on executor threads beside them; the command line works on  *)
(* the same database from a process of its own.  A stored password hash, or *)
(* the sentinel of an account without one, is a version: it is what         *)
(* sessions are signed with.  Each subject has one e-mail address of its    *)
(* own; API keys and the login limiter are left out.                        *)
(***************************************************************************)
EXTENDS Integers, FiniteSets

CONSTANTS
  Names,          \* user names
  Root,           \* the account there is at first
  Subjects,       \* people at the sign-in provider
  Threads,        \* executor threads
  DefaultRole,    \* oidc_default_role
  TTL,            \* _KEY_TTL, in ticks
  MaxChanges,     \* bound on the changes asked for on the loop
  MaxSignIns,     \* bound on the logins and sign-ins
  MaxCli          \* bound on the commands

Roles == {"viewer", "admin"}

ASSUME AccountsAssumption ==
  /\ IsFiniteSet(Names) /\ Root \in Names /\ DefaultRole \in Roles
  /\ TTL \in Nat \ {0} /\ {MaxChanges, MaxSignIns, MaxCli} \subseteq Nat

Versions == Nat \ {0}

VARIABLES
  users,      \* the users table
  ident,      \* the identities table: pending for, or claimed by, a subject
  cache,      \* Auth._keys, without the entries that are too old
  threads,
  cli,        \* the command that has counted the admins
  adding,     \* the handler that has found a name free, and will add it
  newest,     \* the newest version of a hash
  asked,      \* how many changes, sign-ins and commands there were
  signed,     \* accounts with a session signed with their present hash
  cut,        \* accounts whose link an admin or their owner took away
  ghosts,     \* accounts unlinked while a login, sign-in or link had them in hand
  overlap,    \* the admins changed between a count and the change it allowed
  orphaned    \* empty accounts a restart, or the rule on admins, left behind

tables == <<users, ident>>
notes == <<signed, cut, ghosts, overlap, orphaned>>
vars == <<tables, cache, threads, cli, adding, newest, asked, notes>>

None == [is |-> "none"]
User(role, version, pass) == [is |-> "user", role |-> role, version |-> version, pass |-> pass]
Pending(s) == [is |-> "pending", sub |-> s]
Claimed(s) == [is |-> "claimed", sub |-> s]
Idle == [at |-> "idle"]

Exists(n) == users[n] # None
Admins == {n \in Names : users[n] # None /\ users[n].role = "admin"}
Holder(s) == {n \in Names : ident[n] = Claimed(s)}
PendingFor(s) == {n \in Names : ident[n] = Pending(s)}

-----------------------------------------------------------------------------
(* Faulty variants: the bugs the properties are there to notice.            *)

StampedLate(t) == 0
NeverFatal(n, role) == TRUE
ClaimedAgain(s) == {}
KeepEmpty(n) == UNCHANGED <<tables, signed, cut, ghosts, orphaned>>

-----------------------------------------------------------------------------
(* The cache of credentials.                                                *)

Creds(n) == [role |-> users[n].role, version |-> users[n].version]

\* invalidate: the entries go, but a thread that has read the old credentials
\* has them still.
Forget(S) == cache' = [n \in Names |-> IF n \in S THEN None ELSE cache[n]]

\* What a change of the credentials of C and of the links of L means to the
\* threads that have such an account in hand: it does not reach them.
Missed(C, L) == [t \in Threads |->
  IF threads[t].at = "store" /\ threads[t].name \in C
  THEN [threads[t] EXCEPT !.excused = TRUE]
  ELSE IF threads[t].at \in {"found", "link", "undo", "remove"} /\ threads[t].name \in L
  THEN [threads[t] EXCEPT !.moved = TRUE]
  ELSE threads[t]]

Entry(n) == IF cache[n] # None THEN cache[n]
            ELSE IF Exists(n)
                 THEN [is |-> "entry", creds |-> Creds(n), age |-> 0, off |-> 0, excused |-> FALSE]
                 ELSE None

\* A request with a session of this name, on the loop.
Request(n) ==
  /\ cache[n] # Entry(n)
  /\ cache' = [cache EXCEPT ![n] = Entry(n)]
  /\ UNCHANGED <<tables, threads, cli, newest, asked, notes>>

-----------------------------------------------------------------------------
(* Login, on a thread: the password is checked, then issue_session looks for *)
(* the key.  The entry is dated before the credentials are read.            *)

Begin(t, start) ==
  /\ threads[t] = Idle /\ asked.signins < MaxSignIns
  /\ threads' = [threads EXCEPT ![t] = start]
  /\ asked' = [asked EXCEPT !.signins = @ + 1]
  /\ UNCHANGED <<tables, cache, cli, newest, notes>>

Login(t, n) ==
  /\ Exists(n) /\ users[n].pass
  /\ Begin(t, [at |-> "dated", name |-> n, age |-> 0])

Ends(t) == threads' = [threads EXCEPT ![t] = Idle]

\* Whether a session signed with this hash is one of the account's present hash.
Sign(n, version) ==
  signed' = IF Exists(n) /\ users[n].version = version THEN signed \cup {n} ELSE signed

Read(t) ==
  LET n == threads[t].name IN
  /\ threads[t].at = "dated"
  /\ \/ /\ cache[n] # None
        /\ Sign(n, cache[n].creds.version) /\ Ends(t)
     \/ /\ cache[n] = None /\ Exists(n)
        /\ threads' = [threads EXCEPT ![t] =
             [at |-> "store", name |-> n, age |-> @.age, off |-> 0,
              creds |-> Creds(n), excused |-> FALSE]]
        /\ UNCHANGED signed
     \/ /\ cache[n] = None /\ ~Exists(n)
        /\ Ends(t) /\ UNCHANGED signed
  /\ UNCHANGED <<tables, cache, cli, newest, asked, cut, ghosts, overlap, orphaned>>

Age(t) == threads[t].age

Store(t) ==
  LET r == threads[t] IN
  /\ r.at = "store"
  /\ cache' = [cache EXCEPT ![r.name] =
       IF Age(t) >= TTL THEN None
       ELSE [is |-> "entry", creds |-> r.creds, age |-> Age(t), off |-> r.off,
             excused |-> r.excused]]
  /\ Sign(r.name, r.creds.version)
  /\ Ends(t)
  /\ UNCHANGED <<tables, cli, newest, asked, cut, ghosts, overlap, orphaned>>

-----------------------------------------------------------------------------
(* Sign-in through the provider: oidc_signin and, for an account that links   *)
(* itself, oidc_link, on a thread.                                          *)

SignIn(t, s) == Begin(t, [at |-> "look", sub |-> s, tries |-> 2])

LinkSelf(t, n, s) ==
  /\ Exists(n) /\ users[n].pass
  /\ Begin(t, [at |-> "join", sub |-> s, name |-> n])

Goes(t, at) == threads' = [threads EXCEPT ![t].at = at]
Seeks(t, at) == threads' = [threads EXCEPT ![t] = [at |-> at, sub |-> @.sub, tries |-> @.tries]]
With(r, at, n) == [at |-> at, sub |-> r.sub, tries |-> r.tries, moved |-> FALSE, name |-> n]
Holds(t, at, n) == threads' = [threads EXCEPT ![t] = With(@, at, n)]
Quiet == UNCHANGED <<tables, cache, cli, newest, asked, notes>>

Look(t) ==
  LET s == threads[t].sub IN
  /\ threads[t].at = "look"
  /\ \/ \E n \in Holder(s) : Holds(t, "found", n)
     \/ Holder(s) = {} /\ PendingFor(s) # {} /\ (Ends(t) \/ Goes(t, "claim"))
     \/ Holder(s) = {} /\ PendingFor(s) = {} /\ (Ends(t) \/ Goes(t, "create"))
  /\ Quiet

\* claim_identity: the pending row is looked up, then updated by its user name.
Claim(t) ==
  LET s == threads[t].sub IN
  /\ threads[t].at = "claim"
  /\ \/ Holder(s) = {} /\ \E n \in PendingFor(s) : Holds(t, "update", n)
     \/ (Holder(s) # {} \/ PendingFor(s) = {}) /\ Goes(t, "create")
  /\ Quiet

\* UNIQUE (provider, subject).
TakenBy(s) == Holder(s)

Update(t) ==
  LET s == threads[t].sub
      n == threads[t].name
      claims == ident[n].is = "pending" /\ TakenBy(s) = {}
  IN
  /\ threads[t].at = "update"
  /\ ident' = IF claims THEN [ident EXCEPT ![n] = Claimed(s)] ELSE ident
  /\ IF claims THEN Holds(t, "found", n) ELSE Seeks(t, "create")
  /\ UNCHANGED <<users, cache, cli, newest, asked, notes>>

\* derive_username; the bound is on the names, of which none may be left.
Create(t) ==
  /\ threads[t].at = "create"
  /\ \/ \E n \in Names : ~Exists(n) /\ Holds(t, "add", n)
     \/ (\A n \in Names : Exists(n)) /\ Ends(t)
  /\ Quiet

Unusable(n, version) == User(DefaultRole, version, FALSE)

\* add_identity_user.
Add(t) ==
  LET n == threads[t].name IN
  /\ threads[t].at = "add"
  /\ \/ /\ ~Exists(n)
        /\ newest' = newest + 1
        /\ users' = [users EXCEPT ![n] = Unusable(n, newest + 1)]
        /\ Goes(t, "link")
     \/ /\ Exists(n) /\ threads[t].tries > 1
        /\ threads' = [threads EXCEPT ![t] =
             [at |-> "create", sub |-> @.sub, tries |-> @.tries - 1]]
        /\ UNCHANGED <<users, newest>>
     \/ Exists(n) /\ threads[t].tries = 1 /\ Ends(t) /\ UNCHANGED <<users, newest>>
  /\ UNCHANGED <<ident, cache, cli, asked, notes>>

\* link_identity: what its queries refuse the constraints refuse.
CanLink(n, s) == Exists(n) /\ ident[n] = None /\ TakenBy(s) = {}

Link(t) ==
  LET n == threads[t].name
      s == threads[t].sub
  IN
  /\ threads[t].at = "link"
  /\ \/ /\ CanLink(n, s)
        /\ ident' = [ident EXCEPT ![n] = Claimed(s)]
        /\ Forget({n})
        /\ threads' = [Missed({}, {n}) EXCEPT ![t] = With(threads[t], "found", n)]
     \/ ~CanLink(n, s) /\ Goes(t, "undo") /\ UNCHANGED <<ident, cache>>
  /\ UNCHANGED <<users, cli, newest, asked, notes>>

\* The rule of remove_user and set_role.
LeavesAdmin(n, role) == users[n].role # "admin" \/ role = "admin" \/ Cardinality(Admins) > 1

\* ON DELETE CASCADE.
Delete(n) ==
  /\ users' = [users EXCEPT ![n] = None] /\ ident' = [ident EXCEPT ![n] = None]
  /\ signed' = signed \ {n} /\ cut' = cut \ {n} /\ ghosts' = ghosts \ {n}
  /\ orphaned' = orphaned \ {n}

\* remove_user of the empty account, by its name: the role and the admins are
\* read, then the row goes, linked meanwhile by somebody else or not.
Undo(t) ==
  LET n == threads[t].name IN
  /\ threads[t].at = "undo"
  /\ \/ /\ Exists(n) /\ LeavesAdmin(n, "none")
        /\ threads' = [threads EXCEPT ![t] =
             [at |-> "remove", sub |-> @.sub, tries |-> @.tries, moved |-> @.moved,
              name |-> n, seen |-> Admins]]
        /\ UNCHANGED orphaned
     \/ ~Exists(n) /\ Seeks(t, "again") /\ UNCHANGED orphaned
     \/ /\ Exists(n) /\ ~LeavesAdmin(n, "none") /\ Seeks(t, "again")
        /\ orphaned' = orphaned \cup {n}
  /\ UNCHANGED <<tables, cache, cli, newest, asked, signed, cut, ghosts, overlap>>

Discard(n) == Delete(n)

Remove(t) ==
  LET n == threads[t].name IN
  /\ threads[t].at = "remove"
  /\ Discard(n)
  /\ threads' = [Missed({n}, IF threads[t].moved THEN {n} ELSE {}) EXCEPT ![t] =
       [at |-> "again", sub |-> @.sub, tries |-> @.tries]]
  /\ cache' = [cache EXCEPT ![n] = IF @ = None THEN @ ELSE [@ EXCEPT !.excused = TRUE]]
  /\ overlap' = (overlap \/ threads[t].seen # Admins)
  /\ UNCHANGED <<cli, newest, asked>>

Again(t) ==
  /\ threads[t].at = "again"
  /\ \/ \E n \in Holder(threads[t].sub) : Holds(t, "found", n)
     \/ Holder(threads[t].sub) = {} /\ Ends(t)
  /\ Quiet

\* The callback, back on the loop: a session for the account that was found.
Callback(t) ==
  LET n == threads[t].name IN
  /\ threads[t].at = "found"
  /\ cache' = [cache EXCEPT ![n] = Entry(n)]
  /\ IF Entry(n) = None THEN UNCHANGED signed ELSE Sign(n, Entry(n).creds.version)
  /\ Ends(t)
  /\ UNCHANGED <<tables, cli, newest, asked, cut, ghosts, overlap, orphaned>>

\* oidc_link: the account's row is looked at; a pending one is deleted, then
\* the claimed one written.
Join(t) ==
  LET n == threads[t].name IN
  /\ threads[t].at = "join"
  /\ IF Holder(threads[t].sub) # {} \/ ident[n].is = "claimed" THEN Ends(t)
     ELSE Goes(t, IF ident[n] = None THEN "bind" ELSE "drop")
  /\ Quiet

Drop(t) ==
  LET n == threads[t].name IN
  /\ threads[t].at = "drop"
  /\ ident' = [ident EXCEPT ![n] = None]
  /\ threads' = [Missed({}, {n}) EXCEPT ![t].at = "bind"]
  /\ cut' = cut \cup {n} /\ ghosts' = ghosts \cup {n}
  /\ UNCHANGED <<users, cache, cli, newest, asked, signed, overlap, orphaned>>

Bind(t) ==
  LET n == threads[t].name
      s == threads[t].sub
  IN
  /\ threads[t].at = "bind"
  /\ \/ /\ CanLink(n, s)
        /\ ident' = [ident EXCEPT ![n] = Claimed(s)]
        /\ threads' = [Missed({}, {n}) EXCEPT ![t] = Idle]
     \/ ~CanLink(n, s) /\ Ends(t) /\ UNCHANGED ident
  /\ UNCHANGED <<users, cache, cli, newest, asked, notes>>

SignInStep(t) ==
  Look(t) \/ Claim(t) \/ Update(t) \/ Create(t) \/ Add(t) \/ Link(t) \/ Undo(t)
  \/ Remove(t) \/ Again(t) \/ Join(t) \/ Drop(t) \/ Bind(t)

-----------------------------------------------------------------------------
(* The handlers, on the loop.                                               *)

\* A change that reaches neither the cache nor the threads.
Unheard(S) ==
  /\ threads' = Missed(S, S)
  /\ cache' = [n \in Names |-> IF n \in S /\ cache[n] # None
                               THEN [cache[n] EXCEPT !.excused = TRUE] ELSE cache[n]]

Change(forgotten, links) ==
  /\ asked.changes < MaxChanges /\ asked' = [asked EXCEPT !.changes = @ + 1]
  /\ Forget(forgotten) /\ threads' = Missed(forgotten, links)
  /\ UNCHANGED <<cli, overlap>>

ChangeRole(n, role) ==
  /\ Exists(n) /\ LeavesAdmin(n, role) /\ users[n].role # role
  /\ users' = [users EXCEPT ![n].role = role]
  /\ Change({n}, {})
  /\ UNCHANGED <<ident, newest, signed, cut, ghosts, orphaned>>

\* The session is issued again, with the new hash.
ChangePassword(n) ==
  /\ Exists(n) /\ users[n].pass
  /\ newest' = newest + 1
  /\ users' = [users EXCEPT ![n].version = newest + 1]
  /\ signed' = signed \cup {n}
  /\ Change({n}, {})
  /\ UNCHANGED <<ident, cut, ghosts, orphaned>>

\* The one change that leaves the cache as it is.
Rename(n, m) ==
  LET Under(f) == [f EXCEPT ![m] = f[n], ![n] = None]
      As(S) == IF n \in S THEN (S \ {n}) \cup {m} ELSE S
  IN
  /\ Exists(n) /\ users[n].pass /\ ~Exists(m)
  /\ asked.changes < MaxChanges /\ asked' = [asked EXCEPT !.changes = @ + 1]
  /\ users' = Under(users) /\ ident' = Under(ident)
  /\ signed' = (signed \ {n}) \cup {m}
  /\ cut' = As(cut) /\ ghosts' = As(ghosts) /\ orphaned' = As(orphaned)
  /\ Unheard({n, m})
  /\ UNCHANGED <<cli, newest, overlap>>

RemoveUser(n) ==
  /\ Exists(n) /\ LeavesAdmin(n, "none")
  /\ Delete(n)
  /\ Change({n}, {n})
  /\ UNCHANGED newest

\* add_user: a new account, or a new password for the one there is.
AddUser(n, role) ==
  /\ newest' = newest + 1
  /\ users' = [users EXCEPT ![n] =
       User(IF Exists(n) THEN users[n].role ELSE role, newest + 1, TRUE)]
  /\ signed' = signed \ {n}
  /\ Unheard({n})
  /\ UNCHANGED <<ident, cli, cut, ghosts, overlap, orphaned>>

\* The handler asks whether the name is free, then adds it: the loop does nothing
\* else between, but a sign-in or a command may take the name.
FindFree(n, role) ==
  /\ ~Exists(n)
  /\ asked.changes < MaxChanges /\ asked' = [asked EXCEPT !.changes = @ + 1]
  /\ adding' = [is |-> "free", name |-> n, role |-> role]
  /\ UNCHANGED <<tables, cache, threads, cli, newest, notes>>

CreateUser(n, role) ==
  /\ adding = [is |-> "free", name |-> n, role |-> role]
  /\ adding' = None
  /\ AddUser(n, role)
  /\ UNCHANGED asked

Prelink(n, s) ==
  /\ Exists(n) /\ ident[n].is # "claimed"
  /\ ident' = [ident EXCEPT ![n] = Pending(s)]
  /\ asked.changes < MaxChanges /\ asked' = [asked EXCEPT !.changes = @ + 1]
  /\ threads' = Missed({}, {n})
  /\ UNCHANGED <<users, cache, cli, newest, notes>>

\* rotate_login_key: nobody has a session of the account any more.
Rotate(n) ==
  IF users[n].pass THEN users' = users /\ UNCHANGED <<newest, signed>>
  ELSE /\ users' = [users EXCEPT ![n].version = newest + 1]
       /\ newest' = newest + 1 /\ signed' = signed \ {n}

\* A login or sign-in that has this account in hand.
InHand(n) == \E t \in Threads :
  threads[t].at \in {"found", "dated", "store"} /\ threads[t].name = n

Unlink(n) ==
  /\ Exists(n) /\ ident[n] # None
  /\ ident' = [ident EXCEPT ![n] = None]
  /\ Rotate(n)
  /\ ghosts' = IF InHand(n) THEN ghosts \cup {n} ELSE ghosts
  /\ cut' = cut \cup {n}
  /\ Change(IF users[n].pass THEN {} ELSE {n}, {n})
  /\ UNCHANGED orphaned

-----------------------------------------------------------------------------
(* The command line, the clock, a restart of the host.                      *)

CliCounts(n, role) ==
  /\ cli = None /\ asked.cli < MaxCli /\ asked' = [asked EXCEPT !.cli = @ + 1]
  /\ Exists(n) /\ LeavesAdmin(n, role) /\ users[n].role # role
  /\ cli' = [is |-> "counted", name |-> n, role |-> role, seen |-> Admins]
  /\ UNCHANGED <<tables, cache, threads, newest, notes>>

CliActs ==
  LET n == cli.name IN
  /\ cli # None
  /\ cli' = None
  /\ IF cli.role = "none" THEN Delete(n)
     ELSE /\ users' = IF Exists(n) THEN [users EXCEPT ![n].role = cli.role] ELSE users
          /\ UNCHANGED <<ident, signed, cut, ghosts, orphaned>>
  /\ Unheard({n})
  /\ overlap' = (overlap \/ cli.seen # Admins)
  /\ UNCHANGED <<newest, asked>>

\* users add.
CliAdd(n) ==
  /\ asked.cli < MaxCli /\ asked' = [asked EXCEPT !.cli = @ + 1]
  /\ AddUser(n, "admin")

Older(e) == [e EXCEPT !.age = @ + 1]
Behind(e, n) == [e EXCEPT !.off = IF Exists(n) /\ e.creds = Creds(n) THEN 0 ELSE @ + 1]

\* An entry that is too old is not looked at.
Clock ==
  /\ \/ \E n \in Names : cache[n] # None
     \/ \E t \in Threads : threads[t].at \in {"dated", "store"} /\ threads[t].age < TTL
  /\ cache' = [n \in Names |->
       IF cache[n] = None \/ cache[n].age + 1 >= TTL THEN None
       ELSE Behind(Older(cache[n]), n)]
  /\ threads' = [t \in Threads |->
       IF threads[t].at \in {"dated", "store"} /\ threads[t].age < TTL
       THEN IF threads[t].at = "dated" THEN Older(threads[t])
            ELSE Behind(Older(threads[t]), threads[t].name)
       ELSE threads[t]]
  /\ UNCHANGED <<tables, cli, newest, asked, notes>>

\* The threads and the cache go; the accounts of sign-ins that were about to be
\* linked stay.
Restart ==
  /\ adding # None \/ \E t \in Threads : threads[t] # Idle
  /\ adding' = None
  /\ cache' = [n \in Names |-> None]
  /\ threads' = [t \in Threads |-> Idle]
  /\ orphaned' = orphaned \cup {threads[t].name :
       t \in {u \in Threads : threads[u].at \in {"link", "undo", "remove"}}}
  /\ UNCHANGED <<tables, cli, newest, asked, signed, cut, ghosts, overlap>>

-----------------------------------------------------------------------------
Init ==
  /\ users = [n \in Names |-> IF n = Root THEN User("admin", 1, TRUE) ELSE None]
  /\ ident = [n \in Names |-> None] /\ cache = ident
  /\ threads = [t \in Threads |-> Idle] /\ cli = None /\ adding = None /\ newest = 1
  /\ asked = [changes |-> 0, signins |-> 0, cli |-> 0]
  /\ signed = {} /\ cut = {} /\ ghosts = {} /\ overlap = FALSE /\ orphaned = {}

Handler(n) ==
  \/ \E role \in Roles : ChangeRole(n, role)
  \/ ChangePassword(n) \/ RemoveUser(n) \/ Unlink(n)
  \/ \E s \in Subjects : Prelink(n, s)
  \/ \E m \in Names : Rename(n, m)

Command(n) == CliAdd(n) \/ \E role \in Roles \cup {"none"} : CliCounts(n, role)

\* What the loop does, one handler or callback at a time.
OnLoop ==
  \/ \E n \in Names : Request(n) \/ Handler(n)
  \/ \E t \in Threads : Callback(t)

\* What goes on beside it.
Beside ==
  \/ \E n \in Names : Command(n)
  \/ \E t \in Threads :
       \/ Read(t) \/ Store(t) \/ SignInStep(t)
       \/ \E n \in Names : Login(t, n) \/ \E s \in Subjects : LinkSelf(t, n, s)
       \/ \E s \in Subjects : SignIn(t, s)
  \/ CliActs \/ Clock

Next ==
  \/ adding = None /\ OnLoop /\ UNCHANGED adding
  \/ adding = None /\ \E n \in Names, role \in Roles : FindFree(n, role)
  \/ \E n \in Names, role \in Roles : CreateUser(n, role)
  \/ Beside /\ UNCHANGED adding
  \/ Restart

Spec == Init /\ [][Next]_vars

-----------------------------------------------------------------------------
(* What must hold.                                                          *)

\* Ranges of the state: every account is of a known role and signs with a hash
\* of its own; an identity belongs to an account that exists.
TypeOK ==
  /\ users \in [Names -> {None} \cup [is : {"user"}, role : Roles, version : Versions, pass : BOOLEAN]]
  /\ ident \in [Names -> {None} \cup [is : {"pending", "claimed"}, sub : Subjects]]
  /\ \A n \in Names : ident[n] # None => Exists(n)
  /\ \A m, n \in Names : m # n /\ Exists(m) /\ Exists(n) => users[m].version # users[n].version
  /\ newest \in Versions /\ signed \subseteq Names
  /\ \A n \in Names : cache[n] = None \/ cache[n].age \in 0..(TTL - 1)

\* What the host takes for an account's role and hash was so less than TTL ago,
\* whoever changed it and whatever a thread was doing (auth.py, _entry).
StaleOnlyForTTL ==
  \A n \in Names : cache[n] # None => cache[n].off < TTL /\ cache[n].off <= cache[n].age

\* After a change made through the dashboard the next request sees the new
\* value; only a command, a renaming, an account added under a name that was taken
\* meanwhile, or a login that had read the old one, leaves it in the cache
\* (auth.py, invalidate).
NextRequestSees ==
  \A n \in Names : cache[n] # None /\ ~cache[n].excused => Exists(n) /\ cache[n].creds = Creds(n)

\* The cache is never older than it may be.
CacheIsFresh == StaleOnlyForTTL /\ NextRequestSees

\* There is an admin, unless two removals overlapped (db.py, remove_user).
AdminRemains == Admins # {} \/ overlap

\* A person has one account: the sign-ins of one subject, at the same time on
\* two threads, all end in the account the subject is linked to (auth.py,
\* oidc_signin).
SignedInIsLinked ==
  \A t \in Threads : threads[t].at = "found" /\ ~threads[t].moved =>
    Holder(threads[t].sub) = {threads[t].name}

Unopened(n) == Exists(n) /\ ~users[n].pass /\ ident[n] = None
BusyWith(n) == \E t \in Threads : threads[t].at \in {"link", "undo", "remove"} /\ threads[t].name = n

\* An account that nothing opens, having no password and no link, is one a
\* sign-in is busy with, one whose link was taken away, or one that a
\* restart or the rule on admins kept (auth.py, oidc_signin: "the empty one goes").
NothingEmptyStays ==
  \A n \in Names : Unopened(n) => BusyWith(n) \/ n \in orphaned \cup cut

\* Once its link is taken away, an account without a password has no session,
\* unless a login or sign-in had it in hand (main.py, api_user_unlink).
UnlinkEndsAccess == \A n \in cut \ ghosts : Unopened(n) => n \notin signed

\* The table of accounts stays sound: distinct hashes, no link without its account,
\* nothing empty that lingers, nobody signed in to what nothing opens.
AccountsAreSound == TypeOK /\ NothingEmptyStays /\ UnlinkEndsAccess
=============================================================================
