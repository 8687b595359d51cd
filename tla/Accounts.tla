------------------------------ MODULE Accounts ------------------------------
(***************************************************************************)
(* Accounts and sign-in: registration, login, change of password, Telegram *)
(* login, and the link of a Telegram user to an e-mail account, which      *)
(* merges the former into the latter.  A request reads what it needs,      *)
(* hashes or verifies a password in the thread pool, and writes at the     *)
(* end; what it read may be out of date by then.  No row is locked early:  *)
(* only the unique columns and the foreign keys meet its last transaction, *)
(* whose statements are invisible until they are committed together.       *)
(*                                                                         *)
(* Tokens name a user and never expire here.  Roles, names and languages   *)
(* are left out, and with them the repeated Telegram login, which refreshes *)
(* nothing else.  Requests that are refused where they start change        *)
(* nothing and are left out as well.                                       *)
(***************************************************************************)
EXTENDS Integers, FiniteSets

CONSTANTS
  Users,       \* values of users.id, never used twice
  Emails,      \* normalised e-mail addresses
  Telegrams,   \* Telegram user ids
  Words,       \* passwords
  Prefix,      \* the part of a password bcrypt looks at
  Veterans,    \* users whose hash is from before Argon2id or its present parameters
  Kinds,       \* portfolio data in use, among "wallet", "group"
  Requests,    \* requests that may be under way at once
  None,        \* SQL NULL, no row yet
  Deleted      \* the row has been deleted

ASSUME AccountAssumption ==
  /\ Prefix \in [Words -> Words]
  /\ Veterans \subseteq Users
  /\ Kinds \subseteq {"wallet", "group"}
  /\ {None, Deleted} \cap (Users \cup Emails \cup Telegrams \cup Words) = {}
  /\ None # Deleted

VARIABLES
  users,     \* table users: a row, None or Deleted, by id
  account,   \* table telegram_accounts: the user of each Telegram id, or None
  data,      \* kinds of portfolio data each user has
  request,   \* the local state of each request
  counted,   \* REGISTRATION_COMPLETED, channel telegram
  chosen     \* the passwords a user may sign in with since one was last set (history)

vars == <<users, account, data, request, counted, chosen>>

\* Argon2id with the parameters in use, Argon2id with others, and bcrypt.
Hash == [word : Words, form : {"argon2", "older", "bcrypt"}]
Row == [email : Emails \cup {None}, hash : Hash \cup {None}]
ASSUME RowAssumption == {None, Deleted} \cap (Row \cup Hash) = {}

Live(u) == users[u] \notin {None, Deleted}

\* The steps of a link.
Linking == {"link", "wallets", "groups", "merge"}

Request == [pc : {"idle", "register", "login", "change", "enter"} \cup Linking,
            user : Users \cup {None}, telegram : Telegrams \cup {None},
            email : Emails \cup {None}, target : Users \cup {None},
            word : Words \cup {None}, new : Words \cup {None},
            copy : Hash \cup {None}, had : SUBSET Kinds]

Idle == [pc |-> "idle", user |-> None, telegram |-> None, email |-> None, target |-> None,
         word |-> None, new |-> None, copy |-> None, had |-> {}]

\* verify_password_and_update: bcrypt looks at the first 72 bytes only.
Verifies(w, h) ==
  IF h.form = "bcrypt" THEN Prefix[w] = Prefix[h.word] ELSE w = h.word

\* hash_password.
Hashed(w) == [word |-> w, form |-> "argon2"]

\* A slip: every hash is replaced at every login.
OutdatedAlways(h) == TRUE

\* verify_password_and_update: a bcrypt hash is replaced once it was verified,
\* and so is one of Argon2id with other parameters (check_needs_rehash).
Outdated(h) == h.form # "argon2"

\* Request q has verified a password against an outdated hash of user u, and
\* is about to store a new hash of it.
Rehashes(q, u) ==
  /\ \/ q.pc = "login" /\ q.user = u
     \/ q.pc \in Linking /\ q.target = u
  /\ Outdated(q.copy)

\* The passwords that are about to be hashed anew for user u.
Rehashing(u) == {request[r].word : r \in {x \in Requests : Rehashes(request[x], u)}}

\* The user with an e-mail address.
Having(e) == {u \in Users : Live(u) /\ users[u].email = e}

-----------------------------------------------------------------------------
Init ==
  /\ \E e \in [Veterans -> Emails], h \in [Veterans -> {x \in Hash : Outdated(x)}] :
       /\ \A u, v \in Veterans : e[u] = e[v] => u = v
       /\ users = [u \in Users |->
            IF u \in Veterans THEN [email |-> e[u], hash |-> h[u]] ELSE None]
       /\ chosen = [u \in Users |->
            IF u \in Veterans THEN {w \in Words : Verifies(w, h[u])} ELSE {}]
  /\ account = [t \in Telegrams |-> None]
  /\ data = [u \in Users |-> {}]
  /\ request = [r \in Requests |-> Idle]
  /\ counted = 0

\* The bound on users.id: one value is left for each request that inserts.
IdsLeft ==
  Cardinality({u \in Users : users[u] = None})
    > Cardinality({r \in Requests : request[r].pc \in {"register", "enter"}})

End(r) == request' = [request EXCEPT ![r] = Idle]

\* POST /auth/register finds the address unused; the password is hashed.
AskRegister(r) ==
  /\ request[r].pc = "idle"
  /\ IdsLeft
  /\ \E e \in Emails, w \in Words :
       /\ Having(e) = {}
       /\ request' = [request EXCEPT ![r] =
            [Idle EXCEPT !.pc = "register", !.email = e, !.word = w]]
  /\ UNCHANGED <<users, account, data, counted, chosen>>

\* A slip: users.email is not unique.
RegisterTwice(r) ==
  LET q == request[r] IN
  /\ q.pc = "register"
  /\ \E u \in Users :
       /\ users[u] = None
       /\ users' = [users EXCEPT ![u] = [email |-> q.email, hash |-> Hashed(q.word)]]
       /\ chosen' = [chosen EXCEPT ![u] = {q.word}]
  /\ End(r)
  /\ UNCHANGED <<account, data, counted>>

\* INSERT and COMMIT, ...
Register(r) ==
  LET q == request[r] IN
  /\ q.pc = "register"
  /\ Having(q.email) = {}
  /\ \E u \in Users :
       /\ users[u] = None
       /\ users' = [users EXCEPT ![u] = [email |-> q.email, hash |-> Hashed(q.word)]]
       /\ chosen' = [chosen EXCEPT ![u] = {q.word}]
  /\ End(r)
  /\ UNCHANGED <<account, data, counted>>

\* ... or 409, since another request inserted the address meanwhile.
RegisterConflict(r) ==
  /\ request[r].pc = "register"
  /\ Having(request[r].email) # {}
  /\ End(r)
  /\ UNCHANGED <<users, account, data, counted, chosen>>

\* POST /auth/login with a user's password; it is verified in the pool.
AskLogin(r) ==
  /\ request[r].pc = "idle"
  /\ \E u \in Users, w \in Words :
       /\ Live(u)
       /\ users[u].email # None /\ users[u].hash # None
       /\ Verifies(w, users[u].hash)
       /\ request' = [request EXCEPT ![r] =
            [Idle EXCEPT !.pc = "login", !.user = u, !.word = w, !.copy = users[u].hash]]
  /\ UNCHANGED <<users, account, data, counted, chosen>>

\* An outdated hash is replaced; the UPDATE of a user that is gone fails, and
\* so does the request.
Login(r) ==
  LET q == request[r] IN
  /\ q.pc = "login"
  /\ users' = IF Outdated(q.copy) /\ Live(q.user)
              THEN [users EXCEPT ![q.user].hash = Hashed(q.word)] ELSE users
  /\ End(r)
  /\ UNCHANGED <<account, data, counted, chosen>>

\* POST /auth/change-password with the present password and another one.
AskChange(r) ==
  /\ request[r].pc = "idle"
  /\ \E u \in Users, w, n \in Words :
       /\ Live(u)
       /\ users[u].hash # None
       /\ w # n
       /\ Verifies(w, users[u].hash)
       /\ request' = [request EXCEPT ![r] =
            [Idle EXCEPT !.pc = "change", !.user = u, !.new = n]]
  /\ UNCHANGED <<users, account, data, counted, chosen>>

\* UPDATE and COMMIT: the user may be gone by now.  A login or link under way
\* that verified an outdated hash will overwrite the new one.
Change(r) ==
  LET q == request[r] IN
  /\ q.pc = "change"
  /\ IF Live(q.user)
     THEN /\ users' = [users EXCEPT ![q.user].hash = Hashed(q.new)]
          /\ chosen' = [chosen EXCEPT ![q.user] = {q.new} \cup Rehashing(q.user)]
     ELSE UNCHANGED <<users, chosen>>
  /\ End(r)
  /\ UNCHANGED <<account, data, counted>>

\* POST /auth/telegram of an identity that is unknown so far.
AskEnter(r) ==
  /\ request[r].pc = "idle"
  /\ IdsLeft
  /\ \E t \in Telegrams :
       /\ account[t] = None
       /\ request' = [request EXCEPT ![r] = [Idle EXCEPT !.pc = "enter", !.telegram = t]]
  /\ UNCHANGED <<users, account, data, counted, chosen>>

\* A slip: the user is committed before the identity.
EnterInTwo(r) ==
  LET t == request[r].telegram IN
  /\ request[r].pc = "enter"
  /\ \E u \in Users :
       /\ users[u] = None
       /\ users' = [users EXCEPT ![u] = [email |-> None, hash |-> None]]
       /\ account' = IF account[t] = None THEN [account EXCEPT ![t] = u] ELSE account
       /\ counted' = IF account[t] = None THEN counted + 1 ELSE counted
  /\ End(r)
  /\ UNCHANGED <<data, chosen>>

\* A slip: the counter runs before the commit.
EnterCountedFirst(r) ==
  LET t == request[r].telegram IN
  /\ request[r].pc = "enter"
  /\ IF account[t] = None
     THEN \E u \in Users :
            /\ users[u] = None
            /\ users' = [users EXCEPT ![u] = [email |-> None, hash |-> None]]
            /\ account' = [account EXCEPT ![t] = u]
     ELSE UNCHANGED <<users, account>>
  /\ counted' = counted + 1
  /\ End(r)
  /\ UNCHANGED <<data, chosen>>

\* A user without e-mail and the identity are inserted and committed, ...
Enter(r) ==
  LET t == request[r].telegram IN
  /\ request[r].pc = "enter"
  /\ account[t] = None
  /\ \E u \in Users :
       /\ users[u] = None
       /\ users' = [users EXCEPT ![u] = [email |-> None, hash |-> None]]
       /\ account' = [account EXCEPT ![t] = u]
  /\ counted' = counted + 1
  /\ End(r)
  /\ UNCHANGED <<data, chosen>>

\* ... or the identity appeared meanwhile: the second flush fails, outside the
\* try block that would turn it into 409, and everything is rolled back.
EnterConflict(r) ==
  /\ request[r].pc = "enter"
  /\ account[request[r].telegram] # None
  /\ End(r)
  /\ UNCHANGED <<users, account, data, counted, chosen>>

\* POST /auth/telegram/link-email: the identity of the caller and the e-mail
\* user (target) are read, and the password is verified in the pool.  The
\* data the caller has when the request starts is remembered (history).
AskLink(r) ==
  /\ request[r].pc = "idle"
  /\ \E t \in Telegrams, v \in Users, w \in Words :
       /\ account[t] # None
       /\ Live(v)
       /\ users[v].email # None /\ users[v].hash # None
       /\ Verifies(w, users[v].hash)
       /\ request' = [request EXCEPT ![r] =
            [Idle EXCEPT !.pc = "link", !.user = account[t], !.telegram = t, !.target = v,
                         !.word = w, !.copy = users[v].hash, !.had = data[account[t]]]]
  /\ UNCHANGED <<users, account, data, counted, chosen>>

Goto(r, pc) == request' = [request EXCEPT ![r].pc = pc]

\* The e-mail user must be another one and have no Telegram identity, ...
CheckTarget(r) ==
  LET q == request[r] IN
  /\ q.pc = "link"
  /\ IF q.target = q.user \/ (\E t \in Telegrams : account[t] = q.target)
     THEN End(r) ELSE Goto(r, "wallets")
  /\ UNCHANGED <<users, account, data, counted, chosen>>

\* ... and the caller no wallets ...
CountWallets(r) ==
  LET q == request[r] IN
  /\ q.pc = "wallets"
  /\ IF "wallet" \in data[q.user] THEN End(r) ELSE Goto(r, "groups")
  /\ UNCHANGED <<users, account, data, counted, chosen>>

\* A slip: the groups are not looked at.
CountNoGroups(r) ==
  /\ request[r].pc = "groups"
  /\ Goto(r, "merge")
  /\ UNCHANGED <<users, account, data, counted, chosen>>

\* ... and no groups.
CountGroups(r) ==
  LET q == request[r] IN
  /\ q.pc = "groups"
  /\ IF "group" \in data[q.user] THEN End(r) ELSE Goto(r, "merge")
  /\ UNCHANGED <<users, account, data, counted, chosen>>

\* The rows to be updated exist, and the unique column and the foreign key of
\* telegram_accounts.user_id let the identity move.
LinkAllowed(q) ==
  /\ q.telegram # None
  /\ Live(q.target)
  /\ \A t \in Telegrams \ {q.telegram} : account[t] # q.target

\* The identities the deletion of the caller cascades to.
Lost(q) == {t \in Telegrams \ {q.telegram} : account[t] = q.user}

\* A slip: the caller is deleted first, and the identity with it.
MovedLate(q) == [t \in Telegrams |-> IF account[t] = q.user THEN None ELSE account[t]]

\* The identities after the move and the deletion.
Moved(q) ==
  [t \in Telegrams |-> IF t = q.telegram THEN q.target
                       ELSE IF t \in Lost(q) THEN None ELSE account[t]]

\* The identity moves, the hash is replaced if it has to be, and the caller is
\* deleted with all data: one transaction.  A caller that is gone already
\* matches no row, which is only a warning.  Links that had read an identity
\* which is lost here will not find its row again.
Merge(r) ==
  LET q == request[r] IN
  /\ q.pc = "merge"
  /\ LinkAllowed(q)
  /\ account' = Moved(q)
  /\ users' = [users EXCEPT ![q.target].hash = IF Outdated(q.copy) THEN Hashed(q.word) ELSE @,
                            ![q.user] = Deleted]
  /\ data' = [data EXCEPT ![q.user] = {}]
  /\ request' = [x \in Requests |->
       IF x = r THEN Idle
       ELSE IF request[x].pc \in Linking /\ request[x].telegram \in Lost(q)
       THEN [request[x] EXCEPT !.telegram = None] ELSE request[x]]
  /\ UNCHANGED <<counted, chosen>>

\* The transaction fails (500).
MergeFails(r) ==
  /\ request[r].pc = "merge"
  /\ ~LinkAllowed(request[r])
  /\ End(r)
  /\ UNCHANGED <<users, account, data, counted, chosen>>

\* Other endpoints give a user wallets or groups (whose foreign keys ask for
\* the user) ...
Acquire(u, k) ==
  /\ Live(u)
  /\ data' = [data EXCEPT ![u] = @ \cup {k}]
  /\ UNCHANGED <<users, account, request, counted, chosen>>

\* ... and take groups away again.  Wallets are only deactivated.
Drop(u, k) ==
  /\ k = "group" /\ k \in data[u]
  /\ data' = [data EXCEPT ![u] = @ \ {k}]
  /\ request' = [r \in Requests |-> IF request[r].user = u
                                    THEN [request[r] EXCEPT !.had = @ \ {k}] ELSE request[r]]
  /\ UNCHANGED <<users, account, counted, chosen>>

RequestStep(r) ==
  \/ AskRegister(r) \/ Register(r) \/ RegisterConflict(r)
  \/ AskLogin(r) \/ Login(r)
  \/ AskChange(r) \/ Change(r)
  \/ AskEnter(r) \/ Enter(r) \/ EnterConflict(r)
  \/ AskLink(r) \/ CheckTarget(r) \/ CountWallets(r) \/ CountGroups(r)
  \/ Merge(r) \/ MergeFails(r)

Next ==
  \/ \E r \in Requests : RequestStep(r)
  \/ \E u \in Users, k \in Kinds : Acquire(u, k) \/ Drop(u, k)

Spec == Init /\ [][Next]_vars

-----------------------------------------------------------------------------
(***************************************************************************)
(* Properties                                                              *)
(***************************************************************************)
\* Types of the tables and of the local state of the requests.
TypeOK ==
  /\ users \in [Users -> Row \cup {None, Deleted}]
  /\ account \in [Telegrams -> Users \cup {None}]
  /\ data \in [Users -> SUBSET Kinds]
  /\ request \in [Requests -> Request]
  /\ counted \in Nat
  /\ chosen \in [Users -> SUBSET Words]

\* Every way to sign in leads to one user: an e-mail address belongs to one
\* user, a user has one Telegram identity at most, and a known identity has a
\* user, whatever registrations, first logins and links meet.
IdentitiesUnique ==
  /\ \A u, v \in Users :
       u # v /\ Live(u) /\ Live(v) /\ users[u].email # None => users[u].email # users[v].email
  /\ \A t, s \in Telegrams : t # s /\ account[t] # None => account[t] # account[s]
  /\ \A t \in Telegrams : account[t] # None => Live(account[t])

\* No user is out of reach: one without e-mail and password has the Telegram
\* identity that leads to it.  Neither a first login that loses the race nor
\* a repeated link leaves one behind.
NoOrphans ==
  \A u \in Users :
    Live(u) /\ users[u].email = None => \E t \in Telegrams : account[t] = u

\* The identity of a Telegram-only user is never lost: the deletion of a merged
\* user does not cascade to it.
IdentityStays ==
  [][\A t \in Telegrams :
       account[t] # None /\ users[account[t]].email = None => account'[t] # None]_vars

\* A first Telegram login is counted once for the identity it creates, also
\* when two of them meet.
CountedOnce ==
  [][counted' = counted + Cardinality({t \in Telegrams : account[t] = None /\ account'[t] # None})]_vars

\* A password that was replaced signs nobody in, but for one that a login or
\* link had already verified against an outdated hash when it was replaced,
\* and hashes anew afterwards.  A user who registered under the parameters in
\* use has no outdated hash: the last password is the only one.
ChosenPasswordStays ==
  \A u \in Users :
    Live(u) /\ users[u].hash # None =>
      /\ \A w \in Words : Verifies(w, users[u].hash) => w \in chosen[u]
      /\ u \notin Veterans => chosen[u] = {users[u].hash.word}

\* A merge deletes no wallets or groups that the caller had when the request
\* for it arrived (and still has).
\* Data that comes later is another matter: see MergeTakesNoData.
MergeSparesOldData ==
  [][\A r \in Requests :
       Merge(r) => request[r].had \cap data[request[r].user] = {}]_vars

\* auth.py: "Telegram-only users can only be merged before they acquire
\* portfolio data": no data goes with a merged user.
MergeTakesNoData ==
  [][\A u \in Users : Live(u) /\ users'[u] = Deleted => data[u] = {}]_vars
=============================================================================
