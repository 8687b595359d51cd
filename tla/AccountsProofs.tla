--------------------------- MODULE AccountsProofs ---------------------------
(***************************************************************************)
(* Proofs about Accounts: identities stay unique and reachable, a password *)
(* that was replaced comes back only through a login or link that hashes   *)
(* it anew, a Telegram-only identity is not lost, a creation is counted    *)
(* once, and a merge deletes no data its caller had, for any number of     *)
(* users and requests.                                                     *)
(*                                                                         *)
(* The invariant is about identities, and adds what each request still     *)
(* knows from its first reads when it writes.  Two more stand next to it:  *)
(* the passwords that are about to be hashed anew, and the data a link     *)
(* remembers of its caller.                                                *)
(***************************************************************************)
EXTENDS Accounts, FiniteSetTheorems, TLAPS

\* What a request knows between its steps.
RegisterKnows(q) == q.pc = "register" => q.email \in Emails /\ q.word \in Words

LoginKnows(q) ==
  q.pc = "login" =>
    /\ q.user \in Users /\ q.word \in Words /\ q.copy \in Hash
    /\ q.user \notin Veterans => ~Outdated(q.copy)

ChangeKnows(q) == q.pc = "change" => q.user \in Users /\ q.new \in Words

EnterKnows(q) == q.pc = "enter" => q.telegram \in Telegrams

LinkKnows(q) ==
  q.pc \in Linking =>
    /\ q.user \in Users /\ q.target \in Users
    /\ q.word \in Words /\ q.copy \in Hash
    /\ q.target \notin Veterans => ~Outdated(q.copy)
    /\ q.pc # "link" => q.target # q.user
    /\ users[q.user] # None /\ users[q.target] # None
    /\ Live(q.target) => users[q.target].email # None

\* The identity a link is about to move still belongs to its caller, or it has
\* moved to an e-mail user already and the caller is no Telegram-only user.
IdentityKnown(q) ==
  q.pc \in Linking /\ q.telegram # None =>
    /\ account[q.telegram] # None
    /\ \/ account[q.telegram] = q.user
       \/ /\ Live(q.user) => users[q.user].email # None
          /\ users[account[q.telegram]].email # None

Knows(q) ==
  /\ RegisterKnows(q) /\ LoginKnows(q) /\ ChangeKnows(q) /\ EnterKnows(q)
  /\ LinkKnows(q) /\ IdentityKnown(q)

\* Only users from before the parameters in use have outdated hashes.
HashForms ==
  \A u \in Users \ Veterans : Live(u) /\ users[u].hash # None => ~Outdated(users[u].hash)

Known == \A r \in Requests : Knows(request[r])

IInv ==
  /\ TypeOK /\ IdentitiesUnique /\ NoOrphans
  /\ HashForms /\ Known

-----------------------------------------------------------------------------
\* Rows are rows.
LEMMA Rows ==
  ASSUME TypeOK
  PROVE  /\ \A u \in Users : Live(u) => /\ users[u] \in Row
                                       /\ users[u].email \in Emails \cup {None}
                                       /\ users[u].hash \in Hash \cup {None}
         /\ None \notin Row /\ Deleted \notin Row /\ None \notin Hash
         /\ None # Deleted /\ None \notin Users /\ None \notin Telegrams
         /\ None \notin Emails /\ None \notin Words
  BY AccountAssumption, RowAssumption DEF TypeOK, Live, Row

\* An idle request knows nothing.
LEMMA IdleKnows == Knows(Idle) /\ Idle \in Request
  BY DEF Knows, RegisterKnows, LoginKnows, ChangeKnows, EnterKnows, LinkKnows,
         IdentityKnown, Idle, Linking, Request

\* A step that deletes nobody and moves no identity.
Kept ==
  /\ \A u \in Users : /\ Live(u) => Live(u)' /\ users'[u].email = users[u].email
                      /\ users[u] = Deleted => users'[u] = Deleted
  /\ \A t \in Telegrams : account[t] # None => account'[t] = account[t]

\* What a request knows stays true under such a step of another one.
LEMMA KnowsKept ==
  ASSUME TypeOK, IdentitiesUnique, Kept, NEW q \in Request, Knows(q)
  PROVE  Knows(q)'
<1>1. LinkKnows(q)'
  BY Rows DEF Kept, Knows, LinkKnows, Live, Outdated
<1>2. IdentityKnown(q)'
  <2> SUFFICES ASSUME q.pc \in Linking, q.telegram # None
               PROVE  IdentityKnown(q)'
    BY DEF IdentityKnown
  <2>1. q.telegram \in Telegrams /\ q.user \in Users /\ users[q.user] # None
    BY DEF Request, Knows, LinkKnows
  <2>2. /\ account[q.telegram] # None /\ account[q.telegram] \in Users
        /\ Live(account[q.telegram])
    BY <2>1 DEF Knows, IdentityKnown, TypeOK, IdentitiesUnique
  <2>3. account'[q.telegram] = account[q.telegram]
    BY <2>1, <2>2 DEF Kept
  <2>4. users'[account[q.telegram]].email = users[account[q.telegram]].email
    BY <2>2 DEF Kept
  <2>5. (Live(q.user))' => Live(q.user) /\ users'[q.user].email = users[q.user].email
    BY <2>1 DEF Kept, Live
  <2> QED
    BY <2>2, <2>3, <2>4, <2>5 DEF Knows, IdentityKnown
<1> QED
  BY <1>1, <1>2 DEF Knows, RegisterKnows, LoginKnows, ChangeKnows, EnterKnows, Outdated

\* The same for all requests, when request r alone takes the step.
LEMMA KnownKept ==
  ASSUME TypeOK, IdentitiesUnique, Known, Kept, NEW r \in Requests, NEW q,
         request' = [request EXCEPT ![r] = q], Knows(q)'
  PROVE  Known'
<1> USE DEF Knows, RegisterKnows, LoginKnows, ChangeKnows, EnterKnows, LinkKnows,
            IdentityKnown, Outdated, Live
<1> SUFFICES ASSUME NEW x \in Requests PROVE Knows(request[x])'
  BY DEF Known
<1>1. CASE x = r
  <2>1. request'[x] = q
    BY <1>1 DEF TypeOK
  <2> QED BY <2>1
<1>2. CASE x # r
  <2>1. PICK c \in Request : c = request[x]
    BY DEF TypeOK
  <2>2. request'[x] = c
    BY <1>2, <2>1 DEF TypeOK
  <2>3. Knows(c)
    BY <2>1 DEF Known
  <2>4. Knows(c)'
    BY <2>3, KnowsKept
  <2> QED BY <2>2, <2>4
<1> QED BY <1>1, <1>2

-----------------------------------------------------------------------------
\* Before any request the invariant holds.
LEMMA InitInv == Init => IInv
<1> SUFFICES ASSUME Init PROVE IInv
  OBVIOUS
<1>1. PICK e \in [Veterans -> Emails], h \in [Veterans -> {x \in Hash : Outdated(x)}] :
        /\ \A u, v \in Veterans : e[u] = e[v] => u = v
        /\ users = [u \in Users |->
             IF u \in Veterans THEN [email |-> e[u], hash |-> h[u]] ELSE None]
        /\ chosen = [u \in Users |->
             IF u \in Veterans THEN {w \in Words : Verifies(w, h[u])} ELSE {}]
  BY DEF Init
<1>2. \A u \in Users : Live(u) => u \in Veterans /\ users[u].email = e[u]
  BY <1>1 DEF Live
<1>3. TypeOK
  <2>1. \A u \in Veterans : h[u] \in Hash /\ e[u] \in Emails
    BY <1>1
  <2>2. \A u \in Veterans : [email |-> e[u], hash |-> h[u]] \in Row
    BY <2>1 DEF Row
  <2>3. users \in [Users -> Row \cup {None, Deleted}]
    BY <1>1, <2>2
  <2>4. chosen \in [Users -> SUBSET Words]
    BY <1>1
  <2> QED BY <2>3, <2>4, IdleKnows DEF Init, TypeOK
<1>4. IdentitiesUnique
  BY <1>1, <1>2 DEF Init, IdentitiesUnique
<1>5. NoOrphans
  BY <1>2, AccountAssumption DEF NoOrphans
<1>6. HashForms
  BY <1>2 DEF HashForms
<1>7. Known
  BY IdleKnows DEF Init, Known
<1> QED BY <1>3, <1>4, <1>5, <1>6, <1>7 DEF IInv

\* A step of request r that changes no user and no identity.
LEMMA ReadStep ==
  ASSUME IInv, NEW r \in Requests, NEW q \in Request, Knows(q),
         request' = [request EXCEPT ![r] = q],
         UNCHANGED <<users, account, data, counted, chosen>>
  PROVE  IInv'
<1>1. TypeOK'
  BY DEF IInv, TypeOK
<1>2. Kept
  BY DEF Kept, Live
<1>3. Knows(q)'
  BY <1>2, KnowsKept DEF IInv
<1>4. Known'
  BY <1>2, <1>3, KnownKept DEF IInv
<1>5. IdentitiesUnique' /\ NoOrphans' /\ HashForms'
  BY DEF IInv, IdentitiesUnique, NoOrphans, HashForms, Live
<1> QED BY <1>1, <1>4, <1>5 DEF IInv

\* An end that changes no user and no identity: a refusal or a conflict.
LEMMA IdleStep ==
  ASSUME IInv, NEW r \in Requests, End(r), UNCHANGED <<users, account, data, counted, chosen>>
  PROVE  IInv'
BY ReadStep, IdleKnows DEF End

\* A registration reads the users and hashes: it will write a new hash.
LEMMA AskRegisterStep == ASSUME IInv, NEW r \in Requests, AskRegister(r) PROVE IInv'
<1>1. PICK e \in Emails, w \in Words :
        request' = [request EXCEPT ![r] =
                      [Idle EXCEPT !.pc = "register", !.email = e, !.word = w]]
  BY DEF AskRegister
<1> DEFINE q == [Idle EXCEPT !.pc = "register", !.email = e, !.word = w]
<1>2. q \in Request
  BY DEF Idle, Request
<1>3. Knows(q)
  BY DEF Idle, Linking, Knows, RegisterKnows, LoginKnows, ChangeKnows, EnterKnows, LinkKnows,
         IdentityKnown
<1> QED BY <1>1, <1>2, <1>3, ReadStep DEF AskRegister

\* A login verifies the hash it read: it will replace an outdated one only.
LEMMA AskLoginStep == ASSUME IInv, NEW r \in Requests, AskLogin(r) PROVE IInv'
<1>1. PICK u \in Users, w \in Words :
        /\ Live(u) /\ users[u].email # None /\ users[u].hash # None
        /\ request' = [request EXCEPT ![r] =
             [Idle EXCEPT !.pc = "login", !.user = u, !.word = w, !.copy = users[u].hash]]
  BY DEF AskLogin
<1>2. PICK h \in Hash : h = users[u].hash
  BY <1>1, Rows DEF IInv
<1> DEFINE q == [Idle EXCEPT !.pc = "login", !.user = u, !.word = w, !.copy = h]
<1>3. q \in Request
  BY DEF Idle, Request
<1>4. u \notin Veterans => ~Outdated(h)
  BY <1>1, <1>2 DEF IInv, HashForms
<1>5. Knows(q)
  BY <1>4 DEF Idle, Linking, Knows, RegisterKnows, LoginKnows, ChangeKnows, EnterKnows,
              LinkKnows, IdentityKnown
<1>6. request' = [request EXCEPT ![r] = q]
  BY <1>1, <1>2
<1> HIDE DEF q
<1> QED BY <1>3, <1>5, <1>6, ReadStep DEF AskLogin

\* A change of password: it will write the hash it has made.
LEMMA AskChangeStep == ASSUME IInv, NEW r \in Requests, AskChange(r) PROVE IInv'
<1>1. PICK u \in Users, n \in Words :
        request' = [request EXCEPT ![r] =
                      [Idle EXCEPT !.pc = "change", !.user = u, !.new = n]]
  BY DEF AskChange
<1> DEFINE q == [Idle EXCEPT !.pc = "change", !.user = u, !.new = n]
<1>2. q \in Request
  BY DEF Idle, Request
<1>3. Knows(q)
  BY DEF Idle, Linking, Knows, RegisterKnows, LoginKnows, ChangeKnows, EnterKnows, LinkKnows,
         IdentityKnown
<1> QED BY <1>1, <1>2, <1>3, ReadStep DEF AskChange

\* A first Telegram login: it has seen that the identity has no user.
LEMMA AskEnterStep == ASSUME IInv, NEW r \in Requests, AskEnter(r) PROVE IInv'
<1>1. PICK t \in Telegrams :
        request' = [request EXCEPT ![r] = [Idle EXCEPT !.pc = "enter", !.telegram = t]]
  BY DEF AskEnter
<1> DEFINE q == [Idle EXCEPT !.pc = "enter", !.telegram = t]
<1>2. q \in Request
  BY DEF Idle, Request
<1>3. Knows(q)
  BY DEF Idle, Linking, Knows, RegisterKnows, LoginKnows, ChangeKnows, EnterKnows, LinkKnows,
         IdentityKnown
<1> QED BY <1>1, <1>2, <1>3, ReadStep DEF AskEnter

\* A link reads the identity of its caller, which is the caller's here.
LEMMA AskLinkStep == ASSUME IInv, NEW r \in Requests, AskLink(r) PROVE IInv'
<1>1. PICK t \in Telegrams, v \in Users, w \in Words :
        /\ account[t] # None
        /\ Live(v) /\ users[v].email # None /\ users[v].hash # None
        /\ request' = [request EXCEPT ![r] =
             [Idle EXCEPT !.pc = "link", !.user = account[t], !.telegram = t, !.target = v,
                          !.word = w, !.copy = users[v].hash, !.had = data[account[t]]]]
  BY DEF AskLink
<1>2. PICK h \in Hash : h = users[v].hash
  BY <1>1, Rows DEF IInv
<1>3. PICK u \in Users : u = account[t]
  BY <1>1 DEF IInv, TypeOK
<1>4. PICK d \in SUBSET Kinds : d = data[u]
  BY DEF IInv, TypeOK
<1> DEFINE q == [Idle EXCEPT !.pc = "link", !.user = u, !.telegram = t, !.target = v,
                             !.word = w, !.copy = h, !.had = d]
<1>5. q \in Request
  BY DEF Idle, Request, Linking
<1>6. /\ v \notin Veterans => ~Outdated(h)
      /\ users[u] # None /\ users[v] # None
  BY <1>1, <1>2, <1>3 DEF IInv, HashForms, IdentitiesUnique, Live
<1>7. Knows(q)
  BY <1>1, <1>3, <1>6 DEF Idle, Linking, Knows, RegisterKnows, LoginKnows, ChangeKnows,
                          EnterKnows, LinkKnows, IdentityKnown
<1>8. request' = [request EXCEPT ![r] = q]
  BY <1>1, <1>2, <1>3, <1>4
<1> HIDE DEF q
<1> QED BY <1>5, <1>7, <1>8, ReadStep DEF AskLink

\* The reads of a link between its first one and the merge.
LEMMA GotoStep ==
  ASSUME IInv, NEW r \in Requests, NEW pc \in {"wallets", "groups", "merge"},
         request[r].pc \in Linking, request[r].target # request[r].user, Goto(r, pc),
         UNCHANGED <<users, account, data, counted, chosen>>
  PROVE  IInv'
<1>1. PICK c \in Request : c = request[r]
  BY DEF IInv, TypeOK
<1> DEFINE q == [c EXCEPT !.pc = pc]
<1>2. q \in Request
  BY DEF Request, Linking
<1>3. Knows(c)
  BY <1>1 DEF IInv, Known
<1>4. /\ q.pc = pc /\ q.user = c.user /\ q.target = c.target /\ q.telegram = c.telegram
      /\ q.word = c.word /\ q.copy = c.copy
  BY DEF Request
<1>5. request' = [request EXCEPT ![r] = q]
  BY <1>1 DEF Goto, IInv, TypeOK
<1> HIDE DEF q
<1>6. Knows(q)
  BY <1>1, <1>3, <1>4 DEF Linking, Knows, RegisterKnows, LoginKnows, ChangeKnows,
                          EnterKnows, LinkKnows, IdentityKnown
<1> QED BY <1>2, <1>5, <1>6, ReadStep

\* A link looks whether its target has an identity of its own.
LEMMA CheckTargetStep == ASSUME IInv, NEW r \in Requests, CheckTarget(r) PROVE IInv'
<1>1. CASE End(r)
  BY <1>1, IdleStep DEF CheckTarget
<1>2. CASE Goto(r, "wallets") /\ request[r].target # request[r].user
  BY <1>2, GotoStep DEF CheckTarget, Linking
<1> QED BY <1>1, <1>2 DEF CheckTarget

\* A link counts wallets, or groups, of its caller.
LEMMA CountStep ==
  ASSUME IInv, NEW r \in Requests, CountWallets(r) \/ CountGroups(r) PROVE IInv'
<1>1. request[r].pc \in Linking /\ request[r].target # request[r].user
  BY DEF CountWallets, CountGroups, Linking, IInv, Known, Knows, LinkKnows
<1>2. End(r) \/ Goto(r, "groups") \/ Goto(r, "merge")
  BY DEF CountWallets, CountGroups
<1>3. UNCHANGED <<users, account, data, counted, chosen>>
  BY DEF CountWallets, CountGroups
<1> QED BY <1>1, <1>2, <1>3, IdleStep, GotoStep

-----------------------------------------------------------------------------
\* A registration inserts a row nobody refers to yet.
LEMMA RegisterStep == ASSUME IInv, NEW r \in Requests, Register(r) PROVE IInv'
<1> USE DEF Live
<1>1. PICK u \in Users :
        /\ users[u] = None
        /\ users' = [users EXCEPT ![u] = [email |-> request[r].email,
                                          hash |-> Hashed(request[r].word)]]
        /\ chosen' = [chosen EXCEPT ![u] = {request[r].word}]
  BY DEF Register
<1>2. /\ request[r].email \in Emails /\ request[r].word \in Words
      /\ Having(request[r].email) = {}
  BY DEF Register, IInv, Known, Knows, RegisterKnows
<1> DEFINE row == [email |-> request[r].email, hash |-> Hashed(request[r].word)]
<1>3. row \in Row /\ row \notin {None, Deleted}
  BY <1>2, RowAssumption DEF Row, Hash, Hashed
<1>4. /\ users' \in [Users -> Row \cup {None, Deleted}] /\ users'[u] = row
      /\ \A v \in Users \ {u} : users'[v] = users[v]
  BY <1>1, <1>3 DEF IInv, TypeOK
<1>5. TypeOK'
  BY <1>1, <1>2, <1>4, IdleKnows DEF IInv, TypeOK, Register, End
<1>6. Kept
  BY <1>1, <1>4, Rows DEF IInv, Kept, Register
<1>7. Known'
  BY <1>6, IdleKnows, KnownKept, KnowsKept DEF IInv, Register, End
<1>8. IdentitiesUnique'
  <2>1. \A v \in Users : Live(v) => users[v].email # request[r].email
    BY <1>2 DEF Having
  <2>2. \A t \in Telegrams : account[t] # u
    BY <1>1, Rows DEF IInv, IdentitiesUnique
  <2> QED BY <1>3, <1>4, <2>1, <2>2 DEF IInv, TypeOK, IdentitiesUnique, Register
<1>9. NoOrphans'
  BY <1>2, <1>4, Rows DEF IInv, NoOrphans, Register
<1>10. HashForms'
  BY <1>1, <1>4, AccountAssumption
     DEF IInv, TypeOK, HashForms, Hashed, Outdated
<1> QED BY <1>5, <1>7, <1>8, <1>9, <1>10 DEF IInv

\* A step that gives user u another hash.
LEMMA HashStep ==
  ASSUME IInv, NEW r \in Requests, NEW u \in Users, NEW w \in Words, Live(u),
         users' = [users EXCEPT ![u].hash = Hashed(w)],
         chosen' \in [Users -> SUBSET Words],
         End(r), UNCHANGED <<account, data, counted>>
  PROVE  IInv'
<1> USE DEF Live
<1>1. Hashed(w) \in Hash /\ ~Outdated(Hashed(w)) /\ Hashed(w).word = w
  BY DEF Hash, Hashed, Outdated
<1>2. PICK row \in Row : row = [users[u] EXCEPT !.hash = Hashed(w)]
  BY <1>1, Rows DEF IInv, Row
<1>3. row.email = users[u].email /\ row.hash = Hashed(w) /\ row \notin {None, Deleted}
  BY <1>2, Rows, RowAssumption DEF IInv, Row
<1>4. /\ users' \in [Users -> Row \cup {None, Deleted}] /\ users'[u] = row
      /\ \A v \in Users \ {u} : users'[v] = users[v]
  BY <1>2 DEF IInv, TypeOK
<1>5. TypeOK'
  BY <1>4, IdleKnows DEF IInv, TypeOK, End
<1>6. Kept
  BY <1>3, <1>4 DEF Kept
<1>7. Known'
  BY <1>6, IdleKnows, KnownKept, KnowsKept DEF IInv, End
<1>8. IdentitiesUnique' /\ NoOrphans'
  BY <1>3, <1>4 DEF IInv, TypeOK, IdentitiesUnique, NoOrphans
<1>9. HashForms'
  BY <1>1, <1>3, <1>4 DEF IInv, HashForms
<1> QED BY <1>5, <1>7, <1>8, <1>9 DEF IInv

\* A login replaces an outdated hash.
LEMMA LoginStep == ASSUME IInv, NEW r \in Requests, Login(r) PROVE IInv'
<1>1. request[r].user \in Users /\ request[r].word \in Words
  BY DEF Login, IInv, Known, Knows, LoginKnows
<1>2. CASE Outdated(request[r].copy) /\ Live(request[r].user)
  BY <1>1, <1>2, HashStep DEF Login, IInv, TypeOK
<1>3. CASE ~(Outdated(request[r].copy) /\ Live(request[r].user))
  BY <1>3, IdleStep DEF Login
<1> QED BY <1>2, <1>3

\* A change of password replaces the hash of its caller.
LEMMA ChangeStep == ASSUME IInv, NEW r \in Requests, Change(r) PROVE IInv'
<1>1. request[r].user \in Users /\ request[r].new \in Words
  BY DEF Change, IInv, Known, Knows, ChangeKnows
<1>2. CASE Live(request[r].user)
  <2>1. Rehashing(request[r].user) \subseteq Words
    BY DEF Rehashing, Rehashes, IInv, Known, Knows, LoginKnows, LinkKnows
  <2>2. chosen' \in [Users -> SUBSET Words]
    BY <1>1, <1>2, <2>1 DEF Change, IInv, TypeOK
  <2> QED BY <1>1, <1>2, <2>2, HashStep DEF Change
<1>3. CASE ~Live(request[r].user)
  BY <1>3, IdleStep DEF Change
<1> QED BY <1>2, <1>3

\* A first login inserts a user together with its identity, in one commit.
LEMMA EnterStep == ASSUME IInv, NEW r \in Requests, Enter(r) PROVE IInv'
<1> USE DEF Live
<1> DEFINE t == request[r].telegram
           row == [email |-> None, hash |-> None]
<1>1. PICK u \in Users :
        users[u] = None /\ users' = [users EXCEPT ![u] = row] /\ account' = [account EXCEPT ![t] = u]
  BY DEF Enter
<1>2. t \in Telegrams /\ account[t] = None
  BY DEF Enter, IInv, Known, Knows, EnterKnows
<1>3. row \in Row /\ row \notin {None, Deleted} /\ row.email = None /\ row.hash = None
  BY RowAssumption DEF Row
<1> HIDE DEF t, row
<1>4. /\ users' \in [Users -> Row \cup {None, Deleted}] /\ users'[u] = row
      /\ \A v \in Users \ {u} : users'[v] = users[v]
      /\ account' \in [Telegrams -> Users \cup {None}] /\ account'[t] = u
      /\ \A s \in Telegrams \ {t} : account'[s] = account[s]
  BY <1>1, <1>2, <1>3 DEF IInv, TypeOK
<1>5. TypeOK'
  BY <1>4, IdleKnows DEF IInv, TypeOK, Enter, End
<1>6. Kept
  BY <1>1, <1>2, <1>4, Rows DEF IInv, Kept
<1>7. Known'
  BY <1>6, IdleKnows, KnownKept, KnowsKept DEF IInv, Enter, End
<1>8. \A s \in Telegrams : account[s] # u
  BY <1>1, Rows DEF IInv, IdentitiesUnique
<1>9. IdentitiesUnique'
  BY <1>2, <1>3, <1>4, <1>8 DEF IInv, TypeOK, IdentitiesUnique
<1>10. NoOrphans'
  <2> SUFFICES ASSUME NEW v \in Users \ {u}, Live(v), users[v].email = None
               PROVE  \E s \in Telegrams : account'[s] = v
    BY <1>2, <1>4 DEF NoOrphans
  <2>1. PICK s \in Telegrams : account[s] = v
    BY DEF IInv, NoOrphans
  <2>2. s # t
    BY <1>2, <2>1, Rows DEF IInv
  <2> QED BY <1>4, <2>1, <2>2
<1>11. HashForms'
  BY <1>3, <1>4 DEF IInv, HashForms, Enter
<1> QED BY <1>5, <1>7, <1>9, <1>10, <1>11 DEF IInv

\* What a merge starts from.
LEMMA MergeKnows ==
  ASSUME IInv, NEW r \in Requests, Merge(r), NEW q, q = request[r]
  PROVE  /\ q.telegram \in Telegrams /\ q.user \in Users /\ q.target \in Users \ {q.user}
         /\ q.word \in Words /\ q.copy \in Hash
         /\ users[q.user] # None /\ Live(q.target) /\ users[q.target].email # None
         /\ q.target \notin Veterans => ~Outdated(q.copy)
         /\ account[q.telegram] \in Users /\ Live(account[q.telegram])
         /\ \A t \in Telegrams \ {q.telegram} : account[t] # q.target
         /\ \/ account[q.telegram] = q.user
            \/ /\ Live(q.user) => users[q.user].email # None
               /\ users[account[q.telegram]].email # None
<1>1. q \in Request /\ q.pc = "merge" /\ LinkAllowed(q) /\ LinkKnows(q) /\ IdentityKnown(q)
  BY DEF Merge, IInv, TypeOK, Known, Knows
<1>2. q.telegram \in Telegrams
  BY <1>1 DEF Request, LinkAllowed
<1>3. /\ account[q.telegram] # None
      /\ \/ account[q.telegram] = q.user
         \/ /\ Live(q.user) => users[q.user].email # None
            /\ users[account[q.telegram]].email # None
  BY <1>1 DEF IdentityKnown, LinkAllowed, Linking
<1>4. account[q.telegram] \in Users /\ Live(account[q.telegram])
  BY <1>2, <1>3 DEF IInv, TypeOK, IdentitiesUnique
<1>5. /\ q.user \in Users /\ q.target \in Users /\ q.target # q.user
      /\ q.word \in Words /\ q.copy \in Hash
      /\ users[q.user] # None /\ Live(q.target) /\ users[q.target].email # None
      /\ q.target \notin Veterans => ~Outdated(q.copy)
  BY <1>1 DEF LinkKnows, LinkAllowed, Linking
<1> QED BY <1>1, <1>2, <1>3, <1>4, <1>5 DEF LinkAllowed

\* What one link knows stays true when another one merges.
LEMMA MergeKept ==
  ASSUME IInv, NEW r \in Requests, Merge(r), NEW m, m = request[r],
         NEW q \in Request, Knows(q), q.pc \in Linking => q.telegram \notin Lost(m),
         \A u \in Users \ {m.user} :
           (Live(u)' <=> Live(u)) /\ (Live(u) => users'[u].email = users[u].email),
         \A u \in Users : users[u] # None => users'[u] # None,
         users'[m.user] = Deleted
  PROVE  Knows(q)'
<1>1. LinkKnows(q)'
  <2> SUFFICES ASSUME q.pc \in Linking
               PROVE  /\ users'[q.user] # None /\ users'[q.target] # None
                      /\ Live(q.target)' => users'[q.target].email # None
    BY DEF Knows, LinkKnows, Outdated
  <2>1. /\ q.user \in Users /\ q.target \in Users
        /\ users[q.user] # None /\ users[q.target] # None
        /\ Live(q.target) => users[q.target].email # None
    BY DEF Knows, LinkKnows
  <2> QED BY <2>1 DEF Live
<1>2. IdentityKnown(q)'
  <2> SUFFICES ASSUME q.pc \in Linking, q.telegram # None
               PROVE  IdentityKnown(q)'
    BY DEF IdentityKnown
  <2>1. /\ q.telegram \in Telegrams /\ q.user \in Users /\ users[q.user] # None
        /\ account[q.telegram] # None /\ account[q.telegram] \in Users
        /\ Live(account[q.telegram])
        /\ \/ account[q.telegram] = q.user
           \/ /\ Live(q.user) => users[q.user].email # None
              /\ users[account[q.telegram]].email # None
    BY DEF Request, Knows, LinkKnows, IdentityKnown, IInv, TypeOK, IdentitiesUnique
  <2>2. (Live(q.user) => users[q.user].email # None)
          => (Live(q.user)' => users'[q.user].email # None)
    BY <2>1 DEF Live
  <2>3. CASE q.telegram = m.telegram
    <3>1. account'[q.telegram] = m.target
      BY <2>1, <2>3 DEF Merge, Moved
    <3>2. users'[m.target].email # None /\ m.target # None
      BY MergeKnows, Rows DEF IInv
    <3>3. Live(q.user)' => users'[q.user].email # None
      <4>1. CASE account[q.telegram] = q.user
        <5>1. q.user = m.user \/ users[q.user].email # None
          BY <2>3, <4>1, MergeKnows
        <5> QED BY <2>2, <5>1 DEF Live
      <4>2. CASE account[q.telegram] # q.user
        BY <2>1, <2>2, <4>2
      <4> QED BY <4>1, <4>2
    <3> QED BY <3>1, <3>2, <3>3 DEF IdentityKnown
  <2>4. CASE q.telegram # m.telegram
    <3>1. account[q.telegram] # m.user
      BY <2>1, <2>4 DEF Lost
    <3>2. account'[q.telegram] = account[q.telegram]
      BY <2>1, <2>4, <3>1 DEF Merge, Moved, Lost
    <3>3. users'[account[q.telegram]].email = users[account[q.telegram]].email
      BY <2>1, <3>1
    <3> QED BY <2>1, <2>2, <3>2, <3>3 DEF IdentityKnown
  <2> QED BY <2>3, <2>4
<1> QED
  BY <1>1, <1>2 DEF Knows, RegisterKnows, LoginKnows, ChangeKnows, EnterKnows, Outdated

\* A merge moves the identity and deletes the caller, in one commit.
LEMMA MergeStep == ASSUME IInv, NEW r \in Requests, Merge(r) PROVE IInv'
<1>1. PICK m \in Request : m = request[r]
  BY DEF IInv, TypeOK
<1>2. /\ m.telegram \in Telegrams /\ m.user \in Users /\ m.target \in Users \ {m.user}
      /\ m.word \in Words /\ m.copy \in Hash
      /\ users[m.user] # None /\ Live(m.target) /\ users[m.target].email # None
      /\ m.target \notin Veterans => ~Outdated(m.copy)
      /\ account[m.telegram] \in Users /\ Live(account[m.telegram])
      /\ \A t \in Telegrams \ {m.telegram} : account[t] # m.target
      /\ \/ account[m.telegram] = m.user
         \/ /\ Live(m.user) => users[m.user].email # None
            /\ users[account[m.telegram]].email # None
  BY <1>1, MergeKnows
<1> DEFINE h == IF Outdated(m.copy) THEN Hashed(m.word) ELSE users[m.target].hash
<1>3. PICK row \in Row : row = [users[m.target] EXCEPT !.hash = h]
  BY <1>2, Rows DEF IInv, Row, Hash, Hashed
<1>4. row.email = users[m.target].email /\ row.hash = h /\ row \notin {None, Deleted}
  BY <1>2, <1>3, Rows, RowAssumption DEF IInv, Row
<1>5. /\ users' \in [Users -> Row \cup {None, Deleted}]
      /\ users'[m.target] = row /\ users'[m.user] = Deleted
      /\ \A u \in Users \ {m.target, m.user} : users'[u] = users[u]
  BY <1>1, <1>2, <1>3 DEF IInv, TypeOK, Merge
<1>6. /\ account' \in [Telegrams -> Users \cup {None}]
      /\ account'[m.telegram] = m.target
      /\ \A t \in Telegrams \ {m.telegram} :
           account'[t] = IF account[t] = m.user THEN None ELSE account[t]
  BY <1>1, <1>2 DEF IInv, TypeOK, Merge, Moved, Lost
<1>7. /\ \A u \in Users \ {m.user} :
           (Live(u)' <=> Live(u)) /\ (Live(u) => users'[u].email = users[u].email)
      /\ \A u \in Users : users[u] # None => users'[u] # None
  BY <1>2, <1>4, <1>5, Rows DEF IInv, Live
<1>8. \A x \in Requests : request'[x] \in Request /\ Knows(request[x])'
  <2> SUFFICES ASSUME NEW x \in Requests
               PROVE  request'[x] \in Request /\ Knows(request[x])'
    OBVIOUS
  <2>1. PICK c \in Request : c = request'[x] /\ (c.pc \in Linking => c.telegram \notin Lost(m))
                             /\ Knows(c)
    <3>1. PICK b \in Request : b = request[x]
      BY DEF IInv, TypeOK
    <3>2. Knows(b)
      BY <3>1 DEF IInv, Known
    <3>3. CASE x = r
      BY <3>3, IdleKnows DEF Merge, Linking, Idle
    <3>4. CASE x # r /\ b.pc \in Linking /\ b.telegram \in Lost(m)
      <4> DEFINE c == [b EXCEPT !.telegram = None]
      <4>1. request'[x] = c
        BY <1>1, <3>1, <3>4 DEF Merge
      <4>2. /\ c \in Request /\ c.pc = b.pc /\ c.telegram = None /\ c.user = b.user
            /\ c.target = b.target /\ c.word = b.word /\ c.copy = b.copy
        BY DEF Request
      <4> HIDE DEF c
      <4>3. Knows(c)
        BY <3>2, <3>4, <4>2 DEF Knows, RegisterKnows, LoginKnows, ChangeKnows, EnterKnows,
                                LinkKnows, IdentityKnown, Linking
      <4>4. None \notin Lost(m)
        BY Rows DEF IInv, Lost
      <4> QED BY <4>1, <4>2, <4>3, <4>4
    <3>5. CASE x # r /\ ~(b.pc \in Linking /\ b.telegram \in Lost(m))
      BY <1>1, <3>1, <3>2, <3>5 DEF Merge
    <3> QED BY <3>3, <3>4, <3>5
  <2>2. Knows(c)'
    BY <1>1, <1>5, <1>7, <2>1, MergeKept
  <2> QED
    BY <2>1, <2>2 DEF Knows, RegisterKnows, LoginKnows, ChangeKnows, EnterKnows,
                      LinkKnows, IdentityKnown, Outdated, Live
<1>9. TypeOK'
  BY <1>1, <1>5, <1>6, <1>8 DEF IInv, TypeOK, Merge
<1>10. IdentitiesUnique'
  BY <1>2, <1>4, <1>5, <1>6, <1>7, Rows DEF IInv, IdentitiesUnique, Live
<1>11. NoOrphans'
  <2> SUFFICES ASSUME NEW u \in Users, Live(u)', users'[u].email = None
               PROVE  \E t \in Telegrams : account'[t] = u
    BY DEF NoOrphans
  <2>1. u # m.user /\ Live(u) /\ users[u].email = None
    BY <1>5, <1>7 DEF Live
  <2>2. PICK t \in Telegrams : account[t] = u
    BY <2>1 DEF IInv, NoOrphans
  <2>3. t # m.telegram
    BY <1>2, <2>1, <2>2
  <2> QED BY <1>6, <2>1, <2>2, <2>3
<1>12. HashForms'
  <2>1. \A u \in Users \ Veterans : Live(u)' => users'[u].hash = users[u].hash /\ Live(u)
    BY <1>2, <1>4, <1>5, <1>7 DEF Live
  <2> QED BY <2>1 DEF IInv, HashForms, Merge
<1> QED BY <1>8, <1>9, <1>10, <1>11, <1>12 DEF IInv, Known

-----------------------------------------------------------------------------
\* Other endpoints change the data only, and what requests remember of it.
LEMMA DataStep ==
  ASSUME IInv, NEW u \in Users, NEW k \in Kinds, Acquire(u, k) \/ Drop(u, k) PROVE IInv'
<1>1. data' \in [Users -> SUBSET Kinds]
  BY DEF Acquire, Drop, IInv, TypeOK
<1>2. UNCHANGED <<users, account, counted, chosen>>
  BY DEF Acquire, Drop
<1>3. \A x \in Requests : request'[x] \in Request /\ Knows(request'[x])
  <2>1. CASE Acquire(u, k)
    BY <2>1 DEF Acquire, IInv, TypeOK, Known
  <2>2. CASE Drop(u, k)
    <3> SUFFICES ASSUME NEW x \in Requests
                 PROVE  request'[x] \in Request /\ Knows(request'[x])
      OBVIOUS
    <3>1. PICK b \in Request : b = request[x] /\ Knows(b)
      BY DEF IInv, TypeOK, Known
    <3> DEFINE c == [b EXCEPT !.had = @ \ {k}]
    <3>2. request'[x] = b \/ request'[x] = c
      BY <2>2, <3>1 DEF Drop
    <3>3. /\ c \in Request /\ c.pc = b.pc /\ c.telegram = b.telegram /\ c.user = b.user
          /\ c.target = b.target /\ c.word = b.word /\ c.copy = b.copy /\ c.email = b.email
          /\ c.new = b.new
      BY DEF Request
    <3> HIDE DEF c
    <3>4. Knows(c)
      BY <3>1, <3>3 DEF Knows, RegisterKnows, LoginKnows, ChangeKnows, EnterKnows, LinkKnows,
                        IdentityKnown
    <3> QED BY <3>1, <3>2, <3>3, <3>4
  <2> QED BY <2>1, <2>2
<1>4. request' = [x \in Requests |-> request'[x]]
  BY DEF Acquire, Drop, IInv, TypeOK
<1>5. TypeOK'
  BY <1>1, <1>2, <1>3, <1>4 DEF IInv, TypeOK
<1>6. Known'
  BY <1>2, <1>3 DEF Known, Knows, RegisterKnows, LoginKnows, ChangeKnows, EnterKnows, LinkKnows,
                    IdentityKnown, Live
<1>7. IdentitiesUnique' /\ NoOrphans' /\ HashForms'
  BY <1>2 DEF IInv, IdentitiesUnique, NoOrphans, HashForms, Live
<1> QED BY <1>5, <1>6, <1>7 DEF IInv

\* IInv is inductive.
LEMMA Inductive == IInv /\ [Next]_vars => IInv'
<1> SUFFICES ASSUME IInv, [Next]_vars PROVE IInv'
  OBVIOUS
<1>1. ASSUME NEW r \in Requests, RequestStep(r) PROVE IInv'
  <2>1. CASE AskRegister(r) \/ AskLogin(r) \/ AskChange(r) \/ AskEnter(r) \/ AskLink(r)
    BY <2>1, AskRegisterStep, AskLoginStep, AskChangeStep, AskEnterStep, AskLinkStep
  <2>2. CASE RegisterConflict(r) \/ EnterConflict(r) \/ MergeFails(r)
    BY <2>2, IdleStep DEF RegisterConflict, EnterConflict, MergeFails
  <2>3. CASE Register(r) \/ Login(r) \/ Change(r) \/ Enter(r)
    BY <2>3, RegisterStep, LoginStep, ChangeStep, EnterStep
  <2>4. CASE CheckTarget(r) \/ CountWallets(r) \/ CountGroups(r)
    BY <2>4, CheckTargetStep, CountStep
  <2>5. CASE Merge(r)
    BY <2>5, MergeStep
  <2> QED BY <1>1, <2>1, <2>2, <2>3, <2>4, <2>5 DEF RequestStep
<1>2. ASSUME NEW u \in Users, NEW k \in Kinds, Acquire(u, k) \/ Drop(u, k) PROVE IInv'
  BY <1>2, DataStep
<1>3. CASE UNCHANGED vars
  <2>1. Kept
    BY <1>3 DEF vars, Kept, Live
  <2> QED
    BY <1>3 DEF vars, IInv, TypeOK, IdentitiesUnique, NoOrphans, HashForms,
                Known, Knows, RegisterKnows, LoginKnows, ChangeKnows, EnterKnows, LinkKnows,
                IdentityKnown, Live, Outdated
<1> QED BY <1>1, <1>2, <1>3 DEF Next

\* The invariant holds throughout.
LEMMA Invariance == Spec => []IInv
  BY InitInv, Inductive, PTL DEF Spec

\* The tables and the local state of the requests are well typed.
THEOREM TypeCorrect == Spec => []TypeOK
<1>1. IInv => TypeOK
  BY DEF IInv
<1> QED BY <1>1, Invariance, PTL

\* E-mail addresses and Telegram identities lead to one live user each,
\* whatever registrations, first logins and links meet.
THEOREM UniqueIdentities == Spec => []IdentitiesUnique
<1>1. IInv => IdentitiesUnique
  BY DEF IInv
<1> QED BY <1>1, Invariance, PTL

\* No user without an e-mail address is left without the Telegram identity.
THEOREM NobodyOrphaned == Spec => []NoOrphans
<1>1. IInv => NoOrphans
  BY DEF IInv
<1> QED BY <1>1, Invariance, PTL

\* The identity of a Telegram-only user is never lost in a merge.
THEOREM IdentityKept == Spec => IdentityStays
<1> DEFINE Kept1 == \A t \in Telegrams :
              account[t] # None /\ users[account[t]].email = None => account'[t] # None
<1>1. IInv /\ [Next]_vars => [Kept1]_vars
  <2> SUFFICES ASSUME IInv, Next, NEW t \in Telegrams, account[t] # None,
                      users[account[t]].email = None
               PROVE  account'[t] # None
    OBVIOUS
  <2>1. CASE account' = account
    BY <2>1
  <2>2. ASSUME NEW r \in Requests, Enter(r) PROVE account'[t] # None
    <3>1. request[r].telegram # t
      BY <2>2 DEF Enter
    <3> QED BY <2>2, <3>1 DEF Enter, IInv, TypeOK
  <2>3. ASSUME NEW r \in Requests, Merge(r) PROVE account'[t] # None
    <3>1. PICK m : m = request[r]
      OBVIOUS
    <3>2. CASE t = m.telegram
      BY <2>3, <3>1, <3>2, MergeKnows, Rows DEF Merge, Moved, IInv
    <3>3. CASE t # m.telegram
      <4>1. account[t] # m.user
        <5> SUFFICES ASSUME account[t] = m.user PROVE FALSE
          OBVIOUS
        <5>1. Live(m.user)
          BY DEF IInv, IdentitiesUnique
        <5>2. m.telegram \in Telegrams /\ account[m.telegram] = m.user
          BY <2>3, <3>1, <5>1, MergeKnows
        <5> QED BY <3>3, <5>2 DEF IInv, IdentitiesUnique
      <4> QED BY <2>3, <3>1, <3>3, <4>1 DEF Merge, Moved, Lost
    <3> QED BY <3>2, <3>3
  <2>4. ASSUME NEW r \in Requests, RequestStep(r) PROVE account'[t] # None
    BY <2>1, <2>2, <2>3, <2>4
       DEF RequestStep, AskRegister, Register, RegisterConflict, AskLogin, Login, AskChange,
           Change, AskEnter, EnterConflict, AskLink, CheckTarget, CountWallets, CountGroups,
           MergeFails
  <2> QED BY <2>1, <2>4 DEF Next, Acquire, Drop
<1> QED BY <1>1, Invariance, PTL DEF Spec, IdentityStays

-----------------------------------------------------------------------------
\* Every step but a first login and a merge leaves the identities alone.
LEMMA IdentitiesMove ==
  ASSUME [Next]_vars
  PROVE  \/ account' = account /\ counted' = counted
         \/ \E r \in Requests : Enter(r) \/ Merge(r)
<1>1. ASSUME NEW r \in Requests, RequestStep(r), ~Enter(r), ~Merge(r)
      PROVE  account' = account /\ counted' = counted
  BY <1>1
     DEF RequestStep, AskRegister, Register, RegisterConflict, AskLogin, Login, AskChange,
         Change, AskEnter, EnterConflict, AskLink, CheckTarget, CountWallets, CountGroups,
         MergeFails
<1> QED BY <1>1 DEF Next, Acquire, Drop, vars

\* Identities are counted when they are created: by a first login that wins,
\* never by one that loses, and not when a merge moves one.
THEOREM CountedWhenCreated == Spec => CountedOnce
<1> DEFINE New == {t \in Telegrams : account[t] = None /\ account'[t] # None}
<1>1. IInv /\ [Next]_vars => [counted' = counted + Cardinality(New)]_vars
  <2> SUFFICES ASSUME IInv, Next PROVE counted' = counted + Cardinality(New)
    OBVIOUS
  <2>0. counted \in Nat
    BY DEF IInv, TypeOK
  <2>1. CASE account' = account /\ counted' = counted
    <3>1. New = {}
      BY <2>1
    <3> HIDE DEF New
    <3>2. Cardinality(New) = 0
      BY <3>1, FS_EmptySet
    <3> QED BY <2>0, <2>1, <3>2
  <2>2. ASSUME NEW r \in Requests, Enter(r)
        PROVE  counted' = counted + Cardinality(New)
    <3>1. PICK t \in Telegrams : t = request[r].telegram
      BY <2>2 DEF Enter, IInv, Known, Knows, EnterKnows
    <3>2. PICK u \in Users : account' = [account EXCEPT ![t] = u]
      BY <2>2, <3>1 DEF Enter
    <3>3. New = {t}
      BY <2>2, <3>1, <3>2, Rows DEF Enter, IInv, TypeOK
    <3> HIDE DEF New
    <3>4. Cardinality(New) = 1
      BY <3>3, FS_Singleton
    <3> QED BY <2>2, <3>4 DEF Enter
  <2>3. ASSUME NEW r \in Requests, Merge(r)
        PROVE  counted' = counted + Cardinality(New)
    <3>1. PICK m : m = request[r]
      OBVIOUS
    <3>2. account[m.telegram] # None
      BY <2>3, <3>1, MergeKnows, Rows DEF IInv
    <3>3. New = {}
      BY <2>3, <3>1, <3>2 DEF Merge, Moved
    <3> HIDE DEF New
    <3>4. Cardinality(New) = 0
      BY <3>3, FS_EmptySet
    <3> QED BY <2>0, <2>3, <3>4 DEF Merge
  <2> QED BY <2>1, <2>2, <2>3, IdentitiesMove
<1> QED BY <1>1, Invariance, PTL DEF Spec, CountedOnce

-----------------------------------------------------------------------------
\* What a login or link is about to hash anew is a password its user may sign
\* in with; and users with outdated hashes have been there from the start.
Pending(q) ==
  \A u \in Users : Rehashes(q, u) => u \in Veterans /\ q.word \in chosen[u]

PInv ==
  /\ ChosenPasswordStays
  /\ \A u \in Veterans : users[u] # None
  /\ \A r \in Requests : Pending(request[r])

\* The first hashes accept what may be used, and nothing is under way.
LEMMA PInit == Init => PInv
<1> SUFFICES ASSUME Init PROVE PInv
  OBVIOUS
<1>1. PICK e \in [Veterans -> Emails], h \in [Veterans -> {x \in Hash : Outdated(x)}] :
        /\ users = [u \in Users |->
             IF u \in Veterans THEN [email |-> e[u], hash |-> h[u]] ELSE None]
        /\ chosen = [u \in Users |->
             IF u \in Veterans THEN {w \in Words : Verifies(w, h[u])} ELSE {}]
  BY DEF Init
<1>2. \A u \in Users : Live(u) => u \in Veterans /\ users[u].hash = h[u]
  BY <1>1 DEF Live
<1>3. ChosenPasswordStays
  BY <1>1, <1>2 DEF ChosenPasswordStays
<1>4. \A u \in Veterans : users[u] # None
  <2>1. \A u \in Veterans : [email |-> e[u], hash |-> h[u]] \in Row
    BY <1>1 DEF Row
  <2> QED BY <1>1, <2>1, AccountAssumption, RowAssumption
<1>5. \A r \in Requests : Pending(request[r])
  BY DEF Init, Pending, Rehashes, Idle, Linking
<1> QED BY <1>3, <1>4, <1>5 DEF PInv

\* A request that begins or goes on and changes no user.
LEMMA PRead ==
  ASSUME IInv, PInv, NEW r \in Requests, NEW q, request' = [request EXCEPT ![r] = q],
         UNCHANGED <<users, chosen>>, Pending(q)
  PROVE  PInv'
<1>1. ChosenPasswordStays' /\ \A u \in Veterans : users'[u] # None
  BY DEF PInv, ChosenPasswordStays, Live
<1>2. ASSUME NEW x \in Requests PROVE Pending(request[x])'
  <2>1. request'[x] = q \/ request'[x] = request[x]
    BY DEF IInv, TypeOK
  <2> QED BY <2>1 DEF PInv, Pending, Rehashes, Outdated
<1> QED BY <1>1, <1>2 DEF PInv

\* A request that ends, or that is neither a login nor a link.
LEMMA POther ==
  ASSUME IInv, PInv, NEW r \in Requests, NEW q, request' = [request EXCEPT ![r] = q],
         UNCHANGED <<users, chosen>>, q.pc # "login", q.pc \notin Linking
  PROVE  PInv'
BY PRead DEF Pending, Rehashes

\* The first steps of the requests: what a login or link verifies may be used
\* to sign in, and its hash is outdated for users from the start only.
LEMMA PAsk ==
  ASSUME IInv, PInv, NEW r \in Requests,
         AskRegister(r) \/ AskLogin(r) \/ AskChange(r) \/ AskEnter(r) \/ AskLink(r)
  PROVE  PInv'
<1>1. UNCHANGED <<users, chosen>>
  BY DEF AskRegister, AskLogin, AskChange, AskEnter, AskLink
<1>2. CASE AskRegister(r)
  <2>1. PICK e, w, q :
          /\ e \in Emails /\ w \in Words
          /\ q = [Idle EXCEPT !.pc = "register", !.email = e, !.word = w]
          /\ request' = [request EXCEPT ![r] = q]
    BY <1>2 DEF AskRegister
  <2>2. q.pc = "register"
    BY <2>1 DEF Idle
  <2> QED BY <1>1, <2>1, <2>2, POther DEF Linking
<1>3. CASE AskChange(r)
  <2>1. PICK u, n, q :
          /\ u \in Users /\ n \in Words
          /\ q = [Idle EXCEPT !.pc = "change", !.user = u, !.new = n]
          /\ request' = [request EXCEPT ![r] = q]
    BY <1>3 DEF AskChange
  <2>2. q.pc = "change"
    BY <2>1 DEF Idle
  <2> QED BY <1>1, <2>1, <2>2, POther DEF Linking
<1>4. CASE AskEnter(r)
  <2>1. PICK t, q :
          /\ t \in Telegrams
          /\ q = [Idle EXCEPT !.pc = "enter", !.telegram = t]
          /\ request' = [request EXCEPT ![r] = q]
    BY <1>4 DEF AskEnter
  <2>2. q.pc = "enter"
    BY <2>1 DEF Idle
  <2> QED BY <1>1, <2>1, <2>2, POther DEF Linking
<1>5. CASE AskLogin(r)
  <2>1. PICK u, w, q :
          /\ u \in Users /\ w \in Words
          /\ Live(u) /\ users[u].hash # None /\ Verifies(w, users[u].hash)
          /\ q = [Idle EXCEPT !.pc = "login", !.user = u, !.word = w, !.copy = users[u].hash]
          /\ request' = [request EXCEPT ![r] = q]
    BY <1>5 DEF AskLogin
  <2>2. q.pc = "login" /\ q.user = u /\ q.word = w /\ q.copy = users[u].hash
    BY <2>1 DEF Idle
  <2>3. Pending(q)
    BY <2>1, <2>2 DEF Pending, Rehashes, Linking, PInv, ChosenPasswordStays, IInv, HashForms
  <2> QED BY <1>1, <2>1, <2>3, PRead
<1>6. CASE AskLink(r)
  <2>1. PICK t, v, w, q :
          /\ t \in Telegrams /\ v \in Users /\ w \in Words
          /\ Live(v) /\ users[v].hash # None /\ Verifies(w, users[v].hash)
          /\ q = [Idle EXCEPT !.pc = "link", !.user = account[t], !.telegram = t, !.target = v,
                              !.word = w, !.copy = users[v].hash, !.had = data[account[t]]]
          /\ request' = [request EXCEPT ![r] = q]
    BY <1>6 DEF AskLink
  <2>2. q.pc = "link" /\ q.target = v /\ q.word = w /\ q.copy = users[v].hash
    BY <2>1 DEF Idle
  <2>3. Pending(q)
    BY <2>1, <2>2 DEF Pending, Rehashes, PInv, ChosenPasswordStays, IInv, HashForms
  <2> QED BY <1>1, <2>1, <2>3, PRead
<1> QED BY <1>2, <1>3, <1>4, <1>5, <1>6

\* A refusal or a conflict changes nothing.
LEMMA PEnd ==
  ASSUME IInv, PInv, NEW r \in Requests, End(r), UNCHANGED <<users, chosen>> PROVE PInv'
<1>1. PICK q : q = Idle
  OBVIOUS
<1>2. q.pc # "login" /\ q.pc \notin Linking
  BY <1>1 DEF Idle, Linking
<1>3. request' = [request EXCEPT ![r] = q]
  BY <1>1 DEF End
<1> QED BY <1>2, <1>3, POther

\* The checks of a link keep what it has verified.
LEMMA PCheck ==
  ASSUME IInv, PInv, NEW r \in Requests, CheckTarget(r) \/ CountWallets(r) \/ CountGroups(r)
  PROVE  PInv'
<1>1. /\ UNCHANGED <<users, chosen>> /\ request[r].pc \in Linking
      /\ End(r) \/ \E pc \in {"wallets", "groups", "merge"} : Goto(r, pc)
  BY DEF CheckTarget, CountWallets, CountGroups, Linking
<1>2. ASSUME NEW pc \in {"wallets", "groups", "merge"}, Goto(r, pc) PROVE PInv'
  <2>1. PICK b \in Request : b = request[r]
    BY DEF IInv, TypeOK
  <2>2. PICK q : q = [b EXCEPT !.pc = pc]
    OBVIOUS
  <2>3. q.pc = pc /\ q.target = b.target /\ q.word = b.word /\ q.copy = b.copy
    BY <2>2 DEF Request
  <2>4. Pending(b)
    BY <2>1 DEF PInv
  <2>5. Pending(q)
    BY <1>1, <1>2, <2>1, <2>3, <2>4 DEF Pending, Rehashes, Linking
  <2>6. request' = [request EXCEPT ![r] = q]
    BY <1>2, <2>1, <2>2 DEF Goto
  <2> QED BY <1>1, <2>5, <2>6, PRead
<1> QED BY <1>1, <1>2, PEnd

\* A new user is none of those with outdated hashes.
LEMMA PInsert ==
  ASSUME IInv, PInv, NEW r \in Requests, Register(r) \/ Enter(r) PROVE PInv'
<1>1. PICK u \in Users :
        /\ users[u] = None /\ u \notin Veterans
        /\ \/ /\ users' = [users EXCEPT ![u] = [email |-> request[r].email,
                                                hash |-> Hashed(request[r].word)]]
              /\ chosen' = [chosen EXCEPT ![u] = {request[r].word}]
           \/ /\ users' = [users EXCEPT ![u] = [email |-> None, hash |-> None]]
              /\ chosen' = chosen
  BY DEF Register, Enter, PInv
<1>2. End(r)
  BY DEF Register, Enter
<1>3. \A v \in Users \ {u} : users'[v] = users[v] /\ chosen'[v] = chosen[v]
  BY <1>1 DEF IInv, TypeOK
<1>4. \A v \in Veterans : users'[v] # None
  BY <1>1, <1>3, AccountAssumption DEF PInv
<1>5. ASSUME NEW x \in Requests PROVE Pending(request[x])'
  <2>1. request'[x] = Idle \/ request'[x] = request[x]
    BY <1>2 DEF End, IInv, TypeOK
  <2>2. CASE request'[x] = Idle
    BY <2>2 DEF Pending, Rehashes, Idle, Linking
  <2>3. CASE request'[x] = request[x]
    BY <1>1, <1>3, <2>3 DEF Pending, Rehashes, PInv, Outdated
  <2> QED BY <2>1, <2>2, <2>3
<1>6. ChosenPasswordStays'
  <2> SUFFICES ASSUME NEW v \in Users, Live(v)', users'[v].hash # None
               PROVE  /\ \A w \in Words : Verifies(w, users'[v].hash) => w \in chosen'[v]
                      /\ v \notin Veterans => chosen'[v] = {users'[v].hash.word}
    BY DEF ChosenPasswordStays, Verifies
  <2>1. CASE v = u
    <3>1. users'[u].hash = Hashed(request[r].word) /\ chosen'[u] = {request[r].word}
      BY <1>1, <2>1 DEF IInv, TypeOK
    <3> QED BY <2>1, <3>1 DEF Hashed, Verifies
  <2>2. CASE v # u
    BY <1>3, <2>2 DEF PInv, ChosenPasswordStays, Live
  <2> QED BY <2>1, <2>2
<1> QED BY <1>4, <1>5, <1>6 DEF PInv

\* User u gets a new hash of a password that may be used from now on, and the
\* requests keep what they were about to write or forget it.
LEMMA PHash ==
  ASSUME IInv, PInv, NEW u \in Users, NEW w \in Words,
         \A v \in Users \ {u} : Live(v)' => Live(v) /\ users'[v].hash = users[v].hash,
         Live(u)' => users'[u].hash = Hashed(w),
         w \in chosen'[u], u \notin Veterans => chosen'[u] = {w},
         \A v \in Users \ {u} : chosen'[v] = chosen[v],
         \A v \in Users : users[v] # None => users'[v] # None,
         \A x \in Requests : \/ request'[x].pc # "login" /\ request'[x].pc \notin Linking
                             \/ /\ request'[x].pc = request[x].pc /\ request'[x].user = request[x].user
                                /\ request'[x].target = request[x].target
                                /\ request'[x].word = request[x].word
                                /\ request'[x].copy = request[x].copy,
         \A x \in Requests : Rehashes(request[x], u) => request[x].word \in chosen'[u]
  PROVE  PInv'
<1>1. \A v \in Veterans : users'[v] # None
  BY AccountAssumption DEF PInv
<1>2. \A x \in Requests : Pending(request[x])'
  <2> SUFFICES ASSUME NEW x \in Requests, NEW v \in Users, Rehashes(request'[x], v)
               PROVE  v \in Veterans /\ request'[x].word \in chosen'[v]
    BY DEF Pending, Rehashes, Outdated
  <2>1. Rehashes(request[x], v) /\ request'[x].word = request[x].word
    BY DEF Rehashes
  <2> QED BY <2>1 DEF PInv, Pending
<1>3. ChosenPasswordStays'
  <2> SUFFICES ASSUME NEW v \in Users, Live(v)', users'[v].hash # None
               PROVE  /\ \A p \in Words : Verifies(p, users'[v].hash) => p \in chosen'[v]
                      /\ v \notin Veterans => chosen'[v] = {users'[v].hash.word}
    BY DEF ChosenPasswordStays, Verifies
  <2>1. CASE v = u
    BY <2>1 DEF Hashed, Verifies
  <2>2. CASE v # u
    BY <2>2 DEF PInv, ChosenPasswordStays
  <2> QED BY <2>1, <2>2
<1> QED BY <1>1, <1>2, <1>3 DEF PInv

\* A login stores a new hash of a password it had verified.
LEMMA PLogin == ASSUME IInv, PInv, NEW r \in Requests, Login(r) PROVE PInv'
<1>1. PICK q \in Request : q = request[r]
  BY DEF IInv, TypeOK
<1>2. q.pc = "login" /\ q.user \in Users /\ q.word \in Words
  BY <1>1 DEF Login, IInv, Known, Knows, LoginKnows
<1>3. CASE Outdated(q.copy) /\ Live(q.user)
  <2>1. /\ users' = [users EXCEPT ![q.user].hash = Hashed(q.word)] /\ chosen' = chosen /\ End(r)
    BY <1>1, <1>3 DEF Login
  <2>2. q.user \in Veterans /\ q.word \in chosen[q.user]
    BY <1>1, <1>2, <1>3 DEF PInv, Pending, Rehashes
  <2>3. \A x \in Requests : request'[x] = Idle \/ request'[x] = request[x]
    BY <2>1 DEF End, IInv, TypeOK
  <2>4. \A v \in Users \ {q.user} : users'[v] = users[v]
    BY <2>1 DEF IInv, TypeOK
  <2>5. users'[q.user].hash = Hashed(q.word) /\ users'[q.user] # None
    <3>1. PICK row \in Row : row = users[q.user]
      BY <1>2, <1>3, Rows DEF IInv
    <3>2. /\ users'[q.user] = [row EXCEPT !.hash = Hashed(q.word)]
          /\ [row EXCEPT !.hash = Hashed(q.word)] \in Row
      BY <1>2, <2>1, <3>1 DEF IInv, TypeOK, Row, Hash, Hashed
    <3> QED BY <3>1, <3>2, Rows DEF Row, IInv
  <2>6. \A x \in Requests : Rehashes(request[x], q.user) => request[x].word \in chosen'[q.user]
    BY <1>2, <2>1 DEF PInv, Pending
  <2>7. \A v \in Users \ {q.user} : Live(v)' => Live(v) /\ users'[v].hash = users[v].hash
    BY <2>4 DEF Live
  <2>8. \A v \in Users : users[v] # None => users'[v] # None
    BY <2>4, <2>5
  <2>9. \A x \in Requests : \/ request'[x].pc # "login" /\ request'[x].pc \notin Linking
                            \/ request'[x] = request[x]
    BY <2>3 DEF Idle, Linking
  <2> QED BY <1>2, <2>1, <2>2, <2>5, <2>6, <2>7, <2>8, <2>9, PHash
<1>4. CASE ~(Outdated(q.copy) /\ Live(q.user))
  BY <1>1, <1>4, PEnd DEF Login
<1> QED BY <1>3, <1>4

\* A change of password: what is being hashed anew remains possible.
LEMMA PChange == ASSUME IInv, PInv, NEW r \in Requests, Change(r) PROVE PInv'
<1>1. PICK q \in Request : q = request[r]
  BY DEF IInv, TypeOK
<1>2. q.user \in Users /\ q.new \in Words
  BY <1>1 DEF Change, IInv, Known, Knows, ChangeKnows
<1>3. CASE Live(q.user)
  <2>1. /\ users' = [users EXCEPT ![q.user].hash = Hashed(q.new)] /\ End(r)
        /\ chosen' = [chosen EXCEPT ![q.user] = {q.new} \cup Rehashing(q.user)]
    BY <1>1, <1>3 DEF Change
  <2>2. /\ chosen'[q.user] = {q.new} \cup Rehashing(q.user)
        /\ \A v \in Users \ {q.user} : chosen'[v] = chosen[v] /\ users'[v] = users[v]
    BY <1>2, <2>1 DEF IInv, TypeOK
  <2>3. \A x \in Requests : Rehashes(request[x], q.user) => request[x].word \in chosen'[q.user]
    BY <2>2 DEF Rehashing
  <2>4. q.user \notin Veterans => chosen'[q.user] = {q.new}
    <3>1. q.user \notin Veterans => Rehashing(q.user) = {}
      BY <1>2 DEF Rehashing, PInv, Pending
    <3> QED BY <2>2, <3>1
  <2>5. users'[q.user].hash = Hashed(q.new) /\ users'[q.user] # None
    <3>1. PICK row \in Row : row = users[q.user]
      BY <1>2, <1>3, Rows DEF IInv
    <3>2. /\ users'[q.user] = [row EXCEPT !.hash = Hashed(q.new)]
          /\ [row EXCEPT !.hash = Hashed(q.new)] \in Row
      BY <1>2, <2>1, <3>1 DEF IInv, TypeOK, Row, Hash, Hashed
    <3> QED BY <3>1, <3>2, Rows DEF Row, IInv
  <2>6. \A v \in Users \ {q.user} : Live(v)' => Live(v) /\ users'[v].hash = users[v].hash
    BY <2>2 DEF Live
  <2>7. \A v \in Users : users[v] # None => users'[v] # None
    BY <2>2, <2>5
  <2>8. \A x \in Requests : \/ request'[x].pc # "login" /\ request'[x].pc \notin Linking
                            \/ request'[x] = request[x]
    BY <2>1 DEF End, Idle, Linking, IInv, TypeOK
  <2> QED BY <1>2, <2>2, <2>3, <2>4, <2>5, <2>6, <2>7, <2>8, PHash
<1>4. CASE ~Live(q.user)
  BY <1>1, <1>4, PEnd DEF Change
<1> QED BY <1>3, <1>4

\* A merge stores a new hash of the password it had verified, if it has to.
LEMMA PMerge == ASSUME IInv, PInv, NEW r \in Requests, Merge(r) PROVE PInv'
<1>1. PICK m \in Request : m = request[r]
  BY DEF IInv, TypeOK
<1>2. /\ m.user \in Users /\ m.target \in Users \ {m.user} /\ Live(m.target)
      /\ m.word \in Words /\ m.pc = "merge"
  BY <1>1, MergeKnows DEF Merge
<1> DEFINE h == IF Outdated(m.copy) THEN Hashed(m.word) ELSE users[m.target].hash
<1>3. /\ users'[m.target] = [users[m.target] EXCEPT !.hash = h] /\ users'[m.user] = Deleted
      /\ \A u \in Users \ {m.target, m.user} : users'[u] = users[u]
      /\ chosen' = chosen
  BY <1>1, <1>2 DEF Merge, IInv, TypeOK
<1>4. users'[m.target].hash = h /\ users'[m.target] # None /\ Deleted # None
  <2>1. PICK row \in Row : row = users[m.target]
    BY <1>2, Rows DEF IInv
  <2>2. h \in Hash \cup {None}
    BY <1>2, Rows DEF IInv, Hashed, Hash
  <2>3. users'[m.target] = [row EXCEPT !.hash = h] /\ [row EXCEPT !.hash = h] \in Row
    BY <1>3, <2>1, <2>2 DEF Row
  <2> QED BY <2>1, <2>3, Rows DEF Row, IInv
<1>5. \A x \in Requests : \/ request'[x].pc # "login" /\ request'[x].pc \notin Linking
                          \/ /\ request'[x].pc = request[x].pc /\ request'[x].user = request[x].user
                             /\ request'[x].target = request[x].target
                             /\ request'[x].word = request[x].word
                             /\ request'[x].copy = request[x].copy
  <2> SUFFICES ASSUME NEW x \in Requests
               PROVE  \/ request'[x].pc # "login" /\ request'[x].pc \notin Linking
                      \/ /\ request'[x].pc = request[x].pc /\ request'[x].user = request[x].user
                         /\ request'[x].target = request[x].target
                         /\ request'[x].word = request[x].word
                         /\ request'[x].copy = request[x].copy
    OBVIOUS
  <2>1. PICK b \in Request : b = request[x]
    BY DEF IInv, TypeOK
  <2>2. \/ request'[x] = Idle \/ request'[x] = b \/ request'[x] = [b EXCEPT !.telegram = None]
    BY <1>1, <2>1 DEF Merge
  <2> QED BY <2>1, <2>2 DEF Idle, Linking, Request
<1>6. \A v \in Users : users[v] # None => users'[v] # None
  BY <1>3, <1>4
<1>7. \A v \in Users \ {m.target} : Live(v)' => Live(v) /\ users'[v].hash = users[v].hash
  BY <1>3 DEF Live
<1>8. CASE Outdated(m.copy)
  <2>1. m.target \in Veterans /\ m.word \in chosen[m.target]
    BY <1>1, <1>2, <1>8 DEF PInv, Pending, Rehashes, Linking
  <2>2. \A x \in Requests : Rehashes(request[x], m.target) => request[x].word \in chosen'[m.target]
    BY <1>2, <1>3 DEF PInv, Pending
  <2>3. users'[m.target].hash = Hashed(m.word)
    BY <1>4, <1>8
  <2> QED BY <1>2, <1>3, <1>5, <1>6, <1>7, <2>1, <2>2, <2>3, PHash
<1>9. CASE ~Outdated(m.copy)
  <2>1. \A v \in Users : Live(v)' => Live(v) /\ users'[v].hash = users[v].hash
    BY <1>2, <1>4, <1>7, <1>9
  <2>2. ChosenPasswordStays'
    BY <1>3, <2>1 DEF PInv, ChosenPasswordStays, Verifies
  <2>3. \A v \in Veterans : users'[v] # None
    BY <1>6, AccountAssumption DEF PInv
  <2>4. ASSUME NEW x \in Requests PROVE Pending(request[x])'
    <3> SUFFICES ASSUME NEW v \in Users, Rehashes(request'[x], v)
                 PROVE  v \in Veterans /\ request'[x].word \in chosen'[v]
      BY DEF Pending, Rehashes, Outdated
    <3>1. Rehashes(request[x], v) /\ request'[x].word = request[x].word
      BY <1>5 DEF Rehashes
    <3> QED BY <1>3, <3>1 DEF PInv, Pending
  <2> QED BY <2>2, <2>3, <2>4 DEF PInv
<1> QED BY <1>8, <1>9

\* Data is another matter.
LEMMA PData ==
  ASSUME IInv, PInv, NEW u \in Users, NEW k \in Kinds, Acquire(u, k) \/ Drop(u, k) PROVE PInv'
<1>1. UNCHANGED <<users, chosen>>
  BY DEF Acquire, Drop
<1>2. ChosenPasswordStays' /\ \A v \in Veterans : users'[v] # None
  BY <1>1 DEF PInv, ChosenPasswordStays, Live
<1>3. ASSUME NEW x \in Requests PROVE Pending(request[x])'
  <2>1. PICK b \in Request : b = request[x]
    BY DEF IInv, TypeOK
  <2>2. PICK c : c = request'[x]
    OBVIOUS
  <2>3. /\ c.pc = b.pc /\ c.user = b.user /\ c.target = b.target
        /\ c.word = b.word /\ c.copy = b.copy
    BY <2>1, <2>2 DEF Acquire, Drop, Request
  <2>4. Pending(b)
    BY <2>1 DEF PInv
  <2>5. \A v \in Users : Rehashes(c, v) => v \in Veterans /\ c.word \in chosen[v]
    BY <2>3, <2>4 DEF Pending, Rehashes
  <2> QED BY <1>1, <2>2, <2>5 DEF Pending, Rehashes, Outdated
<1> QED BY <1>2, <1>3 DEF PInv

\* PInv is inductive next to IInv.
LEMMA PInductive == IInv /\ PInv /\ [Next]_vars => PInv'
<1> SUFFICES ASSUME IInv, PInv, [Next]_vars PROVE PInv'
  OBVIOUS
<1>1. ASSUME NEW r \in Requests, RequestStep(r) PROVE PInv'
  <2>1. CASE RegisterConflict(r) \/ EnterConflict(r) \/ MergeFails(r)
    BY <2>1, PEnd DEF RegisterConflict, EnterConflict, MergeFails
  <2>2. CASE ~(RegisterConflict(r) \/ EnterConflict(r) \/ MergeFails(r))
    BY <1>1, <2>2, PAsk, PCheck, PInsert, PLogin, PChange, PMerge DEF RequestStep
  <2> QED BY <2>1, <2>2
<1>2. CASE UNCHANGED vars
  BY <1>2 DEF vars, PInv, ChosenPasswordStays, Live, Pending, Rehashes, Outdated
<1> QED BY <1>1, <1>2, PData DEF Next

\* The password of a user is the one last set; for a user whose hash was
\* outdated it may also be one that a login or link, which had verified it
\* before the change, hashes anew.
THEOREM PasswordStays == Spec => []ChosenPasswordStays
<1>1. PInv => ChosenPasswordStays
  BY DEF PInv
<1> QED BY <1>1, PInit, PInductive, Invariance, PTL DEF Spec

-----------------------------------------------------------------------------
\* What a link remembers of its caller's data is still there while the caller
\* is, and what it has counted is not.
DataKnown(q) ==
  q.pc \in Linking =>
    /\ Live(q.user) => q.had \subseteq data[q.user]
    /\ q.pc \in {"groups", "merge"} => "wallet" \notin q.had \cap data[q.user]
    /\ q.pc = "merge" => "group" \notin q.had \cap data[q.user]

\* Users who are not there (any more) have no data.
GoneIsEmpty == \A u \in Users : ~Live(u) => data[u] = {}

DInv == GoneIsEmpty /\ \A r \in Requests : DataKnown(request[r])

\* Before any request nobody has data.
LEMMA DInit == Init => DInv
BY DEF Init, DInv, GoneIsEmpty, DataKnown, Idle, Linking

\* A step of request r alone that leaves the data alone and deletes nobody.
LEMMA DataStays ==
  ASSUME IInv, DInv, NEW r \in Requests, NEW q, request' = [request EXCEPT ![r] = q],
         data' = data,
         \A u \in Users : (Live(u) => Live(u)') /\ (users[u] # None /\ ~Live(u) => ~Live(u)'),
         DataKnown(q)'
  PROVE  DInv'
<1>1. GoneIsEmpty'
  BY DEF DInv, GoneIsEmpty
<1>2. ASSUME NEW x \in Requests PROVE DataKnown(request[x])'
  <2>1. CASE x = r
    <3>1. request'[x] = q
      BY <2>1 DEF IInv, TypeOK
    <3> QED BY <3>1 DEF DataKnown, Live
  <2>2. CASE x # r
    <3>1. PICK c : c = request[x]
      OBVIOUS
    <3>2. request'[x] = c
      BY <2>2, <3>1 DEF IInv, TypeOK
    <3>3. c.pc \in Linking => c.user \in Users /\ users[c.user] # None
      BY <3>1 DEF IInv, Known, Knows, LinkKnows
    <3>4. c.pc \in Linking /\ Live(c.user)' => Live(c.user)
      BY <3>3
    <3>5. DataKnown(c)
      BY <3>1 DEF DInv
    <3>6. DataKnown(c)'
      BY <3>4, <3>5 DEF DataKnown
    <3> QED BY <3>2, <3>6 DEF DataKnown, Live
  <2> QED BY <2>1, <2>2
<1> QED BY <1>1, <1>2 DEF DInv

\* A request that is no link remembers no data.
LEMMA NoLink ==
  ASSUME NEW r \in Requests, IInv,
         \/ AskRegister(r) \/ Register(r) \/ RegisterConflict(r) \/ AskLogin(r) \/ Login(r)
         \/ AskChange(r) \/ Change(r) \/ AskEnter(r) \/ Enter(r) \/ EnterConflict(r)
         \/ MergeFails(r)
  PROVE  \E q : q.pc \notin Linking /\ request' = [request EXCEPT ![r] = q]
<1>1. ASSUME AskRegister(r)
      PROVE  \E q : q.pc \notin Linking /\ request' = [request EXCEPT ![r] = q]
  <2>1. PICK e \in Emails, w \in Words : request' = [request EXCEPT ![r] =
              [Idle EXCEPT !.pc = "register", !.email = e, !.word = w]]
    BY <1>1 DEF AskRegister
  <2> WITNESS [Idle EXCEPT !.pc = "register", !.email = e, !.word = w]
  <2> QED BY <2>1 DEF Idle, Linking
<1>2. ASSUME AskLogin(r)
      PROVE  \E q : q.pc \notin Linking /\ request' = [request EXCEPT ![r] = q]
  <2>1. PICK u \in Users, w \in Words : request' = [request EXCEPT ![r] =
              [Idle EXCEPT !.pc = "login", !.user = u, !.word = w, !.copy = users[u].hash]]
    BY <1>2 DEF AskLogin
  <2> WITNESS [Idle EXCEPT !.pc = "login", !.user = u, !.word = w, !.copy = users[u].hash]
  <2> QED BY <2>1 DEF Idle, Linking
<1>3. ASSUME AskChange(r)
      PROVE  \E q : q.pc \notin Linking /\ request' = [request EXCEPT ![r] = q]
  <2>1. PICK u \in Users, n \in Words : request' = [request EXCEPT ![r] =
              [Idle EXCEPT !.pc = "change", !.user = u, !.new = n]]
    BY <1>3 DEF AskChange
  <2> WITNESS [Idle EXCEPT !.pc = "change", !.user = u, !.new = n]
  <2> QED BY <2>1 DEF Idle, Linking
<1>4. ASSUME AskEnter(r)
      PROVE  \E q : q.pc \notin Linking /\ request' = [request EXCEPT ![r] = q]
  <2>1. PICK t \in Telegrams : request' = [request EXCEPT ![r] =
              [Idle EXCEPT !.pc = "enter", !.telegram = t]]
    BY <1>4 DEF AskEnter
  <2> WITNESS [Idle EXCEPT !.pc = "enter", !.telegram = t]
  <2> QED BY <2>1 DEF Idle, Linking
<1>5. ASSUME End(r)
      PROVE  \E q : q.pc \notin Linking /\ request' = [request EXCEPT ![r] = q]
  <2> WITNESS Idle
  <2> QED BY <1>5 DEF End, Idle, Linking
<1> QED
  BY <1>1, <1>2, <1>3, <1>4, <1>5
     DEF Register, RegisterConflict, Login, Change, Enter, EnterConflict, MergeFails

\* Nobody is deleted but by a merge, and nobody comes back.
LEMMA UsersStay ==
  ASSUME IInv, NEW r \in Requests, RequestStep(r), ~Merge(r)
  PROVE  /\ data' = data
         /\ \A u \in Users : (Live(u) => Live(u)') /\ (users[u] # None /\ ~Live(u) => ~Live(u)')
<1>1. CASE users' = users /\ data' = data
  BY <1>1 DEF Live
<1>2. ASSUME NEW u \in Users, users[u] = None, NEW row \in Row,
             users' = [users EXCEPT ![u] = row], data' = data
      PROVE  /\ data' = data
             /\ \A v \in Users : (Live(v) => Live(v)') /\ (users[v] # None /\ ~Live(v) => ~Live(v)')
  BY <1>2 DEF Live, IInv, TypeOK
<1>3. ASSUME NEW u \in Users, Live(u), NEW h \in Hash,
             users' = [users EXCEPT ![u].hash = h], data' = data
      PROVE  /\ data' = data
             /\ \A v \in Users : (Live(v) => Live(v)') /\ (users[v] # None /\ ~Live(v) => ~Live(v)')
  <2>1. PICK row \in Row : row = users[u]
    BY <1>3, Rows DEF IInv
  <2>2. [row EXCEPT !.hash = h] \in Row
    BY DEF Row
  <2>3. users'[u] = [row EXCEPT !.hash = h] /\ \A v \in Users \ {u} : users'[v] = users[v]
    BY <1>3, <2>1 DEF IInv, TypeOK
  <2>4. users'[u] \in Row
    BY <2>2, <2>3
  <2> QED BY <1>3, <2>3, <2>4, Rows DEF Live, IInv
<1>4. CASE Register(r)
  <2>1. request[r].email \in Emails /\ request[r].word \in Words
    BY <1>4 DEF Register, IInv, Known, Knows, RegisterKnows
  <2>2. [email |-> request[r].email, hash |-> Hashed(request[r].word)] \in Row
    BY <2>1 DEF Row, Hash, Hashed
  <2> QED BY <1>2, <1>4, <2>2 DEF Register
<1>5. CASE Enter(r)
  <2>1. [email |-> None, hash |-> None] \in Row
    BY DEF Row
  <2> QED BY <1>2, <1>5, <2>1 DEF Enter
<1>6. CASE Login(r)
  <2>1. request[r].user \in Users /\ Hashed(request[r].word) \in Hash
    BY <1>6 DEF Login, IInv, Known, Knows, LoginKnows, Hashed, Hash
  <2> QED BY <1>1, <1>3, <1>6, <2>1 DEF Login
<1>7. CASE Change(r)
  <2>1. request[r].user \in Users /\ Hashed(request[r].new) \in Hash
    BY <1>7 DEF Change, IInv, Known, Knows, ChangeKnows, Hashed, Hash
  <2> QED BY <1>1, <1>3, <1>7, <2>1 DEF Change
<1> QED
  BY <1>1, <1>4, <1>5, <1>6, <1>7
     DEF RequestStep, AskRegister, RegisterConflict, AskLogin, AskChange, AskEnter,
         EnterConflict, AskLink, CheckTarget, CountWallets, CountGroups, MergeFails

\* A link starts with what its caller has, and counts what it passes.
LEMMA LinkData ==
  ASSUME IInv, DInv, NEW r \in Requests,
         AskLink(r) \/ CheckTarget(r) \/ CountWallets(r) \/ CountGroups(r)
  PROVE  DInv'
<1>1. data' = data /\ users' = users
  BY DEF AskLink, CheckTarget, CountWallets, CountGroups
<1>2. \A u \in Users : Live(u)' <=> Live(u)
  BY <1>1 DEF Live
<1>3. CASE AskLink(r)
  <2>1. PICK t \in Telegrams, v \in Users, w \in Words :
          request' = [request EXCEPT ![r] =
            [Idle EXCEPT !.pc = "link", !.user = account[t], !.telegram = t, !.target = v,
                         !.word = w, !.copy = users[v].hash, !.had = data[account[t]]]]
    BY <1>3 DEF AskLink
  <2>2. PICK q : q = [Idle EXCEPT !.pc = "link", !.user = account[t], !.telegram = t, !.target = v,
                         !.word = w, !.copy = users[v].hash, !.had = data[account[t]]]
    OBVIOUS
  <2>3. q.pc = "link" /\ q.had = data[q.user]
    BY <2>2 DEF Idle
  <2>4. DataKnown(q)'
    BY <1>1, <2>3 DEF DataKnown
  <2> QED BY <1>1, <1>2, <2>1, <2>2, <2>4, DataStays
<1>4. CASE End(r)
  BY <1>1, <1>2, <1>4, DataStays DEF End, Idle, DataKnown, Linking
<1>5. ASSUME NEW pc \in {"wallets", "groups", "merge"}, Goto(r, pc), request[r].pc \in Linking,
             pc \in {"groups", "merge"} =>
               "wallet" \notin request[r].had \cap data[request[r].user],
             pc = "merge" => "group" \notin data[request[r].user]
      PROVE  DInv'
  <2>1. PICK b \in Request : b = request[r]
    BY DEF IInv, TypeOK
  <2>2. PICK q : q = [b EXCEPT !.pc = pc]
    OBVIOUS
  <2>3. q.pc = pc /\ q.user = b.user /\ q.had = b.had /\ b.user \in Users
    BY <1>5, <2>1, <2>2 DEF Request, IInv, Known, Knows, LinkKnows
  <2>4. DataKnown(b)
    BY <2>1 DEF DInv
  <2>5. DataKnown(q)'
    BY <1>1, <1>2, <1>5, <2>1, <2>3, <2>4 DEF DataKnown
  <2>6. request' = [request EXCEPT ![r] = q]
    BY <1>5, <2>1, <2>2 DEF Goto, IInv, TypeOK
  <2> QED BY <1>1, <1>2, <2>5, <2>6, DataStays
<1>6. CASE CheckTarget(r)
  BY <1>4, <1>5, <1>6 DEF CheckTarget, Linking
<1>7. CASE CountWallets(r)
  BY <1>4, <1>5, <1>7 DEF CountWallets, Linking
<1>8. CASE CountGroups(r)
  <2>1. "wallet" \notin request[r].had \cap data[request[r].user]
    BY <1>8 DEF CountGroups, DInv, DataKnown, Linking
  <2> QED BY <1>4, <1>5, <1>8, <2>1 DEF CountGroups, Linking
<1> QED BY <1>3, <1>6, <1>7, <1>8

\* A merge deletes one user with all data, and lets the other links be, but
\* for the identity some of them lose.
LEMMA MergeData ==
  ASSUME IInv, DInv, NEW r \in Requests, Merge(r) PROVE DInv'
<1>1. PICK m \in Request : m = request[r]
  BY DEF IInv, TypeOK
<1>2. m.user \in Users /\ m.target \in Users \ {m.user} /\ Live(m.target)
  BY <1>1, MergeKnows
<1>3. /\ users'[m.user] = Deleted /\ data'[m.user] = {}
      /\ \A u \in Users \ {m.user} : data'[u] = data[u]
      /\ \A u \in Users \ {m.user, m.target} : users'[u] = users[u]
  BY <1>1, <1>2 DEF Merge, IInv, TypeOK
<1>4. \A u \in Users : Live(u)' => Live(u)
  BY <1>2, <1>3 DEF Live
<1>5. Live(m.target)'
  <2>1. m.telegram \in Telegrams /\ account'[m.telegram] = m.target /\ m.target # None
    BY <1>1, <1>2, MergeKnows, Rows DEF Merge, Moved, IInv
  <2>2. IdentitiesUnique'
    BY MergeStep DEF IInv
  <2> QED BY <2>1, <2>2 DEF IdentitiesUnique
<1>6. GoneIsEmpty'
  BY <1>3, <1>5 DEF DInv, GoneIsEmpty, Live
<1>7. ASSUME NEW x \in Requests PROVE DataKnown(request[x])'
  <2>1. PICK b \in Request : b = request[x]
    BY DEF IInv, TypeOK
  <2>2. PICK c : c = request'[x]
    OBVIOUS
  <2>3. \/ c.pc \notin Linking
        \/ c.pc = b.pc /\ c.user = b.user /\ c.had = b.had
    BY <2>1, <2>2 DEF Merge, Idle, Linking, Request
  <2>4. b.pc \in Linking => b.user \in Users
    BY <2>1 DEF IInv, Known, Knows, LinkKnows
  <2>5. DataKnown(b)
    BY <2>1 DEF DInv
  <2>6. DataKnown(c)'
    <3> SUFFICES ASSUME c.pc \in Linking PROVE DataKnown(c)'
      BY DEF DataKnown
    <3>1. CASE c.user = m.user
      BY <1>3, <3>1 DEF DataKnown, Live
    <3>2. CASE c.user # m.user
      <4>1. c.user \in Users /\ data'[c.user] = data[c.user] /\ (Live(c.user)' => Live(c.user))
        BY <1>3, <1>4, <2>3, <2>4, <3>2
      <4> QED BY <2>3, <2>5, <4>1 DEF DataKnown
    <3> QED BY <3>1, <3>2
  <2> QED BY <2>2, <2>6 DEF DataKnown, Live
<1> QED BY <1>6, <1>7 DEF DInv

\* Data comes to users who are there; what goes is forgotten.
LEMMA OtherData ==
  ASSUME IInv, DInv, NEW u \in Users, NEW k \in Kinds, Acquire(u, k) \/ Drop(u, k) PROVE DInv'
<1>1. users' = users
  BY DEF Acquire, Drop
<1>2. GoneIsEmpty'
  BY <1>1 DEF DInv, GoneIsEmpty, Live, Acquire, Drop, IInv, TypeOK
<1>3. ASSUME NEW x \in Requests PROVE DataKnown(request[x])'
  <2>1. PICK b \in Request : b = request[x]
    BY DEF IInv, TypeOK
  <2>2. PICK c : c = request'[x]
    OBVIOUS
  <2>3. DataKnown(b) /\ (b.pc \in Linking => b.user \in Users)
    BY <2>1 DEF DInv, IInv, Known, Knows, LinkKnows
  <2>4. CASE Acquire(u, k)
    <3>1. c = b /\ data' = [data EXCEPT ![u] = @ \cup {k}] /\ Live(u)
      BY <2>1, <2>2, <2>4 DEF Acquire
    <3>2. DataKnown(c)'
      BY <1>1, <2>3, <3>1 DEF DataKnown, Live, IInv, TypeOK
    <3> QED BY <2>2, <3>2 DEF DataKnown, Live
  <2>5. CASE Drop(u, k)
    <3>1. /\ c.pc = b.pc /\ c.user = b.user
          /\ c.had = IF b.user = u THEN b.had \ {k} ELSE b.had
          /\ data' = [data EXCEPT ![u] = @ \ {k}]
      BY <2>1, <2>2, <2>5 DEF Drop, Request
    <3>2. DataKnown(c)'
      BY <1>1, <2>3, <3>1 DEF DataKnown, Live, IInv, TypeOK
    <3> QED BY <2>2, <3>2 DEF DataKnown, Live
  <2> QED BY <2>4, <2>5
<1> QED BY <1>2, <1>3 DEF DInv

\* DInv is inductive next to IInv.
LEMMA DInductive == IInv /\ DInv /\ [Next]_vars => DInv'
<1> SUFFICES ASSUME IInv, DInv, [Next]_vars PROVE DInv'
  OBVIOUS
<1>1. ASSUME NEW r \in Requests, RequestStep(r) PROVE DInv'
  <2>1. CASE Merge(r)
    BY <2>1, MergeData
  <2>2. CASE AskLink(r) \/ CheckTarget(r) \/ CountWallets(r) \/ CountGroups(r)
    BY <2>2, LinkData
  <2>3. CASE /\ ~Merge(r)
             /\ ~(AskLink(r) \/ CheckTarget(r) \/ CountWallets(r) \/ CountGroups(r))
    <3>1. PICK q : q.pc \notin Linking /\ request' = [request EXCEPT ![r] = q]
      BY <1>1, <2>3, NoLink DEF RequestStep
    <3>2. DataKnown(q)'
      BY <3>1 DEF DataKnown
    <3> QED BY <1>1, <2>3, <3>1, <3>2, UsersStay, DataStays
  <2> QED BY <2>1, <2>2, <2>3
<1>2. CASE UNCHANGED vars
  BY <1>2 DEF vars, DInv, GoneIsEmpty, DataKnown, Live
<1> QED BY <1>1, <1>2, OtherData DEF Next

\* A merge deletes no wallets and no groups the caller had when the link was
\* asked for: they would have been counted.
THEOREM OldDataSpared == Spec => MergeSparesOldData
<1>1. Spec => []DInv
  BY DInit, DInductive, Invariance, PTL DEF Spec
<1>2. IInv /\ DInv => \A r \in Requests : Merge(r) => request[r].had \cap data[request[r].user] = {}
  <2> SUFFICES ASSUME IInv, DInv, NEW r \in Requests, Merge(r)
               PROVE  request[r].had \cap data[request[r].user] = {}
    OBVIOUS
  <2>1. PICK m \in Request : m = request[r]
    BY DEF IInv, TypeOK
  <2>2. DataKnown(m) /\ m.pc = "merge"
    BY <2>1 DEF DInv, Merge
  <2>3. m.had \subseteq {"wallet", "group"}
    BY AccountAssumption DEF Request
  <2> QED BY <2>1, <2>2, <2>3 DEF DataKnown, Linking
<1> DEFINE Spared == \A r \in Requests :
              Merge(r) => request[r].had \cap data[request[r].user] = {}
<1>3. IInv /\ DInv /\ [Next]_vars => [Spared]_vars
  BY <1>2
<1> QED BY <1>1, <1>3, Invariance, PTL DEF Spec, MergeSparesOldData
=============================================================================
