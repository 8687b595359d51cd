---------------------------- MODULE WalletsProofs ----------------------------
(***************************************************************************)
(* Proofs about Wallets, for any number of users, wallets, groups and      *)
(* requests: no two active wallets of a user have the same address, the    *)
(* first wallet is counted at most once, locks are held only by creates    *)
(* that go on, wallets are in groups of their owners, and a snapshot taken *)
(* in quiet is of the address a wallet has.                                *)
(*                                                                         *)
(* The invariant is built in layers, each proved with the help of those    *)
(* below it: the requests by themselves, the requests and the rows they    *)
(* refer to, the advisory locks, and what the properties say of the rows.  *)
(***************************************************************************)
EXTENDS Wallets, TLAPS

\* The requests about a wallet that is there.
Changes == {"patch", "delete", "restore"}

\* What a request knows by itself.
Shape(q) ==
  /\ q.pc = "idle" => q.wallet = None
  /\ q.pc # "idle" => q.op \in {"create"} \cup Changes /\ q.user \in Users /\ q.wallet \in WalletIds
                      /\ q.type \in Types
  /\ q.pc \in {"lock", "refresh"} => q.op = "create"
  /\ q.pc # "idle" /\ q.op = "create" =>
       /\ q.updates.address \in Addresses /\ q.updates.group \in Groups \cup {None}
       /\ Valid(q.type, q.updates.address)
  /\ q.pc # "idle" /\ q.op # "create" => q.copy \in Row
  /\ q.pc \in {"lock", "check"} => q.stamp = None
  /\ q.pc = "write" /\ q.op # "create" =>
       /\ q.updates.address # Unset => Valid(q.type, q.updates.address)
       /\ q.stamp = None => ~AddressChanged(q)

Shaped == TypeOK /\ \A r \in Requests : Shape(request[r])

\* A create that has not written its row yet.
Creates(q) == q.pc \notin {"idle", "refresh"} /\ q.op = "create"

\* It has a wallet id of its own that is not in the table yet; a change is
\* about a wallet that is there.
Bound(q) ==
  /\ Creates(q) => wallets[q.wallet] = None
  /\ q.pc # "idle" /\ q.op # "create" =>
       /\ wallets[q.wallet] # None
       /\ wallets[q.wallet].owner = q.user /\ wallets[q.wallet].type = q.type

Reserved == \A r, p \in Requests :
  r # p /\ Creates(request[r]) => request[p].wallet # request[r].wallet

\* Exactly the on-chain wallets have an address.
RowsValid == \A w \in WalletIds :
  wallets[w] # None => Valid(wallets[w].type, wallets[w].address)

\* The wallets of runs are there.
RunsBound == \A n \in Runs : runs[n] # None =>
  /\ wallets[runs[n].wallet] # None
  /\ runs[n].created_at <= now /\ runs[n].created_at < MaxTime

Related ==
  /\ \A r \in Requests : Bound(request[r])
  /\ Reserved /\ RowsValid /\ RunsBound

-----------------------------------------------------------------------------
\* The requests by themselves.

\* An idle request knows nothing.
LEMMA IdleShape == Idle \in Request /\ Shape(Idle)
BY WalletAssumption DEF Idle, Request, Shape, Nothing, Payload

\* How the local state of a request goes on: it ends, takes its next step, or
\* begins as a create or as a change.
Continues(q, x) ==
  /\ q.pc \notin {"idle", "refresh"} /\ x.pc # "idle"
  /\ x.op = q.op /\ x.user = q.user /\ x.wallet = q.wallet /\ x.type = q.type
  /\ x.copy = q.copy /\ x.updates = q.updates

BeginsCreate(x) ==
  /\ x.pc = "lock" /\ x.op = "create"
  /\ wallets[x.wallet] = None /\ \A p \in Requests : request[p].wallet # x.wallet

BeginsChange(x) ==
  /\ x.pc = "check" /\ x.op \in Changes /\ x.stamp = None
  /\ wallets[x.wallet] # None /\ x.copy = wallets[x.wallet]
  /\ x.user = x.copy.owner /\ x.type = x.copy.type

Moves(r, x) ==
  /\ x \in Request /\ Shape(x)
  /\ request' = [request EXCEPT ![r] = x]
  /\ x = Idle \/ Continues(request[r], x) \/ BeginsCreate(x) \/ BeginsChange(x)

\* What the steps make of a request: the end, ...
LEMMA EndMoves == ASSUME NEW r \in Requests, End(r) PROVE Moves(r, Idle)
BY IdleShape DEF End, Moves

\* ... the start of a create, ...
LEMMA AskCreateMoves ==
  ASSUME Shaped, NEW r \in Requests, AskCreate(r) PROVE \E x : Moves(r, x) /\ BeginsCreate(x)
<1>1. PICK u \in Users, w \in WalletIds, t \in Types, a \in Addresses, g \in Groups \cup {None} :
        /\ wallets[w] = None /\ \A q \in Requests : request[q].wallet # w
        /\ Valid(t, a)
        /\ request' = [request EXCEPT ![r] =
             [Idle EXCEPT !.pc = "lock", !.op = "create", !.user = u, !.wallet = w, !.type = t,
                          !.updates = [address |-> a, active |-> TRUE, group |-> g]]]
  BY DEF AskCreate
<1> DEFINE x == [Idle EXCEPT !.pc = "lock", !.op = "create", !.user = u, !.wallet = w, !.type = t,
                             !.updates = [address |-> a, active |-> TRUE, group |-> g]]
<1>2. [address |-> a, active |-> TRUE, group |-> g] \in Payload
  BY DEF Payload
<1>3. x \in Request
  BY <1>2, IdleShape DEF Request
<1>4. Shape(x)
  BY <1>1, <1>2, <1>3 DEF Shape, Idle, Changes
<1>5. BeginsCreate(x)
  BY <1>1 DEF BeginsCreate, Idle
<1> QED BY <1>1, <1>3, <1>4, <1>5 DEF Moves

\* ... the start of a change, ...
LEMMA AskChangeMoves ==
  ASSUME Shaped, NEW r \in Requests, AskChange(r) PROVE \E x : Moves(r, x) /\ BeginsChange(x)
<1>1. PICK w \in WalletIds, op \in Changes, p \in Payload :
        /\ wallets[w] # None
        /\ request' = [request EXCEPT ![r] =
             [Idle EXCEPT !.pc = "check", !.op = op, !.user = wallets[w].owner, !.wallet = w,
                          !.copy = wallets[w], !.type = wallets[w].type, !.updates = p]]
  <2>1. PICK w \in WalletIds, op \in Changes :
        \E p \in CASE op = "patch" -> Payloads
                   [] op = "delete" -> {[Nothing EXCEPT !.active = FALSE]}
                   [] op = "restore" -> {[Nothing EXCEPT !.active = TRUE]} :
          /\ wallets[w] # None
          /\ request' = [request EXCEPT ![r] =
               [Idle EXCEPT !.pc = "check", !.op = op, !.user = wallets[w].owner, !.wallet = w,
                            !.copy = wallets[w], !.type = wallets[w].type, !.updates = p]]
    BY DEF AskChange, Changes
  <2>2. (CASE op = "patch" -> Payloads
           [] op = "delete" -> {[Nothing EXCEPT !.active = FALSE]}
           [] op = "restore" -> {[Nothing EXCEPT !.active = TRUE]}) \subseteq Payload
    BY PayloadAssumption DEF Changes, Nothing, Payload
  <2> QED BY <2>1, <2>2
<1>2. PICK row \in Row : row = wallets[w]
  BY <1>1 DEF Shaped, TypeOK
<1> DEFINE x == [Idle EXCEPT !.pc = "check", !.op = op, !.user = row.owner, !.wallet = w,
                             !.copy = row, !.type = row.type, !.updates = p]
<1>3. row.owner \in Users /\ row.type \in Types
  BY DEF Row
<1>4. x \in Request
  BY <1>3, IdleShape DEF Request, Changes
<1>5. Shape(x)
  BY <1>3 DEF Shape, Idle, Changes
<1>6. BeginsChange(x)
  BY <1>1, <1>2 DEF BeginsChange, Idle
<1>7. request' = [request EXCEPT ![r] = x]
  BY <1>1, <1>2
<1> QED BY <1>4, <1>5, <1>6, <1>7 DEF Moves

\* A request that takes its next step keeps what it is about.
LEMMA Advanced ==
  ASSUME NEW q, NEW x, Shape(q), Continues(q, x),
         \/ x.pc = "check" /\ q.pc = "lock" /\ x.stamp = None
         \/ x.pc \in {"write", "refresh"} /\ q.op = "create"
         \/ /\ x.pc = "write" /\ q.op # "create"
            /\ q.updates.address # Unset => Valid(q.type, q.updates.address)
            /\ x.stamp = None => ~AddressChanged(q)
  PROVE  Shape(x)
BY DEF Shape, Continues, AddressChanged, Changes

\* What a create has seen of the user's wallets is still so.
First(q) == q.first = ~HasWallet(q.user)

\* The first wallet is looked for; the checks pass.
LEMMA LockMoves ==
  ASSUME Shaped, NEW r \in Requests, Lock(r)
  PROVE  \E x : /\ Moves(r, x) /\ Continues(request[r], x)
                /\ x.pc = "check" /\ First(x)
<1>1. PICK q \in Request : q = request[r] /\ Shape(q)
  BY DEF Shaped, TypeOK
<1>2. PICK b \in BOOLEAN : b = ~HasWallet(q.user)
  BY DEF HasWallet
<1> DEFINE x == [q EXCEPT !.pc = "check", !.first = b]
<1>3. /\ request' = [request EXCEPT ![r] = x]
      /\ q.pc = "lock"
  BY <1>1, <1>2 DEF Lock, Shaped, TypeOK
<1>4. x \in Request
  BY DEF Request
<1>5. /\ Continues(q, x) /\ x.pc = "check" /\ x.first = b /\ x.stamp = q.stamp
  BY <1>3 DEF Continues, Request
<1>6. q.stamp = None
  BY <1>1, <1>3 DEF Shape
<1> HIDE DEF x
<1>7. Shape(x)
  BY <1>1, <1>3, <1>5, <1>6, Advanced
<1>8. Moves(r, x)
  BY <1>1, <1>3, <1>4, <1>5, <1>7 DEF Moves
<1>9. First(x)
  BY <1>2, <1>5 DEF Continues, First
<1> QED BY <1>1, <1>5, <1>8, <1>9

\* ... the check of a create, which keeps what it has read, ...
LEMMA CheckCreateMoves ==
  ASSUME Shaped, NEW r \in Requests, CheckCreate(r)
  PROVE  \E x : /\ Moves(r, x) /\ Continues(request[r], x)
                /\ request[r].pc = "check" /\ x.op = "create" /\ x.pc = "write"
                /\ x.first = request[r].first
<1>1. PICK q \in Request : q = request[r] /\ Shape(q)
  BY DEF Shaped, TypeOK
<1> DEFINE x == [q EXCEPT !.pc = "write"]
<1>2. /\ request' = [request EXCEPT ![r] = x]
      /\ q.pc = "check" /\ q.op = "create"
  BY <1>1 DEF CheckCreate, Goto, Shaped, TypeOK
<1>3. x \in Request
  BY DEF Request
<1>4. Continues(q, x) /\ x.pc = "write" /\ x.first = q.first /\ x.op = "create"
  BY <1>2 DEF Continues, Request
<1> HIDE DEF x
<1>5. Shape(x)
  BY <1>1, <1>2, <1>4, Advanced
<1> QED BY <1>1, <1>2, <1>3, <1>4, <1>5 DEF Moves

\* ... and that of a change, which stamps a new address.
LEMMA CheckChangeMoves ==
  ASSUME Shaped, NEW r \in Requests, CheckChange(r)
  PROVE  \E x : /\ Moves(r, x) /\ Continues(request[r], x)
                /\ request[r].pc = "check" /\ x.op # "create" /\ x.pc = "write"
                /\ x.stamp \in {None, Later}
                /\ x.stamp = None => ~AddressChanged(request[r])
<1>1. PICK q \in Request : q = request[r] /\ Shape(q)
  BY DEF Shaped, TypeOK
<1>2. PICK s \in 0..MaxTime \cup {None} : s = IF AddressChanged(q) THEN Later ELSE None
  <2>1. Later \in 0..MaxTime
    BY WalletAssumption DEF Later, Shaped, TypeOK
  <2> QED BY <2>1
<1> DEFINE x == [q EXCEPT !.pc = "write", !.stamp = s]
<1>3. /\ request' = [request EXCEPT ![r] = x]
      /\ q.pc = "check" /\ q.op # "create"
  BY <1>1, <1>2 DEF CheckChange, Shaped, TypeOK
<1>4. x \in Request
  BY DEF Request
<1>5. Continues(q, x) /\ x.pc = "write" /\ x.stamp = s /\ x.op # "create"
  BY <1>3 DEF Continues, Request
<1>6. q.updates.address # Unset => Valid(q.type, q.updates.address)
  BY <1>1, <1>3 DEF CheckChange, ChangeRefused
<1>7. s \in {None, Later} /\ (s = None => ~AddressChanged(q))
  <2>1. Later # None
    BY WalletAssumption DEF Later, Shaped, TypeOK
  <2> QED BY <1>2, <2>1
<1> HIDE DEF x
<1>8. Shape(x)
  BY <1>1, <1>3, <1>5, <1>6, <1>7, Advanced
<1> QED BY <1>1, <1>3, <1>4, <1>5, <1>7, <1>8 DEF Moves

\* A create that has written its row goes on to count it.
LEMMA InsertMoves ==
  ASSUME Shaped, NEW r \in Requests, Insert(r)
  PROVE  \E x : /\ Moves(r, x) /\ Continues(request[r], x)
                /\ x.pc = "refresh" /\ x.op = "create" /\ x.first = request[r].first
<1>1. PICK q \in Request : q = request[r] /\ Shape(q)
  BY DEF Shaped, TypeOK
<1> DEFINE x == [q EXCEPT !.pc = "refresh"]
<1>2. /\ request' = [request EXCEPT ![r] = x]
      /\ q.pc = "write" /\ q.op = "create"
  BY <1>1 DEF Insert, Goto, Shaped, TypeOK
<1>3. x \in Request
  BY DEF Request
<1>4. Continues(q, x) /\ x.pc = "refresh" /\ x.first = q.first /\ x.op = "create"
  BY <1>2 DEF Continues, Request
<1> HIDE DEF x
<1>5. Shape(x)
  BY <1>1, <1>2, <1>4, Advanced
<1> QED BY <1>1, <1>2, <1>3, <1>4, <1>5 DEF Moves

\* The steps that end a request.
Ends(r) ==
  \/ RefuseCreate(r) \/ Count(r) \/ RefreshFails(r) \/ RefuseChange(r) \/ WriteFails(r)

\* The steps of a request that change no row.
Quietly(r) ==
  \/ AskCreate(r) \/ AskChange(r) \/ Lock(r) \/ CheckCreate(r) \/ CheckChange(r) \/ Ends(r)

\* The end of a request is one of its transaction, too.
LEMMA EndingEnds == ASSUME NEW r \in Requests, Ends(r) PROVE End(r)
BY DEF Ends, RefuseCreate, Count, RefreshFails, RefuseChange, WriteFails

\* Only one of them counts.
LEMMA QuietActivated ==
  ASSUME NEW r \in Requests, Quietly(r), ~Count(r) PROVE UNCHANGED activated
<1>1. CASE Ends(r)
  BY <1>1 DEF Ends, RefuseCreate, RefreshFails, RefuseChange, WriteFails
<1>2. CASE ~Ends(r)
  BY <1>2 DEF Quietly, AskCreate, AskChange, Lock, CheckCreate, CheckChange
<1> QED BY <1>1, <1>2

\* They move the request.
LEMMA QuietMoves ==
  ASSUME Shaped, NEW r \in Requests, Quietly(r) PROVE \E x : Moves(r, x)
<1>1. CASE Ends(r)
  BY <1>1, EndingEnds, EndMoves
<1>2. CASE ~Ends(r)
  BY <1>2, AskCreateMoves, AskChangeMoves, LockMoves, CheckCreateMoves, CheckChangeMoves
     DEF Quietly
<1> QED BY <1>1, <1>2

\* So do those that write a row: the change ends, the create goes on.
LEMMA WriteMoves ==
  ASSUME Shaped, NEW r \in Requests, Insert(r) \/ Update(r)
  PROVE  \E x : Moves(r, x) /\ x.pc \in {"idle", "refresh"} /\ (x.pc = "refresh" => x.op = "create")
<1>1. CASE Insert(r)
  BY <1>1, InsertMoves
<1>2. CASE Update(r)
  BY <1>2, EndMoves DEF Update, Idle
<1> QED BY <1>1, <1>2

\* The row a change writes, and its columns.
LEMMA UpdatedRow ==
  ASSUME Shaped, Related, NEW r \in Requests, request[r].pc = "write", request[r].op # "create"
  PROVE  LET q == request[r]
             old == wallets[q.wallet]
             row == Updated(q)
         IN /\ old \in Row /\ row \in Row
            /\ row.owner = old.owner /\ row.type = old.type /\ row.type = q.type
            /\ Valid(row.type, row.address)
            /\ \/ row.address = old.address
               \/ q.updates.address # Unset /\ row.address = q.updates.address
            /\ row.group = old.group \/ (q.updates.group # Unset /\ row.group = q.updates.group)
            /\ row.address_updated_at =
                 IF q.stamp = None THEN old.address_updated_at ELSE q.stamp
<1>1. PICK q \in Request : q = request[r] /\ Shape(q) /\ Bound(q)
  BY DEF Shaped, TypeOK, Related
<1>2. q.wallet \in WalletIds /\ q.pc # "idle" /\ q.op # "create"
  BY <1>1 DEF Shape
<1>3. PICK old \in Row : /\ old = wallets[q.wallet] /\ old.type = q.type
                         /\ Valid(old.type, old.address)
  BY <1>1, <1>2 DEF Bound, Shaped, TypeOK, Related, RowsValid
<1>4. q.updates.address # Unset => Valid(q.type, q.updates.address)
  BY <1>1 DEF Shape
<1> DEFINE a == IF "address" \in Changed(q) THEN q.updates["address"] ELSE old["address"]
           b == IF "active" \in Changed(q) THEN q.updates["active"] ELSE old["active"]
           g == IF "group" \in Changed(q) THEN q.updates["group"] ELSE old["group"]
           s == IF q.stamp = None THEN old.address_updated_at ELSE q.stamp
           row == [old EXCEPT !.address = a, !.active = b, !.group = g,
                              !.address_updated_at = s]
<1>5. Updated(q) = row
  BY <1>3 DEF Updated
<1>6. \A f \in Changed(q) : q.updates[f] # Unset
  BY DEF Changed
<1>7. /\ a \in Addresses /\ b \in BOOLEAN /\ g \in Groups \cup {None} /\ s \in 0..MaxTime
      /\ a = old.address \/ (q.updates.address # Unset /\ a = q.updates.address)
      /\ g = old.group \/ (q.updates.group # Unset /\ g = q.updates.group)
  <2>1. /\ q.updates.address \in Addresses \cup {Unset} /\ q.updates.active \in BOOLEAN \cup {Unset}
        /\ q.updates.group \in Groups \cup {None, Unset} /\ q.stamp \in 0..MaxTime \cup {None}
    BY DEF Request, Payload
  <2>2. /\ old.address \in Addresses /\ old.active \in BOOLEAN
        /\ old.group \in Groups \cup {None} /\ old.address_updated_at \in 0..MaxTime
    BY DEF Row
  <2>3. a \in Addresses /\ (a = old.address \/ (q.updates.address # Unset /\ a = q.updates.address))
    BY <1>6, <2>1, <2>2
  <2>4. b \in BOOLEAN
    <3>1. CASE "active" \in Changed(q)
      BY <1>6, <2>1, <3>1
    <3>2. CASE "active" \notin Changed(q)
      BY <2>2, <3>2
    <3> QED BY <3>1, <3>2
  <2>5. /\ g \in Groups \cup {None}
        /\ g = old.group \/ (q.updates.group # Unset /\ g = q.updates.group)
    BY <1>6, <2>1, <2>2
  <2>6. s \in 0..MaxTime
    BY <2>1, <2>2
  <2> QED BY <2>3, <2>4, <2>5, <2>6
<1> HIDE DEF a, b, g, s
<1>8. /\ row \in Row
      /\ row.owner = old.owner /\ row.type = old.type
      /\ row.address = a /\ row.group = g /\ row.address_updated_at = s
  BY <1>7 DEF Row
<1>9. Valid(row.type, row.address)
  BY <1>3, <1>4, <1>7, <1>8
<1>10. s = IF q.stamp = None THEN old.address_updated_at ELSE q.stamp
  BY DEF s
<1> HIDE DEF row
<1> QED BY <1>1, <1>3, <1>5, <1>7, <1>8, <1>9, <1>10

-----------------------------------------------------------------------------
\* The requests and the rows they refer to.

\* A step after which the wallets that were there are there, of the same owner
\* and type.
RowsKept == \A w \in WalletIds :
  wallets[w] # None => /\ wallets'[w] # None
                       /\ wallets'[w].owner = wallets[w].owner
                       /\ wallets'[w].type = wallets[w].type

\* A wallet that is new is the one that request r has created.
OnlyNew(r, x) == \A w \in WalletIds :
  wallets[w] = None /\ wallets'[w] # None =>
    ~Creates(x) /\ Creates(request[r]) /\ request[r].wallet = w

\* The step of a request leaves every request with the wallet it is about.
LEMMA RequestsRelated ==
  ASSUME Shaped, Related, NEW r \in Requests, NEW x, Moves(r, x), RowsKept, OnlyNew(r, x)
  PROVE  (\A p \in Requests : Bound(request[p])') /\ Reserved'
<1>1. /\ request'[r] = x /\ x \in Request /\ Shape(x)
      /\ \A p \in Requests : p # r => request'[p] = request[p]
      /\ \A p \in Requests : request[p] \in Request /\ Shape(request[p]) /\ Bound(request[p])
  BY DEF Shaped, Related, TypeOK, Moves
<1>2. x = Idle \/ Continues(request[r], x) \/ BeginsCreate(x) \/ BeginsChange(x)
  BY DEF Moves
<1>3. Idle.pc = "idle" /\ Idle.wallet = None
  BY DEF Idle
<1>4. Bound(x)'
  <2>1. CASE x = Idle
    BY <1>3, <2>1 DEF Bound, Creates
  <2>2. CASE Continues(request[r], x)
    <3>1. x.pc # "idle" /\ x # Idle /\ x.wallet \in WalletIds
      BY <1>1, <1>3, <2>2 DEF Continues, Shape
    <3>2. CASE x.op = "create"
      <4>1. wallets[x.wallet] = None
        BY <1>1, <2>2, <3>2 DEF Continues, Bound, Creates
      <4> QED BY <3>1, <3>2, <4>1 DEF Bound, OnlyNew
    <3>3. CASE x.op # "create"
      BY <1>1, <2>2, <3>1, <3>3 DEF Continues, Bound, Creates, RowsKept
    <3> QED BY <3>2, <3>3
  <2>3. CASE BeginsCreate(x)
    <3>1. x.wallet \in WalletIds /\ x.op = "create"
      BY <1>1, <2>3 DEF Shape, BeginsCreate
    <3>2. wallets'[x.wallet] = None
      BY <2>3, <3>1 DEF BeginsCreate, OnlyNew
    <3> QED BY <3>1, <3>2 DEF Bound
  <2>4. CASE BeginsChange(x)
    <3>1. x.wallet \in WalletIds /\ x.op # "create"
      BY <1>1, <2>4 DEF Shape, BeginsChange, Changes
    <3> QED BY <2>4, <3>1 DEF Bound, BeginsChange, Creates, RowsKept
  <2> QED BY <1>2, <2>1, <2>2, <2>3, <2>4
<1>5. ASSUME NEW p \in Requests PROVE Bound(request[p])'
  <2>1. CASE p = r
    BY <1>1, <1>4, <2>1 DEF Bound
  <2>2. CASE p # r
    <3>1. CASE Creates(request[p])
      <4>1. wallets[request[p].wallet] = None /\ request[p].wallet \in WalletIds
        BY <1>1, <3>1 DEF Bound, Shape, Creates
      <4>2. request[r].wallet # request[p].wallet
        BY <2>2, <3>1 DEF Related, Reserved
      <4>3. request[p].op = "create"
        BY <3>1 DEF Creates
      <4> QED BY <1>1, <2>2, <4>1, <4>2, <4>3 DEF Bound, OnlyNew
    <3>2. CASE request[p].pc # "idle" /\ request[p].op # "create"
      <4>1. request[p].wallet \in WalletIds
        BY <1>1, <3>2 DEF Shape
      <4> QED BY <1>1, <2>2, <3>2, <4>1 DEF Bound, Creates, RowsKept
    <3>3. CASE ~Creates(request[p]) /\ (request[p].pc = "idle" \/ request[p].op = "create")
      BY <1>1, <2>2, <3>3 DEF Bound, Creates
    <3> QED BY <3>1, <3>2, <3>3
  <2> QED BY <2>1, <2>2
<1>6. Reserved'
  <2> SUFFICES ASSUME NEW c \in Requests, NEW p \in Requests, c # p,
                      Creates(request'[c])
               PROVE  request'[p].wallet # request'[c].wallet
    BY DEF Reserved, Creates
  <2>1. CASE c # r /\ p # r
    BY <1>1, <2>1 DEF Related, Reserved
  <2>2. CASE c = r
    <3>1. (Continues(request[r], x) /\ Creates(request[r])) \/ BeginsCreate(x)
      BY <1>1, <1>2, <1>3, <2>2 DEF BeginsChange, Changes, Continues, Creates
    <3> QED BY <1>1, <2>2, <3>1 DEF Related, Reserved, Continues, BeginsCreate
  <2>3. CASE c # r /\ p = r
    <3>1. /\ request[c].wallet \in WalletIds /\ wallets[request[c].wallet] = None
          /\ request[r].wallet # request[c].wallet
      BY <1>1, <2>3 DEF Shape, Bound, Creates, Related, Reserved
    <3>2. request[c].wallet # None
      BY <3>1, WalletAssumption
    <3> QED BY <1>1, <1>2, <1>3, <2>3, <3>1, <3>2 DEF Continues, BeginsCreate, BeginsChange
  <2> QED BY <2>1, <2>2, <2>3
<1> QED BY <1>5, <1>6

\* The tables keep their shape, whatever a request does to one row.
LEMMA ShapedMove ==
  ASSUME Shaped, NEW r \in Requests, NEW x, Moves(r, x),
         now' \in 0..MaxTime, wallets' \in [WalletIds -> Row \cup {None}],
         advisory' \in [Users -> Requests \cup {None}], activated' \in [Users -> Nat],
         UNCHANGED <<groups, runs>>
  PROVE  Shaped'
<1>1. request' \in [Requests -> Request] /\ \A p \in Requests : Shape(request'[p])
  BY DEF Shaped, TypeOK, Moves
<1> QED BY <1>1 DEF Shaped, TypeOK

\* The row an INSERT adds is the one the create asked for.
LEMMA NewRow ==
  ASSUME Shaped, NEW r \in Requests, Insert(r)
  PROVE  \E row \in Row :
           /\ wallets' = [wallets EXCEPT ![request[r].wallet] = row] /\ row # None
           /\ row.owner = request[r].user /\ row.type = request[r].type
           /\ row.address = request[r].updates.address
           /\ row.group = request[r].updates.group
<1>1. PICK q \in Request : q = request[r] /\ Shape(q) /\ q.pc = "write" /\ q.op = "create"
  BY DEF Shaped, TypeOK, Insert
<1>2. /\ q.user \in Users /\ q.type \in Types
      /\ q.updates.address \in Addresses /\ q.updates.group \in Groups \cup {None}
  BY <1>1 DEF Shape
<1>3. PICK at \in 0..MaxTime : at = Later
  BY WalletAssumption DEF Later, Shaped, TypeOK
<1> DEFINE row == [owner |-> q.user, type |-> q.type, address |-> q.updates.address,
                   active |-> TRUE, group |-> q.updates.group, address_updated_at |-> at]
<1>4. row \in Row
  BY <1>2 DEF Row
<1>5. wallets' = [wallets EXCEPT ![q.wallet] = row]
  BY <1>1, <1>3 DEF Insert
<1> QED BY <1>1, <1>4, <1>5, NothingAssumption

\* The steps that change no row.
LEMMA QuietShaped ==
  ASSUME Shaped, NEW r \in Requests, Quietly(r)
  PROVE  Shaped' /\ UNCHANGED <<wallets, groups, runs>> /\ now <= now'
<1>1. PICK x : Moves(r, x)
  BY QuietMoves
<1>2. UNCHANGED <<wallets, groups, runs>> /\ now' \in {now, Later}
  <2>1. CASE Ends(r)
    BY <2>1 DEF Ends, RefuseCreate, Count, RefreshFails, RefuseChange, WriteFails
  <2>2. CASE ~Ends(r)
    BY <2>2 DEF Quietly, AskCreate, AskChange, Lock, CheckCreate, CheckChange
  <2> QED BY <2>1, <2>2
<1>3. activated' \in [Users -> Nat]
  <2>1. CASE Count(r)
    <3>1. PICK f, u : /\ f \in BOOLEAN /\ f = request[r].first /\ u = request[r].user
      BY DEF Shaped, TypeOK, Request
    <3>2. u \in Users
      BY <2>1, <3>1 DEF Count, Shaped, Shape
    <3>3. activated' = [activated EXCEPT ![u] = IF f THEN activated[u] + 1 ELSE activated[u]]
      BY <2>1, <3>1 DEF Count
    <3>4. activated \in [Users -> Nat] /\ activated[u] \in Nat
      BY <3>2 DEF Shaped, TypeOK
    <3>5. (IF f THEN activated[u] + 1 ELSE activated[u]) \in Nat
      BY <3>4
    <3> QED BY <3>3, <3>4, <3>5
  <2>2. CASE ~Count(r)
    <3>1. UNCHANGED activated
      BY <2>2, QuietActivated
    <3> QED BY <3>1 DEF Shaped, TypeOK
  <2> QED BY <2>1, <2>2
<1>4. now' \in 0..MaxTime /\ now <= now'
  BY <1>2, WalletAssumption DEF Later, Shaped, TypeOK
<1>5. advisory' \in [Users -> Requests \cup {None}]
  <2>1. CASE Ends(r)
    <3>1. Unlock(r)
      BY <2>1, EndingEnds DEF End
    <3> QED BY <3>1 DEF Unlock, Shaped, TypeOK
  <2>2. CASE ~Ends(r)
    BY <2>2 DEF Quietly, AskCreate, AskChange, Lock, CheckCreate, CheckChange, Shaped, TypeOK
  <2> QED BY <2>1, <2>2
<1> QED BY <1>1, <1>2, <1>3, <1>4, <1>5, ShapedMove DEF Shaped, TypeOK

\* The steps that write one row.
LEMMA WriteShaped ==
  ASSUME Shaped, Related, NEW r \in Requests, Insert(r) \/ Update(r)
  PROVE  Shaped' /\ UNCHANGED <<groups, activated, runs>> /\ now <= now'
<1>1. PICK x : Moves(r, x)
  BY WriteMoves
<1> UNCHANGED <<groups, activated, runs>>
  BY DEF Insert, Update
<1>2. wallets' \in [WalletIds -> Row \cup {None}]
  <2>1. CASE Insert(r)
    BY <2>1, NewRow DEF Shaped, TypeOK
  <2>2. CASE Update(r)
    BY <2>2, UpdatedRow DEF Update, Shaped, TypeOK
  <2> QED BY <2>1, <2>2
<1>3. now' \in 0..MaxTime /\ now <= now'
  BY WalletAssumption DEF Insert, Update, Later, Shaped, TypeOK
<1>4. advisory' \in [Users -> Requests \cup {None}] /\ activated' \in [Users -> Nat]
  <2>1. Unlock(r)
    BY DEF Insert, Update, End
  <2> QED BY <2>1 DEF Unlock, Shaped, TypeOK
<1> QED BY <1>1, <1>2, <1>3, <1>4, ShapedMove

\* The steps of others: groups and snapshot runs.
LEMMA DeleteGroupRows ==
  ASSUME Shaped, NEW g \in Groups, DeleteGroup(g)
  PROVE  /\ wallets' \in [WalletIds -> Row \cup {None}] /\ RowsKept
         /\ \A w \in WalletIds : wallets[w] = None => wallets'[w] = None
         /\ \A w \in WalletIds : wallets[w] # None =>
              /\ wallets'[w].address = wallets[w].address
              /\ wallets'[w].active = wallets[w].active
              /\ wallets'[w].address_updated_at = wallets[w].address_updated_at
              /\ wallets'[w].group = IF wallets[w].group = g THEN None ELSE wallets[w].group
<1> SUFFICES ASSUME NEW w \in WalletIds
             PROVE  /\ wallets'[w] \in Row \cup {None}
                    /\ wallets[w] = None => wallets'[w] = None
                    /\ wallets[w] # None =>
                         /\ wallets'[w] # None
                         /\ wallets'[w].owner = wallets[w].owner
                         /\ wallets'[w].type = wallets[w].type
                         /\ wallets'[w].address = wallets[w].address
                         /\ wallets'[w].active = wallets[w].active
                         /\ wallets'[w].address_updated_at = wallets[w].address_updated_at
                         /\ wallets'[w].group =
                              IF wallets[w].group = g THEN None ELSE wallets[w].group
  BY DEF DeleteGroup, RowsKept
<1>1. CASE wallets[w] # None /\ wallets[w].group = g
  <2>1. PICK row \in Row : row = wallets[w]
    BY <1>1 DEF Shaped, TypeOK
  <2>2. wallets'[w] = [row EXCEPT !.group = None]
    BY <1>1, <2>1 DEF DeleteGroup
  <2>3. wallets'[w] \in Row
    BY <2>2 DEF Row
  <2> QED BY <1>1, <2>1, <2>2, <2>3, NothingAssumption DEF Row
<1>2. CASE wallets[w] = None \/ wallets[w].group # g
  <2>1. wallets'[w] = wallets[w] /\ wallets[w] \in Row \cup {None}
    BY <1>2 DEF DeleteGroup, Shaped, TypeOK
  <2> QED BY <1>2, <2>1
<1> QED BY <1>1, <1>2

\* Groups and runs leave the requests alone.
LEMMA OthersShaped ==
  ASSUME Shaped, Related,
         \/ \E g \in Groups : CreateGroup(g) \/ DeleteGroup(g)
         \/ \E n \in Runs : StartRun(n) \/ Capture(n)
  PROVE  Shaped' /\ UNCHANGED <<advisory, request, activated>> /\ now <= now'
<1>1. UNCHANGED <<advisory, request, activated>> /\ now' \in {now, now + 1}
  BY DEF CreateGroup, DeleteGroup, StartRun, Capture
<1>2. now' \in 0..MaxTime /\ now <= now'
  <2>1. now \in 0..MaxTime /\ MaxTime \in Nat
    BY WalletAssumption DEF Shaped, TypeOK
  <2>2. now' = now \/ (now' = now + 1 /\ now + 1 < MaxTime)
    BY DEF CreateGroup, DeleteGroup, StartRun, Capture
  <2> QED BY <2>1, <2>2
<1>3. wallets' \in [WalletIds -> Row \cup {None}]
  <2>1. CASE \E g \in Groups : DeleteGroup(g)
    BY <2>1, DeleteGroupRows
  <2>2. CASE ~\E g \in Groups : DeleteGroup(g)
    BY <2>2 DEF CreateGroup, StartRun, Capture, Shaped, TypeOK
  <2> QED BY <2>1, <2>2
<1>4. groups' \in [Groups -> Users \cup {"unborn", "deleted"}]
  BY DEF CreateGroup, DeleteGroup, StartRun, Capture, Shaped, TypeOK
<1>5. runs' \in [Runs -> Snapshot \cup {None}]
  <2>1. ASSUME NEW n \in Runs, StartRun(n) PROVE runs' \in [Runs -> Snapshot \cup {None}]
    <3>1. PICK w \in WalletIds, b \in BOOLEAN :
            runs' = [runs EXCEPT ![n] = [wallet |-> w, created_at |-> now + 1,
                                         address |-> None, quiet |-> b]]
      BY <2>1 DEF StartRun, Quiet
    <3>2. now + 1 \in 0..MaxTime
      BY <2>1, WalletAssumption DEF StartRun, Shaped, TypeOK
    <3>3. [wallet |-> w, created_at |-> now + 1, address |-> None, quiet |-> b] \in Snapshot
      BY <3>2 DEF Snapshot, Addresses
    <3> QED BY <3>1, <3>3 DEF Shaped, TypeOK
  <2>2. ASSUME NEW n \in Runs, Capture(n) PROVE runs' \in [Runs -> Snapshot \cup {None}]
    <3>1. PICK run \in Snapshot : run = runs[n] /\ wallets[run.wallet] # None
      BY <2>2 DEF Capture, Shaped, TypeOK, Related, RunsBound
    <3>2. run.wallet \in WalletIds
      BY DEF Snapshot
    <3>3. PICK a \in Addresses : a = wallets[run.wallet].address
      BY <3>1, <3>2 DEF Shaped, TypeOK, Row
    <3>4. PICK b \in BOOLEAN : b = (run.quiet /\ Quiet(run.wallet))
      BY DEF Quiet, Snapshot
    <3>5. runs' = [runs EXCEPT ![n] = [run EXCEPT !.address = a, !.quiet = b]]
      BY <2>2, <3>1, <3>3, <3>4 DEF Capture, Shaped, TypeOK
    <3>6. [run EXCEPT !.address = a, !.quiet = b] \in Snapshot
      BY DEF Snapshot
    <3> QED BY <3>5, <3>6 DEF Shaped, TypeOK
  <2>3. CASE \E g \in Groups : CreateGroup(g) \/ DeleteGroup(g)
    BY <2>3 DEF CreateGroup, DeleteGroup, Shaped, TypeOK
  <2> QED BY <2>1, <2>2, <2>3
<1> QED BY <1>1, <1>2, <1>3, <1>4, <1>5 DEF Shaped, TypeOK

\* The runs and the rows that stay.
LEMMA RunsRelated ==
  ASSUME Shaped, Shaped', Related, RowsKept, UNCHANGED runs, now <= now'
  PROVE  RunsBound'
<1> SUFFICES ASSUME NEW n \in Runs, runs[n] # None
             PROVE  /\ wallets'[runs[n].wallet] # None
                    /\ runs[n].created_at <= now' /\ runs[n].created_at < MaxTime
  BY DEF RunsBound
<1>1. PICK run \in Snapshot : run = runs[n]
  BY DEF Shaped, TypeOK
<1>2. run.wallet \in WalletIds /\ run.created_at \in Nat /\ now \in Nat /\ now' \in Nat
  BY DEF Snapshot, Shaped, TypeOK
<1>3. wallets[run.wallet] # None /\ run.created_at <= now /\ run.created_at < MaxTime
  BY <1>1 DEF Related, RunsBound
<1> QED BY <1>1, <1>2, <1>3 DEF RowsKept

\* A step that writes no wallet leaves requests and rows related.
LEMMA QuietRelated ==
  ASSUME Shaped, Related, NEW r \in Requests, Quietly(r)
  PROVE  Related'
<1>1. Shaped' /\ UNCHANGED <<wallets, groups, runs>> /\ now <= now'
  BY QuietShaped
<1>2. PICK x : Moves(r, x)
  BY QuietMoves
<1>3. RowsKept /\ OnlyNew(r, x)
  BY <1>1 DEF RowsKept, OnlyNew
<1>4. (\A p \in Requests : Bound(request[p]))' /\ Reserved'
  BY <1>2, <1>3, RequestsRelated
<1>5. RowsValid' /\ RunsBound'
  BY <1>1, <1>3, RunsRelated DEF Related, RowsValid
<1> QED BY <1>4, <1>5 DEF Related

\* A write adds a row or changes one; owner and type stay.
LEMMA WriteRelated ==
  ASSUME Shaped, Related, NEW r \in Requests, Insert(r) \/ Update(r)
  PROVE  RowsKept /\ Related'
<1>1. Shaped' /\ UNCHANGED <<groups, runs>> /\ now <= now'
  BY WriteShaped
<1> PICK x : Moves(r, x) /\ x.pc \in {"idle", "refresh"}
  BY WriteMoves
<1>2. PICK q \in Request :
        q = request[r] /\ Shape(q) /\ Bound(q) /\ q.pc = "write" /\ q.wallet \in WalletIds
  BY DEF Shaped, TypeOK, Related, Insert, Update, Shape
<1>3. PICK row \in Row :
        /\ wallets' = [wallets EXCEPT ![q.wallet] = row] /\ row # None
        /\ wallets[q.wallet] # None =>
             row.owner = wallets[q.wallet].owner /\ row.type = wallets[q.wallet].type
        /\ Valid(row.type, row.address)
        /\ wallets[q.wallet] = None => Creates(q)
  <2>1. CASE Insert(r)
    <3>1. q.op = "create" /\ wallets[q.wallet] = None /\ Valid(q.type, q.updates.address)
      BY <1>2, <2>1 DEF Insert, Bound, Creates, Shape
    <3> QED BY <1>2, <2>1, <3>1, NewRow DEF Creates
  <2>2. CASE Update(r)
    <3>1. q.op # "create" /\ wallets[q.wallet] # None
      BY <1>2, <2>2 DEF Update, Bound
    <3>2. wallets' = [wallets EXCEPT ![q.wallet] = Updated(q)]
      BY <1>2, <2>2 DEF Update
    <3> QED BY <1>2, <2>2, <3>1, <3>2, UpdatedRow, NothingAssumption
  <2> QED BY <2>1, <2>2
<1>4. /\ wallets'[q.wallet] = row
      /\ \A w \in WalletIds : w # q.wallet => wallets'[w] = wallets[w]
  BY <1>2, <1>3 DEF Shaped, TypeOK
<1>5. RowsKept /\ OnlyNew(r, x)
  <2>1. ~Creates(x)
    BY DEF Creates
  <2> QED BY <1>2, <1>3, <1>4, <2>1 DEF RowsKept, OnlyNew
<1>6. (\A p \in Requests : Bound(request[p]))' /\ Reserved'
  BY <1>5, RequestsRelated
<1>7. RowsValid' /\ RunsBound'
  BY <1>1, <1>3, <1>4, <1>5, RunsRelated DEF Related, RowsValid
<1> QED BY <1>5, <1>6, <1>7 DEF Related

\* Groups and runs leave requests and rows related.
LEMMA OthersRelated ==
  ASSUME Shaped, Related,
         \/ \E g \in Groups : CreateGroup(g) \/ DeleteGroup(g)
         \/ \E n \in Runs : StartRun(n) \/ Capture(n)
  PROVE  Related'
<1>1. Shaped' /\ UNCHANGED <<advisory, request, activated>> /\ now <= now'
  BY OthersShaped
<1>2. /\ RowsKept
      /\ \A w \in WalletIds : wallets[w] = None => wallets'[w] = None
      /\ \A w \in WalletIds : wallets[w] # None => wallets'[w].address = wallets[w].address
  <2>1. CASE \E g \in Groups : DeleteGroup(g)
    BY <2>1, DeleteGroupRows
  <2>2. CASE ~\E g \in Groups : DeleteGroup(g)
    BY <2>2 DEF CreateGroup, StartRun, Capture, RowsKept
  <2> QED BY <2>1, <2>2
<1>3. ASSUME NEW p \in Requests PROVE Bound(request[p])'
  <2>1. Shape(request[p]) /\ Bound(request[p])
    BY DEF Shaped, Related
  <2>2. request[p].pc # "idle" => request[p].wallet \in WalletIds
    BY <2>1 DEF Shape
  <2> QED BY <1>1, <1>2, <2>1, <2>2 DEF Bound, Creates, RowsKept
<1>4. Reserved' /\ RowsValid'
  BY <1>1, <1>2 DEF Related, Reserved, Creates, RowsValid, RowsKept
<1>5. RunsBound'
  <2>1. ASSUME NEW n \in Runs, StartRun(n) PROVE RunsBound'
    <3>1. PICK w \in WalletIds, b \in BOOLEAN :
            /\ wallets[w] # None
            /\ runs' = [runs EXCEPT ![n] = [wallet |-> w, created_at |-> now + 1,
                                            address |-> None, quiet |-> b]]
      BY <2>1 DEF StartRun, Quiet
    <3>2. now' = now + 1 /\ now + 1 < MaxTime /\ UNCHANGED wallets /\ now \in Nat
      BY <2>1 DEF StartRun, Shaped, TypeOK
    <3> SUFFICES ASSUME NEW m \in Runs, runs'[m] # None
                 PROVE  /\ wallets'[runs'[m].wallet] # None
                        /\ runs'[m].created_at <= now' /\ runs'[m].created_at < MaxTime
      BY DEF RunsBound
    <3>3. CASE m = n
      BY <3>1, <3>2, <3>3 DEF Shaped, TypeOK
    <3>4. CASE m # n
      <4>1. runs'[m] = runs[m]
        BY <3>1, <3>4 DEF Shaped, TypeOK
      <4>2. PICK run \in Snapshot : run = runs[m]
        BY <4>1 DEF Shaped, TypeOK
      <4>3. run.created_at \in Nat /\ wallets[run.wallet] # None
            /\ run.created_at <= now /\ run.created_at < MaxTime
        BY <4>1, <4>2 DEF Snapshot, Related, RunsBound
      <4> QED BY <3>2, <4>1, <4>2, <4>3
    <3> QED BY <3>3, <3>4
  <2>2. ASSUME NEW n \in Runs, Capture(n) PROVE RunsBound'
    <3> SUFFICES ASSUME NEW m \in Runs, runs'[m] # None
                 PROVE  /\ wallets'[runs'[m].wallet] # None
                        /\ runs'[m].created_at <= now' /\ runs'[m].created_at < MaxTime
      BY DEF RunsBound
    <3>1. /\ runs[m] # None
          /\ runs'[m].wallet = runs[m].wallet /\ runs'[m].created_at = runs[m].created_at
      <4>1. PICK run \in Snapshot : run = runs[n]
        BY <2>2 DEF Capture, Shaped, TypeOK
      <4>2. PICK a, b : runs' = [runs EXCEPT ![n].address = a, ![n].quiet = b]
        BY <2>2 DEF Capture
      <4>3. runs' = [runs EXCEPT ![n] = [run EXCEPT !.address = a, !.quiet = b]]
        BY <4>1, <4>2 DEF Shaped, TypeOK
      <4>4. /\ [run EXCEPT !.address = a, !.quiet = b].wallet = run.wallet
            /\ [run EXCEPT !.address = a, !.quiet = b].created_at = run.created_at
        BY DEF Snapshot
      <4>5. CASE m = n
        BY <2>2, <4>1, <4>3, <4>4, <4>5 DEF Capture, Shaped, TypeOK
      <4>6. CASE m # n
        BY <4>3, <4>6 DEF Shaped, TypeOK
      <4> QED BY <4>5, <4>6
    <3>2. UNCHANGED <<now, wallets>>
      BY <2>2 DEF Capture
    <3> QED BY <3>1, <3>2 DEF Related, RunsBound
  <2>3. CASE \E g \in Groups : CreateGroup(g) \/ DeleteGroup(g)
    <3>1. UNCHANGED runs
      BY <2>3 DEF CreateGroup, DeleteGroup
    <3> QED BY <1>1, <1>2, <3>1, RunsRelated
  <2> QED BY <2>1, <2>2, <2>3
<1> QED BY <1>3, <1>4, <1>5 DEF Related

-----------------------------------------------------------------------------
\* The advisory locks.

\* The lock of a user is held by exactly the create of that user that has
\* passed it.
Passed(q) == q.pc \in {"check", "write"} /\ q.op = "create"

Locked == \A r \in Requests, u \in Users :
  advisory[u] = r <=> Passed(request[r]) /\ request[r].user = u

FirstKnown == \A r \in Requests : Passed(request[r]) => First(request[r])

\* Only one create of a user has found no wallet, committed and yet to count, as
\* the next one to pass the lock finds its wallet.
Counts(q, u) == q.pc = "refresh" /\ q.user = u /\ q.first

Counted == \A u \in Users :
  /\ activated[u] <= IF HasWallet(u) THEN 1 ELSE 0
  /\ \A r \in Requests : Counts(request[r], u) =>
       /\ activated[u] = 0 /\ HasWallet(u)
       /\ \A p \in Requests : Counts(request[p], u) => p = r

Serial == Locked /\ FirstKnown /\ Counted

\* A user has a wallet while no row comes or goes.
LEMMA HasWalletKept ==
  ASSUME RowsKept, \A w \in WalletIds : wallets[w] = None => wallets'[w] = None, NEW u
  PROVE  HasWallet(u)' = HasWallet(u)
BY DEF HasWallet, RowsKept

\* Steps that create no wallet.
LEMMA SerialMove ==
  ASSUME Shaped, Serial, NEW r \in Requests, NEW x, Moves(r, x),
         RowsKept, \A w \in WalletIds : wallets[w] = None => wallets'[w] = None,
         \A u \in Users : advisory'[u] = r <=> Passed(x) /\ x.user = u,
         \A u \in Users, p \in Requests \ {r} : advisory'[u] = p <=> advisory[u] = p,
         Passed(x) => First(x)
  PROVE  Locked' /\ FirstKnown'
<1>1. /\ request'[r] = x
      /\ \A p \in Requests : p # r => request'[p] = request[p]
  BY DEF Shaped, TypeOK, Moves
<1>2. \A u : HasWallet(u)' = HasWallet(u)
  BY HasWalletKept
<1>3. Locked'
  BY <1>1 DEF Serial, Locked, Passed
<1>4. FirstKnown'
  <2> SUFFICES ASSUME NEW p \in Requests, Passed(request'[p]) PROVE First(request[p])'
    BY DEF FirstKnown, Passed
  <2>1. PICK y : y = request'[p] /\ First(y)
    BY <1>1 DEF Serial, FirstKnown
  <2>2. First(y)'
    BY <1>2, <2>1 DEF First
  <2> QED BY <2>1, <2>2 DEF First, HasWallet
<1> QED BY <1>3, <1>4

\* Steps that begin no count and make none.
LEMMA CountedMove ==
  ASSUME Shaped, Counted, NEW r \in Requests, NEW x, Moves(r, x), x.pc # "refresh",
         RowsKept, \A w \in WalletIds : wallets[w] = None => wallets'[w] = None,
         UNCHANGED activated
  PROVE  Counted'
<1>1. /\ request'[r] = x
      /\ \A p \in Requests : p # r => request'[p] = request[p]
  BY DEF Shaped, TypeOK, Moves
<1>2. \A u : HasWallet(u)' = HasWallet(u)
  BY HasWalletKept
<1>3. \A p \in Requests : \A u : Counts(request[p], u)' => Counts(request[p], u)
  BY <1>1 DEF Counts
<1> QED BY <1>2, <1>3 DEF Counted

\* The advisory lock passes from create to create, and what was read under it
\* stays true.
LEMMA QuietSerial ==
  ASSUME Shaped, Serial, NEW r \in Requests, Quietly(r)
  PROVE  Locked' /\ FirstKnown'
<1>1. /\ RowsKept
      /\ \A w \in WalletIds : wallets[w] = None => wallets'[w] = None
  BY QuietShaped DEF RowsKept
<1>2. ~Passed(Idle) /\ r # None
  BY WalletAssumption DEF Passed, Idle
<1>3. CASE Ends(r)
  <2>1. End(r)
    BY <1>3, EndingEnds
  <2>2. /\ \A u \in Users : advisory'[u] # r
        /\ \A u \in Users, p \in Requests \ {r} : advisory'[u] = p <=> advisory[u] = p
    BY <1>2, <2>1, WalletAssumption DEF End, Unlock
  <2> QED BY <1>1, <1>2, <2>1, <2>2, EndMoves, SerialMove
<1>4. CASE AskCreate(r)
  <2>1. PICK x : Moves(r, x) /\ BeginsCreate(x)
    BY <1>4, AskCreateMoves
  <2>2. UNCHANGED advisory /\ ~Passed(request[r]) /\ ~Passed(x)
    BY <1>4, <2>1 DEF AskCreate, BeginsCreate, Passed
  <2>3. \A u \in Users : advisory[u] # r
    BY <2>2 DEF Serial, Locked
  <2> QED BY <1>1, <2>1, <2>2, <2>3, SerialMove
<1>5. CASE AskChange(r)
  <2>1. PICK x : Moves(r, x) /\ BeginsChange(x)
    BY <1>5, AskChangeMoves
  <2>2. UNCHANGED advisory /\ ~Passed(request[r]) /\ ~Passed(x)
    BY <1>5, <2>1 DEF AskChange, BeginsChange, Passed, Changes
  <2>3. \A u \in Users : advisory[u] # r
    BY <2>2 DEF Serial, Locked
  <2> QED BY <1>1, <2>1, <2>2, <2>3, SerialMove
<1>6. CASE Lock(r)
  <2>1. PICK x : /\ Moves(r, x) /\ Continues(request[r], x)
                 /\ x.pc = "check" /\ First(x)
    BY <1>6, LockMoves
  <2>2. /\ request[r].pc = "lock" /\ Shape(request[r]) /\ ~Passed(request[r])
        /\ advisory[x.user] = None /\ advisory' = [advisory EXCEPT ![x.user] = r]
    BY <1>6, <2>1 DEF Lock, Continues, Shaped, Passed
  <2>3. Passed(x) /\ x.user \in Users
    BY <2>1, <2>2 DEF Shape, Continues, Passed
  <2>4. \A u \in Users : advisory[u] # r
    BY <2>2 DEF Serial, Locked
  <2>5. \A u \in Users : advisory'[u] = IF u = x.user THEN r ELSE advisory[u]
    BY <2>2 DEF Shaped, TypeOK
  <2>6. \A u \in Users : advisory'[u] = r <=> Passed(x) /\ x.user = u
    BY <2>3, <2>4, <2>5
  <2>7. \A u \in Users, p \in Requests \ {r} : advisory'[u] = p <=> advisory[u] = p
    BY <2>2, <2>5, WalletAssumption
  <2> QED BY <1>1, <2>1, <2>6, <2>7, SerialMove
<1>7. CASE CheckCreate(r)
  <2>1. PICK x : /\ Moves(r, x) /\ Continues(request[r], x)
                 /\ request[r].pc = "check" /\ x.op = "create" /\ x.pc = "write"
                 /\ x.first = request[r].first
    BY <1>7, CheckCreateMoves
  <2>2. UNCHANGED advisory /\ Passed(request[r]) /\ Passed(x) /\ x.user = request[r].user
    BY <1>7, <2>1 DEF CheckCreate, Continues, Passed
  <2>3. First(x)
    BY <2>1, <2>2 DEF Serial, FirstKnown, First
  <2>4. \A u \in Users : advisory'[u] = r <=> Passed(x) /\ x.user = u
    BY <2>2 DEF Serial, Locked
  <2> QED BY <1>1, <2>1, <2>2, <2>3, <2>4, SerialMove
<1>8. CASE CheckChange(r)
  <2>1. PICK x : /\ Moves(r, x) /\ Continues(request[r], x) /\ x.op # "create"
    BY <1>8, CheckChangeMoves
  <2>2. UNCHANGED advisory /\ ~Passed(request[r]) /\ ~Passed(x)
    BY <1>8, <2>1 DEF CheckChange, Continues, Passed
  <2>3. \A u \in Users : advisory[u] # r
    BY <2>2 DEF Serial, Locked
  <2> QED BY <1>1, <2>1, <2>2, <2>3, SerialMove
<1> QED BY <1>3, <1>4, <1>5, <1>6, <1>7, <1>8 DEF Quietly

\* What is counted is the user's only count.
LEMMA QuietCounted ==
  ASSUME Shaped, Serial, NEW r \in Requests, Quietly(r) PROVE Counted'
<1>1. /\ RowsKept
      /\ \A w \in WalletIds : wallets[w] = None => wallets'[w] = None
  BY QuietShaped DEF RowsKept
<1>2. CASE Count(r)
  <2>1. PICK q \in Request : q = request[r] /\ q.pc = "refresh" /\ q.first \in BOOLEAN
    BY <1>2 DEF Count, Shaped, TypeOK, Request
  <2>2. q.user \in Users
    BY <2>1 DEF Shaped, Shape
  <2>3. /\ request' = [request EXCEPT ![r] = Idle]
        /\ activated' = [activated EXCEPT ![q.user] = IF q.first THEN @ + 1 ELSE @]
    BY <1>2, <2>1 DEF Count, End
  <2>4. \A u \in Users :
          activated'[u] = IF Counts(q, u) THEN activated[u] + 1 ELSE activated[u]
    BY <2>1, <2>2, <2>3 DEF Counts, Shaped, TypeOK
  <2>5. /\ Idle.pc # "refresh" /\ request'[r] = Idle
        /\ \A p \in Requests : p # r => request'[p] = request[p]
    BY <2>3 DEF Idle, Shaped, TypeOK
  <2>6. \A p \in Requests : \A u : Counts(request[p], u)' => p # r /\ Counts(request[p], u)
    BY <2>5 DEF Counts
  <2>7. \A u : HasWallet(u)' = HasWallet(u)
    BY <1>1, HasWalletKept
  <2> SUFFICES ASSUME NEW u \in Users
               PROVE  /\ activated'[u] <= IF HasWallet(u)' THEN 1 ELSE 0
                      /\ \A c \in Requests : Counts(request[c], u)' =>
                           /\ activated'[u] = 0 /\ HasWallet(u)'
                           /\ \A p \in Requests : Counts(request[p], u)' => p = c
    BY DEF Counted
  <2>8. CASE Counts(q, u)
    <3>1. activated[u] = 0 /\ HasWallet(u) /\ \A p \in Requests : Counts(request[p], u) => p = r
      BY <2>1, <2>8 DEF Serial, Counted
    <3>2. activated'[u] = 1
      BY <2>4, <2>8, <3>1
    <3>3. \A p \in Requests : ~Counts(request[p], u)'
      BY <2>6, <3>1
    <3> QED BY <2>7, <3>1, <3>2, <3>3
  <2>9. CASE ~Counts(q, u)
    <3>1. activated'[u] = activated[u]
      BY <2>4, <2>9
    <3> QED BY <2>6, <2>7, <3>1 DEF Serial, Counted
  <2> QED BY <2>8, <2>9
<1>3. CASE ~Count(r)
  <2>1. UNCHANGED activated
    BY <1>3, QuietActivated
  <2>2. PICK x : Moves(r, x) /\ x.pc # "refresh"
    <3>1. CASE Ends(r)
      BY <3>1, EndingEnds, EndMoves DEF Idle
    <3>2. CASE ~Ends(r)
      BY <3>2, AskCreateMoves, AskChangeMoves, LockMoves, CheckCreateMoves, CheckChangeMoves
         DEF Quietly, BeginsCreate, BeginsChange
    <3> QED BY <3>1, <3>2
  <2> QED BY <1>1, <2>1, <2>2, CountedMove DEF Serial
<1> QED BY <1>2, <1>3

\* A change needs no lock, as it adds no wallet.
LEMMA UpdateSerial ==
  ASSUME Shaped, Related, Serial, NEW r \in Requests, Update(r) PROVE Serial'
<1>1. RowsKept /\ Moves(r, Idle)
  BY WriteRelated, EndMoves DEF Update
<1>2. UNCHANGED activated /\ End(r) /\ ~Passed(Idle)
  BY DEF Update, Passed, Idle
<1>3. \A w \in WalletIds : wallets[w] = None => wallets'[w] = None
  <2>1. Shape(request[r]) /\ Bound(request[r]) /\ request[r].pc = "write" /\ request[r].op # "create"
    BY DEF Shaped, Related, Update
  <2>2. request[r].wallet \in WalletIds /\ wallets[request[r].wallet] # None
    BY <2>1 DEF Shape, Bound
  <2> QED BY <2>2 DEF Update, Shaped, TypeOK
<1>4. /\ \A u \in Users : advisory'[u] # r
      /\ \A u \in Users, p \in Requests \ {r} : advisory'[u] = p <=> advisory[u] = p
  BY <1>2, WalletAssumption DEF End, Unlock
<1>5. Locked' /\ FirstKnown'
  BY <1>1, <1>2, <1>3, <1>4, SerialMove
<1>6. Counted'
  <2>1. Idle.pc # "refresh"
    BY DEF Idle
  <2> QED BY <1>1, <1>2, <1>3, <2>1, CountedMove DEF Serial
<1> QED BY <1>5, <1>6 DEF Serial

\* The INSERT of the first wallet is one to count; creates of the same user wait.
LEMMA InsertSerial ==
  ASSUME Shaped, Related, Serial, NEW r \in Requests, Insert(r) PROVE Serial'
<1>1. PICK q \in Request : /\ q = request[r] /\ Shape(q) /\ Bound(q)
                           /\ q.pc = "write" /\ q.op = "create"
  BY DEF Shaped, TypeOK, Related, Insert
<1>2. q.user \in Users /\ q.wallet \in WalletIds /\ wallets[q.wallet] = None /\ Passed(q)
  BY <1>1 DEF Shape, Bound, Creates, Passed
<1>3. PICK row \in Row : wallets' = [wallets EXCEPT ![q.wallet] = row] /\ row # None
                         /\ row.owner = q.user
  BY <1>1, NewRow
<1>4. /\ wallets'[q.wallet] = row
      /\ \A w \in WalletIds : w # q.wallet => wallets'[w] = wallets[w]
  BY <1>2, <1>3 DEF Shaped, TypeOK
<1>5. HasWallet(q.user)' /\ \A u : u # q.user => HasWallet(u)' = HasWallet(u)
  BY <1>2, <1>3, <1>4 DEF HasWallet
<1>6. PICK x : /\ Moves(r, x) /\ Continues(q, x)
               /\ x.pc = "refresh" /\ x.first = q.first
  BY <1>1, InsertMoves
<1>7. /\ request'[r] = x /\ ~Passed(x) /\ x.user = q.user
      /\ \A p \in Requests : p # r => request'[p] = request[p]
  BY <1>6 DEF Moves, Continues, Passed, Shaped, TypeOK
<1>8. /\ \A u \in Users : advisory'[u] # r
      /\ \A u \in Users, p \in Requests \ {r} : advisory'[u] = p <=> advisory[u] = p
  BY WalletAssumption DEF Insert, Unlock
<1>9. Locked'
  BY <1>7, <1>8 DEF Serial, Locked, Passed
<1>10. FirstKnown'
  <2> SUFFICES ASSUME NEW p \in Requests, Passed(request'[p]) PROVE First(request[p])'
    BY DEF FirstKnown, Passed
  <2>1. p # r /\ request'[p] = request[p]
    BY <1>7
  <2>2. PICK y : y = request[p] /\ First(y) /\ y.user # q.user
    BY <1>1, <1>2, <2>1 DEF Serial, Locked, FirstKnown
  <2>3. First(y)'
    BY <1>5, <2>2 DEF First
  <2> QED BY <2>1, <2>2, <2>3 DEF First, HasWallet
<1>11. Counted'
  <2>1. q.first = ~HasWallet(q.user)
    BY <1>1, <1>2 DEF Serial, FirstKnown, First
  <2>2. UNCHANGED activated
    BY DEF Insert
  <2>3. \A u : Counts(request[r], u)' <=> u = q.user /\ ~HasWallet(q.user)
    BY <1>6, <1>7, <2>1 DEF Counts
  <2>4. \A p \in Requests : \A u : p # r => (Counts(request[p], u)' <=> Counts(request[p], u))
    BY <1>7 DEF Counts
  <2>5. \A u \in Users : HasWallet(u) => HasWallet(u)'
    BY <1>5
  <2> SUFFICES ASSUME NEW u \in Users
               PROVE  /\ activated[u] <= IF HasWallet(u)' THEN 1 ELSE 0
                      /\ \A c \in Requests : Counts(request[c], u)' =>
                           /\ activated[u] = 0 /\ HasWallet(u)'
                           /\ \A p \in Requests : Counts(request[p], u)' => p = c
    BY <2>2 DEF Counted
  <2>6. CASE u = q.user /\ ~HasWallet(q.user)
    <3>1. activated[u] <= 0 /\ \A p \in Requests : ~Counts(request[p], u)
      BY <2>6 DEF Serial, Counted
    <3>2. activated[u] = 0
      BY <3>1 DEF Shaped, TypeOK
    <3>3. \A p \in Requests : Counts(request[p], u)' => p = r
      BY <2>4, <3>1
    <3> QED BY <1>5, <2>6, <3>2, <3>3
  <2>7. CASE ~(u = q.user /\ ~HasWallet(q.user))
    <3>1. \A p \in Requests : Counts(request[p], u)' => Counts(request[p], u)
      BY <2>3, <2>4, <2>7
    <3>2. HasWallet(u)' <=> HasWallet(u)
      BY <1>5, <2>5, <2>7
    <3>3. /\ activated[u] <= IF HasWallet(u) THEN 1 ELSE 0
          /\ \A c \in Requests : Counts(request[c], u) =>
               /\ activated[u] = 0 /\ HasWallet(u)
               /\ \A p \in Requests : Counts(request[p], u) => p = c
      BY DEF Serial, Counted
    <3>4. activated[u] <= IF HasWallet(u)' THEN 1 ELSE 0
      BY <3>2, <3>3
    <3> QED BY <3>1, <3>2, <3>3, <3>4
  <2> QED BY <2>6, <2>7
<1> QED BY <1>9, <1>10, <1>11 DEF Serial

\* Groups and runs have nothing to do with the lock.
LEMMA OthersSerial ==
  ASSUME Shaped, Related, Serial,
         \/ \E g \in Groups : CreateGroup(g) \/ DeleteGroup(g)
         \/ \E n \in Runs : StartRun(n) \/ Capture(n)
  PROVE  Serial'
<1>1. UNCHANGED <<advisory, request, activated>>
  BY OthersShaped
<1>2. RowsKept /\ \A w \in WalletIds : wallets[w] = None => wallets'[w] = None
  <2>1. CASE \E g \in Groups : DeleteGroup(g)
    BY <2>1, DeleteGroupRows
  <2>2. CASE ~\E g \in Groups : DeleteGroup(g)
    BY <2>2 DEF CreateGroup, StartRun, Capture, RowsKept
  <2> QED BY <2>1, <2>2
<1>3. \A u : HasWallet(u)' = HasWallet(u)
  BY <1>2, HasWalletKept
<1>4. FirstKnown'
  <2> SUFFICES ASSUME NEW p \in Requests, Passed(request[p]) PROVE First(request[p])'
    BY <1>1 DEF FirstKnown, Passed
  <2>1. PICK y : y = request[p] /\ First(y)
    BY DEF Serial, FirstKnown
  <2>2. First(y)'
    BY <1>3, <2>1 DEF First
  <2> QED BY <1>1, <2>1, <2>2 DEF First, HasWallet
<1> QED BY <1>1, <1>3, <1>4 DEF Serial, Locked, Counted, Counts, Passed

-----------------------------------------------------------------------------
\* Addresses and groups of the rows.

\* The statement that writes a row has been checked by the database.
LEMMA Written ==
  ASSUME Shaped, Related, NEW r \in Requests, Insert(r) \/ Update(r)
  PROVE  LET q == request[r] IN
         \E row \in Row :
           /\ wallets' = [wallets EXCEPT ![q.wallet] = row] /\ q.wallet \in WalletIds
           /\ row.owner = q.user /\ Valid(row.type, row.address)
           /\ row.active => ~Clash(row.owner, row.type, row.address, q.wallet)
           /\ GroupExists(row.group)
           /\ \/ /\ wallets[q.wallet] # None /\ row.owner = wallets[q.wallet].owner
                 /\ row.group = wallets[q.wallet].group
              \/ q.pc = "write" /\ q.updates.group # Unset /\ row.group = q.updates.group
<1>1. PICK q \in Request :
        q = request[r] /\ Shape(q) /\ Bound(q) /\ q.pc = "write" /\ q.wallet \in WalletIds
  BY DEF Shaped, TypeOK, Related, Insert, Update, Shape
<1>2. CASE Insert(r)
  <2>1. /\ q.op = "create" /\ ~Clash(q.user, q.type, q.updates.address, q.wallet)
        /\ GroupExists(q.updates.group)
    BY <1>1, <1>2 DEF Insert
  <2>2. Valid(q.type, q.updates.address) /\ q.updates.group # Unset
    BY <1>1, <2>1, WalletAssumption DEF Shape
  <2> QED BY <1>1, <1>2, <2>1, <2>2, NewRow
<1>3. CASE Update(r)
  <2>1. PICK row \in Row :
          /\ row = Updated(q) /\ row.owner = wallets[q.wallet].owner
          /\ Valid(row.type, row.address)
          /\ row.group = wallets[q.wallet].group
               \/ (q.updates.group # Unset /\ row.group = q.updates.group)
    BY <1>1, <1>3, UpdatedRow DEF Update
  <2>2. wallets[q.wallet] # None /\ wallets[q.wallet].owner = q.user
    BY <1>1, <1>3 DEF Update, Bound
  <2>3. /\ wallets' = [wallets EXCEPT ![q.wallet] = row]
        /\ ~(row.active /\ Clash(row.owner, row.type, row.address, q.wallet))
        /\ GroupExists(row.group)
    BY <1>1, <1>3, <2>1 DEF Update
  <2> QED BY <1>1, <2>1, <2>2, <2>3
<1> QED BY <1>2, <1>3

\* Addresses are the same either way round.
LEMMA SameSymmetric == ASSUME NEW t, NEW a, NEW b, Same(t, a, b) PROVE Same(t, b, a)
BY DEF Same

\* The unique indexes keep the active addresses apart.
LEMMA UniqueWrite ==
  ASSUME Shaped, Related, UniqueActiveAddress, NEW r \in Requests, Insert(r) \/ Update(r)
  PROVE  UniqueActiveAddress'
<1>1. PICK w \in WalletIds, row \in Row :
        /\ wallets' = [wallets EXCEPT ![w] = row]
        /\ Valid(row.type, row.address)
        /\ row.active => ~Clash(row.owner, row.type, row.address, w)
  BY Written
<1>2. /\ wallets'[w] = row
      /\ \A v \in WalletIds : v # w => wallets'[v] = wallets[v]
  BY <1>1 DEF Shaped, TypeOK
<1>3. ASSUME NEW v \in WalletIds, v # w, wallets[v] # None, wallets[v].active, row.active,
             wallets[v].owner = row.owner, wallets[v].type = row.type, row.type # "manual"
      PROVE  ~Same(row.type, wallets[v].address, row.address)
  <2>1. row.type \in {"evm", "solana"} /\ row.address # None
    BY <1>1, <1>3, WalletAssumption DEF Row, Valid
  <2> QED BY <1>1, <1>3, <2>1 DEF Clash
<1> SUFFICES ASSUME NEW v \in WalletIds, NEW u \in WalletIds, v # u,
                    wallets'[v] # None, wallets'[u] # None,
                    wallets'[v].active, wallets'[u].active,
                    wallets'[v].owner = wallets'[u].owner,
                    wallets'[v].type = wallets'[u].type, wallets'[v].type # "manual"
             PROVE  ~Same(wallets'[v].type, wallets'[v].address, wallets'[u].address)
  BY DEF UniqueActiveAddress, Same
<1>4. CASE u = w
  BY <1>2, <1>3, <1>4
<1>5. CASE v = w
  BY <1>2, <1>3, <1>5, SameSymmetric
<1>6. CASE u # w /\ v # w
  BY <1>2, <1>6 DEF UniqueActiveAddress
<1> QED BY <1>4, <1>5, <1>6

\* A group that was found when a request was checked is its user's or gone.
GroupKnown(q) ==
  q.pc = "write" /\ q.updates.group \notin {None, Unset} =>
    groups[q.updates.group] \in {q.user, "deleted"}

Grouped == (\A r \in Requests : GroupKnown(request[r])) /\ GroupsOwned

\* What others know of their groups outlasts the step of one request.
LEMMA GroupKnownMove ==
  ASSUME Shaped, Grouped, NEW r \in Requests, NEW x, Moves(r, x), GroupKnown(x),
         UNCHANGED groups
  PROVE  (\A p \in Requests : GroupKnown(request[p]))'
BY DEF Shaped, TypeOK, Grouped, GroupKnown, Moves

\* A check finds the group its user's own.
LEMMA QuietGrouped ==
  ASSUME Shaped, Grouped, NEW r \in Requests, Quietly(r)
  PROVE  Grouped'
<1>1. UNCHANGED <<wallets, groups>>
  BY QuietShaped
<1>2. PICK x : Moves(r, x) /\ GroupKnown(x)
  <2>1. CASE Ends(r)
    BY <2>1, EndingEnds, EndMoves DEF GroupKnown, Idle
  <2>2. CASE AskCreate(r) \/ AskChange(r) \/ Lock(r)
    BY <2>2, AskCreateMoves, AskChangeMoves, LockMoves
       DEF GroupKnown, BeginsCreate, BeginsChange
  <2>3. CASE CheckCreate(r)
    BY <2>3, CheckCreateMoves DEF CheckCreate, GroupKnown, GroupFound, Continues
  <2>4. CASE CheckChange(r)
    <3>1. PICK x : Moves(r, x) /\ Continues(request[r], x)
      BY <2>4, CheckChangeMoves
    <3>2. request[r].updates.group # Unset => GroupFound(request[r].user, request[r].updates.group)
      BY <2>4 DEF CheckChange, ChangeRefused
    <3>3. GroupKnown(x)
      BY <3>1, <3>2 DEF GroupKnown, GroupFound, Continues
    <3> QED BY <3>1, <3>3
  <2> QED BY <2>1, <2>2, <2>3, <2>4 DEF Quietly
<1>3. GroupsOwned'
  BY <1>1 DEF Grouped, GroupsOwned
<1> QED BY <1>1, <1>2, <1>3, GroupKnownMove DEF Grouped

\* The foreign key refuses a group that is gone.
LEMMA WriteGrouped ==
  ASSUME Shaped, Related, Grouped, NEW r \in Requests, Insert(r) \/ Update(r) PROVE Grouped'
<1>1. UNCHANGED groups /\ \E x : Moves(r, x) /\ GroupKnown(x)
  BY WriteShaped, WriteMoves DEF GroupKnown
<1>2. PICK q \in Request : q = request[r] /\ GroupKnown(q)
  BY DEF Shaped, TypeOK, Grouped
<1>3. PICK row \in Row :
        /\ wallets' = [wallets EXCEPT ![q.wallet] = row] /\ q.wallet \in WalletIds
        /\ row.owner = q.user /\ GroupExists(row.group)
        /\ \/ /\ wallets[q.wallet] # None /\ row.owner = wallets[q.wallet].owner
              /\ row.group = wallets[q.wallet].group
           \/ q.pc = "write" /\ q.updates.group # Unset /\ row.group = q.updates.group
  BY <1>2, Written
<1>4. row.group # None => groups[row.group] = row.owner
  BY <1>2, <1>3, WalletAssumption DEF GroupKnown, GroupExists, Grouped, GroupsOwned
<1>5. GroupsOwned'
  BY <1>1, <1>3, <1>4 DEF Grouped, GroupsOwned, Shaped, TypeOK
<1> QED BY <1>1, <1>5, GroupKnownMove DEF Grouped

\* No wallet is in a group that is new, and none stays in one that is deleted.
LEMMA OthersGrouped ==
  ASSUME Shaped, Related, Grouped,
         \/ \E g \in Groups : CreateGroup(g) \/ DeleteGroup(g)
         \/ \E n \in Runs : StartRun(n) \/ Capture(n)
  PROVE  Grouped' /\ (UniqueActiveAddress => UniqueActiveAddress')
<1>1. UNCHANGED request
  BY OthersShaped
<1>2. CASE \E n \in Runs : StartRun(n) \/ Capture(n)
  <2>1. UNCHANGED <<wallets, groups>>
    BY <1>2 DEF StartRun, Capture
  <2> QED BY <1>1, <2>1 DEF Grouped, GroupKnown, GroupsOwned, UniqueActiveAddress, Same
<1>3. ASSUME NEW g \in Groups, CreateGroup(g)
      PROVE  Grouped' /\ (UniqueActiveAddress => UniqueActiveAddress')
  <2>1. /\ UNCHANGED wallets /\ groups[g] = "unborn"
        /\ \A h \in Groups : h # g => groups'[h] = groups[h]
    BY <1>3 DEF CreateGroup, Shaped, TypeOK
  <2>2. ASSUME NEW p \in Requests PROVE GroupKnown(request[p])'
    <3>1. PICK q \in Request : q = request[p] /\ Shape(q) /\ GroupKnown(q)
      BY DEF Shaped, TypeOK, Grouped
    <3>2. q.pc = "write" => q.user \in Users /\ q.updates.group \in Groups \cup {None, Unset}
      BY <3>1 DEF Shape, Request, Payload
    <3> QED BY <1>1, <2>1, <3>1, <3>2, WalletAssumption DEF GroupKnown
  <2>3. GroupsOwned'
    <3> SUFFICES ASSUME NEW w \in WalletIds, wallets[w] # None, wallets[w].group # None
                 PROVE  groups'[wallets[w].group] = wallets[w].owner
      BY <2>1 DEF GroupsOwned
    <3>1. wallets[w].owner \in Users /\ wallets[w].group \in Groups
      BY DEF Shaped, TypeOK, Row
    <3>2. groups[wallets[w].group] = wallets[w].owner
      BY DEF Grouped, GroupsOwned
    <3> QED BY <2>1, <3>1, <3>2, WalletAssumption
  <2> QED BY <2>1, <2>2, <2>3 DEF Grouped, UniqueActiveAddress, Same
<1>4. ASSUME NEW g \in Groups, DeleteGroup(g)
      PROVE  Grouped' /\ (UniqueActiveAddress => UniqueActiveAddress')
  <2>1. /\ groups'[g] = "deleted"
        /\ \A h \in Groups : h # g => groups'[h] = groups[h]
    BY <1>4 DEF DeleteGroup, Shaped, TypeOK
  <2>2. ASSUME NEW p \in Requests PROVE GroupKnown(request[p])'
    <3>1. PICK q \in Request : q = request[p] /\ Shape(q) /\ GroupKnown(q)
      BY DEF Shaped, TypeOK, Grouped
    <3>2. q.pc = "write" => q.updates.group \in Groups \cup {None, Unset}
      BY <3>1 DEF Request, Payload
    <3> QED BY <1>1, <2>1, <3>1, <3>2 DEF GroupKnown
  <2>3. GroupsOwned'
    <3> SUFFICES ASSUME NEW w \in WalletIds, wallets'[w] # None, wallets'[w].group # None
                 PROVE  groups'[wallets'[w].group] = wallets'[w].owner
      BY DEF GroupsOwned
    <3>1. /\ wallets[w] # None /\ wallets[w].group # g
          /\ wallets'[w].group = wallets[w].group /\ wallets'[w].owner = wallets[w].owner
      BY <1>4, DeleteGroupRows DEF RowsKept
    <3>2. wallets[w].group \in Groups
      BY <3>1 DEF Shaped, TypeOK, Row
    <3> QED BY <2>1, <3>1, <3>2 DEF Grouped, GroupsOwned
  <2>4. UniqueActiveAddress => UniqueActiveAddress'
    BY <1>4, DeleteGroupRows DEF RowsKept, UniqueActiveAddress, Same
  <2> QED BY <2>2, <2>3, <2>4 DEF Grouped
<1> QED BY <1>2, <1>3, <1>4

-----------------------------------------------------------------------------
\* What a run that was taken in quiet still knows of its wallet: changes that
\* have begun since write a younger stamp, or leave the address as it was.

\* The run was created after the address last changed.
Read(m) == m.created_at >= wallets[m.wallet].address_updated_at

\* An address is the one the run has stored, if it has and is still read.
Agrees(m, a) == m.address # None /\ Read(m) => Same(wallets[m.wallet].type, m.address, a)

\* A request is no change of the wallet of the run, or it began after the run.
Since(m, q) ==
  q.pc # "idle" /\ q.op # "create" /\ q.wallet = m.wallet =>
    /\ q.stamp # None => q.stamp > m.created_at
    /\ Agrees(m, q.copy.address)

RunKnown(m) == m.quiet =>
  /\ \A r \in Requests : Since(m, request[r])
  /\ Agrees(m, wallets[m.wallet].address)

RunsKnown == \A n \in Runs : runs[n] # None => RunKnown(runs[n])

\* What is known of a run.
LEMMA RunOf ==
  ASSUME Shaped, Related, RunsKnown, NEW n \in Runs, runs[n] # None
  PROVE  \E m \in Snapshot :
           /\ m = runs[n] /\ RunKnown(m)
           /\ m.wallet \in WalletIds /\ m.created_at \in Nat
           /\ wallets[m.wallet] # None /\ wallets[m.wallet] \in Row
           /\ m.created_at <= now /\ m.created_at < MaxTime
BY DEF Shaped, TypeOK, Related, RunsBound, RunsKnown, Snapshot

\* A change that begins after a run gets a younger stamp, if it changes the address.
LEMMA QuietRuns ==
  ASSUME Shaped, Related, RunsKnown, NEW r \in Requests, Quietly(r)
  PROVE  RunsKnown'
<1>1. UNCHANGED <<wallets, runs>>
  BY QuietShaped
<1>2. SUFFICES ASSUME NEW n \in Runs, runs[n] # None PROVE RunKnown(runs[n])'
  BY <1>1 DEF RunsKnown
<1>3. PICK m \in Snapshot :
        /\ m = runs[n] /\ RunKnown(m)
        /\ m.wallet \in WalletIds /\ m.created_at \in Nat
        /\ m.created_at <= now /\ m.created_at < MaxTime
  BY <1>2, RunOf
<1>4. ASSUME m.quiet, NEW a PROVE Agrees(m, a)' <=> Agrees(m, a)
  BY <1>1 DEF Agrees, Read, Same
<1>5. PICK x : Moves(r, x) /\ (m.quiet => Since(m, x))
  <2>1. CASE Ends(r)
    BY <2>1, EndingEnds, EndMoves DEF Since, Idle
  <2>2. CASE AskCreate(r)
    BY <2>2, AskCreateMoves DEF BeginsCreate, Since
  <2>3. CASE AskChange(r)
    <3>1. PICK x : Moves(r, x) /\ BeginsChange(x)
      BY <2>3, AskChangeMoves
    <3>2. m.quiet => Since(m, x)
      BY <1>3, <3>1 DEF RunKnown, Since, BeginsChange
    <3> QED BY <3>1, <3>2
  <2>4. CASE Lock(r)
    <3>1. PICK x : Moves(r, x) /\ Continues(request[r], x)
      BY <2>4, LockMoves
    <3>2. x.op = "create"
      BY <2>4, <3>1 DEF Lock, Continues, Shaped, Shape
    <3> QED BY <3>1, <3>2 DEF Since
  <2>5. CASE CheckCreate(r)
    BY <2>5, CheckCreateMoves DEF Since
  <2>6. CASE CheckChange(r)
    <3>1. PICK x : /\ Moves(r, x) /\ Continues(request[r], x) /\ x.stamp \in {None, Later}
      BY <2>6, CheckChangeMoves
    <3>2. Later > m.created_at
      BY <1>3, WalletAssumption DEF Later, Shaped, TypeOK
    <3>3. m.quiet => Since(m, x)
      BY <1>3, <3>1, <3>2 DEF RunKnown, Since, Continues
    <3> QED BY <3>1, <3>3
  <2> QED BY <2>1, <2>2, <2>3, <2>4, <2>5, <2>6 DEF Quietly
<1>6. ASSUME m.quiet, NEW p \in Requests PROVE Since(m, request[p])'
  <2>1. PICK y : y = request'[p] /\ Since(m, y)
    <3>1. CASE p = r
      BY <1>5, <1>6, <3>1 DEF Moves, Shaped, TypeOK
    <3>2. CASE p # r
      BY <1>3, <1>5, <1>6, <3>2 DEF Moves, Shaped, TypeOK, RunKnown
    <3> QED BY <3>1, <3>2
  <2>2. Agrees(m, y.copy.address)' <=> Agrees(m, y.copy.address)
    BY <1>4, <1>6
  <2>3. Since(m, y)'
    BY <2>1, <2>2 DEF Since
  <2> QED BY <2>1, <2>3 DEF Since, Agrees, Read, Same
<1>7. RunKnown(m)'
  BY <1>1, <1>3, <1>6 DEF RunKnown, Agrees, Read, Same
<1> QED BY <1>1, <1>3, <1>7 DEF RunKnown, Since, Agrees, Read, Same

\* Spellings of one address are the same.
LEMMA SameTransitive ==
  ASSUME NEW t, NEW a, NEW b, NEW c, Same(t, a, b), Same(t, b, c) PROVE Same(t, a, c)
BY DEF Same

\* After a step that leaves the wallet of a run alone, or writes a younger
\* stamp, or leaves the stamp and an address that agrees.
LEMMA RunKept ==
  ASSUME Shaped, Related, NEW m \in Snapshot, RunKnown(m),
         m.wallet \in WalletIds, m.created_at \in Nat, wallets[m.wallet] # None,
         \A p \in Requests :
           request'[p] = request[p] \/ request'[p].pc = "idle" \/ request'[p].op = "create",
         wallets'[m.wallet].type = wallets[m.wallet].type,
         wallets'[m.wallet].address_updated_at \in Nat,
         m.quiet =>
           \/ wallets'[m.wallet].address_updated_at > m.created_at
           \/ /\ wallets'[m.wallet].address_updated_at = wallets[m.wallet].address_updated_at
              /\ Agrees(m, wallets'[m.wallet].address)
  PROVE  RunKnown(m)'
<1> SUFFICES ASSUME m.quiet PROVE RunKnown(m)'
  BY DEF RunKnown
<1>1. \A a : Agrees(m, a) => Agrees(m, a)'
  BY DEF Agrees, Read, Same
<1>2. Agrees(m, wallets[m.wallet].address)'
  BY DEF Agrees, Read, Same
<1>3. ASSUME NEW p \in Requests PROVE Since(m, request[p])'
  <2>1. CASE request'[p].pc = "idle" \/ request'[p].op = "create"
    BY <2>1 DEF Since
  <2>2. CASE request'[p] = request[p]
    <3>1. PICK y : y = request[p] /\ Since(m, y)
      BY DEF RunKnown
    <3>2. Since(m, y)'
      BY <1>1, <3>1 DEF Since
    <3> QED BY <2>2, <3>1, <3>2 DEF Since, Agrees, Read, Same
  <2> QED BY <2>1, <2>2
<1> QED BY <1>2, <1>3 DEF RunKnown

\* A write hides the runs before its stamp, or leaves the address as it was.
LEMMA WriteRuns ==
  ASSUME Shaped, Related, RunsKnown, NEW r \in Requests, Insert(r) \/ Update(r)
  PROVE  RunsKnown'
<1>1. Shaped' /\ UNCHANGED runs /\ RowsKept
  BY WriteShaped, WriteRelated
<1>2. PICK q \in Request :
        q = request[r] /\ Shape(q) /\ Bound(q) /\ q.pc = "write" /\ q.wallet \in WalletIds
  BY DEF Shaped, TypeOK, Related, Insert, Update, Shape
<1>3. \A p \in Requests :
        request'[p] = request[p] \/ request'[p].pc = "idle" \/ request'[p].op = "create"
  BY WriteMoves DEF Moves, Shaped, TypeOK
<1>4. \A w \in WalletIds : w # q.wallet => wallets'[w] = wallets[w]
  BY <1>2 DEF Insert, Update, Shaped, TypeOK
<1> SUFFICES ASSUME NEW n \in Runs, runs[n] # None PROVE RunKnown(runs[n])'
  BY <1>1 DEF RunsKnown
<1>5. PICK m \in Snapshot :
        /\ m = runs[n] /\ RunKnown(m)
        /\ m.wallet \in WalletIds /\ m.created_at \in Nat
        /\ wallets[m.wallet] # None /\ wallets[m.wallet] \in Row
  BY RunOf
<1>6. /\ wallets'[m.wallet].type = wallets[m.wallet].type
      /\ wallets'[m.wallet].address_updated_at \in Nat
  BY <1>1, <1>5 DEF RowsKept, Shaped, TypeOK, Row
<1>7. ASSUME m.quiet
      PROVE  \/ wallets'[m.wallet].address_updated_at > m.created_at
             \/ /\ wallets'[m.wallet].address_updated_at = wallets[m.wallet].address_updated_at
                /\ Agrees(m, wallets'[m.wallet].address)
  <2>1. CASE m.wallet # q.wallet
    BY <1>4, <1>5, <1>7, <2>1 DEF RunKnown
  <2>2. CASE m.wallet = q.wallet
    <3>1. Update(r) /\ q.op # "create"
      BY <1>2, <1>5, <2>2 DEF Bound, Creates, Insert, Update
    <3>2. PICK old \in Row, row \in Row :
            /\ old = wallets[q.wallet] /\ row = Updated(q)
            /\ row.type = old.type /\ old.type = q.type
            /\ \/ row.address = old.address
               \/ q.updates.address # Unset /\ row.address = q.updates.address
            /\ row.address_updated_at =
                 IF q.stamp = None THEN old.address_updated_at ELSE q.stamp
      BY <1>2, <3>1, UpdatedRow
    <3>3. wallets'[q.wallet] = row
      BY <1>2, <3>1, <3>2 DEF Update, Shaped, TypeOK
    <3>5. CASE q.stamp # None
      <4>1. q.stamp > m.created_at
        BY <1>2, <1>5, <1>7, <2>2, <3>1, <3>5 DEF RunKnown, Since
      <4> QED BY <2>2, <3>2, <3>3, <3>5, <4>1
    <3>6. CASE q.stamp = None
      <4>1. Agrees(m, old.address) /\ Agrees(m, q.copy.address)
        BY <1>2, <1>5, <1>7, <2>2, <3>1, <3>2 DEF RunKnown, Since
      <4>2. CASE row.address = old.address
        BY <2>2, <3>2, <3>3, <3>6, <4>1, <4>2
      <4>3. CASE q.updates.address # Unset /\ row.address = q.updates.address
        <5>1. Same(q.type, row.address, q.copy.address)
          BY <1>2, <3>1, <3>6, <4>3 DEF Shape, AddressChanged
        <5>2. Same(q.type, q.copy.address, row.address)
          BY <5>1, SameSymmetric
        <5>3. Agrees(m, row.address)
          BY <2>2, <3>2, <4>1, <5>2, SameTransitive DEF Agrees
        <5> QED BY <2>2, <3>2, <3>3, <3>6, <5>3
      <4> QED BY <3>2, <4>2, <4>3
    <3> QED BY <3>5, <3>6
  <2> QED BY <2>1, <2>2
<1>8. RunKnown(m)'
  BY <1>3, <1>5, <1>6, <1>7, RunKept
<1> QED BY <1>1, <1>5, <1>8 DEF RunKnown, Since, Agrees, Read, Same

\* A run that looks at a wallet in quiet stores the address it has.
LEMMA OthersRuns ==
  ASSUME Shaped, Related, RunsKnown,
         \/ \E g \in Groups : CreateGroup(g) \/ DeleteGroup(g)
         \/ \E n \in Runs : StartRun(n) \/ Capture(n)
  PROVE  RunsKnown'
<1>1. Shaped' /\ UNCHANGED request
  BY OthersShaped
<1> SUFFICES ASSUME NEW n \in Runs, runs'[n] # None PROVE RunKnown(runs[n])'
  BY DEF RunsKnown
\* A run that the step leaves alone.
<1>2. ASSUME runs'[n] = runs[n],
             \A w \in WalletIds : wallets[w] # None =>
               /\ wallets'[w].type = wallets[w].type
               /\ wallets'[w].address = wallets[w].address
               /\ wallets'[w].address_updated_at = wallets[w].address_updated_at
      PROVE  RunKnown(runs[n])'
  <2>1. PICK m \in Snapshot :
          /\ m = runs[n] /\ RunKnown(m)
          /\ m.wallet \in WalletIds /\ m.created_at \in Nat
          /\ wallets[m.wallet] # None /\ wallets[m.wallet] \in Row
    BY <1>2, RunOf
  <2>2. wallets[m.wallet].address_updated_at \in Nat
    BY <2>1 DEF Row
  <2>3. RunKnown(m)'
    BY <1>1, <1>2, <2>1, <2>2, RunKept DEF RunKnown
  <2> QED BY <1>2, <2>1, <2>3 DEF RunKnown, Since, Agrees, Read, Same
<1>3. ASSUME NEW g \in Groups, CreateGroup(g) \/ DeleteGroup(g) PROVE RunKnown(runs[n])'
  <2>1. UNCHANGED runs
    BY <1>3 DEF CreateGroup, DeleteGroup
  <2>2. CASE DeleteGroup(g)
    BY <1>2, <2>1, <2>2, DeleteGroupRows DEF RowsKept
  <2>3. CASE CreateGroup(g)
    BY <1>2, <2>1, <2>3 DEF CreateGroup
  <2> QED BY <1>3, <2>2, <2>3
<1>4. ASSUME NEW k \in Runs, StartRun(k) PROVE RunKnown(runs[n])'
  <2>1. UNCHANGED wallets
    BY <1>4 DEF StartRun
  <2>2. CASE k # n
    BY <1>2, <1>4, <2>1, <2>2 DEF StartRun, Shaped, TypeOK
  <2>3. CASE k = n
    <3>1. PICK w, b, at :
            /\ b = Quiet(w)
            /\ runs' = [runs EXCEPT ![n] = [wallet |-> w, created_at |-> at,
                                            address |-> None, quiet |-> b]]
      <4>1. PICK w \in WalletIds :
              runs' = [runs EXCEPT ![n] = [wallet |-> w, created_at |-> now + 1,
                                           address |-> None, quiet |-> Quiet(w)]]
        BY <1>4, <2>3 DEF StartRun
      <4>2. PICK b, at : b = Quiet(w) /\ at = now + 1
        OBVIOUS
      <4> QED BY <4>1, <4>2
    <3> DEFINE m == [wallet |-> w, created_at |-> at, address |-> None, quiet |-> b]
    <3>2. runs'[n] = m
      BY <3>1 DEF Shaped, TypeOK
    <3>3. m.wallet = w /\ m.quiet = b /\ m.address = None
      OBVIOUS
    <3> HIDE DEF m
    <3>4. ASSUME m.quiet, NEW p \in Requests PROVE Since(m, request[p])'
      BY <1>1, <3>1, <3>3, <3>4 DEF Since, Quiet
    <3>5. RunKnown(m)'
      BY <3>3, <3>4 DEF RunKnown, Agrees
    <3> QED BY <3>2, <3>5 DEF RunKnown, Since, Agrees, Read, Same
  <2> QED BY <2>2, <2>3
<1>5. ASSUME NEW k \in Runs, Capture(k) PROVE RunKnown(runs[n])'
  <2>1. UNCHANGED wallets
    BY <1>5 DEF Capture
  <2>2. CASE k # n
    BY <1>2, <1>5, <2>1, <2>2 DEF Capture, Shaped, TypeOK
  <2>3. CASE k = n
    <3>1. PICK run \in Snapshot : run = runs[n]
      BY <1>5, <2>3 DEF Capture, Shaped, TypeOK
    <3>2. PICK a, b : /\ a = wallets[run.wallet].address
                      /\ b = (run.quiet /\ Quiet(run.wallet))
      OBVIOUS
    <3> DEFINE m == [run EXCEPT !.address = a, !.quiet = b]
    <3>3. runs'[n] = m
      BY <1>5, <2>3, <3>1, <3>2 DEF Capture, Shaped, TypeOK
    <3>4. m.wallet = run.wallet /\ m.quiet = b /\ m.address = a
      BY DEF Snapshot
    <3> HIDE DEF m
    <3>5. ASSUME m.quiet, NEW p \in Requests PROVE Since(m, request[p])'
      <4>1. Quiet(m.wallet)
        BY <3>2, <3>4, <3>5
      <4> QED BY <1>1, <4>1 DEF Since, Quiet
    <3>6. Agrees(m, wallets[m.wallet].address)'
      BY <2>1, <3>2, <3>4 DEF Agrees, Same
    <3>7. RunKnown(m)'
      BY <3>5, <3>6 DEF RunKnown
    <3> QED BY <3>3, <3>7 DEF RunKnown, Since, Agrees, Read, Same
  <2> QED BY <2>2, <2>3
<1> QED BY <1>3, <1>4, <1>5

-----------------------------------------------------------------------------
IInv == Shaped /\ Related /\ Serial /\ UniqueActiveAddress /\ Grouped /\ RunsKnown

\* Nothing is there at first.
LEMMA InitInv == Init => IInv
<1> SUFFICES ASSUME Init PROVE IInv
  OBVIOUS
<1>1. Shaped
  BY IdleShape, WalletAssumption DEF Init, Shaped, TypeOK
<1>2. Related
  BY DEF Init, Related, Bound, Creates, Reserved, RowsValid, RunsBound, Idle
<1>3. Serial
  BY WalletAssumption
     DEF Init, Serial, Locked, FirstKnown, Counted, Counts, Passed, HasWallet, Idle
<1>4. UniqueActiveAddress /\ Grouped /\ RunsKnown
  BY DEF Init, UniqueActiveAddress, Grouped, GroupKnown, GroupsOwned, RunsKnown, Idle
<1> QED BY <1>1, <1>2, <1>3, <1>4 DEF IInv

\* IInv is inductive.
LEMMA StepInv == IInv /\ [Next]_vars => IInv'
<1> SUFFICES ASSUME IInv, [Next]_vars PROVE IInv'
  OBVIOUS
<1> USE DEF IInv
<1>1. ASSUME NEW r \in Requests, Quietly(r) PROVE IInv'
  <2>1. Shaped' /\ UNCHANGED wallets /\ Related' /\ Serial' /\ Grouped' /\ RunsKnown'
    BY <1>1, QuietShaped, QuietRelated, QuietSerial, QuietCounted, QuietGrouped, QuietRuns
       DEF Serial
  <2> QED BY <2>1 DEF UniqueActiveAddress, Same
<1>2. ASSUME NEW r \in Requests, Insert(r) \/ Update(r) PROVE IInv'
  BY <1>2, WriteShaped, WriteRelated, InsertSerial, UpdateSerial, UniqueWrite, WriteGrouped,
     WriteRuns
<1>3. CASE \/ \E g \in Groups : CreateGroup(g) \/ DeleteGroup(g)
           \/ \E n \in Runs : StartRun(n) \/ Capture(n)
  BY <1>3, OthersShaped, OthersRelated, OthersSerial, OthersGrouped, OthersRuns
<1>4. CASE UNCHANGED vars
  <2> USE <1>4 DEF vars
  <2>1. Shaped'
    BY DEF Shaped, TypeOK
  <2>2. Related'
    BY DEF Related, Bound, Creates, Reserved, RowsValid, RunsBound
  <2>3. Serial'
    BY DEF Serial, Locked, FirstKnown, First, Counted, Counts, Passed, HasWallet
  <2>4. UniqueActiveAddress' /\ Grouped'
    BY DEF UniqueActiveAddress, Same, Grouped, GroupKnown, GroupsOwned
  <2>5. RunsKnown'
    BY DEF RunsKnown, RunKnown, Since, Agrees, Read, Same
  <2> QED BY <2>1, <2>2, <2>3, <2>4, <2>5
<1> QED BY <1>1, <1>2, <1>3, <1>4 DEF Next, RequestStep, Quietly, Ends

\* The invariant holds throughout.
LEMMA Invariant == Spec => []IInv
BY InitInv, StepInv, PTL DEF Spec

\* The tables and the requests keep their shape.
THEOREM TypeCorrect == Spec => []TypeOK
<1>1. IInv => TypeOK
  BY DEF IInv, Shaped
<1> QED BY <1>1, Invariant, PTL

\* A user has no two active wallets with the same address, however creates,
\* changes and restores overlap.
THEOREM AddressesAreUnique == Spec => []UniqueActiveAddress
<1>1. IInv => UniqueActiveAddress
  BY DEF IInv
<1> QED BY <1>1, Invariant, PTL

\* However creates overlap, and although each counts only after its commit, the
\* first wallet of a user is counted at most once, and only a stored one.
THEOREM ActivatedOnce == Spec => []OneActivation
<1>1. IInv => OneActivation
  BY DEF IInv, Serial, Counted, OneActivation
<1> QED BY <1>1, Invariant, PTL

\* An advisory lock is held by a create that goes on.
THEOREM LocksAreReleased == Spec => []LocksMoveOn
<1>1. IInv => LocksMoveOn
  BY DEF IInv, Serial, Locked, Passed, LocksMoveOn, Shaped, TypeOK
<1> QED BY <1>1, Invariant, PTL

\* A wallet is in no group, or in one of its owner.
THEOREM GroupsAreOwned == Spec => []GroupsOwned
<1>1. IInv => GroupsOwned
  BY DEF IInv, Grouped
<1> QED BY <1>1, Invariant, PTL

\* What is shown of a run that was taken in quiet is of the wallet's address.
THEOREM QuietRunsAreCurrent == Spec => []QuietRunIsCurrent
<1>1. IInv => QuietRunIsCurrent
  BY DEF IInv, RunsKnown, RunKnown, Agrees, Read, QuietRunIsCurrent, Shown, Readable, Current
<1> QED BY <1>1, Invariant, PTL
=============================================================================
