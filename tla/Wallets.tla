------------------------------ MODULE Wallets ------------------------------
(***************************************************************************)
(* The wallet endpoints (create, change, delete, restore) and the wallet   *)
(* groups they refer to.  Requests run side by side: each one reads, thinks *)
(* about what it read, and writes in one statement at the end; PostgreSQL  *)
(* checks the partial unique indexes and the foreign key of that statement *)
(* alone.  Creates of one owner are serialised by an advisory lock, the    *)
(* other requests are not.                                                 *)
(*                                                                         *)
(* The external snapshot service and the view that picks a snapshot for a  *)
(* wallet are here as far as they depend on the address of the wallet.     *)
(* Labels, notes and the chain within a network are left out.              *)
(***************************************************************************)
EXTENDS Integers, FiniteSets

CONSTANTS
  Users, Groups, WalletIds,
  Requests,    \* requests that may be under way at once
  Runs,        \* snapshot runs of the snapshot service
  Types,       \* kinds of wallets in use, among "evm", "solana", "manual"
  Spellings,   \* well-formed addresses, as a client writes them
  Fold,        \* the lower-case form of a spelling
  Payloads,    \* payloads of PATCH requests, as functions of the modelled fields
  MaxTime,     \* bound on the clock, for TLC
  None,        \* SQL NULL, no row, nobody
  Unset        \* a field the payload of a PATCH does not name

ASSUME WalletAssumption ==
  /\ Types \subseteq {"evm", "solana", "manual"}
  /\ Fold \in [Spellings -> Spellings]
  /\ MaxTime \in Nat
  /\ None # Unset
  /\ {None, Unset} \cap (Users \cup Groups \cup WalletIds \cup Requests \cup Spellings) = {}
  /\ {None, Unset} \cap BOOLEAN = {} /\ {None, Unset} \cap Nat = {}
  /\ {"unborn", "deleted"} \cap Users = {}

VARIABLES
  now,        \* the clock; every event that reads it gets a value of its own
  wallets,    \* table wallets: a row or None, by id
  groups,     \* table wallet_groups: the owner, "unborn" or "deleted"
  advisory,   \* holder of the advisory lock of each user
  request,    \* the local state of each request
  activated,  \* FIRST_WALLET_ADDED, by user
  runs        \* snapshot runs: a row or None; quiet (history) says whether no
              \* change of the wallet was under way when the service looked

vars == <<now, wallets, groups, advisory, request, activated, runs>>

Addresses == Spellings \cup {None}

Row == [owner : Users, type : Types, address : Addresses, active : BOOLEAN,
        group : Groups \cup {None}, address_updated_at : 0..MaxTime]

\* A run of the snapshot service for a wallet.
Snapshot == [wallet : WalletIds, created_at : 0..MaxTime, address : Addresses, quiet : BOOLEAN]

ASSUME NothingAssumption == None \notin Row \cup Snapshot

\* The fields a PATCH may name, as far as they are modelled.
Fields == {"address", "active", "group"}
Payload == [address : Addresses \cup {Unset}, active : BOOLEAN \cup {Unset},
            group : Groups \cup {None, Unset}]
ASSUME PayloadAssumption == Payloads \subseteq Payload
Nothing == [address |-> Unset, active |-> Unset, group |-> Unset]

Idle == [pc |-> "idle", op |-> None, user |-> None, wallet |-> None, copy |-> None,
         updates |-> Nothing, type |-> None, first |-> FALSE, stamp |-> None]

Request == [pc : {"idle", "lock", "check", "write", "refresh"},
            op : {None, "create", "patch", "delete", "restore"},
            user : Users \cup {None}, wallet : WalletIds \cup {None}, copy : Row \cup {None},
            updates : Payload, type : Types \cup {None}, first : BOOLEAN,
            stamp : 0..MaxTime \cup {None}]

\* Two EVM addresses are the same up to case, two Solana addresses literally.
Same(type, a, b) ==
  IF type = "evm" /\ a # None /\ b # None THEN Fold[a] = Fold[b] ELSE a = b

\* normalize_wallet_address and validate_wallet_network_state: exactly the
\* on-chain wallets have an address.
Valid(type, address) == (type = "manual") <=> (address = None)

\* A slip: addresses are compared as they are written.
ClashLiterally(u, type, address, except) ==
  /\ type \in {"evm", "solana"} /\ address # None
  /\ \E w \in WalletIds \ {except} :
       /\ wallets[w] # None
       /\ wallets[w].owner = u /\ wallets[w].type = type /\ wallets[w].active
       /\ wallets[w].address = address

\* _ensure_unique_active_onchain_address, and the two unique indexes: an
\* active wallet of the same owner and network has the address.
Clash(u, type, address, except) ==
  /\ type \in {"evm", "solana"} /\ address # None
  /\ \E w \in WalletIds \ {except} :
       /\ wallets[w] # None
       /\ wallets[w].owner = u /\ wallets[w].type = type /\ wallets[w].active
       /\ Same(type, wallets[w].address, address)

\* A slip: any group that exists will do.
AnyGroup(u, g) == g # None => groups[g] \in Users

\* _validate_group_id: no group, or one the user owns.
GroupFound(u, g) == g # None => groups[g] = u

\* The foreign key of wallets.group_id.
GroupExists(g) == g # None => groups[g] \in Users

HasWallet(u) == \E w \in WalletIds : wallets[w] # None /\ wallets[w].owner = u

\* The clock as the next event reads it.
Later == IF now < MaxTime THEN now + 1 ELSE now

-----------------------------------------------------------------------------
Init ==
  /\ now = 0
  /\ wallets = [w \in WalletIds |-> None]
  /\ groups = [g \in Groups |-> "unborn"]
  /\ advisory = [u \in Users |-> None]
  /\ request = [r \in Requests |-> Idle]
  /\ activated = [u \in Users |-> 0]
  /\ runs = [n \in Runs |-> None]

Goto(r, pc) == request' = [request EXCEPT ![r].pc = pc]

\* A slip: the transaction of a request that is refused stays open.
EndWithoutRollback(r) ==
  /\ request' = [request EXCEPT ![r] = Idle]
  /\ UNCHANGED advisory

\* COMMIT or ROLLBACK: the advisory lock goes with the transaction.
Unlock(r) == advisory' = [u \in Users |-> IF advisory[u] = r THEN None ELSE advisory[u]]

\* The request is over, and its transaction with it.
End(r) ==
  /\ request' = [request EXCEPT ![r] = Idle]
  /\ Unlock(r)

\* POST /wallets arrives, with a payload the schema lets through.
AskCreate(r) ==
  /\ request[r].pc = "idle"
  /\ \E u \in Users, w \in WalletIds, t \in Types, a \in Addresses, g \in Groups \cup {None} :
       /\ wallets[w] = None /\ \A q \in Requests : request[q].wallet # w
       /\ Valid(t, a)
       /\ request' = [request EXCEPT ![r] =
            [Idle EXCEPT !.pc = "lock", !.op = "create", !.user = u, !.wallet = w, !.type = t,
                         !.updates = [address |-> a, active |-> TRUE, group |-> g]]]
  /\ UNCHANGED <<now, wallets, groups, advisory, activated, runs>>

\* A slip: creates are not serialised.
LockNothing(r) ==
  /\ request[r].pc = "lock"
  /\ request' = [request EXCEPT ![r].pc = "check", ![r].first = ~HasWallet(request[r].user)]
  /\ UNCHANGED <<now, wallets, groups, advisory, activated, runs>>

\* pg_advisory_xact_lock is granted, and the user's wallets are looked for.
Lock(r) ==
  LET u == request[r].user IN
  /\ request[r].pc = "lock"
  /\ advisory[u] = None
  /\ advisory' = [advisory EXCEPT ![u] = r]
  /\ request' = [request EXCEPT ![r].pc = "check", ![r].first = ~HasWallet(u)]
  /\ UNCHANGED <<now, wallets, groups, activated, runs>>

\* The group and the address of a new wallet pass the checks ...
CheckCreate(r) ==
  LET q == request[r] IN
  /\ q.pc = "check" /\ q.op = "create"
  /\ GroupFound(q.user, q.updates.group)
  /\ ~Clash(q.user, q.type, q.updates.address, q.wallet)
  /\ Goto(r, "write")
  /\ UNCHANGED <<now, wallets, groups, advisory, activated, runs>>

\* ... or they do not: 404 or 409.
RefuseCreate(r) ==
  LET q == request[r] IN
  /\ q.pc = "check" /\ q.op = "create"
  /\ \/ ~GroupFound(q.user, q.updates.group)
     \/ Clash(q.user, q.type, q.updates.address, q.wallet)
  /\ End(r)
  /\ UNCHANGED <<now, wallets, groups, activated, runs>>

\* INSERT and COMMIT, after which other creates of the user go on ...
Insert(r) ==
  LET q == request[r] IN
  /\ q.pc = "write" /\ q.op = "create"
  /\ ~Clash(q.user, q.type, q.updates.address, q.wallet)
  /\ GroupExists(q.updates.group)
  /\ wallets' = [wallets EXCEPT ![q.wallet] =
       [owner |-> q.user, type |-> q.type, address |-> q.updates.address, active |-> TRUE,
        group |-> q.updates.group, address_updated_at |-> Later]]
  /\ now' = Later
  /\ Unlock(r)
  /\ Goto(r, "refresh")
  /\ UNCHANGED <<groups, activated, runs>>

\* ... while this one reads the row back, and counts it if it is the first ...
Count(r) ==
  LET q == request[r] IN
  /\ q.pc = "refresh"
  /\ activated' = [activated EXCEPT ![q.user] = IF q.first THEN @ + 1 ELSE @]
  /\ End(r)
  /\ UNCHANGED <<now, wallets, groups, runs>>

\* ... or fails to read it: 500, with the wallet stored and nothing counted.
RefreshFails(r) ==
  /\ request[r].pc = "refresh"
  /\ End(r)
  /\ UNCHANGED <<now, wallets, groups, activated, runs>>

\* PATCH, DELETE and POST .../restore begin alike: the row is read.  Another
\* user's wallet is not found: the request ends with 404 and is left out.
AskChange(r) ==
  /\ request[r].pc = "idle"
  /\ \E w \in WalletIds, op \in {"patch", "delete", "restore"} :
     \E p \in CASE op = "patch" -> Payloads
               [] op = "delete" -> {[Nothing EXCEPT !.active = FALSE]}
               [] op = "restore" -> {[Nothing EXCEPT !.active = TRUE]} :
       /\ wallets[w] # None
       /\ request' = [request EXCEPT ![r] =
            [Idle EXCEPT !.pc = "check", !.op = op, !.user = wallets[w].owner, !.wallet = w,
                         !.copy = wallets[w], !.type = wallets[w].type, !.updates = p]]
  /\ UNCHANGED <<now, wallets, groups, advisory, activated, runs>>

\* The value of a field once the updates are applied to the copy.
Resulting(q, f) == IF q.updates[f] = Unset THEN q.copy[f] ELSE q.updates[f]

\* The columns the UPDATE names: those of the payload that differ from the copy.
Changed(q) == {f \in Fields : q.updates[f] # Unset /\ q.updates[f] # q.copy[f]}

\* A slip: a change of the address goes unnoticed.
AddressChangedNever(q) == FALSE

\* address_changed in update_wallet.
AddressChanged(q) ==
  q.updates.address # Unset /\ ~Same(q.type, q.updates.address, q.copy.address)

\* A DELETE of an inactive wallet and a restore of an active one do nothing.
Idempotent(q) == q.op # "patch" /\ q.copy.active = q.updates.active

\* The address is checked if the payload names it, the group too, and the
\* uniqueness if the wallet is going to be active: 422, 404 or 409.
ChangeRefused(q) ==
  \/ q.updates.address # Unset /\ ~Valid(q.type, q.updates.address)
  \/ q.updates.group # Unset /\ ~GroupFound(q.user, q.updates.group)
  \/ q.op # "delete" /\ Resulting(q, "active")
       /\ Clash(q.user, q.type, Resulting(q, "address"), q.wallet)

\* The checks of a change pass; an address that changes is stamped here.
CheckChange(r) ==
  LET q == request[r] IN
  /\ q.pc = "check" /\ q.op # "create"
  /\ ~Idempotent(q) /\ ~ChangeRefused(q)
  /\ now' = IF AddressChanged(q) THEN Later ELSE now
  /\ request' = [request EXCEPT ![r].pc = "write",
                                ![r].stamp = IF AddressChanged(q) THEN Later ELSE None]
  /\ UNCHANGED <<wallets, groups, advisory, activated, runs>>

RefuseChange(r) ==
  LET q == request[r] IN
  /\ q.pc = "check" /\ q.op # "create"
  /\ Idempotent(q) \/ ChangeRefused(q)
  /\ End(r)
  /\ UNCHANGED <<now, wallets, groups, activated, runs>>

\* The row after the UPDATE: only the changed columns are written.
Updated(q) ==
  LET row == wallets[q.wallet]
      Of(f) == IF f \in Changed(q) THEN q.updates[f] ELSE row[f]
  IN [row EXCEPT !.address = Of("address"), !.active = Of("active"), !.group = Of("group"),
                 !.address_updated_at = IF q.stamp = None THEN @ ELSE q.stamp]

\* UPDATE and COMMIT.
Update(r) ==
  LET q == request[r]
      row == Updated(q) IN
  /\ q.pc = "write" /\ q.op # "create"
  /\ ~(row.active /\ Clash(row.owner, row.type, row.address, q.wallet))
  /\ GroupExists(row.group)
  /\ wallets' = [wallets EXCEPT ![q.wallet] = row]
  /\ End(r)
  /\ UNCHANGED <<now, groups, activated, runs>>

\* The statement violates a unique index (409) or the foreign key (500).
WriteFails(r) ==
  LET q == request[r] IN
  /\ q.pc = "write"
  /\ IF q.op = "create"
     THEN \/ Clash(q.user, q.type, q.updates.address, q.wallet)
          \/ ~GroupExists(q.updates.group)
     ELSE LET row == Updated(q) IN
          \/ row.active /\ Clash(row.owner, row.type, row.address, q.wallet)
          \/ ~GroupExists(row.group)
  /\ End(r)
  /\ UNCHANGED <<now, wallets, groups, activated, runs>>

\* POST and DELETE /wallet-groups; wallets.group_id is ON DELETE SET NULL.
CreateGroup(g) ==
  /\ groups[g] = "unborn"
  /\ \E u \in Users : groups' = [groups EXCEPT ![g] = u]
  /\ UNCHANGED <<now, wallets, advisory, request, activated, runs>>

DeleteGroup(g) ==
  /\ groups[g] \in Users
  /\ groups' = [groups EXCEPT ![g] = "deleted"]
  /\ wallets' = [w \in WalletIds |->
       IF wallets[w] # None /\ wallets[w].group = g
       THEN [wallets[w] EXCEPT !.group = None] ELSE wallets[w]]
  /\ UNCHANGED <<now, advisory, request, activated, runs>>

\* No change of wallet w is under way.
Quiet(w) == \A r \in Requests : request[r].op # "create" => request[r].wallet # w

\* The snapshot service (external) creates a run, ...
StartRun(n) ==
  /\ runs[n] = None
  /\ now + 1 < MaxTime
  /\ \E w \in WalletIds :
       /\ wallets[w] # None /\ wallets[w].active /\ wallets[w].address # None
       /\ runs' = [runs EXCEPT ![n] = [wallet |-> w, created_at |-> now + 1,
                                       address |-> None, quiet |-> Quiet(w)]]
  /\ now' = now + 1
  /\ UNCHANGED <<wallets, groups, advisory, request, activated>>

\* ... and later reads the address of the wallet and stores what it finds there.
Capture(n) ==
  /\ runs[n] # None /\ runs[n].address = None
  /\ LET w == runs[n].wallet IN
     runs' = [runs EXCEPT ![n].address = wallets[w].address, ![n].quiet = @ /\ Quiet(w)]
  /\ UNCHANGED <<now, wallets, groups, advisory, request, activated>>

RequestStep(r) ==
  \/ Lock(r) \/ CheckCreate(r) \/ RefuseCreate(r) \/ Insert(r) \/ Count(r) \/ RefreshFails(r)
  \/ CheckChange(r) \/ RefuseChange(r) \/ Update(r) \/ WriteFails(r)

Next ==
  \/ \E r \in Requests : AskCreate(r) \/ AskChange(r) \/ RequestStep(r)
  \/ \E g \in Groups : CreateGroup(g) \/ DeleteGroup(g)
  \/ \E n \in Runs : StartRun(n) \/ Capture(n)

Spec == Init /\ [][Next]_vars

-----------------------------------------------------------------------------
(***************************************************************************)
(* Properties                                                              *)
(***************************************************************************)
\* Types of the tables and of the local state of the requests.
TypeOK ==
  /\ now \in 0..MaxTime
  /\ wallets \in [WalletIds -> Row \cup {None}]
  /\ groups \in [Groups -> Users \cup {"unborn", "deleted"}]
  /\ advisory \in [Users -> Requests \cup {None}]
  /\ request \in [Requests -> Request]
  /\ activated \in [Users -> Nat]
  /\ runs \in [Runs -> Snapshot \cup {None}]

\* One owner has no two active wallets with the same on-chain address, however
\* creates, changes of the address and restores interleave: every check is out
\* of date by the time the row is written.
UniqueActiveAddress ==
  \A v, w \in WalletIds :
    v # w /\ wallets[v] # None /\ wallets[w] # None
      /\ wallets[v].active /\ wallets[w].active
      /\ wallets[v].owner = wallets[w].owner
      /\ wallets[v].type = wallets[w].type /\ wallets[v].type # "manual"
      => ~Same(wallets[v].type, wallets[v].address, wallets[w].address)

\* A wallet is in no group or in an existing group of its owner, also when the
\* group is deleted between the check and the write.
GroupsOwned ==
  \A w \in WalletIds :
    wallets[w] # None /\ wallets[w].group # None => groups[wallets[w].group] = wallets[w].owner

\* create_wallet: two requests that find no wallet at once "cannot both emit the
\* activation event", although each one counts only after it has committed and
\* given up its lock; and the event stands for a wallet that is stored.
OneActivation == \A u \in Users : activated[u] <= IF HasWallet(u) THEN 1 ELSE 0

\* An advisory lock is held by a create that goes on without waiting: no
\* refusal or failed write leaves one behind, and no create waits for ever.
LocksMoveOn ==
  \A u \in Users : advisory[u] # None =>
    LET q == request[advisory[u]]
    IN q.op = "create" /\ q.user = u /\ q.pc \in {"check", "write"}

\* _latest_wallet_snapshot_ids: the finished runs that were created after the
\* address of the wallet last changed, ...
Readable(w) ==
  {n \in Runs : /\ runs[n] # None /\ runs[n].wallet = w /\ runs[n].address # None
                /\ runs[n].created_at >= wallets[w].address_updated_at}

\* ... and the newest of them.
Shown(w) ==
  {n \in Readable(w) : \A m \in Readable(w) : runs[m].created_at <= runs[n].created_at}

Current(n) ==
  LET w == wallets[runs[n].wallet] IN Same(w.type, runs[n].address, w.address)

\* build_latest_wallet_assets_summary: the assets shown are of "the current
\* address revision".
ShownIsCurrent == \A w \in WalletIds : wallets[w] # None => \A n \in Shown(w) : Current(n)

\* ... which is so for the runs that looked at the wallet while no change of it
\* was under way, whatever changes come later, and however they overlap.
QuietRunIsCurrent ==
  \A w \in WalletIds : wallets[w] # None =>
    \A n \in Shown(w) : runs[n].quiet => Current(n)
=============================================================================
