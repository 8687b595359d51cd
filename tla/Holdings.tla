------------------------------ MODULE Holdings ------------------------------
(***************************************************************************)
(* What a user enters by hand: the balances of a manual wallet and the      *)
(* allocation targets.  Every request is one transaction at READ COMMITTED: *)
(* it reads what is committed, its INSERTs, UPDATEs and DELETEs wait for    *)
(* rows another transaction has written and not committed, and a unique     *)
(* index turns a row that got there first into an error and a rollback.     *)
(* The session does not flush before it reads.                              *)
(*                                                                         *)
(* One wallet and one user stand for all: requests of others share only the *)
(* table of assets.  Every request is made once, on what earlier ones left. *)
(***************************************************************************)
EXTENDS Integers, FiniteSets

CONSTANTS
  Requests,
  Keys,        \* assets: chain and symbol of a balance, asset_key of a target
  Values,      \* amounts and prices
  Items,       \* the amounts and prices that are tried
  TargetSets,  \* non-empty payloads of PUT /allocation/targets, as sets of keys
  Kinds,       \* kinds of requests: "put", "delete", "targets"
  None         \* no row, nobody, a column that is not written

ASSUME HoldingsAssumption ==
  /\ TargetSets \subseteq (SUBSET Keys) \ {{}}
  /\ Items \subseteq [amount : Values, price : Values]
  /\ Kinds \subseteq {"put", "delete", "targets"}
  /\ None \notin Requests \cup Values \cup Keys
  /\ "there" \notin Requests /\ "before" \notin Requests

VARIABLES
  assets,    \* table assets: None, "there", or the request whose INSERT is not committed
  balances,  \* table manual_balances, as committed
  locks,     \* the request that has written the row of a balance
  targets,   \* table allocation_targets: the PUT a row comes from
  taken,     \* the request that has deleted the row of a target
  request,   \* the local state of each request
  alone      \* history: no other request has been under way together with this one

vars == <<assets, balances, locks, targets, taken, request, alone>>

Item == [amount : Values, price : Values]
\* What a request will write to the row of a balance: a new row, or the
\* columns that differ from the row it read.
Change == [new : BOOLEAN, amount : Values \cup {None}, price : Values \cup {None}]

\* A row of a target names the request and all the keys of its payload, which
\* together make 100 per cent.
Origin == [by : Requests \cup {"before"}, keys : TargetSets]

\* What is none of them.
ASSUME NothingAssumption == None \notin Item \cup Origin

Idle == [pc |-> "idle", kind |-> None, items |-> <<>>, todo |-> {}, key |-> None,
         change |-> <<>>, seen |-> <<>>]

Init ==
  /\ assets \in [Keys -> {None, "there"}]
  /\ balances \in [Keys -> Items \cup {None}]
  /\ \A k \in Keys : balances[k] # None => assets[k] = "there"
  /\ locks = [k \in Keys |-> None]
  /\ \E S \in TargetSets :
       targets = [k \in Keys |-> IF k \in S THEN [by |-> "before", keys |-> S] ELSE None]
  /\ taken = [k \in Keys |-> None]
  /\ request = [r \in Requests |-> Idle]
  /\ alone = [r \in Requests |-> TRUE]

At(r, pc) == request[r].pc = pc
Busy(r) == ~At(r, "idle") /\ ~At(r, "done")

Begin(r, fields) ==
  /\ At(r, "idle")
  /\ request' = [request EXCEPT ![r] = fields]
  /\ alone' = [q \in Requests |-> IF q = r THEN \A p \in Requests : ~Busy(p)
                                  ELSE IF Busy(q) THEN FALSE ELSE alone[q]]

\* A slip: a transaction that is rolled back keeps its locks.
EndAndKeepLocks(r, keep) ==
  /\ assets' = [k \in Keys |-> IF assets[k] = r /\ keep THEN "there" ELSE assets[k]]
  /\ locks' = [k \in Keys |-> IF locks[k] = r /\ keep THEN None ELSE locks[k]]
  /\ taken' = [k \in Keys |-> IF taken[k] = r /\ keep THEN None ELSE taken[k]]
  /\ request' = [request EXCEPT ![r] = [Idle EXCEPT !.pc = "done"]]
  /\ UNCHANGED alone

\* The transaction is over: what it wrote is kept or not, its locks go.
End(r, keep) ==
  /\ assets' = [k \in Keys |-> IF assets[k] = r THEN (IF keep THEN "there" ELSE None) ELSE assets[k]]
  /\ locks' = [k \in Keys |-> IF locks[k] = r THEN None ELSE locks[k]]
  /\ taken' = [k \in Keys |-> IF taken[k] = r THEN None ELSE taken[k]]
  /\ request' = [request EXCEPT ![r] = [Idle EXCEPT !.pc = "done"]]
  /\ UNCHANGED alone

Rollback(r) == End(r, FALSE) /\ UNCHANGED <<balances, targets>>

-----------------------------------------------------------------------------
\* PUT /wallets/{id}/balances.

\* The payload names each asset once.
AskPut(r) ==
  /\ "put" \in Kinds
  /\ \E S \in (SUBSET Keys) \ {{}} : \E f \in [S -> Items] :
       Begin(r, [Idle EXCEPT !.pc = "asset", !.kind = "put", !.items = f, !.todo = S])
  /\ UNCHANGED <<assets, balances, locks, targets, taken>>

\* The next item: its asset is there, or has to be made.
FindAsset(r) == \E k \in request[r].todo :
  /\ At(r, "asset")
  /\ request' = [request EXCEPT ![r].key = k,
                                ![r].pc = IF assets[k] = "there" THEN "row" ELSE "make"]
  /\ UNCHANGED <<assets, balances, locks, targets, taken, alone>>

\* INSERT INTO assets, flushed at once; it waits for an INSERT of the same
\* asset that is not committed, and fails if the asset is there by now.
MakeAsset(r) ==
  LET k == request[r].key IN
  /\ At(r, "make")
  /\ \/ /\ assets[k] = None
        /\ assets' = [assets EXCEPT ![k] = r]
        /\ request' = [request EXCEPT ![r].pc = "flush"]
        /\ UNCHANGED <<balances, locks, targets, taken, alone>>
     \/ assets[k] = "there" /\ Rollback(r)

\* The keys whose rows a request has changed and not sent to the database.
Unsent(r) == {k \in DOMAIN request[r].change : locks[k] # r}

\* The row has come, or gone, since the request read it.
Surprised(r) == \E k \in Unsent(r) : request[r].change[k].new # (balances[k] = None)

Free(r) == \A k \in Unsent(r) : locks[k] = None

\* That flush also sends the balances of the items before.
Flush(r) ==
  /\ At(r, "flush") /\ Free(r)
  /\ \/ /\ ~Surprised(r)
        /\ locks' = [k \in Keys |-> IF k \in Unsent(r) THEN r ELSE locks[k]]
        /\ request' = [request EXCEPT ![r].pc = "row"]
        /\ UNCHANGED <<assets, balances, targets, taken, alone>>
     \/ Surprised(r) /\ Rollback(r)

\* A slip: a price is not looked at when the row is there.
DifferenceOfAmounts(item, row) ==
  IF row = None THEN [new |-> TRUE, amount |-> item.amount, price |-> item.price]
  ELSE [new |-> FALSE, amount |-> IF item.amount = row.amount THEN None ELSE item.amount,
        price |-> None]

\* A new row, or the columns of the item that differ from the row.
Difference(item, row) ==
  IF row = None THEN [new |-> TRUE, amount |-> item.amount, price |-> item.price]
  ELSE [new |-> FALSE, amount |-> IF item.amount = row.amount THEN None ELSE item.amount,
        price |-> IF item.price = row.price THEN None ELSE item.price]

Touches(change) == change.new \/ change.amount # None \/ change.price # None

\* The balance is looked for, and the item is put into the session.
ReadRow(r) ==
  LET k == request[r].key
      change == Difference(request[r].items[k], balances[k])
      rest == request[r].todo \ {k}
  IN
  /\ At(r, "row")
  /\ request' = [request EXCEPT
       ![r].todo = rest, ![r].key = None,
       ![r].change = IF Touches(change)
                     THEN [j \in DOMAIN @ \cup {k} |-> IF j = k THEN change ELSE @[j]] ELSE @,
       ![r].pc = IF rest = {} THEN "commit" ELSE "asset"]
  /\ UNCHANGED <<assets, balances, locks, targets, taken, alone>>

Written(change, row) ==
  IF change.new THEN [amount |-> change.amount, price |-> change.price]
  ELSE [amount |-> IF change.amount = None THEN row.amount ELSE change.amount,
        price |-> IF change.price = None THEN row.price ELSE change.price]

\* What is unsent is sent, and everything is committed.
CommitPut(r) ==
  LET change == request[r].change IN
  /\ At(r, "commit") /\ Free(r)
  /\ \/ /\ ~Surprised(r)
        /\ balances' = [k \in Keys |-> IF k \in DOMAIN change THEN Written(change[k], balances[k])
                                       ELSE balances[k]]
        /\ End(r, TRUE)
        /\ UNCHANGED targets
     \/ Surprised(r) /\ Rollback(r)

-----------------------------------------------------------------------------
\* DELETE /wallets/{id}/balances/{asset_id}: the row is read, then deleted by
\* its key; that it has gone meanwhile does not matter.

AskDelete(r) == \E k \in Keys :
  /\ "delete" \in Kinds
  /\ balances[k] # None
  /\ Begin(r, [Idle EXCEPT !.pc = "remove", !.kind = "delete", !.key = k])
  /\ UNCHANGED <<assets, balances, locks, targets, taken>>

Remove(r) ==
  /\ At(r, "remove")
  /\ locks[request[r].key] = None
  /\ balances' = [balances EXCEPT ![request[r].key] = None]
  /\ End(r, TRUE)
  /\ UNCHANGED targets

-----------------------------------------------------------------------------
\* PUT /portfolio/allocation/targets.

\* The DELETE begins: it will find the rows that are committed now.
AskTargets(r) == \E S \in TargetSets \cup {{}} :
  /\ "targets" \in Kinds
  /\ Begin(r, [Idle EXCEPT !.pc = "clear", !.kind = "targets", !.todo = S,
                           !.seen = [k \in {j \in Keys : targets[j] # None} |-> targets[k]]])
  /\ UNCHANGED <<assets, balances, locks, targets, taken>>

\* The rows it has found that are still there.
Rows(r) == {k \in DOMAIN request[r].seen : targets[k] = request[r].seen[k]}

\* A slip: only the targets the payload names are deleted.
ClearNamed(r) ==
  LET mine == Rows(r) \cap request[r].todo IN
  /\ At(r, "clear")
  /\ \A k \in mine : taken[k] = None
  /\ taken' = [k \in Keys |-> IF k \in mine THEN r ELSE taken[k]]
  /\ request' = [request EXCEPT ![r].pc = "fill"]
  /\ UNCHANGED <<assets, balances, locks, targets, alone>>

\* It waits until nobody else has deleted one of them, and takes those that
\* are still there; a row that came later is not among them.
Clear(r) ==
  /\ At(r, "clear")
  /\ \A k \in Rows(r) : taken[k] = None
  /\ taken' = [k \in Keys |-> IF k \in Rows(r) THEN r ELSE taken[k]]
  /\ request' = [request EXCEPT ![r].pc = "fill"]
  /\ UNCHANGED <<assets, balances, locks, targets, alone>>

\* The new rows are inserted and everything is committed, unless a key is
\* there already.
Fill(r) ==
  LET S == request[r].todo IN
  /\ At(r, "fill")
  /\ \A k \in S : taken[k] \in {None, r}
  /\ \/ /\ \A k \in S : targets[k] = None \/ taken[k] = r
        /\ targets' = [k \in Keys |-> IF k \in S THEN [by |-> r, keys |-> S]
                                       ELSE IF taken[k] = r THEN None ELSE targets[k]]
        /\ End(r, TRUE)
        /\ UNCHANGED balances
     \/ (\E k \in S : targets[k] # None /\ taken[k] = None) /\ Rollback(r)

-----------------------------------------------------------------------------
\* The requests a request waits for.
Holders(r) == {q \in Requests \ {r} :
  \/ At(r, "make") /\ assets[request[r].key] = q
  \/ (At(r, "flush") \/ At(r, "commit")) /\ \E k \in Unsent(r) : locks[k] = q
  \/ At(r, "remove") /\ locks[request[r].key] = q
  \/ At(r, "clear") /\ \E k \in Rows(r) : taken[k] = q
  \/ At(r, "fill") /\ \E k \in request[r].todo : taken[k] = q}

\* PostgreSQL notices a circle of requests that wait for each other, and
\* aborts one of them.
Deadlock(r) ==
  /\ \E S \in SUBSET Requests : r \in S /\ \A q \in S : Holders(q) \cap S # {}
  /\ Rollback(r)

Step(r) == \/ FindAsset(r) \/ MakeAsset(r) \/ Flush(r) \/ ReadRow(r) \/ CommitPut(r)
           \/ Remove(r) \/ Clear(r) \/ Fill(r) \/ Deadlock(r)

Next == \E r \in Requests : AskPut(r) \/ AskDelete(r) \/ AskTargets(r) \/ Step(r)

Spec == Init /\ [][Next]_vars

\* The server goes on with every request that is not waiting.
FairSpec == Spec /\ \A r \in Requests : WF_vars(Step(r))

-----------------------------------------------------------------------------
TypeOK ==
  /\ assets \in [Keys -> {None, "there"} \cup Requests]
  /\ balances \in [Keys -> Item \cup {None}]
  /\ locks \in [Keys -> Requests \cup {None}]
  /\ targets \in [Keys -> Origin \cup {None}]
  /\ taken \in [Keys -> Requests \cup {None}]
  /\ alone \in [Requests -> BOOLEAN]

\* However requests that replace the targets overlap, wait for each other and
\* fail, the rows of one payload are there together or not at all.
TargetsWhole == \A k \in Keys : targets[k] # None =>
  \A j \in targets[k].keys : targets[j] = targets[k]

\* Non-empty targets total exactly 100 per cent: there are rows of one payload.
OneDistribution == \A j, k \in Keys :
  targets[j] # None /\ targets[k] # None => targets[j] = targets[k]

\* A PUT that is the only request while it runs does what it says: the rows
\* of the balances it names are its items and the others stay, or the targets
\* are its payload and nothing else.
QuietPutTakesEffect == [][\A r \in Requests :
  Busy(r) /\ At(r, "done")' /\ alone[r] =>
    /\ request[r].kind = "put" =>
         LET items == request[r].items IN
         balances' = [k \in Keys |-> IF k \in DOMAIN items THEN items[k] ELSE balances[k]]
    /\ request[r].kind = "targets" =>
         \A k \in Keys : targets'[k] = IF k \in request[r].todo
                                        THEN [by |-> r, keys |-> request[r].todo] ELSE None]_vars

\* Waiting for uncommitted rows, for assets in the opposite order and for each
\* other, every request ends, if with an error.
RequestsEnd == \A r \in Requests : Busy(r) ~> ~Busy(r)
=============================================================================
