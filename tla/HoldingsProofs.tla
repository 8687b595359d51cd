---------------------------- MODULE HoldingsProofs ----------------------------
(***************************************************************************)
(* Proofs about Holdings, for any number of requests, assets and payloads: *)
(* the targets of one payload are there together or not at all, and a PUT  *)
(* that is alone while it runs is not refused and does what it says.       *)
(*                                                                         *)
(* The invariant says what a request may rely on while it holds a row: the *)
(* row it has written is as it read it, and the targets it has deleted are *)
(* all those of a payload.                                                 *)
(***************************************************************************)
EXTENDS Holdings, TLAPS

PutPcs == {"asset", "make", "flush", "row", "commit"}
Pcs == PutPcs \cup {"idle", "done", "remove", "clear", "fill"}

\* Targets that name a payload are there with all the targets of the payload.
Whole(f) == \A k \in DOMAIN f : f[k] # None =>
  k \in f[k].keys /\ \A j \in f[k].keys : j \in DOMAIN f /\ f[j] = f[k]

\* What a request knows by itself, about its changes, ...
PutShape(q) == q.pc \in PutPcs =>
  /\ q.kind = "put"
  /\ DOMAIN q.items \subseteq Keys /\ \A k \in DOMAIN q.items : q.items[k] \in Item
  /\ q.todo \subseteq DOMAIN q.items
  /\ DOMAIN q.change \subseteq DOMAIN q.items \ q.todo
  /\ \A k \in DOMAIN q.change :
       /\ q.change[k] \in Change
       /\ q.change[k].new => q.change[k].amount \in Values /\ q.change[k].price \in Values
  /\ q.pc \in {"make", "flush", "row"} => q.key \in q.todo
  /\ q.pc = "commit" => q.todo = {}

\* ... its targets and its row.
OtherShape(q) ==
  /\ q.pc = "remove" => q.kind = "delete" /\ q.key \in Keys
  /\ q.pc \in {"clear", "fill"} => q.kind = "targets" /\ q.todo \in TargetSets \cup {{}}
  /\ q.pc = "clear" =>
       /\ DOMAIN q.seen \subseteq Keys /\ \A k \in DOMAIN q.seen : q.seen[k] \in Origin
       /\ Whole(q.seen)

Fields(q) ==
  q = [pc |-> q.pc, kind |-> q.kind, items |-> q.items, todo |-> q.todo, key |-> q.key,
       change |-> q.change, seen |-> q.seen]

Shape(q) == Fields(q) /\ q.pc \in Pcs /\ PutShape(q) /\ OtherShape(q)

Shapes == request = [r \in Requests |-> request[r]] /\ \A r \in Requests : Shape(request[r])

\* What a request holds: assets, the rows it has written, which are as it has
\* read them, and all the targets of the payloads it has deleted.
AssetsKnown(r) == \A k \in Keys : assets[k] = r => request[r].pc \in PutPcs

LocksKnown(r) == \A k \in Keys : locks[k] = r =>
  /\ request[r].pc \in PutPcs /\ k \in DOMAIN request[r].change
  /\ request[r].change[k].new <=> balances[k] = None

TakenKnown(r) == \A k \in Keys : taken[k] = r =>
  /\ request[r].pc = "fill"
  /\ targets[k] # None /\ \A j \in targets[k].keys : taken[j] = r

Known(r) == AssetsKnown(r) /\ LocksKnown(r) /\ TakenKnown(r)

IInv == TypeOK /\ Shapes /\ (\A r \in Requests : Known(r)) /\ Whole(targets)

-----------------------------------------------------------------------------
\* A request record with a column changed is one.
LEMMA RecordFields ==
  ASSUME NEW a, NEW b, NEW c, NEW d, NEW e, NEW f, NEW g, NEW x,
         x = [pc |-> a, kind |-> b, items |-> c, todo |-> d, key |-> e, change |-> f, seen |-> g]
  PROVE  /\ Fields(x) /\ x.pc = a /\ x.kind = b /\ x.items = c /\ x.todo = d
         /\ x.key = e /\ x.change = f /\ x.seen = g
BY DEF Fields

\* A request that goes on keeps the rest of its state.
LEMMA PcChanged ==
  ASSUME NEW q, Fields(q), NEW a, NEW x, x = [q EXCEPT !.pc = a]
  PROVE  /\ Fields(x) /\ x.pc = a /\ x.kind = q.kind /\ x.items = q.items
         /\ x.todo = q.todo /\ x.key = q.key /\ x.change = q.change
<1>1. x = [pc |-> a, kind |-> q.kind, items |-> q.items, todo |-> q.todo, key |-> q.key,
           change |-> q.change, seen |-> q.seen]
  BY DEF Fields
<1> QED BY <1>1, RecordFields

\* An idle request is one and has no changes.
LEMMA IdleFields == Fields(Idle) /\ Idle.pc = "idle" /\ DOMAIN Idle.change = {}
<1>1. Fields(Idle) /\ Idle.pc = "idle"
  BY DEF Fields, Idle
<1>2. Idle.change = <<>>
  BY DEF Idle
<1>3. DOMAIN <<>> = {}
  OBVIOUS
<1> QED BY <1>1, <1>2, <1>3

\* A request before its start and after its end knows nothing.
LEMMA NewRequests ==
  /\ Shape(Idle) /\ Idle.pc = "idle"
  /\ Shape([Idle EXCEPT !.pc = "done"]) /\ [Idle EXCEPT !.pc = "done"].pc = "done"
<1>1. Fields(Idle) /\ Idle.pc = "idle"
  BY IdleFields
<1>2. Fields([Idle EXCEPT !.pc = "done"]) /\ [Idle EXCEPT !.pc = "done"].pc = "done"
  BY <1>1, PcChanged
<1> QED BY <1>1, <1>2 DEF Shape, PutShape, OtherShape, Pcs, PutPcs

\* A request takes a step and has the state x; what the others hold is as it was.
Moves(r, x) ==
  /\ Shape(x) /\ request' = [request EXCEPT ![r] = x]
  /\ \A p \in Requests \ {r}, k \in Keys :
       /\ assets'[k] = p => assets[k] = p
       /\ locks'[k] = p => locks[k] = p /\ (balances'[k] = None <=> balances[k] = None)
       /\ taken'[k] = p <=> taken[k] = p
       /\ taken[k] = p => targets'[k] = targets[k]

\* A step of request r keeps what the others know.
LEMMA MoveStep ==
  ASSUME IInv, TypeOK', NEW r \in Requests, NEW x, Moves(r, x), Known(r)', Whole(targets)'
  PROVE  IInv'
<1>1. /\ request'[r] = x
      /\ \A p \in Requests : p # r => request'[p] = request[p]
      /\ request' = [p \in Requests |-> request'[p]]
  BY DEF IInv, Shapes, Moves
<1>2. Shapes'
  BY <1>1 DEF IInv, Shapes, Moves
<1>3. ASSUME NEW p \in Requests, p # r PROVE Known(p)'
  <2>1. Known(p) /\ request'[p] = request[p]
    BY <1>1, <1>3 DEF IInv
  <2>2. AssetsKnown(p)' /\ LocksKnown(p)'
    BY <1>3, <2>1 DEF Moves, Known, AssetsKnown, LocksKnown
  <2>3. TakenKnown(p)'
    <3> SUFFICES ASSUME NEW k \in Keys, taken'[k] = p
                 PROVE  /\ request'[p].pc = "fill" /\ targets'[k] # None
                        /\ \A j \in targets'[k].keys : taken'[j] = p
      BY DEF TakenKnown
    <3>1. taken[k] = p /\ targets'[k] = targets[k]
      BY <1>3 DEF Moves
    <3>2. targets[k] # None /\ request[p].pc = "fill" /\ \A j \in targets[k].keys : taken[j] = p
      BY <2>1, <3>1 DEF Known, TakenKnown
    <3>3. targets[k].keys \subseteq Keys
      BY <3>2, HoldingsAssumption DEF IInv, TypeOK, Origin
    <3> QED BY <1>3, <2>1, <3>1, <3>2, <3>3 DEF Moves
  <2> QED BY <2>2, <2>3 DEF Known
<1> QED BY <1>2, <1>3 DEF IInv

\* A step of a request that touches no table, and keeps what it has to write.
LEMMA LocalStep ==
  ASSUME IInv, NEW r \in Requests, NEW x, Shape(x), request' = [request EXCEPT ![r] = x],
         UNCHANGED <<assets, balances, locks, targets, taken>>, alone' \in [Requests -> BOOLEAN],
         request[r].pc # "fill",
         request[r].pc \in PutPcs =>
           /\ x.pc \in PutPcs
           /\ \A k \in DOMAIN request[r].change :
                k \in DOMAIN x.change /\ x.change[k] = request[r].change[k]
  PROVE  IInv'
<1>1. Moves(r, x)
  BY DEF Moves
<1>2. TypeOK' /\ Whole(targets)'
  BY DEF IInv, TypeOK, Whole
<1>3. request'[r] = x /\ Known(r)
  BY DEF IInv, Shapes
<1>4. Known(r)'
  BY <1>3 DEF Known, AssetsKnown, LocksKnown, TakenKnown
<1> QED BY <1>1, <1>2, <1>4, MoveStep

\* The end of a transaction.
LEMMA EndStep ==
  ASSUME IInv, NEW r \in Requests, NEW keep \in BOOLEAN, End(r, keep),
         balances' \in [Keys -> Item \cup {None}], targets' \in [Keys -> Origin \cup {None}],
         \A k \in Keys : locks[k] \notin {None, r} => (balances'[k] = None <=> balances[k] = None),
         \A k \in Keys : taken[k] \notin {None, r} => targets'[k] = targets[k],
         Whole(targets)'
  PROVE  IInv'
<1> DEFINE x == [Idle EXCEPT !.pc = "done"]
<1>1. Shape(x) /\ r \notin {None, "there"}
  BY NewRequests, HoldingsAssumption
<1> HIDE DEF x
<1>2. /\ request' = [request EXCEPT ![r] = x]
      /\ \A k \in Keys : /\ assets'[k] = IF assets[k] = r THEN (IF keep THEN "there" ELSE None)
                                         ELSE assets[k]
                         /\ locks'[k] = IF locks[k] = r THEN None ELSE locks[k]
                         /\ taken'[k] = IF taken[k] = r THEN None ELSE taken[k]
      /\ UNCHANGED alone
  BY DEF End, x
<1>3. TypeOK'
  BY DEF IInv, TypeOK, End
<1>4. Moves(r, x)
  BY <1>1, <1>2, HoldingsAssumption DEF Moves
<1>5. \A k \in Keys : assets'[k] # r /\ locks'[k] # r /\ taken'[k] # r
  BY <1>1, <1>2
<1>6. Known(r)'
  BY <1>5 DEF Known, AssetsKnown, LocksKnown, TakenKnown
<1> QED BY <1>3, <1>4, <1>6, MoveStep

\* A rollback gives back what was held and changes no row.
LEMMA RollbackStep ==
  ASSUME IInv, NEW r \in Requests, Rollback(r) PROVE IInv'
BY EndStep DEF Rollback, IInv, TypeOK, Whole

\* Requests begin.
LEMMA BeginStep ==
  ASSUME IInv, NEW r \in Requests, AskPut(r) \/ AskDelete(r) \/ AskTargets(r)
  PROVE  IInv'
<1>1. /\ request[r].pc = "idle" /\ alone' \in [Requests -> BOOLEAN]
      /\ UNCHANGED <<assets, balances, locks, targets, taken>>
  BY DEF AskPut, AskDelete, AskTargets, Begin, At, Busy, IInv, TypeOK
<1>2. PICK q : q = Idle /\ Fields(q) /\ DOMAIN q.change = {}
  BY IdleFields
<1>3. PICK x : Shape(x) /\ request' = [request EXCEPT ![r] = x]
  <2>1. CASE AskPut(r)
    <3>0. PICK S \in SUBSET Keys : \E f \in [S -> Items] :
            request' = [request EXCEPT ![r] =
              [Idle EXCEPT !.pc = "asset", !.kind = "put", !.items = f, !.todo = S]]
      BY <2>1 DEF AskPut, Begin
    <3>1. PICK f \in [S -> Items] :
            request' = [request EXCEPT ![r] =
              [Idle EXCEPT !.pc = "asset", !.kind = "put", !.items = f, !.todo = S]]
      BY <3>0
    <3>2. PICK x : x = [q EXCEPT !.pc = "asset", !.kind = "put", !.items = f, !.todo = S]
      OBVIOUS
    <3>3. /\ Fields(x) /\ x.pc = "asset" /\ x.kind = "put" /\ x.items = f /\ x.todo = S
          /\ DOMAIN x.change = {}
      <4>1. x = [pc |-> "asset", kind |-> "put", items |-> f, todo |-> S, key |-> q.key,
                 change |-> q.change, seen |-> q.seen]
        BY <1>2, <3>2 DEF Fields
      <4> QED BY <1>2, <4>1, RecordFields
    <3>4. Shape(x)
      BY <3>3, HoldingsAssumption DEF Shape, PutShape, OtherShape, Pcs, PutPcs, Item
    <3> QED BY <1>2, <3>1, <3>2, <3>4
  <2>2. CASE AskDelete(r)
    <3>1. PICK k \in Keys :
            request' = [request EXCEPT ![r] =
              [Idle EXCEPT !.pc = "remove", !.kind = "delete", !.key = k]]
      BY <2>2 DEF AskDelete, Begin
    <3>2. PICK x : x = [q EXCEPT !.pc = "remove", !.kind = "delete", !.key = k]
      OBVIOUS
    <3>3. Fields(x) /\ x.pc = "remove" /\ x.kind = "delete" /\ x.key = k
      <4>1. x = [pc |-> "remove", kind |-> "delete", items |-> q.items, todo |-> q.todo,
                 key |-> k, change |-> q.change, seen |-> q.seen]
        BY <1>2, <3>2 DEF Fields
      <4> QED BY <4>1, RecordFields
    <3>4. Shape(x)
      BY <3>3 DEF Shape, PutShape, OtherShape, Pcs, PutPcs
    <3> QED BY <1>2, <3>1, <3>2, <3>4
  <2>3. CASE AskTargets(r)
    <3> DEFINE seen == [k \in {j \in Keys : targets[j] # None} |-> targets[k]]
    <3>1. PICK S \in TargetSets \cup {{}} :
            request' = [request EXCEPT ![r] =
              [Idle EXCEPT !.pc = "clear", !.kind = "targets", !.todo = S, !.seen = seen]]
      BY <2>3 DEF AskTargets, Begin
    <3>2. PICK f : f = seen
      OBVIOUS
    <3>3. /\ DOMAIN f \subseteq Keys /\ \A k \in DOMAIN f : f[k] \in Origin
          /\ Whole(f)
      BY <3>2, HoldingsAssumption DEF IInv, TypeOK, Whole, Origin
    <3>4. PICK x : x = [q EXCEPT !.pc = "clear", !.kind = "targets", !.todo = S, !.seen = f]
      OBVIOUS
    <3>5. Fields(x) /\ x.pc = "clear" /\ x.kind = "targets" /\ x.todo = S /\ x.seen = f
      <4>1. x = [pc |-> "clear", kind |-> "targets", items |-> q.items, todo |-> S,
                 key |-> q.key, change |-> q.change, seen |-> f]
        BY <1>2, <3>4 DEF Fields
      <4> QED BY <4>1, RecordFields
    <3>6. request' = [request EXCEPT ![r] = x]
      BY <1>2, <3>1, <3>2, <3>4
    <3>7. Shape(x)
      BY <3>3, <3>5 DEF Shape, PutShape, OtherShape, Pcs, PutPcs
    <3> QED BY <3>6, <3>7
  <2> QED BY <2>1, <2>2, <2>3
<1> QED BY <1>1, <1>3, LocalStep DEF PutPcs

-----------------------------------------------------------------------------
\* The steps of a PUT of balances.

\* An item whose asset is there goes on, one whose asset is missing makes it.
LEMMA FindAssetStep == ASSUME IInv, NEW r \in Requests, FindAsset(r) PROVE IInv'
<1>1. PICK q : q = request[r] /\ Shape(q) /\ q.pc = "asset" /\ q.pc \in PutPcs
  BY DEF IInv, Shapes, FindAsset, At, PutPcs
<1>2. PICK k \in q.todo, a \in {"row", "make"} :
        request' = [request EXCEPT ![r].key = k, ![r].pc = a]
  BY <1>1 DEF FindAsset
<1>3. PICK x : x = [q EXCEPT !.key = k, !.pc = a]
  OBVIOUS
<1>4. request' = [request EXCEPT ![r] = x]
  BY <1>1, <1>2, <1>3 DEF IInv, Shapes
<1>5. /\ Fields(x) /\ x.pc = a /\ x.kind = q.kind /\ x.items = q.items
      /\ x.todo = q.todo /\ x.key = k /\ x.change = q.change
  <2>1. x = [pc |-> a, kind |-> q.kind, items |-> q.items, todo |-> q.todo, key |-> k,
             change |-> q.change, seen |-> q.seen]
    BY <1>1, <1>3 DEF Shape, Fields
  <2> QED BY <2>1, RecordFields
<1>6. Shape(x) /\ x.pc \in PutPcs
  BY <1>1, <1>5 DEF Shape, PutShape, OtherShape, Pcs, PutPcs
<1>7. UNCHANGED <<assets, balances, locks, targets, taken>> /\ alone' \in [Requests -> BOOLEAN]
  BY DEF FindAsset, IInv, TypeOK
<1> QED BY <1>1, <1>4, <1>5, <1>6, <1>7, LocalStep

\* An asset that is made belongs to its maker until the commit.
LEMMA MakeAssetStep == ASSUME IInv, NEW r \in Requests, MakeAsset(r) PROVE IInv'
<1>1. CASE Rollback(r)
  BY <1>1, RollbackStep
<1>2. CASE ~Rollback(r)
  <2>1. PICK q : q = request[r] /\ Shape(q) /\ q.pc = "make" /\ q.pc \in PutPcs
    BY DEF IInv, Shapes, MakeAsset, At, PutPcs
  <2>2. PICK k \in Keys : k = q.key
    BY <2>1 DEF Shape, PutShape
  <2>3. /\ assets[k] = None /\ assets' = [assets EXCEPT ![k] = r]
        /\ request' = [request EXCEPT ![r].pc = "flush"]
        /\ UNCHANGED <<balances, locks, targets, taken, alone>>
    BY <1>2, <2>1, <2>2 DEF MakeAsset
  <2>4. PICK x : x = [q EXCEPT !.pc = "flush"]
    OBVIOUS
  <2>5. request' = [request EXCEPT ![r] = x]
    BY <2>1, <2>3, <2>4 DEF IInv, Shapes
  <2>6. /\ Fields(x) /\ x.pc = "flush" /\ x.kind = q.kind /\ x.items = q.items
        /\ x.todo = q.todo /\ x.key = q.key /\ x.change = q.change
    BY <2>1, <2>4, PcChanged DEF Shape
  <2>7. Shape(x) /\ x.pc \in PutPcs
    BY <2>1, <2>6 DEF Shape, PutShape, OtherShape, Pcs, PutPcs
  <2>8. TypeOK' /\ Whole(targets)'
    BY <2>3 DEF IInv, TypeOK, Whole
  <2>9. Moves(r, x)
    BY <2>3, <2>5, <2>7 DEF Moves, IInv, TypeOK
  <2>10. request'[r] = x /\ Known(r)
    BY <2>5 DEF IInv, Shapes
  <2>11. Known(r)'
    BY <2>1, <2>3, <2>6, <2>7, <2>10 DEF Known, AssetsKnown, LocksKnown, TakenKnown, PutPcs
  <2> QED BY <2>8, <2>9, <2>11, MoveStep
<1> QED BY <1>1, <1>2

\* What a request that is not surprised has to write fits the rows.
LEMMA Expected ==
  ASSUME IInv, NEW r \in Requests, request[r].pc \in PutPcs, ~Surprised(r),
         NEW k \in DOMAIN request[r].change
  PROVE  request[r].change[k].new <=> balances[k] = None
<1>1. k \in Keys /\ request[r].change[k].new \in BOOLEAN
  BY DEF IInv, Shapes, Shape, PutShape, Change
<1>2. CASE locks[k] = r
  BY <1>1, <1>2 DEF IInv, Known, LocksKnown
<1>3. CASE locks[k] # r
  <2>1. ~(request[r].change[k].new # (balances[k] = None))
    BY <1>3 DEF Surprised, Unsent
  <2> QED BY <1>1, <2>1
<1> QED BY <1>2, <1>3

\* Rows that are written were as they had been read, or the flush fails.
LEMMA FlushStep == ASSUME IInv, NEW r \in Requests, Flush(r) PROVE IInv'
<1>1. CASE Rollback(r)
  BY <1>1, RollbackStep
<1>2. CASE ~Rollback(r)
  <2>1. PICK q : q = request[r] /\ Shape(q) /\ q.pc = "flush" /\ q.pc \in PutPcs
    BY DEF IInv, Shapes, Flush, At, PutPcs
  <2>2. /\ ~Surprised(r) /\ Free(r)
        /\ locks' = [k \in Keys |-> IF k \in Unsent(r) THEN r ELSE locks[k]]
        /\ request' = [request EXCEPT ![r].pc = "row"]
        /\ UNCHANGED <<assets, balances, targets, taken, alone>>
    BY <1>2 DEF Flush
  <2>3. PICK x : x = [q EXCEPT !.pc = "row"]
    OBVIOUS
  <2>4. request' = [request EXCEPT ![r] = x]
    BY <2>1, <2>2, <2>3 DEF IInv, Shapes
  <2>5. /\ Fields(x) /\ x.pc = "row" /\ x.kind = q.kind /\ x.items = q.items
        /\ x.todo = q.todo /\ x.key = q.key /\ x.change = q.change
    BY <2>1, <2>3, PcChanged DEF Shape
  <2>6. Shape(x) /\ x.pc \in PutPcs
    BY <2>1, <2>5 DEF Shape, PutShape, OtherShape, Pcs, PutPcs
  <2>7. TypeOK' /\ Whole(targets)'
    BY <2>2 DEF IInv, TypeOK, Whole
  <2>8. Moves(r, x)
    BY <2>2, <2>4, <2>6 DEF Moves
  <2>9. request'[r] = x /\ Known(r)
    BY <2>4 DEF IInv, Shapes
  <2>10. AssetsKnown(r)' /\ TakenKnown(r)'
    BY <2>1, <2>2, <2>6, <2>9 DEF Known, AssetsKnown, TakenKnown, PutPcs
  <2>11. LocksKnown(r)'
    <3> SUFFICES ASSUME NEW k \in Keys, locks'[k] = r
                 PROVE  k \in DOMAIN x.change /\ (x.change[k].new <=> balances[k] = None)
      BY <2>2, <2>6, <2>9 DEF LocksKnown
    <3>1. k \in DOMAIN q.change
      BY <2>1, <2>2, <2>9 DEF Unsent, Known, LocksKnown
    <3> QED BY <2>1, <2>2, <2>5, <3>1, Expected
  <2> QED BY <2>7, <2>8, <2>10, <2>11, MoveStep DEF Known
<1> QED BY <1>1, <1>2

\* The difference of an item and a row that was read.
LEMMA DifferenceIsChange ==
  ASSUME NEW item \in Item, NEW row \in Item \cup {None}
  PROVE  LET d == Difference(item, row) IN
         /\ d \in Change /\ (d.new <=> row = None)
         /\ d.new => d.amount \in Values /\ d.price \in Values
<1>1. CASE row = None
  BY <1>1 DEF Difference, Change, Item
<1>2. CASE row # None
  BY <1>2 DEF Difference, Change, Item
<1> QED BY <1>1, <1>2

\* What differs from the row that was read is put into the session.
LEMMA ReadRowStep == ASSUME IInv, NEW r \in Requests, ReadRow(r) PROVE IInv'
<1>1. PICK q : q = request[r] /\ Shape(q) /\ q.pc = "row" /\ q.pc \in PutPcs
  BY DEF IInv, Shapes, ReadRow, At, PutPcs
<1>2. PICK k \in Keys : k = q.key /\ k \in q.todo /\ k \in DOMAIN q.items
  BY <1>1 DEF Shape, PutShape
<1>3. PICK d : /\ d = Difference(q.items[k], balances[k]) /\ d \in Change
               /\ d.new => d.amount \in Values /\ d.price \in Values
  BY <1>1, <1>2, DifferenceIsChange DEF Shape, PutShape, IInv, TypeOK
<1>4. PICK c, a :
        /\ c = IF Touches(d) THEN [j \in DOMAIN q.change \cup {k} |-> IF j = k THEN d ELSE q.change[j]]
               ELSE q.change
        /\ a = IF q.todo \ {k} = {} THEN "commit" ELSE "asset"
  OBVIOUS
<1>5. request' = [request EXCEPT ![r].todo = q.todo \ {k}, ![r].key = None, ![r].change = c,
                                 ![r].pc = a]
  BY <1>1, <1>2, <1>3, <1>4 DEF ReadRow
<1>6. PICK x : x = [q EXCEPT !.todo = q.todo \ {k}, !.key = None, !.change = c, !.pc = a]
  OBVIOUS
<1>7. request' = [request EXCEPT ![r] = x]
  BY <1>1, <1>5, <1>6 DEF IInv, Shapes
<1>8. /\ Fields(x) /\ x.pc = a /\ x.kind = q.kind /\ x.items = q.items
      /\ x.todo = q.todo \ {k} /\ x.change = c
  <2>1. x = [pc |-> a, kind |-> q.kind, items |-> q.items, todo |-> q.todo \ {k}, key |-> None,
             change |-> c, seen |-> q.seen]
    BY <1>1, <1>6 DEF Shape, Fields
  <2> QED BY <2>1, RecordFields
<1>9. /\ DOMAIN q.change \subseteq DOMAIN c /\ DOMAIN c \subseteq DOMAIN q.change \cup {k}
      /\ k \notin DOMAIN q.change /\ \A j \in DOMAIN q.change : c[j] = q.change[j]
      /\ k \in DOMAIN c => c[k] = d
  BY <1>1, <1>2, <1>4 DEF Shape, PutShape
<1>10. /\ a \in {"commit", "asset"} /\ (a = "commit" => q.todo \ {k} = {})
  BY <1>4
<1>11. PutShape(x)
  <2>1. DOMAIN x.change \subseteq DOMAIN x.items \ x.todo
    BY <1>1, <1>2, <1>8, <1>9 DEF Shape, PutShape
  <2>2. \A j \in DOMAIN x.change :
          /\ x.change[j] \in Change
          /\ x.change[j].new => x.change[j].amount \in Values /\ x.change[j].price \in Values
    BY <1>1, <1>3, <1>8, <1>9 DEF Shape, PutShape
  <2> QED BY <1>1, <1>8, <1>10, <2>1, <2>2 DEF Shape, PutShape
<1>12. Shape(x) /\ x.pc \in PutPcs
  BY <1>8, <1>10, <1>11 DEF Shape, OtherShape, Pcs, PutPcs
<1>13. UNCHANGED <<assets, balances, locks, targets, taken>> /\ alone' \in [Requests -> BOOLEAN]
  BY DEF ReadRow, IInv, TypeOK
<1> QED BY <1>1, <1>7, <1>8, <1>9, <1>12, <1>13, LocalStep

\* A commit writes the rows and gives everything back.
LEMMA CommitPutStep == ASSUME IInv, NEW r \in Requests, CommitPut(r) PROVE IInv'
<1>1. CASE Rollback(r)
  BY <1>1, RollbackStep
<1>2. CASE ~Rollback(r)
  <2>1. PICK q : q = request[r] /\ Shape(q) /\ q.pc = "commit" /\ q.pc \in PutPcs
    BY DEF IInv, Shapes, CommitPut, At, PutPcs
  <2>2. /\ ~Surprised(r) /\ Free(r) /\ End(r, TRUE) /\ UNCHANGED targets
        /\ balances' = [k \in Keys |-> IF k \in DOMAIN q.change
                                       THEN Written(q.change[k], balances[k]) ELSE balances[k]]
    BY <1>2, <2>1 DEF CommitPut
  <2>3. ASSUME NEW k \in DOMAIN q.change PROVE k \in Keys /\ Written(q.change[k], balances[k]) \in Item
    <3>1. k \in Keys /\ (q.change[k].new <=> balances[k] = None)
      BY <2>1, <2>2, Expected DEF Shape, PutShape
    <3>2. CASE q.change[k].new
      BY <2>1, <3>2 DEF Shape, PutShape, Written, Item
    <3>3. CASE ~q.change[k].new
      <4>1. balances[k] \in Item
        BY <3>1, <3>3 DEF IInv, TypeOK
      <4>2. PICK d \in Change : d = q.change[k]
        BY <2>1 DEF Shape, PutShape
      <4>3. ~d.new => Written(d, balances[k]) \in Item
        BY <4>1 DEF Written, Item, Change
      <4> QED BY <3>1, <3>3, <4>2, <4>3
    <3> QED BY <3>1, <3>2, <3>3
  <2>4. balances' \in [Keys -> Item \cup {None}]
    BY <2>2, <2>3 DEF IInv, TypeOK
  <2>5. ASSUME NEW k \in Keys, locks[k] \notin {None, r} PROVE balances'[k] = balances[k]
    BY <2>1, <2>2, <2>5 DEF Free, Unsent
  <2>6. targets' \in [Keys -> Origin \cup {None}] /\ Whole(targets)' /\ UNCHANGED targets
    BY <2>2 DEF IInv, TypeOK, Whole
  <2> QED BY <2>2, <2>4, <2>5, <2>6, EndStep
<1> QED BY <1>1, <1>2

-----------------------------------------------------------------------------
\* The step of a DELETE, and those of a PUT of targets.

\* A DELETE of a balance waits for the row.
LEMMA RemoveStep == ASSUME IInv, NEW r \in Requests, Remove(r) PROVE IInv'
<1>1. PICK k \in Keys : k = request[r].key
  BY DEF IInv, Shapes, Shape, OtherShape, Remove, At
<1>2. /\ locks[k] = None /\ balances' = [balances EXCEPT ![k] = None]
      /\ End(r, TRUE) /\ UNCHANGED targets
  BY <1>1 DEF Remove
<1>3. /\ balances' \in [Keys -> Item \cup {None}] /\ targets' \in [Keys -> Origin \cup {None}]
      /\ Whole(targets)'
      /\ \A j \in Keys : locks[j] \notin {None, r} => balances'[j] = balances[j]
  BY <1>2 DEF IInv, TypeOK, Whole
<1> QED BY <1>2, <1>3, EndStep

\* The rows a DELETE has found make whole payloads, and so do those that are
\* still there.
LEMMA ClearStep == ASSUME IInv, NEW r \in Requests, Clear(r) PROVE IInv'
<1>1. PICK q : q = request[r] /\ Shape(q) /\ q.pc = "clear"
  BY DEF IInv, Shapes, Clear, At
<1>2. /\ \A k \in Rows(r) : taken[k] = None
      /\ taken' = [k \in Keys |-> IF k \in Rows(r) THEN r ELSE taken[k]]
      /\ request' = [request EXCEPT ![r].pc = "fill"]
      /\ UNCHANGED <<assets, balances, locks, targets, alone>>
  BY DEF Clear
<1>3. PICK x : x = [q EXCEPT !.pc = "fill"]
  OBVIOUS
<1>4. request' = [request EXCEPT ![r] = x]
  BY <1>1, <1>2, <1>3 DEF IInv, Shapes
<1>5. Fields(x) /\ x.pc = "fill" /\ x.kind = q.kind /\ x.todo = q.todo
  BY <1>1, <1>3, PcChanged DEF Shape
<1>6. Shape(x)
  BY <1>1, <1>5 DEF Shape, PutShape, OtherShape, Pcs, PutPcs
<1>7. TypeOK' /\ Whole(targets)'
  BY <1>2 DEF IInv, TypeOK, Whole
<1>8. Moves(r, x)
  BY <1>2, <1>4, <1>6, HoldingsAssumption DEF Moves, IInv, TypeOK
<1>9. request'[r] = x /\ Known(r)
  BY <1>4 DEF IInv, Shapes
<1>10. AssetsKnown(r)' /\ LocksKnown(r)'
  BY <1>1, <1>2, <1>9 DEF Known, AssetsKnown, LocksKnown, PutPcs
<1>11. TakenKnown(r)'
  <2>1. \A k \in Keys : taken[k] # r
    BY <1>1, <1>9 DEF Known, TakenKnown
  <2>2. Rows(r) = {k \in DOMAIN q.seen : targets[k] = q.seen[k]} /\ Rows(r) \subseteq Keys
    BY <1>1 DEF Rows, Shape, OtherShape
  <2>3. ASSUME NEW k \in Rows(r)
        PROVE  targets[k] # None /\ \A j \in targets[k].keys : j \in Rows(r)
    <3>1. k \in Keys /\ k \in DOMAIN q.seen /\ targets[k] = q.seen[k] /\ targets[k] \in Origin
      BY <1>1, <2>2 DEF Shape, OtherShape
    <3>2. targets[k] # None
      BY <3>1, NothingAssumption
    <3>3. \A j \in targets[k].keys : j \in DOMAIN q.seen /\ q.seen[j] = q.seen[k]
      BY <1>1, <3>1, <3>2 DEF Shape, OtherShape, Whole
    <3>4. \A j \in targets[k].keys : targets[j] = targets[k]
      BY <3>1, <3>2 DEF IInv, Whole, TypeOK
    <3> QED BY <2>2, <3>1, <3>2, <3>3, <3>4
  <2>4. ASSUME NEW k \in Keys, taken'[k] = r PROVE k \in Rows(r)
    BY <1>2, <2>1, <2>4
  <2>5. \A j \in Rows(r) : taken'[j] = r
    BY <1>2, <2>2
  <2> QED BY <1>2, <1>5, <1>9, <2>3, <2>4, <2>5 DEF TakenKnown
<1> QED BY <1>7, <1>8, <1>10, <1>11, MoveStep DEF Known

\* Where a PUT of targets inserts a row there is none, or one of a payload it
\* has deleted altogether.
LEMMA FillStep == ASSUME IInv, NEW r \in Requests, Fill(r) PROVE IInv'
<1>1. CASE Rollback(r)
  BY <1>1, RollbackStep
<1>2. CASE ~Rollback(r)
  <2>1. PICK S \in TargetSets \cup {{}} : S = request[r].todo
    BY DEF IInv, Shapes, Shape, OtherShape, Fill, At
  <2>2. /\ \A k \in S : taken[k] \in {None, r}
        /\ \A k \in S : targets[k] = None \/ taken[k] = r
        /\ targets' = [k \in Keys |-> IF k \in S THEN [by |-> r, keys |-> S]
                                      ELSE IF taken[k] = r THEN None ELSE targets[k]]
        /\ End(r, TRUE) /\ UNCHANGED balances
    BY <1>2, <2>1 DEF Fill
  <2>3. PICK row : row = [by |-> r, keys |-> S]
    OBVIOUS
  <2>4. S \subseteq Keys /\ (S # {} => row \in Origin) /\ row.keys = S
    BY <2>1, <2>3, HoldingsAssumption DEF Origin
  <2>5. targets' \in [Keys -> Origin \cup {None}]
    BY <2>2, <2>3, <2>4 DEF IInv, TypeOK
  <2>6. balances' \in [Keys -> Item \cup {None}] /\ UNCHANGED balances
    BY <2>2 DEF IInv, TypeOK
  <2>7. \A k \in Keys : taken[k] \notin {None, r} => targets'[k] = targets[k]
    BY <2>2
  <2>8. Whole(targets)'
    <3> SUFFICES ASSUME NEW k \in Keys, targets'[k] # None
                 PROVE  /\ k \in targets'[k].keys
                        /\ \A j \in targets'[k].keys : j \in Keys /\ targets'[j] = targets'[k]
      BY <2>2 DEF Whole
    <3>1. CASE k \in S
      BY <2>2, <2>3, <2>4, <3>1
    <3>2. CASE k \notin S
      <4>1. taken[k] # r /\ targets'[k] = targets[k] /\ targets[k] # None
        BY <2>2, <3>2
      <4>2. k \in targets[k].keys /\ \A j \in targets[k].keys : j \in Keys /\ targets[j] = targets[k]
        BY <4>1 DEF IInv, TypeOK, Whole
      <4>3. ASSUME NEW j \in targets[k].keys PROVE targets'[j] = targets[k]
        <5>1. taken[j] # r
          <6> SUFFICES ASSUME taken[j] = r PROVE FALSE
            OBVIOUS
          <6>1. \A i \in targets[j].keys : taken[i] = r
            BY <4>2, <4>3 DEF IInv, Known, TakenKnown
          <6> QED BY <4>1, <4>2, <4>3, <6>1
        <5>2. j \notin S
          BY <2>2, <4>1, <4>2, <4>3, <5>1
        <5> QED BY <2>2, <4>2, <5>1, <5>2
      <4> QED BY <4>1, <4>2, <4>3
    <3> QED BY <3>1, <3>2
  <2> QED BY <2>2, <2>5, <2>6, <2>7, <2>8, EndStep
<1> QED BY <1>1, <1>2

-----------------------------------------------------------------------------
\* In the tables a server finds, the targets are those of one payload.
LEMMA InitInv == Init => IInv
<1> SUFFICES ASSUME Init PROVE IInv
  OBVIOUS
<1>1. PICK S \in TargetSets :
        targets = [k \in Keys |-> IF k \in S THEN [by |-> "before", keys |-> S] ELSE None]
  BY DEF Init
<1>2. PICK row : row = [by |-> "before", keys |-> S]
  OBVIOUS
<1>3. S \subseteq Keys /\ row \in Origin /\ row.keys = S
  BY <1>2, HoldingsAssumption DEF Origin
<1>4. TypeOK
  <2>1. assets \in [Keys -> {None, "there"} \cup Requests]
    BY DEF Init
  <2>2. balances \in [Keys -> Item \cup {None}]
    BY HoldingsAssumption DEF Init, Item
  <2>3. targets \in [Keys -> Origin \cup {None}]
    BY <1>1, <1>2, <1>3
  <2> QED BY <2>1, <2>2, <2>3 DEF Init, TypeOK
<1>5. Shapes
  <2>1. request = [r \in Requests |-> Idle]
    BY DEF Init
  <2> QED BY <2>1, NewRequests DEF Shapes
<1>6. \A r \in Requests : Known(r)
  BY HoldingsAssumption DEF Init, Known, AssetsKnown, LocksKnown, TakenKnown
<1>7. Whole(targets)
  BY <1>1, <1>2, <1>3 DEF Whole
<1> QED BY <1>4, <1>5, <1>6, <1>7 DEF IInv

\* IInv is inductive.
LEMMA StepInv == IInv /\ [Next]_vars => IInv'
<1> SUFFICES ASSUME IInv, [Next]_vars PROVE IInv'
  OBVIOUS
<1>1. CASE UNCHANGED vars
  BY <1>1 DEF vars, IInv, TypeOK, Shapes, Known, AssetsKnown, LocksKnown, TakenKnown, Whole
<1>2. ASSUME NEW r \in Requests, AskPut(r) \/ AskDelete(r) \/ AskTargets(r) \/ Step(r) PROVE IInv'
  <2>1. CASE Step(r)
    BY <2>1, FindAssetStep, MakeAssetStep, FlushStep, ReadRowStep, CommitPutStep, RemoveStep,
       ClearStep, FillStep, RollbackStep DEF Step, Deadlock
  <2>2. CASE ~Step(r)
    BY <1>2, <2>2, BeginStep
  <2> QED BY <2>1, <2>2
<1> QED BY <1>1, <1>2 DEF Next

\* The invariant holds throughout.
LEMMA Invariant == Spec => []IInv
<1> QED BY InitInv, StepInv, PTL DEF Spec

\* The tables keep their types.
THEOREM TypeCorrect == Spec => []TypeOK
<1>1. IInv => TypeOK
  BY DEF IInv
<1> QED BY <1>1, Invariant, PTL

\* However requests that replace the targets overlap, wait for each other, fail
\* and are aborted, the targets of a payload are there together or not at all.
THEOREM PayloadsStayWhole == Spec => []TargetsWhole
<1>1. IInv => TargetsWhole
  BY DEF IInv, TypeOK, Whole, TargetsWhole
<1> QED BY <1>1, Invariant, PTL

-----------------------------------------------------------------------------
\* A request that is alone finds the tables as it has left them: what it has
\* to write is what differs from the rows, and what it has read or deleted are
\* all the targets there are.
Prepared(q) == \A k \in DOMAIN q.items \ q.todo :
  /\ k \in DOMAIN q.change <=> Touches(Difference(q.items[k], balances[k]))
  /\ k \in DOMAIN q.change => q.change[k] = Difference(q.items[k], balances[k])

Alone(r) == alone[r] /\ Busy(r) =>
  /\ \A p \in Requests \ {r} : ~Busy(p)
  /\ request[r].pc = "make" => assets[request[r].key] # "there"
  /\ request[r].pc \in PutPcs => Prepared(request[r])
  /\ request[r].pc = "clear" => \A k \in Keys : targets[k] # None =>
       k \in DOMAIN request[r].seen /\ request[r].seen[k] = targets[k]
  /\ request[r].pc = "fill" => \A k \in Keys : targets[k] # None => taken[k] = r

AInv == IInv /\ \A r \in Requests : Alone(r)

\* Only a request that is under way takes steps, and it changes its own state.
LEMMA StepIsBusy == ASSUME IInv, NEW r \in Requests, Step(r) PROVE Busy(r)
BY DEF Step, FindAsset, MakeAsset, Flush, ReadRow, CommitPut, Remove, Clear, Fill, Deadlock,
       Holders, At, Busy

\* A step of one request leaves the others where they are.
LEMMA StepIsOwn ==
  ASSUME IInv, NEW r \in Requests, Step(r)
  PROVE  UNCHANGED alone /\ \A p \in Requests : p # r => request'[p] = request[p]
BY DEF IInv, Shapes, Step, FindAsset, MakeAsset, Flush, ReadRow, CommitPut, Remove, Clear, Fill,
       Deadlock, Rollback, End

\* It is enough to look at the request that takes the step: who is alone next to
\* it is not under way.
LEMMA AloneStep ==
  ASSUME AInv, NEW r \in Requests, Step(r), alone[r] => Alone(r)'
  PROVE  \A p \in Requests : Alone(p)'
<1>1. Busy(r) /\ UNCHANGED alone /\ \A p \in Requests : p # r => request'[p] = request[p]
  BY StepIsBusy, StepIsOwn DEF AInv
<1>2. CASE ~alone[r]
  BY <1>1, <1>2 DEF Alone, AInv, Busy, At
<1>3. CASE alone[r]
  BY <1>1, <1>3 DEF Alone, AInv, Busy, At
<1> QED BY <1>2, <1>3

\* The requests that others wait for are under way.
LEMMA HoldersAreBusy ==
  ASSUME IInv, NEW r \in Requests, NEW p \in Holders(r) PROVE p \in Requests \ {r} /\ Busy(p)
<1>1. p \in Requests \ {r}
  BY DEF Holders
<1>2. Shape(request[r])
  BY DEF IInv, Shapes
<1>3. PICK k \in Keys : assets[k] = p \/ locks[k] = p \/ taken[k] = p
  <2>1. CASE At(r, "make") /\ assets[request[r].key] = p
    BY <1>2, <2>1 DEF Shape, PutShape, PutPcs, At
  <2>2. CASE (At(r, "flush") \/ At(r, "commit")) /\ \E k \in Unsent(r) : locks[k] = p
    BY <1>2, <2>2 DEF Shape, PutShape, PutPcs, At, Unsent
  <2>3. CASE At(r, "remove") /\ locks[request[r].key] = p
    BY <1>2, <2>3 DEF Shape, OtherShape, At
  <2>4. CASE At(r, "clear") /\ \E k \in Rows(r) : taken[k] = p
    BY <1>2, <2>4 DEF Shape, OtherShape, At, Rows
  <2>5. CASE At(r, "fill") /\ \E k \in request[r].todo : taken[k] = p
    BY <1>2, <2>5, HoldingsAssumption DEF Shape, OtherShape, At
  <2> QED BY <2>1, <2>2, <2>3, <2>4, <2>5 DEF Holders
<1>4. request[p].pc \in PutPcs \cup {"fill"}
  BY <1>1, <1>3 DEF IInv, Known, AssetsKnown, LocksKnown, TakenKnown
<1> QED BY <1>1, <1>4 DEF Busy, At, PutPcs

\* A request that is alone is not surprised, not aborted and not refused.
LEMMA AloneIsNotSurprised ==
  ASSUME AInv, NEW r \in Requests, alone[r], request[r].pc \in PutPcs PROVE ~Surprised(r)
<1> SUFFICES ASSUME NEW k \in Unsent(r) PROVE ~(request[r].change[k].new # (balances[k] = None))
  BY DEF Surprised
<1>1. /\ k \in Keys /\ k \in DOMAIN request[r].items \ request[r].todo
      /\ k \in DOMAIN request[r].change /\ request[r].items[k] \in Item
  BY DEF Unsent, AInv, IInv, Shapes, Shape, PutShape
<1>2. Busy(r)
  BY DEF Busy, At, PutPcs
<1>3. request[r].change[k] = Difference(request[r].items[k], balances[k])
  BY <1>1, <1>2 DEF AInv, Alone, Prepared
<1>4. balances[k] \in Item \cup {None}
  BY <1>1 DEF AInv, IInv, TypeOK
<1>5. Difference(request[r].items[k], balances[k]).new <=> balances[k] = None
  BY <1>1, <1>4, DifferenceIsChange
<1>6. Difference(request[r].items[k], balances[k]).new \in BOOLEAN
  BY DEF Difference
<1> QED BY <1>3, <1>5, <1>6

\* A request that is alone waits for nobody, and so is in no circle.
LEMMA AloneIsNotAborted ==
  ASSUME AInv, NEW r \in Requests, alone[r], Busy(r) PROVE ~Deadlock(r)
<1> SUFFICES ASSUME Deadlock(r) PROVE FALSE
  OBVIOUS
<1>1. PICK p : p \in Holders(r)
  BY DEF Deadlock
<1>2. p \in Requests \ {r} /\ Busy(p)
  BY <1>1, HoldersAreBusy DEF AInv
<1> QED BY <1>2 DEF AInv, Alone

\* Between its steps a request that is alone stays prepared.

\* A request that goes on to another point of its program keeps all it knows.
LEMMA PcMoves ==
  ASSUME IInv, NEW r \in Requests, NEW a, request' = [request EXCEPT ![r].pc = a]
  PROVE  /\ request'[r].pc = a /\ request'[r].items = request[r].items
         /\ request'[r].todo = request[r].todo /\ request'[r].change = request[r].change
         /\ request'[r].key = request[r].key
<1>1. PICK q : q = request[r] /\ Fields(q)
  BY DEF IInv, Shapes, Shape
<1>2. PICK x : x = [q EXCEPT !.pc = a]
  OBVIOUS
<1>3. request'[r] = x
  BY <1>1, <1>2 DEF IInv, Shapes
<1> QED BY <1>1, <1>2, <1>3, PcChanged

\* The steps of a PUT that is alone are not refused and leave it prepared: the
\* search for an asset, ...
LEMMA AloneAfterFindAsset ==
  ASSUME AInv, NEW r \in Requests, alone[r], FindAsset(r) PROVE Alone(r)' /\ ~At(r, "done")'
<1>1. PICK q : q = request[r] /\ Shape(q) /\ q.pc = "asset"
  BY DEF AInv, IInv, Shapes, FindAsset, At
<1>2. PICK k \in q.todo, a \in {"row", "make"} :
        /\ request' = [request EXCEPT ![r].key = k, ![r].pc = a]
        /\ a = "make" => assets[k] # "there"
  BY <1>1 DEF FindAsset
<1>3. PICK x : x = [q EXCEPT !.key = k, !.pc = a]
  OBVIOUS
<1>4. request'[r] = x /\ \A p \in Requests : p # r => request'[p] = request[p]
  BY <1>1, <1>2, <1>3 DEF AInv, IInv, Shapes
<1>5. x.pc = a /\ x.items = q.items /\ x.todo = q.todo /\ x.key = k /\ x.change = q.change
  <2>1. x = [pc |-> a, kind |-> q.kind, items |-> q.items, todo |-> q.todo, key |-> k,
             change |-> q.change, seen |-> q.seen]
    BY <1>1, <1>3 DEF Shape, Fields
  <2> QED BY <2>1, RecordFields
<1>6. Alone(r) /\ Busy(r) /\ UNCHANGED <<assets, balances>>
  BY <1>1 DEF AInv, Busy, At, FindAsset
<1>7. Prepared(request[r])'
  BY <1>1, <1>4, <1>5, <1>6 DEF Alone, Prepared, PutPcs
<1>8. \A p \in Requests \ {r} : ~Busy(p)'
  BY <1>4, <1>6 DEF Alone, Busy, At
<1>9. request'[r].pc = "make" => assets'[request'[r].key] # "there"
  BY <1>2, <1>4, <1>5, <1>6
<1>10. request'[r].pc \in {"row", "make"}
  BY <1>4, <1>5
<1> QED BY <1>7, <1>8, <1>9, <1>10 DEF Alone, At

\* ... its INSERT, ...
LEMMA AloneAfterMakeAsset ==
  ASSUME AInv, NEW r \in Requests, alone[r], MakeAsset(r) PROVE Alone(r)' /\ ~At(r, "done")'
<1>1. request[r].pc = "make" /\ Busy(r) /\ Alone(r) /\ assets[request[r].key] # "there"
  BY DEF MakeAsset, At, Busy, AInv, Alone
<1>2. /\ request' = [request EXCEPT ![r].pc = "flush"]
      /\ UNCHANGED <<balances, locks, targets, taken, alone>>
  BY <1>1 DEF MakeAsset
<1>3. \A p \in Requests : p # r => request'[p] = request[p]
  BY <1>2 DEF AInv, IInv, Shapes
<1>4. /\ request'[r].pc = "flush" /\ request'[r].items = request[r].items
      /\ request'[r].todo = request[r].todo /\ request'[r].change = request[r].change
  BY <1>2, PcMoves DEF AInv
<1>5. Prepared(request[r])'
  BY <1>1, <1>2, <1>4 DEF Alone, Prepared, PutPcs
<1>6. \A p \in Requests \ {r} : ~Busy(p)'
  BY <1>1, <1>3 DEF Alone, Busy, At
<1> QED BY <1>4, <1>5, <1>6 DEF Alone, At

\* ... the flush of the changes so far, ...
LEMMA AloneAfterFlush ==
  ASSUME AInv, NEW r \in Requests, alone[r], Flush(r) PROVE Alone(r)' /\ ~At(r, "done")'
<1>1. request[r].pc = "flush" /\ Busy(r) /\ Alone(r)
  BY DEF Flush, At, Busy, AInv
<1>2. /\ request' = [request EXCEPT ![r].pc = "row"]
      /\ UNCHANGED <<assets, balances, targets, taken, alone>>
  BY <1>1, AloneIsNotSurprised DEF Flush, PutPcs
<1>3. \A p \in Requests : p # r => request'[p] = request[p]
  BY <1>2 DEF AInv, IInv, Shapes
<1>4. /\ request'[r].pc = "row" /\ request'[r].items = request[r].items
      /\ request'[r].todo = request[r].todo /\ request'[r].change = request[r].change
  BY <1>2, PcMoves DEF AInv
<1>5. Prepared(request[r])'
  BY <1>1, <1>2, <1>4 DEF Alone, Prepared, PutPcs
<1>6. \A p \in Requests \ {r} : ~Busy(p)'
  BY <1>1, <1>3 DEF Alone, Busy, At
<1> QED BY <1>4, <1>5, <1>6 DEF Alone, At

\* ... and the read of the row of an item.
LEMMA AloneAfterReadRow ==
  ASSUME AInv, NEW r \in Requests, alone[r], ReadRow(r) PROVE Alone(r)' /\ ~At(r, "done")'
<1>1. PICK q : q = request[r] /\ Shape(q) /\ q.pc = "row" /\ q.pc \in PutPcs
  BY DEF AInv, IInv, Shapes, ReadRow, At, PutPcs
<1>2. PICK k \in Keys : k = q.key /\ k \in q.todo /\ k \in DOMAIN q.items
  BY <1>1 DEF Shape, PutShape
<1>3. PICK d : d = Difference(q.items[k], balances[k])
  OBVIOUS
<1>4. PICK c, a :
        /\ c = IF Touches(d) THEN [j \in DOMAIN q.change \cup {k} |-> IF j = k THEN d ELSE q.change[j]]
               ELSE q.change
        /\ a = IF q.todo \ {k} = {} THEN "commit" ELSE "asset"
  OBVIOUS
<1>5. request' = [request EXCEPT ![r].todo = q.todo \ {k}, ![r].key = None, ![r].change = c,
                                 ![r].pc = a]
  BY <1>1, <1>2, <1>3, <1>4 DEF ReadRow
<1>6. PICK x : x = [q EXCEPT !.todo = q.todo \ {k}, !.key = None, !.change = c, !.pc = a]
  OBVIOUS
<1>7. request'[r] = x /\ \A p \in Requests : p # r => request'[p] = request[p]
  BY <1>1, <1>5, <1>6 DEF AInv, IInv, Shapes
<1>8. /\ Fields(x) /\ x.pc = a /\ x.kind = q.kind /\ x.items = q.items
      /\ x.todo = q.todo \ {k} /\ x.change = c
  <2>1. x = [pc |-> a, kind |-> q.kind, items |-> q.items, todo |-> q.todo \ {k}, key |-> None,
             change |-> c, seen |-> q.seen]
    BY <1>1, <1>6 DEF Shape, Fields
  <2> QED BY <2>1, RecordFields
<1>9. Busy(r) /\ Alone(r) /\ UNCHANGED balances /\ a \in {"commit", "asset"}
  BY <1>1, <1>4 DEF AInv, Busy, At, PutPcs, ReadRow
<1>10. Prepared(q)
  BY <1>1, <1>9 DEF Alone
<1>11. ASSUME NEW j \in DOMAIN q.items \ (q.todo \ {k})
       PROVE  /\ j \in DOMAIN c <=> Touches(Difference(q.items[j], balances[j]))
              /\ j \in DOMAIN c => c[j] = Difference(q.items[j], balances[j])
  <2>1. k \notin DOMAIN q.change
    BY <1>1, <1>2 DEF Shape, PutShape
  <2>2. CASE j = k
    <3>1. CASE Touches(d)
      BY <1>3, <1>4, <2>2, <3>1
    <3>2. CASE ~Touches(d)
      BY <1>3, <1>4, <2>1, <2>2, <3>2
    <3> QED BY <3>1, <3>2
  <2>3. CASE j # k
    <3>1. j \in DOMAIN q.items \ q.todo
      BY <2>3
    <3>2. (j \in DOMAIN c <=> j \in DOMAIN q.change) /\ (j \in DOMAIN q.change => c[j] = q.change[j])
      <4>1. CASE Touches(d)
        BY <1>4, <2>3, <4>1
      <4>2. CASE ~Touches(d)
        BY <1>4, <4>2
      <4> QED BY <4>1, <4>2
    <3>3. /\ j \in DOMAIN q.change <=> Touches(Difference(q.items[j], balances[j]))
          /\ j \in DOMAIN q.change => q.change[j] = Difference(q.items[j], balances[j])
      BY <1>10, <3>1 DEF Prepared
    <3> QED BY <3>2, <3>3
  <2> QED BY <2>2, <2>3
<1>12. \A p \in Requests \ {r} : ~Busy(p)'
  BY <1>7, <1>9 DEF Alone, Busy, At
<1>13. Prepared(request[r])'
  BY <1>7, <1>8, <1>9, <1>11 DEF Prepared
<1>14. request'[r].pc \in {"commit", "asset"}
  BY <1>7, <1>8, <1>9
<1> QED BY <1>12, <1>13, <1>14 DEF Alone, At

\* A DELETE of the targets that is alone takes all there are.
LEMMA AloneAfterClear ==
  ASSUME AInv, NEW r \in Requests, alone[r], Clear(r) PROVE Alone(r)' /\ ~At(r, "done")'
<1>1. request[r].pc = "clear" /\ Busy(r) /\ Alone(r)
  BY DEF Clear, At, Busy, AInv
<1>2. /\ request' = [request EXCEPT ![r].pc = "fill"] /\ UNCHANGED targets
      /\ taken' = [k \in Keys |-> IF k \in Rows(r) THEN r ELSE taken[k]]
  BY DEF Clear
<1>3. \A p \in Requests : p # r => request'[p] = request[p]
  BY <1>2 DEF AInv, IInv, Shapes
<1>4. \A k \in Keys : targets[k] # None => k \in Rows(r)
  BY <1>1 DEF Alone, Rows
<1>5. request'[r].pc = "fill"
  BY <1>2, PcMoves DEF AInv
<1> QED BY <1>1, <1>2, <1>3, <1>4, <1>5 DEF Alone, Busy, At, PutPcs

\* Where a request begins while nobody is under way, it is alone.
LEMMA AloneAtBegin ==
  ASSUME AInv, NEW r \in Requests, AskPut(r) \/ AskDelete(r) \/ AskTargets(r)
  PROVE  \A p \in Requests : Alone(p)'
<1>1. /\ alone' = [q \in Requests |-> IF q = r THEN \A p \in Requests : ~Busy(p)
                                      ELSE IF Busy(q) THEN FALSE ELSE alone[q]]
      /\ request[r].pc = "idle" /\ UNCHANGED <<balances, targets>>
  BY DEF AskPut, AskDelete, AskTargets, Begin, At
<1>2. \A p \in Requests : p # r => request'[p] = request[p]
  BY DEF AskPut, AskDelete, AskTargets, Begin, AInv, IInv, Shapes
<1>3. ASSUME NEW p \in Requests, p # r PROVE Alone(p)'
  BY <1>1, <1>2, <1>3 DEF Alone, Busy, At
<1>4. alone'[r] => \A p \in Requests \ {r} : ~Busy(p)'
  BY <1>1, <1>2 DEF Busy, At
<1>5. /\ request'[r].pc # "make" /\ request'[r].pc # "fill"
      /\ request'[r].pc \in PutPcs => Prepared(request[r])'
      /\ request'[r].pc = "clear" => \A k \in Keys : targets[k] # None =>
           k \in DOMAIN request'[r].seen /\ request'[r].seen[k] = targets[k]
  <2>1. PICK q : q = Idle /\ Fields(q)
    BY IdleFields
  <2>2. CASE AskPut(r)
    <3>1. PICK S \in SUBSET Keys : \E f \in [S -> Items] :
            request' = [request EXCEPT ![r] =
              [Idle EXCEPT !.pc = "asset", !.kind = "put", !.items = f, !.todo = S]]
      BY <2>2 DEF AskPut, Begin
    <3>2. PICK f \in [S -> Items] :
            request' = [request EXCEPT ![r] =
              [Idle EXCEPT !.pc = "asset", !.kind = "put", !.items = f, !.todo = S]]
      BY <3>1
    <3>3. PICK x : x = [q EXCEPT !.pc = "asset", !.kind = "put", !.items = f, !.todo = S]
      OBVIOUS
    <3>4. x = [pc |-> "asset", kind |-> "put", items |-> f, todo |-> S, key |-> q.key,
               change |-> q.change, seen |-> q.seen]
      BY <2>1, <3>3 DEF Fields
    <3>5. x.pc = "asset" /\ x.items = f /\ x.todo = S
      BY <3>4, RecordFields
    <3>6. request'[r] = x
      BY <2>1, <3>2, <3>3 DEF AInv, IInv, Shapes
    <3> QED BY <3>5, <3>6 DEF Prepared
  <2>3. CASE AskDelete(r)
    <3>1. PICK k \in Keys :
            request' = [request EXCEPT ![r] =
              [Idle EXCEPT !.pc = "remove", !.kind = "delete", !.key = k]]
      BY <2>3 DEF AskDelete, Begin
    <3>2. PICK x : x = [q EXCEPT !.pc = "remove", !.kind = "delete", !.key = k]
      OBVIOUS
    <3>3. x = [pc |-> "remove", kind |-> "delete", items |-> q.items, todo |-> q.todo,
               key |-> k, change |-> q.change, seen |-> q.seen]
      BY <2>1, <3>2 DEF Fields
    <3>4. x.pc = "remove"
      BY <3>3, RecordFields
    <3>5. request'[r] = x
      BY <2>1, <3>1, <3>2 DEF AInv, IInv, Shapes
    <3> QED BY <3>4, <3>5 DEF PutPcs
  <2>4. CASE AskTargets(r)
    <3> DEFINE seen == [k \in {j \in Keys : targets[j] # None} |-> targets[k]]
    <3>1. PICK S \in TargetSets \cup {{}} :
            request' = [request EXCEPT ![r] =
              [Idle EXCEPT !.pc = "clear", !.kind = "targets", !.todo = S, !.seen = seen]]
      BY <2>4 DEF AskTargets, Begin
    <3>2. PICK f : f = seen
      OBVIOUS
    <3>3. PICK x : x = [q EXCEPT !.pc = "clear", !.kind = "targets", !.todo = S, !.seen = f]
      OBVIOUS
    <3>4. x = [pc |-> "clear", kind |-> "targets", items |-> q.items, todo |-> S,
               key |-> q.key, change |-> q.change, seen |-> f]
      BY <2>1, <3>3 DEF Fields
    <3>5. x.pc = "clear" /\ x.seen = f
      BY <3>4, RecordFields
    <3>6. request' = [request EXCEPT ![r] = x]
      BY <2>1, <3>1, <3>2, <3>3
    <3>7. request'[r] = x
      BY <3>6 DEF AInv, IInv, Shapes
    <3> QED BY <3>2, <3>5, <3>7 DEF PutPcs
  <2> QED BY <2>2, <2>3, <2>4
<1>6. Alone(r)'
  BY <1>1, <1>4, <1>5 DEF Alone
<1> QED BY <1>3, <1>6

\* A request that has ended relies on nothing.
LEMMA AloneAtEnd ==
  ASSUME AInv, NEW r \in Requests, NEW keep \in BOOLEAN, End(r, keep) PROVE Alone(r)'
<1>1. request'[r] = [Idle EXCEPT !.pc = "done"]
  BY DEF End, AInv, IInv, Shapes
<1>2. request'[r].pc = "done"
  BY <1>1, NewRequests
<1> QED BY <1>2 DEF Alone, Busy, At

\* AInv is inductive.
LEMMA AInvStep == AInv /\ [Next]_vars => AInv'
<1> SUFFICES ASSUME AInv, [Next]_vars PROVE AInv'
  OBVIOUS
<1>1. IInv'
  BY StepInv DEF AInv
<1>2. CASE UNCHANGED vars
  BY <1>1, <1>2 DEF vars, AInv, Alone, Prepared, Busy, At
<1>3. ASSUME NEW r \in Requests, AskPut(r) \/ AskDelete(r) \/ AskTargets(r) \/ Step(r)
      PROVE  \A p \in Requests : Alone(p)'
  <2>1. CASE ~Step(r)
    BY <1>3, <2>1, AloneAtBegin
  <2>2. CASE Step(r)
    <3>1. Rollback(r) \/ CommitPut(r) \/ Remove(r) \/ Fill(r) => Alone(r)'
      BY AloneAtEnd DEF Rollback, CommitPut, Remove, Fill
    <3>2. alone[r] => Alone(r)'
      BY <2>2, <3>1, AloneAfterFindAsset, AloneAfterMakeAsset, AloneAfterFlush,
         AloneAfterReadRow, AloneAfterClear DEF Step, Deadlock
    <3> QED BY <2>2, <3>2, AloneStep
  <2> QED BY <2>1, <2>2
<1> QED BY <1>1, <1>2, <1>3 DEF Next, AInv

\* AInv holds throughout.
LEMMA AloneInvariant == Spec => []AInv
<1>1. Init => AInv
  <2> SUFFICES ASSUME Init PROVE AInv
    OBVIOUS
  <2>1. IInv
    BY InitInv
  <2>2. \A r \in Requests : ~Busy(r)
    BY NewRequests DEF Init, Busy, At
  <2> QED BY <2>1, <2>2 DEF AInv, Alone
<1> QED BY <1>1, AInvStep, PTL DEF Spec

-----------------------------------------------------------------------------
\* What differs from a row, written to the row, makes the item.
LEMMA DifferenceIsWritten ==
  ASSUME NEW item \in Item, NEW row \in Item \cup {None}
  PROVE  /\ Written(Difference(item, row), row) = item
         /\ ~Touches(Difference(item, row)) => row = item
<1>1. PICK a \in Values, b \in Values : item = [amount |-> a, price |-> b]
  BY DEF Item
<1>2. CASE row = None
  BY <1>1, <1>2 DEF Difference, Written, Touches
<1>3. CASE row # None
  <2>1. PICK c \in Values, d \in Values : row = [amount |-> c, price |-> d]
    BY <1>3 DEF Item
  <2> QED BY <1>1, <1>3, <2>1, HoldingsAssumption DEF Difference, Written, Touches
<1> QED BY <1>2, <1>3

\* The commit of a request that was alone.
LEMMA QuietCommitPut ==
  ASSUME AInv, NEW r \in Requests, alone[r], CommitPut(r)
  PROVE  balances' = [k \in Keys |-> IF k \in DOMAIN request[r].items THEN request[r].items[k]
                                     ELSE balances[k]]
<1>1. PICK q : q = request[r] /\ Shape(q) /\ q.pc = "commit" /\ q.pc \in PutPcs
  BY DEF AInv, IInv, Shapes, CommitPut, At, PutPcs
<1>2. balances' = [k \in Keys |-> IF k \in DOMAIN q.change THEN Written(q.change[k], balances[k])
                                  ELSE balances[k]]
  BY <1>1, AloneIsNotSurprised DEF CommitPut
<1>3. Prepared(q) /\ q.todo = {}
  BY <1>1 DEF AInv, Alone, Busy, At, Shape, PutShape
<1>4. ASSUME NEW k \in Keys
      PROVE  balances'[k] = IF k \in DOMAIN q.items THEN q.items[k] ELSE balances[k]
  <2>1. CASE k \in DOMAIN q.items
    <3>1. q.items[k] \in Item /\ balances[k] \in Item \cup {None}
      BY <1>1, <2>1 DEF Shape, PutShape, AInv, IInv, TypeOK
    <3>2. /\ Written(Difference(q.items[k], balances[k]), balances[k]) = q.items[k]
          /\ ~Touches(Difference(q.items[k], balances[k])) => balances[k] = q.items[k]
      BY <3>1, DifferenceIsWritten
    <3>3. CASE k \in DOMAIN q.change
      <4>1. q.change[k] = Difference(q.items[k], balances[k])
        BY <1>3, <2>1, <3>3 DEF Prepared
      <4> QED BY <1>2, <2>1, <3>2, <3>3, <4>1
    <3>4. CASE k \notin DOMAIN q.change
      <4>1. ~Touches(Difference(q.items[k], balances[k]))
        BY <1>3, <2>1, <3>4 DEF Prepared
      <4> QED BY <1>2, <2>1, <3>2, <3>4, <4>1
    <3> QED BY <3>3, <3>4
  <2>2. CASE k \notin DOMAIN q.items
    <3>1. k \notin DOMAIN q.change
      BY <1>1, <2>2 DEF Shape, PutShape
    <3> QED BY <1>2, <2>2, <3>1
  <2> QED BY <2>1, <2>2
<1> QED BY <1>1, <1>2, <1>4

\* The targets after a PUT that was alone are its payload and nothing else.
LEMMA QuietFill ==
  ASSUME AInv, NEW r \in Requests, alone[r], Fill(r)
  PROVE  \A k \in Keys : targets'[k] = IF k \in request[r].todo
                                       THEN [by |-> r, keys |-> request[r].todo] ELSE None
<1>1. /\ \A k \in Keys : targets[k] # None => taken[k] = r
      /\ request[r].todo \subseteq Keys
  BY HoldingsAssumption
  DEF AInv, Alone, Fill, At, Busy, IInv, Shapes, Shape, OtherShape
<1>2. targets' = [k \in Keys |-> IF k \in request[r].todo
                                 THEN [by |-> r, keys |-> request[r].todo]
                                 ELSE IF taken[k] = r THEN None ELSE targets[k]]
  BY <1>1, HoldingsAssumption DEF Fill
<1> QED BY <1>1, <1>2

QuietEffect(r) == Busy(r) /\ At(r, "done")' /\ alone[r] =>
  /\ request[r].kind = "put" =>
       LET items == request[r].items IN
       balances' = [k \in Keys |-> IF k \in DOMAIN items THEN items[k] ELSE balances[k]]
  /\ request[r].kind = "targets" =>
       \A k \in Keys : targets'[k] = IF k \in request[r].todo
                                      THEN [by |-> r, keys |-> request[r].todo] ELSE None

\* Every step satisfies the action property.
LEMMA QuietStep ==
  ASSUME AInv, [Next]_vars, NEW r \in Requests PROVE QuietEffect(r)
<1> SUFFICES ASSUME Busy(r), At(r, "done")', alone[r] PROVE QuietEffect(r)
  BY DEF QuietEffect
<1>1. request'[r] # request[r]
  BY DEF Busy, At
<1>2. PICK p \in Requests : AskPut(p) \/ AskDelete(p) \/ AskTargets(p) \/ Step(p)
  BY <1>1 DEF Next, vars
<1>3. p = r
  <2> SUFFICES ASSUME p # r PROVE FALSE
    OBVIOUS
  <2>1. ~Step(p)
    BY StepIsBusy DEF AInv, Alone
  <2> QED BY <1>1, <1>2, <2>1 DEF AskPut, AskDelete, AskTargets, Begin, AInv, IInv, Shapes
<1>4. Step(r)
  BY <1>2, <1>3 DEF AskPut, AskDelete, AskTargets, Begin, Busy, At
<1>5. CommitPut(r) \/ Remove(r) \/ Fill(r)
  BY <1>4, AloneAfterFindAsset, AloneAfterMakeAsset, AloneAfterFlush, AloneAfterReadRow,
     AloneAfterClear, AloneIsNotAborted DEF Step
<1>6. Shape(request[r])
  BY DEF AInv, IInv, Shapes
<1>7. CASE CommitPut(r)
  <2>1. request[r].kind = "put"
    BY <1>6, <1>7 DEF CommitPut, At, Shape, PutShape, PutPcs
  <2> QED BY <1>7, <2>1, QuietCommitPut DEF QuietEffect
<1>8. CASE Remove(r)
  <2>1. request[r].kind = "delete"
    BY <1>6, <1>8 DEF Remove, At, Shape, OtherShape
  <2> QED BY <2>1 DEF QuietEffect
<1>9. CASE Fill(r)
  <2>1. request[r].kind = "targets"
    BY <1>6, <1>9 DEF Fill, At, Shape, OtherShape
  <2> QED BY <1>9, <2>1, QuietFill DEF QuietEffect
<1> QED BY <1>5, <1>7, <1>8, <1>9

\* A PUT that is the only request while it runs is not refused, and does what
\* it says: the balances it names are its items and the others stay, or the
\* targets are its payload and nothing else.
THEOREM QuietPutsTakeEffect == Spec => QuietPutTakesEffect
<1>1. AInv /\ [Next]_vars =>
        [\A r \in Requests : Busy(r) /\ At(r, "done")' /\ alone[r] =>
           /\ request[r].kind = "put" =>
                LET items == request[r].items IN
                balances' = [k \in Keys |-> IF k \in DOMAIN items THEN items[k] ELSE balances[k]]
           /\ request[r].kind = "targets" =>
                \A k \in Keys : targets'[k] = IF k \in request[r].todo
                                THEN [by |-> r, keys |-> request[r].todo] ELSE None]_vars
  BY QuietStep DEF QuietEffect
<1> QED BY <1>1, AloneInvariant, PTL DEF Spec, QuietPutTakesEffect
=============================================================================
