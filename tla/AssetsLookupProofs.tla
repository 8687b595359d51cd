-------------------------- MODULE AssetsLookupProofs --------------------------
(***************************************************************************)
(* Proofs about AssetsLookup, for any number of requests, tasks,           *)
(* addresses, slots and cache entries: slots are accounted for, an address *)
(* is looked up by one task at a time, and answers are current.            *)
(*                                                                         *)
(* The invariant comes in layers: the cache and the types, the slots, who  *)
(* works on which address, what is not in the cache while a task is        *)
(* waiting for its turn, and how old the results of the finished tasks     *)
(* are.                                                                    *)
(***************************************************************************)
EXTENDS AssetsLookup, SequenceTheorems, FiniteSetTheorems, TLAPS

Entries(s) == {s[i] : i \in 1..Len(s)}

OnePerAddress(s) == \A i, j \in 1..Len(s) : s[i].addr = s[j].addr => i = j

CacheOK == cache \in Seq(Entry) /\ Len(cache) <= MaxEntries /\ OnePerAddress(cache)

-----------------------------------------------------------------------------
\* What the operations do to the cache.

\* A piece of a sequence, and a sequence with a place cut out.
LEMMA Piece ==
  ASSUME NEW S, NEW s \in Seq(S), NEW m \in Nat, NEW n \in Nat, m <= n, n <= Len(s),
         NEW w, w = SubSeq(s, m + 1, n)
  PROVE  w \in Seq(S) /\ Len(w) = n - m /\ \A i \in 1..(n - m) : w[i] = s[m + i]
<1>1. Len(s) \in Nat /\ m + 1 \in Int /\ n \in Int /\ \A i \in (m + 1)..n : s[i] \in S
  BY LenProperties, ElementOfSeq
<1>2. /\ w \in Seq(S) /\ Len(w) = IF m + 1 <= n THEN n - (m + 1) + 1 ELSE 0
      /\ \A i \in 1..(n - (m + 1) + 1) : w[i] = s[(m + 1) + i - 1]
  BY <1>1, SubSeqProperties
<1>3. Len(w) = n - m
  BY <1>1, <1>2
<1>4. ASSUME NEW i \in 1..(n - m) PROVE w[i] = s[m + i]
  <2>1. i \in 1..(n - (m + 1) + 1) /\ (m + 1) + i - 1 = m + i
    BY <1>1
  <2> QED BY <1>2, <2>1
<1> QED BY <1>2, <1>3, <1>4

\* A sequence without the element at one place.
LEMMA CutOut ==
  ASSUME NEW S, NEW s \in Seq(S), NEW p \in 1..Len(s),
         NEW w, w = SubSeq(s, 1, p - 1) \o SubSeq(s, p + 1, Len(s))
  PROVE  /\ w \in Seq(S) /\ Len(w) = Len(s) - 1
         /\ \A i \in 1..(Len(s) - 1) : w[i] = IF i < p THEN s[i] ELSE s[i + 1]
<1>1. PICK n \in Nat : n = Len(s)
  BY LenProperties
<1>2. p \in Nat /\ p - 1 \in Nat /\ p <= n /\ 0 + 1 = 1
  BY <1>1
<1>3. PICK u : u = SubSeq(s, 1, p - 1)
  OBVIOUS
<1>4. PICK v : v = SubSeq(s, p + 1, n)
  OBVIOUS
<1>5. u \in Seq(S) /\ Len(u) = p - 1 /\ \A i \in 1..(p - 1) : u[i] = s[i]
  <2>1. u \in Seq(S) /\ Len(u) = p - 1 - 0 /\ \A i \in 1..(p - 1 - 0) : u[i] = s[0 + i]
    BY <1>1, <1>2, <1>3, Piece
  <2> QED BY <1>2, <2>1
<1>6. v \in Seq(S) /\ Len(v) = n - p /\ \A i \in 1..(n - p) : v[i] = s[p + i]
  BY <1>1, <1>2, <1>4, Piece
<1>7. /\ w \in Seq(S) /\ Len(w) = Len(u) + Len(v)
      /\ \A i \in 1..(Len(u) + Len(v)) : w[i] = IF i <= Len(u) THEN u[i] ELSE v[i - Len(u)]
  <2>1. w = u \o v
    BY <1>1, <1>3, <1>4
  <2>2. u \in Seq(S) /\ v \in Seq(S)
    BY <1>5, <1>6
  <2>3. /\ u \o v \in Seq(S) /\ Len(u \o v) = Len(u) + Len(v)
        /\ \A i \in 1..(Len(u) + Len(v)) : (u \o v)[i] = IF i <= Len(u) THEN u[i] ELSE v[i - Len(u)]
    BY <2>2, ConcatProperties
  <2> QED BY <2>1, <2>3
<1>8. Len(w) = n - 1
  <2>1. Len(u) = p - 1 /\ Len(v) = n - p /\ Len(w) = Len(u) + Len(v)
    BY <1>5, <1>6, <1>7
  <2>2. (p - 1) + (n - p) = n - 1
    BY <1>1, <1>2
  <2> QED BY <2>1, <2>2
<1>9. ASSUME NEW i \in 1..(n - 1) PROVE w[i] = IF i < p THEN s[i] ELSE s[i + 1]
  <2>1. w[i] = IF i <= p - 1 THEN u[i] ELSE v[i - (p - 1)]
    <3>1. Len(u) = p - 1 /\ Len(u) + Len(v) = n - 1
      BY <1>1, <1>2, <1>5, <1>6
    <3> QED BY <1>7, <3>1
  <2>2. CASE i < p
    <3>1. i \in 1..(p - 1) /\ i <= p - 1
      BY <1>2, <2>2
    <3> QED BY <1>5, <2>1, <2>2, <3>1
  <2>3. CASE ~(i < p)
    <3>1. /\ i - (p - 1) \in 1..(n - p) /\ ~(i <= p - 1)
          /\ p + (i - (p - 1)) = i + 1
      BY <1>2, <2>3
    <3> QED BY <1>6, <2>1, <2>3, <3>1
  <2> QED BY <2>2, <2>3
<1> QED BY <1>1, <1>7, <1>8, <1>9

\* Without an address the cache has no entry of it, and one entry less if it had one.
LEMMA WithoutIs ==
  ASSUME CacheOK, NEW a, NEW w, w = Without(a)
  PROVE  /\ w \in Seq(Entry) /\ Len(w) <= Len(cache) /\ OnePerAddress(w)
         /\ \A e \in Entries(w) : e \in Entries(cache) /\ e.addr # a
         /\ (\E e \in Entries(cache) : e.addr = a) => Len(w) = Len(cache) - 1
<1> DEFINE found == {i \in DOMAIN cache : cache[i].addr = a}
           p == CHOOSE i \in found : TRUE
<1>1. cache \in Seq(Entry) /\ Len(cache) \in Nat /\ DOMAIN cache = 1..Len(cache)
  BY LenProperties DEF CacheOK
<1>3. CASE found = {}
  <2>1. w = cache
    BY <1>3 DEF Without
  <2>2. \A i \in 1..Len(cache) : cache[i].addr # a
    BY <1>1, <1>3
  <2>3. \A e \in Entries(cache) : e.addr # a
    BY <2>2 DEF Entries
  <2>4. ~\E e \in Entries(cache) : e.addr = a
    BY <2>3
  <2>5. Len(w) <= Len(cache)
    BY <1>1, <2>1
  <2>6. w \in Seq(Entry) /\ OnePerAddress(w)
    BY <2>1 DEF CacheOK
  <2>7. \A e \in Entries(w) : e \in Entries(cache) /\ e.addr # a
    BY <2>1, <2>3
  <2> QED BY <2>4, <2>5, <2>6, <2>7
<1>4. CASE found # {}
  <2>1. p \in 1..Len(cache) /\ cache[p].addr = a
    BY <1>1, <1>4
  <2>2. w = SubSeq(cache, 1, p - 1) \o SubSeq(cache, p + 1, Len(cache))
    BY <1>4 DEF Without
  <2> HIDE DEF found, p
  <2>3. /\ w \in Seq(Entry) /\ Len(w) = Len(cache) - 1
        /\ \A i \in 1..(Len(cache) - 1) : w[i] = IF i < p THEN cache[i] ELSE cache[i + 1]
    BY <1>1, <2>1, <2>2, CutOut
  <2>4. OnePerAddress(w)
    BY <1>1, <2>1, <2>3 DEF OnePerAddress, CacheOK
  <2>5. \A e \in Entries(w) : e \in Entries(cache) /\ e.addr # a
    BY <1>1, <2>1, <2>3 DEF OnePerAddress, CacheOK, Entries
  <2> QED BY <1>1, <2>3, <2>4, <2>5
<1> QED BY <1>3, <1>4

\* An entry of a new address at the end keeps one entry per address.
LEMMA AppendIs ==
  ASSUME NEW s \in Seq(Entry), OnePerAddress(s), NEW e \in Entry,
         \A f \in Entries(s) : f.addr # e.addr
  PROVE  /\ Append(s, e) \in Seq(Entry) /\ Len(Append(s, e)) = Len(s) + 1
         /\ OnePerAddress(Append(s, e)) /\ Entries(Append(s, e)) = Entries(s) \cup {e}
<1>1. Len(s) \in Nat
  BY LenProperties
<1>2. PICK w : w = Append(s, e)
  OBVIOUS
<1>3. /\ w \in Seq(Entry) /\ Len(w) = Len(s) + 1
      /\ \A i \in 1..Len(s) : w[i] = s[i]
      /\ w[Len(s) + 1] = e
  BY <1>2, AppendProperties
<1>4. OnePerAddress(w)
  BY <1>1, <1>3 DEF OnePerAddress, Entries
<1>5. Entries(w) = Entries(s) \cup {e}
  <2>1. 1..Len(w) = 1..Len(s) \cup {Len(s) + 1}
    BY <1>1, <1>3
  <2> QED BY <1>1, <1>3, <2>1 DEF Entries
<1> QED BY <1>2, <1>3, <1>4, <1>5

\* The valid entry of an address is one of the entries.
LEMMA HitIs ==
  ASSUME CacheOK, NEW a
  PROVE  /\ Hit(a) # None => Hit(a) \in Entries(cache) /\ Hit(a) \in Entry
                             /\ Hit(a).addr = a /\ Fresh(Hit(a))
         /\ Hit(a) = None <=> \A e \in Entries(cache) : e.addr = a => ~Fresh(e)
<1> DEFINE found == {i \in DOMAIN cache : cache[i].addr = a /\ Fresh(cache[i])}
<1>1. DOMAIN cache = 1..Len(cache) /\ \A i \in 1..Len(cache) : cache[i] \in Entry
  BY LenProperties, ElementOfSeq DEF CacheOK
<1>2. CASE found = {}
  BY <1>1, <1>2 DEF Hit, Entries
<1>3. CASE found # {}
  <2>1. PICK i \in found : Hit(a) = cache[i]
    BY <1>3 DEF Hit
  <2> QED BY <1>1, <2>1, NothingAssumption DEF Entries
<1> QED BY <1>2, <1>3

\* A look into the cache adds nothing to it.
LEMMA GetKeeps ==
  ASSUME CacheOK, NEW a, cache' = AfterGet(a)
  PROVE  CacheOK' /\ Entries(cache)' \subseteq Entries(cache)
<1>1. CASE Hit(a) = None
  <2>1. PICK w : w = Without(a)
    OBVIOUS
  <2>2. cache' = w
    BY <1>1, <2>1 DEF AfterGet
  <2>3. /\ w \in Seq(Entry) /\ Len(w) <= Len(cache) /\ OnePerAddress(w)
        /\ \A e \in Entries(w) : e \in Entries(cache)
    BY <2>1, WithoutIs
  <2>4. Len(cache) \in Nat /\ Len(w) \in Nat
    BY <2>3, LenProperties DEF CacheOK
  <2> QED BY <2>2, <2>3, <2>4, LookupAssumption DEF CacheOK
<1>2. CASE Hit(a) # None
  <2>1. cache' = Append(Without(a), Hit(a))
    BY <1>2 DEF AfterGet
  <2>2. Hit(a) \in Entries(cache) /\ Hit(a) \in Entry /\ Hit(a).addr = a
    BY <1>2, HitIs
  <2>3. PICK s : s = Without(a)
    OBVIOUS
  <2>4. /\ s \in Seq(Entry) /\ OnePerAddress(s) /\ Len(s) = Len(cache) - 1
        /\ \A f \in Entries(s) : f \in Entries(cache) /\ f.addr # a
    BY <2>2, <2>3, WithoutIs
  <2>5. /\ Append(s, Hit(a)) \in Seq(Entry) /\ Len(Append(s, Hit(a))) = Len(s) + 1
        /\ OnePerAddress(Append(s, Hit(a)))
        /\ Entries(Append(s, Hit(a))) = Entries(s) \cup {Hit(a)}
    BY <2>2, <2>4, AppendIs
  <2>6. Len(cache) \in Nat
    BY LenProperties DEF CacheOK
  <2> QED BY <2>1, <2>2, <2>3, <2>4, <2>5, <2>6 DEF CacheOK
<1> QED BY <1>1, <1>2

\* A stored payload is the only new entry, and the cache stays within its bound.
LEMMA PutKeeps ==
  ASSUME CacheOK, now \in 0..MaxTime, NEW a \in Addresses, cache' = AfterPut(a)
  PROVE  CacheOK' /\ Entries(cache)' \subseteq Entries(cache) \cup {[addr |-> a, at |-> now]}
<1>1. PICK e \in Entry : e = [addr |-> a, at |-> now] /\ e.addr = a
  <2>1. [addr |-> a, at |-> now] \in Entry
    BY DEF Entry
  <2> QED BY <2>1
<1>2. PICK w : w = Without(a)
  OBVIOUS
<1>3. /\ w \in Seq(Entry) /\ OnePerAddress(w) /\ Len(w) <= Len(cache)
      /\ \A f \in Entries(w) : f \in Entries(cache) /\ f.addr # a
  BY <1>2, WithoutIs
<1>4. PICK s : s = Append(w, e)
  OBVIOUS
<1>5. /\ s \in Seq(Entry) /\ OnePerAddress(s) /\ Entries(s) = Entries(w) \cup {e}
  BY <1>1, <1>3, <1>4, AppendIs
<1>6. Len(s) \in Nat /\ MaxEntries \in Nat \ {0}
  BY <1>5, LenProperties, LookupAssumption
<1>7. CASE Len(s) <= MaxEntries
  <2>1. cache' = s
    BY <1>1, <1>2, <1>4, <1>6, <1>7 DEF AfterPut
  <2> QED BY <1>1, <1>3, <1>5, <1>7, <2>1 DEF CacheOK
<1>8. CASE Len(s) > MaxEntries
  <2>1. cache' = SubSeq(s, Len(s) - MaxEntries + 1, Len(s))
    BY <1>1, <1>2, <1>4, <1>6, <1>8 DEF AfterPut
  <2>2. PICK m \in Nat : m = Len(s) - MaxEntries
    BY <1>6, <1>8
  <2>3. PICK u : u = cache'
    OBVIOUS
  <2>4. u \in Seq(Entry) /\ Len(u) = Len(s) - m /\ \A i \in 1..(Len(s) - m) : u[i] = s[m + i]
    BY <1>5, <1>6, <2>1, <2>2, <2>3, Piece
  <2>5. Len(u) = MaxEntries /\ \A i \in 1..Len(u) : u[i] = s[m + i] /\ m + i \in 1..Len(s)
    BY <1>6, <2>2, <2>4
  <2>6. OnePerAddress(u)
    <3> SUFFICES ASSUME NEW i \in 1..Len(u), NEW j \in 1..Len(u), u[i].addr = u[j].addr
                 PROVE  i = j
      BY DEF OnePerAddress
    <3>1. m + i = m + j
      BY <1>5, <2>5 DEF OnePerAddress
    <3> QED BY <1>6, <2>2, <2>5, <3>1
  <2>7. Entries(u) \subseteq Entries(s)
    BY <2>5 DEF Entries
  <2> QED BY <1>1, <1>3, <1>5, <1>6, <2>3, <2>4, <2>5, <2>6, <2>7 DEF CacheOK
<1> QED BY <1>6, <1>7, <1>8

-----------------------------------------------------------------------------
\* What the actions do to the tasks.
Pcs == {"free", "created", "queued", "granted", "fetching", "done"}

\* A task goes on to another place.
LEMMA Moved ==
  ASSUME TypeOK, NEW t \in Tasks, NEW p \in Pcs, task' = [task EXCEPT ![t].pc = p]
  PROVE  /\ task' \in [Tasks -> TaskObject]
         /\ \A u \in Tasks : /\ task'[u].addr = task[u].addr /\ task'[u].result = task[u].result
                             /\ task'[u].pc = IF u = t THEN p ELSE task[u].pc
BY DEF TypeOK, TaskObject, Pcs

\* The end of a task, and that of one which hands its slot over.
LEMMA Ended ==
  ASSUME TypeOK, NEW t \in Tasks, NEW o \in Outcome, task' = Done(t, o)
  PROVE  /\ task' \in [Tasks -> TaskObject] /\ task'[t].result = o
         /\ \A u \in Tasks : /\ task'[u].addr = task[u].addr
                             /\ u # t => task'[u].result = task[u].result
                             /\ task'[u].pc = IF u = t THEN "done" ELSE task[u].pc
BY DEF TypeOK, TaskObject, Done

\* The tasks once task t is over.
LEMMA DoneIs ==
  ASSUME TypeOK, NEW t \in Tasks, NEW o \in Outcome, NEW next, next = Done(t, o)
  PROVE  /\ next \in [Tasks -> TaskObject] /\ next[t].addr = task[t].addr
         /\ next[t].pc = "done" /\ next[t].result = o
         /\ \A u \in Tasks : u # t => next[u] = task[u]
BY DEF TypeOK, TaskObject, Done

\* The same when the task hands its slot to task q, which waits for one.
LEMMA HandedOver ==
  ASSUME TypeOK, NEW t \in Tasks, NEW o \in Outcome, NEW q \in Tasks, q # t,
         task' = [Done(t, o) EXCEPT ![q].pc = "granted"]
  PROVE  /\ task' \in [Tasks -> TaskObject] /\ task'[t].result = o
         /\ \A u \in Tasks : /\ task'[u].addr = task[u].addr
                             /\ u # t => task'[u].result = task[u].result
                             /\ task'[u].pc = IF u = t THEN "done"
                                              ELSE IF u = q THEN "granted" ELSE task[u].pc
<1>1. PICK d : d = Done(t, o)
  OBVIOUS
<1>2. /\ d \in [Tasks -> TaskObject] /\ d[t].result = o
      /\ \A u \in Tasks : /\ d[u].addr = task[u].addr
                          /\ u # t => d[u].result = task[u].result
                          /\ d[u].pc = IF u = t THEN "done" ELSE task[u].pc
  BY <1>1 DEF TypeOK, TaskObject, Done
<1>3. task' = [d EXCEPT ![q].pc = "granted"]
  BY <1>1
<1>4. PICK x \in TaskObject : x = d[q]
  BY <1>2
<1>5. /\ [x EXCEPT !.pc = "granted"] \in TaskObject
      /\ [x EXCEPT !.pc = "granted"].pc = "granted"
      /\ [x EXCEPT !.pc = "granted"].addr = x.addr
      /\ [x EXCEPT !.pc = "granted"].result = x.result
  BY DEF TaskObject
<1>6. /\ task'[q] = [x EXCEPT !.pc = "granted"]
      /\ \A u \in Tasks : u # q => task'[u] = d[u]
      /\ task' = [u \in Tasks |-> task'[u]]
  BY <1>2, <1>3, <1>4
<1>7. task' \in [Tasks -> TaskObject]
  BY <1>2, <1>5, <1>6
<1>8. ASSUME NEW u \in Tasks
      PROVE  /\ task'[u].addr = task[u].addr
             /\ u # t => task'[u].result = task[u].result
             /\ task'[u].pc = IF u = t THEN "done" ELSE IF u = q THEN "granted" ELSE task[u].pc
  <2>1. CASE u = q
    BY <1>2, <1>4, <1>5, <1>6, <2>1
  <2>2. CASE u # q
    BY <1>2, <1>6, <2>2
  <2> QED BY <2>1, <2>2
<1>9. task'[t].result = o
  BY <1>2, <1>6
<1> QED BY <1>7, <1>8, <1>9

\* What the outcomes are.
LEMMA Outcomes ==
  /\ Busy \in Outcome /\ Busy.status = 429 /\ Failure \in Outcome /\ Failure.status = 500
  /\ Invalid \in Outcome /\ Invalid.status = 422
  /\ \A e \in Entry : Ok(e) \in Outcome /\ Ok(e).entry = e /\ Ok(e).status = 200
BY DEF Outcome, Busy, Failure, Invalid, Ok

\* Tasks that take, keep, give back or hand over a slot.
LEMMA SlotsKept ==
  ASSUME SlotsAccounted, free \in 0..MaxLookups, NEW t, NEW q,
         \/ Holding' = Holding /\ free' = free
         \/ Holding' = Holding \cup {t} /\ t \notin Holding /\ free' = free - 1 /\ free > 0
         \/ Holding' = Holding \ {t} /\ t \in Holding /\ free' = free + 1
         \/ Holding' = (Holding \ {t}) \cup {q} /\ t \in Holding /\ q \notin Holding /\ free' = free
  PROVE  free' \in 0..MaxLookups /\ free' + Cardinality(Holding)' = MaxLookups
<1>1. PICK H : H = Holding
  OBVIOUS
<1>2. PICK H2 : H2 = Holding'
  OBVIOUS
<1>3. IsFiniteSet(H)
  <2>1. IsFiniteSet(Tasks) /\ H \in SUBSET Tasks
    BY <1>1, LookupAssumption DEF Holding
  <2> QED BY <2>1, FS_Subset
<1>4. Cardinality(H) \in Nat /\ MaxLookups \in Nat /\ free + Cardinality(H) = MaxLookups
  BY <1>1, <1>3, FS_CardinalityType, LookupAssumption DEF SlotsAccounted
<1>5. CASE Holding' = Holding /\ free' = free
  BY <1>4, <1>5 DEF SlotsAccounted
<1>6. CASE Holding' = Holding \cup {t} /\ t \notin Holding /\ free' = free - 1 /\ free > 0
  <2>1. Cardinality(H \cup {t}) = Cardinality(H) + 1
    BY <1>1, <1>3, <1>6, FS_AddElement
  <2> QED BY <1>1, <1>4, <1>6, <2>1
<1>7. CASE Holding' = Holding \ {t} /\ t \in Holding /\ free' = free + 1
  <2>1. Cardinality(H \ {t}) = Cardinality(H) - 1
    BY <1>1, <1>3, <1>7, FS_RemoveElement
  <2>2. Cardinality(H \ {t}) \in Nat
    BY <1>3, FS_RemoveElement, FS_CardinalityType
  <2> QED BY <1>1, <1>4, <1>7, <2>1, <2>2
<1>8. CASE Holding' = (Holding \ {t}) \cup {q} /\ t \in Holding /\ q \notin Holding /\ free' = free
  <2>1. IsFiniteSet(H \ {t}) /\ Cardinality(H \ {t}) = Cardinality(H) - 1
    BY <1>1, <1>3, <1>8, FS_RemoveElement
  <2>2. Cardinality((H \ {t}) \cup {q}) = Cardinality(H \ {t}) + 1
    BY <1>1, <1>8, <2>1, FS_AddElement
  <2> QED BY <1>1, <1>4, <1>8, <2>1, <2>2
<1> QED BY <1>5, <1>6, <1>7, <1>8

\* A task goes on or ends; another one may get its slot.
Works(t) ==
  \/ Queue(t) \/ Acquire(t) \/ Resume(t) \/ QueueTimeout(t) \/ LateTimeout(t)
  \/ FetchOk(t) \/ FetchFail(t)

TasksMove(t) ==
  /\ task' \in [Tasks -> TaskObject]
  /\ \A u \in Tasks : task'[u].addr = task[u].addr
  /\ \A u \in Tasks \ {t} :
       /\ task'[u].result = task[u].result
       /\ task'[u].pc = task[u].pc \/ (task[u].pc = "queued" /\ task'[u].pc = "granted")

SlotsHeld == free \in 0..MaxLookups /\ SlotsAccounted

\* A task that ends gives its slot back or hands it over; none is lost.
LEMMA Released ==
  ASSUME TypeOK, SlotsAccounted, NEW t \in Tasks, NEW o \in Outcome,
         task[t].pc \in {"granted", "fetching"}, Release(t, o)
  PROVE  TasksMove(t) /\ task'[t].pc = "done" /\ task'[t].result = o /\ SlotsHeld'
<1>1. t \in Holding /\ t \notin Queued /\ free \in 0..MaxLookups
  BY DEF Holding, Queued, TypeOK
<1>2. CASE Queued = {} /\ free' = free + 1 /\ task' = Done(t, o)
  <2>1. /\ task' \in [Tasks -> TaskObject] /\ task'[t].result = o
        /\ \A u \in Tasks : /\ task'[u].addr = task[u].addr
                            /\ u # t => task'[u].result = task[u].result
                            /\ task'[u].pc = IF u = t THEN "done" ELSE task[u].pc
    BY <1>2, Ended
  <2>2. Holding' = Holding \ {t} /\ Queued' = {}
    BY <1>2, <2>1 DEF Holding, Queued
  <2>3. SlotsHeld'
    BY <1>1, <1>2, <2>2, SlotsKept DEF SlotsHeld, SlotsAccounted
  <2> QED BY <2>1, <2>3 DEF TasksMove
<1>3. CASE \E q \in Queued : task' = [Done(t, o) EXCEPT ![q].pc = "granted"] /\ free' = free
  <2>1. PICK q \in Queued : task' = [Done(t, o) EXCEPT ![q].pc = "granted"] /\ free' = free
    BY <1>3
  <2>2. q \in Tasks /\ q # t /\ task[q].pc = "queued" /\ q \notin Holding
    BY <1>1, <2>1 DEF Queued, Holding
  <2>3. /\ task' \in [Tasks -> TaskObject] /\ task'[t].result = o
        /\ \A u \in Tasks : /\ task'[u].addr = task[u].addr
                            /\ u # t => task'[u].result = task[u].result
                            /\ task'[u].pc = IF u = t THEN "done"
                                             ELSE IF u = q THEN "granted" ELSE task[u].pc
    BY <2>1, <2>2, HandedOver
  <2>4. Holding' = (Holding \ {t}) \cup {q} /\ q \in Granted'
    BY <2>2, <2>3 DEF Holding, Granted
  <2>5. free' \in 0..MaxLookups /\ free' + Cardinality(Holding)' = MaxLookups
    BY <1>1, <2>1, <2>2, <2>4, SlotsKept
  <2>6. SlotsHeld'
    BY <2>4, <2>5 DEF SlotsHeld, SlotsAccounted
  <2> QED BY <2>2, <2>3, <2>6 DEF TasksMove
<1> QED BY <1>2, <1>3 DEF Release

\* A task that leaves the queue hands on some of the n free slots: none is left, or
\* nobody waits, or somebody was handed a slot and has not run yet.
LEMMA HandsOn ==
  ASSUME TypeOK, NEW t \in Tasks, NEW n \in Nat, NEW next \in [Tasks -> TaskObject],
         next[t].addr = task[t].addr, next[t].pc \in {"fetching", "done"},
         \A u \in Tasks : u # t => next[u] = task[u],
         NEW keep, keep = {u \in Tasks : next[u].pc \in {"granted", "fetching"}},
         n + Cardinality(keep) = MaxLookups,
         HandOut(n, Queued \ {t}, next)
  PROVE  TasksMove(t) /\ task'[t] = next[t] /\ SlotsHeld'
<1>1. PICK w \in SUBSET (Queued \ {t}) :
        /\ Cardinality(w) <= n
        /\ w # {} \/ n = 0 \/ Queued \ {t} = {} \/ \E u \in Tasks : next[u].pc = "granted"
        /\ free' = n - Cardinality(w)
        /\ task' = [u \in Tasks |-> IF u \in w THEN [next[u] EXCEPT !.pc = "granted"] ELSE next[u]]
  BY DEF HandOut
<1>2. ASSUME NEW u \in w
      PROVE  /\ u \in Tasks /\ u # t /\ task[u].pc = "queued" /\ task'[u] \in TaskObject
             /\ task'[u].pc = "granted" /\ task'[u].addr = task[u].addr
             /\ task'[u].result = task[u].result
  <2>1. u \in Tasks /\ u # t /\ task[u].pc = "queued"
    BY <1>1 DEF Queued
  <2>2. PICK x \in TaskObject : x = next[u] /\ x = task[u]
    BY <2>1
  <2>3. task'[u] = [x EXCEPT !.pc = "granted"]
    BY <1>1, <2>1, <2>2
  <2> QED BY <2>1, <2>2, <2>3 DEF TaskObject
<1>3. \A u \in Tasks \ w : task'[u] = next[u]
  BY <1>1
<1>4. task' \in [Tasks -> TaskObject]
  <2>1. \A u \in Tasks : task'[u] \in TaskObject
    BY <1>2, <1>3
  <2>2. task' = [u \in Tasks |-> task'[u]]
    BY <1>1
  <2> QED BY <2>1, <2>2
<1>5. TasksMove(t) /\ task'[t] = next[t]
  <2>1. t \notin w
    BY <1>1
  <2> QED BY <1>2, <1>3, <1>4, <2>1 DEF TasksMove
<1>6. IsFiniteSet(keep) /\ IsFiniteSet(w) /\ keep \cap w = {}
  <2>1. IsFiniteSet(Tasks) /\ keep \in SUBSET Tasks /\ w \in SUBSET Tasks
    BY <1>2, LookupAssumption
  <2>2. keep \cap w = {}
    BY <1>2
  <2> QED BY <2>1, <2>2, FS_Subset
<1>7. Holding' = keep \cup w
  BY <1>2, <1>3 DEF Holding
<1>8. Cardinality(keep \cup w) = Cardinality(keep) + Cardinality(w)
  <2>1. Cardinality(keep \cup w) = Cardinality(keep) + Cardinality(w) - Cardinality(keep \cap w)
    BY <1>6, FS_Union
  <2>2. Cardinality(keep) \in Nat /\ Cardinality(w) \in Nat /\ Cardinality(keep \cap w) = 0
    BY <1>6, FS_CardinalityType, FS_EmptySet
  <2> QED BY <2>1, <2>2
<1>9. free' \in 0..MaxLookups /\ free' + Cardinality(Holding)' = MaxLookups
  <2>1. Cardinality(keep) \in Nat /\ Cardinality(w) \in Nat /\ MaxLookups \in Nat
    BY <1>6, FS_CardinalityType, LookupAssumption
  <2>2. Cardinality(Holding)' = Cardinality(keep) + Cardinality(w)
    BY <1>7, <1>8
  <2> QED BY <1>1, <2>1, <2>2
<1>10. Queued' # {} /\ free' > 0 => Granted' # {}
  <2>1. Queued' = (Queued \ {t}) \ w
    BY <1>2, <1>3 DEF Queued
  <2>2. w \subseteq Granted'
    BY <1>2 DEF Granted
  <2>3. ASSUME NEW u \in Tasks, next[u].pc = "granted" PROVE u \in Granted'
    BY <1>2, <1>3, <2>3 DEF Granted
  <2>4. n = 0 => free' = 0
    <3>1. Cardinality(w) \in Nat
      BY <1>6, FS_CardinalityType
    <3> QED BY <1>1, <3>1
  <2> QED BY <1>1, <2>1, <2>2, <2>3, <2>4
<1> QED BY <1>5, <1>9, <1>10 DEF SlotsHeld, SlotsAccounted

\* What a step of a task does: it queues, begins to fetch, or ends with an outcome
\* of its own, and only a fetch that ended well has an entry.
LEMMA WorkEffect ==
  ASSUME TypeOK, SlotsAccounted, NEW t \in Tasks, Works(t),
         task[t].pc # "free" => task[t].addr \in Addresses
  PROVE  /\ UNCHANGED <<now, inflight, request>> /\ TasksMove(t) /\ SlotsHeld'
         /\ task[t].pc \in {"created", "queued", "granted", "fetching"}
         /\ \/ task'[t].pc = "queued" /\ task[t].pc = "created"
            \/ task'[t].pc = "fetching"
            \/ /\ task'[t].pc = "done" /\ task'[t].result \in Outcome
               /\ \/ task'[t].result.status # 200
                  \/ /\ FetchOk(t)
                     /\ task'[t].result.entry = [addr |-> task[t].addr, at |-> now]
                     /\ task'[t].result.entry \in Entry
<1>1. free \in 0..MaxLookups /\ task[t].pc \in Pcs
  BY DEF TypeOK, TaskObject, Pcs
<1>2. CASE Queue(t)
  <2>1. task[t].pc = "created" /\ task' = [task EXCEPT ![t].pc = "queued"] /\ free' = free
    BY <1>2 DEF Queue
  <2>2. TasksMove(t) /\ task'[t].pc = "queued" /\ Holding' = Holding /\ Granted' = Granted
    <3>1. /\ task' \in [Tasks -> TaskObject]
          /\ \A u \in Tasks : /\ task'[u].addr = task[u].addr /\ task'[u].result = task[u].result
                              /\ task'[u].pc = IF u = t THEN "queued" ELSE task[u].pc
      <4>1. "queued" \in Pcs
        BY DEF Pcs
      <4> QED BY <2>1, <4>1, Moved
    <3> QED BY <2>1, <3>1 DEF TasksMove, Holding, Granted
  <2>3. free > 0 => Granted # {}
    BY <1>2 DEF Queue, Locked, SlotsAccounted
  <2>4. SlotsHeld'
    BY <1>1, <2>1, <2>2, <2>3 DEF SlotsHeld, SlotsAccounted
  <2> QED BY <1>2, <2>1, <2>2, <2>4 DEF Queue
<1>3. CASE Acquire(t)
  <2>1. /\ task[t].pc = "created" /\ task' = [task EXCEPT ![t].pc = "fetching"]
        /\ free > 0 /\ Queued = {} /\ free' = free - 1
    BY <1>1, <1>3 DEF Acquire, Locked
  <2>2. /\ TasksMove(t) /\ task'[t].pc = "fetching"
        /\ Holding' = Holding \cup {t} /\ t \notin Holding /\ Queued' = {}
    <3>1. /\ task' \in [Tasks -> TaskObject]
          /\ \A u \in Tasks : /\ task'[u].addr = task[u].addr /\ task'[u].result = task[u].result
                              /\ task'[u].pc = IF u = t THEN "fetching" ELSE task[u].pc
      <4>1. "fetching" \in Pcs
        BY DEF Pcs
      <4> QED BY <2>1, <4>1, Moved
    <3> QED BY <2>1, <3>1 DEF TasksMove, Holding, Queued
  <2>3. SlotsHeld'
    BY <1>1, <2>1, <2>2, SlotsKept DEF SlotsHeld, SlotsAccounted
  <2> QED BY <1>3, <2>1, <2>2, <2>3 DEF Acquire
<1>4. CASE Resume(t)
  <2>1. task[t].pc = "granted" /\ HandOut(free, Queued, [task EXCEPT ![t].pc = "fetching"])
    BY <1>4 DEF Resume
  <2>2. PICK next : next = [task EXCEPT ![t].pc = "fetching"]
    OBVIOUS
  <2>3. /\ next \in [Tasks -> TaskObject] /\ next[t].addr = task[t].addr
        /\ next[t].pc = "fetching" /\ \A u \in Tasks : u # t => next[u] = task[u]
    BY <2>2 DEF TypeOK, TaskObject
  <2>4. Holding = {u \in Tasks : next[u].pc \in {"granted", "fetching"}} /\ Queued = Queued \ {t}
    BY <2>1, <2>3 DEF Holding, Queued
  <2>5. TasksMove(t) /\ task'[t] = next[t] /\ SlotsHeld'
    <3>1. free \in Nat /\ free + Cardinality(Holding) = MaxLookups
      BY <1>1 DEF SlotsAccounted
    <3>2. HandOut(free, Queued \ {t}, next)
      BY <2>1, <2>2, <2>4
    <3> QED BY <2>3, <2>4, <3>1, <3>2, HandsOn
  <2> QED BY <1>4, <2>1, <2>3, <2>5 DEF Resume
<1>5. CASE QueueTimeout(t)
  <2>1. task[t].pc = "queued" /\ HandOut(free, Queued \ {t}, Done(t, Busy))
    BY <1>5 DEF QueueTimeout
  <2>2. PICK next : next = Done(t, Busy)
    OBVIOUS
  <2>3. /\ next \in [Tasks -> TaskObject] /\ next[t].addr = task[t].addr
        /\ next[t].pc = "done" /\ next[t].result = Busy /\ \A u \in Tasks : u # t => next[u] = task[u]
    BY <2>2, DoneIs, Outcomes
  <2>4. Holding = {u \in Tasks : next[u].pc \in {"granted", "fetching"}}
    BY <2>1, <2>3 DEF Holding
  <2>5. TasksMove(t) /\ task'[t] = next[t] /\ SlotsHeld'
    <3>1. free \in Nat /\ free + Cardinality(Holding) = MaxLookups
      BY <1>1 DEF SlotsAccounted
    <3> QED BY <2>1, <2>2, <2>3, <2>4, <3>1, HandsOn
  <2> QED BY <1>5, <2>1, <2>3, <2>5, Outcomes DEF QueueTimeout
<1>6. CASE LateTimeout(t)
  <2>1. task[t].pc = "granted" /\ HandOut(free + 1, Queued, Done(t, Busy))
    BY <1>6 DEF LateTimeout
  <2>2. PICK next : next = Done(t, Busy)
    OBVIOUS
  <2>3. /\ next \in [Tasks -> TaskObject] /\ next[t].addr = task[t].addr
        /\ next[t].pc = "done" /\ next[t].result = Busy /\ \A u \in Tasks : u # t => next[u] = task[u]
    BY <2>2, DoneIs, Outcomes
  <2>4. /\ Holding \ {t} = {u \in Tasks : next[u].pc \in {"granted", "fetching"}}
        /\ Queued = Queued \ {t} /\ t \in Holding
    BY <2>1, <2>3 DEF Holding, Queued
  <2>5. TasksMove(t) /\ task'[t] = next[t] /\ SlotsHeld'
    <3>1. IsFiniteSet(Holding)
      <4>1. IsFiniteSet(Tasks) /\ Holding \in SUBSET Tasks
        BY LookupAssumption DEF Holding
      <4> QED BY <4>1, FS_Subset
    <3>2. /\ Cardinality(Holding \ {t}) = Cardinality(Holding) - 1
          /\ Cardinality(Holding) \in Nat
      BY <2>4, <3>1, FS_RemoveElement, FS_CardinalityType
    <3>3. free + 1 \in Nat /\ (free + 1) + Cardinality(Holding \ {t}) = MaxLookups
      <4>1. free + Cardinality(Holding) = MaxLookups
        BY DEF SlotsAccounted
      <4> QED BY <1>1, <3>2, <4>1
    <3>4. HandOut(free + 1, Queued \ {t}, next)
      BY <2>1, <2>2, <2>4
    <3> QED BY <2>3, <2>4, <3>3, <3>4, HandsOn
  <2> QED BY <1>6, <2>1, <2>3, <2>5, Outcomes DEF LateTimeout
<1>7. CASE FetchFail(t)
  <2>1. task[t].pc = "fetching" /\ Release(t, Failure)
    BY <1>7 DEF FetchFail
  <2>2. TasksMove(t) /\ task'[t].pc = "done" /\ task'[t].result = Failure /\ SlotsHeld'
    BY <2>1, Released, Outcomes
  <2> QED BY <1>7, <2>1, <2>2, Outcomes DEF FetchFail
<1>8. CASE FetchOk(t)
  <2>1. PICK e \in Entry : e = [addr |-> task[t].addr, at |-> now]
    <3>1. task[t].addr \in Addresses /\ now \in 0..MaxTime
      BY <1>8 DEF FetchOk, TypeOK
    <3>2. [addr |-> task[t].addr, at |-> now] \in Entry
      BY <3>1 DEF Entry
    <3> QED BY <3>2
  <2>2. task[t].pc = "fetching" /\ Release(t, Ok(e))
    BY <1>8, <2>1 DEF FetchOk
  <2>3. Ok(e) \in Outcome /\ Ok(e).entry = e
    BY Outcomes
  <2>4. TasksMove(t) /\ task'[t].pc = "done" /\ task'[t].result = Ok(e) /\ SlotsHeld'
    BY <2>2, <2>3, Released
  <2> QED BY <1>8, <2>1, <2>2, <2>3, <2>4 DEF FetchOk
<1> QED BY <1>2, <1>3, <1>4, <1>5, <1>6, <1>7, <1>8 DEF Works

-----------------------------------------------------------------------------
\* Who works on what: a task that is under way is the one registered for its
\* address, and a request waits for a task of its own address.
Working(t) == task[t].pc # "free" =>
  task[t].addr \in Addresses /\ (task[t].pc # "done" => inflight[task[t].addr] = t)

Registered(a) == inflight[a] # None =>
  task[inflight[a]].pc # "free" /\ task[inflight[a]].addr = a

Waits(r) == request[r].pc = "waiting" =>
  /\ request[r].on \in Tasks
  /\ task[request[r].on].pc # "free" /\ task[request[r].on].addr = request[r].key

\* A task that waits for its turn finds nothing that is fresh; the result of a
\* task that is over is as old as that, and answers were fresh when asked for.
Uncached(t) == task[t].pc \in {"created", "queued", "granted"} =>
  \A e \in Entries(cache) : e.addr = task[t].addr => ~Fresh(e)

Result(t) == task[t].pc = "done" =>
  /\ task[t].result \in Outcome
  /\ task[t].result.status = 200 => /\ task[t].result.entry \in Entry
                                    /\ task[t].result.entry.addr = task[t].addr
                                    /\ task[t].result.entry.at = now

Answer(q) ==
  /\ q.asked <= now
  /\ q.pc = "answered" /\ q.answer.status = 200 =>
       q.answer.entry.addr = q.key /\ q.asked - q.answer.entry.at < TTL

IInv ==
  /\ TypeOK /\ CacheOK /\ SlotsAccounted
  /\ \A t \in Tasks : Working(t) /\ Uncached(t) /\ Result(t)
  /\ \A a \in Addresses : Registered(a)
  /\ \A r \in Requests : Waits(r) /\ Answer(request[r])

\* A request takes a step, and the cache loses entries at most.
LEMMA RequestMoves ==
  ASSUME IInv, NEW r \in Requests, NEW x \in RequestState,
         request' = [request EXCEPT ![r] = x], UNCHANGED <<now, free, inflight, task>>,
         CacheOK', Entries(cache)' \subseteq Entries(cache),
         x.pc = "waiting" => /\ x.on \in Tasks
                             /\ task[x.on].pc # "free" /\ task[x.on].addr = x.key,
         Answer(x)
  PROVE  IInv'
<1>1. request' \in [Requests -> RequestState] /\ request'[r] = x
      /\ \A p \in Requests : p # r => request'[p] = request[p]
  BY DEF IInv, TypeOK
<1>2. TypeOK'
  BY <1>1 DEF IInv, TypeOK, CacheOK
<1>3. SlotsAccounted'
  BY DEF IInv, SlotsAccounted, Holding, Queued, Granted
<1>4. \A t \in Tasks : Working(t)' /\ Uncached(t)' /\ Result(t)'
  BY DEF IInv, Working, Uncached, Result, Fresh
<1>5. \A a \in Addresses : Registered(a)'
  BY DEF IInv, Registered
<1>6. \A p \in Requests : Waits(p)'
  BY <1>1 DEF IInv, Waits
<1>7. \A p \in Requests : Answer(request[p])'
  BY <1>1 DEF IInv, Answer
<1> QED BY <1>2, <1>3, <1>4, <1>5, <1>6, <1>7 DEF IInv

\* A malformed address is answered at once.
LEMMA RejectStep == ASSUME IInv, NEW r \in Requests, Reject(r) PROVE IInv'
<1>1. PICK x : x = [pc |-> "answered", key |-> None, asked |-> now, on |-> None, answer |-> Invalid]
  OBVIOUS
<1>2. /\ x \in RequestState /\ x.pc = "answered" /\ x.asked = now /\ x.answer = Invalid
      /\ now \in 0..MaxTime /\ MaxTime \in Nat
  BY <1>1, Outcomes, LookupAssumption DEF RequestState, IInv, TypeOK
<1>3. Answer(x)
  BY <1>2, Outcomes DEF Answer
<1>4. request' = [request EXCEPT ![r] = x] /\ UNCHANGED <<now, free, inflight, task, cache>>
  BY <1>1 DEF Reject, AnswerNow
<1>5. CacheOK'
  BY <1>4 DEF IInv, CacheOK
<1> QED BY <1>2, <1>3, <1>4, <1>5, RequestMoves

\* A hit is fresh when it is asked for.
LEMMA AskCachedStep == ASSUME IInv, NEW r \in Requests, AskCached(r) PROVE IInv'
<1>1. PICK a \in Addresses :
        /\ Hit(a) # None /\ cache' = AfterGet(a)
        /\ AnswerNow(r, a, Ok(Hit(a))) /\ UNCHANGED <<now, free, inflight, task>>
  BY LookupAssumption DEF AskCached
<1>2. PICK e \in Entry : e = Hit(a) /\ e.addr = a /\ Fresh(e)
  BY <1>1, HitIs DEF IInv
<1>3. PICK x : x = [pc |-> "answered", key |-> a, asked |-> now, on |-> None, answer |-> Ok(e)]
  OBVIOUS
<1>4. /\ x \in RequestState /\ x.pc = "answered" /\ x.key = a /\ x.asked = now /\ x.answer = Ok(e)
      /\ now \in 0..MaxTime /\ MaxTime \in Nat
  BY <1>3, Outcomes, LookupAssumption DEF RequestState, IInv, TypeOK
<1>5. Answer(x)
  BY <1>2, <1>4, Outcomes DEF Answer, Fresh
<1>6. request' = [request EXCEPT ![r] = x]
  BY <1>1, <1>2, <1>3 DEF AnswerNow
<1>7. CacheOK' /\ Entries(cache)' \subseteq Entries(cache)
  BY <1>1, GetKeeps DEF IInv
<1> QED BY <1>1, <1>4, <1>5, <1>6, <1>7, RequestMoves

\* A request that joins a task waits for the task of its address.
LEMMA AskSharedStep == ASSUME IInv, NEW r \in Requests, AskShared(r) PROVE IInv'
<1>1. PICK a \in Addresses :
        /\ inflight[a] # None /\ cache' = AfterGet(a)
        /\ WaitFor(r, a, inflight[a]) /\ UNCHANGED <<now, free, inflight, task>>
  BY LookupAssumption DEF AskShared
<1>2. PICK t \in Tasks : t = inflight[a] /\ task[t].pc # "free" /\ task[t].addr = a
  BY <1>1 DEF IInv, TypeOK, Registered
<1>3. PICK x : x = [pc |-> "waiting", key |-> a, asked |-> now, on |-> t, answer |-> None]
  OBVIOUS
<1>4. /\ x \in RequestState /\ x.pc = "waiting" /\ x.key = a /\ x.asked = now /\ x.on = t
      /\ now \in 0..MaxTime /\ MaxTime \in Nat
  BY <1>3, LookupAssumption DEF RequestState, IInv, TypeOK
<1>5. Answer(x)
  BY <1>4 DEF Answer
<1>6. request' = [request EXCEPT ![r] = x]
  BY <1>1, <1>2, <1>3 DEF WaitFor
<1>7. CacheOK' /\ Entries(cache)' \subseteq Entries(cache)
  BY <1>1, GetKeeps DEF IInv
<1> QED BY <1>1, <1>2, <1>4, <1>5, <1>6, <1>7, RequestMoves

\* A client that goes away leaves the task alone.
LEMMA GoneStep == ASSUME IInv, NEW r \in Requests, Cancel(r) \/ Leave(r) PROVE IInv'
<1>1. PICK x : x = NoRequest
  OBVIOUS
<1>2. /\ x \in RequestState /\ x.pc = "new" /\ x.asked = 0
      /\ now \in 0..MaxTime /\ MaxTime \in Nat
  BY <1>1, LookupAssumption DEF RequestState, NoRequest, IInv, TypeOK
<1>3. Answer(x)
  BY <1>2 DEF Answer
<1>4. request' = [request EXCEPT ![r] = x] /\ UNCHANGED <<now, free, inflight, task, cache>>
  BY <1>1 DEF Cancel, Leave
<1>5. CacheOK'
  BY <1>4 DEF IInv, CacheOK
<1> QED BY <1>2, <1>3, <1>4, <1>5, RequestMoves

\* A task is created for an address that has none, and no request waits for a
\* task object that is not in use.
LEMMA AskFirstStep == ASSUME IInv, NEW r \in Requests, AskFirst(r) PROVE IInv'
<1>1. PICK a \in Addresses, t \in Tasks :
        /\ Hit(a) = None /\ inflight[a] = None /\ task[t].pc = "free"
        /\ cache' = AfterGet(a)
        /\ task' = [task EXCEPT ![t] = [NoTask EXCEPT !.pc = "created", !.addr = a]]
        /\ inflight' = [inflight EXCEPT ![a] = t]
        /\ WaitFor(r, a, t) /\ UNCHANGED <<now, free>>
  BY LookupAssumption DEF AskFirst
<1>2. PICK x : x = [pc |-> "waiting", key |-> a, asked |-> now, on |-> t, answer |-> None]
  OBVIOUS
<1>3. /\ x \in RequestState /\ x.pc = "waiting" /\ x.key = a /\ x.asked = now /\ x.on = t
      /\ now \in 0..MaxTime /\ MaxTime \in Nat
  BY <1>2, LookupAssumption DEF RequestState, IInv, TypeOK
<1>4. /\ request' \in [Requests -> RequestState] /\ request'[r] = x
      /\ \A p \in Requests : p # r => request'[p] = request[p]
  BY <1>1, <1>2, <1>3 DEF WaitFor, IInv, TypeOK
<1>5. PICK y : y = [NoTask EXCEPT !.pc = "created", !.addr = a]
  OBVIOUS
<1>6. y \in TaskObject /\ y.pc = "created" /\ y.addr = a
  BY <1>5 DEF NoTask, TaskObject
<1>7. /\ task' \in [Tasks -> TaskObject] /\ task'[t] = y
      /\ \A u \in Tasks : u # t => task'[u] = task[u]
  BY <1>1, <1>5, <1>6 DEF IInv, TypeOK
<1>8. /\ inflight' \in [Addresses -> Tasks \cup {None}] /\ inflight'[a] = t
      /\ \A b \in Addresses : b # a => inflight'[b] = inflight[b]
  BY <1>1 DEF IInv, TypeOK
<1>9. CacheOK' /\ Entries(cache)' \subseteq Entries(cache)
  BY <1>1, GetKeeps DEF IInv
<1>10. TypeOK'
  BY <1>1, <1>4, <1>7, <1>8, <1>9 DEF IInv, TypeOK, CacheOK
<1>11. SlotsAccounted'
  <2>1. Holding' = Holding /\ Queued' = Queued /\ Granted' = Granted
    BY <1>1, <1>6, <1>7 DEF Holding, Queued, Granted
  <2> QED BY <1>1, <2>1 DEF IInv, SlotsAccounted
<1>12. ASSUME NEW u \in Tasks PROVE Working(u)' /\ Uncached(u)' /\ Result(u)'
  <2>1. CASE u = t
    <3>1. \A e \in Entries(cache) : e.addr = a => ~Fresh(e)
      BY <1>1, HitIs DEF IInv
    <3> QED BY <1>1, <1>6, <1>7, <1>8, <1>9, <2>1, <3>1 DEF Working, Uncached, Result, Fresh
  <2>2. CASE u # t
    <3>1. task'[u] = task[u] /\ Working(u) /\ Uncached(u) /\ Result(u)
      BY <1>7, <2>2 DEF IInv
    <3>2. Working(u)'
      BY <1>1, <1>8, <3>1, LookupAssumption DEF Working
    <3> QED BY <1>1, <1>9, <3>1, <3>2 DEF Uncached, Result, Fresh
  <2> QED BY <2>1, <2>2
<1>13. ASSUME NEW b \in Addresses PROVE Registered(b)'
  <2>1. CASE b = a
    BY <1>6, <1>7, <1>8, <2>1 DEF Registered
  <2>2. CASE b # a
    BY <1>1, <1>7, <1>8, <2>2 DEF IInv, TypeOK, Registered
  <2> QED BY <2>1, <2>2
<1>14. ASSUME NEW p \in Requests PROVE Waits(p)' /\ Answer(request[p])'
  <2>1. CASE p = r
    BY <1>1, <1>3, <1>4, <1>6, <1>7, <2>1 DEF Waits, Answer
  <2>2. CASE p # r
    <3>1. Waits(p) /\ Answer(request[p]) /\ request'[p] = request[p]
      BY <1>4, <2>2 DEF IInv
    <3> QED BY <1>1, <1>7, <3>1 DEF Waits, Answer
  <2> QED BY <2>1, <2>2
<1> QED BY <1>9, <1>10, <1>11, <1>12, <1>13, <1>14 DEF IInv

\* The cache while a task works: only a fetch adds an entry, of its address.
LEMMA WorkCache ==
  ASSUME IInv, NEW t \in Tasks, Works(t)
  PROVE  /\ CacheOK'
         /\ \A e \in Entries(cache') :
              e \in Entries(cache) \/ (task[t].pc = "fetching" /\ e.addr = task[t].addr)
<1>1. CASE Queue(t) \/ QueueTimeout(t) \/ LateTimeout(t) \/ FetchFail(t)
  <2>1. UNCHANGED cache
    BY <1>1 DEF Queue, QueueTimeout, LateTimeout, FetchFail
  <2> QED BY <2>1 DEF IInv, CacheOK
<1>2. CASE Acquire(t) \/ Resume(t)
  <2>1. cache' = AfterGet(task[t].addr)
    BY <1>2 DEF Acquire, Resume
  <2> QED BY <2>1, GetKeeps DEF IInv
<1>3. CASE FetchOk(t)
  <2>1. cache' = AfterPut(task[t].addr) /\ task[t].pc = "fetching"
    BY <1>3 DEF FetchOk
  <2>2. task[t].addr \in Addresses /\ now \in 0..MaxTime
    BY <2>1 DEF IInv, Working, TypeOK
  <2>3. CacheOK' /\ Entries(cache)' \subseteq Entries(cache) \cup {[addr |-> task[t].addr, at |-> now]}
    BY <2>1, <2>2, PutKeeps DEF IInv
  <2> QED BY <2>1, <2>3
<1> QED BY <1>1, <1>2, <1>3 DEF Works

\* A task works for the address it is registered for: no other one stores an
\* entry of that address, and its own is of this moment.
LEMMA WorkStep == ASSUME IInv, NEW t \in Tasks, Works(t) PROVE IInv'
<1>1. /\ UNCHANGED <<now, inflight, request>> /\ TasksMove(t) /\ SlotsHeld'
      /\ task[t].pc \in {"created", "queued", "granted", "fetching"}
      /\ \/ task'[t].pc = "queued" /\ task[t].pc = "created"
         \/ task'[t].pc = "fetching"
         \/ /\ task'[t].pc = "done" /\ task'[t].result \in Outcome
            /\ \/ task'[t].result.status # 200
               \/ /\ task'[t].result.entry = [addr |-> task[t].addr, at |-> now]
                  /\ task'[t].result.entry \in Entry
  BY WorkEffect DEF IInv, Working
<1>2. /\ CacheOK'
      /\ \A e \in Entries(cache') :
           e \in Entries(cache) \/ (task[t].pc = "fetching" /\ e.addr = task[t].addr)
  BY WorkCache
<1>3. TypeOK' /\ SlotsAccounted'
  BY <1>1, <1>2 DEF IInv, TypeOK, TasksMove, SlotsHeld, CacheOK
<1>4. \A u \in Tasks : Working(u)'
  BY <1>1 DEF IInv, Working, TasksMove
<1>5. ASSUME NEW u \in Tasks PROVE Uncached(u)'
  <2> SUFFICES ASSUME task'[u].pc \in {"created", "queued", "granted"},
                      NEW e \in Entries(cache'), e.addr = task[u].addr
               PROVE  ~Fresh(e)'
    BY <1>1 DEF Uncached, TasksMove
  <2>1. task[u].pc \in {"created", "queued", "granted"}
    BY <1>1 DEF TasksMove
  <2>2. e \in Entries(cache)
    <3> SUFFICES ASSUME task[t].pc = "fetching", e.addr = task[t].addr PROVE FALSE
      BY <1>2
    <3>1. u # t
      BY <2>1
    <3> QED BY <2>1, <3>1 DEF IInv, Working
  <2> QED BY <1>1, <2>1, <2>2 DEF IInv, Uncached, Fresh
<1>6. ASSUME NEW u \in Tasks PROVE Result(u)'
  <2>1. CASE u = t
    BY <1>1, <2>1 DEF Result, TasksMove
  <2>2. CASE u # t
    BY <1>1, <2>2 DEF IInv, Result, TasksMove
  <2> QED BY <2>1, <2>2
<1>7. \A a \in Addresses : Registered(a)'
  BY <1>1 DEF IInv, TypeOK, Registered, TasksMove
<1>8. \A r \in Requests : Waits(r)' /\ Answer(request[r])'
  BY <1>1 DEF IInv, Waits, Answer, TasksMove
<1> QED BY <1>2, <1>3, <1>4, <1>5, <1>6, <1>7, <1>8 DEF IInv

\* The requests that wait for a task get its result before the clock goes on.
LEMMA FinishStep == ASSUME IInv, NEW t \in Tasks, Finish(t) PROVE IInv'
<1>1. /\ task[t].pc = "done" /\ UNCHANGED <<now, cache, free>>
      /\ inflight' = [a \in Addresses |-> IF inflight[a] = t THEN None ELSE inflight[a]]
      /\ request' = Answered(t) /\ task' = [task EXCEPT ![t] = NoTask]
  BY DEF Finish
<1>2. PICK o \in Outcome : o = task[t].result
  BY <1>1 DEF IInv, Result
<1>3. PICK y : y = NoTask /\ y \in TaskObject /\ y.pc = "free"
  <2>1. NoTask \in TaskObject /\ NoTask.pc = "free"
    BY DEF NoTask, TaskObject
  <2> QED BY <2>1
<1>4. /\ task' \in [Tasks -> TaskObject] /\ task'[t] = y
      /\ \A u \in Tasks : u # t => task'[u] = task[u]
  BY <1>1, <1>3 DEF IInv, TypeOK
<1>5. /\ inflight' \in [Addresses -> Tasks \cup {None}]
      /\ \A a \in Addresses : inflight'[a] = IF inflight[a] = t THEN None ELSE inflight[a]
  BY <1>1 DEF IInv, TypeOK
<1>6. ASSUME NEW r \in Requests
      PROVE  /\ request'[r] \in RequestState
             /\ \/ request'[r] = request[r] /\ ~(request[r].pc = "waiting" /\ request[r].on = t)
                \/ /\ request[r].pc = "waiting" /\ request[r].on = t
                   /\ request'[r].pc = "answered" /\ request'[r].key = request[r].key
                   /\ request'[r].asked = request[r].asked /\ request'[r].answer = o
  <2>1. PICK q \in RequestState : q = request[r]
    BY DEF IInv, TypeOK
  <2>2. CASE q.pc = "waiting" /\ q.on = t
    <3>1. request'[r] = [q EXCEPT !.pc = "answered", !.on = None, !.answer = o]
      BY <1>1, <1>2, <2>1, <2>2 DEF Answered
    <3> QED BY <2>1, <2>2, <3>1 DEF RequestState
  <2>3. CASE ~(q.pc = "waiting" /\ q.on = t)
    <3>1. request'[r] = q
      BY <1>1, <2>1, <2>3 DEF Answered
    <3> QED BY <2>1, <2>3, <3>1
  <2> QED BY <2>2, <2>3
<1>7. request' \in [Requests -> RequestState]
  BY <1>1, <1>6 DEF Answered
<1>8. TypeOK' /\ CacheOK'
  BY <1>1, <1>4, <1>5, <1>7 DEF IInv, TypeOK, CacheOK
<1>9. SlotsAccounted'
  <2>1. Holding' = Holding /\ Queued' = Queued /\ Granted' = Granted
    BY <1>1, <1>3, <1>4 DEF Holding, Queued, Granted
  <2> QED BY <1>1, <2>1 DEF IInv, SlotsAccounted
<1>10. ASSUME NEW u \in Tasks PROVE Working(u)' /\ Uncached(u)' /\ Result(u)'
  <2>1. CASE u = t
    BY <1>3, <1>4, <2>1 DEF Working, Uncached, Result
  <2>2. CASE u # t
    <3>1. task'[u] = task[u] /\ Working(u) /\ Uncached(u) /\ Result(u)
      BY <1>4, <2>2 DEF IInv
    <3> QED BY <1>1, <1>5, <2>2, <3>1 DEF Working, Uncached, Result, Fresh
  <2> QED BY <2>1, <2>2
<1>11. \A a \in Addresses : Registered(a)'
  BY <1>4, <1>5 DEF IInv, TypeOK, Registered
<1>12. ASSUME NEW r \in Requests PROVE Waits(r)' /\ Answer(request[r])'
  <2>1. Waits(r) /\ Answer(request[r])
    BY DEF IInv
  <2>2. CASE request'[r] = request[r] /\ ~(request[r].pc = "waiting" /\ request[r].on = t)
    BY <1>1, <1>4, <2>1, <2>2 DEF Waits, Answer
  <2>3. CASE /\ request[r].pc = "waiting" /\ request[r].on = t
             /\ request'[r].pc = "answered" /\ request'[r].key = request[r].key
             /\ request'[r].asked = request[r].asked /\ request'[r].answer = o
    <3>1. Waits(r)'
      BY <2>3 DEF Waits
    <3>2. request[r].asked \in 0..MaxTime /\ now \in 0..MaxTime /\ MaxTime \in Nat /\ TTL \in Nat \ {0}
      BY LookupAssumption DEF IInv, TypeOK, RequestState
    <3>3. o.status = 200 =>
            o.entry.addr = request[r].key /\ request[r].asked - o.entry.at < TTL
      BY <1>1, <1>2, <2>1, <2>3, <3>2 DEF IInv, Result, Waits, Answer
    <3> QED BY <1>1, <2>1, <2>3, <3>1, <3>3 DEF Answer
  <2> QED BY <1>6, <2>2, <2>3
<1> QED BY <1>8, <1>9, <1>10, <1>11, <1>12 DEF IInv

\* Time passes only while no result waits to be given out.
LEMMA TickStep == ASSUME IInv, Tick PROVE IInv'
<1>1. /\ now' = now + 1 /\ now \in Nat /\ now' \in 0..MaxTime
      /\ UNCHANGED <<cache, free, inflight, task, request>>
      /\ \A t \in Tasks : task[t].pc # "done"
  BY LookupAssumption DEF Tick, IInv, TypeOK
<1>2. TypeOK' /\ CacheOK' /\ SlotsAccounted'
  BY <1>1 DEF IInv, TypeOK, CacheOK, SlotsAccounted, Holding, Queued, Granted
<1>3. ASSUME NEW t \in Tasks PROVE Uncached(t)'
  <2> SUFFICES ASSUME task[t].pc \in {"created", "queued", "granted"},
                      NEW e \in Entries(cache), e.addr = task[t].addr
               PROVE  ~Fresh(e)'
    BY <1>1 DEF Uncached
  <2>1. ~(now - e.at < TTL)
    BY DEF IInv, Uncached, Fresh
  <2>2. e.at \in Int /\ TTL \in Nat
    <3>1. e \in Entry
      BY ElementOfSeq DEF IInv, CacheOK, Entries
    <3> QED BY <3>1, LookupAssumption DEF Entry
  <2> QED BY <1>1, <2>1, <2>2 DEF Fresh
<1>4. \A t \in Tasks : Working(t)' /\ Result(t)'
  BY <1>1 DEF IInv, Working, Result
<1>5. \A a \in Addresses : Registered(a)'
  BY <1>1 DEF IInv, Registered
<1>6. ASSUME NEW r \in Requests PROVE Waits(r)' /\ Answer(request[r])'
  <2>1. request[r].asked \in Nat
    BY LookupAssumption DEF IInv, TypeOK, RequestState
  <2> QED BY <1>1, <2>1 DEF IInv, Waits, Answer
<1> QED BY <1>2, <1>3, <1>4, <1>5, <1>6 DEF IInv

\* Nothing is cached, asked or under way at first.
LEMMA InitInv == Init => IInv
<1> SUFFICES ASSUME Init PROVE IInv
  OBVIOUS
<1>1. NoTask \in TaskObject /\ NoTask.pc = "free"
  BY DEF NoTask, TaskObject
<1>2. NoRequest \in RequestState /\ NoRequest.pc = "new" /\ NoRequest.asked = 0
  BY LookupAssumption DEF NoRequest, RequestState
<1>3. <<>> \in Seq(Entry) /\ Len(<<>>) = 0
  BY EmptySeq
<1>4. TypeOK
  BY <1>1, <1>2, <1>3, LookupAssumption DEF Init, TypeOK
<1>5. CacheOK
  BY <1>3, LookupAssumption DEF Init, CacheOK, OnePerAddress
<1>6. SlotsAccounted
  <2>1. Holding = {} /\ Queued = {}
    BY <1>1 DEF Init, Holding, Queued
  <2> QED BY <2>1, FS_EmptySet, LookupAssumption DEF Init, SlotsAccounted
<1> QED BY <1>1, <1>2, <1>4, <1>5, <1>6
        DEF Init, IInv, Working, Uncached, Result, Registered, Waits, Answer

\* IInv is inductive.
LEMMA StepInv == IInv /\ [Next]_vars => IInv'
<1> SUFFICES ASSUME IInv, [Next]_vars PROVE IInv'
  OBVIOUS
<1>1. CASE UNCHANGED vars
  BY <1>1 DEF vars, IInv, TypeOK, CacheOK, SlotsAccounted, Holding, Queued, Granted, Working, Uncached,
              Fresh, Result, Registered, Waits, Answer
<1>2. CASE \E r \in Requests : RequestStep(r)
  BY <1>2, RejectStep, AskCachedStep, AskSharedStep, AskFirstStep, GoneStep DEF RequestStep
<1>3. CASE \E t \in Tasks : TaskStep(t)
  BY <1>3, WorkStep, FinishStep DEF TaskStep, Works
<1>4. CASE Tick
  BY <1>4, TickStep
<1> QED BY <1>1, <1>2, <1>3, <1>4 DEF Next

\* The invariant holds throughout.
LEMMA Invariant == Spec => []IInv
<1> QED BY InitInv, StepInv, PTL DEF Spec

\* Types; the cache never grows beyond ASSETS_CACHE_MAX_ENTRIES, and an address
\* has one entry at most.
THEOREM TypeCorrect == Spec => [](TypeOK /\ CacheOK)
<1>1. IInv => TypeOK /\ CacheOK
  BY DEF IInv
<1> QED BY <1>1, Invariant, PTL

\* No slot of the semaphore is leaked or handed out twice, whatever times out,
\* and a slot is free beside a queue only while a task that was handed another
\* slot has not run yet.
THEOREM SlotsAreAccounted == Spec => []SlotsAccounted
<1>1. IInv => SlotsAccounted
  BY DEF IInv
<1> QED BY <1>1, Invariant, PTL

\* An address is looked up by one task at a time, and requests wait for the
\* task of their address.
THEOREM FlightsAreSingle == Spec => []SingleFlight
<1>1. IInv => SingleFlight
  BY DEF IInv, Working, Waits, SingleFlight
<1> QED BY <1>1, Invariant, PTL

\* The second look into the cache, before a task fetches, finds nothing.
THEOREM NothingIsCached == Spec => []NothingCached
<1>1. IInv => NothingCached
  BY HitIs DEF IInv, Uncached, NothingCached
<1> QED BY <1>1, Invariant, PTL

\* The payload of a 200 answer is that of the address, and was not yet out of
\* date when the client asked.
THEOREM AnswersStayCurrent == Spec => []AnswersAreCurrent
<1>1. IInv => AnswersAreCurrent
  BY DEF IInv, Answer, AnswersAreCurrent
<1> QED BY <1>1, Invariant, PTL
=============================================================================
