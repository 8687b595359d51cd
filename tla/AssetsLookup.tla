---------------------------- MODULE AssetsLookup ----------------------------
(***************************************************************************)
(* The live assets lookup (lookup_live_assets): a small LRU cache with a   *)
(* time to live, one shared task per address (single flight), and a        *)
(* semaphore that limits the lookups which talk to the chains at once.     *)
(*                                                                         *)
(* Everything runs on one asyncio event loop, so the code between two      *)
(* awaits is one action.  Requests await the task behind asyncio.shield    *)
(* and may be cancelled by their clients.  Time is an integer clock.       *)
(***************************************************************************)
EXTENDS Integers, FiniteSets, Sequences

CONSTANTS
  Requests,    \* requests that may be under way at once
  Tasks,       \* task objects that may exist at once
  Addresses,   \* cache keys: lower-case EVM addresses
  Spellings,   \* what a client may send
  KeyOf,       \* the cache key of a spelling, None if it is no EVM address
  TTL,         \* ASSETS_CACHE_TTL_SECONDS
  MaxEntries,  \* ASSETS_CACHE_MAX_ENTRIES
  MaxLookups,  \* ASSETS_MAX_CONCURRENT_LOOKUPS
  MaxTime,     \* bound on the clock, for TLC
  None

ASSUME LookupAssumption ==
  /\ TTL \in Nat \ {0} /\ MaxEntries \in Nat \ {0} /\ MaxLookups \in Nat \ {0}
  /\ MaxTime \in Nat /\ IsFiniteSet(Tasks)
  /\ KeyOf \in [Spellings -> Addresses \cup {None}]
  /\ None \notin Addresses \cup Tasks \cup Spellings \cup Int

VARIABLES
  now,       \* monotonic()
  cache,     \* _assets_cache: entries from the least to the most recently used
  free,      \* value of the semaphore _assets_lookup_slots
  inflight,  \* _assets_inflight: the task under each key, or None
  task,      \* the state of every task object
  request    \* the state of every request

vars == <<now, cache, free, inflight, task, request>>

Entry == [addr : Addresses, at : 0..MaxTime]

\* What is none of them.
ASSUME NothingAssumption == None \notin Entry

\* Outcome of a task or answer to a request; a 200 carries the entry that was
\* served: whose payload it is and when it was cached.
Busy == [status |-> 429, entry |-> None]
Failure == [status |-> 500, entry |-> None]
Invalid == [status |-> 422, entry |-> None]
Ok(e) == [status |-> 200, entry |-> e]

NoTask == [pc |-> "free", addr |-> None, result |-> None]
NoRequest == [pc |-> "new", key |-> None, asked |-> 0, on |-> None, answer |-> None]

\* A slip: an entry is served whatever its age.
FreshAtAnyAge(e) == now >= e.at

\* An entry is served until it is TTL old.
Fresh(e) == now - e.at < TTL

\* The valid entry of an address, or None.
Hit(a) == LET found == {i \in DOMAIN cache : cache[i].addr = a /\ Fresh(cache[i])}
          IN IF found = {} THEN None ELSE cache[CHOOSE i \in found : TRUE]

\* The cache without an address, which has one entry at most.
Without(a) ==
  LET found == {i \in DOMAIN cache : cache[i].addr = a}
      p == CHOOSE i \in found : TRUE
  IN IF found = {} THEN cache ELSE SubSeq(cache, 1, p - 1) \o SubSeq(cache, p + 1, Len(cache))

\* _get_cached_assets: a hit becomes the most recently used entry, a stale
\* entry is dropped.
AfterGet(a) == IF Hit(a) = None THEN Without(a) ELSE Append(Without(a), Hit(a))

\* _cache_assets: the least recently used entries make room.
AfterPut(a) ==
  LET s == Append(Without(a), [addr |-> a, at |-> now])
  IN IF Len(s) > MaxEntries THEN SubSeq(s, Len(s) - MaxEntries + 1, Len(s)) ELSE s

\* Tasks that were handed a slot in the queue and did not run since, tasks that
\* hold a slot, and tasks that wait for one.
Granted == {t \in Tasks : task[t].pc = "granted"}
Holding == {t \in Tasks : task[t].pc \in {"granted", "fetching"}}
Queued == {t \in Tasks : task[t].pc = "queued"}

-----------------------------------------------------------------------------
Init ==
  /\ now = 0
  /\ cache = <<>>
  /\ free = MaxLookups
  /\ inflight = [a \in Addresses |-> None]
  /\ task = [t \in Tasks |-> NoTask]
  /\ request = [r \in Requests |-> NoRequest]

\* Request r is answered at once, or made to wait for task t.
AnswerNow(r, a, o) ==
  request' = [request EXCEPT ![r] = [pc |-> "answered", key |-> a, asked |-> now,
                                     on |-> None, answer |-> o]]
WaitFor(r, a, t) ==
  request' = [request EXCEPT ![r] = [pc |-> "waiting", key |-> a, asked |-> now,
                                     on |-> t, answer |-> None]]

\* GET /assets with something that is no EVM address.
Reject(r) ==
  /\ request[r].pc = "new"
  /\ \E s \in Spellings : KeyOf[s] = None
  /\ AnswerNow(r, None, Invalid)
  /\ UNCHANGED <<now, cache, free, inflight, task>>

\* GET /assets for an address that is in the cache.
AskCached(r) ==
  /\ request[r].pc = "new"
  /\ \E s \in Spellings :
       LET a == KeyOf[s] IN
       /\ a # None
       /\ Hit(a) # None
       /\ cache' = AfterGet(a)
       /\ AnswerNow(r, a, Ok(Hit(a)))
  /\ UNCHANGED <<now, free, inflight, task>>

\* GET /assets for another address: wait for the task of the address.
AskShared(r) ==
  /\ request[r].pc = "new"
  /\ \E s \in Spellings :
       LET a == KeyOf[s] IN
       /\ a # None
       /\ Hit(a) = None
       /\ inflight[a] # None
       /\ cache' = AfterGet(a)
       /\ WaitFor(r, a, inflight[a])
  /\ UNCHANGED <<now, free, inflight, task>>

\* ... which is created if there is none (in a task object nothing refers to).
AskFirst(r) ==
  /\ request[r].pc = "new"
  /\ \E s \in Spellings, t \in Tasks :
       LET a == KeyOf[s] IN
       /\ a # None
       /\ Hit(a) = None
       /\ inflight[a] = None
       /\ task[t].pc = "free"
       /\ cache' = AfterGet(a)
       /\ task' = [task EXCEPT ![t] = [NoTask EXCEPT !.pc = "created", !.addr = a]]
       /\ inflight' = [inflight EXCEPT ![a] = t]
       /\ WaitFor(r, a, t)
  /\ UNCHANGED <<now, free>>

Done(t, o) == [task EXCEPT ![t].pc = "done", ![t].result = o]

\* asyncio.Semaphore.release: task t ends with outcome o and gives its slot
\* back, to one queued task if there is one (which one is left open).
Release(t, o) ==
  \/ /\ Queued = {}
     /\ free' = free + 1
     /\ task' = Done(t, o)
  \/ \E q \in Queued :
       /\ task' = [Done(t, o) EXCEPT ![q].pc = "granted"]
       /\ UNCHANGED free

\* The end of a wait for the semaphore: of the n free slots some go to tasks that
\* still wait, one at least unless somebody else was handed one before, and the
\* others are as in next.  (Which and how many depends on the version of Python.)
HandOut(n, waiting, next) ==
  \E w \in SUBSET waiting :
    /\ Cardinality(w) <= n
    /\ w # {} \/ n = 0 \/ waiting = {} \/ \E u \in Tasks : next[u].pc = "granted"
    /\ free' = n - Cardinality(w)
    /\ task' = [u \in Tasks |-> IF u \in w THEN [next[u] EXCEPT !.pc = "granted"] ELSE next[u]]

\* The semaphore is locked: no slot is free, or somebody is in its queue; a
\* task that was handed a slot leaves the queue only when it runs.
Locked == free = 0 \/ Queued # {} \/ Granted # {}

\* The task runs for the first time and finds the semaphore locked.
Queue(t) ==
  /\ task[t].pc = "created"
  /\ Locked
  /\ task' = [task EXCEPT ![t].pc = "queued"]
  /\ UNCHANGED <<now, cache, free, inflight, request>>

\* The task runs for the first time and takes a free slot, and looks into the
\* cache once more before it fetches.  On one event loop it finds nothing:
\* NothingCached says so, and leaves the second hit out of the model.
Acquire(t) ==
  /\ task[t].pc = "created"
  /\ ~Locked
  /\ free' = free - 1
  /\ cache' = AfterGet(task[t].addr)
  /\ task' = [task EXCEPT ![t].pc = "fetching"]
  /\ UNCHANGED <<now, inflight, request>>

\* The task runs again with the slot it was handed in the queue.
Resume(t) ==
  /\ task[t].pc = "granted"
  /\ cache' = AfterGet(task[t].addr)
  /\ HandOut(free, Queued, [task EXCEPT ![t].pc = "fetching"])
  /\ UNCHANGED <<now, inflight, request>>

\* A slip: the finally clause covers the wait for the slot as well, and gives
\* back a slot the task never had.
TimeoutReleases(t) ==
  /\ task[t].pc = "queued"
  /\ HandOut(free + 1, Queued \ {t}, Done(t, Busy))
  /\ UNCHANGED <<now, cache, inflight, request>>

\* asyncio.timeout fires in the queue, ...
QueueTimeout(t) ==
  /\ task[t].pc = "queued"
  /\ HandOut(free, Queued \ {t}, Done(t, Busy))
  /\ UNCHANGED <<now, cache, inflight, request>>

\* ... or after a slot was handed over and before the task ran again: the
\* semaphore takes the slot back.
LateTimeout(t) ==
  /\ task[t].pc = "granted"
  /\ HandOut(free + 1, Queued, Done(t, Busy))
  /\ UNCHANGED <<now, cache, inflight, request>>

\* summarize_all returns from the thread pool, and its payload is cached ...
FetchOk(t) ==
  /\ task[t].pc = "fetching"
  /\ cache' = AfterPut(task[t].addr)
  /\ Release(t, Ok([addr |-> task[t].addr, at |-> now]))
  /\ UNCHANGED <<now, inflight, request>>

\* ... or it raises, and nothing is cached.
FetchFail(t) ==
  /\ task[t].pc = "fetching"
  /\ Release(t, Failure)
  /\ UNCHANGED <<now, cache, inflight, request>>

\* A slip: one request takes the result of the task, and the others are lost.
AnsweredOne(t) ==
  LET waiting == {r \in Requests : request[r].pc = "waiting" /\ request[r].on = t}
  IN [r \in Requests |->
        IF r \in waiting /\ r = (CHOOSE w \in waiting : TRUE)
        THEN [request[r] EXCEPT !.pc = "answered", !.on = None, !.answer = task[t].result]
        ELSE request[r]]

\* All that await task t get its outcome.
Answered(t) ==
  [r \in Requests |->
     IF request[r].pc = "waiting" /\ request[r].on = t
     THEN [request[r] EXCEPT !.pc = "answered", !.on = None, !.answer = task[t].result]
     ELSE request[r]]

\* A slip: the address is forgotten as soon as its task fetches, so that later
\* requests start a task of their own.
FinishEarly(t) ==
  /\ task[t].pc \in {"fetching", "done"}
  /\ inflight' = [a \in Addresses |-> IF inflight[a] = t THEN None ELSE inflight[a]]
  /\ IF task[t].pc = "done"
     THEN request' = Answered(t) /\ task' = [task EXCEPT ![t] = NoTask]
     ELSE UNCHANGED <<request, task>>
  /\ UNCHANGED <<now, cache, free>>

\* The callbacks of a finished task run: _finish_assets_lookup, and those of
\* the requests that await it, among them the ones that joined after its end.
Finish(t) ==
  /\ task[t].pc = "done"
  /\ inflight' = [a \in Addresses |-> IF inflight[a] = t THEN None ELSE inflight[a]]
  /\ request' = Answered(t)
  /\ task' = [task EXCEPT ![t] = NoTask]
  /\ UNCHANGED <<now, cache, free>>

\* The client goes away; asyncio.shield keeps the task running.
Cancel(r) ==
  /\ request[r].pc = "waiting"
  /\ request' = [request EXCEPT ![r] = NoRequest]
  /\ UNCHANGED <<now, cache, free, inflight, task>>

\* The answer is delivered and the next client may ask.
Leave(r) ==
  /\ request[r].pc = "answered"
  /\ request' = [request EXCEPT ![r] = NoRequest]
  /\ UNCHANGED <<now, cache, free, inflight, task>>

\* Time passes.  The callbacks of a finished task are already scheduled: they
\* run in the next iteration of the loop, before the clock moves on.
Tick ==
  /\ now < MaxTime
  /\ \A t \in Tasks : task[t].pc # "done"
  /\ now' = now + 1
  /\ UNCHANGED <<cache, free, inflight, task, request>>

RequestStep(r) ==
  Reject(r) \/ AskCached(r) \/ AskShared(r) \/ AskFirst(r) \/ Cancel(r) \/ Leave(r)

TaskStep(t) ==
  \/ Queue(t) \/ Acquire(t) \/ Resume(t) \/ QueueTimeout(t) \/ LateTimeout(t)
  \/ FetchOk(t) \/ FetchFail(t) \/ Finish(t)

Next == (\E r \in Requests : RequestStep(r)) \/ (\E t \in Tasks : TaskStep(t)) \/ Tick

Spec == Init /\ [][Next]_vars

\* The loop runs its tasks, timeouts fire, and summarize_all returns, since its
\* HTTP calls have timeouts.  Clients owe nothing.
FairSpec == Spec /\ \A t \in Tasks : WF_vars(TaskStep(t))

-----------------------------------------------------------------------------
(***************************************************************************)
(* Properties                                                              *)
(***************************************************************************)
Outcome == {Busy, Failure, Invalid} \cup [status : {200}, entry : Entry]

TaskObject == [pc : {"free", "created", "queued", "granted", "fetching", "done"},
               addr : Addresses \cup {None}, result : Outcome \cup {None}]
RequestState == [pc : {"new", "waiting", "answered"}, key : Addresses \cup {None},
                 asked : 0..MaxTime, on : Tasks \cup {None}, answer : Outcome \cup {None}]

\* Types.
TypeOK ==
  /\ now \in 0..MaxTime
  /\ cache \in Seq(Entry)
  /\ free \in 0..MaxLookups
  /\ inflight \in [Addresses -> Tasks \cup {None}]
  /\ task \in [Tasks -> TaskObject]
  /\ request \in [Requests -> RequestState]

\* Slots are neither leaked nor handed out twice, whatever times out between
\* a grant and the next step of the task it was granted to.  No wake-up is
\* lost: a task is in the queue while a slot is free only as long as another
\* one that was handed a slot did not run yet, which then hands on the rest.
SlotsAccounted ==
  /\ free + Cardinality(Holding) = MaxLookups
  /\ Queued # {} /\ free > 0 => Granted # {}

\* One address is looked up by at most one task at a time, the one its
\* requests share.
SingleFlight ==
  /\ \A t \in Tasks : task[t].pc \notin {"free", "done"} => inflight[task[t].addr] = t
  /\ \A r \in Requests : request[r].pc = "waiting" =>
       /\ task[request[r].on].pc # "free"
       /\ task[request[r].on].addr = request[r].key

\* A task that is about to fetch finds nothing in the cache: the second look
\* is for other event loops only.
NothingCached == \A t \in Tasks : task[t].pc \in {"created", "queued", "granted"} =>
                   Hit(task[t].addr) = None

\* A 200 answer is for the address that was asked, and its payload was not
\* yet out of date when the client asked, also when it joined a task that
\* was already under way or already over.
AnswersAreCurrent ==
  \A r \in Requests :
    request[r].pc = "answered" /\ request[r].answer.status = 200 =>
      /\ request[r].answer.entry.addr = request[r].key
      /\ request[r].asked - request[r].answer.entry.at < TTL

\* Every request is answered, unless its client goes away.
RequestsEnd == \A r \in Requests : request[r].pc = "waiting" ~> request[r].pc # "waiting"
=============================================================================
