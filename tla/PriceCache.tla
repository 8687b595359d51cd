----------------------------- MODULE PriceCache -----------------------------
(***************************************************************************)
(* Prices of CoinGecko, cached for the threads of the pool.  A thread first *)
(* looks at the cache without the lock, then again with it, and fetches     *)
(* while it holds it; there is one lock for all coins.  A price and the     *)
(* moment it was asked for are two variables, written one after the other.  *)
(*                                                                         *)
(* A price is told apart by the moment the provider was asked for it.      *)
(***************************************************************************)
EXTENDS Integers

CONSTANTS
  Threads,
  Coins,
  Ethereum,   \* the coin with variables of its own
  TTL,        \* PRICE_CACHE_TTL_SECONDS
  MaxTime,    \* bound on the clock, for TLC
  None        \* no price, no stamp, nobody

ASSUME PriceAssumption ==
  /\ TTL \in Nat \ {0} /\ MaxTime \in Nat
  /\ None \notin Nat /\ None \notin Threads

VARIABLES
  now,        \* monotonic()
  price,      \* ETH_USD_CACHE and NATIVE_PRICE_CACHE
  updatedAt,  \* ETH_USD_CACHE_UPDATED_AT and NATIVE_PRICE_CACHE_UPDATED_AT
  lock,       \* the thread that holds _PRICE_CACHE_LOCK
  thread      \* the local state of each thread

vars == <<now, price, updatedAt, lock, thread>>

Moments == 0..MaxTime
PCs == {"idle", "asked", "looked", "reread", "waiting", "fetching", "stamp", "done"}

\* now and cached_price are the variables of the code; start, since and
\* failed are history: when the call began, the price in the cache then, and
\* whether its fetch failed.
Thread == [pc : PCs, coin : Coins \cup {None}, now : Moments, cached : Moments \cup {None},
           start : Moments, since : Moments \cup {None}, failed : BOOLEAN]

Idle == [pc |-> "idle", coin |-> None, now |-> 0, cached |-> None,
         start |-> 0, since |-> None, failed |-> FALSE]

Init ==
  /\ now = 0
  /\ price = [c \in Coins |-> None]
  /\ updatedAt = [c \in Coins |-> None]
  /\ lock = None
  /\ thread = [t \in Threads |-> Idle]

\* _cache_is_fresh
Fresh(stamp, moment) == stamp # None /\ moment - stamp < TTL

Tick == now < MaxTime /\ now' = now + 1 /\ UNCHANGED <<price, updatedAt, lock, thread>>

\* A call begins; it reads the clock.
Ask(t) == \E c \in Coins :
  /\ thread[t].pc = "idle"
  /\ thread' = [thread EXCEPT ![t] =
       [Idle EXCEPT !.pc = "asked", !.coin = c, !.now = now, !.start = now,
                    !.since = price[c]]]
  /\ UNCHANGED <<now, price, updatedAt, lock>>

\* The first look, without the lock: the price ...
Look(t) ==
  /\ thread[t].pc = "asked"
  /\ thread' = [thread EXCEPT ![t].pc = "looked", ![t].cached = price[thread[t].coin]]
  /\ UNCHANGED <<now, price, updatedAt, lock>>

\* ... then its stamp.  For Ethereum the price is read once more.
Check(t) ==
  LET c == thread[t].coin
      fresh == thread[t].cached # None /\ Fresh(updatedAt[c], thread[t].now)
  IN
  /\ thread[t].pc = "looked"
  /\ thread' = [thread EXCEPT ![t].pc =
       IF ~fresh THEN "waiting" ELSE IF c = Ethereum THEN "reread" ELSE "done"]
  /\ UNCHANGED <<now, price, updatedAt, lock>>

Reread(t) ==
  /\ thread[t].pc = "reread"
  /\ thread' = [thread EXCEPT ![t].pc = "done", ![t].cached = price[thread[t].coin]]
  /\ UNCHANGED <<now, price, updatedAt, lock>>

\* A slip: the thread that waited does not look again.
AcquireBlindly(t) ==
  /\ thread[t].pc = "waiting" /\ lock = None
  /\ lock' = t
  /\ thread' = [thread EXCEPT ![t].pc = "fetching", ![t].now = now,
                              ![t].cached = price[thread[t].coin]]
  /\ UNCHANGED <<now, price, updatedAt>>

\* A slip: the lock is not held during the fetch.
AcquireBriefly(t) ==
  LET c == thread[t].coin  fresh == price[c] # None /\ Fresh(updatedAt[c], now) IN
  /\ thread[t].pc = "waiting" /\ lock = None
  /\ thread' = [thread EXCEPT ![t].pc = IF fresh THEN "done" ELSE "fetching",
                              ![t].now = now, ![t].cached = price[c]]
  /\ UNCHANGED <<now, price, updatedAt, lock>>

\* With the lock: the clock and the cache are read again.  A price that has
\* become fresh is the answer, and the lock is let go.
Acquire(t) ==
  LET c == thread[t].coin  fresh == price[c] # None /\ Fresh(updatedAt[c], now) IN
  /\ thread[t].pc = "waiting" /\ lock = None
  /\ thread' = [thread EXCEPT ![t].pc = IF fresh THEN "done" ELSE "fetching",
                              ![t].now = now, ![t].cached = price[c]]
  /\ lock' = IF fresh THEN None ELSE t
  /\ UNCHANGED <<now, price, updatedAt>>

\* A slip: the stamp is the time the answer came.
StampLate(t) ==
  /\ thread[t].pc = "stamp"
  /\ updatedAt' = [updatedAt EXCEPT ![thread[t].coin] = now]
  /\ lock' = None
  /\ thread' = [thread EXCEPT ![t].pc = "done"]
  /\ UNCHANGED <<now, price>>

\* A positive price arrives and is stored ...
Fetch(t) ==
  /\ thread[t].pc = "fetching"
  /\ price' = [price EXCEPT ![thread[t].coin] = thread[t].now]
  /\ thread' = [thread EXCEPT ![t].pc = "stamp", ![t].cached = thread[t].now]
  /\ UNCHANGED <<now, updatedAt, lock>>

\* ... with the time before the fetch.
Stamp(t) ==
  /\ thread[t].pc = "stamp"
  /\ updatedAt' = [updatedAt EXCEPT ![thread[t].coin] = thread[t].now]
  /\ lock' = None
  /\ thread' = [thread EXCEPT ![t].pc = "done"]
  /\ UNCHANGED <<now, price>>

\* A slip: the fetch is tried again until it succeeds, with the lock held.
FailAndTryAgain(t) ==
  /\ thread[t].pc = "fetching"
  /\ thread' = [thread EXCEPT ![t].failed = ~@]
  /\ UNCHANGED <<now, price, updatedAt, lock>>

\* The request fails, takes too long, or the price is not positive: the old
\* price is the answer, or the error is passed on if there is none.
Fail(t) ==
  /\ thread[t].pc = "fetching"
  /\ thread' = [thread EXCEPT ![t].pc = "done", ![t].failed = TRUE]
  /\ lock' = None
  /\ UNCHANGED <<now, price, updatedAt>>

\* The call is over; cached = None is an error.
Return(t) ==
  /\ thread[t].pc = "done"
  /\ thread' = [thread EXCEPT ![t] = Idle]
  /\ UNCHANGED <<now, price, updatedAt, lock>>

Step(t) == \/ Look(t) \/ Check(t) \/ Reread(t) \/ Acquire(t)
           \/ Fetch(t) \/ Stamp(t) \/ Fail(t) \/ Return(t)

Next == Tick \/ \E t \in Threads : Ask(t) \/ Step(t)

\* A thread that can go on does; the fetch ends within its timeout.  Nothing
\* is assumed of the order in which the lock is given away.
FairSpec ==
  /\ Init /\ [][Next]_vars
  /\ \A t \in Threads : WF_vars(Step(t) /\ (thread[t].pc # "waiting"))

Spec == Init /\ [][Next]_vars

-----------------------------------------------------------------------------
TypeOK ==
  /\ now \in Moments
  /\ price \in [Coins -> Moments \cup {None}]
  /\ updatedAt \in [Coins -> Moments \cup {None}]
  /\ lock \in Threads \cup {None}
  /\ thread \in [Threads -> Thread]

\* Threads that find the same price expired do not all fetch it, and a price
\* never gives way to an older one: a price that replaces another was asked
\* for at least TTL later.
FetchesSpaced == [][\A c \in Coins :
  price'[c] # price[c] /\ price[c] # None => price'[c] - price[c] >= TTL]_vars

\* What a call answers was the price in the cache at some moment of the call:
\* it is not older than the price the cache had when the call began.
AnswerWasCurrent == \A t \in Threads :
  thread[t].pc = "done" /\ thread[t].since # None =>
    /\ thread[t].cached # None
    /\ thread[t].since <= thread[t].cached /\ thread[t].cached <= price[thread[t].coin]

\* A call answers with a price that had expired when the call began only if
\* its fetch failed; or, for the coins other than Ethereum, whose price is
\* read before the stamp, if the price was replaced during the call.
ExpiredForAReason == \A t \in Threads :
  LET c == thread[t].coin  p == thread[t].cached IN
  thread[t].pc = "done" /\ p # None =>
    \/ thread[t].failed
    \/ Fresh(p, thread[t].start)
    \/ c # Ethereum /\ p < price[c]

\* The lock of all coins comes free again, whatever the provider does.
LockComesFree == \A t \in Threads : lock = t ~> lock # t
=============================================================================
