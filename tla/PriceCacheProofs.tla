-------------------------- MODULE PriceCacheProofs --------------------------
(***************************************************************************)
(* Proofs about PriceCache, for any number of threads and coins: fetches   *)
(* of one coin are at least the time to live apart, an answer was in the   *)
(* cache during the call, and an expired one has a reason.                 *)
(*                                                                         *)
(* The invariant says who may be between the two writes of a price and its *)
(* stamp, and what a thread still knows of the cache it has looked at.     *)
(***************************************************************************)
EXTENDS PriceCache, TLAPS

\* Whoever is fetching, or has stored a price without its stamp, has the lock.
Locked == \A t \in Threads : thread[t].pc \in {"fetching", "stamp"} <=> lock = t

\* A price is not from the future.  Its stamp is the same moment, except while
\* a thread is between the two writes: then it is that of the price before.
Stamped == \A c \in Coins :
  /\ price[c] # None => price[c] <= now
  /\ updatedAt[c] # None => price[c] # None /\ updatedAt[c] <= price[c]
  /\ updatedAt[c] # price[c] => \E t \in Threads : thread[t].pc = "stamp" /\ thread[t].coin = c

\* The clock as a thread has read it: first when the call began.
ClockRead(x) ==
  x.pc # "idle" =>
    /\ x.coin \in Coins
    /\ x.start <= x.now /\ x.now <= now
    /\ x.pc \in {"asked", "looked", "reread"} => x.now = x.start

\* The price in the cache when the call began may have been replaced since.
SinceKnown(x) ==
  x.pc # "idle" /\ x.since # None =>
    /\ price[x.coin] # None /\ x.since <= price[x.coin]

\* What a thread has read of the cache is between the price at the beginning
\* of the call and the price now.
CachedKnown(x) ==
  x.pc \in {"looked", "fetching", "stamp", "done"} =>
    /\ x.since # None => x.cached # None /\ x.since <= x.cached
    /\ x.cached # None => price[x.coin] # None /\ x.cached <= price[x.coin]

\* A thread that is about to read the price of Ethereum again has seen a fresh
\* stamp, and whatever price it reads is at least as new.
RereadKnown(x) ==
  x.pc = "reread" =>
    /\ x.coin = Ethereum
    /\ price[x.coin] # None /\ Fresh(price[x.coin], x.start)

\* A thread that is fetching found the price it still sees expired.
FetchKnown(x) ==
  /\ x.pc = "fetching" => /\ x.cached = price[x.coin]
                          /\ price[x.coin] # None => x.now - price[x.coin] >= TTL
  /\ x.pc = "stamp" => price[x.coin] = x.now /\ x.cached = x.now

\* An answer that had expired has its reason.
AnswerKnown(x) ==
  x.pc = "done" /\ x.cached # None =>
    \/ x.failed
    \/ Fresh(x.cached, x.start)
    \/ x.coin # Ethereum /\ x.cached < price[x.coin]

Knows(x) ==
  /\ ClockRead(x) /\ SinceKnown(x) /\ CachedKnown(x)
  /\ RereadKnown(x) /\ FetchKnown(x) /\ AnswerKnown(x)

Known == \A t \in Threads : Knows(thread[t])

IInv == TypeOK /\ Locked /\ Stamped /\ Known

-----------------------------------------------------------------------------
\* What a moment is, and that nothing is none of them.
LEMMA Moment ==
  /\ None \notin Moments /\ Moments \subseteq Nat
  /\ \A m, n \in Moments : (Fresh(m, n) <=> n - m < TTL) /\ ~Fresh(None, n)
BY PriceAssumption DEF Moments, Fresh

\* A step after which no price is older than before.
Grown ==
  /\ now <= now'
  /\ \A c \in Coins : price[c] # None => price'[c] # None /\ price[c] <= price'[c]

\* What a thread knows stays true while prices are replaced by newer ones, if
\* they are not replaced while it fetches itself.
LEMMA KnowsKept ==
  ASSUME TypeOK, TypeOK', Grown, NEW x \in Thread, Knows(x),
         x.pc \in {"fetching", "stamp"} => UNCHANGED price
  PROVE  Knows(x)'
<1> USE PriceAssumption
<1>1. CASE x.pc = "idle"
  BY <1>1 DEF Knows, ClockRead, SinceKnown, CachedKnown, RereadKnown, FetchKnown, AnswerKnown
<1>2. CASE x.pc # "idle"
  <2>1. x.coin \in Coins
    BY <1>2 DEF Knows, ClockRead
  <2>2. PICK p \in Nat \cup {None}, q \in Nat \cup {None} :
          p = price[x.coin] /\ q = price'[x.coin]
    <3>1. price[x.coin] \in Nat \cup {None} /\ price'[x.coin] \in Nat \cup {None}
      BY <2>1 DEF TypeOK, Moments
    <3> QED BY <3>1
  <2>3. p # None => q # None /\ p <= q
    BY <2>1, <2>2 DEF Grown
  <2>4. /\ x.start \in Nat /\ x.now \in Nat
        /\ x.cached \in Nat \cup {None} /\ x.since \in Nat \cup {None}
    BY DEF Thread, Moments
  <2>5. now \in Nat /\ now' \in Nat /\ now <= now'
    BY DEF TypeOK, Grown, Moments
  <2>6. ClockRead(x)'
    BY <2>4, <2>5 DEF Knows, ClockRead
  <2>7. SinceKnown(x)' /\ CachedKnown(x)'
    BY <2>2, <2>3, <2>4 DEF Knows, SinceKnown, CachedKnown
  <2>8. RereadKnown(x)'
    BY <2>2, <2>3, <2>4 DEF Knows, RereadKnown, Fresh
  <2>9. FetchKnown(x)'
    BY DEF Knows, FetchKnown
  <2>10. AnswerKnown(x)'
    <3> SUFFICES ASSUME x.pc = "done", x.cached # None PROVE AnswerKnown(x)'
      BY DEF AnswerKnown
    <3>1. p # None /\ x.cached <= p
      BY <2>2 DEF Knows, CachedKnown
    <3> QED
      BY <2>2, <2>3, <2>4, <3>1 DEF Knows, AnswerKnown, Fresh
  <2> QED BY <2>6, <2>7, <2>8, <2>9, <2>10 DEF Knows
<1> QED BY <1>1, <1>2

\* The same for all threads, when thread t alone takes a step; prices change
\* only if it has the lock.
LEMMA KnownKept ==
  ASSUME IInv, TypeOK', Grown, NEW t \in Threads, NEW x \in Thread,
         thread' = [thread EXCEPT ![t] = x], lock = t \/ UNCHANGED price, Knows(x)'
  PROVE  Known'
<1> SUFFICES ASSUME NEW y \in Threads PROVE Knows(thread[y])'
  BY DEF Known
<1>1. CASE y = t
  <2>1. thread'[y] = x
    BY <1>1 DEF IInv, TypeOK
  <2> QED
    BY <2>1 DEF Knows, ClockRead, SinceKnown, CachedKnown, RereadKnown, FetchKnown, AnswerKnown
<1>2. CASE y # t
  <2>1. PICK z \in Thread : z = thread[y]
    BY DEF IInv, TypeOK
  <2>2. thread'[y] = z
    BY <1>2, <2>1 DEF IInv, TypeOK
  <2>3. Knows(z)
    BY <2>1 DEF IInv, Known
  <2>4. z.pc \in {"fetching", "stamp"} => UNCHANGED price
    BY <1>2, <2>1 DEF IInv, Locked
  <2>5. Knows(z)'
    BY <2>3, <2>4, KnowsKept DEF IInv
  <2> QED
    BY <2>2, <2>5 DEF Knows, ClockRead, SinceKnown, CachedKnown, RereadKnown, FetchKnown,
                      AnswerKnown
<1> QED BY <1>1, <1>2

-----------------------------------------------------------------------------
\* Before any thread has asked, the invariant holds.
LEMMA InitInv == Init => IInv
<1> SUFFICES ASSUME Init PROVE IInv
  OBVIOUS
<1>1. TypeOK
  BY PriceAssumption DEF Init, TypeOK, Idle, Thread, PCs, Moments
<1>2. Locked /\ Stamped
  BY PriceAssumption DEF Init, Locked, Stamped, Idle
<1>3. Known
  BY DEF Init, Known, Knows, ClockRead, SinceKnown, CachedKnown, RereadKnown, FetchKnown,
         AnswerKnown, Idle
<1> QED BY <1>1, <1>2, <1>3 DEF IInv

\* A step of thread t that leaves the cache and the lock alone.
LEMMA LocalStep ==
  ASSUME IInv, NEW t \in Threads, NEW x \in Thread, thread' = [thread EXCEPT ![t] = x],
         UNCHANGED <<now, price, updatedAt, lock>>, Knows(x),
         thread[t].pc \notin {"fetching", "stamp"}, x.pc \notin {"fetching", "stamp"}
  PROVE  IInv'
<1>1. TypeOK'
  BY DEF IInv, TypeOK
<1>2. Locked'
  BY DEF IInv, TypeOK, Locked
<1>3. Stamped'
  BY DEF IInv, TypeOK, Stamped
<1>4. Grown
  BY DEF Grown, IInv, TypeOK, Moments
<1>5. Knows(x)'
  BY <1>1, <1>4, KnowsKept DEF IInv
<1>6. Known'
  BY <1>1, <1>4, <1>5, KnownKept
<1> QED BY <1>1, <1>2, <1>3, <1>6 DEF IInv

\* Time passes.
LEMMA TickStep == ASSUME IInv, Tick PROVE IInv'
<1> USE PriceAssumption
<1>1. TypeOK' /\ Locked'
  BY DEF Tick, IInv, TypeOK, Locked, Moments
<1>2. Grown
  BY DEF Tick, Grown, IInv, TypeOK, Moments
<1>3. Stamped'
  <2>1. now \in Nat /\ now' = now + 1 /\ price \in [Coins -> Nat \cup {None}]
    BY DEF Tick, IInv, TypeOK, Moments
  <2> QED BY <2>1 DEF Tick, IInv, Stamped
<1>4. Known'
  <2> SUFFICES ASSUME NEW y \in Threads PROVE Knows(thread[y])'
    BY DEF Known
  <2>1. PICK z \in Thread : z = thread[y]
    BY DEF IInv, TypeOK
  <2>2. Knows(z)'
    BY <1>1, <1>2, <2>1, KnowsKept DEF Tick, IInv, Known
  <2>3. thread'[y] = z
    BY <2>1 DEF Tick
  <2> QED
    BY <2>2, <2>3 DEF Knows, ClockRead, SinceKnown, CachedKnown, RereadKnown, FetchKnown,
                      AnswerKnown
<1> QED BY <1>1, <1>3, <1>4 DEF IInv

\* A call begins.
LEMMA AskStep == ASSUME IInv, NEW t \in Threads, Ask(t) PROVE IInv'
<1> USE PriceAssumption
<1>1. PICK c \in Coins :
        thread' = [thread EXCEPT ![t] = [Idle EXCEPT !.pc = "asked", !.coin = c, !.now = now,
                                                     !.start = now, !.since = price[c]]]
  BY DEF Ask
<1>2. PICK n \in Moments, p \in Moments \cup {None} : n = now /\ p = price[c]
  BY DEF IInv, TypeOK
<1> DEFINE x == [Idle EXCEPT !.pc = "asked", !.coin = c, !.now = n, !.start = n, !.since = p]
<1>3. x \in Thread
  BY DEF Idle, Thread, PCs, Moments
<1>4. /\ x.pc = "asked" /\ x.coin = c /\ x.now = n /\ x.start = n /\ x.since = p
  BY DEF Idle
<1>5. thread' = [thread EXCEPT ![t] = x]
  BY <1>1, <1>2
<1> HIDE DEF x
<1>6. Knows(x)
  <2>1. p # None => p <= p
    BY DEF Moments
  <2>2. n <= n
    BY DEF Moments
  <2> QED
    BY <1>2, <1>4, <2>1, <2>2
    DEF Knows, ClockRead, SinceKnown, CachedKnown, RereadKnown, FetchKnown, AnswerKnown
<1> QED BY <1>3, <1>4, <1>5, <1>6, LocalStep DEF Ask

\* What a thread is, and what it will have of the cache.
LEMMA Local ==
  ASSUME IInv, NEW t \in Threads, thread[t].pc # "idle"
  PROVE  \E x \in Thread :
           /\ x = thread[t] /\ Knows(x) /\ x.pc \in PCs
           /\ x.coin \in Coins
           /\ x.now \in Nat /\ x.start \in Nat /\ now \in Nat
           /\ x.cached \in Nat \cup {None} /\ x.since \in Nat \cup {None}
           /\ price[x.coin] \in Nat \cup {None} /\ updatedAt[x.coin] \in Nat \cup {None}
           /\ price[x.coin] \in Moments \cup {None}
<1>1. PICK x \in Thread : x = thread[t]
  BY DEF IInv, TypeOK
<1>2. Knows(x)
  BY <1>1 DEF IInv, Known
<1>3. x.coin \in Coins
  BY <1>1, <1>2 DEF Knows, ClockRead
<1>4. /\ x.now \in Nat /\ x.start \in Nat /\ x.pc \in PCs
      /\ x.cached \in Nat \cup {None} /\ x.since \in Nat \cup {None}
  BY DEF Thread, Moments
<1>5. /\ price[x.coin] \in Moments \cup {None} /\ updatedAt[x.coin] \in Moments \cup {None}
      /\ now \in Moments
  BY <1>3 DEF IInv, TypeOK
<1>6. Moments \subseteq Nat
  BY DEF Moments
<1> QED BY <1>1, <1>2, <1>3, <1>4, <1>5, <1>6

\* The first look reads the price.
LEMMA LookStep == ASSUME IInv, NEW t \in Threads, Look(t) PROVE IInv'
<1> USE PriceAssumption
<1>1. PICK y \in Thread :
        /\ y = thread[t] /\ Knows(y) /\ y.coin \in Coins /\ y.pc = "asked"
        /\ y.now \in Nat /\ y.since \in Nat \cup {None}
        /\ price[y.coin] \in Nat \cup {None} /\ price[y.coin] \in Moments \cup {None}
  BY Local DEF Look
<1>2. PICK p \in Moments \cup {None} : p = price[y.coin] /\ p \in Nat \cup {None}
  BY <1>1
<1> DEFINE x == [y EXCEPT !.pc = "looked", !.cached = p]
<1>3. x \in Thread
  BY <1>2 DEF Thread, PCs
<1>4. /\ x.pc = "looked" /\ x.cached = p /\ x.coin = y.coin /\ x.now = y.now
      /\ x.start = y.start /\ x.since = y.since
  BY DEF Thread
<1>5. thread' = [thread EXCEPT ![t] = x]
  BY <1>1, <1>2 DEF Look, IInv, TypeOK
<1> HIDE DEF x
<1>6. Knows(x)
  BY <1>1, <1>2, <1>4
  DEF Knows, ClockRead, SinceKnown, CachedKnown, RereadKnown, FetchKnown, AnswerKnown
<1> QED BY <1>1, <1>3, <1>4, <1>5, <1>6, LocalStep DEF Look

\* The first look reads the stamp, and decides.
LEMMA CheckStep == ASSUME IInv, NEW t \in Threads, Check(t) PROVE IInv'
<1> USE PriceAssumption
<1>1. PICK y \in Thread :
        /\ y = thread[t] /\ Knows(y) /\ y.coin \in Coins /\ y.pc = "looked"
        /\ y.now \in Nat /\ y.start \in Nat /\ y.since \in Nat \cup {None}
        /\ y.cached \in Nat \cup {None}
        /\ price[y.coin] \in Nat \cup {None} /\ updatedAt[y.coin] \in Nat \cup {None}
  BY Local DEF Check
<1> DEFINE fresh == y.cached # None /\ Fresh(updatedAt[y.coin], y.now)
           pc == IF ~fresh THEN "waiting" ELSE IF y.coin = Ethereum THEN "reread" ELSE "done"
           x == [y EXCEPT !.pc = pc]
<1>2. pc \in {"waiting", "reread", "done"}
  OBVIOUS
<1>3. x \in Thread
  BY <1>2 DEF Thread, PCs
<1>4. /\ x.pc = pc /\ x.cached = y.cached /\ x.coin = y.coin /\ x.now = y.now
      /\ x.start = y.start /\ x.since = y.since
  BY DEF Thread
<1>5. thread' = [thread EXCEPT ![t] = x]
  BY <1>1 DEF Check, IInv, TypeOK
<1>6. fresh => Fresh(price[y.coin], y.start) /\ price[y.coin] # None
  <2> SUFFICES ASSUME fresh PROVE Fresh(price[y.coin], y.start) /\ price[y.coin] # None
    OBVIOUS
  <2>1. /\ updatedAt[y.coin] # None /\ price[y.coin] # None
        /\ updatedAt[y.coin] <= price[y.coin] /\ y.now - updatedAt[y.coin] < TTL
    BY <1>1 DEF IInv, Stamped, Fresh
  <2>2. y.now = y.start
    BY <1>1 DEF Knows, ClockRead
  <2> QED BY <1>1, <2>1, <2>2 DEF Fresh
<1>7. pc = "reread" => fresh /\ y.coin = Ethereum
  OBVIOUS
<1>8. pc = "done" => fresh /\ y.coin # Ethereum
  OBVIOUS
<1> HIDE DEF x, fresh, pc
<1>9. ClockRead(x) /\ SinceKnown(x) /\ CachedKnown(x) /\ FetchKnown(x)
  BY <1>1, <1>2, <1>4 DEF Knows, ClockRead, SinceKnown, CachedKnown, FetchKnown
<1>10. RereadKnown(x)
  BY <1>4, <1>6, <1>7 DEF RereadKnown
<1>11. AnswerKnown(x)
  <2> SUFFICES ASSUME pc = "done", y.cached # None
               PROVE  Fresh(y.cached, y.start) \/ (y.coin # Ethereum /\ y.cached < price[y.coin])
    BY <1>4 DEF AnswerKnown
  <2>1. /\ price[y.coin] # None /\ y.cached <= price[y.coin]
        /\ Fresh(price[y.coin], y.start) /\ y.coin # Ethereum
    BY <1>1, <1>6, <1>8 DEF Knows, CachedKnown
  <2> QED BY <1>1, <2>1
<1>12. Knows(x)
  BY <1>9, <1>10, <1>11 DEF Knows
<1> QED BY <1>1, <1>2, <1>3, <1>4, <1>5, <1>12, LocalStep DEF Check

\* The price of Ethereum is read again.
LEMMA RereadStep == ASSUME IInv, NEW t \in Threads, Reread(t) PROVE IInv'
<1> USE PriceAssumption
<1>1. PICK y \in Thread :
        /\ y = thread[t] /\ Knows(y) /\ y.coin \in Coins /\ y.pc = "reread"
        /\ y.now \in Nat /\ y.start \in Nat /\ y.since \in Nat \cup {None}
        /\ price[y.coin] \in Nat \cup {None} /\ price[y.coin] \in Moments \cup {None}
  BY Local DEF Reread
<1>2. PICK p \in Moments \cup {None} : p = price[y.coin] /\ p \in Nat \cup {None}
  BY <1>1
<1> DEFINE x == [y EXCEPT !.pc = "done", !.cached = p]
<1>3. x \in Thread
  BY <1>2 DEF Thread, PCs
<1>4. /\ x.pc = "done" /\ x.cached = p /\ x.coin = y.coin /\ x.now = y.now
      /\ x.start = y.start /\ x.since = y.since
  BY DEF Thread
<1>5. thread' = [thread EXCEPT ![t] = x]
  BY <1>1, <1>2 DEF Reread, IInv, TypeOK
<1> HIDE DEF x
<1>6. Knows(x)
  BY <1>1, <1>2, <1>4
  DEF Knows, ClockRead, SinceKnown, CachedKnown, RereadKnown, FetchKnown, AnswerKnown
<1> QED BY <1>1, <1>3, <1>4, <1>5, <1>6, LocalStep DEF Reread

\* A call is over.
LEMMA ReturnStep == ASSUME IInv, NEW t \in Threads, Return(t) PROVE IInv'
<1>1. Idle \in Thread /\ Idle.pc = "idle"
  BY PriceAssumption DEF Idle, Thread, PCs, Moments
<1>2. Knows(Idle)
  BY <1>1 DEF Knows, ClockRead, SinceKnown, CachedKnown, RereadKnown, FetchKnown, AnswerKnown
<1> QED BY <1>1, <1>2, LocalStep DEF Return

\* Nobody is between the writes of a price and its stamp while the lock is free.
LEMMA StampedWhenFree ==
  ASSUME IInv, lock = None PROVE \A c \in Coins : updatedAt[c] = price[c]
BY PriceAssumption DEF IInv, Locked, Stamped

\* A thread gets the lock and looks again.
LEMMA AcquireStep == ASSUME IInv, NEW t \in Threads, Acquire(t) PROVE IInv'
<1> USE PriceAssumption
<1>1. PICK y \in Thread :
        /\ y = thread[t] /\ Knows(y) /\ y.coin \in Coins /\ y.pc = "waiting"
        /\ y.now \in Nat /\ y.start \in Nat /\ now \in Nat /\ y.since \in Nat \cup {None}
        /\ price[y.coin] \in Nat \cup {None} /\ updatedAt[y.coin] \in Nat \cup {None}
        /\ price[y.coin] \in Moments \cup {None}
  BY Local DEF Acquire
<1>2. PICK p \in Moments \cup {None}, n \in Moments :
        p = price[y.coin] /\ p \in Nat \cup {None} /\ n = now /\ n \in Nat
  BY <1>1 DEF IInv, TypeOK
<1> DEFINE fresh == p # None /\ Fresh(p, n)
           pc == IF fresh THEN "done" ELSE "fetching"
           x == [y EXCEPT !.pc = pc, !.now = n, !.cached = p]
<1>3. pc \in {"done", "fetching"} /\ (pc = "done" <=> fresh) /\ updatedAt[y.coin] = p
  BY <1>1, <1>2, StampedWhenFree DEF Acquire
<1>4. x \in Thread
  BY <1>2, <1>3 DEF Thread, PCs
<1>5. /\ x.pc = pc /\ x.cached = p /\ x.coin = y.coin /\ x.now = n
      /\ x.start = y.start /\ x.since = y.since
  BY DEF Thread
<1>6. /\ thread' = [thread EXCEPT ![t] = x]
      /\ lock' = IF fresh THEN None ELSE t
      /\ lock = None /\ UNCHANGED <<now, price, updatedAt>>
  BY <1>1, <1>2, <1>3 DEF Acquire, IInv, TypeOK
<1>7. fresh <=> p # None /\ n - p < TTL
  BY <1>2, <1>3 DEF Fresh
<1> HIDE DEF x, fresh, pc
<1>8. ClockRead(x) /\ SinceKnown(x) /\ CachedKnown(x) /\ RereadKnown(x)
  <2>1. x.pc # "idle" /\ x.pc # "reread" /\ x.pc \notin {"asked", "looked", "reread"}
    BY <1>3, <1>5
  <2>2. y.start <= n /\ n <= now
    BY <1>1, <1>2 DEF Knows, ClockRead
  <2>3. y.since # None => p # None /\ y.since <= p
    BY <1>1, <1>2 DEF Knows, SinceKnown
  <2>4. p # None => p <= p
    BY <1>2
  <2> QED
    BY <1>1, <1>2, <1>5, <2>1, <2>2, <2>3, <2>4
    DEF ClockRead, SinceKnown, CachedKnown, RereadKnown
<1>9. FetchKnown(x)
  BY <1>1, <1>2, <1>3, <1>5, <1>7 DEF FetchKnown
<1>10. AnswerKnown(x)
  <2>1. y.start <= n
    BY <1>1, <1>2 DEF Knows, ClockRead
  <2> QED BY <1>1, <1>2, <1>3, <1>5, <1>7, <2>1 DEF AnswerKnown, Fresh
<1>11. TypeOK'
  BY <1>4, <1>6 DEF IInv, TypeOK
<1>12. Locked'
  BY <1>3, <1>5, <1>6 DEF IInv, TypeOK, Locked
<1>13. Stamped'
  BY <1>6, StampedWhenFree DEF IInv, Stamped
<1>14. Grown
  BY <1>6 DEF Grown, IInv, TypeOK, Moments
<1>15. Knows(x)
  BY <1>8, <1>9, <1>10 DEF Knows
<1>16. Knows(x)'
  BY <1>4, <1>6, <1>11, <1>14, <1>15, KnowsKept DEF IInv
<1>17. Known'
  BY <1>4, <1>6, <1>11, <1>14, <1>16, KnownKept
<1> QED BY <1>11, <1>12, <1>13, <1>17 DEF IInv

\* The thread that has the lock, and what it sees.
LEMMA Holder ==
  ASSUME IInv, NEW t \in Threads, thread[t].pc \in {"fetching", "stamp"}
  PROVE  /\ lock = t
         /\ \A s \in Threads : s # t => thread[s].pc \notin {"fetching", "stamp"}
         /\ \A c \in Coins : c # thread[t].coin => updatedAt[c] = price[c]
         /\ thread[t].pc = "fetching" => \A c \in Coins : updatedAt[c] = price[c]
BY PriceAssumption DEF IInv, Locked, Stamped

\* What is fetched is newer than what was there, by the time to live.
LEMMA FetchedIsNewer ==
  ASSUME IInv, NEW t \in Threads, thread[t].pc = "fetching", price[thread[t].coin] # None
  PROVE  /\ thread[t].now - price[thread[t].coin] >= TTL
         /\ price[thread[t].coin] <= thread[t].now
<1>1. PICK y \in Thread :
        /\ y = thread[t] /\ Knows(y) /\ y.now \in Nat /\ price[y.coin] \in Nat \cup {None}
  BY Local
<1>2. y.now - price[y.coin] >= TTL
  BY <1>1 DEF Knows, FetchKnown
<1> QED BY <1>1, <1>2, PriceAssumption

\* A price arrives and is stored.
LEMMA FetchStep == ASSUME IInv, NEW t \in Threads, Fetch(t) PROVE IInv'
<1> USE PriceAssumption
<1>1. PICK y \in Thread :
        /\ y = thread[t] /\ Knows(y) /\ y.coin \in Coins /\ y.pc = "fetching"
        /\ y.now \in Nat /\ y.start \in Nat /\ now \in Nat /\ y.since \in Nat \cup {None}
        /\ price[y.coin] \in Nat \cup {None} /\ updatedAt[y.coin] \in Nat \cup {None}
  BY Local DEF Fetch
<1>2. PICK p \in Nat \cup {None} : p = price[y.coin] /\ updatedAt[y.coin] = p
  BY <1>1, Holder
<1>3. p # None => p <= y.now
  BY <1>1, <1>2, FetchedIsNewer
<1> DEFINE x == [y EXCEPT !.pc = "stamp", !.cached = y.now]
<1>4. x \in Thread
  BY DEF Thread, PCs
<1>5. /\ x.pc = "stamp" /\ x.cached = y.now /\ x.coin = y.coin /\ x.now = y.now
      /\ x.start = y.start /\ x.since = y.since
  BY DEF Thread
<1>6. /\ thread' = [thread EXCEPT ![t] = x]
      /\ price' = [price EXCEPT ![y.coin] = y.now]
      /\ lock = t /\ UNCHANGED <<now, updatedAt, lock>>
  BY <1>1, Holder DEF Fetch, IInv, TypeOK
<1> HIDE DEF x
<1>7. y.start <= y.now /\ y.now <= now /\ (y.since # None => p # None /\ y.since <= p)
  BY <1>1, <1>2 DEF Knows, ClockRead, SinceKnown
<1>8. price'[y.coin] = y.now /\ \A c \in Coins : c # y.coin => price'[c] = price[c]
  BY <1>1, <1>6 DEF IInv, TypeOK
<1>9. TypeOK'
  <2>1. y.now \in Moments
    BY DEF Thread
  <2> QED BY <1>1, <1>4, <1>6, <2>1 DEF IInv, TypeOK
<1>10. Locked'
  BY <1>1, <1>5, <1>6 DEF IInv, TypeOK, Locked
<1>11. Grown
  <2>1. now \in Nat /\ price \in [Coins -> Nat \cup {None}]
    BY DEF IInv, TypeOK, Moments
  <2> QED BY <1>1, <1>2, <1>3, <1>6, <1>8, <2>1 DEF Grown
<1>12. Stamped'
  <2> SUFFICES ASSUME NEW c \in Coins
               PROVE  /\ price'[c] # None => price'[c] <= now
                      /\ updatedAt[c] # None => price'[c] # None /\ updatedAt[c] <= price'[c]
                      /\ updatedAt[c] # price'[c] =>
                           \E s \in Threads : thread'[s].pc = "stamp" /\ thread'[s].coin = c
    BY <1>6 DEF Stamped
  <2>1. CASE c = y.coin
    <3>1. thread'[t] = x
      BY <1>6 DEF IInv, TypeOK
    <3> QED BY <1>1, <1>2, <1>3, <1>5, <1>7, <1>8, <2>1, <3>1
  <2>2. CASE c # y.coin
    <3>1. updatedAt[c] = price[c]
      BY <1>1, <2>2, Holder
    <3>2. price[c] # None => price[c] <= now /\ price[c] <= price[c]
      BY <3>1 DEF IInv, Stamped
    <3> QED BY <1>8, <2>2, <3>1, <3>2
  <2> QED BY <2>1, <2>2
<1>13. Knows(x)'
  <2>1. y.now # None /\ y.now <= y.now
    BY <1>1
  <2>2. y.since # None => y.since <= y.now
    BY <1>1, <1>2, <1>3, <1>7
  <2> QED
    BY <1>1, <1>5, <1>6, <1>7, <1>8, <2>1, <2>2
    DEF Knows, ClockRead, SinceKnown, CachedKnown, RereadKnown, FetchKnown, AnswerKnown
<1>14. Known'
  BY <1>4, <1>6, <1>9, <1>11, <1>13, KnownKept
<1> QED BY <1>9, <1>10, <1>12, <1>14 DEF IInv

\* The price gets its stamp, and the lock is let go.
LEMMA StampStep == ASSUME IInv, NEW t \in Threads, Stamp(t) PROVE IInv'
<1> USE PriceAssumption
<1>1. PICK y \in Thread :
        /\ y = thread[t] /\ Knows(y) /\ y.coin \in Coins /\ y.pc = "stamp"
        /\ y.now \in Nat /\ y.start \in Nat /\ now \in Nat /\ y.since \in Nat \cup {None}
        /\ y.cached \in Nat \cup {None} /\ price[y.coin] \in Nat \cup {None}
  BY Local DEF Stamp
<1>2. price[y.coin] = y.now /\ y.cached = y.now /\ y.start <= y.now /\ y.now <= now
  BY <1>1 DEF Knows, FetchKnown, ClockRead
<1> DEFINE x == [y EXCEPT !.pc = "done"]
<1>3. x \in Thread
  BY DEF Thread, PCs
<1>4. /\ x.pc = "done" /\ x.cached = y.cached /\ x.coin = y.coin /\ x.now = y.now
      /\ x.start = y.start /\ x.since = y.since
  BY DEF Thread
<1>5. /\ thread' = [thread EXCEPT ![t] = x]
      /\ updatedAt' = [updatedAt EXCEPT ![y.coin] = y.now]
      /\ lock = t /\ lock' = None /\ UNCHANGED <<now, price>>
  BY <1>1, Holder DEF Stamp, IInv, TypeOK
<1> HIDE DEF x
<1>6. TypeOK'
  <2>1. y.now \in Moments
    BY DEF Thread
  <2> QED BY <1>1, <1>3, <1>5, <2>1 DEF IInv, TypeOK
<1>7. Locked'
  BY <1>1, <1>4, <1>5 DEF IInv, TypeOK, Locked
<1>8. \A c \in Coins : updatedAt'[c] = price[c]
  <2> SUFFICES ASSUME NEW c \in Coins PROVE updatedAt'[c] = price[c]
    OBVIOUS
  <2>1. CASE c = y.coin
    BY <1>2, <1>5, <2>1 DEF IInv, TypeOK
  <2>2. CASE c # y.coin
    BY <1>1, <1>5, <2>2, Holder DEF IInv, TypeOK
  <2> QED BY <2>1, <2>2
<1>9. Stamped'
  <2>1. \A c \in Coins : price[c] # None => price[c] <= now /\ price[c] <= price[c]
    BY DEF IInv, TypeOK, Stamped, Moments
  <2> QED BY <1>5, <1>8, <2>1 DEF Stamped
<1>10. Grown
  BY <1>5 DEF Grown, IInv, TypeOK, Moments
<1>11. Knows(x)
  BY <1>1, <1>2, <1>4
  DEF Knows, ClockRead, SinceKnown, CachedKnown, RereadKnown, FetchKnown, AnswerKnown, Fresh
<1>12. Knows(x)'
  BY <1>3, <1>5, <1>6, <1>10, <1>11, KnowsKept DEF IInv
<1>13. Known'
  BY <1>3, <1>5, <1>6, <1>10, <1>12, KnownKept
<1> QED BY <1>6, <1>7, <1>9, <1>13 DEF IInv

\* The fetch fails, and the lock is let go.
LEMMA FailStep == ASSUME IInv, NEW t \in Threads, Fail(t) PROVE IInv'
<1> USE PriceAssumption
<1>1. PICK y \in Thread :
        /\ y = thread[t] /\ Knows(y) /\ y.coin \in Coins /\ y.pc = "fetching"
        /\ y.now \in Nat /\ y.start \in Nat /\ now \in Nat /\ y.since \in Nat \cup {None}
  BY Local DEF Fail
<1> DEFINE x == [y EXCEPT !.pc = "done", !.failed = TRUE]
<1>2. x \in Thread
  BY DEF Thread, PCs
<1>3. /\ x.pc = "done" /\ x.cached = y.cached /\ x.coin = y.coin /\ x.now = y.now
      /\ x.start = y.start /\ x.since = y.since /\ x.failed = TRUE
  BY DEF Thread
<1>4. /\ thread' = [thread EXCEPT ![t] = x]
      /\ lock = t /\ lock' = None /\ UNCHANGED <<now, price, updatedAt>>
  BY <1>1, Holder DEF Fail, IInv, TypeOK
<1> HIDE DEF x
<1>5. TypeOK'
  BY <1>2, <1>4 DEF IInv, TypeOK
<1>6. Locked'
  BY <1>1, <1>3, <1>4 DEF IInv, TypeOK, Locked
<1>7. Stamped'
  BY <1>1, <1>4, Holder DEF IInv, Stamped
<1>8. Grown
  BY <1>4 DEF Grown, IInv, TypeOK, Moments
<1>9. Knows(x)
  BY <1>1, <1>3
  DEF Knows, ClockRead, SinceKnown, CachedKnown, RereadKnown, FetchKnown, AnswerKnown
<1>10. Knows(x)'
  BY <1>2, <1>4, <1>5, <1>8, <1>9, KnowsKept DEF IInv
<1>11. Known'
  BY <1>2, <1>4, <1>5, <1>8, <1>10, KnownKept
<1> QED BY <1>5, <1>6, <1>7, <1>11 DEF IInv

-----------------------------------------------------------------------------
\* Every step keeps the invariant.
LEMMA StepInv == IInv /\ [Next]_vars => IInv'
<1> SUFFICES ASSUME IInv, [Next]_vars PROVE IInv'
  OBVIOUS
<1>1. CASE Tick
  BY <1>1, TickStep
<1>2. ASSUME NEW t \in Threads, Ask(t) \/ Step(t) PROVE IInv'
  BY <1>2, AskStep, LookStep, CheckStep, RereadStep, AcquireStep, FetchStep, StampStep,
     FailStep, ReturnStep DEF Step
<1>3. CASE UNCHANGED vars
  BY <1>3 DEF vars, IInv, TypeOK, Locked, Stamped, Known, Knows, ClockRead, SinceKnown,
              CachedKnown, RereadKnown, FetchKnown, AnswerKnown
<1> QED BY <1>1, <1>2, <1>3 DEF Next

\* What the invariant is for.
LEMMA Invariant == Spec => []IInv
BY InitInv, StepInv, PTL DEF Spec

\* Prices, stamps, the lock and the local state of every thread are well typed.
THEOREM TypeCorrect == Spec => []TypeOK
<1>1. IInv => TypeOK
  BY DEF IInv
<1> QED BY <1>1, Invariant, PTL

\* What a call answers was in the cache during the call, however many threads
\* read and write it, and whatever the two looks without the lock run into.
THEOREM AnswersWereCurrent == Spec => []AnswerWasCurrent
<1>1. IInv => AnswerWasCurrent
  BY DEF IInv, Known, Knows, SinceKnown, CachedKnown, AnswerWasCurrent
<1> QED BY <1>1, Invariant, PTL

\* An expired price is an answer only if the fetch of the call failed, or if the
\* price was replaced between the two reads of a look without the lock.
THEOREM ExpiredIsExplained == Spec => []ExpiredForAReason
<1>1. IInv => ExpiredForAReason
  BY DEF IInv, Known, Knows, AnswerKnown, ExpiredForAReason
<1> QED BY <1>1, Invariant, PTL

\* A price is replaced only by one that was asked for at least a time to live
\* later: an expired price is fetched once.
THEOREM FetchesAreSpaced == Spec => FetchesSpaced
<1> DEFINE Spaced == \A c \in Coins :
      price'[c] # price[c] /\ price[c] # None => price'[c] - price[c] >= TTL
<1>1. IInv /\ [Next]_vars => [Spaced]_vars
  <2> SUFFICES ASSUME IInv, Next PROVE Spaced
    OBVIOUS
  <2>1. ASSUME NEW t \in Threads, Fetch(t) PROVE Spaced
    <3> SUFFICES ASSUME NEW c \in Coins, price'[c] # price[c], price[c] # None
                 PROVE  price'[c] - price[c] >= TTL
      OBVIOUS
    <3>1. c = thread[t].coin /\ price'[c] = thread[t].now /\ thread[t].pc = "fetching"
      BY <2>1 DEF Fetch, IInv, TypeOK
    <3> QED BY <3>1, FetchedIsNewer
  <2>2. UNCHANGED price \/ \E t \in Threads : Fetch(t)
    BY DEF Next, Step, Tick, Ask, Look, Check, Reread, Acquire, Stamp, Fail, Return
  <2> QED BY <2>1, <2>2
<1> QED BY <1>1, Invariant, PTL DEF Spec, FetchesSpaced

=============================================================================
