----------------------- MODULE DailyDigestOnceProofs -----------------------
(***************************************************************************)
(* When no invocation crashes, none outlives the lease, and no request     *)
(* fails after Telegram accepted it, the sender keeps the sentence of the  *)
(* README: at most one digest per account and local date, however the      *)
(* invocations overlap and the users change their settings.                *)
(***************************************************************************)
EXTENDS DailyDigestProofs

USE ClockAssumption, AttemptAssumption

\* Every running invocation started less than a lease ago.
Young == \A j \in Jobs : job[j].pc # "idle" =>
           job[j].current <= now /\ now < job[j].current + Lease

\* An invocation past its claim holds the row's latest claim, and the row
\* says so: nobody could reclaim it meanwhile.
HoldsClaim(j) ==
  InFlight(j) => LET r == delivery[Key(j)]
                 IN /\ r.status = "pending"
                    /\ r.attempts = job[j].attempt
                    /\ r.attempted_at = job[j].current

\* Every message is known to the row, or to the invocation that sent it.
MessageIsKnown ==
  \A k \in Keys, n \in 1..MaxAttempts :
    delivered[k][n] = 1 =>
      \/ delivery[k].status = "sent"
      \/ \E j \in Jobs : /\ job[j].pc = "record" /\ job[j].reply.code = "ok"
                         /\ Key(j) = k /\ job[j].attempt = n

OnceInv ==
  /\ IInv
  /\ Young
  /\ \A j \in Jobs : HoldsClaim(j)
  /\ MessageIsKnown
  /\ AtMostOneDigest

\* Without faults, an invocation ends only where it holds no claim.
LEMMA NoFaultMeansNoCrash ==
  ASSUME Faults = {}, NEW j \in Jobs
  PROVE  ~Crash(j)
BY DEF Crash

\* Initially there is no message and no invocation.
LEMMA InitOnce == Init => OnceInv
<1> SUFFICES ASSUME Init PROVE OnceInv
  OBVIOUS
<1>1. IInv
  BY InitIInv
<1>2. \A j \in Jobs : job[j].pc = "idle"
  BY DEF Init, IdleJob
<1>3. \A k \in Keys, n \in 1..MaxAttempts : delivered[k][n] = 0
  BY DEF Init
<1> QED
  BY <1>1, <1>2, <1>3
  DEF OnceInv, Young, HoldsClaim, InFlight, MessageIsKnown, AtMostOneDigest

\* Steps that leave rows and messages alone, and move an invocation that is
\* not past its claim to where it is not past one either.
LEMMA QuietStep ==
  ASSUME OnceInv, NEW j \in Jobs,
         delivery' = delivery, delivered' = delivered,
         \A i \in Jobs \ {j} : job'[i] = job[i],
         ~InFlight(j), ~InFlight(j)'
  PROVE  (\A i \in Jobs : HoldsClaim(i)') /\ MessageIsKnown' /\ AtMostOneDigest'
<1>1. \A i \in Jobs \ {j} : Key(i)' = Key(i)
  BY DEF Key
<1>2. \A i \in Jobs : HoldsClaim(i)'
  BY <1>1 DEF OnceInv, HoldsClaim, InFlight
<1>3. MessageIsKnown'
  <2> SUFFICES ASSUME NEW k \in Keys, NEW n \in 1..MaxAttempts, delivered[k][n] = 1,
                      delivery[k].status # "sent"
               PROVE  \E i \in Jobs : /\ job'[i].pc = "record"
                                      /\ job'[i].reply.code = "ok"
                                      /\ Key(i)' = k /\ job'[i].attempt = n
    BY DEF MessageIsKnown
  <2>1. PICK i \in Jobs : /\ job[i].pc = "record" /\ job[i].reply.code = "ok"
                          /\ Key(i) = k /\ job[i].attempt = n
    BY DEF OnceInv, MessageIsKnown
  <2>2. i # j
    BY <2>1 DEF InFlight
  <2> QED  BY <2>1, <2>2, <1>1
<1>4. AtMostOneDigest'
  BY DEF OnceInv, AtMostOneDigest
<1> QED  BY <1>2, <1>3, <1>4

\* Two invocations past their claim never work on the same row.
LEMMA OneInFlight ==
  ASSUME OnceInv, NEW i \in Jobs, NEW j \in Jobs,
         InFlight(i), InFlight(j), Key(i) = Key(j)
  PROVE  i = j
BY DEF OnceInv, HoldsClaim, IInv, AttemptsHaveOneOwner

\* Nobody is past its claim on a row that can be claimed: the lease of the
\* row is the one of a young invocation.
LEMMA ClaimFindsNobody ==
  ASSUME OnceInv, NEW j \in Jobs, Claim(j), NEW i \in Jobs, InFlight(i)
  PROVE  Key(i) # Key(j)
<1> SUFFICES ASSUME Key(i) = Key(j) PROVE FALSE
  OBVIOUS
<1>1. /\ delivery[Key(j)] # None
      /\ delivery[Key(j)].status = "pending"
      /\ delivery[Key(j)].attempted_at = job[i].current
  BY DEF OnceInv, IInv, Working, HoldsClaim
<1>2. Claimable(delivery[Key(j)], job[j].current)
  BY <1>1, ClaimRow DEF OnceInv
<1>3. /\ job[i].pc # "idle" /\ job[j].pc # "idle"
      /\ job[i].current \in Nat /\ job[j].current \in Nat /\ now \in Nat
  BY DEF InFlight, Claim, OnceInv, IInv, TypeOK, Job
<1>4. job[j].current <= now /\ now < job[i].current + Lease
  BY <1>3 DEF OnceInv, Young
<1>5. job[j].current - job[i].current >= Lease
  BY <1>1, <1>2, Zenon DEF Claimable
<1> QED  BY <1>3, <1>4, <1>5

\* A claim meets no invocation in flight and no message on its row.
LEMMA ClaimOnce ==
  ASSUME OnceInv, NEW j \in Jobs, Claim(j)
  PROVE  (\A i \in Jobs : HoldsClaim(i)') /\ MessageIsKnown' /\ AtMostOneDigest'
<1>1. /\ Key(j) \in Keys
      /\ \A l \in Keys \ {Key(j)} : delivery'[l] = delivery[l]
      /\ delivery'[Key(j)].status = "pending"
      /\ delivery'[Key(j)].attempted_at = job[j].current
      /\ delivery'[Key(j)].attempts =
           IF delivery[Key(j)] = None THEN 1 ELSE delivery[Key(j)].attempts + 1
      /\ delivery[Key(j)] # None => delivery[Key(j)].status # "sent"
  BY ClaimRow DEF OnceInv, Claimable
<1>2. /\ delivered' = delivered
      /\ job'[j].pc = "send" /\ job'[j].current = job[j].current
      /\ job'[j].attempt = delivery'[Key(j)].attempts
      /\ \A i \in Jobs : Key(i)' = Key(i)
      /\ \A i \in Jobs \ {j} : job'[i] = job[i]
  <2> DEFINE n == IF delivery[Key(j)] = None THEN 1 ELSE delivery[Key(j)].attempts + 1
  <2>1. n = delivery'[Key(j)].attempts
    BY <1>1
  <2>2. job' = [job EXCEPT ![j].pc = "send", ![j].attempt = n]
    BY DEF Claim
  <2>3. job \in [Jobs -> Job] /\ delivered' = delivered
    BY DEF Claim, OnceInv, IInv, TypeOK
  <2> HIDE DEF n
  <2> QED  BY <2>1, <2>2, <2>3 DEF Key, Job
<1>3. ASSUME NEW i \in Jobs PROVE HoldsClaim(i)'
  <2>1. CASE i = j
    BY <2>1, <1>1, <1>2 DEF HoldsClaim
  <2>2. CASE i # j
    <3> SUFFICES ASSUME InFlight(i) PROVE HoldsClaim(i)'
      BY <2>2, <1>2 DEF HoldsClaim, InFlight
    <3>1. Key(i) \in Keys /\ Key(i) # Key(j)
      BY ClaimFindsNobody DEF OnceInv, IInv, Working, InFlight
    <3> QED
      BY <2>2, <3>1, <1>1, <1>2 DEF OnceInv, HoldsClaim, InFlight
  <2> QED  BY <2>1, <2>2
<1>4. MessageIsKnown'
  <2> SUFFICES ASSUME NEW k \in Keys, NEW n \in 1..MaxAttempts, delivered[k][n] = 1
               PROVE  \/ delivery'[k].status = "sent"
                      \/ \E i \in Jobs : /\ job'[i].pc = "record"
                                         /\ job'[i].reply.code = "ok"
                                         /\ Key(i)' = k /\ job'[i].attempt = n
    BY <1>2 DEF MessageIsKnown
  <2>1. delivery[k] # None
    BY DEF OnceInv, IInv, OneMessagePerAttempt
  <2>2. CASE delivery[k].status = "sent"
    BY <2>1, <2>2, <1>1
  <2>3. ASSUME NEW i \in Jobs, job[i].pc = "record", job[i].reply.code = "ok",
               Key(i) = k, job[i].attempt = n
        PROVE  /\ job'[i].pc = "record" /\ job'[i].reply.code = "ok"
               /\ Key(i)' = k /\ job'[i].attempt = n
    <3>1. i # j
      BY <2>3 DEF Claim
    <3> QED  BY <2>3, <3>1, <1>2
  <2> QED  BY <2>2, <2>3 DEF OnceInv, MessageIsKnown
<1>5. AtMostOneDigest'
  BY <1>2 DEF OnceInv, AtMostOneDigest
<1> QED  BY <1>3, <1>4, <1>5

\* The message an invocation sends is the first one of its delivery.
LEMMA SendOnce ==
  ASSUME Faults = {}, OnceInv, NEW j \in Jobs, Send(j)
  PROVE  (\A i \in Jobs : HoldsClaim(i)') /\ MessageIsKnown' /\ AtMostOneDigest'
<1> DEFINE k == Key(j)
           n == job[j].attempt
<1>1. PICK r \in Reply, accepted \in BOOLEAN :
        /\ accepted => r.code = "ok"
        /\ job' = [job EXCEPT ![j].pc = "record", ![j].reply = r]
        /\ delivered' = IF accepted THEN [delivered EXCEPT ![k][n] = @ + 1]
                        ELSE delivered
  BY DEF Send
<1>2. /\ delivery' = delivery /\ job[j].pc = "send" /\ InFlight(j)
      /\ k \in Keys /\ n \in 1..MaxAttempts /\ delivered[k][n] = 0
  <2>1. /\ delivery' = delivery /\ job[j].pc = "send" /\ InFlight(j)
        /\ k \in Keys /\ delivery[k] # None /\ n \in 1..delivery[k].attempts
        /\ delivered[k][n] = 0
    BY DEF Send, InFlight, OnceInv, IInv, Working, AttemptUse
  <2>2. delivery[k] \in Row
    BY <2>1 DEF OnceInv, IInv, TypeOK
  <2> QED  BY <2>1, <2>2 DEF Row
<1>3. /\ job'[j].pc = "record" /\ job'[j].reply = r /\ job'[j].attempt = n
      /\ job'[j].current = job[j].current
      /\ \A i \in Jobs : Key(i)' = Key(i)
      /\ \A i \in Jobs \ {j} : job'[i] = job[i]
  BY <1>1 DEF Key, OnceInv, IInv, TypeOK, Job
<1>4. \A l \in Keys, m \in 1..MaxAttempts :
        l # k \/ m # n => delivered'[l][m] = delivered[l][m]
  BY <1>1, <1>2 DEF OnceInv, IInv, TypeOK
<1>5. \A m \in 1..MaxAttempts : delivered[k][m] = 0
  <2> SUFFICES ASSUME NEW m \in 1..MaxAttempts, delivered[k][m] # 0 PROVE FALSE
    OBVIOUS
  <2>1. delivered[k][m] = 1
    <3>1. delivered[k][m] \in Nat /\ delivered[k][m] <= 1
      BY <1>2 DEF OnceInv, IInv, TypeOK, OneMessagePerAttempt
    <3> QED  BY <3>1
  <2>2. delivery[k].status = "pending"
    BY <1>2 DEF OnceInv, HoldsClaim
  <2>3. PICK i \in Jobs : job[i].pc = "record" /\ Key(i) = k
    BY <2>1, <2>2, <1>2 DEF OnceInv, MessageIsKnown
  <2>4. i = j
    BY <2>3, <1>2, OneInFlight DEF InFlight
  <2> QED  BY <2>3, <2>4, <1>2
<1> HIDE DEF k, n
<1>6. ASSUME NEW i \in Jobs PROVE HoldsClaim(i)'
  <2>1. HoldsClaim(i)
    BY DEF OnceInv
  <2>2. CASE i = j
    BY <2>1, <2>2, <1>2, <1>3 DEF HoldsClaim, InFlight, k, n
  <2>3. CASE i # j
    BY <2>1, <2>3, <1>2, <1>3 DEF HoldsClaim, InFlight
  <2> QED  BY <2>2, <2>3
<1>7. MessageIsKnown'
  <2> SUFFICES ASSUME NEW l \in Keys, NEW m \in 1..MaxAttempts, delivered'[l][m] = 1
               PROVE  \/ delivery[l].status = "sent"
                      \/ \E i \in Jobs : /\ job'[i].pc = "record"
                                         /\ job'[i].reply.code = "ok"
                                         /\ Key(i)' = l /\ job'[i].attempt = m
    BY <1>2 DEF MessageIsKnown
  <2>1. CASE l = k /\ m = n
    <3>1. accepted
      BY <2>1, <1>1, <1>2
    <3> QED  BY <2>1, <3>1, <1>1, <1>3 DEF k, n
  <2>2. CASE l # k \/ m # n
    <3>1. delivered[l][m] = 1 /\ l # k
      BY <2>2, <1>4, <1>5
    <3>2. CASE delivery[l].status = "sent"
      BY <3>2
    <3>3. ASSUME NEW i \in Jobs, job[i].pc = "record", job[i].reply.code = "ok",
                 Key(i) = l, job[i].attempt = m
          PROVE  /\ job'[i].pc = "record" /\ job'[i].reply.code = "ok"
                 /\ Key(i)' = l /\ job'[i].attempt = m
      BY <3>1, <3>3, <1>3 DEF k
    <3> QED  BY <3>1, <3>2, <3>3 DEF OnceInv, MessageIsKnown
  <2> QED  BY <2>1, <2>2
<1>8. AtMostOneDigest'
  <2> SUFFICES ASSUME NEW l \in Keys, NEW m \in 1..MaxAttempts, NEW o \in 1..MaxAttempts,
                      delivered'[l][m] > 0, delivered'[l][o] > 0
               PROVE  m = o
    BY DEF AtMostOneDigest
  <2>1. CASE l = k
    BY <2>1, <1>4, <1>5
  <2>2. CASE l # k
    BY <2>2, <1>4 DEF OnceInv, AtMostOneDigest
  <2> QED  BY <2>1, <2>2
<1> QED  BY <1>6, <1>7, <1>8

\* Without faults the outcome that is recorded is the true one.
LEMMA RecordOnce ==
  ASSUME OnceInv, NEW j \in Jobs, Record(j)
  PROVE  (\A i \in Jobs : HoldsClaim(i)') /\ MessageIsKnown' /\ AtMostOneDigest'
<1>1. /\ Key(j) \in Keys /\ InFlight(j)
      /\ \A l \in Keys \ {Key(j)} : delivery'[l] = delivery[l]
      /\ delivery'[Key(j)].status = IF job[j].reply.code = "ok" THEN "sent" ELSE "failed"
  BY RecordRow DEF OnceInv, Record, InFlight
<1>2. /\ delivered' = delivered /\ job'[j].pc = "loop"
      /\ \A i \in Jobs \ {j} : job'[i] = job[i] /\ Key(i)' = Key(i)
  BY DEF Record, OnceInv, IInv, TypeOK, Job, Key
<1>3. ASSUME NEW i \in Jobs PROVE HoldsClaim(i)'
  <2>1. CASE i = j
    BY <2>1, <1>2 DEF HoldsClaim, InFlight
  <2>2. CASE i # j
    <3> SUFFICES ASSUME InFlight(i) PROVE HoldsClaim(i)'
      BY <2>2, <1>2 DEF HoldsClaim, InFlight
    <3>1. Key(i) \in Keys /\ Key(i) # Key(j)
      BY <2>2, <1>1, OneInFlight DEF OnceInv, IInv, Working, InFlight
    <3> QED  BY <2>2, <3>1, <1>1, <1>2 DEF OnceInv, HoldsClaim, InFlight
  <2> QED  BY <2>1, <2>2
<1>4. MessageIsKnown'
  <2> SUFFICES ASSUME NEW k \in Keys, NEW n \in 1..MaxAttempts, delivered[k][n] = 1
               PROVE  \/ delivery'[k].status = "sent"
                      \/ \E i \in Jobs : /\ job'[i].pc = "record"
                                         /\ job'[i].reply.code = "ok"
                                         /\ Key(i)' = k /\ job'[i].attempt = n
    BY <1>2 DEF MessageIsKnown
  <2>1. CASE delivery[k].status = "sent"
    <3>1. delivery[Key(j)].status = "pending"
      BY <1>1 DEF OnceInv, HoldsClaim
    <3> QED  BY <2>1, <3>1, <1>1
  <2>2. ASSUME NEW i \in Jobs, job[i].pc = "record", job[i].reply.code = "ok",
               Key(i) = k, job[i].attempt = n
        PROVE  \/ delivery'[k].status = "sent"
               \/ /\ job'[i].pc = "record" /\ job'[i].reply.code = "ok"
                  /\ Key(i)' = k /\ job'[i].attempt = n
    BY <2>2, <1>1, <1>2
  <2> QED  BY <2>1, <2>2 DEF OnceInv, MessageIsKnown
<1>5. AtMostOneDigest'
  BY <1>2 DEF OnceInv, AtMostOneDigest
<1> QED  BY <1>3, <1>4, <1>5

\* Invocations stay young: the clock stops for the oldest one.
LEMMA YoungStep ==
  ASSUME Faults = {}, OnceInv, [Next]_vars
  PROVE  Young'
<1>1. /\ now \in Nat /\ \A j \in Jobs : job[j].current \in Nat
      /\ job \in [Jobs -> Job] /\ Young
  BY DEF OnceInv, IInv, TypeOK, Job
<1>2. CASE Tick
  BY <1>1, <1>2 DEF Tick, Young
<1>3. ASSUME NEW j \in Jobs, Start(j) PROVE Young'
  <2>1. job'[j].current = now /\ now' = now /\ \A i \in Jobs \ {j} : job'[i] = job[i]
    BY <1>1, <1>3 DEF Start, IdleJob
  <2> QED  BY <1>1, <2>1 DEF Young
<1>4. ASSUME NEW j \in Jobs, job[j].pc # "idle", now' = now,
             \A i \in Jobs \ {j} : job'[i] = job[i],
             job'[j].pc = "idle" \/ job'[j].current = job[j].current
      PROVE  Young'
  BY <1>1, <1>4 DEF Young
<1>5. ASSUME NEW j \in Jobs, JobStep(j) \/ Crash(j) PROVE Young'
  <2>1. CASE End(j) /\ job[j].pc # "idle"
    <3>1. job'[j].pc = "idle" /\ now' = now /\ \A i \in Jobs \ {j} : job'[i] = job[i]
      BY <1>1, <2>1 DEF End, IdleJob
    <3> QED  BY <1>4, <2>1, <3>1
  <2>2. CASE Conflict(j) \/ Finish(j) \/ DeadlockAbort(j) \/ Crash(j)
    BY <2>1, <2>2 DEF Conflict, Finish, DeadlockAbort, Deadlocked, Waits, Crash
  <2>3. CASE SkipNotDue(j)
    <3>1. /\ job[j].pc = "loop" /\ now' = now
          /\ job'[j].current = job[j].current /\ \A i \in Jobs \ {j} : job'[i] = job[i]
      BY <1>1, <2>3 DEF SkipNotDue, Job
    <3> QED  BY <1>4, <3>1
  <2>4. CASE NextRow(j)
    BY <1>1, <1>4, <2>4 DEF NextRow, Job
  <2>5. CASE Select(j)
    BY <1>1, <1>4, <2>5 DEF Select, Job
  <2>6. CASE Claim(j)
    BY <1>1, <1>4, <2>6 DEF Claim, Job
  <2>7. CASE Send(j)
    BY <1>1, <1>4, <2>7 DEF Send, Job
  <2>8. CASE Record(j)
    BY <1>1, <1>4, <2>8 DEF Record, Job
  <2> QED  BY <1>5, <2>2, <2>3, <2>4, <2>5, <2>6, <2>7, <2>8 DEF JobStep
<1>6. ASSUME now' = now, job' = job PROVE Young'
  BY <1>6, <1>1 DEF Young
<1> QED
  BY <1>2, <1>3, <1>5, <1>6 DEF Next, Patch, vars

\* The inductive step of the fault-free invariant.
LEMMA NextOnce == Faults = {} /\ OnceInv /\ [Next]_vars => OnceInv'
<1> SUFFICES ASSUME Faults = {}, OnceInv, [Next]_vars PROVE OnceInv'
  OBVIOUS
<1> DEFINE Kept == (\A i \in Jobs : HoldsClaim(i)') /\ MessageIsKnown' /\ AtMostOneDigest'
<1>1. IInv' /\ Young'
  BY NextIInv, YoungStep DEF OnceInv
<1>2. job \in [Jobs -> Job]
  BY DEF OnceInv, IInv, TypeOK
<1>3. ASSUME NEW j \in Jobs, Claim(j) PROVE Kept
  BY <1>3, ClaimOnce
<1>4. ASSUME NEW j \in Jobs, Send(j) PROVE Kept
  BY <1>4, SendOnce
<1>5. ASSUME NEW j \in Jobs, Record(j) PROVE Kept
  BY <1>5, RecordOnce
<1>6. ASSUME NEW j \in Jobs,
             Start(j) \/ SkipNotDue(j) \/ NextRow(j) \/ Select(j)
      PROVE  Kept
  <2>1. ~InFlight(j) /\ delivery' = delivery /\ delivered' = delivered
    BY <1>6 DEF InFlight, Start, SkipNotDue, NextRow, Select
  <2>2. job[j] \in Job
    BY <1>2
  <2>3. CASE Start(j)
    BY <1>2, <2>3, <2>1, QuietStep DEF InFlight, Start, IdleJob
  <2>4. CASE SkipNotDue(j)
    BY <1>2, <2>2, <2>4, <2>1, QuietStep DEF InFlight, SkipNotDue, Job
  <2>5. CASE NextRow(j)
    BY <1>2, <2>2, <2>5, <2>1, QuietStep DEF InFlight, NextRow, Job
  <2>6. CASE Select(j)
    BY <1>2, <2>2, <2>6, <2>1, QuietStep DEF InFlight, Select, Job
  <2> QED  BY <1>6, <2>3, <2>4, <2>5, <2>6
<1>7. ASSUME NEW j \in Jobs, Conflict(j) \/ Finish(j) \/ DeadlockAbort(j)
      PROVE  Kept
  <2>1. ~InFlight(j) /\ End(j)
    BY <1>7 DEF InFlight, Conflict, Finish, DeadlockAbort, Deadlocked, Waits
  <2>2. /\ ~InFlight(j)' /\ \A i \in Jobs \ {j} : job'[i] = job[i]
        /\ delivery' = delivery /\ delivered' = delivered
    BY <1>2, <2>1 DEF InFlight, End, IdleJob
  <2> QED  BY <2>1, <2>2, QuietStep
<1>8. ASSUME job' = job, delivery' = delivery, delivered' = delivered PROVE Kept
  BY <1>8 DEF OnceInv, HoldsClaim, InFlight, Key, MessageIsKnown, AtMostOneDigest
<1>9. Kept
  BY <1>3, <1>4, <1>5, <1>6, <1>7, <1>8, NoFaultMeansNoCrash
  DEF Next, JobStep, Patch, Tick, vars
<1> QED  BY <1>1, <1>9 DEF OnceInv

\* The README's sentence, under the assumptions it needs.
THEOREM OneDigestWithoutFaults ==
  ASSUME Faults = {}
  PROVE  Spec => []AtMostOneDigest
<1>1. Init => OnceInv
  BY InitOnce
<1>2. OnceInv /\ [Next]_vars => OnceInv'
  BY NextOnce
<1>3. OnceInv => AtMostOneDigest
  BY DEF OnceInv
<1> QED  BY <1>1, <1>2, <1>3, PTL DEF Spec

=============================================================================
