------------------------- MODULE DailyDigestProofs -------------------------
(***************************************************************************)
(* Proofs about DailyDigest for every set of invocations and accounts,     *)
(* every lease and limit, and every combination of faults.                 *)
(***************************************************************************)
EXTENDS DailyDigest, TLAPS

USE ClockAssumption, AttemptAssumption

\* None is told apart from every value it stands beside.
LEMMA NoneDiffers ==
  None \notin Jobs /\ None \notin Accounts /\ None \notin Dates
    /\ None \notin Nat /\ None \notin Row /\ None \notin Reply
<1>1. \A t \in 0..MaxTime, z \in Zones : LocalDate(t, z) \in Int
  BY DEF LocalDate
<1>2. Dates \subseteq Int
  BY <1>1, Z3 DEF Dates, LocalDate
<1>3. Nat \subseteq Int
  OBVIOUS
<1> QED  BY <1>2, <1>3, NoneAssumption, Zenon

\* A due date is a date, or None.
LEMMA DueDateType ==
  ASSUME NEW s \in Setting, NEW t \in 0..MaxTime
  PROVE  DueDate(s, t) \in Dates \cup {None}
<1>1. s.zone \in Zones
  BY DEF Setting
<1>2. \A z \in Zones : LocalDate(t, z) \in Dates
  BY DEF Dates
<1> QED  BY <1>1, <1>2, Zenon DEF DueDate

\* An idle invocation is a job record.
LEMMA IdleJobType == IdleJob \in Job
BY DEF IdleJob, Job

\* The rows the sender writes are rows.
LEMMA ClaimedType ==
  ASSUME NEW n \in 1..MaxAttempts, NEW t \in 0..MaxTime
  PROVE  Claimed(n, t) \in Row
BY DEF Claimed, Row

\* A row is still a row once an outcome is recorded in it.
LEMMA RecordedType ==
  ASSUME NEW r \in Row, NEW reply \in Reply, NEW t \in 0..MaxTime
  PROVE  /\ Recorded(r, reply, t) \in Row
         /\ Recorded(r, reply, t).attempts = r.attempts
         /\ Recorded(r, reply, t).status = IF reply.code = "ok" THEN "sent" ELSE "failed"
<1>1. reply.retry_after \in Nat \cup {None} /\ r.retry_after \in Nat \cup {None}
  BY DEF Reply, Row
<1>2. (IF reply.retry_after = None THEN r.retry_after
       ELSE t + SmallerOf(reply.retry_after, MaxRetryAfter)) \in Nat \cup {None}
  BY <1>1 DEF SmallerOf
<1> QED  BY <1>2 DEF Recorded, Row

\* COMMIT and ROLLBACK leave locks held by invocations or by nobody.
LEMMA UnlockedType ==
  ASSUME lock \in [Keys -> Jobs \cup {None}], NEW j \in Jobs
  PROVE  Unlocked(j) \in [Keys -> Jobs \cup {None}]
BY DEF Unlocked

-----------------------------------------------------------------------------
\* The working row of an invocation and its claim are well formed.  It is
\* what makes TypeOK inductive: the row under Key(j) exists when it is used.
Working(j) ==
  /\ job[j].pc \in {"select", "digest", "send", "record"} => Key(j) \in Keys
  /\ InFlight(j) => /\ delivery[Key(j)] # None
                    /\ job[j].attempt \in 1..delivery[Key(j)].attempts
  /\ job[j].pc = "record" => job[j].reply # None

\* An invocation that reached the digest with the lock still sees a row it
\* may claim.
LockedClaim(j) ==
  job[j].pc = "digest" /\ lock[Key(j)] = j
    => delivery[Key(j)] # None /\ Claimable(delivery[Key(j)], job[j].current)

\* The claimed attempt is unused until the send and, after an "ok", used.
AttemptUse(j) ==
  /\ job[j].pc = "send" => delivered[Key(j)][job[j].attempt] = 0
  /\ job[j].pc = "record" /\ job[j].reply.code = "ok"
       => delivered[Key(j)][job[j].attempt] = 1

\* Only rows that exist are locked.
LockedRowsExist == \A k \in Keys : lock[k] # None => delivery[k] # None

IInv ==
  /\ TypeOK
  /\ LockedRowsExist
  /\ \A j \in Jobs : Working(j) /\ LockedClaim(j) /\ AttemptUse(j)
  /\ AttemptsHaveOneOwner
  /\ OneMessagePerAttempt
  /\ SentMeansAccepted

\* Initially nothing is running and there is no row.
LEMMA InitIInv == Init => IInv
<1> SUFFICES ASSUME Init PROVE IInv
  OBVIOUS
<1>1. \A j \in Jobs : job[j] = IdleJob /\ job[j].pc = "idle"
  BY DEF Init, IdleJob
<1>2. TypeOK
  BY IdleJobType DEF Init, TypeOK
<1>3. \A k \in Keys : delivery[k] = None /\ lock[k] = None
  BY DEF Init
<1>4. \A k \in Keys, n \in 1..MaxAttempts : delivered[k][n] = 0
  BY DEF Init
<1> QED
  BY <1>1, <1>2, <1>3, <1>4
  DEF IInv, LockedRowsExist, Working, LockedClaim, AttemptUse, InFlight,
      AttemptsHaveOneOwner, OneMessagePerAttempt, SentMeansAccepted

\* A step that leaves the rows and the messages alone and moves one
\* invocation to a program counter that claims nothing keeps the invariant.
LEMMA LocalStep ==
  ASSUME IInv, NEW j \in Jobs,
         now' \in 0..MaxTime, settings' \in [Accounts -> Setting],
         delivery' = delivery, delivered' = delivered,
         lock' \in [Keys -> Jobs \cup {None}],
         \A k \in Keys, i \in Jobs \ {j} : lock'[k] = i => lock[k] = i,
         \A k \in Keys : lock'[k] # None => delivery[k] # None,
         NEW q \in Job, job' = [job EXCEPT ![j] = q],
         q.pc \in {"idle", "loop", "select"},
         q.pc = "select" => <<q.row, q.due[q.row]>> \in Keys
  PROVE  IInv'
<1>1. TypeOK'
  BY DEF IInv, TypeOK
<1>2. job'[j] = q /\ \A i \in Jobs \ {j} : job'[i] = job[i] /\ Key(i)' = Key(i)
  BY DEF IInv, TypeOK, Key
<1>3. Key(j)' = <<q.row, q.due[q.row]>>
  BY <1>2 DEF Key
<1>4. ASSUME NEW i \in Jobs PROVE (Working(i) /\ LockedClaim(i) /\ AttemptUse(i))'
  <2>1. CASE i = j
    BY <2>1, <1>2, <1>3 DEF Working, LockedClaim, AttemptUse, InFlight
  <2>2. CASE i # j
    <3>1. Working(i) /\ LockedClaim(i) /\ AttemptUse(i)
      BY DEF IInv
    <3>2. job'[i] = job[i] /\ Key(i)' = Key(i)
      BY <2>2, <1>2
    <3>3. Working(i)' /\ AttemptUse(i)'
      BY <3>1, <3>2 DEF Working, AttemptUse, InFlight
    <3>4. job[i].pc = "digest" => Key(i) \in Keys
      BY <3>1 DEF Working
    <3>5. LockedClaim(i)'
      BY <3>1, <3>2, <3>4, <2>2 DEF LockedClaim
    <3> QED  BY <3>3, <3>5
  <2> QED  BY <2>1, <2>2
<1>5. AttemptsHaveOneOwner'
  BY <1>2 DEF IInv, AttemptsHaveOneOwner, InFlight
<1>6. OneMessagePerAttempt' /\ SentMeansAccepted'
  BY DEF IInv, OneMessagePerAttempt, SentMeansAccepted
<1>7. LockedRowsExist'
  BY DEF LockedRowsExist
<1> QED  BY <1>1, <1>4, <1>5, <1>6, <1>7 DEF IInv

\* The end of an invocation, whatever the reason.
LEMMA EndPreserves ==
  ASSUME IInv, NEW j \in Jobs, End(j)
  PROVE  IInv'
<1>1. lock' \in [Keys -> Jobs \cup {None}]
  BY UnlockedType DEF IInv, TypeOK, End
<1>2. /\ \A k \in Keys, i \in Jobs \ {j} : lock'[k] = i => lock[k] = i
      /\ \A k \in Keys : lock'[k] # None => delivery[k] # None
  BY NoneDiffers DEF End, Unlocked, IInv, LockedRowsExist
<1>3. IdleJob.pc = "idle"
  BY DEF IdleJob
<1> QED
  BY <1>1, <1>2, <1>3, IdleJobType, LocalStep DEF End, IInv, TypeOK

\* A new invocation claims nothing yet.
LEMMA StartPreserves ==
  ASSUME IInv, NEW j \in Jobs, Start(j)
  PROVE  IInv'
<1> DEFINE due == [a \in Accounts |-> IF settings[a].enabled
                                      THEN DueDate(settings[a], now) ELSE None]
           q == [IdleJob EXCEPT !.pc = "loop", !.current = now,
                   !.todo = {a \in Accounts : settings[a].enabled}, !.due = due]
<1>1. \A a \in Accounts : DueDate(settings[a], now) \in Dates \cup {None}
  BY DueDateType DEF IInv, TypeOK
<1>2. due \in [Accounts -> Dates \cup {None}]
  BY <1>1
<1>3. now \in 0..MaxTime /\ {a \in Accounts : settings[a].enabled} \subseteq Accounts
  BY DEF IInv, TypeOK
<1>4. job' = [job EXCEPT ![j] = q]
  BY DEF Start
<1> HIDE DEF due
<1>5. q \in Job /\ q.pc = "loop"
  BY <1>2, <1>3, IdleJobType DEF Job
<1> HIDE DEF q
<1> QED
  BY <1>4, <1>5, LocalStep DEF Start, IInv, TypeOK, LockedRowsExist

\* Passing over a row that is not due claims nothing.
LEMMA SkipNotDuePreserves ==
  ASSUME IInv, NEW j \in Jobs, SkipNotDue(j)
  PROVE  IInv'
<1>1. PICK a \in job[j].todo : job' = [job EXCEPT ![j].todo = @ \ {a}]
  BY DEF SkipNotDue
<1> DEFINE q == [job[j] EXCEPT !.todo = @ \ {a}]
<1>2. job[j] \in Job /\ job[j].pc = "loop"
  BY DEF IInv, TypeOK, SkipNotDue
<1>3. q \in Job /\ q.pc = "loop"
  BY <1>2 DEF Job
<1>4. job' = [job EXCEPT ![j] = q]
  BY <1>1 DEF IInv, TypeOK
<1> QED
  BY <1>3, <1>4, LocalStep DEF SkipNotDue, IInv, TypeOK, LockedRowsExist

\* Turning to the next due row claims nothing, and the row is due.
LEMMA NextRowPreserves ==
  ASSUME IInv, NEW j \in Jobs, NextRow(j)
  PROVE  IInv'
<1>1. PICK a \in job[j].todo :
        /\ job[j].due[a] # None
        /\ job' = [job EXCEPT ![j].pc = "select", ![j].row = a, ![j].todo = @ \ {a}]
  BY DEF NextRow
<1> DEFINE q == [job[j] EXCEPT !.pc = "select", !.row = a, !.todo = @ \ {a}]
<1>2. job[j] \in Job
  BY DEF IInv, TypeOK
<1>3. a \in Accounts /\ job[j].due[a] \in Dates
  BY <1>1, <1>2 DEF Job
<1>4. q \in Job /\ q.pc = "select" /\ q.row = a /\ q.due = job[j].due
  BY <1>2, <1>3 DEF Job
<1>5. <<q.row, q.due[q.row]>> \in Keys
  BY <1>3, <1>4 DEF Keys
<1>6. job' = [job EXCEPT ![j] = q]
  BY <1>1 DEF IInv, TypeOK
<1> HIDE DEF q
<1> QED
  BY <1>4, <1>5, <1>6, LocalStep DEF NextRow, IInv, TypeOK, LockedRowsExist

\* SELECT ... FOR UPDATE: the lock it takes was free or its own, and the
\* digest is built only for an absent row or a claimable one.
LEMMA SelectPreserves ==
  ASSUME IInv, NEW j \in Jobs, Select(j)
  PROVE  IInv'
<1> DEFINE k == Key(j)
<1>1. k \in Keys /\ lock[k] \in {None, j}
  BY DEF IInv, Working, Select, Waits
<1>2. lock' = (IF delivery[k] = None THEN lock ELSE [lock EXCEPT ![k] = j])
  BY DEF Select
<1>3. /\ lock' \in [Keys -> Jobs \cup {None}]
      /\ \A l \in Keys, i \in Jobs \ {j} : lock'[l] = i => lock[l] = i
      /\ \A l \in Keys : lock'[l] # None => delivery[l] # None
  BY <1>1, <1>2 DEF IInv, TypeOK, LockedRowsExist
<1>4. job[j] \in Job
  BY DEF IInv, TypeOK
<1>5. CASE delivery[k] # None /\ ~Claimable(delivery[k], job[j].current)
  <2> DEFINE q == [job[j] EXCEPT !.pc = "loop", !.row = None]
  <2>1. job' = [job EXCEPT ![j] = q]
    BY <1>5 DEF Select, IInv, TypeOK
  <2>2. q \in Job /\ q.pc = "loop"
    BY <1>4 DEF Job
  <2> HIDE DEF q
  <2> QED  BY <1>3, <2>1, <2>2, LocalStep DEF Select, IInv, TypeOK
<1>6. CASE delivery[k] # None => Claimable(delivery[k], job[j].current)
  <2>1. /\ job' = [job EXCEPT ![j].pc = "digest"]
        /\ delivery' = delivery /\ delivered' = delivered
        /\ now' = now /\ settings' = settings
    BY <1>6 DEF Select
  <2>2. /\ job'[j].pc = "digest" /\ job'[j].current = job[j].current
        /\ \A i \in Jobs : Key(i)' = Key(i)
        /\ \A i \in Jobs \ {j} : job'[i] = job[i]
    BY <2>1, <1>4 DEF Key, IInv, TypeOK, Job
  <2>3. TypeOK' /\ LockedRowsExist'
    <3>1. [job[j] EXCEPT !.pc = "digest"] \in Job
      BY <1>4 DEF Job
    <3> QED  BY <3>1, <1>3, <2>1 DEF IInv, TypeOK, LockedRowsExist
  <2>4. ASSUME NEW i \in Jobs PROVE (Working(i) /\ LockedClaim(i) /\ AttemptUse(i))'
    <3>1. CASE i = j
      <4>1. lock'[k] = j => delivery[k] # None
        BY <1>3, NoneDiffers, <1>1
      <4> QED
        BY <3>1, <4>1, <2>1, <2>2, <1>1, <1>6
        DEF Working, LockedClaim, AttemptUse, InFlight
    <3>2. CASE i # j
      <4>1. Working(i) /\ LockedClaim(i) /\ AttemptUse(i)
        BY DEF IInv
      <4>2. Working(i)' /\ AttemptUse(i)'
        BY <3>2, <4>1, <2>1, <2>2 DEF Working, AttemptUse, InFlight
      <4>3. LockedClaim(i)'
        BY <3>2, <4>1, <2>1, <2>2, <1>3 DEF LockedClaim, Working
      <4> QED  BY <4>2, <4>3
    <3> QED  BY <3>1, <3>2
  <2>5. AttemptsHaveOneOwner'
    BY <2>2 DEF IInv, AttemptsHaveOneOwner, InFlight
  <2>6. OneMessagePerAttempt' /\ SentMeansAccepted'
    BY <2>1 DEF IInv, OneMessagePerAttempt, SentMeansAccepted
  <2> QED  BY <2>3, <2>4, <2>5, <2>6 DEF IInv
<1> QED  BY <1>5, <1>6

\* The claim counts an attempt nobody else holds and no message has used.
LEMMA ClaimPreserves ==
  ASSUME IInv, NEW j \in Jobs, Claim(j)
  PROVE  IInv'
<1> DEFINE k == Key(j)
           n == IF delivery[k] = None THEN 1 ELSE delivery[k].attempts + 1
           r == Claimed(n, job[j].current)
<1>1. /\ k \in Keys
      /\ delivery[k] # None => lock[k] = j /\ Claimable(delivery[k], job[j].current)
  BY DEF IInv, Working, LockedClaim, Claim
<1>2. job[j] \in Job /\ delivery[k] \in Row \cup {None}
  BY <1>1 DEF IInv, TypeOK
<1>3. n \in 1..MaxAttempts /\ (delivery[k] # None => delivery[k].attempts < n)
  BY <1>1, <1>2 DEF Claimable, Row
<1>4. r \in Row /\ r # None /\ r.attempts = n /\ r.status = "pending"
  <2>1. r \in Row
    BY <1>2, <1>3, ClaimedType DEF Job
  <2> QED  BY <2>1, NoneDiffers DEF Claimed
<1>5. /\ delivery' = [delivery EXCEPT ![k] = r]
      /\ lock' = Unlocked(j)
      /\ job' = [job EXCEPT ![j].pc = "send", ![j].attempt = n]
      /\ now' = now /\ settings' = settings /\ delivered' = delivered
  BY DEF Claim
<1> HIDE DEF n, r
<1>6. lock' \in [Keys -> Jobs \cup {None}]
  BY <1>5, UnlockedType DEF IInv, TypeOK
<1>7. TypeOK' /\ LockedRowsExist'
  <2>1. [job[j] EXCEPT !.pc = "send", !.attempt = n] \in Job
    <3>1. n \in 0..MaxAttempts
      BY <1>3
    <3> HIDE DEF k
    <3> QED  BY <1>2, <3>1 DEF Job
  <2>2. job' = [job EXCEPT ![j] = [job[j] EXCEPT !.pc = "send", !.attempt = n]]
    BY <1>5 DEF IInv, TypeOK
  <2>3. TypeOK'
    BY <2>1, <2>2, <1>4, <1>5, <1>6 DEF IInv, TypeOK
  <2>4. LockedRowsExist'
    BY <1>4, <1>5 DEF LockedRowsExist, IInv, TypeOK, Unlocked
  <2> QED  BY <2>3, <2>4
<1>8. /\ job'[j].pc = "send" /\ job'[j].attempt = n
      /\ \A i \in Jobs : Key(i)' = Key(i)
      /\ \A i \in Jobs \ {j} : job'[i] = job[i]
  BY <1>2, <1>5 DEF Key, IInv, TypeOK, Job
<1>9. /\ delivery'[k] = r
      /\ \A l \in Keys \ {k} : delivery'[l] = delivery[l]
  BY <1>1, <1>5 DEF IInv, TypeOK
<1>10. delivered[k][n] = 0
  <2>1. delivered[k][n] \in Nat /\ delivered[k][n] <= 1
    BY <1>1, <1>3 DEF IInv, TypeOK, OneMessagePerAttempt
  <2>2. delivered[k][n] # 1
    BY <1>1, <1>2, <1>3 DEF IInv, OneMessagePerAttempt, Row
  <2> QED  BY <2>1, <2>2
<1>11. ASSUME NEW i \in Jobs PROVE (Working(i) /\ LockedClaim(i) /\ AttemptUse(i))'
  <2>1. CASE i = j
    BY <2>1, <1>1, <1>3, <1>4, <1>5, <1>8, <1>9, <1>10
    DEF Working, LockedClaim, AttemptUse, InFlight
  <2>2. CASE i # j
    <3>1. Working(i) /\ LockedClaim(i) /\ AttemptUse(i)
      BY DEF IInv
    <3>2. job'[i] = job[i] /\ Key(i)' = Key(i)
      BY <2>2, <1>8
    <3>3. CASE Key(i) = k
      <4>1. InFlight(i) => job[i].attempt \in 1..n
        BY <3>1, <3>3, <1>1, <1>2, <1>3 DEF Working, Row
      <4>2. lock'[k] # i
        BY <2>2, <1>1, <1>5, NoneDiffers DEF Unlocked, IInv, LockedRowsExist
      <4>3. Working(i)'
        BY <3>1, <3>2, <3>3, <4>1, <1>4, <1>9 DEF Working, InFlight
      <4> QED
        BY <3>1, <3>2, <3>3, <4>2, <4>3, <1>5 DEF LockedClaim, AttemptUse
    <3>4. CASE Key(i) # k
      <4>1. job[i].pc \in {"select", "digest", "send", "record"}
              => Key(i) \in Keys /\ delivery'[Key(i)] = delivery[Key(i)]
        BY <3>1, <3>4, <1>9 DEF Working
      <4>2. Key(i) \in Keys /\ lock'[Key(i)] = i => lock[Key(i)] = i
        BY <1>5, NoneDiffers DEF Unlocked
      <4> QED
        BY <3>1, <3>2, <4>1, <4>2, <1>5 DEF Working, LockedClaim, AttemptUse, InFlight
    <3> QED  BY <3>3, <3>4
  <2> QED  BY <2>1, <2>2
<1>12. AttemptsHaveOneOwner'
  <2> SUFFICES ASSUME NEW i \in Jobs \ {j}, InFlight(i), Key(i) = k
               PROVE  job[i].attempt # n
    BY <1>8 DEF IInv, AttemptsHaveOneOwner, InFlight
  <2>1. delivery[k] # None /\ job[i].attempt \in 1..delivery[k].attempts
    BY DEF IInv, Working
  <2> QED  BY <2>1, <1>2, <1>3 DEF Row
<1>13. OneMessagePerAttempt'
  <2> SUFFICES ASSUME NEW l \in Keys, NEW m \in 1..MaxAttempts, delivered[l][m] = 1
               PROVE  delivery'[l] # None /\ m <= delivery'[l].attempts
    BY <1>5 DEF IInv, OneMessagePerAttempt
  <2>1. delivery[l] # None /\ m <= delivery[l].attempts
    BY DEF IInv, OneMessagePerAttempt
  <2> QED  BY <2>1, <1>2, <1>3, <1>4, <1>9 DEF Row
<1>14. SentMeansAccepted'
  BY <1>4, <1>5, <1>9 DEF IInv, SentMeansAccepted
<1> QED  BY <1>7, <1>11, <1>12, <1>13, <1>14 DEF IInv

\* A message is accepted for the attempt the sender owns, and for no other.
LEMMA SendPreserves ==
  ASSUME IInv, NEW j \in Jobs, Send(j)
  PROVE  IInv'
<1> DEFINE k == Key(j)
           n == job[j].attempt
<1>1. PICK r \in Reply, accepted \in BOOLEAN :
        /\ r.code = "ok" => accepted
        /\ job' = [job EXCEPT ![j].pc = "record", ![j].reply = r]
        /\ delivered' = IF accepted THEN [delivered EXCEPT ![k][n] = @ + 1]
                        ELSE delivered
  BY DEF Send
<1>2. /\ now' = now /\ settings' = settings /\ delivery' = delivery /\ lock' = lock
      /\ job[j].pc = "send"
  BY DEF Send
<1>3. /\ k \in Keys /\ delivery[k] # None /\ n \in 1..delivery[k].attempts
      /\ delivered[k][n] = 0
  BY <1>2 DEF IInv, Working, AttemptUse, InFlight
<1>4. job[j] \in Job /\ delivery[k] \in Row
  BY <1>3 DEF IInv, TypeOK
<1>5. n \in 1..MaxAttempts
  BY <1>3, <1>4 DEF Row
<1>6. /\ delivered' \in [Keys -> [1..MaxAttempts -> Nat]]
      /\ delivered'[k][n] = IF accepted THEN 1 ELSE 0
      /\ \A l \in Keys, m \in 1..MaxAttempts :
           l # k \/ m # n => delivered'[l][m] = delivered[l][m]
  BY <1>1, <1>3, <1>5 DEF IInv, TypeOK
<1> HIDE DEF n
<1>7. TypeOK' /\ LockedRowsExist'
  <2>1. [job[j] EXCEPT !.pc = "record", !.reply = r] \in Job
    BY <1>4 DEF Job
  <2>2. job' = [job EXCEPT ![j] = [job[j] EXCEPT !.pc = "record", !.reply = r]]
    BY <1>1 DEF IInv, TypeOK
  <2> QED  BY <2>1, <2>2, <1>2, <1>6 DEF IInv, TypeOK, LockedRowsExist
<1>8. /\ job'[j].pc = "record" /\ job'[j].reply = r /\ job'[j].attempt = n
      /\ \A i \in Jobs : Key(i)' = Key(i) /\ job'[i].attempt = job[i].attempt
      /\ \A i \in Jobs \ {j} : job'[i] = job[i]
  BY <1>1, <1>4 DEF Key, n, IInv, TypeOK, Job
<1>9. ASSUME NEW i \in Jobs PROVE (Working(i) /\ LockedClaim(i) /\ AttemptUse(i))'
  <2>1. CASE i = j
    BY <2>1, <1>1, <1>2, <1>3, <1>6, <1>8, NoneDiffers
    DEF Working, LockedClaim, AttemptUse, InFlight
  <2>2. CASE i # j
    <3>1. Working(i) /\ LockedClaim(i) /\ AttemptUse(i)
      BY DEF IInv
    <3>2. job'[i] = job[i] /\ Key(i)' = Key(i)
      BY <2>2, <1>8
    <3>3. Working(i)' /\ LockedClaim(i)'
      BY <3>1, <3>2, <1>2 DEF Working, LockedClaim, InFlight
    <3>4. ASSUME InFlight(i)
          PROVE  delivered'[Key(i)][job[i].attempt] = delivered[Key(i)][job[i].attempt]
      <4>1. Key(i) \in Keys /\ job[i].attempt \in 1..MaxAttempts
        BY <3>1, <3>4 DEF Working, InFlight, Row, IInv, TypeOK
      <4>2. Key(i) # k \/ job[i].attempt # n
        BY <2>2, <3>4, <1>2 DEF IInv, AttemptsHaveOneOwner, InFlight, n
      <4> QED  BY <4>1, <4>2, <1>6
    <3> QED  BY <3>1, <3>2, <3>3, <3>4 DEF AttemptUse, InFlight
  <2> QED  BY <2>1, <2>2
<1>10. AttemptsHaveOneOwner'
  BY <1>2, <1>8 DEF IInv, AttemptsHaveOneOwner, InFlight
<1>11. OneMessagePerAttempt'
  <2> SUFFICES ASSUME NEW l \in Keys, NEW m \in 1..MaxAttempts
               PROVE  /\ delivered'[l][m] <= 1
                      /\ delivered'[l][m] = 1 => delivery[l] # None /\ m <= delivery[l].attempts
    BY <1>2 DEF OneMessagePerAttempt
  <2>1. CASE l = k /\ m = n
    BY <2>1, <1>3, <1>4, <1>6 DEF Row
  <2>2. CASE l # k \/ m # n
    BY <2>2, <1>6 DEF IInv, OneMessagePerAttempt
  <2> QED  BY <2>1, <2>2
<1>12. SentMeansAccepted'
  <2> SUFFICES ASSUME NEW l \in Keys, delivery[l] # None, delivery[l].status = "sent"
               PROVE  \E m \in 1..MaxAttempts : delivered'[l][m] = 1
    BY <1>2 DEF SentMeansAccepted
  <2>1. PICK m \in 1..MaxAttempts : delivered[l][m] = 1
    BY DEF IInv, SentMeansAccepted
  <2>2. l # k \/ m # n
    BY <2>1, <1>3
  <2> QED  BY <2>1, <2>2, <1>6
<1> QED  BY <1>7, <1>9, <1>10, <1>11, <1>12 DEF IInv

\* A late outcome changes a row nobody has locked, so no check made under
\* the lock is undone by it.
LEMMA RecordPreserves ==
  ASSUME IInv, NEW j \in Jobs, Record(j)
  PROVE  IInv'
<1> DEFINE k == Key(j)
           r == job[j].reply
           row == Recorded(delivery[k], r, job[j].current)
           q == [job[j] EXCEPT !.pc = "loop", !.row = None,
                               !.attempt = 0, !.reply = None]
<1>1. /\ k \in Keys /\ lock[k] = None /\ delivery[k] # None /\ r # None
      /\ job[j].attempt \in 1..delivery[k].attempts
      /\ r.code = "ok" => delivered[k][job[j].attempt] = 1
      /\ now' = now /\ lock' = lock /\ delivered' = delivered
  BY DEF Record, IInv, Working, AttemptUse, InFlight
<1>2. /\ job[j] \in Job /\ delivery[k] \in Row /\ r \in Reply
      /\ job[j].current \in 0..MaxTime
  BY <1>1 DEF IInv, TypeOK, Job
<1>3. /\ row \in Row /\ row # None /\ row.attempts = delivery[k].attempts
      /\ row.status = IF r.code = "ok" THEN "sent" ELSE "failed"
  BY <1>2, RecordedType, NoneDiffers
<1>4. q \in Job /\ q.pc = "loop"
  <2>1. 0 \in 0..MaxAttempts
    OBVIOUS
  <2> QED  BY <1>2, <2>1 DEF Job
<1>5. /\ delivery' = [delivery EXCEPT ![k] = row]
      /\ job' = [job EXCEPT ![j] = q]
  BY DEF Record, IInv, TypeOK
<1>6. settings' \in [Accounts -> Setting]
  BY DEF Record, IInv, TypeOK, Setting
<1> HIDE DEF row, q
<1>7. TypeOK' /\ LockedRowsExist'
  BY <1>1, <1>3, <1>4, <1>5, <1>6 DEF IInv, TypeOK, LockedRowsExist
<1>8. /\ delivery'[k] = row
      /\ \A l \in Keys \ {k} : delivery'[l] = delivery[l]
      /\ \A l \in Keys : delivery[l] # None =>
           delivery'[l] # None /\ delivery'[l].attempts = delivery[l].attempts
  BY <1>1, <1>3, <1>5 DEF IInv, TypeOK
<1>9. job'[j] = q /\ \A i \in Jobs \ {j} : job'[i] = job[i] /\ Key(i)' = Key(i)
  BY <1>5 DEF IInv, TypeOK, Key
<1>10. ASSUME NEW i \in Jobs PROVE (Working(i) /\ LockedClaim(i) /\ AttemptUse(i))'
  <2>1. CASE i = j
    BY <2>1, <1>4, <1>9 DEF Working, LockedClaim, AttemptUse, InFlight
  <2>2. CASE i # j
    <3>1. Working(i) /\ LockedClaim(i) /\ AttemptUse(i)
      BY DEF IInv
    <3>2. job'[i] = job[i] /\ Key(i)' = Key(i)
      BY <2>2, <1>9
    <3>3. Working(i)'
      BY <3>1, <3>2, <1>8 DEF Working, InFlight
    <3>4. LockedClaim(i)'
      BY <3>1, <3>2, <1>1, <1>8, NoneDiffers DEF LockedClaim, Working
    <3> QED  BY <3>1, <3>2, <3>3, <3>4, <1>1 DEF AttemptUse
  <2> QED  BY <2>1, <2>2
<1>11. AttemptsHaveOneOwner'
  BY <1>4, <1>9 DEF IInv, AttemptsHaveOneOwner, InFlight
<1>12. OneMessagePerAttempt'
  BY <1>1, <1>8 DEF IInv, OneMessagePerAttempt
<1>13. SentMeansAccepted'
  <2> SUFFICES ASSUME NEW l \in Keys, delivery'[l] # None, delivery'[l].status = "sent"
               PROVE  \E m \in 1..MaxAttempts : delivered[l][m] = 1
    BY <1>1 DEF SentMeansAccepted
  <2>1. CASE l = k
    <3>1. delivered[k][job[j].attempt] = 1
      BY <2>1, <1>1, <1>3, <1>8
    <3>2. job[j].attempt \in 1..MaxAttempts
      BY <1>1, <1>2 DEF Row
    <3> QED  BY <2>1, <3>1, <3>2
  <2>2. CASE l # k
    BY <2>2, <1>8 DEF IInv, SentMeansAccepted
  <2> QED  BY <2>1, <2>2
<1> QED  BY <1>7, <1>10, <1>11, <1>12, <1>13 DEF IInv

-----------------------------------------------------------------------------
\* The inductive step: one step per action.
LEMMA NextIInv == IInv /\ [Next]_vars => IInv'
<1> SUFFICES ASSUME IInv, [Next]_vars PROVE IInv'
  OBVIOUS
<1>1. ASSUME NEW j \in Jobs, Start(j) PROVE IInv'
  BY <1>1, StartPreserves
<1>2. ASSUME NEW j \in Jobs, SkipNotDue(j) PROVE IInv'
  BY <1>2, SkipNotDuePreserves
<1>3. ASSUME NEW j \in Jobs, NextRow(j) PROVE IInv'
  BY <1>3, NextRowPreserves
<1>4. ASSUME NEW j \in Jobs, Select(j) PROVE IInv'
  BY <1>4, SelectPreserves
<1>5. ASSUME NEW j \in Jobs, Claim(j) PROVE IInv'
  BY <1>5, ClaimPreserves
<1>6. ASSUME NEW j \in Jobs, Send(j) PROVE IInv'
  BY <1>6, SendPreserves
<1>7. ASSUME NEW j \in Jobs, Record(j) PROVE IInv'
  BY <1>7, RecordPreserves
<1>8. ASSUME NEW j \in Jobs, Conflict(j) \/ Finish(j) \/ DeadlockAbort(j) \/ Crash(j)
      PROVE  IInv'
  BY <1>8, EndPreserves DEF Conflict, Finish, DeadlockAbort, Crash
<1>9. ASSUME now' \in 0..MaxTime, settings' \in [Accounts -> Setting],
             delivery' = delivery, lock' = lock, job' = job, delivered' = delivered
      PROVE  IInv'
  BY <1>9 DEF IInv, TypeOK, LockedRowsExist, Working, LockedClaim, AttemptUse,
              InFlight, Key, AttemptsHaveOneOwner, OneMessagePerAttempt, SentMeansAccepted
<1>10. ASSUME NEW a \in Accounts, Patch(a) PROVE IInv'
  BY <1>9, <1>10 DEF Patch, IInv, TypeOK
<1>11. CASE Tick
  BY <1>9, <1>11 DEF Tick, IInv, TypeOK
<1>12. CASE UNCHANGED vars
  BY <1>9, <1>12 DEF vars, IInv, TypeOK
<1> QED
  BY <1>1, <1>2, <1>3, <1>4, <1>5, <1>6, <1>7, <1>8, <1>10, <1>11, <1>12
  DEF Next, JobStep

\* The inductive invariant holds in every reachable state of the sender.
THEOREM Invariance == Spec => []IInv
BY InitIInv, NextIInv, PTL DEF Spec

\* Every table and every local state of an invocation keeps its type.
THEOREM TypeCorrect == Spec => []TypeOK
<1>1. IInv => TypeOK
  BY DEF IInv
<1> QED  BY <1>1, Invariance, PTL

\* The row lock and the unique constraint give an attempt to one invocation,
\* however many overlap.
THEOREM AttemptOwnership == Spec => []AttemptsHaveOneOwner
<1>1. IInv => AttemptsHaveOneOwner
  BY DEF IInv
<1> QED  BY <1>1, Invariance, PTL

\* Telegram accepts at most one message per counted attempt, so at most
\* MaxAttempts of them for an account and a local date.
THEOREM MessageBound == Spec => []OneMessagePerAttempt
<1>1. IInv => OneMessagePerAttempt
  BY DEF IInv
<1> QED  BY <1>1, Invariance, PTL

\* A row says "sent" only if a message is behind it.
THEOREM SentIsTrue == Spec => []SentMeansAccepted
<1>1. IInv => SentMeansAccepted
  BY DEF IInv
<1> QED  BY <1>1, Invariance, PTL

-----------------------------------------------------------------------------
\* Rows change only when they are claimed and when an outcome is recorded.
LEMMA RowsUntouched ==
  ASSUME IInv, [Next]_vars,
         \A j \in Jobs : ~Claim(j), \A j \in Jobs : ~Record(j)
  PROVE  delivery' = delivery
BY DEF Next, JobStep, Start, SkipNotDue, NextRow, Select, Conflict, Send, Finish,
       DeadlockAbort, Crash, End, Patch, Tick, vars

\* A claim changes one row, as JustifiedChange allows.
LEMMA ClaimRow ==
  ASSUME IInv, NEW j \in Jobs, Claim(j)
  PROVE  /\ Key(j) \in Keys
         /\ \A l \in Keys \ {Key(j)} : delivery'[l] = delivery[l]
         /\ delivery'[Key(j)] # None
         /\ delivery'[Key(j)].status = "pending"
         /\ delivery'[Key(j)].attempted_at = job[j].current
         /\ delivery'[Key(j)].attempts =
              IF delivery[Key(j)] = None THEN 1 ELSE delivery[Key(j)].attempts + 1
         /\ delivery[Key(j)] # None => Claimable(delivery[Key(j)], job[j].current)
<1> DEFINE k == Key(j)
           n == IF delivery[k] = None THEN 1 ELSE delivery[k].attempts + 1
           r == Claimed(n, job[j].current)
<1>1. /\ k \in Keys
      /\ delivery[k] # None => Claimable(delivery[k], job[j].current)
      /\ job[j].current \in 0..MaxTime /\ delivery[k] \in Row \cup {None}
  BY DEF IInv, Working, LockedClaim, Claim, TypeOK, Job
<1>2. n \in 1..MaxAttempts
  BY <1>1 DEF Claimable, Row
<1>3. r \in Row /\ r # None
  BY <1>1, <1>2, ClaimedType, NoneDiffers
<1>4. delivery' = [delivery EXCEPT ![k] = r]
  BY DEF Claim
<1>5. r.status = "pending" /\ r.attempted_at = job[j].current /\ r.attempts = n
  BY DEF Claimed
<1> HIDE DEF r, k
<1>6. delivery'[k] = r /\ \A l \in Keys \ {k} : delivery'[l] = delivery[l]
  BY <1>1, <1>4 DEF IInv, TypeOK
<1> QED  BY <1>1, <1>3, <1>5, <1>6 DEF k

\* An outcome changes one row and keeps its attempts.
LEMMA RecordRow ==
  ASSUME IInv, NEW j \in Jobs, Record(j)
  PROVE  /\ Key(j) \in Keys /\ lock[Key(j)] = None
         /\ \A l \in Keys \ {Key(j)} : delivery'[l] = delivery[l]
         /\ delivery[Key(j)] # None /\ delivery'[Key(j)] # None
         /\ delivery'[Key(j)].attempts = delivery[Key(j)].attempts
         /\ delivery'[Key(j)].status =
              IF job[j].reply.code = "ok" THEN "sent" ELSE "failed"
<1> DEFINE k == Key(j)
           row == Recorded(delivery[k], job[j].reply, job[j].current)
<1>1. /\ k \in Keys /\ lock[k] = None /\ delivery[k] # None
      /\ job[j].reply # None
  BY DEF Record, IInv, Working, InFlight
<1>2. delivery[k] \in Row /\ job[j].reply \in Reply /\ job[j].current \in 0..MaxTime
  BY <1>1 DEF IInv, TypeOK, Job
<1>3. /\ row \in Row /\ row # None /\ row.attempts = delivery[k].attempts
      /\ row.status = IF job[j].reply.code = "ok" THEN "sent" ELSE "failed"
  BY <1>2, RecordedType, NoneDiffers
<1>4. delivery' = [delivery EXCEPT ![k] = row]
  BY DEF Record
<1> HIDE DEF row, k
<1>5. delivery'[k] = row /\ \A l \in Keys \ {k} : delivery'[l] = delivery[l]
  BY <1>1, <1>4 DEF IInv, TypeOK
<1> QED  BY <1>1, <1>3, <1>5 DEF k

\* A row is claimed again only when it may be: what was checked under the
\* lock, before the digest was built, holds when the claim is written.
THEOREM ReclaimRule == Spec => ReclaimIsJustified
<1>1. ASSUME IInv, [Next]_vars, NEW k \in Keys, delivery[k] # None
      PROVE  JustifiedChange(delivery[k], delivery'[k])
  <2>1. CASE \A j \in Jobs : ~Claim(j) /\ ~Record(j)
    BY <1>1, <2>1, RowsUntouched DEF JustifiedChange
  <2>2. ASSUME NEW j \in Jobs, Claim(j), Key(j) = k
        PROVE  JustifiedChange(delivery[k], delivery'[k])
    <3>1. delivery[k] \in Row /\ job[j].current \in 0..MaxTime
      BY <1>1 DEF IInv, TypeOK, Job
    <3>2. /\ delivery'[k] # None
          /\ delivery'[k].attempts = delivery[k].attempts + 1
          /\ delivery'[k].attempted_at = job[j].current
          /\ Claimable(delivery[k], job[j].current)
      BY <1>1, <2>2, ClaimRow
    <3> QED  BY <3>1, <3>2 DEF Claimable, Row, JustifiedChange
  <2>3. ASSUME NEW j \in Jobs, Claim(j), Key(j) # k
        PROVE  JustifiedChange(delivery[k], delivery'[k])
    BY <1>1, <2>3, ClaimRow DEF JustifiedChange
  <2>4. ASSUME NEW j \in Jobs, Record(j)
        PROVE  JustifiedChange(delivery[k], delivery'[k])
    BY <1>1, <2>4, RecordRow DEF JustifiedChange
  <2> QED  BY <2>1, <2>2, <2>3, <2>4
<1>2. IInv /\ [Next]_vars => [JustifiedChanges]_vars
  BY <1>1 DEF JustifiedChanges
<1> QED
  BY <1>2, Invariance, PTL DEF Spec, ReclaimIsJustified

-----------------------------------------------------------------------------
\* The sender implements DigestPromise: its first state is an initial state
\* of the promise, and every step is a step of the promise or a stutter.
LEMMA PromiseStart == Init => Promise!PromiseInit
BY DEF Init, Promise!PromiseInit

\* A claim is the beginning of an attempt.
LEMMA ClaimKeeps ==
  ASSUME IInv, NEW j \in Jobs, Claim(j), NEW k \in Keys, k = Key(j)
  PROVE  Promise!BeginAttempt(k)
<1> DEFINE A == [l \in Keys |-> IF delivery[l] = None THEN 0 ELSE delivery[l].attempts]
           B == [l \in Keys |-> IF delivery'[l] = None THEN 0 ELSE delivery'[l].attempts]
           S == [l \in Keys |-> IF delivery[l] = None THEN "none" ELSE delivery[l].status]
           T == [l \in Keys |-> IF delivery'[l] = None THEN "none" ELSE delivery'[l].status]
<1>1. /\ delivery'[k] # None /\ delivery'[k].status = "pending"
      /\ \A l \in Keys \ {k} : delivery'[l] = delivery[l]
      /\ delivery'[k].attempts =
           IF delivery[k] = None THEN 1 ELSE delivery[k].attempts + 1
      /\ delivery[k] # None => delivery[k].status # "sent" /\ delivery[k].attempts < MaxAttempts
  BY ClaimRow DEF Claimable
<1>2. /\ delivered' = delivered
      /\ delivery \in [Keys -> Row \cup {None}] /\ delivery' \in [Keys -> Row \cup {None}]
  BY ClaimPreserves DEF Claim, IInv, TypeOK
<1>3. B = [A EXCEPT ![k] = @ + 1]
  <2>1. A \in [Keys -> Nat] /\ B \in [Keys -> Nat]
    BY <1>2 DEF Row
  <2>2. B[k] = A[k] + 1 /\ \A l \in Keys \ {k} : B[l] = A[l]
    BY <1>1
  <2> HIDE DEF A, B
  <2> QED  BY <2>1, <2>2
<1>4. T = [S EXCEPT ![k] = "pending"]
  BY <1>1
<1>5. S[k] # "sent" /\ A[k] < MaxAttempts
  BY <1>1
<1> QED  BY <1>2, <1>3, <1>4, <1>5 DEF Promise!BeginAttempt

\* An accepted message is a delivery of the promise.
LEMMA SendKeeps ==
  ASSUME IInv, NEW j \in Jobs, Send(j), NEW k \in Keys, k = Key(j)
  PROVE  Promise!Deliver(k) \/ delivered' = delivered
<1> DEFINE n == job[j].attempt
<1>1. /\ delivery[k] # None /\ n \in 1..delivery[k].attempts
      /\ delivered[k][n] = 0 /\ delivery' = delivery
  BY DEF Send, IInv, Working, AttemptUse, InFlight
<1>2. CASE delivered' = [delivered EXCEPT ![k][n] = @ + 1]
  <2>1. delivered' = [delivered EXCEPT ![k][n] = 1]
    BY <1>1, <1>2
  <2> QED  BY <1>1, <2>1 DEF Promise!Deliver
<1> QED  BY <1>2 DEF Send

\* An outcome is a conclusion of the promise: "sent" only after a message.
LEMMA RecordKeeps ==
  ASSUME IInv, NEW j \in Jobs, Record(j), NEW k \in Keys, k = Key(j)
  PROVE  Promise!Conclude(k)
<1> DEFINE s == IF job[j].reply.code = "ok" THEN "sent" ELSE "failed"
<1>1. /\ delivery[k] # None /\ delivery'[k] # None
      /\ \A l \in Keys \ {k} : delivery'[l] = delivery[l]
      /\ delivery'[k].attempts = delivery[k].attempts
      /\ delivery'[k].status = s
  BY RecordRow
<1>2. delivered' = delivered /\ delivery' \in [Keys -> Row \cup {None}]
  BY RecordPreserves DEF Record, IInv, TypeOK
<1>3. job[j].attempt \in 1..delivery[k].attempts
      /\ (s = "sent" => delivered[k][job[j].attempt] = 1)
  BY DEF Record, IInv, Working, AttemptUse, InFlight
<1>4. delivery[k].attempts > 0
  BY <1>1 DEF IInv, TypeOK, Row
<1>5. s \in {"failed", "sent"}
  OBVIOUS
<1> HIDE DEF s
<1> QED  BY <1>1, <1>2, <1>3, <1>4, <1>5 DEF Promise!Conclude

\* Every step of the sender is a step of the promise or a stutter.
LEMMA StepKeeps == IInv /\ [Next]_vars => [Promise!PromiseNext]_(Promise!promise)
<1> SUFFICES ASSUME IInv, [Next]_vars
             PROVE  Promise!PromiseNext \/ UNCHANGED Promise!promise
  OBVIOUS
<1>1. ASSUME NEW j \in Jobs, Claim(j) PROVE Promise!PromiseNext
  <2>1. PICK k \in Keys : k = Key(j)
    BY <1>1, ClaimRow
  <2> QED  BY <1>1, <2>1, ClaimKeeps DEF Promise!PromiseNext
<1>2. ASSUME NEW j \in Jobs, Record(j) PROVE Promise!PromiseNext
  <2>1. PICK k \in Keys : k = Key(j)
    BY <1>2, RecordRow
  <2> QED  BY <1>2, <2>1, RecordKeeps DEF Promise!PromiseNext
<1>3. ASSUME NEW j \in Jobs, Send(j)
      PROVE  Promise!PromiseNext \/ UNCHANGED Promise!promise
  <2>1. PICK k \in Keys : k = Key(j) /\ delivery' = delivery
    BY <1>3 DEF Send, IInv, Working
  <2> QED
    BY <1>3, <2>1, SendKeeps DEF Promise!PromiseNext, Promise!promise
<1>4. CASE \A j \in Jobs : ~Claim(j) /\ ~Record(j) /\ ~Send(j)
  <2>1. delivery' = delivery
    BY <1>4, RowsUntouched
  <2>2. delivered' = delivered
    BY <1>4 DEF Next, JobStep, Start, SkipNotDue, NextRow, Select, Conflict, Finish,
                DeadlockAbort, Crash, End, Patch, Tick, vars
  <2> QED  BY <2>1, <2>2 DEF Promise!promise
<1> QED  BY <1>1, <1>2, <1>3, <1>4

\* README's "idempotent sender", as far as it goes: under every fault the
\* sender behaves as DigestPromise allows.
THEOREM PromiseKept == Spec => KeepsPromise
BY PromiseStart, StepKeeps, Invariance, PTL DEF Spec, KeepsPromise, Promise!PromiseSpec

=============================================================================
