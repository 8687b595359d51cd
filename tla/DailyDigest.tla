---------------------------- MODULE DailyDigest ----------------------------
(***************************************************************************)
(* The Telegram daily balance sender (send_due_daily_balances) and the     *)
(* notification settings it reads.  Every scheduler invocation of          *)
(* app.jobs.telegram_daily_balance is a process of its own: invocations    *)
(* overlap, each one works with the clock value it read when it started,   *)
(* and they meet only in PostgreSQL (READ COMMITTED, row locks) and in the *)
(* external Bot API.                                                       *)
(*                                                                         *)
(* Time is an integer clock.  A row of telegram_digest_deliveries is a     *)
(* record under the key <<account, local date>>, None while it is absent.  *)
(* The text and the amounts of a digest are left out.                      *)
(***************************************************************************)
EXTENDS Integers

CONSTANTS
  Jobs,           \* invocations of the sender that may overlap
  Accounts,       \* linked Telegram accounts
  Zones,          \* offsets of the users' time zones from UTC
  DailyAts,       \* local times of day a user can ask for
  DayLength,      \* clock units in a day
  MaxTime,        \* bound on the clock, for TLC
  Lease,          \* DELIVERY_LEASE_SECONDS
  MaxAttempts,    \* MAX_DELIVERY_ATTEMPTS
  MaxRetryAfter,  \* MAX_RETRY_AFTER_SECONDS
  RetryAfters,    \* values of retry_after the Bot API may answer
  Faults,         \* which of the failures below can happen
  None            \* SQL NULL, no row, nobody

ASSUME ClockAssumption ==
  /\ DayLength \in Nat \ {0}
  /\ MaxTime \in Nat
  /\ Lease \in Nat \ {0}
  /\ MaxRetryAfter \in Nat
  /\ RetryAfters \subseteq Nat
  /\ Zones \subseteq Nat
  /\ DailyAts \subseteq Nat

ASSUME AttemptAssumption == MaxAttempts \in Nat \ {0}

\* "crash": an invocation dies, or an exception ends it, between two of its
\* steps.  "ambiguous": a request fails for the client after Telegram accepted
\* the message.  "overrun": an invocation outlives the lease.
ASSUME FaultAssumption == Faults \subseteq {"crash", "ambiguous", "overrun"}

\* The local date and time of day of clock value t in zone z.
LocalDate(t, z) == (t + z) \div DayLength
LocalTime(t, z) == (t + z) % DayLength

Dates == {LocalDate(t, z) : t \in 0..MaxTime, z \in Zones}
Keys == Accounts \X Dates

VARIABLES
  now,        \* the wall clock
  settings,   \* telegram_notification_settings, by account
  delivery,   \* committed rows of telegram_digest_deliveries, by key
  lock,       \* holder of the row lock of each delivery row
  job,        \* the local state of each invocation
  delivered   \* messages Telegram accepted, by key and attempt (history)

vars == <<now, settings, delivery, lock, job, delivered>>

Setting == [enabled : BOOLEAN, zone : Zones, daily_at : DailyAts]

Row == [status : {"pending", "failed", "sent"},
        attempts : 1..MaxAttempts,
        attempted_at : 0..MaxTime,
        retry_after : Nat \cup {None}]

\* The answers of sendMessage the sender tells apart.  "network" stands for a
\* RequestException and for the handler of any other exception, whose effect
\* is the same; "throttled" for every other HTTP error.
HttpErrors == {"bad_request", "forbidden", "throttled"}
Reply == [code : {"ok", "network"}, retry_after : {None}]
           \cup [code : HttpErrors, retry_after : RetryAfters \cup {None}]

\* None differs from every value it stands beside.
ASSUME NoneAssumption ==
  None \notin Jobs \cup Accounts \cup Int \cup Row \cup Reply

Job == [pc : {"idle", "loop", "select", "digest", "send", "record"},
        current : 0..MaxTime,
        todo : SUBSET Accounts,
        due : [Accounts -> Dates \cup {None}],
        row : Accounts \cup {None},
        attempt : 0..MaxAttempts,
        reply : Reply \cup {None}]

IdleJob == [pc |-> "idle", current |-> 0, todo |-> {},
            due |-> [a \in Accounts |-> None],
            row |-> None, attempt |-> 0, reply |-> None]

\* The delivery row an invocation is working on.
Key(j) == <<job[j].row, job[j].due[job[j].row]>>

\* _is_due: the local date, or None before the user's time of day.
DueDate(s, t) == IF LocalTime(t, s.zone) < s.daily_at THEN None
                 ELSE LocalDate(t, s.zone)

\* Slips in the reasons to leave a row alone: no look at "sent", no lease for a
\* pending row, no way back from pending.
ClaimableWhenSent(r, current) ==
  /\ r.retry_after # None => current >= r.retry_after
  /\ r.attempts < MaxAttempts
  /\ r.status = "pending" => current - r.attempted_at >= Lease

ClaimableWithoutLease(r, current) ==
  /\ r.status # "sent"
  /\ r.retry_after # None => current >= r.retry_after
  /\ r.attempts < MaxAttempts

ClaimableNeverAgain(r, current) ==
  /\ r.status = "failed"
  /\ r.retry_after # None => current >= r.retry_after
  /\ r.attempts < MaxAttempts

\* The four reasons to leave an existing row alone, negated.
Claimable(r, current) ==
  /\ r.status # "sent"
  /\ r.retry_after # None => current >= r.retry_after
  /\ r.attempts < MaxAttempts
  /\ r.status = "pending" => current - r.attempted_at >= Lease

\* COMMIT and ROLLBACK give back every row lock of the transaction.
Unlocked(j) == [k \in Keys |-> IF lock[k] = j THEN None ELSE lock[k]]

-----------------------------------------------------------------------------
Init ==
  /\ now = 0
  /\ settings \in [Accounts -> Setting]
  /\ delivery = [k \in Keys |-> None]
  /\ lock = [k \in Keys |-> None]
  /\ job = [j \in Jobs |-> IdleJob]
  /\ delivered = [k \in Keys |-> [n \in 1..MaxAttempts |-> 0]]

\* The scheduler starts an invocation: it reads the clock and the enabled
\* settings once, and works with these copies until it ends.
Start(j) ==
  /\ job[j].pc = "idle"
  /\ job' = [job EXCEPT ![j] =
       [IdleJob EXCEPT
          !.pc = "loop",
          !.current = now,
          !.todo = {a \in Accounts : settings[a].enabled},
          !.due = [a \in Accounts |-> IF settings[a].enabled
                                      THEN DueDate(settings[a], now) ELSE None]]]
  /\ UNCHANGED <<now, settings, delivery, lock, delivered>>

\* A row of the result set that is not due yet; the query has no ORDER BY.
SkipNotDue(j) ==
  /\ job[j].pc = "loop"
  /\ \E a \in job[j].todo :
       /\ job[j].due[a] = None
       /\ job' = [job EXCEPT ![j].todo = @ \ {a}]
  /\ UNCHANGED <<now, settings, delivery, lock, delivered>>

\* The next due row: SELECT ... FOR UPDATE is issued and may have to wait.
NextRow(j) ==
  /\ job[j].pc = "loop"
  /\ \E a \in job[j].todo :
       /\ job[j].due[a] # None
       /\ job' = [job EXCEPT ![j].pc = "select", ![j].row = a, ![j].todo = @ \ {a}]
  /\ UNCHANGED <<now, settings, delivery, lock, delivered>>

Waits(j) == job[j].pc = "select" /\ lock[Key(j)] \notin {None, j}

\* SELECT ... FOR UPDATE returns.  A row that is skipped stays locked until
\* the invocation next commits, rolls back or ends.
Select(j) ==
  /\ job[j].pc = "select"
  /\ ~Waits(j)
  /\ LET k == Key(j)
         go == delivery[k] # None => Claimable(delivery[k], job[j].current)
     IN /\ lock' = IF delivery[k] = None THEN lock ELSE [lock EXCEPT ![k] = j]
        /\ job' = IF go THEN [job EXCEPT ![j].pc = "digest"]
                  ELSE [job EXCEPT ![j].pc = "loop", ![j].row = None]
  /\ UNCHANGED <<now, settings, delivery, delivered>>

\* The row the sender writes when it claims a delivery.
Claimed(attempt, current) ==
  [status |-> "pending", attempts |-> attempt,
   attempted_at |-> current, retry_after |-> None]

\* A slip: the insert overwrites a row that appeared meanwhile.
ClaimByUpsert(j) ==
  LET k == Key(j)
      n == IF lock[k] = j THEN delivery[k].attempts + 1 ELSE 1
  IN /\ job[j].pc = "digest"
     /\ delivery' = [delivery EXCEPT ![k] = Claimed(n, job[j].current)]
     /\ lock' = Unlocked(j)
     /\ job' = [job EXCEPT ![j].pc = "send", ![j].attempt = n]
     /\ UNCHANGED <<now, settings, delivered>>

\* The digest is built; an existing row is claimed under its lock, an absent
\* one by INSERT ... ON CONFLICT DO NOTHING, and the claim is committed.
Claim(j) ==
  LET k == Key(j)
      n == IF delivery[k] = None THEN 1 ELSE delivery[k].attempts + 1
  IN /\ job[j].pc = "digest"
     /\ delivery[k] = None \/ lock[k] = j
     /\ delivery' = [delivery EXCEPT ![k] = Claimed(n, job[j].current)]
     /\ lock' = Unlocked(j)
     /\ job' = [job EXCEPT ![j].pc = "send", ![j].attempt = n]
     /\ UNCHANGED <<now, settings, delivered>>

\* A slip: the transaction of an ended invocation stays open.
EndWithoutRollback(j) ==
  /\ job' = [job EXCEPT ![j] = IdleJob]
  /\ UNCHANGED <<now, settings, delivery, lock, delivered>>

\* End of an invocation, however it ends: its session closes.
End(j) ==
  /\ lock' = Unlocked(j)
  /\ job' = [job EXCEPT ![j] = IdleJob]
  /\ UNCHANGED <<now, settings, delivery, delivered>>

\* Another invocation inserted the row after this one saw none.  ROLLBACK
\* expires the objects of the result set, and the next row's attributes
\* cannot be loaded lazily in an async session: the invocation ends here
\* (with no row left it would have ended anyway).
Conflict(j) ==
  /\ job[j].pc = "digest"
  /\ delivery[Key(j)] # None /\ lock[Key(j)] # j
  /\ End(j)

\* sendMessage: Telegram's verdict and what the client hears of it.
Send(j) ==
  /\ job[j].pc = "send"
  /\ \E r \in Reply, accepted \in BOOLEAN :
       /\ accepted => r.code = "ok" \/ (r.code = "network" /\ "ambiguous" \in Faults)
       /\ r.code = "ok" => accepted
       /\ job' = [job EXCEPT ![j].pc = "record", ![j].reply = r]
       /\ delivered' = IF accepted
                       THEN [delivered EXCEPT ![Key(j)][job[j].attempt] = @ + 1]
                       ELSE delivered
  /\ UNCHANGED <<now, settings, delivery, lock>>

SmallerOf(m, n) == IF m <= n THEN m ELSE n

\* Slips in the outcome: a failure gives its attempt back; any answer counts.
RecordedWithRefund(r, reply, current) ==
  [r EXCEPT
     !.status = IF reply.code = "ok" THEN "sent" ELSE "failed",
     !.attempts = IF reply.code # "ok" /\ @ > 1 THEN @ - 1 ELSE @]

RecordedAnyAnswer(r, reply, current) ==
  [r EXCEPT !.status = IF reply.code = "network" THEN "failed" ELSE "sent"]

\* The columns the final UPDATE writes: retry_after only if the answer had one.
Recorded(r, reply, current) ==
  [r EXCEPT
     !.status = IF reply.code = "ok" THEN "sent" ELSE "failed",
     !.retry_after = IF reply.retry_after = None THEN @
                     ELSE current + SmallerOf(reply.retry_after, MaxRetryAfter)]

\* A slip: the outcome is written past the row lock of another invocation.
RecordPastLock(j) ==
  LET k == Key(j)
      r == job[j].reply
  IN /\ job[j].pc = "record"
     /\ delivery' = [delivery EXCEPT ![k] = Recorded(@, r, job[j].current)]
     /\ settings' = IF r.code = "forbidden"
                    THEN [settings EXCEPT ![job[j].row].enabled = FALSE]
                    ELSE settings
     /\ job' = [job EXCEPT ![j].pc = "loop", ![j].row = None,
                           ![j].attempt = 0, ![j].reply = None]
     /\ UNCHANGED <<now, lock, delivered>>

\* The outcome is written and committed, by primary key, whoever holds the
\* claim by now; the UPDATE waits for the row lock.  403 disables the account.
Record(j) ==
  LET k == Key(j)
      r == job[j].reply
  IN /\ job[j].pc = "record"
     /\ lock[k] = None
     /\ delivery' = [delivery EXCEPT ![k] = Recorded(@, r, job[j].current)]
     /\ settings' = IF r.code = "forbidden"
                    THEN [settings EXCEPT ![job[j].row].enabled = FALSE]
                    ELSE settings
     /\ job' = [job EXCEPT ![j].pc = "loop", ![j].row = None,
                           ![j].attempt = 0, ![j].reply = None]
     /\ UNCHANGED <<now, lock, delivered>>

\* The loop is over.
Finish(j) ==
  /\ job[j].pc = "loop"
  /\ job[j].todo = {}
  /\ End(j)

\* The process dies or an exception leaves the loop, with work still to do.
Crash(j) ==
  /\ "crash" \in Faults
  /\ job[j].pc # "idle"
  /\ job[j].pc = "loop" => job[j].todo # {}
  /\ End(j)

\* PostgreSQL breaks a cycle of waiting transactions by failing one of them;
\* the exception ends the invocation.
Deadlocked(j) ==
  \E C \in SUBSET Jobs :
    /\ j \in C
    /\ \A i \in C : Waits(i) /\ lock[Key(i)] \in C
    /\ \A i \in C : \E h \in C : lock[Key(h)] = i

DeadlockAbort(j) ==
  /\ Deadlocked(j)
  /\ End(j)

\* PATCH /telegram/settings: any fields of the user's row.
Patch(a) ==
  /\ \E s \in Setting : settings' = [settings EXCEPT ![a] = s]
  /\ UNCHANGED <<now, delivery, lock, job, delivered>>

\* Time passes.  Without "overrun" no invocation is left to run as long as
\* the lease, measured from the clock value it carries.
Tick ==
  /\ now < MaxTime
  /\ "overrun" \in Faults
       \/ \A j \in Jobs : job[j].pc # "idle" => now + 1 - job[j].current < Lease
  /\ now' = now + 1
  /\ UNCHANGED <<settings, delivery, lock, job, delivered>>

JobStep(j) ==
  \/ SkipNotDue(j) \/ NextRow(j) \/ Select(j) \/ Claim(j) \/ Conflict(j)
  \/ Send(j) \/ Record(j) \/ Finish(j) \/ DeadlockAbort(j)

Next ==
  \/ \E j \in Jobs : Start(j) \/ JobStep(j) \/ Crash(j)
  \/ \E a \in Accounts : Patch(a)
  \/ Tick

Spec == Init /\ [][Next]_vars

\* A running invocation keeps running, the scheduler starts it again, and the
\* clock goes on.  PostgreSQL queues the transactions that wait for a row, so
\* one that waits for its turn again and again gets it (strong fairness).
Fairness ==
  /\ \A j \in Jobs : /\ WF_vars(JobStep(j)) /\ WF_vars(Start(j))
                    /\ SF_vars(Select(j)) /\ SF_vars(Record(j))
  /\ WF_vars(Tick)

FairSpec == Spec /\ Fairness

-----------------------------------------------------------------------------
(***************************************************************************)
(* Properties                                                              *)
(***************************************************************************)
\* Type correctness of the tables and of each invocation's local state.
TypeOK ==
  /\ now \in 0..MaxTime
  /\ settings \in [Accounts -> Setting]
  /\ delivery \in [Keys -> Row \cup {None}]
  /\ lock \in [Keys -> Jobs \cup {None}]
  /\ job \in [Jobs -> Job]
  /\ delivered \in [Keys -> [1..MaxAttempts -> Nat]]

InFlight(j) == job[j].pc \in {"send", "record"}

\* Two invocations that are past their claim of the same delivery hold
\* different attempts: the row lock and the unique constraint hand every
\* attempt to one invocation only.
AttemptsHaveOneOwner ==
  \A i, j \in Jobs :
    i # j /\ InFlight(i) /\ InFlight(j) /\ Key(i) = Key(j)
      => job[i].attempt # job[j].attempt

\* Telegram accepts at most one message per attempt counted in the row, so
\* never more than MAX_DELIVERY_ATTEMPTS for one account and local date,
\* whatever crashes, overruns or lies about its outcome.
OneMessagePerAttempt ==
  \A k \in Keys, n \in 1..MaxAttempts :
    /\ delivered[k][n] <= 1
    /\ delivered[k][n] = 1 => delivery[k] # None /\ n <= delivery[k].attempts

\* A row that says "sent" has a message behind it, also when the outcomes of
\* two invocations are written in the opposite order of their claims.
SentMeansAccepted ==
  \A k \in Keys :
    delivery[k] # None /\ delivery[k].status = "sent"
      => \E n \in 1..MaxAttempts : delivered[k][n] = 1

\* What a step may do to a row that exists.
JustifiedChange(r, s) ==
  /\ s # None
  /\ s.attempts # r.attempts =>
       /\ s.attempts = r.attempts + 1
       /\ r.status # "sent"
       /\ r.retry_after = None \/ r.retry_after <= s.attempted_at
       /\ r.status = "pending" => r.attempted_at + Lease <= s.attempted_at

JustifiedChanges == \A k \in Keys : delivery[k] # None => JustifiedChange(delivery[k], delivery'[k])

\* A row is claimed again only for the next attempt, never once it says
\* "sent", never before the retry_after it carries, and while it is pending
\* only after the lease: what an invocation checked is still true when it
\* writes its claim, although it builds the digest in between.
ReclaimIsJustified == [][JustifiedChanges]_vars

\* The rows and the messages in the terms of DigestPromise.
Promise == INSTANCE DigestPromise WITH
  attempts <- [k \in Keys |-> IF delivery[k] = None THEN 0 ELSE delivery[k].attempts],
  status <- [k \in Keys |-> IF delivery[k] = None THEN "none" ELSE delivery[k].status],
  messages <- delivered

\* The sender keeps the promise of DigestPromise under every fault.
KeepsPromise == Promise!PromiseSpec

\* README: at most one digest per account and local calendar date.
AtMostOneDigest ==
  \A k \in Keys : \A m, n \in 1..MaxAttempts :
    delivered[k][m] > 0 /\ delivered[k][n] > 0 => m = n

\* Every invocation ends: neither the locks of skipped rows nor a deadlock
\* between two invocations keeps one waiting for ever.
JobsEnd == \A j \in Jobs : []<>(job[j].pc = "idle")

\* Nothing more is to be done for a key: its row says "sent", it used up its
\* attempts, or it waits for a moment beyond the bound of the clock.
Settled(k) ==
  /\ delivery[k] # None
  /\ LET r == delivery[k]
     IN \/ r.status = "sent"
        \/ r.attempts = MaxAttempts
        \/ r.status = "pending" /\ r.attempted_at + Lease > MaxTime
        \/ r.retry_after # None /\ r.retry_after > MaxTime

\* Invocations do not crash for ever.
CrashesStop == <>[][\A j \in Jobs : ~Crash(j)]_vars

\* An account that stays enabled, with its digest of a date due to the end,
\* is served or its attempts are used up: no crash, conflict or abandoned
\* claim parks a delivery for good.
DueDigestIsSettled ==
  CrashesStop =>
    \A a \in Accounts, d \in Dates :
      <>[](settings[a].enabled /\ DueDate(settings[a], now) = d)
        => <>[]Settled(<<a, d>>)
=============================================================================
