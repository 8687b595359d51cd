---------------------------- MODULE SnapshotJobs ----------------------------
(***************************************************************************)
(* Asking the external snapshot service for work: the refresh endpoints,    *)
(* the retry of failed chains, the refresh after a wallet is created and    *)
(* the scheduler loop.  They all make one HTTP call in a thread of the      *)
(* pool, and the call can be answered, refused, or lost on the way.           *)
(*                                                                         *)
(* The service is modelled by what its callers rely on: for an owner and a  *)
(* scope it creates a run or reports the one that is still active.          *)
(***************************************************************************)
EXTENDS Integers, FiniteSets

CONSTANTS
  Users, WalletIds, Groups,
  Owner,       \* the user a wallet or a group belongs to
  Requests,    \* requests and background tasks that may be under way at once
  Jobs,        \* ids of snapshot runs, given out in order; the bound for TLC
  Codes,       \* the status codes of the service that are tried, 202 among them
  None,        \* no run, no call
  All,         \* the scope of everything a user has
  Scheduler    \* the scheduler, as a caller

ASSUME JobsAssumption ==
  /\ Owner \in [WalletIds \cup Groups -> Users]
  /\ WalletIds \cap Groups = {}
  /\ Scheduler \notin Requests
  /\ Jobs \subseteq Nat
  /\ None \notin Users \cup WalletIds \cup Groups \cup Jobs \cup {All}
  /\ All \notin WalletIds \cup Groups
  /\ 202 \in Codes /\ Codes \subseteq {202, 400, 401, 404, 409, 422, 500}

VARIABLES
  active,     \* the wallets that are there and active, the groups that are there
  runs,       \* table snapshot_runs (and the failed rows of chain_snapshots)
  caller,     \* the call each caller waits for
  accepted,   \* outcome="accepted" of both counters, by run
  todo        \* the users left in the scheduler's tick; None while it sleeps

vars == <<active, runs, caller, accepted, todo>>

Callers == Requests \cup {Scheduler}
Scopes == WalletIds \cup Groups \cup {All}
Terminal == {"success", "partial_success", "failed"}

\* What a caller posts; asker is the user on whose behalf it does so, counted
\* whether the endpoint counts what came of the call.
Call == [counted : BOOLEAN, user : Users, scope : Scopes, parent : Jobs \cup {None}, asker : Users]
Run == [user : Users, scope : Scopes, parent : Jobs \cup {None}, asker : Users,
        status : {"running"} \cup Terminal, failed : BOOLEAN]

\* What is none of them.
ASSUME NothingAssumption == None \notin Call \cup Run

Accepted == [code : {202}, job : Jobs, reused : BOOLEAN]
Refused == [code : Codes \ {202}, job : {None}, reused : {FALSE}]
Reply == Accepted \cup Refused

Init ==
  /\ active = {}
  /\ runs = [j \in Jobs |-> None]
  /\ caller = [c \in Callers |-> None]
  /\ accepted = [j \in Jobs |-> 0]
  /\ todo = None

-----------------------------------------------------------------------------
\* The callers.

Post(c, call) ==
  /\ caller[c] = None
  /\ caller' = [caller EXCEPT ![c] = call]

\* POST /snapshots: everything the user has, a wallet of his that is active,
\* or a group of his.
MayRefresh(u, scope) == scope # All => Owner[scope] = u /\ scope \in active

Refresh(r) == \E u \in Users, s \in Scopes :
  /\ MayRefresh(u, s)
  /\ Post(r, [counted |-> TRUE, user |-> u, scope |-> s, parent |-> None, asker |-> u])
  /\ UNCHANGED <<active, runs, accepted, todo>>

\* POST /wallets/{id}/snapshots: the same for one wallet, not counted.
RefreshWallet(r) == \E u \in Users, w \in WalletIds :
  /\ MayRefresh(u, w)
  /\ Post(r, [counted |-> FALSE, user |-> u, scope |-> w, parent |-> None, asker |-> u])
  /\ UNCHANGED <<active, runs, accepted, todo>>

\* A slip: a run may be retried while it is under way.
MayRetryEarly(u, j) == runs[j] # None /\ runs[j].user = u /\ runs[j].failed

\* The checks of the retry endpoint: the user's own run, terminal, with a
\* failed chain.
MayRetry(u, j) ==
  /\ runs[j] # None /\ runs[j].user = u
  /\ runs[j].status \in {"partial_success", "failed"}
  /\ runs[j].failed

\* POST /snapshot-jobs/{id}/retry-failed; the service learns the run only.
Retry(r) == \E u \in Users, j \in Jobs :
  /\ MayRetry(u, j)
  /\ Post(r, [counted |-> TRUE, user |-> runs[j].user, scope |-> runs[j].scope,
              parent |-> j, asker |-> u])
  /\ UNCHANGED <<active, runs, accepted, todo>>

\* POST /wallets: the wallet is committed, and a task that nobody awaits asks
\* for its first snapshot.
CreateWallet(r) == \E w \in WalletIds :
  /\ w \notin active
  /\ active' = active \cup {w}
  /\ Post(r, [counted |-> FALSE, user |-> Owner[w], scope |-> w, parent |-> None, asker |-> Owner[w]])
  /\ UNCHANGED <<runs, accepted, todo>>

\* The other changes of wallets and groups, by other endpoints.
Change == \E x \in WalletIds \cup Groups :
  /\ active' = IF x \in active THEN active \ {x} ELSE active \cup {x}
  /\ UNCHANGED <<runs, caller, accepted, todo>>

-----------------------------------------------------------------------------
\* The scheduler loop.

Scheduled == {u \in Users : \E w \in WalletIds : Owner[w] = u /\ w \in active}

\* The loop wakes up and reads the users with an active wallet.  (When the
\* read fails the tick is over: nothing happens.)
Tick ==
  /\ todo = None
  /\ todo' = Scheduled
  /\ UNCHANGED <<active, runs, caller, accepted>>

\* The call for the next user, in the order the rows came in.
CallNext ==
  /\ todo # None
  /\ \E u \in todo :
       /\ Post(Scheduler, [counted |-> FALSE, user |-> u, scope |-> All, parent |-> None, asker |-> u])
       /\ todo' = todo \ {u}
  /\ UNCHANGED <<active, runs, accepted>>

\* All users have been called for; the loop sleeps.
TickEnds ==
  /\ todo = {} /\ caller[Scheduler] = None
  /\ todo' = None
  /\ UNCHANGED <<active, runs, caller, accepted>>

-----------------------------------------------------------------------------
\* The snapshot service.

Active(call) == {j \in Jobs : /\ runs[j] # None /\ runs[j].status = "running"
                              /\ runs[j].user = call.user /\ runs[j].scope = call.scope
                              /\ runs[j].parent = call.parent}

\* It reports the active run of the same scope, creates one, or refuses.
Handle(call, reply) ==
  \/ /\ \E j \in Active(call) : reply = [code |-> 202, job |-> j, reused |-> TRUE]
     /\ UNCHANGED runs
  \/ /\ Active(call) = {}
     /\ \E j \in Jobs :
          /\ runs[j] = None /\ \A i \in Jobs : i < j => runs[i] # None
          /\ reply = [code |-> 202, job |-> j, reused |-> FALSE]
          /\ runs' = [runs EXCEPT ![j] =
               [user |-> call.user, scope |-> call.scope, parent |-> call.parent,
                asker |-> call.asker, status |-> "running", failed |-> FALSE]]
  \/ reply \in Refused /\ UNCHANGED runs

\* A run fails on a chain, and a run ends.
Progress == \E j \in Jobs :
  /\ runs[j] # None /\ runs[j].status = "running"
  /\ \/ ~runs[j].failed /\ runs' = [runs EXCEPT ![j].failed = TRUE]
     \/ \E s \in (IF runs[j].failed THEN {"partial_success", "failed"} ELSE {"success", "failed"}) :
          runs' = [runs EXCEPT ![j].status = s]
  /\ UNCHANGED <<active, caller, accepted, todo>>

-----------------------------------------------------------------------------
\* The end of a call.

\* The status a client sees: the service's trouble is a 502, its complaints
\* about the request are passed on, and a retry of a run it no longer knows
\* is a conflict.
Status(call, code) ==
  CASE code = 202 -> 202
    [] code = 422 \/ (call.parent # None /\ code \in {400, 409}) -> code
    [] call.parent # None /\ code = 404 -> 409
    [] OTHER -> 502

\* A slip: a run that is reported again counts as accepted again.
OutcomeBlind(call, reply) == IF Status(call, reply.code) = 202 THEN "accepted" ELSE "rejected"

Outcome(call, reply) ==
  LET status == Status(call, reply.code) IN
  CASE status = 202 -> IF reply.reused THEN "already_running" ELSE "accepted"
    [] status < 500 -> "rejected"
    [] OTHER -> "unavailable"

\* POST /snapshots and the retry count what came of the call.
Count(call, reply) ==
  accepted' = IF call.counted /\ Outcome(call, reply) = "accepted"
              THEN [accepted EXCEPT ![reply.job] = @ + 1] ELSE accepted

\* The service handles a call, and the caller gets the answer.
Answer(c) ==
  /\ caller[c] # None
  /\ \E reply \in Reply : Handle(caller[c], reply) /\ Count(caller[c], reply)
  /\ caller' = [caller EXCEPT ![c] = None]
  /\ UNCHANGED <<active, todo>>

\* No answer in time, no connection, or a body that cannot be read: 502.  The
\* service may have done the work all the same.
GiveUp(c) ==
  /\ caller[c] # None
  /\ \E reply \in Reply : Handle(caller[c], reply)
  /\ caller' = [caller EXCEPT ![c] = None]
  /\ UNCHANGED <<active, accepted, todo>>

\* A slip: the first user the service refuses ends the tick.
StopAtRefusal ==
  /\ caller[Scheduler] # None
  /\ \E reply \in Reply : /\ Handle(caller[Scheduler], reply)
                          /\ todo' = IF reply.code = 202 THEN todo ELSE {}
  /\ caller' = [caller EXCEPT ![Scheduler] = None]
  /\ UNCHANGED <<active, accepted>>

\* SnapshotServiceError or not, the loop goes on with the next user.
SchedulerReturns == Answer(Scheduler) \/ GiveUp(Scheduler)

Next ==
  \/ \E r \in Requests : \/ Refresh(r) \/ RefreshWallet(r) \/ Retry(r) \/ CreateWallet(r)
                         \/ Answer(r) \/ GiveUp(r)
  \/ Change \/ Tick \/ CallNext \/ TickEnds \/ SchedulerReturns
  \/ Progress

Spec == Init /\ [][Next]_vars

\* The loop keeps running, and its call is answered or given up: every call
\* has a timeout.
Fairness ==
  /\ WF_vars(Tick) /\ WF_vars(CallNext) /\ WF_vars(TickEnds)
  /\ WF_vars(SchedulerReturns)

FairSpec == Spec /\ Fairness

-----------------------------------------------------------------------------
\* The tables and the local state have the shape the actions rely on.
TypeOK ==
  /\ active \subseteq WalletIds \cup Groups
  /\ runs \in [Jobs -> Run \cup {None}]
  /\ caller \in [Callers -> Call \cup {None}]
  /\ accepted \in [Jobs -> Nat]
  /\ todo \in (SUBSET Users) \cup {None}

\* However calls overlap, get lost or arrive a run counts as accepted at
\* most once: the counters tell new work from work that was under way.
AcceptedOnce == \A j \in Jobs : accepted[j] <= 1

\* A run was asked for by the user it belongs to, for a wallet or a group of
\* that user; and a retry follows a run of the same user that is over and has
\* failed chains, although it was looked up before the call was made.
RunsAreFounded == \A j \in Jobs : runs[j] # None =>
  LET run == runs[j] IN
  /\ run.asker = run.user
  /\ run.scope # All => Owner[run.scope] = run.user
  /\ run.parent # None =>
       /\ runs[run.parent].user = run.user
       /\ runs[run.parent].status \in Terminal /\ runs[run.parent].failed

\* Whatever the service does with the calls for others, the scheduler asks
\* again and again for a user who keeps an active wallet.
SchedulerReachesEveryone == \A u \in Users :
  <>[](u \in Scheduled) =>
    []<>(caller[Scheduler] # None /\ caller[Scheduler].user = u)
=============================================================================
