------------------------- MODULE SnapshotJobsProofs -------------------------
(***************************************************************************)
(* Proofs about SnapshotJobs: for any number of users, wallets, requests   *)
(* and runs, and whatever answers get lost, a run counts as accepted at    *)
(* most once, and every run is founded on a request of its owner.          *)
(*                                                                         *)
(* The invariant says that what was checked before a call was posted is    *)
(* still true when the service handles it: runs that are over stay over.   *)
(***************************************************************************)
EXTENDS SnapshotJobs, TLAPS

\* What was checked of a call, or of the run that came of it.
Founded(x) ==
  /\ x.asker = x.user
  /\ x.scope # All => Owner[x.scope] = x.user
  /\ x.parent # None =>
       /\ runs[x.parent] # None
       /\ runs[x.parent].user = x.user
       /\ runs[x.parent].status \in Terminal /\ runs[x.parent].failed

CallsAreFounded == \A c \in Callers : caller[c] # None => Founded(caller[c])

\* The same of the runs; that the parent is a run is what RunsAreFounded leaves
\* to the reader.
ParentsAreRuns == \A j \in Jobs : runs[j] # None => Founded(runs[j])

\* Only what exists is counted.
CountedRunsExist == \A j \in Jobs : runs[j] = None => accepted[j] = 0

IInv == TypeOK /\ AcceptedOnce /\ CountedRunsExist /\ CallsAreFounded /\ ParentsAreRuns

-----------------------------------------------------------------------------
\* A step after which every run has the owner it had, is over if it was over,
\* and has failed chains if it had.
RunsKept == \A j \in Jobs : runs[j] # None =>
  /\ runs'[j] # None
  /\ runs'[j].user = runs[j].user /\ runs'[j].scope = runs[j].scope
  /\ runs'[j].parent = runs[j].parent /\ runs'[j].asker = runs[j].asker
  /\ runs[j].status \in Terminal /\ runs[j].failed =>
       runs'[j].status \in Terminal /\ runs'[j].failed

\* What was checked stays true while runs go on.
LEMMA FoundedKept ==
  ASSUME RunsKept, NEW x, x.parent \in Jobs \cup {None}, Founded(x)
  PROVE  Founded(x)'
BY DEF RunsKept, Founded

\* Calls that are kept, while runs go on.
LEMMA CallsKept ==
  ASSUME IInv, RunsKept, NEW c \in Callers, caller[c] # None, caller'[c] = caller[c]
  PROVE  Founded(caller[c])'
<1>1. PICK x \in Call : x = caller[c]
  BY DEF IInv, TypeOK
<1>2. Founded(x)'
  BY <1>1, FoundedKept DEF IInv, CallsAreFounded, Call
<1> QED BY <1>1, <1>2 DEF Founded

\* A caller that had none posts a call that was checked; nothing else changes
\* of what the invariant is about.
LEMMA PostStep ==
  ASSUME IInv, NEW c \in Callers, NEW call \in Call, Post(c, call), Founded(call),
         active' \subseteq WalletIds \cup Groups, todo' \in (SUBSET Users) \cup {None},
         UNCHANGED <<runs, accepted>>
  PROVE  IInv'
<1>1. TypeOK'
  BY DEF IInv, TypeOK, Post
<1>2. AcceptedOnce' /\ CountedRunsExist' /\ ParentsAreRuns'
  BY DEF IInv, AcceptedOnce, CountedRunsExist, ParentsAreRuns, Founded
<1>3. CallsAreFounded'
  <2> SUFFICES ASSUME NEW d \in Callers, caller'[d] # None PROVE Founded(caller[d])'
    BY DEF CallsAreFounded
  <2>1. CASE d = c
    <3>1. caller'[d] = call
      BY <2>1 DEF Post, IInv, TypeOK
    <3> QED BY <3>1 DEF Founded
  <2>2. CASE d # c
    <3>1. caller'[d] = caller[d]
      BY <2>2 DEF Post, IInv, TypeOK
    <3> QED BY <3>1 DEF IInv, CallsAreFounded, Founded
  <2> QED BY <2>1, <2>2
<1> QED BY <1>1, <1>2, <1>3 DEF IInv

\* A call that starts from nothing but its user.
LEMMA RefreshStep ==
  ASSUME IInv, NEW r \in Requests, Refresh(r) \/ RefreshWallet(r) PROVE IInv'
<1>1. PICK u \in Users, s \in Scopes, b \in BOOLEAN :
        /\ MayRefresh(u, s)
        /\ Post(r, [counted |-> b, user |-> u, scope |-> s, parent |-> None, asker |-> u])
  BY DEF Refresh, RefreshWallet, Scopes
<1> DEFINE call == [counted |-> b, user |-> u, scope |-> s, parent |-> None, asker |-> u]
<1>2. call \in Call /\ Founded(call)
  BY <1>1 DEF Call, Founded, MayRefresh
<1>3. r \in Callers /\ UNCHANGED <<active, runs, accepted, todo>>
  BY DEF Callers, Refresh, RefreshWallet
<1> HIDE DEF call
<1>4. Post(r, call)
  BY <1>1 DEF call
<1> QED BY <1>2, <1>3, <1>4, PostStep DEF IInv, TypeOK

\* A retry has looked at its run, and asks for what that run was for.
LEMMA RetryStep == ASSUME IInv, NEW r \in Requests, Retry(r) PROVE IInv'
<1>1. PICK u \in Users, j \in Jobs :
        /\ MayRetry(u, j)
        /\ Post(r, [counted |-> TRUE, user |-> runs[j].user, scope |-> runs[j].scope,
                    parent |-> j, asker |-> u])
  BY DEF Retry
<1>2. PICK run \in Run : run = runs[j] /\ Founded(run) /\ run.user = u
  BY <1>1 DEF MayRetry, IInv, TypeOK, ParentsAreRuns
<1> DEFINE call == [counted |-> TRUE, user |-> u, scope |-> run.scope, parent |-> j, asker |-> u]
<1>3. call \in Call
  BY DEF Call, Run
<1>4. Founded(call)
  BY <1>1, <1>2 DEF Founded, MayRetry, Terminal
<1>5. r \in Callers /\ UNCHANGED <<active, runs, accepted, todo>>
  BY DEF Callers, Retry
<1>6. Post(r, call)
  BY <1>1, <1>2
<1> HIDE DEF call
<1> QED BY <1>3, <1>4, <1>5, <1>6, PostStep DEF IInv, TypeOK

\* A new wallet, and the call for its first snapshot.
LEMMA CreateWalletStep == ASSUME IInv, NEW r \in Requests, CreateWallet(r) PROVE IInv'
<1>1. PICK w \in WalletIds :
        /\ active' = active \cup {w}
        /\ Post(r, [counted |-> FALSE, user |-> Owner[w], scope |-> w, parent |-> None,
                    asker |-> Owner[w]])
  BY DEF CreateWallet
<1>2. Owner[w] \in Users
  BY JobsAssumption
<1> DEFINE call == [counted |-> FALSE, user |-> Owner[w], scope |-> w, parent |-> None,
                    asker |-> Owner[w]]
<1>3. call \in Call /\ Founded(call)
  BY <1>2 DEF Call, Founded, Scopes
<1>4. /\ r \in Callers /\ UNCHANGED <<runs, accepted, todo>>
      /\ active' \subseteq WalletIds \cup Groups
  BY <1>1 DEF Callers, CreateWallet, IInv, TypeOK
<1>5. Post(r, call)
  BY <1>1
<1> HIDE DEF call
<1> QED BY <1>3, <1>4, <1>5, PostStep DEF IInv, TypeOK

\* The scheduler asks for the next of its users.
LEMMA CallNextStep == ASSUME IInv, CallNext PROVE IInv'
<1>1. todo \subseteq Users
  BY JobsAssumption DEF CallNext, IInv, TypeOK
<1>2. PICK u \in todo :
        /\ Post(Scheduler, [counted |-> FALSE, user |-> u, scope |-> All, parent |-> None,
                            asker |-> u])
        /\ todo' = todo \ {u}
  BY DEF CallNext
<1> DEFINE call == [counted |-> FALSE, user |-> u, scope |-> All, parent |-> None, asker |-> u]
<1>3. call \in Call /\ Founded(call)
  BY <1>1 DEF Call, Founded, Scopes
<1>4. Scheduler \in Callers /\ UNCHANGED <<active, runs, accepted>> /\ todo' \in SUBSET Users
  BY <1>1, <1>2 DEF Callers, CallNext
<1>5. Post(Scheduler, call)
  BY <1>2
<1> HIDE DEF call
<1> QED BY <1>3, <1>4, <1>5, PostStep DEF IInv, TypeOK

\* Wallets and groups come and go; the scheduler wakes up and goes to sleep.
LEMMA OtherStep == ASSUME IInv, Change \/ Tick \/ TickEnds PROVE IInv'
<1>1. TypeOK'
  BY DEF Change, Tick, TickEnds, Scheduled, IInv, TypeOK
<1>2. UNCHANGED <<runs, caller, accepted>>
  BY DEF Change, Tick, TickEnds
<1> QED BY <1>1, <1>2 DEF IInv, AcceptedOnce, CountedRunsExist, CallsAreFounded,
                          ParentsAreRuns, Founded

-----------------------------------------------------------------------------
\* The end of a call, and the progress of a run: the calls that are left and
\* the runs are founded, if the one that changed is.
LEMMA RunsStep ==
  ASSUME IInv, TypeOK', RunsKept,
         \A d \in Callers : caller'[d] # None => caller'[d] = caller[d],
         \A j \in Jobs : runs'[j] = None => runs[j] = None /\ accepted'[j] = accepted[j],
         \A j \in Jobs : accepted'[j] <= 1,
         \A j \in Jobs : runs'[j] # None =>
           \E x \in Run \cup Call :
             /\ Founded(x) /\ x.user = runs'[j].user /\ x.scope = runs'[j].scope
             /\ x.parent = runs'[j].parent /\ x.asker = runs'[j].asker
  PROVE  IInv'
<1>1. AcceptedOnce' /\ CountedRunsExist'
  BY DEF IInv, AcceptedOnce, CountedRunsExist
<1>2. CallsAreFounded'
  <2> SUFFICES ASSUME NEW d \in Callers, caller'[d] # None PROVE Founded(caller[d])'
    BY DEF CallsAreFounded
  <2> QED BY CallsKept
<1>3. ParentsAreRuns'
  <2> SUFFICES ASSUME NEW j \in Jobs, runs'[j] # None PROVE Founded(runs[j])'
    BY DEF ParentsAreRuns
  <2>1. PICK x \in Run \cup Call :
          /\ Founded(x) /\ x.user = runs'[j].user /\ x.scope = runs'[j].scope
          /\ x.parent = runs'[j].parent /\ x.asker = runs'[j].asker
    OBVIOUS
  <2>2. x.parent \in Jobs \cup {None}
    BY DEF Run, Call
  <2>3. Founded(x)'
    BY <2>1, <2>2, FoundedKept
  <2> QED BY <2>1, <2>3 DEF Founded
<1> QED BY <1>1, <1>2, <1>3 DEF IInv

\* What counts as accepted is a new run.
LEMMA CountedIsNew ==
  ASSUME NEW call, NEW reply \in Reply, call.counted, Outcome(call, reply) = "accepted"
  PROVE  reply \in Accepted /\ ~reply.reused
<1>1. reply.code = 202
  BY JobsAssumption DEF Outcome, Status, Reply, Accepted, Refused
<1>2. ~reply.reused
  BY <1>1 DEF Outcome, Status
<1> QED BY <1>1, <1>2 DEF Reply, Accepted, Refused

\* The service has handled a call, and its caller has the answer, or none.
LEMMA HandleStep ==
  ASSUME IInv, NEW c \in Callers, NEW reply \in Reply,
         caller[c] # None, Handle(caller[c], reply),
         Count(caller[c], reply) \/ UNCHANGED accepted,
         caller' = [caller EXCEPT ![c] = None], UNCHANGED <<active, todo>>
  PROVE  IInv'
<1>1. PICK call \in Call : call = caller[c] /\ Founded(call)
  BY DEF IInv, TypeOK, CallsAreFounded
<1>2. /\ caller' \in [Callers -> Call \cup {None}]
      /\ \A d \in Callers : caller'[d] # None => caller'[d] = caller[d]
  BY DEF IInv, TypeOK
<1>3. CASE UNCHANGED <<runs, accepted>>
  <2>1. TypeOK' /\ RunsKept
    BY <1>2, <1>3 DEF IInv, TypeOK, RunsKept
  <2>2. \A j \in Jobs : runs'[j] # None => runs[j] \in Run /\ Founded(runs[j])
    BY <1>3 DEF IInv, TypeOK, ParentsAreRuns
  <2> QED BY <1>2, <1>3, <2>1, <2>2, RunsStep DEF IInv, AcceptedOnce
<1>4. CASE ~UNCHANGED <<runs, accepted>>
  <2>1. PICK j \in Jobs :
          /\ runs[j] = None
          /\ reply.job = j
          /\ runs' = [runs EXCEPT ![j] =
               [user |-> call.user, scope |-> call.scope, parent |-> call.parent,
                asker |-> call.asker, status |-> "running", failed |-> FALSE]]
    <3>1. accepted' # accepted => reply \in Accepted /\ ~reply.reused
      BY <1>1, CountedIsNew DEF Count
    <3>2. CASE UNCHANGED runs
      <4>1. reply \in Accepted /\ ~reply.reused
        BY <1>4, <3>1, <3>2
      <4>2. reply \notin Refused
        BY <4>1 DEF Accepted, Refused
      <4> QED BY <1>1, <4>1, <4>2 DEF Handle
    <3>3. CASE ~UNCHANGED runs
      BY <1>1, <3>3 DEF Handle
    <3> QED BY <3>2, <3>3
  <2> DEFINE run == [user |-> call.user, scope |-> call.scope, parent |-> call.parent,
                     asker |-> call.asker, status |-> "running", failed |-> FALSE]
  <2>2. /\ run \in Run
        /\ run.user = call.user /\ run.scope = call.scope
        /\ run.parent = call.parent /\ run.asker = call.asker
    BY DEF Call, Run
  <2>3. runs' = [runs EXCEPT ![j] = run] /\ run # None
    BY <2>1, <2>2, NothingAssumption
  <2> HIDE DEF run
  <2>4. /\ accepted' = accepted \/ accepted' = [accepted EXCEPT ![j] = @ + 1]
        /\ accepted[j] = 0
    BY <2>1 DEF Count, IInv, CountedRunsExist
  <2>5. /\ accepted' \in [Jobs -> Nat]
        /\ \A i \in Jobs : accepted'[i] <= 1 /\ (i # j => accepted'[i] = accepted[i])
    BY <2>4 DEF IInv, TypeOK, AcceptedOnce
  <2>6. TypeOK'
    BY <1>2, <2>2, <2>3, <2>5 DEF IInv, TypeOK
  <2>7. /\ runs'[j] = run
        /\ \A i \in Jobs : i # j => runs'[i] = runs[i]
    BY <2>3 DEF IInv, TypeOK
  <2>8. RunsKept
    BY <2>1, <2>7 DEF RunsKept
  <2>9. \A i \in Jobs : runs'[i] = None => runs[i] = None /\ accepted'[i] = accepted[i]
    BY <2>3, <2>5, <2>7
  <2>10. ASSUME NEW i \in Jobs, runs'[i] # None
         PROVE  \E x \in Run \cup Call :
                  /\ Founded(x) /\ x.user = runs'[i].user /\ x.scope = runs'[i].scope
                  /\ x.parent = runs'[i].parent /\ x.asker = runs'[i].asker
    <3>1. CASE i = j
      BY <1>1, <2>2, <2>7, <3>1
    <3>2. CASE i # j
      <4>1. runs[i] \in Run /\ Founded(runs[i])
        BY <2>7, <2>10, <3>2 DEF IInv, TypeOK, ParentsAreRuns
      <4> QED BY <2>7, <3>2, <4>1
    <3> QED BY <3>1, <3>2
  <2> QED BY <1>2, <2>5, <2>6, <2>8, <2>9, <2>10, RunsStep
<1> QED BY <1>3, <1>4

\* A call is handled and answered.
LEMMA AnswerStep == ASSUME IInv, NEW c \in Callers, Answer(c) PROVE IInv'
BY HandleStep DEF Answer

\* A call may be handled, too, without an answer that arrives.
LEMMA GiveUpStep == ASSUME IInv, NEW c \in Callers, GiveUp(c) PROVE IInv'
BY HandleStep DEF GiveUp

\* A run fails on a chain, or ends; it was not over before.
LEMMA ProgressStep == ASSUME IInv, Progress PROVE IInv'
<1>1. PICK j \in Jobs, s \in {"running"} \cup Terminal, f \in BOOLEAN :
        /\ runs[j] # None /\ runs[j].status = "running"
        /\ runs' = [runs EXCEPT ![j].failed = f] \/ runs' = [runs EXCEPT ![j].status = s]
        /\ UNCHANGED <<active, caller, accepted, todo>>
  BY DEF Progress, Terminal
<1>2. PICK run \in Run : run = runs[j]
  BY <1>1 DEF IInv, TypeOK
<1>3. PICK new \in Run :
        /\ runs' = [runs EXCEPT ![j] = new]
        /\ new.user = run.user /\ new.scope = run.scope
        /\ new.parent = run.parent /\ new.asker = run.asker
  <2>1. CASE runs' = [runs EXCEPT ![j].failed = f]
    <3>1. /\ runs' = [runs EXCEPT ![j] = [run EXCEPT !.failed = f]]
          /\ [run EXCEPT !.failed = f] \in Run
      BY <1>2, <2>1 DEF IInv, TypeOK, Run
    <3> QED BY <3>1 DEF Run
  <2>2. CASE runs' = [runs EXCEPT ![j].status = s]
    <3>1. /\ runs' = [runs EXCEPT ![j] = [run EXCEPT !.status = s]]
          /\ [run EXCEPT !.status = s] \in Run
      BY <1>2, <2>2 DEF IInv, TypeOK, Run
    <3> QED BY <3>1 DEF Run
  <2> QED BY <1>1, <2>1, <2>2
<1>4. new # None /\ run.status \notin Terminal
  BY <1>1, <1>2, NothingAssumption DEF Terminal
<1>5. /\ runs'[j] = new
      /\ \A i \in Jobs : i # j => runs'[i] = runs[i]
  BY <1>3 DEF IInv, TypeOK
<1>6. TypeOK'
  BY <1>1, <1>3 DEF IInv, TypeOK
<1>7. RunsKept
  BY <1>2, <1>3, <1>4, <1>5 DEF RunsKept
<1>8. ASSUME NEW i \in Jobs, runs'[i] # None
      PROVE  \E x \in Run \cup Call :
               /\ Founded(x) /\ x.user = runs'[i].user /\ x.scope = runs'[i].scope
               /\ x.parent = runs'[i].parent /\ x.asker = runs'[i].asker
  <2>1. runs[i] \in Run /\ Founded(runs[i])
    BY <1>1, <1>5, <1>8 DEF IInv, TypeOK, ParentsAreRuns
  <2> QED BY <1>2, <1>3, <1>5, <2>1
<1>9. /\ \A d \in Callers : caller'[d] # None => caller'[d] = caller[d]
      /\ \A i \in Jobs : runs'[i] = None => runs[i] = None /\ accepted'[i] = accepted[i]
      /\ \A i \in Jobs : accepted'[i] <= 1
  BY <1>1, <1>4, <1>5 DEF IInv, AcceptedOnce
<1> QED BY <1>6, <1>7, <1>8, <1>9, RunsStep

-----------------------------------------------------------------------------
\* No run is there at first, and no call under way.
LEMMA InitInv == Init => IInv
BY DEF Init, IInv, TypeOK, AcceptedOnce, CountedRunsExist, CallsAreFounded, ParentsAreRuns

\* IInv is inductive.
LEMMA StepInv == IInv /\ [Next]_vars => IInv'
<1> SUFFICES ASSUME IInv, [Next]_vars PROVE IInv'
  OBVIOUS
<1>1. ASSUME NEW r \in Requests,
             Refresh(r) \/ RefreshWallet(r) \/ Retry(r) \/ CreateWallet(r) \/ Answer(r) \/ GiveUp(r)
      PROVE  IInv'
  BY <1>1, RefreshStep, RetryStep, CreateWalletStep, AnswerStep, GiveUpStep DEF Callers
<1>2. CASE Change \/ Tick \/ TickEnds
  BY <1>2, OtherStep
<1>3. CASE CallNext
  BY <1>3, CallNextStep
<1>4. CASE SchedulerReturns
  BY <1>4, AnswerStep, GiveUpStep DEF SchedulerReturns, Callers
<1>5. CASE Progress
  BY <1>5, ProgressStep
<1>6. CASE UNCHANGED vars
  BY <1>6 DEF vars, IInv, TypeOK, AcceptedOnce, CountedRunsExist, CallsAreFounded,
              ParentsAreRuns, Founded
<1> QED BY <1>1, <1>2, <1>3, <1>4, <1>5, <1>6 DEF Next

\* The invariant holds throughout.
LEMMA Invariant == Spec => []IInv
BY InitInv, StepInv, PTL DEF Spec

\* The tables and the callers keep their shape.
THEOREM TypeCorrect == Spec => []TypeOK
<1>1. IInv => TypeOK
  BY DEF IInv
<1> QED BY <1>1, Invariant, PTL

\* Repeated, overlapping and lost calls count a run as accepted at most once.
THEOREM AcceptedAtMostOnce == Spec => []AcceptedOnce
<1>1. IInv => AcceptedOnce
  BY DEF IInv
<1> QED BY <1>1, Invariant, PTL

\* A run is its owner's, for something of his, and a retry follows a run of
\* his that is over and has failed chains.
THEOREM RunsFounded == Spec => []RunsAreFounded
<1>1. IInv => RunsAreFounded
  BY DEF IInv, ParentsAreRuns, Founded, RunsAreFounded
<1> QED BY <1>1, Invariant, PTL
=============================================================================
