------------------------------ MODULE Portfolio ------------------------------
(***************************************************************************)
(* The pages about the portfolio while the tables move.  GET                *)
(* /portfolio/summary reads the balances, asks the exchange service in a    *)
(* thread of the pool, works out the health and compares with a day ago;    *)
(* the allocation and the history ask the exchange service first and read   *)
(* the balances then; the page of a wallet reads in one go.  Snapshot runs   *)
(* go on meanwhile, and addresses change.                                    *)
(***************************************************************************)
EXTENDS Allocation, PortfolioChange, PortfolioHistory

CONSTANTS
  User, Configured, Coins,   \* see ExchangePortfolio
  Scopes,      \* what a run may be for: one wallet, or None for all of them
  Contents,    \* what the service may store for each wallet
  Answers,     \* answers of the exchange service, by their age
  Histories,   \* answers of the exchange service about the past
  Prices,      \* what CoinGecko may say, as functions of the coins
  Targets,     \* the allocation targets to try, each of which adds up to 100 %
  MaxTime,     \* bound on the clock, for TLC
  Patience,    \* steps of the others that may fall into a request, for TLC
  Windows,     \* the lengths of the history that are asked for, in ticks
  Created      \* when the wallets were created, before the clock starts

INSTANCE ExchangePortfolio

ASSUME PortfolioAssumption ==
  /\ Configured \in BOOLEAN /\ Scopes \subseteq {None} \cup Wallets
  /\ MaxTime \in Nat /\ Patience \in Nat /\ Created \in Int /\ Created < 0
  /\ DOMAIN Answers \subseteq Nat
  /\ \A targets \in Targets : SumOf(LAMBDA k : targets[k], DOMAIN targets) = 10000

VARIABLE request

vars == <<now, stamp, runs, snaps, request>>

\* The local state of a request: what it has read so far.
Idle == [pc |-> "idle", page |-> None, info |-> None, since |-> None,
         exchange |-> None, points |-> None, health |-> None, answer |-> None,
         overtaken |-> 0]

Init ==
  /\ now = 0
  /\ stamp = [w \in Wallets |-> Created]
  /\ runs = [n \in Runs |-> None]
  /\ snaps = [n \in Runs |-> [w \in Wallets |-> None]]
  /\ request = Idle

Busy == request.pc \notin {"idle", "answered"}

-----------------------------------------------------------------------------
\* What goes on meanwhile.

\* A step of the others.  What they do while a request waits for the exchange
\* and has read no table yet, they may as well do before it comes; an answer
\* leaves before anything else happens, nothing looks at it any more.
Meanwhile ==
  /\ request.pc # "answered"
  /\ IF Busy
     THEN /\ request.info # None /\ request.overtaken < Patience
          /\ request' = [request EXCEPT !.overtaken = @ + 1]
     ELSE request' = request

Tick ==
  /\ now < MaxTime
  /\ now' = now + 1
  /\ Meanwhile
  /\ UNCHANGED <<stamp, runs, snaps>>

\* A PATCH gives a wallet another address; it reads the clock after every run
\* that is there was created.  (Once for each wallet, and in time: the runs that
\* overlap the PATCH itself are the subject of Wallets.)
ChangeAddress(w) ==
  /\ Type[w] # "manual" /\ stamp[w] = Created
  /\ now < MaxTime
  /\ now' = now + 1
  /\ stamp' = [stamp EXCEPT ![w] = now + 1]
  /\ Meanwhile
  /\ UNCHANGED <<runs, snaps>>

\* The service creates a run, for one wallet or for all of the user, ...
StartRun(n) ==
  /\ runs[n] = None /\ \A m \in Runs : m < n => runs[m] # None
  /\ \E scope \in Scopes :
       runs' = [runs EXCEPT ![n] = [scope |-> scope, active |-> TRUE, created |-> now]]
  /\ Meanwhile
  /\ UNCHANGED <<now, stamp, snaps>>

InScope(n, w) == runs[n].scope \in {None, w}

\* The addresses the wallet has had since the run was created, by their stamps.
AddressesSince(n, w) == {stamp[w]} \cup (IF stamp[w] > runs[n].created THEN {Created} ELSE {})

\* ... stores what it finds for one wallet after the other and is done with
\* the last of them, ...
Collect(n, w) ==
  /\ runs[n] # None /\ runs[n].active /\ InScope(n, w) /\ snaps[n][w] = None
  /\ \E c \in Contents[w], a \in AddressesSince(n, w) :
       snaps' = [snaps EXCEPT ![n][w] =
         [id |-> n, finished |-> now, address |-> a,
          status |-> c.status, total |-> c.total, chains |-> c.chains, assets |-> c.assets]]
  /\ runs' = [runs EXCEPT ![n].active =
       \E v \in Wallets \ {w} : InScope(n, v) /\ snaps[n][v] = None]
  /\ Meanwhile
  /\ UNCHANGED <<now, stamp>>

\* ... or breaks down before.
BreakDown(n) ==
  /\ runs[n] # None /\ runs[n].active
  /\ runs' = [runs EXCEPT ![n].active = FALSE]
  /\ Meanwhile
  /\ UNCHANGED <<now, stamp, snaps>>

-----------------------------------------------------------------------------
\* The request.

\* active_canonical_wallets and build_wallet_balance_info
BeginSummary ==
  /\ request.pc = "idle"
  /\ request' = [Idle EXCEPT !.pc = "exchange", !.page = "summary",
                             !.info = [w \in Wallets |-> Info(w)]]
  /\ UNCHANGED tables

BeginAllocation ==
  /\ request.pc = "idle"
  /\ request' = [Idle EXCEPT !.pc = "exchange", !.page = "allocation"]
  /\ UNCHANGED tables

\* The window of the history ends now and begins some days ago.
BeginHistory ==
  /\ request.pc = "idle"
  /\ \E days \in Windows :
       request' = [Idle EXCEPT !.pc = "exchange", !.page = "history",
                               !.since = now - days]
  /\ UNCHANGED tables

\* run_in_threadpool(fetch_exchange_portfolio): its snapshot may be some ticks old.
AskExchange ==
  /\ request.pc = "exchange" /\ request.page \in {"summary", "allocation"}
  /\ \E age \in DOMAIN Answers, prices \in Prices : \E answer \in Answers[age] :
       request' = [request EXCEPT !.pc = request.page,
         !.exchange = FetchExchange(
            IF answer.body = None THEN answer
            ELSE [answer EXCEPT !.body.created = @ + now - age, !.body.completed = @ + now - age],
            prices)]
  /\ UNCHANGED tables

\* run_in_threadpool(fetch_exchange_history)
AskHistory ==
  /\ request.pc = "exchange" /\ request.page = "history"
  /\ \E answer \in Histories :
       request' = [request EXCEPT !.pc = "history", !.points = FetchHistory(answer)]
  /\ UNCHANGED tables

Reply(answer) == request' = [Idle EXCEPT !.pc = "answered", !.answer = answer]

\* build_portfolio_data_health and _merge_exchange_health
Assess ==
  /\ request.pc = "summary"
  /\ request' = [request EXCEPT !.pc = "compare",
                                !.health = Merge(Health(request.info), request.exchange)]
  /\ UNCHANGED tables

\* The sum of the summary.
SummaryTotal ==
  SumOf(LAMBDA w : request.info[w].total, Wallets) + ExchangeTotal(request.exchange)

\* _portfolio_change_24h, and the answer.
Compare ==
  /\ request.pc = "compare"
  /\ Reply(Change(request.info, SummaryTotal, request.health, request.exchange))
  /\ UNCHANGED tables

\* _allocation_for_wallets: the balances are read now; the targets were before.
Allocate ==
  LET info == [w \in Wallets |-> Info(w)]
      totals == Totals(info, request.exchange) IN
  /\ request.pc = "allocation"
  /\ \E targets \in Targets :
       Reply([shares |-> Shares(totals),
              hints |-> Rebalancing(totals, AllocationQuality(info, request.exchange), targets)])
  /\ UNCHANGED tables

\* The rows of the window and the seeds are read now.
Draw ==
  /\ request.pc = "history"
  /\ Reply([t \in Moments(Wallets, request.points, request.since) |->
             HistoryPoint(Wallets, request.points, request.since, t)])
  /\ UNCHANGED tables

\* GET /wallets/{id}/summary
ReadWallet(w) ==
  /\ request.pc = "idle"
  /\ Reply(WalletHealth(w))
  /\ UNCHANGED tables

\* The answer has left; another request may come.
Forget ==
  /\ request.pc = "answered"
  /\ request' = Idle
  /\ UNCHANGED tables

Next ==
  \/ Tick
  \/ \E w \in Wallets : ChangeAddress(w) \/ ReadWallet(w)
  \/ \E n \in Runs : StartRun(n) \/ BreakDown(n) \/ \E w \in Wallets : Collect(n, w)
  \/ BeginSummary \/ BeginAllocation \/ BeginHistory
  \/ AskExchange \/ AskHistory
  \/ Assess \/ Compare \/ Allocate \/ Draw \/ Forget

Spec == Init /\ [][Next]_vars

-----------------------------------------------------------------------------
\* The tables and the request have the shape the operators rely on.
TypeOK ==
  /\ now \in 0..MaxTime
  /\ stamp \in [Wallets -> {Created} \cup 0..MaxTime]
  /\ \A n \in Runs : runs[n] # None =>
       /\ runs[n].scope \in Scopes
       /\ runs[n].active \in BOOLEAN /\ runs[n].created \in 0..now
  /\ \A n \in Runs, w \in Wallets : snaps[n][w] # None =>
       /\ runs[n] # None /\ snaps[n][w].finished \in runs[n].created..now
       /\ snaps[n][w].address \in Created..stamp[w]
  /\ request.pc \in {"idle", "exchange", "summary", "compare", "allocation", "history", "answered"}

\* The page of a wallet and the page of the portfolio judge alike, although each
\* has its own copy of every rule (wallet_view.py, portfolio_health.py): a portfolio
\* of one wallet is as old and has the same failed chains, it is in the state that
\* wallet is in, unless the runs that count as under way differ, and the word for
\* its prices differs only because one copy does not know "binance_usdt".
HealthCopiesAgree == [][\A w \in Wallets : ReadWallet(w) =>
  LET page == request'.answer
      info == [v \in {w} |-> Info(v)]
      portfolio == Health(info)
  IN /\ page.refreshing = portfolio.refreshing => page.state = portfolio.state
     /\ page.freshness = portfolio.freshness /\ page.as_of = portfolio.as_of
     /\ page.issues = {[chain |-> i.chain, status |-> i.status, error |-> i.error] :
                         i \in portfolio.issues}
     /\ (\A a \in info[w].assets : a.source # "binance_usdt") =>
          page.quality = portfolio.quality]_vars

\* A summary says "fresh" only if it is: no refresh was under way when it looked,
\* every wallet has a value that is whole, priced and not stale, and so has the
\* exchange, although the balances were read before the exchange was asked and
\* the health after it.
FreshIsHonest == [][Assess /\ request'.health.state = "fresh" =>
  /\ ~RefreshInProgress
  /\ SourceStatus(Health(request.info)) \in {"fresh", "aging"}
  /\ \A w \in Wallets : LET info == request.info[w] IN
       /\ info.source # "none"
       /\ info.at # None => now - info.at <= Stale
       /\ \A a \in info.assets : a.amount # 0 => a.source # None
       /\ info.snapshot # None =>
            \A c \in snaps[info.snapshot][w].chains : c.status = "success"
  /\ \/ ~Configured
     \/ /\ request.exchange.status = "success"
        /\ now - request.exchange.as_of <= Stale
        /\ \A a \in request.exchange.assets : a.price # None]_vars

\* A change of 24 hours compares, wallet by wallet, two whole snapshots of one
\* and the same address, about a day apart: neither an address that changes
\* between the reads nor a run that outlived the change mixes two addresses.
ChangeIsOfOneAddress == [][
  LET change == request'.answer IN
  Compare /\ change.status = "complete" =>
    \A w \in Wallets :
      LET start == snaps[change.from[w]][w]
          end == snaps[change.to[w]][w]
      IN /\ start.address = end.address
         /\ start.status = "success" /\ end.status = "success"
         /\ end.finished - start.finished \in (Day - Fresh)..(Day + Fresh)]_vars

\* The change and the chart agree: unless an address changed, the value the
\* change starts from is the value of the chart of wallets a day ago.
StartAgreesWithHistory == [][
  Compare /\ request'.answer.status = "complete" /\ (\A w \in Wallets : stamp[w] = Created) =>
    request'.answer.start = PointTotal(HistoryPoint(Wallets, <<>>, now - Day - Fresh, now - Day))]_vars

\* What a wallet was last known to be worth at t, whatever the schema.
LastKnown(w, t) ==
  LET known == {row \in NewRows(w) \cup OldRows(w) : row.at <= t}
  IN IF known = {} THEN None ELSE LastOf(known).total

\* README: the history carries "forward each wallet's latest value".  Where the
\* chart begins makes no difference: every point is what the wallets and the
\* exchange were last known to be worth, also with rows of both schemas.
HistoryCarriesForward == [][Draw =>
  \A t \in DOMAIN request'.answer :
    request'.answer[t] = HistorySources([w \in Wallets |-> LastKnown(w, t)],
                                        Cex(request.points, Created, t))]_vars

\* The hints of a rebalancing move value and make none: over all assets, those
\* without a target among them, they add up to nothing but for the rounding to
\* cents; and an asset that is to be increased is short of its target, one that
\* is to be reduced by some cents is over it.
HintsBalance == [][Allocate =>
  LET items == request'.answer.hints.items
      held == SumOf(LAMBDA i : i.current, items)
      sum == SumOf(LAMBDA i : i.suggested, items)
      short(i) == i.current * 10000 < i.target * held
  IN /\ 2 * (IF sum < 0 THEN -sum ELSE sum) <= Cardinality(items)
     /\ \A i \in items : /\ i.action = "increase" => short(i)
                         /\ i.action = "reduce" /\ i.suggested # 0 => ~short(i)]_vars
=============================================================================
