------------------------- MODULE ExchangePortfolio -------------------------
(***************************************************************************)
(* The holdings at an exchange, as another service reports them: what is    *)
(* accepted of its answers, at what price a balance counts, and which of    *)
(* its past snapshots become points of the history.  The service is         *)
(* external: a snapshot it sends is                                          *)
(*                                                                         *)
(*   [user, created, completed, balances]                                   *)
(*                                                                         *)
(* with balances a set of                                                   *)
(*                                                                         *)
(*   [asset, free, locked, total, price, value, source]                     *)
(*                                                                         *)
(* whose last three fields may be None.  An answer is [fault, code, body]:  *)
(* fault is None unless there is no answer at all, body is None where it    *)
(* does not have the form it should have.                                    *)
(***************************************************************************)
EXTENDS Integers, FiniteSets, FiniteSetsExt, Sequences

CONSTANTS
  User,        \* the user who asks
  Configured,  \* whether there is an internal API token
  Coins,       \* EXCHANGE_COIN_IDS: the symbols CoinGecko is asked about
  None         \* no value

\* _payload_is_consistent
Consistent(body) ==
  /\ body.user = User
  /\ body.completed >= body.created
  /\ Cardinality({b.asset : b \in body.balances}) = Cardinality(body.balances)
  /\ \A b \in body.balances : b.total = b.free + b.locked

\* The service has valued a balance, wholly ...
Valued(b) == b.price # None /\ b.value # None /\ b.source # None

\* ... or not at all; anything else, or a value that is not the product, is
\* refused (_stored_valuation).
WellValued(b) ==
  \/ b.price = None /\ b.value = None /\ b.source = None
  \/ Valued(b) /\ b.value = b.total * b.price

Acceptable(body) ==
  body # None /\ Consistent(body) /\ \A b \in body.balances : WellValued(b)

\* How a call ends that brings no snapshot.
Failure(answer) ==
  IF ~Configured THEN "not_configured"
  ELSE IF answer.fault # None THEN answer.fault
  ELSE IF answer.code = 404 THEN "not_found"
  ELSE IF answer.code # 200 THEN "unavailable" ELSE None

\* A balance as the portfolio counts it: at the value the service stored, else
\* at the price CoinGecko has now, else at nothing.
Position(b, prices) ==
  LET price == IF Valued(b) THEN b.price ELSE IF b.asset \in Coins THEN prices[b.asset] ELSE None
  IN [symbol |-> b.asset, amount |-> b.total, price |-> price,
      value |-> IF Valued(b) THEN b.value ELSE IF price = None THEN 0 ELSE b.total * price,
      source |-> IF Valued(b) THEN b.source ELSE IF price = None THEN None ELSE "coingecko"]

\* fetch_exchange_portfolio
FetchExchange(answer, prices) ==
  LET failed(status) == [status |-> status, as_of |-> None, assets |-> {}] IN
  CASE Failure(answer) # None -> failed(Failure(answer))
    [] Failure(answer) = None /\ ~Acceptable(answer.body) -> failed("invalid_response")
    [] OTHER -> [status |-> "success", as_of |-> answer.body.completed,
                 assets |-> {Position(b, prices) : b \in answer.body.balances}]

ExchangeTotal(exchange) == MapThenSumSet(LAMBDA a : a.value, exchange.assets)

\* fetch_exchange_history: the points, none unless every snapshot of the answer
\* is acceptable and they are in order; a snapshot with a balance that was not
\* valued at its time is left out.
FetchHistory(answer) ==
  LET body == answer.body
      Point(s) == [at |-> s.completed, total |-> MapThenSumSet(LAMBDA b : b.value, s.balances)]
      whole == SelectSeq(body, LAMBDA s : \A b \in s.balances : Valued(b))
  IN IF \/ Failure(answer) # None \/ body = None
        \/ \E i \in DOMAIN body : ~Acceptable(body[i])
        \/ \E i, j \in DOMAIN body : i < j /\ body[j].completed < body[i].completed
     THEN <<>> ELSE [i \in DOMAIN whole |-> Point(whole[i])]
=============================================================================
