-------------------------- MODULE PortfolioHealth --------------------------
(***************************************************************************)
(* One verdict about all active wallets of a user, and what becomes of it   *)
(* when the holdings at an exchange are added.  The endpoint of the         *)
(* portfolio and the Telegram digest both show it.                           *)
(***************************************************************************)
EXTENDS WalletView

\* portfolio_freshness
PortfolioFreshness(as_of) ==
  LET age == IF as_of < now THEN now - as_of ELSE 0 IN
  CASE as_of = None -> "unknown"
    [] OTHER -> IF age <= Fresh THEN "fresh" ELSE IF age <= Stale THEN "aging" ELSE "stale"

\* PRICE_SOURCE_ORDER and _normalize_price_source: the prices of the exchange are
\* from a source of their own.
PortfolioSources == {"coingecko", "binance_usdt", "frankfurter", "manual", "static_dev"}
PortfolioSource(source) == IF source \in PortfolioSources THEN source ELSE "unknown"

\* What is seen of prices: the rows of stored snapshots with their sources, ...
StoredPrices(n, w) == {<<w, a, a.source>> : a \in snaps[n][w].assets}

\* ... and what stands in for a snapshot that is not there.
OtherPrices(info, w) ==
  {<<w, a, IF info[w].source = "manual" THEN "manual" ELSE None>> : a \in info[w].assets}

PricesSeen(info) == UNION {
  IF info[w].snapshot # None THEN StoredPrices(info[w].snapshot, w) ELSE OtherPrices(info, w) :
    w \in DOMAIN info}

\* portfolio_price_quality
PriceQuality(observations) ==
  LET counted == {o \in observations : o[2].amount # 0}
      total == Cardinality(counted)
      priced == Cardinality({o \in counted : o[2].source # None})
      sources == {PortfolioSource(o[3]) : o \in counted}
  IN [total |-> total, priced |-> priced, sources |-> sources,
      state |-> IF total = 0 THEN "unknown"
                ELSE IF priced < total THEN "incomplete"
                ELSE IF "static_dev" \in sources THEN "estimated"
                ELSE IF "unknown" \in sources THEN "unknown" ELSE "complete"]

\* Some run of the user is under way.
RefreshInProgress ==
  \E n \in Runs : runs[n] # None /\ runs[n].active

\* The chains that did not succeed, of the snapshots that are shown.
ChainFailures(info) == UNION {
  {<<w, c>> : c \in {c \in snaps[info[w].snapshot][w].chains : c.status # "success"}} :
    w \in {w \in DOMAIN info : info[w].snapshot # None}}

\* One entry for each of them, whichever the wallet.
ChainIssues(info) ==
  LET all == ChainFailures(info)
      Of(chain) == {i \in all : i[2].chain = chain}
      Entry(chain) ==
        LET statuses == {i[2].status : i \in Of(chain)}
            errors == {i[2].error : i \in Of(chain)} \ {None}
        IN [chain |-> chain,
            status |-> IF "failed" \in statuses THEN "failed" ELSE CHOOSE s \in statuses : TRUE,
            error |-> CASE errors = {} -> None
                        [] Cardinality(errors) = 1 -> CHOOSE e \in errors : TRUE
                        [] OTHER -> "multiple_errors",
            wallets |-> Cardinality(Of(chain))]
  IN {Entry(chain) : chain \in {i[2].chain : i \in all}}

\* The run whose failed chains the user may have collected again, if it is one.
RetryableJob(info) ==
  LET ids == {info[i[1]].snapshot : i \in {i \in ChainFailures(info) : i[2].status = "failed"}}
  IN IF Cardinality(ids) = 1 THEN CHOOSE n \in ids : TRUE ELSE None

HealthState(issues, quality, refreshing, missing, freshness) ==
  CASE issues # {} \/ quality \in {"estimated", "incomplete"} -> "partial"
    [] OTHER -> IF refreshing THEN "updating"
                ELSE IF missing > 0 THEN "partial"
                ELSE IF freshness = "stale" THEN "stale" ELSE "fresh"

\* build_portfolio_data_health.  The oldest source speaks for all of them.
Health(info) ==
  LET W == DOMAIN info
      From(source) == Cardinality({w \in W : info[w].source = source})
      dates == {info[w].at : w \in W} \ {None}
      as_of == IF dates = {} THEN None ELSE Min(dates)
      issues == ChainIssues(info)
      quality == PriceQuality(PricesSeen(info))
      freshness == PortfolioFreshness(as_of)
  IN [state |-> HealthState(issues, quality.state, RefreshInProgress, From("none"), freshness),
      freshness |-> freshness, as_of |-> as_of,
      total |-> Cardinality(W), covered |-> From("latest_snapshot") + From("manual"),
      missing |-> From("none"), refreshing |-> RefreshInProgress,
      retryable |-> RetryableJob(info), issues |-> issues, quality |-> quality]

\* _wallet_source_status
SourceStatus(health) ==
  CASE health.total = 0 -> "unavailable"
    [] health.total # 0 /\ health.state \in {"updating", "partial"} -> health.state
    [] OTHER -> IF health.freshness \in {"aging", "stale"} THEN health.freshness ELSE "fresh"

\* The state of the exchange alone.
ExchangeState(exchange) ==
  CASE exchange.status = "not_configured" -> None
    [] exchange.status \notin {"not_configured", "success"} -> "unavailable"
    [] exchange.status = "success" ->
         IF \E a \in exchange.assets : a.price = None THEN "partial"
         ELSE IF PortfolioFreshness(exchange.as_of) = "stale" THEN "stale" ELSE "fresh"

\* The price quality once the assets of the exchange are counted, too, by the
\* third copy of its rules.
MergedQuality(quality, exchange) ==
  LET priced == {a \in exchange.assets : a.price # None}
      total == quality.total + Cardinality(exchange.assets)
      with_price == quality.priced + Cardinality(priced)
      sources == quality.sources \cup {a.source : a \in priced}
                   \cup (IF priced # exchange.assets THEN {"unknown"} ELSE {})
  IN [total |-> total, priced |-> with_price, sources |-> sources,
      state |-> CASE total = 0 -> "unknown"
                  [] total # 0 /\ with_price < total -> "incomplete"
                  [] total # 0 /\ with_price = total ->
                       IF "static_dev" \in sources THEN "estimated"
                       ELSE IF "unknown" \in sources THEN "unknown" ELSE "complete"]

\* A slip: the state is worked out anew, what was partial is forgotten.
MergedStateAnew(health, exchange, freshness) ==
  CASE ExchangeState(exchange) = "partial" -> "partial"
    [] OTHER -> IF health.refreshing THEN "updating"
                ELSE IF freshness = "stale" THEN "stale" ELSE "fresh"

MergedState(health, exchange, freshness) ==
  CASE health.state = "partial" \/ ExchangeState(exchange) = "partial" -> "partial"
    [] OTHER -> IF health.refreshing THEN "updating"
                ELSE IF freshness = "stale" THEN "stale" ELSE "fresh"

\* _merge_exchange_health: no exchange changes nothing, one that does not
\* answer makes the portfolio partial, an answer counts like a wallet.
Merge(health, exchange) ==
  LET dates == {health.as_of, exchange.as_of} \ {None}
      as_of == IF dates = {} THEN None ELSE Min(dates)
  IN CASE exchange.status = "not_configured" -> health
       [] exchange.status \notin {"not_configured", "success"} ->
            [health EXCEPT !.state = "partial"]
       [] exchange.status = "success" ->
            [health EXCEPT !.as_of = as_of, !.freshness = PortfolioFreshness(as_of),
                           !.quality = MergedQuality(@, exchange),
                           !.state = MergedState(health, exchange, PortfolioFreshness(as_of))]
=============================================================================
