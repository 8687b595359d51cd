----------------------------- MODULE Allocation -----------------------------
(***************************************************************************)
(* What the portfolio consists of, and what would bring it to the targets   *)
(* of the user.  Values are in hundredths of a cent, shares and targets in  *)
(* hundredths of a percent.                                                  *)
(***************************************************************************)
EXTENDS PortfolioHealth

CONSTANT VisibleAssets   \* ALLOCATION_VISIBLE_ASSETS

\* _allocation_asset_key, as a tuple
AssetKey(a) ==
  IF a.type = "erc20" /\ a.address # None THEN <<"evm", a.chain, a.address>>
  ELSE IF "manual" \in {a.type, a.chain} THEN <<"manual", a.symbol>>
  ELSE IF a.type = "native" \/ a.address = None THEN <<"native", a.chain, a.symbol>>
  ELSE <<a.type, a.chain, a.address>>

\* The rows of the old schema and of manual balances do not name their type.
KeyOf(info, a) ==
  CASE info.source = "manual" -> <<"manual", a.symbol>>
    [] info.legacy -> AssetKey([a EXCEPT !.type = IF a.address # None THEN "erc20" ELSE "native"])
    [] OTHER -> AssetKey(a)

ExchangeKey(a) == <<"exchange", "binance", a.symbol>>

\* asset_totals: the value held of each asset.
Totals(info, exchange) ==
  LET held == UNION {{<<w, a>> : a \in info[w].assets} : w \in DOMAIN info}
      Key(h) == KeyOf(info[h[1]], h[2])
      keys == {Key(h) : h \in held} \cup {ExchangeKey(a) : a \in exchange.assets}
  IN [k \in keys |-> SumOf(LAMBDA h : h[2].value, {h \in held : Key(h) = k})
                       + SumOf(LAMBDA a : a.value, {a \in exchange.assets : ExchangeKey(a) = k})]

TotalOf(totals) == SumOf(LAMBDA k : totals[k], DOMAIN totals)

\* _allocation_quality, of the prices of the wallets and of the exchange.
AllocationQuality(info, exchange) ==
  LET observations == PricesSeen(info) \cup {<<None, a, a.source>> : a \in exchange.assets}
  IN IF observations = {} THEN "empty" ELSE PriceQuality(observations).state

\* The largest assets, the order of which is left out, and the rest as one item.
Shares(totals) ==
  LET keys == DOMAIN totals
      visible == CHOOSE V \in kSubset(Min({VisibleAssets, Cardinality(keys)}), keys) :
                   \A v \in V, k \in keys \ V : totals[v] >= totals[k]
      rest == SumOf(LAMBDA k : totals[k], keys \ visible)
  IN {<<k, totals[k]>> : k \in visible} \cup (IF rest # 0 THEN {<< <<"__other__">>, rest>>} ELSE {})

\* Decimal.quantize: n / d as a whole number, ties to the even one.
Quantized(n, d) ==
  LET q == n \div d
      r == n % d
  IN IF 2 * r < d \/ (2 * r = d /\ q % 2 = 0) THEN q ELSE q + 1

Tolerance == 100   \* REBALANCING_TOLERANCE_PCT

\* A slip: only the assets with a target are looked at.
HintKeysOfTargets(totals, targets) == DOMAIN targets

HintKeys(totals, targets) == DOMAIN totals \cup DOMAIN targets

\* The hint for one asset; suggested is in cents.
Hint(key, total, totals, targets) ==
  LET current == IF key \in DOMAIN totals THEN totals[key] ELSE 0
      target == IF key \in DOMAIN targets THEN targets[key] ELSE 0
      gap == total * target - current * 10000
      suggested == Quantized(gap, 10000 * 100)
      off == IF gap < 0 THEN -gap ELSE gap
  IN [key |-> key, current |-> current, target |-> target, suggested |-> suggested,
      action |-> IF off <= Tolerance * total THEN "within_target"
                 ELSE IF suggested > 0 THEN "increase" ELSE "reduce"]

\* _build_rebalancing; targets is None where a part of the portfolio is asked for.
Rebalancing(totals, quality, targets) ==
  LET answer(status, items) == [status |-> status, items |-> items]
      total == TotalOf(totals)
  IN
  CASE targets = None -> answer("not_applicable", {})
    [] targets # None /\ DOMAIN targets = {} -> answer("not_configured", {})
    [] OTHER ->
         IF total <= 0 THEN answer("empty", {})
         ELSE answer(IF quality = "complete" THEN "ready" ELSE "incomplete",
                     {Hint(key, total, totals, targets) : key \in HintKeys(totals, targets)})
=============================================================================
