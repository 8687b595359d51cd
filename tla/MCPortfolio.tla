----------------------------- MODULE MCPortfolio -----------------------------
(***************************************************************************)
(* A small instance of Portfolio: one wallet on a chain and one that is     *)
(* kept by hand.  Values are in hundredths of a cent and chosen so that no  *)
(* share comes out even.                                                     *)
(***************************************************************************)
EXTENDS Portfolio, TLC

MCCreated == -1
MCType == [w \in Wallets |-> IF w = 1 THEN "evm" ELSE "manual"]

Ether(value, source) == [chain |-> "eth", symbol |-> "ETH", type |-> "native", address |-> None,
                         amount |-> 1, value |-> value, source |-> source]
Tether(value, source) == [chain |-> "eth", symbol |-> "USDT", type |-> "erc20", address |-> "0xt",
                          amount |-> 1, value |-> value, source |-> source]
Cash(value) == [chain |-> "manual", symbol |-> "EUR", type |-> "manual", address |-> None,
                amount |-> 1, value |-> value, source |-> "frankfurter"]

Chain(status, error) == [chain |-> "eth", status |-> status, error |-> error]
Content(status, chain, assets) ==
  [status |-> status, chains |-> {chain}, assets |-> assets,
   total |-> SumOf(LAMBDA a : a.value, assets)]

Good == Content("success", Chain("success", None), {Ether(33333, "coingecko"), Tether(10001, "coingecko")})
Partial == Content("partial_success", Chain("failed", "timeout"), {Ether(0, None), Tether(10001, "binance_usdt")})
Estimated == Content("success", Chain("success", None), {Ether(33333, "static_dev")})

MCContents == [w \in Wallets |->
  IF w = 1 THEN {Good, Partial, Estimated}
  ELSE {Content("success", Chain("success", None), {Cash(12345)})}]

\* The chain wallet has two snapshots of the old schema.
OldRow(at, value) == [id |-> at, at |-> at, total |-> value,
  assets |-> {[Ether(value, "unknown") EXCEPT !.address = "0xe"]}]
MCLegacyRows == [w \in Wallets |-> IF w = 1 THEN {OldRow(-1, 20002), OldRow(1, 5555)} ELSE {}]
MCManualRows == [w \in Wallets |-> IF w = 1 THEN {} ELSE {Cash(777)}]

Position2(asset, price, value, source) ==
  [asset |-> asset, free |-> 1, locked |-> 1, total |-> 2,
   price |-> price, value |-> value, source |-> source]
Snapshot(completed, balances) ==
  [user |-> User, created |-> completed, completed |-> completed, balances |-> balances]
Answer(body) == [fault |-> None, code |-> 200, body |-> body]
Ok(balances) == Answer(Snapshot(0, balances))

Valued2 == Position2("BTC", 7, 14, "binance_usdt")
Unvalued(asset) == Position2(asset, None, None, None)
HalfValued == Position2("BTC", 7, None, None)

\* Answers of the exchange service: no holdings, holdings that nobody has a
\* price for, an answer that contradicts itself; and holdings as they were some
\* ticks ago, of which CoinGecko prices one.
MCAnswers == (0 :> {Ok({}), Ok({Unvalued("XYZ")}), Ok({HalfValued})})
               @@ (2 :> {Ok({Valued2, Unvalued("SOL")})})

\* Its past in order, with a snapshot that was not valued, and out of order.
MCHistories == {Answer(<<Snapshot(0, {Valued2}), Snapshot(1, {Unvalued("BTC")}), Snapshot(last, {})>>) :
                  last \in {0, 2}}

MCPrices == {[c \in Coins |-> 5000]}

MCTargets == {(<<"native", "eth", "ETH">> :> 3333) @@ (<<"manual", "EUR">> :> 3334)
                @@ (<<"exchange", "binance", "BTC">> :> 3333)}
=============================================================================
