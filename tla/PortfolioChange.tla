--------------------------- MODULE PortfolioChange ---------------------------
(***************************************************************************)
(* How much the portfolio moved in 24 hours: a number is given only if both *)
(* ends of the day are known as well as the contract asks for.               *)
(***************************************************************************)
EXTENDS PortfolioHealth

CONSTANT Day   \* 24 hours

ASSUME ChangeAssumption == Day \in Nat /\ Fresh < Day

Spread(times) == Max(times) - Min(times)

\* A slip: a snapshot is a baseline of the wallet whatever address it is of.
BaselinesOfAnyAddress(w) == {n \in Runs :
  /\ snaps[n][w] # None /\ snaps[n][w].status = "success"
  /\ Observed(n, w) \in (now - Day - Fresh)..(now - Day)}

\* A slip: the end of today is within the window too, and is the last of it.
BaselinesUntilNow(w) == {n \in Runs :
  /\ snaps[n][w] # None /\ snaps[n][w].status = "success"
  /\ Observed(n, w) >= now - Day - Fresh
  /\ runs[n].created >= stamp[w]}

\* The successful snapshots of the address the wallet has now that were
\* observed a day ago, or at most the tolerance earlier.
Baselines(w) == {n \in Runs :
  /\ snaps[n][w] # None /\ snaps[n][w].status = "success"
  /\ Observed(n, w) \in (now - Day - Fresh)..(now - Day)
  /\ runs[n].created >= stamp[w]}

\* The one that was observed last.
Baseline(w) ==
  IF Baselines(w) = {} THEN None
  ELSE CHOOSE n \in Baselines(w) : \A m \in Baselines(w) \ {n} :
         \/ Observed(m, w) < Observed(n, w)
         \/ Observed(m, w) = Observed(n, w) /\ snaps[m][w].id < snaps[n][w].id

\* What is wrong with the end of today: a part of it failed, has no price, is
\* old, or was not observed at one time.
EndIsPoor(info, health) ==
  LET ends == {Observed(info[w].snapshot, w) : w \in DOMAIN info} IN
  \/ \E w \in DOMAIN info : snaps[info[w].snapshot][w].status # "success"
  \/ health.issues # {}
  \/ health.quality.state # "complete"
  \/ health.state \in {"partial", "stale"} \/ health.freshness # "fresh"
  \/ now - Min(ends) > Fresh \/ Spread(ends) > Fresh

\* ... and with the end of yesterday.
StartIsPoor(W) ==
  \/ \E w \in W : \E c \in snaps[Baseline(w)][w].chains : c.status # "success"
  \/ PriceQuality(UNION {StoredPrices(Baseline(w), w) : w \in W}).state # "complete"
  \/ Spread({Observed(Baseline(w), w) : w \in W}) > Fresh

\* _portfolio_change_24h, for the balances and the health the request has
\* worked out before; from and to name the snapshots that were compared.
Change(info, total, health, exchange) ==
  LET W == DOMAIN info
      to == [w \in W |-> info[w].snapshot]
      from == [w \in W |-> Baseline(w)]
      start == SumOf(LAMBDA w : snaps[from[w]][w].total, W)
      without(status) == [status |-> status, start |-> None, end |-> total, from |-> from, to |-> to]
  IN CASE exchange.assets # {} \/ W = {} \/ (\E w \in W : to[w] = None) -> without("unavailable")
       [] OTHER ->
            IF EndIsPoor(info, health) THEN without("incomplete")
            ELSE IF \E w \in W : from[w] = None THEN without("unavailable")
            ELSE IF StartIsPoor(W) THEN without("incomplete")
            ELSE [without(IF start = 0 THEN "unavailable" ELSE "complete") EXCEPT !.start = start]
=============================================================================
