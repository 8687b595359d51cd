-------------------------- MODULE PortfolioHistory --------------------------
(***************************************************************************)
(* The value of the portfolio over time.  The rows of a wallet are the      *)
(* successful snapshots of the service and, from before the first of them,  *)
(* the snapshots of the old schema.  The chart of many wallets begins in    *)
(* the middle of them: what a wallet was worth before that is its seed, and *)
(* every later row moves the sum.                                            *)
(***************************************************************************)
EXTENDS WalletView, Sequences

\* The snapshots the history shows, of whatever address the wallet had.
NewRows(w) ==
  {[at |-> Observed(n, w), id |-> snaps[n][w].id, total |-> snaps[n][w].total] :
     n \in {n \in Runs : snaps[n][w] # None /\ snaps[n][w].status = "success"}}

\* Old rows count up to the first new one.
OldRows(w) == {row \in Legacy(w) : \A new \in NewRows(w) : row.at < new.at}

\* The last of some rows, in the order of time and then of the id.
LastOf(rows) == CHOOSE row \in rows : \A other \in rows \ {row} :
  other.at < row.at \/ (other.at = row.at /\ other.id < row.id)

\* A slip: an old row counts as a seed although the service has taken over.
SeedUncut(w, since) ==
  LET new == {row \in NewRows(w) : row.at < since}
      old == {row \in Legacy(w) : row.at < since}
  IN CASE new = {} /\ old = {} -> None
       [] old # {} /\ (new = {} \/ LastOf(old).at > LastOf(new).at) -> LastOf(old).total
       [] OTHER -> LastOf(new).total

\* What a wallet was worth when the window begins: the last row before it.
Seed(w, since) ==
  LET new == {row \in NewRows(w) : row.at < since}
      old == {row \in OldRows(w) : row.at < since}
  IN CASE new = {} /\ old = {} -> None
       [] old # {} /\ (new = {} \/ LastOf(old).at > LastOf(new).at) -> LastOf(old).total
       [] OTHER -> LastOf(new).total

\* The rows of the window, up to t.
Until(w, since, t) == {row \in NewRows(w) \cup OldRows(w) : since <= row.at /\ row.at <= t}

\* balance_by_wallet[w] once the events up to t have been played.
Balance(w, since, t) ==
  IF Until(w, since, t) = {} THEN Seed(w, since) ELSE LastOf(Until(w, since, t)).total

\* cex_usd likewise: points is the answer of the exchange service.
Cex(points, since, t) ==
  LET inside == {i \in DOMAIN points : since <= points[i].at /\ points[i].at <= t}
      before == {i \in DOMAIN points : points[i].at < since}
  IN CASE inside # {} -> points[Max(inside)].total
       [] inside = {} /\ before # {} -> points[Max(before)].total
       [] OTHER -> None

\* The moments of the chart.
Moments(W, points, since) ==
  {row.at : row \in {row \in UNION {NewRows(w) \cup OldRows(w) : w \in W} : row.at >= since}}
    \cup {points[i].at : i \in {i \in DOMAIN points : points[i].at >= since}}

\* _history_sources, of the balances known by then.
HistorySources(balance, cex) ==
  LET known == {w \in DOMAIN balance : balance[w] # None}
      manual == {w \in known : Type[w] = "manual"}
  IN [onchain |-> SumOf(LAMBDA w : balance[w], known \ manual),
      manual |-> SumOf(LAMBDA w : balance[w], manual), cex |-> cex]

\* A point of GET /portfolio/history for a group or for all wallets.
HistoryPoint(W, points, since, t) ==
  HistorySources([w \in W |-> Balance(w, since, t)], Cex(points, since, t))

PointTotal(sources) ==
  sources.onchain + sources.manual + (IF sources.cex = None THEN 0 ELSE sources.cex)
=============================================================================
