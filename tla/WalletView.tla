----------------------------- MODULE WalletView -----------------------------
(***************************************************************************)
(* What a wallet is worth: which of the stored snapshots is shown for it,   *)
(* what stands in when there is none, and how trustworthy the page about    *)
(* one wallet says it is.                                                    *)
(*                                                                         *)
(* The tables are variables; the snapshot service (external) fills them.    *)
(* What it stores for a wallet is a member of a small set of contents.      *)
(***************************************************************************)
EXTENDS Integers, FiniteSets, FiniteSetsExt

CONSTANTS
  Wallets,     \* the active wallets of one user, by id
  Type,        \* the kind of each: "evm", "solana" or "manual"
  Runs,        \* snapshot runs, numbered in the order they are created
  LegacyRows,  \* snapshots of the old schema, by wallet; no endpoint adds to
               \* them any more, a row is there from its time on
  ManualRows,  \* the manual balances of each wallet
  Fresh,       \* PORTFOLIO_FRESH_SECONDS
  Stale,       \* PORTFOLIO_STALE_SECONDS
  None         \* SQL NULL, no row

ASSUME ViewAssumption ==
  /\ Runs \subseteq Nat
  /\ Type \in [Wallets -> {"evm", "solana", "manual"}]
  /\ Fresh \in Nat /\ Stale \in Nat /\ Fresh < Stale
  /\ None \notin Runs \cup Wallets \cup Int

VARIABLES
  now,     \* the clock
  stamp,   \* wallets.address_updated_at
  runs,    \* table snapshot_runs
  snaps    \* tables wallet_snapshots, chain_snapshots and
           \* snapshot_balance_snapshots: by run and wallet, a row or None

tables == <<now, stamp, runs, snaps>>

\* A sum over the rows of a set, each of which counts.
SumOf(Val(_), S) == MapThenSumSet(Val, S)

-----------------------------------------------------------------------------
\* The newest snapshot.

ReadStatuses == {"success", "partial_success"}

\* When a snapshot was observed: the service finishes every row it stores, so
\* that coalesce needs neither the end of the run nor its beginning.
Observed(n, w) == snaps[n][w].finished

\* The readable snapshots of the address the wallet has now.
Readable(w) == {n \in Runs :
  /\ runs[n] # None /\ snaps[n][w] # None
  /\ snaps[n][w].status \in ReadStatuses
  /\ runs[n].created >= stamp[w]}

\* _latest_wallet_snapshot_ids: the one of the run that was created last.
Latest(w) ==
  IF Readable(w) = {} THEN None
  ELSE CHOOSE n \in Readable(w) : \A m \in Readable(w) \ {n} :
         \/ runs[m].created < runs[n].created
         \/ runs[m].created = runs[n].created /\ snaps[m][w].id < snaps[n][w].id

Legacy(w) == {row \in LegacyRows[w] : row.at <= now}

\* _latest_legacy_snapshots
LegacyReadable(w) == {row \in Legacy(w) : row.at >= stamp[w]}
LatestLegacy(w) == CHOOSE row \in LegacyReadable(w) : \A other \in LegacyReadable(w) \ {row} :
  other.at < row.at \/ (other.at = row.at /\ other.id < row.id)

-----------------------------------------------------------------------------
\* build_wallet_balance_info.

Missing == [source |-> "none", at |-> None, total |-> 0, assets |-> {}, snapshot |-> None,
            legacy |-> FALSE]

\* A snapshot of the service.
InfoOf(n, w) ==
  [source |-> "latest_snapshot", at |-> Observed(n, w), total |-> snaps[n][w].total,
   assets |-> snaps[n][w].assets, snapshot |-> n, legacy |-> FALSE]

\* What a wallet is worth: the newest snapshot, else the newest old one, else
\* the manual balances, else nothing.
Info(w) ==
  LET n == Latest(w) IN
  CASE n # None -> InfoOf(n, w)
    [] n = None /\ LegacyReadable(w) # {} ->
         LET row == LatestLegacy(w) IN
         [source |-> "latest_snapshot", at |-> row.at, total |-> row.total,
          assets |-> row.assets, snapshot |-> None, legacy |-> TRUE]
    [] n = None /\ LegacyReadable(w) = {} /\ Type[w] = "manual" /\ ManualRows[w] # {} ->
         [source |-> "manual", at |-> None, total |-> SumOf(LAMBDA a : a.value, ManualRows[w]),
          assets |-> ManualRows[w], snapshot |-> None, legacy |-> FALSE]
    [] OTHER -> Missing

-----------------------------------------------------------------------------
\* How far to trust it, as the page about one wallet says it.  The page about the
\* portfolio has rules of its own, which are in PortfolioHealth.

Freshness(at) ==
  IF at = None THEN "unknown"
  ELSE LET age == IF now > at THEN now - at ELSE 0 IN
       IF age <= Fresh THEN "fresh" ELSE IF age <= Stale THEN "aging" ELSE "stale"

\* PRICE_SOURCE_ORDER
KnownSources == {"coingecko", "frankfurter", "manual", "static_dev"}

\* _normalize_price_source
Normalized(source) == IF source \in KnownSources THEN source ELSE "unknown"

\* Where the price of an asset is said to be from.  Only the rows of the snapshot
\* service say so themselves.
PriceSourceOf(info, a) ==
  IF info.snapshot # None THEN Normalized(a.source)
  ELSE IF info.source = "manual" THEN "manual" ELSE Normalized(None)

\* How much of a wallet has a price, and from where; no amount, no price to ask for.
Quality(info) ==
  LET relevant == {a \in info.assets : a.amount # 0}
      priced == {a \in relevant : a.source # None}
      sources == {PriceSourceOf(info, a) : a \in relevant}
  IN [total |-> Cardinality(relevant), priced |-> Cardinality(priced), sources |-> sources,
      state |-> CASE relevant = {} -> "unknown"
                  [] relevant # {} /\ priced # relevant -> "incomplete"
                  [] relevant # {} /\ priced = relevant ->
                       IF "static_dev" \in sources THEN "estimated"
                       ELSE IF "unknown" \in sources THEN "unknown" ELSE "complete"]

\* The chains of a wallet's snapshot that did not succeed.
Issues(info, w) ==
  IF info.snapshot = None THEN {}
  ELSE {c \in snaps[info.snapshot][w].chains : c.status # "success"}

\* A run of the wallet or of everything is under way.  (Groups are left out.)
Refreshing(w) == \E n \in Runs :
  /\ runs[n] # None /\ runs[n].active
  /\ runs[n].scope \in {None, w}

\* A slip: what is missing comes before what is under way.
WalletStateMissingFirst(issues, quality, refreshing, source, freshness) ==
  CASE issues # {} \/ quality \in {"estimated", "incomplete"} \/ source = "none" -> "partial"
    [] OTHER -> IF refreshing THEN "updating" ELSE IF freshness = "stale" THEN "stale" ELSE "fresh"

\* The state of a wallet, on the page about it.
WalletState(issues, quality, refreshing, source, freshness) ==
  CASE issues # {} \/ quality \in {"estimated", "incomplete"} -> "partial"
    [] OTHER -> IF refreshing THEN "updating"
                ELSE IF source = "none" THEN "partial"
                ELSE IF freshness = "stale" THEN "stale" ELSE "fresh"

\* build_wallet_detail_summary
WalletHealth(w) ==
  LET info == Info(w)
      quality == Quality(info)
      freshness == Freshness(info.at)
  IN [state |-> WalletState(Issues(info, w), quality.state, Refreshing(w), info.source, freshness),
      freshness |-> freshness, as_of |-> info.at, refreshing |-> Refreshing(w),
      source |-> info.source, issues |-> Issues(info, w), quality |-> quality]
=============================================================================
