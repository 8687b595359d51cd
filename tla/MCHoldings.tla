----------------------------- MODULE MCHoldings -----------------------------
EXTENDS Holdings

CONSTANTS k1, k2

\* One target of 100 per cent, or two that share it.
MCTargetSets == {{k1}, {k2}, {k1, k2}}
\* Two items that differ in both columns.
MCItems == {[amount |-> 1, price |-> 1], [amount |-> 2, price |-> 2]}
=============================================================================
