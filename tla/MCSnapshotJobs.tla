--------------------------- MODULE MCSnapshotJobs ---------------------------
EXTENDS SnapshotJobs, TLC

CONSTANTS u1, u2, w1, w2

\* One wallet each, a group of the first user.
MCOwner == [x \in WalletIds \cup Groups |-> IF x = w2 THEN u2 ELSE u1]
=============================================================================
