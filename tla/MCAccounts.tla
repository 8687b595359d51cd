----------------------------- MODULE MCAccounts -----------------------------
(***************************************************************************)
(* Small instances of Accounts: two passwords bcrypt cannot tell apart, or *)
(* two that it can.                                                        *)
(***************************************************************************)
EXTENDS Accounts, TLC

SamePrefix == [w \in Words |-> CHOOSE v \in Words : TRUE]
OwnPrefix == [w \in Words |-> w]

Interchangeable == Permutations(Requests) \cup Permutations(Telegrams) \cup Permutations(Users \ Veterans)
=============================================================================
