----------------------------- MODULE MCWallets -----------------------------
(***************************************************************************)
(* A small instance of Wallets: two spellings of one EVM address.          *)
(***************************************************************************)
EXTENDS Wallets, TLC

MCSpellings == {"0xa", "0xA", "0xb"}
MCFold == [s \in MCSpellings |-> IF s = "0xA" THEN "0xa" ELSE s]

\* The payloads name one field, or address and activity at once.
SomePayloads ==
  {p \in Payload : Cardinality({f \in Fields : p[f] # Unset}) = 1}
    \cup {[address |-> "0xa", active |-> TRUE, group |-> Unset]}

\* The payloads that name every field and restore a wallet.
OnePayloads == {[address |-> "0xb", active |-> TRUE, group |-> g] : g \in Groups}

Interchangeable == Permutations(Requests) \cup Permutations(WalletIds) \cup Permutations(Users)
=============================================================================
