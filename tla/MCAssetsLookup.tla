--------------------------- MODULE MCAssetsLookup ---------------------------
(***************************************************************************)
(* A small instance of AssetsLookup: two addresses, one of them with two   *)
(* spellings, and something that is no address.                            *)
(***************************************************************************)
EXTENDS AssetsLookup

MCSpellings == {"0xa", "0xA", "0xb", "junk"}
MCKeyOf == [s \in MCSpellings |-> CASE s \in {"0xa", "0xA"} -> "0xa"
                                    [] s = "0xb" -> "0xb"
                                    [] OTHER -> None]
MCAddresses == {"0xa", "0xb"}
=============================================================================
