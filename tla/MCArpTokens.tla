---------------------------- MODULE MCArpTokens ----------------------------
(***************************************************************************)
(* Instances of ArpTokens for TLC.                                         *)
(***************************************************************************)
EXTENDS ArpTokensProps, TLC

Interchangeable == Permutations(Calls) \cup Permutations(TokenIds) \cup Permutations(Sessions)
=============================================================================
