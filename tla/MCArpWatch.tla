----------------------------- MODULE MCArpWatch -----------------------------
(***************************************************************************)
(* Instances of ArpWatch for TLC.                                          *)
(***************************************************************************)
EXTENDS ArpWatchProps
=============================================================================
