-------------------------- MODULE MCArpConformance --------------------------
(***************************************************************************)
(* The instance of ArpConformance for TLC: the suite as it is.             *)
(***************************************************************************)
EXTENDS ArpConformanceProps, ArpChecks
=============================================================================
