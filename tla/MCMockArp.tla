----------------------------- MODULE MCMockArp -----------------------------
(***************************************************************************)
(* Instances of MockArp for TLC.                                           *)
(***************************************************************************)
EXTENDS MockArpProps
=============================================================================
