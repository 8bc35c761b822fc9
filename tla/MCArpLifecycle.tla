-------------------------- MODULE MCArpLifecycle --------------------------
(***************************************************************************)
(* Instances of ArpLifecycle for TLC.                                      *)
(***************************************************************************)
EXTENDS ArpLifecycleProps, TLC

\* Handlers, workspace names and projects are interchangeable; ids, processes
\* and ports are not (they are numbers the specification orders).
Interchangeable == Permutations(Calls) \cup Permutations(WsNames)
=============================================================================
