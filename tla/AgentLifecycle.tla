-------------------------- MODULE AgentLifecycle --------------------------
(***************************************************************************)
(* What the ARP specification promises about the status of one agent: the  *)
(* AgentStatus state machine of arp-spec/overview.md:355-379, with the     *)
(* stop and restart of arp-spec/services-agent.md:163-202.  An agent is    *)
(* stopped from any status (StopAgent asks for none), and a restart is a   *)
(* stop and a spawn: the agent is STARTING again before it is READY.  No   *)
(* status leaves STOPPING but for STOPPED, and none enters READY or ERROR  *)
(* but from STARTING.                                                      *)
(*                                                                         *)
(* The arrow from READY to ERROR, for a crash, is left out: the server has *)
(* no step that takes it, and without it the machine promises more.        *)
(***************************************************************************)
CONSTANT Ids
VARIABLE status

Init == status = [id \in Ids |-> "UNSPECIFIED"]

Move(id, from, to) ==
    /\ status[id] \in from
    /\ status' = [status EXCEPT ![id] = to]

\* SpawnAgent, or the second half of RestartAgent.
Spawn(id) == Move(id, {"UNSPECIFIED", "STOPPED"}, "STARTING")
\* The health check of a spawn.
Healthy(id) == Move(id, {"STARTING"}, "READY")
Unhealthy(id) == Move(id, {"STARTING"}, "ERROR")
Terminate(id) == Move(id, {"STARTING", "READY", "ERROR", "STOPPED"}, "STOPPING")
Exited(id) == Move(id, {"STOPPING"}, "STOPPED")

Next == \E id \in Ids :
    Spawn(id) \/ Healthy(id) \/ Unhealthy(id) \/ Terminate(id) \/ Exited(id)

Spec == Init /\ [][Next]_status
=============================================================================
