--------------------------- MODULE ArpTokensProps ---------------------------
(***************************************************************************)
(* The correctness properties of ArpTokens.                                *)
(***************************************************************************)
EXTENDS ArpTokens

\* Scope narrows and permission lowers from every token to the tokens issued by it
\* (scope.go:61-72), whether by CreateToken or by a spawn, and although the caller's
\* authority is read outside the lock long before (server.go:210-225): what a child may
\* do, registered project or not yet (None), its parent may.
AuthorityNarrows ==
    \A t \in TokenIds : Issued(t) /\ tokens[t].parent # None =>
        LET parent == tokens[tokens[t].parent]
        IN  /\ Issued(tokens[t].parent)
            /\ tokens[t].perm <= parent.perm
            /\ \A project \in Projects \cup {None} :
                  CanAccess(tokens[t], project) => CanAccess(parent, project)

\* An agent's token is in the session of the token that spawned it, however many
\* requests establish that session at once (agent.go:39-52).
SessionPropagates ==
    \A t \in TokenIds : Issued(t) /\ tokens[t].spawned /\ tokens[t].parent # None =>
        /\ tokens[t].session # None
        /\ tokens[t].session = tokens[tokens[t].parent].session

\* The token that established a session: it was not put into it by its spawner.
Root(t) ==
    /\ Issued(t) /\ tokens[t].session # None
    /\ ~(tokens[t].spawned /\ tokens[t].parent # None)

\* Sessions do not merge: the tokens of one session all descend by spawns from the one
\* token that established it (with SessionPropagates).  Another token, issued by the
\* same caller through CreateToken, starts outside it (token.go:32).
OneRootPerSession ==
    \A t, u \in TokenIds :
        Root(t) /\ Root(u) /\ tokens[t].session = tokens[u].session => t = u

\* Whoever spawned an agent with a token may see and stop it with that token as long as
\* the agent is registered, with the lowest permission too: the session the first
\* spawn establishes is the one later requests are given (agent.go:39-46, server.go:276).
SpawnerSeesAgent ==
    \A a \in TokenIds : Registered(a) /\ agents[a].spawnedBy # None =>
        CanSeeAgent(PrincipalOf(agents[a].spawnedBy), agents[a])
=============================================================================
