----------------------------- MODULE ArpTokens -----------------------------
(***************************************************************************)
(* Tokens, scopes and sessions of the ARP server.                          *)
(*                                                                         *)
(* A request is authenticated first: its principal is built from the token *)
(* outside the lock and used from then on, while other requests that bear  *)
(* the same token run.  The handler's lock section comes later.  Spawning  *)
(* an agent issues a child token and puts the agent in the session of the  *)
(* caller's token, which the first spawn establishes.                      *)
(***************************************************************************)
EXTENDS Integers

CONSTANTS
    Calls,      \* requests in flight
    TokenIds,   \* token ids; an agent is known here by the id of the token it was given
    Sessions,   \* session ids
    Projects,
    Perms,      \* the permissions in use, of SESSION = 1, PROJECT = 2 and ADMIN = 3
    None

Unspecified == 0
SessionOnly == 1
Admin == 3

\* A scope that is global extends to projects nobody has registered yet.
Scope == [global : BOOLEAN, projects : SUBSET Projects]
Global == [global |-> TRUE, projects |-> {}]

\* The scopes a request may ask for: a global scope names no projects, and None leaves
\* the scope to be inherited.
Requested == {s \in Scope : s.global => s.projects = {}} \cup {None}

ASSUME PermsAssumption == Perms \subseteq 1..3 /\ Admin \in Perms
ASSUME NoneAssumption == None \notin TokenIds \cup Sessions \cup Projects

VARIABLES
    tokens,    \* Server.tokens: [id -> tokenEntry]
    expired,   \* the tokens whose expiresAt has passed
    agents,    \* Server.agents, by the token the agent was given
    sessions,  \* session ids newID has returned (random, so never twice)
    principals \* the principal of each request in flight

vars == <<tokens, expired, agents, sessions, principals>>

\* parentTokenID is None in tokens issued by a caller without a token.  spawned (the
\* code: the subject) tells a child token from one made by CreateToken.
Token == [scope : Scope, perm : Perms, session : Sessions \cup {None},
          parent : TokenIds \cup {None}, spawned : BOOLEAN, expires : BOOLEAN]
NoToken == [perm |-> Unspecified]

Agent == [project : Projects, session : Sessions, spawnedBy : TokenIds \cup {None}]
NoAgent == [project |-> None]

Principal == [token : TokenIds \cup {None}, scope : Scope, perm : Perms,
              session : Sessions \cup {None}]
NoPrincipal == [perm |-> Unspecified]

Issued(t) == tokens[t] # NoToken
InFlight(c) == principals[c] # NoPrincipal
Registered(a) == agents[a] # NoAgent

TypeOK ==
    /\ tokens \in [TokenIds -> Token \cup {NoToken}]
    /\ expired \subseteq TokenIds
    /\ agents \in [TokenIds -> Agent \cup {NoAgent}]
    /\ sessions \subseteq Sessions
    /\ principals \in [Calls -> Principal \cup {NoPrincipal}]

Init ==
    /\ tokens = [t \in TokenIds |-> NoToken]
    /\ expired = {}
    /\ agents = [a \in TokenIds |-> NoAgent]
    /\ sessions = {}
    /\ principals = [c \in Calls |-> NoPrincipal]

----------------------------------------------------------------------------
(* Principals                                                              *)

\* Mutant of PrincipalOf: the session is not read back from the token.
PrincipalOfScope(t) == [token |-> t, scope |-> tokens[t].scope, perm |-> tokens[t].perm,
                        session |-> None]

\* authenticate, for a bearer of token t.
PrincipalOf(t) == [token |-> t, scope |-> tokens[t].scope, perm |-> tokens[t].perm,
                   session |-> tokens[t].session]

\* The caller that needs no token: a loopback peer under LocalhostAdmin, or Seed.
LocalAdmin == [token |-> None, scope |-> Global, perm |-> Admin, session |-> None]

CanAccess(p, project) == p.scope.global \/ project \in p.scope.projects

CanSeeAgent(p, agent) ==
    /\ CanAccess(p, agent.project)
    /\ p.perm = SessionOnly => p.session # None /\ agent.session = p.session

\* workspaceVisible, of a workspace of project that lists ids.
WorkspaceVisible(p, project, ids) ==
    /\ CanAccess(p, project)
    /\ p.perm = SessionOnly =>
          p.session # None /\ \E a \in ids : Registered(a) /\ agents[a].session = p.session

Authenticate(c) ==
    /\ ~InFlight(c)
    /\ \/ \E t \in TokenIds \ expired :
             Issued(t) /\ principals' = [principals EXCEPT ![c] = PrincipalOf(t)]
       \/ principals' = [principals EXCEPT ![c] = LocalAdmin]
    /\ UNCHANGED <<tokens, expired, agents, sessions>>

Return(c) == principals' = [principals EXCEPT ![c] = NoPrincipal]

\* The request is refused, or reads only.
NoEffect(c) ==
    /\ InFlight(c)
    /\ Return(c)
    /\ UNCHANGED <<tokens, expired, agents, sessions>>

Expire(t) ==
    /\ Issued(t) /\ tokens[t].expires /\ t \notin expired
    /\ expired' = expired \cup {t}
    /\ UNCHANGED <<tokens, agents, sessions, principals>>

----------------------------------------------------------------------------
(* Issuing tokens                                                          *)

\* Mutant of ScopeSubset: a global child is not told from one without projects.
ScopeSubsetByProjects(child, parent) ==
    parent.global \/ child.projects \subseteq parent.projects

ScopeSubset(child, parent) ==
    \/ parent.global
    \/ ~child.global /\ child.projects \subseteq parent.projects

\* The two refusals of issueToken.
MayIssue(p, scope, perm) ==
    /\ scope # None => ScopeSubset(scope, p.scope)
    /\ perm <= p.perm

IssuedToken(p, scope, perm, session, spawned, expires) ==
    [scope   |-> IF scope = None THEN p.scope ELSE scope,
     perm    |-> IF perm = Unspecified THEN p.perm ELSE perm,
     session |-> session, parent |-> p.token, spawned |-> spawned, expires |-> expires]

\* Mutant of CreateToken: the new token joins the caller's session.
CreateTokenInSession(c) ==
    /\ InFlight(c) /\ principals[c].perm = Admin
    /\ \E t \in TokenIds, scope \in Requested \ {None}, perm \in Perms, expires \in BOOLEAN :
          /\ ~Issued(t)
          /\ MayIssue(principals[c], scope, perm)
          /\ tokens' = [tokens EXCEPT ![t] =
                IssuedToken(principals[c], scope, perm, principals[c].session, FALSE, expires)]
    /\ Return(c)
    /\ UNCHANGED <<expired, agents, sessions>>

CreateToken(c) ==
    /\ InFlight(c) /\ principals[c].perm = Admin
    /\ \E t \in TokenIds, scope \in Requested \ {None}, perm \in Perms, expires \in BOOLEAN :
          /\ ~Issued(t)
          /\ MayIssue(principals[c], scope, perm)
          /\ tokens' = [tokens EXCEPT ![t] =
                IssuedToken(principals[c], scope, perm, None, FALSE, expires)]
    /\ Return(c)
    /\ UNCHANGED <<expired, agents, sessions>>

\* Mutant of ResolvesTo: the session of the principal, which authenticate copied.
ResolvesToCopied(p, session) ==
    IF p.token # None /\ p.session # None
    THEN session = p.session ELSE session \in Sessions \ sessions

\* resolveSession: the session of the caller's token, or a new one.
ResolvesTo(p, session) ==
    IF p.token # None /\ tokens[p.token].session # None
    THEN session = tokens[p.token].session ELSE session \in Sessions \ sessions

\* resolveSession's effect on the caller's token, kept also when the spawn is refused.
Established(p, session) ==
    IF p.token = None THEN tokens ELSE [tokens EXCEPT ![p.token].session = session]

\* The first lock section of spawnAgentInternal, as far as tokens are concerned.
Spawn(p, t, project, session, scope, perm) ==
    /\ CanAccess(p, project)
    /\ ~Issued(t)
    /\ ResolvesTo(p, session)
    /\ MayIssue(p, scope, perm)
    /\ sessions' = sessions \cup {session}
    /\ tokens' = [Established(p, session) EXCEPT ![t] =
          IssuedToken(p, scope, perm, session, TRUE, FALSE)]
    /\ agents' = [agents EXCEPT ![t] =
          [project |-> project, session |-> session, spawnedBy |-> p.token]]

SpawnAgent(c) ==
    /\ InFlight(c)
    /\ \E t \in TokenIds, project \in Projects, session \in Sessions,
          scope \in Requested, perm \in Perms \cup {Unspecified} :
             Spawn(principals[c], t, project, session, scope, perm)
    /\ Return(c)
    /\ UNCHANGED expired

\* issueToken refuses: the session has been established all the same.
SpawnRefused(c) ==
    /\ InFlight(c)
    /\ \E session \in Sessions, scope \in Requested, perm \in Perms :
          /\ ResolvesTo(principals[c], session)
          /\ ~MayIssue(principals[c], scope, perm)
          /\ sessions' = sessions \cup {session}
          /\ tokens' = Established(principals[c], session)
    /\ Return(c)
    /\ UNCHANGED <<expired, agents>>

\* One auto agent of CreateWorkspace; the same principal spawns the next.
AutoSpawn(c) ==
    /\ InFlight(c)
    /\ \E t \in TokenIds, project \in Projects, session \in Sessions :
          /\ Spawn(principals[c], t, project, session, None, Unspecified)
          /\ principals' = [principals EXCEPT ![c].session =
                IF principals[c].token # None \/ @ = None THEN session ELSE @]
    /\ UNCHANGED expired

\* DestroyWorkspace, of a workspace that lists ids.
DestroyWorkspace(c) ==
    /\ InFlight(c)
    /\ \E project \in Projects, ids \in SUBSET {a \in TokenIds : Registered(a)} :
          /\ \A a \in ids : agents[a].project = project
          /\ WorkspaceVisible(principals[c], project, ids)
          /\ agents' = [a \in TokenIds |-> IF a \in ids THEN NoAgent ELSE agents[a]]
    /\ Return(c)
    /\ UNCHANGED <<tokens, expired, sessions>>

Next ==
    \/ \E c \in Calls :
          \/ Authenticate(c) \/ NoEffect(c) \/ CreateToken(c) \/ SpawnAgent(c)
          \/ SpawnRefused(c) \/ AutoSpawn(c) \/ DestroyWorkspace(c)
    \/ \E t \in TokenIds : Expire(t)

Spec == Init /\ [][Next]_vars
=============================================================================
