-------------------------- MODULE ArpTokens_proofs --------------------------
(***************************************************************************)
(* Proofs of the properties of ArpTokens, for any number of requests,      *)
(* tokens, sessions and projects.                                          *)
(***************************************************************************)
EXTENDS ArpTokensProps, TLAPS

\* Neither of the null records is a value of the type it stands beside.
LEMMA NullRecords == NoToken \notin Token /\ NoPrincipal \notin Principal /\ NoAgent \notin Agent
BY NoneAssumption, PermsAssumption
   DEF NoToken, Token, NoPrincipal, Principal, NoAgent, Agent, Unspecified

\* An issued token, a request in flight and a registered agent are what their types say.
LEMMA Values ==
    ASSUME TypeOK
    PROVE  /\ \A t \in TokenIds : Issued(t) => tokens[t] \in Token
           /\ \A c \in Calls : InFlight(c) => principals[c] \in Principal
           /\ \A a \in TokenIds : Registered(a) => agents[a] \in Agent
BY DEF TypeOK, Issued, InFlight, Registered

\* The server starts with the tables New makes.
LEMMA TypedInit == Init => TypeOK
BY DEF Init, TypeOK

\* What authenticate builds is a principal.
LEMMA PrincipalTyped ==
    /\ LocalAdmin \in Principal
    /\ \A t \in TokenIds : TypeOK /\ Issued(t) => PrincipalOf(t) \in Principal
<1>1. LocalAdmin \in Principal
  BY PermsAssumption DEF LocalAdmin, Principal, Global, Scope
<1>2. ASSUME NEW t \in TokenIds, TypeOK, Issued(t) PROVE PrincipalOf(t) \in Principal
  BY <1>2, Values DEF PrincipalOf, Principal, Token
<1> QED BY <1>1, <1>2

\* So is the token issueToken makes, of the authority it was asked for or its issuer's.
LEMMA TokenTyped ==
    ASSUME NEW p \in Principal, NEW scope \in Requested,
           NEW perm \in Perms \cup {Unspecified}, NEW session \in Sessions \cup {None},
           NEW spawned \in BOOLEAN, NEW expires \in BOOLEAN
    PROVE  IssuedToken(p, scope, perm, session, spawned, expires) \in Token
BY DEF IssuedToken, Token, Principal, Requested, Scope

\* Establishing a session changes no type and no other token.
LEMMA EstablishedTyped ==
    ASSUME TypeOK, NEW p \in Principal, p.token # None => Issued(p.token),
           NEW session \in Sessions
    PROVE  Established(p, session) \in [TokenIds -> Token \cup {NoToken}]
<1>1. CASE p.token = None
  BY <1>1 DEF Established, TypeOK
<1>2. CASE p.token # None
  <2>1. p.token \in TokenIds /\ tokens[p.token] \in Token
    BY <1>2, Values DEF Principal
  <2>2. [tokens[p.token] EXCEPT !.session = session] \in Token
    BY <2>1 DEF Token
  <2> QED BY <1>2, <2>1, <2>2 DEF Established, TypeOK
<1> QED BY <1>1, <1>2

\* The authority a request goes on with, copied outside the lock, is still its token's:
\* tokens are never changed but for their session, and never withdrawn.
PrincipalsMatch ==
    \A c \in Calls : InFlight(c) /\ principals[c].token # None =>
        /\ Issued(principals[c].token)
        /\ principals[c].scope = tokens[principals[c].token].scope
        /\ principals[c].perm = tokens[principals[c].token].perm

Typed == TypeOK /\ PrincipalsMatch

----------------------------------------------------------------------------
(* What a step does to the tokens                                          *)

\* Token t survives the step with all it carries; it can gain a session, not lose one.
Kept(t) ==
    /\ Issued(t)'
    /\ tokens'[t].scope = tokens[t].scope
    /\ tokens'[t].perm = tokens[t].perm
    /\ tokens'[t].parent = tokens[t].parent
    /\ tokens'[t].spawned = tokens[t].spawned
    /\ tokens[t].session # None => tokens'[t].session = tokens[t].session

\* t is a new token, issued to request c, which has the authority it passes on.
IssuedFor(t, c) ==
    /\ InFlight(c)
    /\ tokens'[t].parent = principals[c].token
    /\ tokens'[t].perm <= principals[c].perm
    /\ \A project \in Projects \cup {None} :
          CanAccess(tokens'[t], project) => CanAccess(principals[c], project)

\* The token that a spawn by p establishes a session on, and every other.
LEMMA EstablishedValues ==
    ASSUME Typed, NEW p \in Principal, p.token # None => Issued(p.token),
           NEW session \in Sessions, NEW t \in TokenIds, Issued(t)
    PROVE  LET new == Established(p, session)[t]
           IN  /\ new \in Token
               /\ new.scope = tokens[t].scope /\ new.perm = tokens[t].perm
               /\ new.parent = tokens[t].parent /\ new.spawned = tokens[t].spawned
               /\ new.session = IF t = p.token THEN session ELSE tokens[t].session
<1> DEFINE new == Established(p, session)[t]
<1>1. tokens[t] \in Token /\ tokens \in [TokenIds -> Token \cup {NoToken}] /\ t # None
  BY Values, NoneAssumption DEF Typed, TypeOK
<1>2. CASE p.token = t
  <2>1. new = [tokens[t] EXCEPT !.session = session]
    BY <1>1, <1>2 DEF Established
  <2> QED BY <1>1, <1>2, <2>1 DEF Token
<1>3. CASE p.token # t
  <2>1. new = tokens[t]
    BY <1>1, <1>3 DEF Established, Principal
  <2> QED BY <1>1, <1>3, <2>1
<1> QED BY <1>2, <1>3

\* A token's authority comes from the principal it was issued to.
LEMMA IssuedNarrows ==
    ASSUME NEW p \in Principal, NEW scope \in Requested,
           NEW perm \in Perms \cup {Unspecified}, MayIssue(p, scope, perm),
           NEW session, NEW spawned, NEW expires
    PROVE  LET t == IssuedToken(p, scope, perm, session, spawned, expires)
           IN  /\ t.parent = p.token /\ t.session = session /\ t.spawned = spawned
               /\ t.perm <= p.perm
               /\ \A project \in Projects \cup {None} :
                     CanAccess(t, project) => CanAccess(p, project)
<1> DEFINE t == IssuedToken(p, scope, perm, session, spawned, expires)
<1>1. t.parent = p.token /\ t.session = session /\ t.spawned = spawned
  BY DEF IssuedToken
<1>2. t.perm <= p.perm
  <2>1. t.perm = perm \/ t.perm = p.perm
    BY DEF IssuedToken
  <2>2. p.perm \in 1..3 /\ perm <= p.perm
    BY PermsAssumption DEF Principal, MayIssue
  <2> HIDE DEF t
  <2> QED BY <2>1, <2>2
<1>3. ASSUME NEW project \in Projects \cup {None}, CanAccess(t, project)
      PROVE  CanAccess(p, project)
  <2>1. CASE scope = None
    BY <1>3, <2>1 DEF CanAccess, IssuedToken
  <2>2. CASE scope # None
    <3>1. t.scope = scope
      BY <2>2 DEF IssuedToken
    <3>2. \/ p.scope.global
          \/ ~scope.global /\ scope.projects \subseteq p.scope.projects
      BY <2>2 DEF MayIssue, ScopeSubset
    <3>3. scope.global \/ project \in scope.projects
      BY <1>3, <3>1 DEF CanAccess
    <3> HIDE DEF t
    <3> QED BY <3>2, <3>3 DEF CanAccess
  <2> QED BY <2>1, <2>2
<1> QED BY <1>1, <1>2, <1>3

\* The session of t was established by this step.
Fresh(t) == tokens'[t].session \in Sessions \ sessions

\* How tokens come by their sessions in one step.
SessionsGrow ==
    /\ \A t \in TokenIds : Issued(t) => tokens'[t].session = tokens[t].session \/ Fresh(t)
    /\ \A t \in TokenIds : Issued(t)' /\ ~Issued(t) =>
          IF ~tokens'[t].spawned THEN tokens'[t].session = None
          ELSE IF tokens'[t].parent = None THEN Fresh(t)
          ELSE tokens'[t].session \in Sessions
               /\ tokens'[t].session = tokens'[tokens'[t].parent].session
    /\ \A t, u \in TokenIds :
          Issued(t)' /\ Issued(u)' /\ Fresh(t) /\ tokens'[t].session = tokens'[u].session =>
             \/ t = u
             \/ tokens'[t].spawned /\ tokens'[t].parent = u
             \/ tokens'[u].spawned /\ tokens'[u].parent = t

\* Sessions that tokens are in have been issued.
SessionsIssued == \A t \in TokenIds : Issued(t) => tokens[t].session \in sessions \cup {None}

TokenStep ==
    /\ tokens' \in [TokenIds -> Token \cup {NoToken}]
    /\ \A t \in TokenIds : Issued(t) => Kept(t)
    /\ \A t \in TokenIds : Issued(t)' /\ ~Issued(t) => \E c \in Calls : IssuedFor(t, c)
    /\ SessionsGrow
    /\ SessionsIssued'

\* A step that leaves tokens alone does all this.
LEMMA QuietTokens ==
    ASSUME Typed, SessionsIssued, UNCHANGED <<tokens, sessions>>
    PROVE  TokenStep
<1>1. tokens' \in [TokenIds -> Token \cup {NoToken}]
  BY DEF Typed, TypeOK
<1>2. \A t \in TokenIds : Issued(t)' = Issued(t) /\ (Issued(t) => ~Fresh(t))
  BY NoneAssumption DEF Issued, Fresh, SessionsIssued
<1>3. \A t \in TokenIds : Issued(t) => Kept(t)
  BY <1>2 DEF Kept
<1>4. SessionsGrow
  BY <1>2 DEF SessionsGrow
<1>5. SessionsIssued'
  BY <1>2 DEF SessionsIssued
<1> QED BY <1>1, <1>2, <1>3, <1>4, <1>5 DEF TokenStep

\* Issuing a token puts one where none was.
LEMMA IssuedIsIssued == \A t \in Token : t # NoToken
BY NullRecords

\* CreateToken adds one token, no broader than its issuer, and leaves the others alone.
LEMMA CreatedTokens ==
    ASSUME Typed, SessionsIssued, NEW c \in Calls, CreateToken(c)
    PROVE  TokenStep
<1> DEFINE p == principals[c]
<1>1. p \in Principal /\ sessions' = sessions /\ InFlight(c)
  BY Values DEF CreateToken, Typed
<1>2. PICK n \in TokenIds, scope \in Requested \ {None}, perm \in Perms, expires \in BOOLEAN :
        /\ ~Issued(n)
        /\ MayIssue(p, scope, perm)
        /\ tokens' = [tokens EXCEPT ![n] = IssuedToken(p, scope, perm, None, FALSE, expires)]
  BY DEF CreateToken
<1>3. /\ tokens \in [TokenIds -> Token \cup {NoToken}]
      /\ IssuedToken(p, scope, perm, None, FALSE, expires) \in Token
  BY <1>1, TokenTyped DEF Typed, TypeOK
<1>4. /\ tokens' \in [TokenIds -> Token \cup {NoToken}]
      /\ tokens'[n] = IssuedToken(p, scope, perm, None, FALSE, expires)
      /\ \A u \in TokenIds : u # n => tokens'[u] = tokens[u]
  BY <1>2, <1>3
<1>5. /\ tokens'[n].session = None /\ tokens'[n].spawned = FALSE
      /\ IssuedFor(n, c)
  <2> DEFINE tok == IssuedToken(p, scope, perm, None, FALSE, expires)
  <2>1. /\ tok.parent = p.token /\ tok.session = None /\ tok.spawned = FALSE
        /\ tok.perm <= p.perm
        /\ \A project \in Projects \cup {None} : CanAccess(tok, project) => CanAccess(p, project)
    BY <1>1, <1>2, IssuedNarrows
  <2>2. tokens'[n] = tok
    BY <1>4
  <2> HIDE DEF tok
  <2> QED BY <1>1, <2>1, <2>2 DEF IssuedFor
<1>6. \A u \in TokenIds : Issued(u) => u # n /\ Issued(u)' /\ tokens'[u] = tokens[u]
  BY <1>2, <1>4 DEF Issued
<1>7. \A u \in TokenIds : Issued(u)' /\ ~Issued(u) => u = n
  BY <1>4 DEF Issued
<1>8. \A u \in TokenIds : Issued(u) => Kept(u)
  BY <1>6 DEF Kept
<1>9. \A u \in TokenIds : Issued(u)' => ~Fresh(u)
  BY <1>5, <1>6, <1>7, NoneAssumption DEF Fresh, SessionsIssued
<1>10. SessionsGrow
  BY <1>5, <1>6, <1>7, <1>9 DEF SessionsGrow
<1>11. SessionsIssued'
  BY <1>1, <1>5, <1>6, <1>7 DEF SessionsIssued
<1> QED BY <1>4, <1>5, <1>7, <1>8, <1>10, <1>11 DEF TokenStep

\* What resolveSession returns and does, for a caller whose token has been issued.
LEMMA Resolved ==
    ASSUME Typed, SessionsIssued, NEW p \in Principal, p.token # None => Issued(p.token),
           NEW session \in Sessions, ResolvesTo(p, session)
    PROVE  \/ session \in Sessions \ sessions
           \/ p.token # None /\ tokens[p.token].session = session /\ session \in sessions
BY NoneAssumption DEF ResolvesTo, SessionsIssued, Principal

\* A refused spawn establishes a session and nothing else.
LEMMA RefusedTokens ==
    ASSUME Typed, SessionsIssued, NEW p \in Principal, p.token # None => Issued(p.token),
           NEW session \in Sessions, ResolvesTo(p, session),
           tokens' = Established(p, session), sessions' = sessions \cup {session}
    PROVE  TokenStep
<1>1. tokens' \in [TokenIds -> Token \cup {NoToken}]
  BY EstablishedTyped DEF Typed
<1>2. \A u \in TokenIds : Issued(u) =>
        /\ tokens'[u] \in Token
        /\ tokens'[u].scope = tokens[u].scope /\ tokens'[u].perm = tokens[u].perm
        /\ tokens'[u].parent = tokens[u].parent /\ tokens'[u].spawned = tokens[u].spawned
        /\ tokens'[u].session = IF u = p.token THEN session ELSE tokens[u].session
  BY EstablishedValues
<1>3. \A u \in TokenIds : Issued(u)' <=> Issued(u)
  <2>1. ASSUME NEW u \in TokenIds, ~Issued(u) PROVE tokens'[u] = tokens[u]
    BY <2>1 DEF Established, Principal, Typed, TypeOK
  <2> QED BY <1>2, <2>1, IssuedIsIssued DEF Issued
<1>4. \/ session \in Sessions \ sessions
      \/ p.token # None /\ tokens[p.token].session = session /\ session \in sessions
  BY Resolved
<1>5. \A u \in TokenIds : Issued(u) /\ tokens[u].session # None =>
        tokens'[u].session = tokens[u].session
  BY <1>2, NoneAssumption DEF ResolvesTo
<1>6. \A u \in TokenIds : Issued(u) => Kept(u)
  BY <1>2, <1>3, <1>5 DEF Kept
<1>7. \A u \in TokenIds : Issued(u) /\ Fresh(u) => u = p.token
  BY <1>2, NoneAssumption DEF Fresh, SessionsIssued
<1>8. \A u \in TokenIds : Issued(u) => tokens'[u].session = tokens[u].session \/ Fresh(u)
  BY <1>2, <1>4, NoneAssumption DEF Fresh
<1>9. \A t, u \in TokenIds : Issued(t) /\ Issued(u) /\ Fresh(t)
        /\ tokens'[t].session = tokens'[u].session => t = u
  BY <1>7 DEF Fresh
<1>10. SessionsGrow
  BY <1>3, <1>8, <1>9 DEF SessionsGrow
<1>11. SessionsIssued'
  BY <1>2, <1>3 DEF SessionsIssued
<1> QED BY <1>1, <1>3, <1>6, <1>10, <1>11 DEF TokenStep

\* A spawn establishes a session and issues a token in it.
LEMMA SpawnedTokens ==
    ASSUME Typed, SessionsIssued, NEW c \in Calls, InFlight(c),
           NEW n \in TokenIds, NEW project \in Projects, NEW session \in Sessions,
           NEW scope \in Requested, NEW perm \in Perms \cup {Unspecified},
           Spawn(principals[c], n, project, session, scope, perm)
    PROVE  /\ TokenStep
           /\ ~Issued(n) /\ Issued(n)' /\ IssuedFor(n, c)
           /\ tokens'[n].session = session
           /\ principals[c].token # None =>
                /\ Issued(principals[c].token)
                /\ tokens'[principals[c].token].session = session
<1> DEFINE p   == principals[c]
           tok == IssuedToken(p, scope, perm, session, TRUE, FALSE)
           est == Established(p, session)
<1>1. p \in Principal
  BY Values DEF Typed
<1>2. p.token # None => p.token \in TokenIds /\ Issued(p.token)
  BY <1>1 DEF Typed, PrincipalsMatch, Principal
<1>3. /\ ~Issued(n) /\ ResolvesTo(p, session) /\ MayIssue(p, scope, perm)
      /\ sessions' = sessions \cup {session}
      /\ tokens' = [est EXCEPT ![n] = tok]
  BY DEF Spawn
<1>4. est \in [TokenIds -> Token \cup {NoToken}]
  BY <1>1, <1>2, EstablishedTyped DEF Typed
<1>5. tok \in Token
  BY <1>1, TokenTyped
<1>6. /\ tok.parent = p.token /\ tok.session = session /\ tok.spawned = TRUE
      /\ tok.perm <= p.perm
      /\ \A pr \in Projects \cup {None} : CanAccess(tok, pr) => CanAccess(p, pr)
  BY <1>1, <1>3, IssuedNarrows
<1>7. \A u \in TokenIds : Issued(u) =>
        /\ est[u] \in Token
        /\ est[u].scope = tokens[u].scope /\ est[u].perm = tokens[u].perm
        /\ est[u].parent = tokens[u].parent /\ est[u].spawned = tokens[u].spawned
        /\ est[u].session = IF u = p.token THEN session ELSE tokens[u].session
  BY <1>1, <1>2, EstablishedValues
<1>8. \A u \in TokenIds : ~Issued(u) => est[u] = NoToken
  BY <1>2 DEF Established, Issued, Typed, TypeOK
<1>9. \/ session \in Sessions \ sessions
      \/ p.token # None /\ tokens[p.token].session = session /\ session \in sessions
  BY <1>1, <1>2, <1>3, Resolved
<1>10. p.token # None /\ tokens[p.token].session # None => tokens[p.token].session = session
  BY <1>3 DEF ResolvesTo
<1> HIDE DEF tok, est
<1>11. /\ tokens' \in [TokenIds -> Token \cup {NoToken}]
       /\ tokens'[n] = tok
       /\ \A u \in TokenIds : u # n => tokens'[u] = est[u]
  BY <1>3, <1>4, <1>5
<1>12. /\ Issued(n)'
       /\ \A u \in TokenIds : u # n => (Issued(u)' <=> Issued(u))
  BY <1>5, <1>7, <1>8, <1>11, IssuedIsIssued DEF Issued
<1>13. IssuedFor(n, c)
  BY <1>6, <1>11 DEF IssuedFor
<1>14. \A u \in TokenIds : Issued(u) => u # n
  BY <1>3
<1>15. \A u \in TokenIds : Issued(u) => Kept(u)
  BY <1>7, <1>10, <1>11, <1>12, <1>14, NoneAssumption DEF Kept
<1>16. \A u \in TokenIds : Issued(u) /\ Fresh(u) => u = p.token
  BY <1>7, <1>11, <1>14, NoneAssumption DEF Fresh, SessionsIssued
<1>17. \A u \in TokenIds : Issued(u) => tokens'[u].session = tokens[u].session \/ Fresh(u)
  BY <1>7, <1>9, <1>11, <1>14, NoneAssumption DEF Fresh
<1>18. /\ tokens'[n].spawned = TRUE /\ tokens'[n].parent = p.token
       /\ tokens'[n].session = session
  BY <1>6, <1>11
<1>19. p.token # None => tokens'[p.token].session = session
  BY <1>2, <1>7, <1>11, <1>14
<1>20. p.token = None => Fresh(n)
  BY <1>9, <1>18 DEF Fresh
<1>21. SessionsGrow
  <2>1. \A u \in TokenIds : Issued(u)' /\ ~Issued(u) =>
          IF ~tokens'[u].spawned THEN tokens'[u].session = None
          ELSE IF tokens'[u].parent = None THEN Fresh(u)
          ELSE tokens'[u].session \in Sessions
               /\ tokens'[u].session = tokens'[tokens'[u].parent].session
    BY <1>12, <1>18, <1>19, <1>20
  <2>2. ASSUME NEW t \in TokenIds, NEW u \in TokenIds, Issued(t)', Issued(u)', Fresh(t),
               tokens'[t].session = tokens'[u].session, t # u
        PROVE  \/ tokens'[t].spawned /\ tokens'[t].parent = u
               \/ tokens'[u].spawned /\ tokens'[u].parent = t
    <3>1. Fresh(u)
      BY <2>2 DEF Fresh
    <3>2. (t = n \/ t = p.token) /\ (u = n \/ u = p.token)
      BY <1>12, <1>16, <2>2, <3>1
    <3> QED BY <1>18, <2>2, <3>2
  <2> QED BY <1>17, <2>1, <2>2 DEF SessionsGrow
<1>22. SessionsIssued'
  BY <1>3, <1>7, <1>11, <1>12, <1>14, <1>18 DEF SessionsIssued
<1> QED
  BY <1>2, <1>3, <1>11, <1>12, <1>13, <1>15, <1>18, <1>19, <1>21, <1>22 DEF TokenStep

----------------------------------------------------------------------------
(* What a step does to the agents and to the requests in flight            *)

\* The agents of a step were there before or were spawned for a request in flight.
AgentStep ==
    /\ agents' \in [TokenIds -> Agent \cup {NoAgent}]
    /\ \A a \in TokenIds : Registered(a)' =>
          \/ Registered(a) /\ agents'[a] = agents[a]
          \/ \E c \in Calls :
                /\ InFlight(c)
                /\ agents'[a].spawnedBy = principals[c].token
                /\ CanAccess(principals[c], agents'[a].project)
                /\ principals[c].token # None =>
                      tokens'[principals[c].token].session = agents'[a].session

\* A request that is in flight after the step has no token, or one that was issued.
PrincipalStep ==
    /\ principals' \in [Calls -> Principal \cup {NoPrincipal}]
    /\ \A c \in Calls : InFlight(c)' /\ principals'[c].token # None =>
          /\ Issued(principals'[c].token)
          /\ principals'[c].scope = tokens[principals'[c].token].scope
          /\ principals'[c].perm = tokens[principals'[c].token].perm

Step ==
    /\ TokenStep /\ AgentStep /\ PrincipalStep
    /\ expired' \subseteq TokenIds /\ sessions' \subseteq Sessions

\* A step that leaves the agents alone, as an AgentStep.
LEMMA QuietAgents ==
    ASSUME Typed, UNCHANGED agents
    PROVE  AgentStep
BY DEF AgentStep, Typed, TypeOK, Registered

\* A step that leaves the requests alone, as a PrincipalStep.
LEMMA QuietPrincipals ==
    ASSUME Typed, UNCHANGED principals
    PROVE  PrincipalStep
BY DEF PrincipalStep, Typed, TypeOK, PrincipalsMatch, InFlight

\* A request that returns, as a PrincipalStep.
LEMMA ReturnedPrincipals ==
    ASSUME Typed, NEW c \in Calls, Return(c)
    PROVE  PrincipalStep
<1>1. principals' = [principals EXCEPT ![c] = NoPrincipal]
  BY DEF Return
<1>2. principals' \in [Calls -> Principal \cup {NoPrincipal}]
  BY <1>1 DEF Typed, TypeOK
<1>3. ASSUME NEW d \in Calls, InFlight(d)' PROVE principals'[d] = principals[d] /\ InFlight(d)
  BY <1>1, <1>3 DEF Typed, TypeOK, InFlight
<1> QED BY <1>2, <1>3 DEF PrincipalStep, Typed, PrincipalsMatch

\* A spawn registers one agent, in the session of its spawner.
LEMMA SpawnedAgents ==
    ASSUME Typed, SessionsIssued, NEW c \in Calls, InFlight(c),
           NEW n \in TokenIds, NEW project \in Projects, NEW session \in Sessions,
           NEW scope \in Requested, NEW perm \in Perms \cup {Unspecified},
           Spawn(principals[c], n, project, session, scope, perm)
    PROVE  AgentStep
<1> DEFINE agent == [project |-> project, session |-> session, spawnedBy |-> principals[c].token]
<1>1. principals[c] \in Principal
  BY Values DEF Typed
<1>2. agents' = [agents EXCEPT ![n] = agent] /\ CanAccess(principals[c], project)
  BY DEF Spawn
<1>3. agent \in Agent
  BY <1>1 DEF Agent, Principal
<1>4. principals[c].token # None => tokens'[principals[c].token].session = session
  BY SpawnedTokens
<1>5. /\ agents' \in [TokenIds -> Agent \cup {NoAgent}]
      /\ agents'[n] = agent
      /\ \A a \in TokenIds : a # n => agents'[a] = agents[a]
  BY <1>2, <1>3 DEF Typed, TypeOK
<1>6. \A a \in TokenIds : a # n /\ Registered(a)' => Registered(a) /\ agents'[a] = agents[a]
  BY <1>5 DEF Registered
<1>7. /\ agents'[n].spawnedBy = principals[c].token
      /\ agents'[n].project = project /\ agents'[n].session = session
  BY <1>5
<1> QED BY <1>2, <1>4, <1>5, <1>6, <1>7 DEF AgentStep

\* Every action, and the steps that change nothing.
LEMMA NextStep ==
    ASSUME Typed, SessionsIssued, [Next]_vars
    PROVE  Step
<1>1. CASE UNCHANGED vars
  BY <1>1, QuietTokens, QuietAgents, QuietPrincipals DEF vars, Step, Typed, TypeOK
<1>2. ASSUME NEW c \in Calls, Authenticate(c) PROVE Step
  <2>1. PrincipalStep
    <3>1. PICK p \in Principal :
            /\ principals' = [principals EXCEPT ![c] = p]
            /\ p.token # None => /\ Issued(p.token)
                                 /\ p.scope = tokens[p.token].scope
                                 /\ p.perm = tokens[p.token].perm
      <4>1. CASE principals' = [principals EXCEPT ![c] = LocalAdmin]
        BY <4>1, PrincipalTyped DEF LocalAdmin
      <4>2. ASSUME NEW t \in TokenIds, Issued(t),
                   principals' = [principals EXCEPT ![c] = PrincipalOf(t)]
            PROVE  \E p \in Principal :
                     /\ principals' = [principals EXCEPT ![c] = p]
                     /\ p.token # None => /\ Issued(p.token)
                                          /\ p.scope = tokens[p.token].scope
                                          /\ p.perm = tokens[p.token].perm
        <5>1. /\ PrincipalOf(t).token = t /\ PrincipalOf(t).scope = tokens[t].scope
              /\ PrincipalOf(t).perm = tokens[t].perm
          BY DEF PrincipalOf
        <5> QED BY <4>2, <5>1, PrincipalTyped DEF Typed
      <4> QED BY <1>2, <4>1, <4>2 DEF Authenticate
    <3>2. /\ principals' \in [Calls -> Principal \cup {NoPrincipal}]
          /\ principals'[c] = p
          /\ \A d \in Calls : d # c => principals'[d] = principals[d]
      BY <3>1 DEF Typed, TypeOK
    <3> QED BY <3>1, <3>2 DEF PrincipalStep, Typed, PrincipalsMatch, InFlight
  <2> QED BY <1>2, <2>1, QuietTokens, QuietAgents DEF Authenticate, Step, Typed, TypeOK
<1>3. ASSUME NEW c \in Calls, NoEffect(c) PROVE Step
  BY <1>3, QuietTokens, QuietAgents, ReturnedPrincipals DEF NoEffect, Step, Typed, TypeOK
<1>4. ASSUME NEW c \in Calls, CreateToken(c) PROVE Step
  BY <1>4, CreatedTokens, QuietAgents, ReturnedPrincipals DEF CreateToken, Step, Typed, TypeOK
<1>5. ASSUME NEW c \in Calls, SpawnAgent(c) PROVE Step
  <2>1. PICK n \in TokenIds, project \in Projects, session \in Sessions, scope \in Requested,
             perm \in Perms \cup {Unspecified} :
          Spawn(principals[c], n, project, session, scope, perm)
    BY <1>5 DEF SpawnAgent
  <2>2. InFlight(c) /\ Return(c) /\ UNCHANGED expired
    BY <1>5 DEF SpawnAgent
  <2>3. sessions' \subseteq Sessions
    BY <2>1 DEF Spawn, Typed, TypeOK
  <2>4. TokenStep /\ AgentStep
    BY <2>1, <2>2, SpawnedTokens, SpawnedAgents
  <2> QED BY <2>2, <2>3, <2>4, ReturnedPrincipals DEF Step, Typed, TypeOK
<1>6. ASSUME NEW c \in Calls, SpawnRefused(c) PROVE Step
  <2>1. PICK session \in Sessions :
          /\ ResolvesTo(principals[c], session)
          /\ sessions' = sessions \cup {session}
          /\ tokens' = Established(principals[c], session)
    BY <1>6 DEF SpawnRefused
  <2>2. InFlight(c) /\ Return(c) /\ UNCHANGED <<expired, agents>>
    BY <1>6 DEF SpawnRefused
  <2>3. /\ principals[c] \in Principal
        /\ principals[c].token # None => Issued(principals[c].token)
    BY <2>2, Values DEF Typed, PrincipalsMatch
  <2>4. TokenStep
    BY <2>1, <2>3, RefusedTokens
  <2> QED BY <2>1, <2>2, <2>4, QuietAgents, ReturnedPrincipals DEF Step, Typed, TypeOK
<1>7. ASSUME NEW c \in Calls, AutoSpawn(c) PROVE Step
  <2>1. PICK n \in TokenIds, project \in Projects, session \in Sessions :
          /\ Spawn(principals[c], n, project, session, None, Unspecified)
          /\ principals' = [principals EXCEPT ![c].session =
                IF principals[c].token # None \/ @ = None THEN session ELSE @]
    BY <1>7 DEF AutoSpawn
  <2>2. InFlight(c) /\ UNCHANGED expired /\ None \in Requested
    BY <1>7 DEF AutoSpawn, Requested
  <2>3. sessions' \subseteq Sessions
    BY <2>1 DEF Spawn, Typed, TypeOK
  <2>4. TokenStep /\ AgentStep
    BY <2>1, <2>2, SpawnedTokens, SpawnedAgents
  <2>5. PrincipalStep
    <3>1. principals[c] \in Principal
      BY <2>2, Values DEF Typed
    <3>2. PICK s \in Sessions \cup {None} :
            principals'  = [principals EXCEPT ![c] = [principals[c] EXCEPT !.session = s]]
      BY <2>1, <3>1 DEF Principal, Typed, TypeOK
    <3> DEFINE p == [principals[c] EXCEPT !.session = s]
    <3>3. /\ p \in Principal /\ p.token = principals[c].token
          /\ p.scope = principals[c].scope /\ p.perm = principals[c].perm
      BY <3>1 DEF Principal
    <3>4. /\ principals' \in [Calls -> Principal \cup {NoPrincipal}]
          /\ principals'[c] = p
          /\ \A d \in Calls : d # c => principals'[d] = principals[d]
      BY <3>2, <3>3 DEF Typed, TypeOK
    <3> HIDE DEF p
    <3> QED BY <2>2, <3>3, <3>4 DEF PrincipalStep, Typed, PrincipalsMatch, InFlight
  <2> QED BY <2>2, <2>3, <2>4, <2>5 DEF Step, Typed, TypeOK
<1>8. ASSUME NEW c \in Calls, DestroyWorkspace(c) PROVE Step
  <2>1. AgentStep
    <3>1. PICK ids \in SUBSET TokenIds :
            agents' = [a \in TokenIds |-> IF a \in ids THEN NoAgent ELSE agents[a]]
      BY <1>8 DEF DestroyWorkspace
    <3>2. agents' \in [TokenIds -> Agent \cup {NoAgent}]
      BY <3>1 DEF Typed, TypeOK
    <3> QED BY <3>1, <3>2 DEF AgentStep, Registered
  <2> QED BY <1>8, <2>1, QuietTokens, ReturnedPrincipals DEF DestroyWorkspace, Step, Typed, TypeOK
<1>9. ASSUME NEW t \in TokenIds, Expire(t) PROVE Step
  BY <1>9, QuietTokens, QuietAgents, QuietPrincipals DEF Expire, Step, Typed, TypeOK
<1> QED BY <1>1, <1>2, <1>3, <1>4, <1>5, <1>6, <1>7, <1>8, <1>9 DEF Next

----------------------------------------------------------------------------
(* The inductive invariant                                                 *)

\* Every agent is in the session of the token it was spawned by, and in its scope.
AgentsInSession ==
    \A a \in TokenIds : Registered(a) /\ agents[a].spawnedBy # None =>
        /\ Issued(agents[a].spawnedBy)
        /\ tokens[agents[a].spawnedBy].session = agents[a].session
        /\ CanAccess(tokens[agents[a].spawnedBy], agents[a].project)

IInv ==
    /\ Typed /\ SessionsIssued /\ AuthorityNarrows
    /\ SessionPropagates /\ OneRootPerSession /\ AgentsInSession

\* No token, session or agent yet: nothing to violate.
LEMMA InitIInv == Init => IInv
<1> SUFFICES ASSUME Init PROVE IInv
  OBVIOUS
<1>1. \A t \in TokenIds : ~Issued(t) /\ ~Registered(t)
  BY DEF Init, Issued, Registered
<1>2. \A c \in Calls : ~InFlight(c)
  BY DEF Init, InFlight
<1> QED
  BY <1>1, <1>2, TypedInit
  DEF IInv, Typed, PrincipalsMatch, SessionsIssued, AuthorityNarrows, SessionPropagates,
      OneRootPerSession, Root, AgentsInSession

\* The parent of a token is a token, and not None when it says so.
LEMMA ParentIsToken ==
    ASSUME Typed, NEW t \in TokenIds, Issued(t), tokens[t].parent # None
    PROVE  tokens[t].parent \in TokenIds
BY Values DEF Typed, Token

\* A Step keeps the types.
LEMMA TypedNext ==
    ASSUME Typed, Step
    PROVE  Typed'
<1>1. TypeOK'
  BY DEF TypeOK, Step, TokenStep, AgentStep, PrincipalStep
<1>2. PrincipalsMatch'
  <2> SUFFICES ASSUME NEW c \in Calls, InFlight(c)', principals'[c].token # None
               PROVE  /\ Issued(principals[c].token)'
                      /\ principals'[c].scope = tokens'[principals'[c].token].scope
                      /\ principals'[c].perm = tokens'[principals'[c].token].perm
    BY DEF PrincipalsMatch
  <2>1. PICK u \in TokenIds : u = principals'[c].token
    BY DEF Step, PrincipalStep, InFlight, Principal
  <2>2. Issued(u) /\ principals'[c].scope = tokens[u].scope /\ principals'[c].perm = tokens[u].perm
    BY <2>1 DEF Step, PrincipalStep
  <2>3. Kept(u)
    BY <2>2 DEF Step, TokenStep
  <2> QED BY <2>1, <2>2, <2>3 DEF Kept, Issued
<1> QED BY <1>1, <1>2 DEF Typed

\* A Step keeps every token within its parent's authority.
LEMMA NarrowsNext ==
    ASSUME Typed, AuthorityNarrows, Step
    PROVE  AuthorityNarrows'
<1> SUFFICES ASSUME NEW t \in TokenIds, Issued(t)', tokens'[t].parent # None
             PROVE  LET parent == tokens'[tokens'[t].parent]
                    IN  /\ Issued(tokens[t].parent)'
                        /\ tokens'[t].perm <= parent.perm
                        /\ \A project \in Projects \cup {None} :
                              CanAccess(tokens'[t], project) => CanAccess(parent, project)
  BY DEF AuthorityNarrows
<1>1. CASE Issued(t)
  <2>1. Kept(t) /\ tokens'[t].parent = tokens[t].parent /\ tokens[t].parent \in TokenIds
    BY <1>1, ParentIsToken DEF Step, TokenStep, Kept
  <2>2. /\ Issued(tokens[t].parent)
        /\ tokens[t].perm <= tokens[tokens[t].parent].perm
        /\ \A project \in Projects \cup {None} :
              CanAccess(tokens[t], project) => CanAccess(tokens[tokens[t].parent], project)
    BY <1>1, <2>1 DEF AuthorityNarrows
  <2>3. Kept(tokens[t].parent)
    BY <2>1, <2>2 DEF Step, TokenStep
  <2> QED BY <2>1, <2>2, <2>3 DEF Kept, CanAccess, Issued
<1>2. CASE ~Issued(t)
  <2>1. PICK c \in Calls : IssuedFor(t, c)
    BY <1>2 DEF Step, TokenStep
  <2>2. PICK u \in TokenIds : u = principals[c].token
    BY <2>1, Values DEF IssuedFor, Typed, Principal
  <2>3. /\ tokens'[t].parent = u /\ Issued(u)
        /\ principals[c].scope = tokens[u].scope /\ principals[c].perm = tokens[u].perm
    BY <2>1, <2>2 DEF IssuedFor, Typed, PrincipalsMatch
  <2>4. Kept(u)
    BY <2>3 DEF Step, TokenStep
  <2>5. /\ tokens'[t].perm <= tokens'[u].perm
        /\ \A project \in Projects \cup {None} :
              CanAccess(tokens'[t], project) => CanAccess(tokens'[u], project)
    <3>1. tokens'[u].scope = principals[c].scope /\ tokens'[u].perm = principals[c].perm
      BY <2>3, <2>4 DEF Kept
    <3>2. \A project \in Projects \cup {None} :
            CanAccess(principals[c], project) => CanAccess(tokens'[u], project)
      BY <3>1 DEF CanAccess
    <3>3. /\ tokens'[t].perm <= principals[c].perm
          /\ \A project \in Projects \cup {None} :
                CanAccess(tokens'[t], project) => CanAccess(principals[c], project)
      BY <2>1 DEF IssuedFor
    <3> QED BY <3>1, <3>2, <3>3
  <2> QED BY <2>3, <2>4, <2>5 DEF Kept, Issued
<1> QED BY <1>1, <1>2

\* A Step keeps children in their spawner's session.
LEMMA PropagatesNext ==
    ASSUME Typed, AuthorityNarrows, SessionPropagates, Step
    PROVE  SessionPropagates'
<1> SUFFICES ASSUME NEW t \in TokenIds, Issued(t)', tokens'[t].spawned, tokens'[t].parent # None
             PROVE  /\ tokens'[t].session # None
                    /\ tokens'[t].session = tokens'[tokens'[t].parent].session
  BY DEF SessionPropagates
<1>1. CASE Issued(t)
  <2>1. /\ Kept(t) /\ tokens'[t].parent = tokens[t].parent
        /\ tokens'[t].spawned = tokens[t].spawned /\ tokens[t].parent \in TokenIds
    BY <1>1, ParentIsToken DEF Step, TokenStep, Kept
  <2>2. /\ tokens[t].session # None /\ Issued(tokens[t].parent)
        /\ tokens[t].session = tokens[tokens[t].parent].session
    BY <1>1, <2>1 DEF SessionPropagates, AuthorityNarrows
  <2>3. Kept(tokens[t].parent)
    BY <2>1, <2>2 DEF Step, TokenStep
  <2> QED BY <2>1, <2>2, <2>3 DEF Kept
<1>2. CASE ~Issued(t)
  BY <1>2, NoneAssumption DEF Step, TokenStep, SessionsGrow
<1> QED BY <1>1, <1>2

\* A Step gives a session no second root.
LEMMA OneRootNext ==
    ASSUME Typed, SessionsIssued, OneRootPerSession, Step
    PROVE  OneRootPerSession'
<1> SUFFICES ASSUME NEW t \in TokenIds, NEW u \in TokenIds, Root(t)', Root(u)',
                    tokens'[t].session = tokens'[u].session
             PROVE  t = u
  BY DEF OneRootPerSession
<1>1. /\ Issued(t)' /\ tokens'[t].session # None
      /\ Issued(u)' /\ tokens'[u].session # None
      /\ ~(tokens'[t].spawned /\ tokens'[t].parent # None)
      /\ ~(tokens'[u].spawned /\ tokens'[u].parent # None)
  BY DEF Root
<1>2. SessionsGrow
  BY DEF Step, TokenStep
<1>3. CASE Fresh(t)
  BY <1>1, <1>2, <1>3, NoneAssumption DEF SessionsGrow
<1>4. CASE ~Fresh(t)
  <2>1. ~Fresh(u)
    BY <1>4 DEF Fresh
  <2>2. Issued(t) /\ Issued(u)
    BY <1>1, <1>2, <1>4, <2>1 DEF SessionsGrow
  <2>3. tokens'[t].session = tokens[t].session /\ tokens'[u].session = tokens[u].session
    BY <1>2, <1>4, <2>1, <2>2 DEF SessionsGrow
  <2>4. Kept(t) /\ Kept(u)
    BY <2>2 DEF Step, TokenStep
  <2>5. Root(t) /\ Root(u)
    BY <1>1, <2>2, <2>3, <2>4 DEF Root, Kept
  <2> QED BY <2>3, <2>5 DEF OneRootPerSession
<1> QED BY <1>3, <1>4

\* A Step keeps agents in the session of the token that spawned them.
LEMMA AgentsNext ==
    ASSUME Typed, AgentsInSession, Step
    PROVE  AgentsInSession'
<1> SUFFICES ASSUME NEW a \in TokenIds, Registered(a)', agents'[a].spawnedBy # None
             PROVE  /\ Issued(agents[a].spawnedBy)'
                    /\ tokens'[agents'[a].spawnedBy].session = agents'[a].session
                    /\ CanAccess(tokens'[agents'[a].spawnedBy], agents'[a].project)
  BY DEF AgentsInSession
<1>1. PICK by \in TokenIds : by = agents'[a].spawnedBy
  BY DEF Step, AgentStep, Registered, Agent
<1> SUFFICES /\ Kept(by)
             /\ tokens'[by].session = agents'[a].session
             /\ CanAccess(tokens[by], agents'[a].project)
  BY <1>1 DEF Kept, Issued, CanAccess
<1>2. CASE Registered(a) /\ agents'[a] = agents[a]
  <2>1. /\ Issued(by) /\ tokens[by].session = agents'[a].session
        /\ CanAccess(tokens[by], agents'[a].project)
    BY <1>1, <1>2 DEF AgentsInSession
  <2>2. Kept(by) /\ agents'[a].session # None
    BY <2>1, NoneAssumption DEF Step, TokenStep, AgentStep, Registered, Agent
  <2> QED BY <2>1, <2>2 DEF Kept
<1>3. ASSUME NEW c \in Calls, InFlight(c), by = principals[c].token,
             CanAccess(principals[c], agents'[a].project),
             principals[c].token # None =>
                tokens'[principals[c].token].session = agents'[a].session
      PROVE  /\ Kept(by)
             /\ tokens'[by].session = agents'[a].session
             /\ CanAccess(tokens[by], agents'[a].project)
  <2>1. by # None
    BY NoneAssumption
  <2>2. Issued(by) /\ principals[c].scope = tokens[by].scope
    BY <1>3, <2>1 DEF Typed, PrincipalsMatch
  <2>3. Kept(by)
    BY <2>2 DEF Step, TokenStep
  <2> QED BY <1>3, <2>1, <2>2, <2>3 DEF CanAccess
<1> QED BY <1>1, <1>2, <1>3 DEF Step, AgentStep

\* Every action is a Step.
LEMMA NextIInv == IInv /\ [Next]_vars => IInv'
<1> SUFFICES ASSUME IInv, [Next]_vars PROVE IInv'
  OBVIOUS
<1>1. Step
  BY NextStep DEF IInv
<1>2. SessionsIssued'
  BY <1>1 DEF Step, TokenStep
<1> QED
  BY <1>1, <1>2, TypedNext, NarrowsNext, PropagatesNext, OneRootNext, AgentsNext DEF IInv

\* The invariant of every reachable state.
LEMMA Inductive == Spec => []IInv
<1> QED BY InitIInv, NextIInv, PTL DEF Spec

----------------------------------------------------------------------------
(* The theorems                                                            *)

\* Every variable keeps its type.
THEOREM TypeCorrect == Spec => []TypeOK
<1>1. IInv => TypeOK
  BY DEF IInv, Typed
<1> QED BY <1>1, Inductive, PTL

\* Authority only narrows from a token to those issued by it (scope.go:61-72).
THEOREM AuthorityOnlyNarrows == Spec => []AuthorityNarrows
<1>1. IInv => AuthorityNarrows
  BY DEF IInv
<1> QED BY <1>1, Inductive, PTL

\* Sessions spread by spawns and never merge (agent.go:39-52): a session is a tree with
\* one root.
THEOREM SessionsAreTrees == Spec => [](SessionPropagates /\ OneRootPerSession)
<1>1. IInv => SessionPropagates /\ OneRootPerSession
  BY DEF IInv
<1> QED BY <1>1, Inductive, PTL

\* An agent's token is in the session of the token that spawned it, although the
\* session is established outside the lock that authenticate reads it under
\* (agent.go:39-52).
THEOREM SpawnsKeepSession == Spec => []SessionPropagates
<1>1. IInv => SessionPropagates  BY DEF IInv
<1> QED BY <1>1, Inductive, PTL

\* A caller keeps sight of what it spawned (server.go:276-284).
THEOREM SpawnersSeeAgents == Spec => []SpawnerSeesAgent
<1>1. ASSUME IInv PROVE SpawnerSeesAgent
  <2> SUFFICES ASSUME NEW a \in TokenIds, Registered(a), agents[a].spawnedBy # None
               PROVE  CanSeeAgent(PrincipalOf(agents[a].spawnedBy), agents[a])
    BY DEF SpawnerSeesAgent
  <2> DEFINE p == PrincipalOf(agents[a].spawnedBy)
  <2>1. /\ tokens[agents[a].spawnedBy].session = agents[a].session
        /\ CanAccess(tokens[agents[a].spawnedBy], agents[a].project)
    BY <1>1 DEF IInv, AgentsInSession
  <2>2. agents[a].session # None
    BY <1>1, Values, NoneAssumption DEF IInv, Typed, Agent
  <2>3. /\ p.scope = tokens[agents[a].spawnedBy].scope
        /\ p.session = tokens[agents[a].spawnedBy].session
    BY DEF PrincipalOf
  <2> QED BY <2>1, <2>2, <2>3 DEF CanSeeAgent, CanAccess
<1> QED BY <1>1, Inductive, PTL
=============================================================================
