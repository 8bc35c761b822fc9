\* Two requests at a time and three tokens issued in all, in two sessions.  One project:
\* scopes are global, that project, and nothing.
\* Here PROJECT differs from ADMIN only in that CreateToken is refused.
CONSTANTS
    None = None
    Calls = {c1, c2}
    TokenIds = {t1, t2, t3}
    Sessions = {s1, s2}
    Projects = {p1}
    Perms = {1, 3}
SPECIFICATION Spec
SYMMETRY Interchangeable
INVARIANTS AuthorityNarrows SessionPropagates OneRootPerSession SpawnerSeesAgent
