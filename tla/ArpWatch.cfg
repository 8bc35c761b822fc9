\* One handler at a time, two agents, one client that may stop reading, and a channel
\* that overflows.
CONSTANTS
    None = None
    Agents = {a1, a2}
    Handlers = {h1}
    Streams = {s1}
    BufSize = 2
SPECIFICATION FairHandlers
INVARIANTS TypeOK WatchersConverge

PROPERTIES HandlersReturn ReadersAreReleased
