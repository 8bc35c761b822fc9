\* One agent, and a channel that never overflows.
CONSTANTS
    None = None
    Agents = {a1}
    Handlers = {h1}
    Streams = {s1}
    BufSize = 8
SPECIFICATION FairSpec
PROPERTIES StreamClosesAfterDestroy
