CONSTANTS
    Tasks = {lookup, restart, send}
    Lookup = lookup
    Closers = {c1, c2}
SPECIFICATION FairSpec
INVARIANT TeardownInv
PROPERTIES DrainsItsTasks LoopEnds CloseReturns
