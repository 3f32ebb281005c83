SPECIFICATION Spec
CONSTANTS
    h1 = h1
    h2 = h2
    c1 = c1
    c2 = c2
    c3 = c3
    None = None
    Handler <- MCHandlers
    Connection <- MCThree
    MinThreads = 1
    MaxThreads = 2
    MaxChunks = 1
INVARIANT BusyMeansInUse
