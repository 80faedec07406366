SPECIFICATION FairSpec
CONSTANTS
    p1 = p1  p2 = p2  here = here  there = there
    Papers <- MCPapers
    Runs <- MCRuns
    ExecutorOf <- MCExecutorOf
    SizeOf <- MCSizeOf
    Killers = {p1}
    Fates <- MCFates
    NoRun = NoRun
    MaxUnsettled = 2
    MaxFaults = 1
    MaxFlagged = 1
INVARIANTS
    TypeOK
    OkHasExport
    NeighboursSpared
PROPERTIES
    ResultsStand
    BatchSettles
