\* Two launches in different chunks, so their buys may overlap.
CONSTANTS
    l1 = l1
    l2 = l2
    zeroslot = zeroslot
    jito = jito
    Launches <- MCLaunches
    Paths <- MCPaths
    Sequential = FALSE
SPECIFICATION Spec
INVARIANT AtMostOneFillPerLaunch
\* Each launch is bought once; the run ends when both are settled.
CHECK_DEADLOCK FALSE
