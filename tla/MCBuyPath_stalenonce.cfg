\* Two launches of the same chunk: one buy after the other.
CONSTANTS
    l1 = l1
    l2 = l2
    zeroslot = zeroslot
    jito = jito
    Launches <- MCLaunches
    Paths <- MCPaths
    Sequential = TRUE
SPECIFICATION Spec
INVARIANT NonceFreshWhenQuiet
\* Each launch is bought once; the run ends when both are settled.
CHECK_DEADLOCK FALSE
