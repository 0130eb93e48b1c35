\* One admin removal racing an add and the reload.
CONSTANTS
    c1 = c1
    c2 = c2
    c3 = c3
    ALL = ALL
    None = None
    Keys <- MCKeys
    All = ALL
    Substr <- MCNoSubstr
    Adds = {c1}
    Removes = {c3}
    InitFile = {c2, c3}
SPECIFICATION FairSpec
PROPERTY RemovalSticks
