\* add_to_blacklist calls racing the 60 s reload, no admin removal.
CONSTANTS
    c1 = c1
    c2 = c2
    c3 = c3
    ALL = ALL
    None = None
    Keys <- MCKeys
    All = ALL
    Substr <- MCNoSubstr
    Adds = {c1, ALL}
    Removes = {}
    InitFile = {c2, c3}
SPECIFICATION FairSpec

PROPERTY AddTakesEffect
