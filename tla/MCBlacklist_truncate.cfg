\* A reload reading the file between remove_blacklist's truncate and write.
CONSTANTS
    c1 = c1
    c2 = c2
    c3 = c3
    ALL = ALL
    None = None
    Keys <- MCKeys
    All = ALL
    Substr <- MCNoSubstr
    Adds = {}
    Removes = {c3}
    InitFile = {c2, c3}
SPECIFICATION Spec
PROPERTY UntouchedStaysBlacklisted
