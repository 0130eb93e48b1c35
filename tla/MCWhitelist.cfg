\* One update_whitelist_config call racing the exporter and the watcher.
CONSTANTS
    c1 = c1
    c2 = c2
    c3 = c3
    c4 = c4
    Absent = Absent
    Stats <- MCStats
    InitParams <- MCInitParams
    Updates <- MCUpdates
    InitFile <- MCInitFile
    Cap = 1
    MaxFails = 1
    MaxExports = 2
SPECIFICATION FairSpec
INVARIANT WhitelistFromOneAnswer
PROPERTY ConfigTakesEffect
