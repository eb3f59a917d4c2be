SPECIFICATION Spec
CONSTANTS
    Intervals = {0, 5, 60}
    DefaultInterval = 60
    own = own  other = other  none = none
    k = k  kp = kp  empty = empty
    Clusters <- TwoClusters
    CurrentCluster = own
    NoCluster = none
    Queries <- QueriesFound
    NoQuery = empty
    Matches <- MatchesText
    Prefix <- PrefixOfText
    Cap <- SmallCap
    j1 = j1  j2 = j2  noJob = noJob
    Jobs = {j1, j2}
    NoJob = noJob
    MaxPolls = 2
    MaxActions = 1
    r1 = r1  r2 = r2  s1 = s1  s2 = s2
    Runs = {r1, r2}
    Scripts <- OneAndTwo
    MaxHistory = 2
    MaxSchema = 2
    MaxFetches = 2
    csvFile = csvFile  jsonFile = jsonFile  noFile = noFile
    Files = {csvFile, jsonFile}
    Extension <- ExtensionOf
    NoFile = noFile
INVARIANT ImportsTheFileNamed
\* A tab may be left alone.
CHECK_DEADLOCK FALSE
