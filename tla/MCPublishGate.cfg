SPECIFICATION Spec
CONSTANTS
    Paths <- MCPaths
    Hot <- MCHot
    Blobs <- MCBlobs
    Tainted <- MCTainted
    Pointers <- MCPointers
    Stubs <- MCStubs
    Size <- MCSize
    Absent = Absent
    MaxCommits = 3
    MaxEntries = 9
    MaxObjects = 9
    MaxBlobBytes = 2
    MaxTotalBytes = 5
    Commands = {c1}
    Pasts <- MCPasts
    Tip = 3
    Readme = "readme"
    License = "license"
    Dests = {d1, d2}
    Verifiers = {"v1", "v2"}
    Configs <- MCConfigs
    Exes = {x1, x2}
    Bound = TRUE
    None = None
    MaxChanges = 2
SYMMETRY Symmetry
INVARIANTS
    PublicContactWasCleared
    VerifiedByRecordedSet
    NewCommandsNeedConsent
