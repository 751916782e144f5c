SPECIFICATION Spec
CONSTANTS
    root = root
    sub = sub
    other = other
    f = f
    g = g
    out = out
    nothing = nothing
    Dirs = {root, sub, other}
    Files = {f, g}
    Links = {out}
    Root = root
    NameOrder <- MCNames
    InitialEntries <- MCEntries
    InitialData <- MCData
    Contents <- MCContents
    Outside <- MCOutside
    GitOutputs <- MCGitOutputs
    Nothing = nothing
    OutputLimit = 3
    StatusLimit = 4
    MaxDepth = 1
    MaxResults = 2
    MaxCandidates = 3
    MaxScanBytes = 5
    MaxNames = 1
    MaxChanges = 2
INVARIANTS
    WholeUnlessTruncated
    CleanFactIsEarned
    ListingReadsWhatItOpened
    SearchMissesNothing
CHECK_DEADLOCK FALSE
