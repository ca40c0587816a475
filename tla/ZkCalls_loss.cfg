\* assert(entry) in deserialize_multi().
CONSTANTS
    Control = "^"
    Block = 2
    Permutes = TRUE
    MaxOps = 3
    Broken = {"broken"}
    HostLists <- MCHostLists
    PlainHosts <- MCPlainHosts
    Suffixes <- MCSuffixes
    ClientPaths <- MCClientPaths
    OpPaths <- MCOpPaths
    Arrays <- MCArrays
SPECIFICATION Spec
INVARIANT EntryForEveryHeader
