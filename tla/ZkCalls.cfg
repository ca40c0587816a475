\* Every call, every path of up to five characters, with and without a chroot.
CONSTANTS
    Control = "^"
    Block = 2
    Permutes = TRUE
    MaxOps = 3
    Broken = {"broken"}
    HostLists <- MCHostLists
    PlainHosts <- MCPlainHosts
    Suffixes <- MCSuffixes
    ClientPaths <- MCClientPaths
    OpPaths <- MCOpPaths
    Arrays <- MCArrays
SPECIFICATION Spec
INVARIANTS AddressesKept RequestFaithful ReplyReadable MultiInOrder
