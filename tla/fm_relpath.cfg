\* One invocation with -p d1 -p d2, where d2 is a relative path.
CONSTANTS
    Procs = {p1}
    s1 = s1
    s2 = s2
    s3 = s3
    d1 = d1
    d2 = d2
    pa = pa
    pb = pb
    readme = readme
    abi1 = abi1
    k1 = k1
    fz = fz
    Slots <- MCSlots
    Taken0 = {}
    OptionSets <- ValidOptions
    PatchDirSet = {d1, d2}
    DscFiles = {k1}
    Listing <- MCListing
    PatchNames <- MCPatchNames
    NameRank <- MCNameRank
    AbiOf <- MCAbiOf
    FlavorNames = {fz}
    FlavorsOf <- MCFlavorsOf
    RelativeDirs = {d2}
SPECIFICATION Spec
CHECK_DEADLOCK FALSE
PROPERTY ExistingPatchDirsListed
