\* Two exports and two installations with one fault: a crash, an I/O error, a
\* damaged file or a shard cut short.
CONSTANTS
    Source <- MCSource
    Local = 9
    Shard = 2
    PageSize = 2
    Keys = {"k1", "k2"}
    Trusted = {"k1"}
    TrustModes = {"dev", "manifest", "signed"}
    None = None
    MaxExports = 2
    MaxInstalls = 2
    MaxFaults = 1
SPECIFICATION Spec
INVARIANTS TypeOK InstalledIsASourceState TrustHonoured CountsMatchUnlessDamaged OldStoreKept
CHECK_DEADLOCK FALSE
