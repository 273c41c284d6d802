SPECIFICATION TlsSpec
CONSTANTS
    va = va
    vb = vb
    vab = vab
    Files <- TwoFiles
    Domains <- TwoDomains
    Certs <- ThreeCerts
    Covers <- CoversOf
    Key <- KeyOf
    Broken = Broken
    None = None
    MaxChanges = 2
    MaxReloads = 1
INVARIANTS
    HandshakesSucceed
    StaleIsTransient
PROPERTY HotReload
CHECK_DEADLOCK FALSE
