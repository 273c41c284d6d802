SPECIFICATION Spec
CONSTANTS
    m1 = m1
    m2 = m2
    m3 = m3
    c1 = c1
    c2 = c2
    c3 = c3
    None = None
    Msgs <- ThreeMsgs
    Bodies <- TwoBodies
    BodyOf <- SameBody
    Callers <- ThreeCallers
    MaxFailures = 1
    MaxLapses = 1
    MaxCrashes = 1
SYMMETRY Symmetric
INVARIANTS
    DuplicateHasOriginal
    UniqueBounded
