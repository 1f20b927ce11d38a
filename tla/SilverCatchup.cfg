SPECIFICATION FairSpec
CONSTANTS
    Interval = {i1, i2}
    Key = {k1, k2}
    MaxTs = 2
    Healer = {h1}
    Operator = {o1}
    Deployments <- Deployed
    NoRun = NoRun
INVARIANTS CoverageIsComplete HealedIsReflected ManifestAsPlanned
PROPERTIES NeverDemotes ReachesSilver
CHECK_DEADLOCK FALSE
