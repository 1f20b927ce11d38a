SPECIFICATION Spec
CONSTANTS
    Attempt = {a1, a2, a3}
    Version = {1, 2, 3, 4, 5}
    NoOne = NoOne
    NoVersion = NoVersion
    VersionInReply = FALSE
SYMMETRY Symmetry
INVARIANT SwapsOwnLockOnly
PROPERTIES FencePassesOwner StealsLapsedOnly KeepsLeaseContract
CHECK_DEADLOCK FALSE
