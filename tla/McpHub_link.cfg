SPECIFICATION Spec
CONSTANTS
    Callers = {c1, c2}
    MaxLinks = 3
    MaxRestarts = 1
INVARIANTS
    NoOrphanPolls
    UnlinkIsFinal
    ConnectedHasTokens
    RegistryMatchesIndex
