SPECIFICATION FairSpec
CONSTANTS
    Creates = {c1}
    Operators = {o1, o2}
    Keys = {k1, k2}
    Requests = {r1}
INVARIANTS
    OldKeysEnd
    SuspensionStands
    ServedHasUser
PROPERTY
    SuspendedGoesQuiet
