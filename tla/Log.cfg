SPECIFICATION Spec
CONSTANTS
    BadPatterns = {"bad"}
    Initial <- MCInitial
    Loaders = {l1, l2}
    Clients = {t1}
    Names = {1, 2}
    Root = 1
    Documents <- MCDocuments
    Events = {1, 4}
    MaxOwn = 1
    MaxLoads = 3
SYMMETRY Symmetry
INVARIANTS LogInv ConfigApplied NoMixture OutputFollows RoundTrip
