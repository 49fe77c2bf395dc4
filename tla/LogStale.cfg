SPECIFICATION Spec
CONSTANTS
    BadPatterns = {"bad"}
    Initial <- MCInitial
    Loaders = {l1}
    Clients = {t1}
    Names = {1, 2}
    Root = 1
    Documents <- OneLogger
    Events = {1}
    MaxOwn = 0
    MaxLoads = 2
INVARIANT LoggersFollow
