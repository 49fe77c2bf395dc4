SPECIFICATION Spec
CONSTANTS
    Threads = {t1, t2, t3}
    NoTid = NoTid
    UsesThis = {t1}
    JoinsFirst = {t1}
INVARIANTS LifeInv NoStaleThis
PROPERTY ConstructorReturns
CHECK_DEADLOCK FALSE
