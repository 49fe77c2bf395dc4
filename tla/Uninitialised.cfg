SPECIFICATION Spec
CONSTANTS
    Users = {u1, u2}
    FirstLocked = {FALSE, TRUE}
INVARIANT MutualExclusion
