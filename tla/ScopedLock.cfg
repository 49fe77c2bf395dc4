SPECIFICATION Spec
CONSTANTS
    Users = {u1, u2, u3, u4}
    FirstLocked = {FALSE}
SYMMETRY Symmetry
INVARIANTS MutualExclusion LockInv
