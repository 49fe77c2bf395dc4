SPECIFICATION Spec
CONSTANTS
    None = None
    Main = Main
    Roots = {r}
    Tasks = {f, g}
    Callbacks = {r, f, g}
    MaxYields = 2
    MaxResets = 2
INVARIANTS ContextInv GetThisRight OnlySecondCallFaults Reclaimed
