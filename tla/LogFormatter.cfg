SPECIFICATION Spec
CONSTANTS
    Alpha = {"m", "d"}
    Other = {" "}
    MaxLen = 6
INVARIANTS ErrorExact FormatMeans InRange
