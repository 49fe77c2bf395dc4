SPECIFICATION Spec
CONSTANTS
    c1 = c1
    c2 = c2
    Clients = {c1, c2}
    Loaders = {c1, c2}
    Visitors = {c2}
    None = None
    Numerals = {"1", "2"}
    NullWords <- MCNullWords
    Structure <- MCStructure
    Quotation <- MCQuotation
    Words <- MCWords
    CharsOf <- MCCharsOf
    ToLower <- MCToLower
    Nodes <- MCNodes
    Depth <- MCDepth
    Docs <- MCDocs
    Requests <- MCRequests
    FromString <- FromStr
    Printed <- Dump
INVARIANTS PointerRegistered LoadComplete VisitSees Restorable
PROPERTY OnlyNamed
