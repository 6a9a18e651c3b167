SPECIFICATION Spec
CONSTANTS
    Recs <- MCRecs
    Tokens <- MCTokens
    Names <- MCNames
    TokenOf <- MCTokenOf
    NameOf <- MCNameOf
    DevCapacity = 3
    ProcCapacity = 2
    NoRec = 0
INVARIANTS
    ListsAgree
    CountsExact
    WithinCapacity
PROPERTIES
    ImplementsLru
