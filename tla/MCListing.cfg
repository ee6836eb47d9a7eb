CONSTANTS
    Names = {1, 2, 3}
    DotNames = {1}
    Indices = {i1, i2}
    MaxChanges = 2
SPECIFICATION Spec
INVARIANTS
    ListsTwoMoments
    ListedInOrder
    BeginningOfListing
