CONSTANTS
    Unwritten = Unwritten
    Items = {item1, item2}
    First = 1
    MaxBlocks = 3
SPECIFICATION ReadLastSpec
INVARIANTS FilledInOrder
PROPERTIES KeepsContract
