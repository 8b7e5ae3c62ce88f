CONSTANTS
    Widths = {7}
    PrefixLens = {1}
    SuffixLens = {0, 1}
    Hangs = {0, 2}
    WordLengths = {1, 2, 3, 8}
    Indents = {0, 2}
    MaxIn = 2
    MaxWords = 6
SPECIFICATION Spec
CHECK_DEADLOCK FALSE
INVARIANTS BreaksAreBest OnlyGrownWordFails TextFitsRoom EveryWordPrinted
