CONSTANTS
    a = a
    b = b
    Lines = {10, 20, 30, 40}
    Bodies = {a, b}
    MaxCounter = 6
    End = 41
SPECIFICATION ContractSpec
INVARIANTS ListingShowsCounter ListedWhenOrderly
PROPERTIES DeletionAheadKeepsNext KeepsPromise
