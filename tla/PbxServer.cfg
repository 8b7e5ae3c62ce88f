CONSTANTS
    Clients = {"c1", "c2"}
    Descriptors = {4, 5}
    Commands <- MCCommands
    Leftovers <- MCLeftovers
    MaxAccepts = 3
    MaxSent <- MCMaxSent
    MaxSignals = 1
SPECIFICATION FairSpec
CHECK_DEADLOCK FALSE
INVARIANTS ServesItsConnection ExtensionsApart
PROPERTIES ObeysInOrder EndsWithItsClients
