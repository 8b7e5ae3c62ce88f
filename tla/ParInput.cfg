SPECIFICATION Spec
CONSTANTS
    MaxText = 5
    MaxUnreported = 1
    Cases <- AllCases
INVARIANTS DefaultsAsDocumented OptionsSetLast AllFreed
PROPERTIES PrintsEveryPart
