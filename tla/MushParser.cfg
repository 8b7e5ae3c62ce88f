SPECIFICATION Spec
CONSTANTS
    Vocabularies <- MCVocabularies
    MaxDepth = 1
INVARIANTS StringsFreedOnce OneLinePerCall GroupsAsDeclared ListingReadsBack
