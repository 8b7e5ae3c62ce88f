SPECIFICATION Spec
CONSTANTS
    Inputs <- MCInputs
    Argvs <- MCArgvs
    NUM_ARGO_VALUES = 40
INVARIANTS ReadsTheValue ListsAreCircular InputBoundsRun OutputReadsBack
