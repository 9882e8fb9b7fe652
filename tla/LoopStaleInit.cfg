SPECIFICATION Spec
CONSTANTS
    TeamSizes = {2, 3}
    Programs <- TwoLoops
INVARIANT DoneBeforePassing
