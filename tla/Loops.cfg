SPECIFICATION Spec
CONSTANTS
    TeamSizes = {1, 3}
    Programs <- AllPrograms
INVARIANTS OnlyOnce DoneBeforePassing OrderedInSequence CopiedFromSingle
PROPERTY RegionEnds
