SPECIFICATION Spec
CHECK_DEADLOCK FALSE
CONSTANTS
  Sizes <- SmallSizes
  Counts <- SmallCounts
INVARIANTS
  PartitionsFile
  NoEmptyRange
  LoopIsClosedForm
