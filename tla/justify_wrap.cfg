\* The doc comment's "False otherwise" at the end of the address space.
CONSTANTS
  WordSize = 8
  Addresses <- Word
  AccessBits = {9, 24}
  OperandLists <- MCOperandLists
  MaxOps = 1
SPECIFICATION Spec
INVARIANT JustifiedOnlyByOverlap
CHECK_DEADLOCK FALSE
