\* Every operand list of up to MaxOps operands in an 8-byte address space.
CONSTANTS
  WordSize = 8
  Addresses <- Word
  AccessBits = {9, 24}
  OperandLists <- MCOperandLists
  MaxOps = 3
SPECIFICATION FairSpec
INVARIANTS
  TypeOK
  ChunkInv
PROPERTIES
  ImplementsOracle
  Progress
  Terminates
\* A call ends when it has returned.
CHECK_DEADLOCK FALSE
