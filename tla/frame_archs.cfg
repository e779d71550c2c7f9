\* RunFrame with every adapter; any number of frames in any order.
CONSTANTS
  Archs <- MCArchs
  Profiles <- MCProfiles
  BoundOf <- MCBoundOf
  FramesOf <- MCFramesOf
  PcOf <- MCPcOf
  MemSize = 3
  Blank = 2
  Accesses <- MCAccesses
  SkippedCode <- MCSkipped
  NextPcs <- MCNextPcs
  InsnIds = {7}
  MaxEvents = 1
  WriteVals = {0, 1}
  Machine = 64
  KuserHelpers = {2}
SPECIFICATION Spec
INVARIANTS
  BitsFromFrame
  LoadedAsCompared
PROPERTY ImplementsOracle
