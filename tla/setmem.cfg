\* Every trace of up to three frames.
CONSTANTS
  Traces <- MCTraces
  Addr = {0, 1, 2, 3}
  Blank = 9
  Codes <- AllCodes
  MaxFrames = 3
SPECIFICATION FairSpec
INVARIANTS
  TypeOK
  LoadedInv
  ConsistentCodeLoaded
PROPERTY Loads
\* SetMem returns.
CHECK_DEADLOCK FALSE
