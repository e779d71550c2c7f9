\* RunFrame on traces of 32-bit SPARC; any number of frames in any order.
CONSTANTS
  MemSize = 3
  Blank = 2
  Regs <- MCRegs
  PcReg = "pc"
  Bound <- MCBound
  Accesses <- MCAccesses
  CacheReset = TRUE
  SkippedCode <- MCSkipped
  Frames <- MCFrames
  NextPcs <- MCNextPcs
  InsnIds = {7}
  MaxEvents = 2
  WriteVals = {0, 1}
  RizinBits <- MCRizinBits
  TraceRegToRizin <- DefaultTraceRegToRizin
  RegNeedsCustomHandling <- Sparc32RegNeedsCustomHandling
  SubRegs <- Sparc32SubRegs
  SubRegContents <- Sparc32SubRegContents
  AdjustRegContentsFromTrace <- Sparc32FromTrace
  AdjustRegContentsFromRizin <- Sparc32FromRizin
  IgnorePostMismatchReg <- Sparc32IgnorePostMismatchReg
  IgnorePCMismatch <- Sparc32IgnorePCMismatch
  IgnoreCompareMemMismatch = FALSE
  AssumeEventIsJustified <- Sparc32AssumeEventIsJustified
  AllowNoOperandSameValueAssignment = TRUE
  KuserHelpers = {}
SPECIFICATION Spec
INVARIANTS
  TypeOK
  CountdownInv
PROPERTY ImplementsOracle
