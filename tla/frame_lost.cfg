\* The help text of -m against a frame with an operand of no type.
CONSTANTS
  MemSize = 3
  Blank = 2
  Regs <- MCRegs
  PcReg = "pc"
  Bound <- MCBound
  Accesses <- MCAccesses
  CacheReset = TRUE
  SkippedCode <- MCSkipped
  Frames <- MCFrames
  NextPcs <- MCNextPcs
  InsnIds = {7}
  MaxEvents = 0
  WriteVals = {0, 1}
  RizinBits <- MCRizinBits
  TraceRegToRizin <- DefaultTraceRegToRizin
  RegNeedsCustomHandling <- Sparc32RegNeedsCustomHandling
  SubRegs <- Sparc32SubRegs
  SubRegContents <- Sparc32SubRegContents
  AdjustRegContentsFromTrace <- Sparc32FromTrace
  AdjustRegContentsFromRizin <- Sparc32FromRizin
  IgnorePostMismatchReg <- Sparc32IgnorePostMismatchReg
  IgnorePCMismatch <- Sparc32IgnorePCMismatch
  IgnoreCompareMemMismatch = FALSE
  AssumeEventIsJustified <- Sparc32AssumeEventIsJustified
  AllowNoOperandSameValueAssignment = TRUE
  KuserHelpers = {}
SPECIFICATION Spec
PROPERTY MismatchReported
