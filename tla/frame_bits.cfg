\* RunFrame on PowerPC traces whose container names no machine, against the comment
\* at cache_reset.
CONSTANTS
  MemSize = 3
  Blank = 2
  Regs <- MCRegs
  PcReg = "pc"
  Bound <- MCBound
  Accesses <- MCAccesses
  CacheReset = TRUE
  SkippedCode <- MCSkipped
  Frames <- MCFrames
  NextPcs <- MCNextPcs
  InsnIds = {7}
  MaxEvents = 0
  WriteVals = {0, 1}
  RizinBits <- MCRizinBits
  TraceRegToRizin <- PPCTraceRegToRizin
  RegNeedsCustomHandling <- DefaultRegNeedsCustomHandling
  SubRegs <- DefaultSubRegs
  SubRegContents <- DefaultSubRegContents
  AdjustRegContentsFromTrace <- PPCFromTrace
  AdjustRegContentsFromRizin <- DefaultFromRizin
  IgnorePostMismatchReg <- DefaultIgnorePostMismatchReg
  IgnorePCMismatch <- DefaultIgnorePCMismatch
  IgnoreCompareMemMismatch = FALSE
  AssumeEventIsJustified <- DefaultAssumeEventIsJustified
  AllowNoOperandSameValueAssignment = FALSE
  KuserHelpers = {}
SPECIFICATION Spec
INVARIANT BitsFromFrame
