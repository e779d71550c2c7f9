\* The program with -n, over traces of up to three frames.
CONSTANTS
  Traces <- MCTraces
  Froms = {0, 1}
  Limits = {1, 9}
  FlagSets <- MCFlagSets
  MemSize = 4
  Blank = 3
  Regs <- MCRegs
  PcReg = "pc"
  Bound = {"a"}
  Accesses <- MCAccesses
  CacheReset = FALSE
  SkippedCode <- MCSkipped
  NextPcs <- MCPcs
  InsnIds = {7}
  MaxEvents = 1
  WriteVals = {1}
  RizinBits <- MCRizinBits
  TraceRegToRizin <- DefaultTraceRegToRizin
  RegNeedsCustomHandling <- DefaultRegNeedsCustomHandling
  SubRegs <- DefaultSubRegs
  SubRegContents <- DefaultSubRegContents
  AdjustRegContentsFromTrace <- DefaultFromTrace
  AdjustRegContentsFromRizin <- DefaultFromRizin
  IgnorePostMismatchReg <- DefaultIgnorePostMismatchReg
  IgnorePCMismatch <- DefaultIgnorePCMismatch
  IgnoreCompareMemMismatch = FALSE
  AssumeEventIsJustified <- DefaultAssumeEventIsJustified
  AllowNoOperandSameValueAssignment = FALSE
  KuserHelpers = {}
SPECIFICATION FairSpec
INVARIANTS
  CodeIntact
  MemoryAccounted
  RefusalsReported
PROPERTIES
  ImplementsLoop
  ImplementsOracle
  Ends
\* The program ends.
CHECK_DEADLOCK FALSE
