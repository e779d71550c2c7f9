\* Every window over traces of up to three frames, every set of results.
CONSTANTS
  Traces <- MCTraces
  Froms = {0, 1, 3}
  Limits = {0, 2, 9}
  FlagSets <- MCFlagSets
  InsnIds = {0, 7}
SPECIFICATION FairSpec
INVARIANTS
  TypeOK
  PipelineInv
  AccountingInv
  CallsInv
  TallyInv
  WindowInv
  CoverageInv
PROPERTIES
  Ends
\* main ends.
CHECK_DEADLOCK FALSE
