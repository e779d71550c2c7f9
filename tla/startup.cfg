\* Every command line of up to three options.
CONSTANTS
  CommandLines <- MCCommandLines
  Containers <- MCContainers
  UT64_MAX = 9
  MaxOptions = 3
  KuserHelpers = {}
SPECIFICATION FairSpec
INVARIANTS
  TypeOK
  OptionsInv
  ConfiguredInv
  DumpWindow
  DumpBitsAsTested
PROPERTY Starts
\* main returns, or goes on with the test loop.
CHECK_DEADLOCK FALSE
