\* The endianness that SelectTraceAdapter tells against what main sets.
CONSTANTS
  CommandLines <- MCCommandLines
  Containers <- MCContainers
  UT64_MAX = 9
  MaxOptions = 1
  KuserHelpers = {}
SPECIFICATION Spec
INVARIANT EndiannessOfMachine
CHECK_DEADLOCK FALSE
