\* The help text of -u against what stops the loop.
CONSTANTS
  Traces <- MCTraces
  Froms = {0, 1, 3}
  Limits = {0, 2, 9}
  FlagSets <- MCFlagSets
  InsnIds = {0, 7}
SPECIFICATION Spec
INVARIANT StopsAtUnlifted
\* main ends.
CHECK_DEADLOCK FALSE
