\* A relay of either kind, one POST, three descriptors.
SPECIFICATION Spec
CONSTANTS
  Signals = {s1}
  Discords = {d1}
  Posts = {p1}
  MaxFd = 3
  Freed = Freed
INVARIANTS TypeOK TimersOwned NobodyForgotten OneOwnerEach
CHECK_DEADLOCK FALSE
