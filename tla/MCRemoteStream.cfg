CONSTANTS
  Buffer = 1
  Sub = {c1, c2}
  Stopper = {p1}
  NoSub = NoSub
  MaxAttempts = 2
SPECIFICATION Spec
INVARIANTS FreshIsCurrent CleanEndStopsDevice ReleasedIsSilent
PROPERTIES KeepsContract
