CONSTANTS
  Buffer = 1
  Conn = {c1, c2}
  Stopper = {p1}
  NoConn = NoConn
  MaxAttempts = 2
SPECIFICATION FairSpec
INVARIANTS OneConnection FreshIsCurrent
PROPERTIES KeepsContract CallersReturn
