CONSTANTS
  Req = {r1, r2}
  Sub = {s1, s2}
  Closer = Closer
  None = None
  MaxCopies = 1
SPECIFICATION FairSpec
INVARIANTS NoWaiterForgotten SendNeverBlocks
PROPERTIES ImplementsRoundTrips CallsEnd
