CONSTANTS
  Writer = {w1, w2}
  None = None
  MaxWrites = 6
SPECIFICATION ChannelFairSpec
INVARIANT LatestReachable
PROPERTY TerminalSeen
