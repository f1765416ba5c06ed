CONSTANTS
  a = a
  b = b
  c = c
  t = t
  u = u
  Item = {a}
  Topic = {t}
  TopicOf <- TwoTopics
  QosOf <- Ones
  Loop = Loop
  None = None
  MaxDrops = 1
  Together <- All
  Slow = {a}
  Ends = TRUE
  Abandoned = {}
SPECIFICATION FairSpec
PROPERTIES CloseCompletes CallersReturn Converges
