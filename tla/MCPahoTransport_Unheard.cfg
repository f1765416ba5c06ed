CONSTANTS
  a = a
  b = b
  c = c
  t = t
  u = u
  Item = {a, b}
  Topic = {t}
  TopicOf <- TwoTopics
  QosOf <- Ones
  Loop = Loop
  None = None
  MaxDrops = 0
  Together <- All
  Slow = {}
  Ends = FALSE
  Abandoned = {"unsubscribe"}
SPECIFICATION Spec
INVARIANTS SubscribeTakesEffect
