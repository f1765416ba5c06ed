CONSTANTS
  a = a
  b = b
  c = c
  t = t
  u = u
  Item = {a, b, c}
  Topic = {t, u}
  TopicOf <- TwoTopics
  QosOf <- Ones
  Loop = Loop
  None = None
  MaxDrops = 1
  Together <- Twos
  Slow = {b}
  Ends = FALSE
  Abandoned = {"subscribe", "unsubscribe"}
SPECIFICATION Spec
INVARIANTS LiveIsReachable OpenIsSubscribed NoLostWakeUp
