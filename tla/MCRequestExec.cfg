CONSTANTS
  get = get
  post = post
  upload = upload
  Caller = {c1, c2}
  Flight = {f1, f2}
  None = None
  MaxUpgrades = 2
  Request = {get, post, upload}
  Safe = {get}
  Repeatable = {get, post}
  MaxAttempts = 2
SYMMETRY Identities
SPECIFICATION Spec
INVARIANTS ExecutedOnce OnlyUpgradeRejects FlightIsShared
