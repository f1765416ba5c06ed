CONSTANTS
  Section = {"version", "power", "wifi", "ble", "timer"}
  MaxChanges = 2
  MaxFaults = 1
SPECIFICATION Spec
INVARIANTS ReportIsExact CaughtUp FailuresAccountFor
PROPERTY StoreIsPrivate
CHECK_DEADLOCK FALSE
