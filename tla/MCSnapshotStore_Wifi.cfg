CONSTANTS
  Section = {"wifi"}
  MaxChanges = 2
  MaxFaults = 1
SPECIFICATION Spec
INVARIANT ReportedSectionsDiffer
CHECK_DEADLOCK FALSE
