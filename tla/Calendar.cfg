SPECIFICATION Spec
CONSTANTS
  First <- FirstDay
  Last <- LastDay
CHECK_DEADLOCK FALSE
INVARIANTS
  CivilIsCalendar
