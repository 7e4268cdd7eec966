SPECIFICATION LiveSpec
CONSTANTS
  Event = {e1, e2, e3}
  MaxTime = 2
CHECK_DEADLOCK FALSE
INVARIANTS TypeOK ListsAgree
PROPERTIES ImplementsCalendar EveryEventLeaves
