SPECIFICATION Spec
CONSTANTS
  e1 = e1
  e2 = e2
  p1 = p1
  p2 = p2
  Events <- MCEvents
  Publishers <- MCPublishers
  NoEvent = NoEvent
  Scenarios <- MCScenarios
  LockTime = 2
  LastInsert = 0
INVARIANT OneHolder
PROPERTIES ImplementsRelay EventArrives BacklogDrains
CHECK_DEADLOCK FALSE
