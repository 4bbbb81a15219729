CONSTANTS
  Requests = {1, 2}
  Loads <- MCLoads
  Durations = {500, 2500}
  Free = Free
SPECIFICATION FairSpec
INVARIANT CountersAgree
PROPERTIES ImplementsCall AnsweredUnlessCatalogueSilent
CHECK_DEADLOCK FALSE
