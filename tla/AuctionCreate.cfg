SPECIFICATION FairSpec
CONSTANTS
  s = s
  x = x
  Requests = {r1, r2}
  Commands <- MCCommands
  Sellers <- TwoSellers
  Unknown = Unknown
  Owner = s
  Skew = 1
  Horizon = 3
  MaxFaults = 1
INVARIANTS AnswersAgree OneTrueAnnouncement
PROPERTIES StoredIsClosed DoneStaysDone
CHECK_DEADLOCK FALSE
