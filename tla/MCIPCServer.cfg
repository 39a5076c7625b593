SPECIFICATION FairSpec
CONSTANTS
  c1 = c1  c2 = c2  s1 = s1
  Clients = {c1, c2}
  Appenders = {s1}
  OutCap = 1
  Whitelist = TRUE
  Sends <- MCSends
  MaxChats = 2
CHECK_DEADLOCK FALSE
INVARIANTS
  IPCTypeOK
  NoticesAreComplete
  OwnNoticeFirst
PROPERTIES
  CommandsAreAnswered
  GoneIsForgotten
