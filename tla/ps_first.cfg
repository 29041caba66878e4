SPECIFICATION FairSpec
CONSTANTS
  s1 = s1
  s2 = s2
  user = user
  User = user
  Senders = {}
  Cases = {{"disconnect", "awake"}}
  QLen = 2
PROPERTIES
  DisconnectAnswered
CHECK_DEADLOCK FALSE
