SPECIFICATION FairSpec
CONSTANTS
  s1 = s1
  s2 = s2
  user = user
  User = user
  Senders = {s1, s2}
  Cases = {{"send"}, {"disconnect", "fail"}, {"send", "timeout", "awake", "fail"},
           {"send", "timeout", "disconnect", "off", "awake", "fail"},
           {"disconnect", "full"}}
  QLen = 2
INVARIANTS
  TransmitsAwake
  LockHasOwner
PROPERTIES
  SleepConfirmed
  DisconnectAloneAnswered
