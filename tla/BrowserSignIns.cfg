CONSTANTS
  w1 = w1  w2 = w2  login = login  impersonate = impersonate
  s1 = s1  s2 = s2  s3 = s3  s4 = s4
  None = None
  Writers = {w1}
  SignIns = {login, impersonate}
  Forms = {login}
  OptedOut = {w1, login}
  Sessions = {s1, s2, s3}
  MaxAttempts = 2
SPECIFICATION Spec
SYMMETRY AnySession
INVARIANTS TokenIsTheSessions
CHECK_DEADLOCK FALSE
