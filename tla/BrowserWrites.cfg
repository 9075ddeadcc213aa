CONSTANTS
  w1 = w1  w2 = w2  login = login  impersonate = impersonate
  s1 = s1  s2 = s2  s3 = s3  s4 = s4
  None = None
  Writers = {w1, w2}
  SignIns = {impersonate}
  Forms = {}
  OptedOut = {w1, w2, impersonate}
  Sessions = {s1, s2, s3}
  MaxAttempts = 2
SPECIFICATION FairSpec
INVARIANTS TypeOK RejectedOnlyIfDisturbed OneTokenPerSignIn
PROPERTY EveryCallReturns
CHECK_DEADLOCK FALSE
