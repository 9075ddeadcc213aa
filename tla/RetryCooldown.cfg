\* A GET and a query with a body that is read once, under RefusedOnly, that share
\* one cooldown, with fair scheduling; a lockout may be longer than a call sleeps.
CONSTANTS
  Calls = {get, query}
  Idempotent = {get}
  Marked = {query}
  OptedOut = {}
  WithBody = {query}
  Rewindable = {}
  MaxAttempts = 2
  Delay = 1
  MaxDelay = 1
  Jitter = 50
  RefusedOnly = TRUE
  MaxAfter = 2
  Deferring = {}
  None = None
SPECIFICATION FairSpec
INVARIANTS LockoutHeld
PROPERTIES CallsReturn
CHECK_DEADLOCK FALSE
