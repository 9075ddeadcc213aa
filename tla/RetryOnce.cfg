\* A POST and a create under WithoutRetry (marked idempotent by mistake, and with a
\* handler that may answer 503 when it has begun), with bodies that can be rewound.
\* Calls that have returned leave nothing to do.
CONSTANTS
  Calls = {post, create}
  Idempotent = {}
  Marked = {create}
  OptedOut = {create}
  WithBody = {post, create}
  Rewindable = {post, create}
  MaxAttempts = 2
  Delay = 1
  MaxDelay = 1
  Jitter = 250
  RefusedOnly = FALSE
  MaxAfter = 1
  Deferring = {create}
  None = None
SPECIFICATION Spec
INVARIANTS TypeOK AtMostOnce RefusedMeansUntouched WholeBodySent
PROPERTIES KeepsPromise
CHECK_DEADLOCK FALSE
