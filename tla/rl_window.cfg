SPECIFICATION Spec
CONSTANTS
  form = form
  webhook = webhook
  Keys = {form, webhook}
  Limit <- TwoRoutes
  Window = 4
  Second = 2
  MaxTime = 7
INVARIANTS AtMostLimit
PROPERTIES RetryAfterIsClose ImplementsPromise
CHECK_DEADLOCK FALSE
