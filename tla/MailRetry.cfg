\* one run after another, with retries, on a machine that may sleep; the payload
\* of the mail changes between runs (fresh consent rotates its unsubscribe token)
SPECIFICATION FairSpec
CONSTANTS
  Mails = {m1}
  Payloads = {p1, p2}
  NoPayload = NoPayload
  NoMail = NoMail
  Workers = {w1}
  MaxAttempts = 2
  MaxClaims = 2
  Lease = 1
  Window = 2
  Day = 4
  Month = 5
  DayCap = 2
  MonthCap = 2
  MaxTime = 2
  SameKeyTries = 2
  Margin = 0
  RpcTime = 0
  CallTime = 0
  Store = 2
  Sleeps = TRUE
CONSTRAINT Enrolled
INVARIANTS
  NoIntentConflict
PROPERTY SendReturns
