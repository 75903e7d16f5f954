\* what _send returns when its claim was taken over
SPECIFICATION Spec
CONSTANTS
  Mails = {m1}
  Payloads = {p1}
  NoPayload = NoPayload
  NoMail = NoMail
  Workers = {w1, w2}
  MaxAttempts = 1
  MaxClaims = 2
  Lease = 1
  Window = 3
  Day = 4
  Month = 5
  DayCap = 2
  MonthCap = 2
  MaxTime = 4
  SameKeyTries = 1
  Margin = 1
  RpcTime = 0
  CallTime = 1
  Store = 3
  Sleeps = FALSE
CONSTRAINT Enrolled
INVARIANTS
  OutcomeIsDocumented
