\* two mails and a share of one: re-claims, late answers, revocation
SPECIFICATION Spec
CONSTANTS
  Mails = {m1, m2}
  Payloads = {p1}
  NoPayload = NoPayload
  NoMail = NoMail
  Workers = {w1, w2}
  MaxAttempts = 1
  MaxClaims = 2
  Lease = 1
  Window = 3
  Day = 2
  Month = 3
  DayCap = 1
  MonthCap = 1
  MaxTime = 4
  SameKeyTries = 1
  Margin = 1
  RpcTime = 0
  CallTime = 0
  Store = 3
  Sleeps = FALSE
VIEW Unreported
SYMMETRY Symmetry
INVARIANTS
  ShareKept
