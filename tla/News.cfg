\* one address, two consents, two overlapping runs
SPECIFICATION Spec
CONSTANTS
  Addresses = {a1}
  Users = {u1}
  NoUser = NoUser
  Throttle = 1
  LinkLife = 2
  KeepPending = 2
  KeepUnsub = 2
  MaxConsents = 2
  MaxDays = 3
  Workers = {w1, w2}
  Limit = 1
SYMMETRY Symmetry
INVARIANTS
  NewsTypeOK
  SentMeansMailed
  OwnLinksOnly
PROPERTIES
  LinkNotStretched
  LeftStaysOut
