\* the cleanup against a mail that was accepted and not marked
SPECIFICATION Spec
CONSTANTS
  Addresses = {a1}
  Users = {u1}
  NoUser = NoUser
  Throttle = 1
  LinkLife = 2
  KeepPending = 2
  KeepUnsub = 2
  MaxConsents = 2
  MaxDays = 3
  Workers = {w1}
  Limit = 1
SYMMETRY Symmetry
ACTION_CONSTRAINT Prompt
PROPERTY PruneSparesLiveLinks
