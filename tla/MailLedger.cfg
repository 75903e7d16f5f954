\* the ledger: one mail, three keys, two payloads, any caller
SPECIFICATION Spec
CONSTANTS
  Mails = {m1}
  Payloads = {p1, p2}
  NoPayload = NoPayload
  MaxAttempts = 3
  MaxClaims = 2
  Lease = 1
  Window = 2
  Day = 2
  Month = 3
  DayCap = 2
  MonthCap = 3
  MaxTime = 3
\* the campaign: the owner and a reader, two consents (the owner's and the
\* reader's, or two of the owner's), one run
  Addresses = {owner, reader}
  Owner = owner
  Users = {}
  NoUser = NoUser
  Mailers = {run}
  Throttle = 1
  LinkLife = 2
  KeepPending = 0
  KeepUnsub = 0
  ApprovalLife = 1
  MaxConsents = 2
  MaxTests = 2
  MaxDays = 1
SYMMETRY Symmetry
INVARIANTS
  LedgerTypeOK
  StickyUncertainty
  OnePayloadPerMail
  CampaignIsCleared
PROPERTIES
  SentIsFinal
  NewKeyAfterRefusals
