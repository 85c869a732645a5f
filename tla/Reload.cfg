CONSTANTS
  a1 = a1
  a2 = a2
  Admins <- MCAdmins
  Reloaders = {r1}
  Clients = {c1}
  Scopes = {1, 2}
  MaxTokens = 2
SPECIFICATION FairSpec
INVARIANTS
  TypeOK
  AgreeOnceApplied
  RevokedWhenFresh
PROPERTIES
  LockIsReleased
