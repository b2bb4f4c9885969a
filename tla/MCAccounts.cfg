\* An operator and a user who owns a certificate.
SPECIFICATION Spec
CONSTANTS
  Nicks <- MCNicks
  Fold <- MCFold
  Users = {oper, user}
  Opers = {oper}
  CertUsers = {user}
  NicksOf <- MCNicksOf
  oper = oper
  user = user
  NoAccount = NoAccount
  Nothing = Nothing
INVARIANTS TypeOK WaitingIsUnregistered CertBoundOnce InSyncButCerts
PROPERTIES DecisionsAreFinal SweepLeavesNone ImplementsRegistry
