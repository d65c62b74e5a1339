SPECIFICATION FairSpec
CONSTANTS
  Tabs = {tab1}
  Tenants = {bankA, bankB}
  Endpoints = {proxy, remote}
  SameOrigin = {proxy}
  Logins = {l1, l2}
  Burst = 1
  SecondFactor = {bankB}
  StorageMayFail = FALSE
  None = None
INVARIANTS TypeOK SignalsAgree CredentialKeepsTenant
PROPERTIES RestoredOrForgotten TokenRevokedOnSignOut ImplementsGate SignedOutLeavesApp
