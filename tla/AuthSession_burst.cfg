SPECIFICATION Spec
CONSTANTS
  Tabs = {tab1}
  Tenants = {bankA}
  Endpoints = {proxy}
  SameOrigin = {proxy}
  Logins = {l1, l2}
  Burst = 2
  None = None
  SecondFactor = {}
  StorageMayFail = TRUE
INVARIANT BurstEndsOneSession
