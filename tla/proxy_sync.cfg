CONSTANTS
  Credentials = {c1}
  Principals = {p1}
  Grantees <- MCGrantees
  Grants = {"client_credentials"}
  Brokers = {b1}
  Concurrency = 1
  Proxies = {x1}
  PrincipalOf <- MCPrincipalOf
  Requested = {}
  Requests = {q1, q2}
  MaxTokens = 2
  MaxSettings = 1
  MaxWindow = 2
  Faults = {"crash", "terminate", "give_up", "restart", "stale_edit"}
  MaxFaults = 1
SPECIFICATION FairSpec
INVARIANTS
  MatchIsCurrent
PROPERTIES
  DeliveryGoesOn
CHECK_DEADLOCK FALSE
