CONSTANTS
  Credentials = {c1}
  Principals = {}
  Grantees <- MCGrantees
  Grants = {"client_credentials", "password", "preqin", "refresh_token"}
  Brokers = {b1, b2}
  Concurrency = 1
  Proxies = {}
  PrincipalOf <- MCPrincipalOf
  Requested = {}
  Requests = {}
  MaxTokens = 3
  MaxSettings = 1
  MaxWindow = 1
  Faults = {"timeout", "store", "crash", "terminate", "revoke", "stale_edit"}
  MaxFaults = 2
SPECIFICATION Spec
INVARIANTS
  TypeOK
  TokenIsKept
  DeadWasRefused
SYMMETRY Symmetry
CHECK_DEADLOCK FALSE
