\* Every profile, two sandboxes.
CONSTANTS
  Capabilities = {"ADMIN", "FILE_WRITE", "NETWORK"}
  Environ = {"PATH"}
  Suspicious = {}
  Timeouts = {TRUE}
  MaxStarts = 2
  Platforms <- MCPlatforms
SPECIFICATION Spec
INVARIANTS FilterAdmitsListed
