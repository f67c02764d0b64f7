CONSTANTS
  bash = bash
  dash = dash
  hello = hello
  None = None
  Policies <- MCPolicies
  Additional <- MCAdditional
  Profiles <- MCProfiles
  Claims <- MCClaims
  Interpreters <- MCInterpreters
SPECIFICATION Spec
INVARIANT CaptureFailureMissesStream
CHECK_DEADLOCK FALSE
