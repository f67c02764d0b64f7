CONSTANTS
  bash = bash
  dash = dash
  hello = hello
  None = None
  Policies <- MCPolicies
  Additional <- MCAdditional
  Profiles <- MCProfiles
  Claims <- MCClaims
  Interpreters <- MCInterpreters
SPECIFICATION Spec
INVARIANTS
  PolicyDecidesRequest
  EvidenceWithinAuthority
  SuccessIsExact
  StartedMeansIsolated
  CancelledMeansRaised
  AfterStartIsAccounted
CHECK_DEADLOCK FALSE
