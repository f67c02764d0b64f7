\* Identities have two digits; a path of six characters has up to three
\* components.
CONSTANTS
  Relative = Relative
  None = None
  Text <- MCText
  Domain <- MCDomain
  ActionText <- MCActionText
  Schema = 1
  Reserved <- MCReserved
  Letters <- MCLetters
  IdentityLength = 2
  Declarations <- MCDeclarations
  MaxDeclared = 2
SPECIFICATION PoliciesSpec
INVARIANTS
  OneIdentityPerMeaning
  OneMeaningPerIdentity
  DuplicatesAreRefused
  PathsAreCanonical
  TextsComeApart
  IdentitiesRoundTrip
CHECK_DEADLOCK FALSE
