CONSTANTS
  request = request
  text = text
  number = number
  Pieces = {text, number}
  DomainText = request
  MaxPieces = 4
SPECIFICATION BuilderSpec
INVARIANTS
  IdentityIsOfEverything
  OnlyLostDomainLeaks
CHECK_DEADLOCK FALSE
