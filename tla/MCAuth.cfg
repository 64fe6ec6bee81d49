SPECIFICATION AuthSpec
CONSTANTS
  Handlers = {h1, h2}
  Forms = {f1, f2}
  Sessions = {s1}
  MaxCodes = 3
  MaxAttempts = 2
  Null = Null
SYMMETRY MCSymmetry
CHECK_DEADLOCK FALSE
INVARIANTS
  AuthInv
  RegisteredAsVerified
  WrongAnswersAreBounded
  ResetsAreBounded
  ResetsAreVerifiedAndTold
PROPERTIES
  ImplementsAccount
