SPECIFICATION OnboardingSpec
CONSTANTS
  Handlers = {h1, h2}
  Forms = {f1, f2}
  Sessions = {s1, s2}
  Documents = {d1, d2}
  MaxAccounts = 3
  Null = Null
SYMMETRY MCSymmetry
CHECK_DEADLOCK FALSE
INVARIANT SignedDocumentIsKept
