CONSTANTS
  Any = Any
  c1 = c1
  c2 = c2
  c3 = c3
  k1 = k1
  k2 = k2
  Calls = {c1, c2, c3}
  Kids = {k1, k2}
  kid <- WithProbe
  TTL = 2
  FETCH = 1
SPECIFICATION FairSpec
PROPERTY CallsReturn
INVARIANT AnswersJustified
PROPERTY WithdrawnKeyExpires
