SPECIFICATION FairSpec
CONSTANTS
  w1 = w1  w2 = w2  None = None  Legacy = Legacy  Deployed = Deployed  Damaged = Damaged
  Writers = {w1, w2}
  Readers = {r1, r2}
  BodyOf <- RepeatedBody
PROPERTIES ReadsEnd
INVARIANTS ReadsAreFresh PairsAreWhole ErrorsOnlyWhenTorn
