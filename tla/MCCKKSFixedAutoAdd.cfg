CONSTANTS
  SizeQ = 4
  LogQ <- MCLogQ
  LogP = 50
  SF <- MCSF
  Technique = "FIXEDAUTO"
  Scheme = "CKKS"
  Slots = {s1, s2}
  MaxDepth = 4
SPECIFICATION CoreSpec
INVARIANTS
  AdditionIsTotal
CHECK_DEADLOCK FALSE
