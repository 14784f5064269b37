CONSTANTS
  w = 12
  Pow <- MCPow
  Moduli <- MCModuli
  Operands <- MCOperands
SPECIFICATION WideSpec
INVARIANTS
  ResidueIsKept
CHECK_DEADLOCK FALSE
