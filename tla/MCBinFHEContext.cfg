CONSTANTS
  n = 2
  q = 128
  Q = 769
  N = 128
  baseR = 4
  Keys = {"k1", "k2"}
  NULL = NULL
  SecretOf <- MCSecretOf
  Vectors <- MCVectors
  VectorsQ <- MCVectorsQ
  w = 12
  Pow <- MCPow
  Moduli <- MCModuli
  Operands <- MCOperands
  FreshErrors <- MCFreshErrors
  Errors <- MCErrors
  Objects = {c1, c2}
SPECIFICATION MCSpec
SYMMETRY MCSymmetry
INVARIANTS
  TypeOK
  DecryptsToBit
  NoiseIsFit
  NativeIsRight
  BigIsRight
CHECK_DEADLOCK FALSE
