SPECIFICATION PartSpec
CONSTANTS
  Ring <- MCRing
  Zero <- MCZero
  Plus <- MCPlus
  Minus <- MCMinus
  Times <- MCTimes
  Indices <- MCIndices
  ModInverse <- MCModInverse
  Sigma <- MCSigma
  Tags = {"k1", "k2", "k3"}
  NULL = NULL
  Secrets <- MCSecrets
  Masks <- MCMasks
  Uniforms <- MCUniforms
  Plaintexts <- MCPlaintexts
  MaxDepth = 3
  MaxMade = 6
  CyclotomicOrders = {8, 16, 32}
  MaxMany = 6
  NoCiphertext = NoCiphertext
CHECK_DEADLOCK FALSE
INVARIANTS
  TypeOK
  DecryptsToMessage
  TagsAreTrue
  FusionAgrees
  KeysSuffice
  SumsAreRight
