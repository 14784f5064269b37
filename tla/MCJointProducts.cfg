SPECIFICATION JointSpec
CONSTANTS
  Ring <- MCRing
  Zero <- MCZero
  Plus <- MCPlus
  Minus <- MCMinus
  Times <- MCTimes
  Indices <- MCIndices
  ModInverse <- MCModInverse
  Sigma <- MCSigma
  Tags = {"k1", "k2"}
  NULL = NULL
  Secrets <- MCSecrets
  Masks <- MCMasks
  Uniforms <- MCUniforms
  Plaintexts <- MCPlaintexts
  MaxDepth = 3
  MaxMade = 8
  Lead = "k1"
  Main = "k2"
  Wanted = "products"
CHECK_DEADLOCK FALSE
INVARIANTS
  JointResultsDecrypt
