CONSTANTS
  SizeQ = 4
  LogQ <- MCLogQ
  LogP = 50
  SF <- MCSF
  Technique = "FLEXIBLEAUTO"
  Scheme = "CKKS"
  Slots = {s1, s2, s3}
  MaxDepth = 4
  ManualSlots = {s1, s2}
  ModuliQ <- MCModuliQ
  ModuliR <- MCModuliR
  ModuliB <- MCModuliB
  Msk = 19
  MTilde = 16
  Gamma = 32
  PlaintextModuli = {3, 4}
  BFVMasks = {573}
  BFVErrors <- MCSigns
  BFVSetups <- MCSetups
  BFVSlacks <- MCSigns
  MaxSums = 1
  TowersQ <- MCTowersQ
  TowersP <- MCTowersP
  NumPartQ = 2
  ModulusT = 3
  SampleMasks = {123456, 486226}
  SampleErrors <- MCSigns
  HybridSetups <- MCHybridSetups
  MaxSquares = 2
SPECIFICATION MCSpec
INVARIANTS
  TypeOK
  ScaleIsDeclared
  ScaleIsCanonical
  SumsAgree
  TowersMatchLevel
  AlignmentAgrees
  AdditionIsTotal
  ManualScaleIsCanonical
  ManualAdditionIsTotal
  BGVAlignmentAgrees
  BFVDecrypts
  PhaseIsKept
CHECK_DEADLOCK FALSE
