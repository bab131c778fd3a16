CONSTANTS
  Programs <- MC_Programs
  Targets <- MC_Targets
  ValueCap = 32
  DecodeAt <- MC_DecodeAt
SPECIFICATION FairSpec
INVARIANT TypeOK WalkerAligned SingleMnemonicIsProjection
PROPERTY BothModesFinish
