CONSTANTS
  Modules <- MC_Modules
  Configs <- MC_OneConfig
  MaxInstr = 5
  BlockTypes <- MC_BlockTypes
  Labels = {0, 1}
  BrTables <- MC_BrTables
  FuncIdxs = {0, 3}
  TypeIdxs = {2, 9}
  Opcodes <- MC_Opcodes
  MemIdxs = {0, 1}
SPECIFICATION Spec
INVARIANT FrameBaseFloor
