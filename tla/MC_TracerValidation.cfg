CONSTANTS
  Modules <- MC_Modules
  Configs <- MC_Configs
  MaxInstr = 6
  BlockTypes <- MVP_BlockTypes
  Labels = {0, 1}
  BrTables <- MC_BrTables
  FuncIdxs = {0, 3}
  TypeIdxs = {2, 9}
  Opcodes <- MC_Opcodes
  MemIdxs = {0, 1}
SPECIFICATION PSpec
INVARIANT TypeOK
INVARIANT StackHeightNonNegative
 
