CONSTANTS
  Programs <- MC_Programs
  Targets <- MC_Targets
  ValueCap = 32
SPECIFICATION Spec
INVARIANT UnsupportedPrefixesRejected
