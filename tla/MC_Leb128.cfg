CONSTANTS
  Inputs <- MC_Inputs
  SkipInputs <- MC_SkipInputs
  Calls <- MC_Calls
SPECIFICATION Spec
INVARIANT TypeOK
INVARIANT ValidEncodingsRead
INVARIANT PayloadsSkippedExactly
