CONSTANTS
  Inputs <- MC_SignInputs
  SkipInputs <- MC_NoSkipInputs
  Calls <- MC_SignedCalls
SPECIFICATION Spec
INVARIANT ReturnsEncodedValue
