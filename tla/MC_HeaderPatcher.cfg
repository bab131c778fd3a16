CONSTANTS
  Layouts <- MC_Layouts
  Headers <- MC_Headers
  MaxRuns = 3
SPECIFICATION Spec
INVARIANT TypeOK
INVARIANT RetriesPatchOnce
