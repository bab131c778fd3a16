CONSTANT Files <- MC_Files
SPECIFICATION Spec
INVARIANT TypeOK
INVARIANT ReadersAgreeOnBodies
