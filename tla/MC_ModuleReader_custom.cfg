CONSTANT Files <- MC_Files
SPECIFICATION Spec
INVARIANT CustomAndUnknownSectionsSkipped
