CONSTANTS
  Prep = {fig2}
  Plain = {fig7}
  Cells = {cell}
  NFiles = 2
  MaxCrashes = 1
SPECIFICATION ResumedSpec
INVARIANTS WrongMatrixReported TreeRestored TraceIsWhole
PROPERTIES ResultsKept OldLostByBackup C2Completes
