CONSTANTS
  f1 = f1
  f2 = f2
  File = {f1, f2}
  NoFile = NoFile
  MaxFaults = 3
SYMMETRY Symmetry
SPECIFICATION Spec
INVARIANT TypeOK
PROPERTY UploadsKept
