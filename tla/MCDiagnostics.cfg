SPECIFICATION Spec
CONSTANTS
  Names = {1, 2, 3, 4, 5, 6}
  MaxFiles = 4
  Places = {"p", "q"}
  Modes = {"SVC"}
INVARIANTS
  TypeOK
  FilesAsAsked
  
