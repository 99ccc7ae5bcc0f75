\* Up to three files of 0, 1 or 2 bytes, written in every order and overlap.
CONSTANTS
  Layouts <- MCLayouts
  MaxFiles = 3
  MaxLength = 2
  Writes = {w}
  Blank = Blank
SPECIFICATION Spec
INVARIANT
  TypeOK
PROPERTIES
  ImplementsFlatStore
  WriteReturns
