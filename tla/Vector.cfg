SPECIFICATION Spec
CONSTANTS
  Elem = {1, 2}
  MaxLen = 4
  InitSize = {0, 1, 2}
INVARIANTS TypeOK NoOverrun
PROPERTIES ImplementsContract
