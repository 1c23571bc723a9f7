SPECIFICATION Spec
CONSTANTS
  a = a
  b = b
  other = other
  File <- ThreeFiles
  Allowed <- TaskFiles
  Editable <- TaskFiles
  MaxAttempts = 2
INVARIANTS FailedInvocationNotAdopted
