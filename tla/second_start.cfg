SPECIFICATION Spec
CONSTANTS
  s1 = s1
  s2 = s2
  s3 = s3
  Shell <- MCShells
  NoFifo = NoFifo
INVARIANT CommandsReachShell
CHECK_DEADLOCK FALSE
