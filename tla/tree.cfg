SPECIFICATION Spec
CONSTANTS
  pm = pm
  p1 = p1
  p2 = p2
  p3 = p3
  n1 = n1
  n2 = n2
  init = init
  Addr = {a1, a2, a3, a4}
  Pid <- MCPid
  Name <- MCName
  RootPid = pm
  RootPpid = init
  RootName = n1
  NULL = NULL
  Free = Free
  Garbage = Garbage
SYMMETRY Symmetric
INVARIANT TypeOK HeapSound
PROPERTY TableSpec
CHECK_DEADLOCK FALSE
