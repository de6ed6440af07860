SPECIFICATION Spec
CONSTANTS
  MaxObjects = 7
  Windows = {0, 2}
  DefaultWindow = 8
INVARIANT StaysOnCpu
