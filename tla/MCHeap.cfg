\* The lwIP heap: allocation, trimming and freeing in every order.
CONSTANTS
  MEM_SIZE = 120
  SIZEOF_STRUCT_MEM = 8
  MIN_SIZE = 12
  MEM_ALIGNMENT = 4
  SizeMod = 256
  Requests <- MCRequests
SPECIFICATION HeapSpec
INVARIANTS
  HeapSane
  LowestFree
  Reserved
  DeniedOnlyWithoutRoom
\* A failed assertion ends the process.
CHECK_DEADLOCK FALSE
