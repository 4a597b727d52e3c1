CONSTANTS
  PageSize <- MCPageSize
  TableSpan <- MCTableSpan
  NumTables <- MCNumTables
  UpperMemory <- MCUpperMemory
  HeapStart <- MCHeapStart
  DirPages <- MCDirPages
  TablePages <- MCTablePages
  CallPages <- MCCallPages
SPECIFICATION Spec
\* throw() halts the kernel: a panicked state has no successor.
CHECK_DEADLOCK FALSE
INVARIANT TypeOK FramesNotShared
PROPERTY IdentityMapAtSwitch PagingInstallTerminates
