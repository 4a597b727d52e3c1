CONSTANTS
  p1 = p1
  p2 = p2
  retAddr = retAddr
  fmtPtr = fmtPtr
  v1 = v1
  Procs <- MCProcs
  Fmts <- MCFmts
  After <- MCAfter
  StackArgs <- MCStackArgs
  Garbage <- MCGarbage
  CharSigned = TRUE

SPECIFICATION Spec

INVARIANT PrintfReadsCallerDirectory
