CONSTANTS
  n1 = n1
  n2 = n2
  empty = empty
  Names <- MCNames
  Empty = empty
  Inos <- MCInos
  RootIno = 2
  EndPos = 3
  MaxEntries = 2
  MaxDepth = 2

SPECIFICATION Spec

INVARIANT ResolvesLikeLookup
