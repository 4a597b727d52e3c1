CONSTANTS
  WordBits <- MCWordBits
  WordsPerUnit <- MCWordsPerUnit
  CounterMod <- MCCounterMod
  NumInodes <- MCNumInodes
  FirstIno <- MCFirstIno
SPECIFICATION Spec
INVARIANT TypeOK
