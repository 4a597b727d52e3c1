CONSTANTS
  a = a
  b = b
  zero = zero
  BlockWords <- MCBlockWords
  Zero = zero
  Vals <- MCVals
  Offsets <- MCOffsets
  Lens <- MCLens
SPECIFICATION Spec
INVARIANT RoundTrip
