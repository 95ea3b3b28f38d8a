\* Two pages of four bits, both full.
SPECIFICATION Spec
CONSTANTS
  Size = 8
  PageBits = 4
INVARIANT ComplementIsExact
