\* Two pages of four bits, the second one partly used.
SPECIFICATION Spec
CONSTANTS
  Size = 7
  PageBits = 4
INVARIANTS
  CountIsOnes
  ComplementIsExact
  DrawCoversTheSet
