SPECIFICATION Spec
CONSTANTS
  Width = 12
  Height = 8
  Padding = {0, 2}
INVARIANTS
  TypeOK
  InBounds
  PictureComplete
