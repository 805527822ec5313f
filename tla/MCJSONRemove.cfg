SPECIFICATION Spec
CONSTANTS
  a = a
  b = b
  c = c
  X = X
  Y = Y
  s1 = s1
  None = None
  Names <- MCNames
  Nested <- MCNestedTwo
  Scalars <- MCScalars
  DefaultCapacity = 2
  MaxElements = 3
  MaxBlocks = 2
  MaxMishaps = 1
SYMMETRY Symmetry
PROPERTIES
  LastElementIsNotLost
