SPECIFICATION Spec
CONSTANTS
  a = a
  b = b
  c = c
  X = X
  Y = Y
  s1 = s1
  None = None
  Names <- MCNames
  Nested <- MCNested
  Scalars <- MCScalars
  DefaultCapacity = 2
  MaxElements = 3
  MaxBlocks = 2
  MaxMishaps = 1
SYMMETRY Symmetry
INVARIANTS
  TypeOK
  ReadsAgree
  PointerStepsResolve
  BuiltValuesHaveOneOwner
