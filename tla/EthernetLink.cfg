\* Register operations over a fragmenting connection that may break.
SPECIFICATION FairSpec
CONSTANTS
  b1 = b1
  b2 = b2
  None = None
  Invalid = Invalid
  AllBits <- MCAllBits
  Registers <- MCRegisters
  Values <- MCValues
  Masks <- MCMasks
  Names <- MCNames
  Indices <- MCIndices
  HeaderUnits = 3
INVARIANTS
  TypeOK
  NothingLeftBehind
PROPERTIES
  ImplementsRegisterBus
  OperationsEnd
  NamedAccessStaysInside
