SPECIFICATION Spec
CONSTANTS
  Values = {v1, v2}
  Garbage = garbage
  MinCapacityIncrement = 3
  MaxSize = 6
  WordSize = 64
INVARIANTS TypeOK PositionsAreExact
PROPERTIES ImplementsQueue OperationsKeepTheirPromise
