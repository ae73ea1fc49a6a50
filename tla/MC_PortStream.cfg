CONSTANTS
  MaxChunks = 3
SPECIFICATION Spec
CHECK_DEADLOCK FALSE
INVARIANT TypeOK
INVARIANT SuccessIsDelivered
PROPERTY SinkSettles
PROPERTY ReaderLearns
PROPERTY Implements
