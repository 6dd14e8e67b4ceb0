SPECIFICATION Spec
CONSTANTS
  Names = {"a", "b"}
  LongNames = {"b"}
  Samples <- SampleEntries
  Keys = {1, 2}
  Messages <- SampleMessages
  Initial = 1
  MaxNesting = 2
  BitsInWord = 2
  Limits = {1, 100}
  MaxEntries = 2
  MaxDepth = 3
CHECK_DEADLOCK FALSE
INVARIANTS BufferSuffices
