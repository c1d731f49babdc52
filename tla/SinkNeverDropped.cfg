CONSTANTS
  a = a
  b = b
  c = c
  Txn = {a, b, c}
  Stream <- MCStream
  BufferMax = 3
  FlushInterval = 1
  MaxRestarts = 1
  Classes = {"flink"}
  FailMax = 2
  ResetTimeout = 2
SPECIFICATION Spec
INVARIANT NeverDropped
