CONSTANTS
  a = a
  b = b
  Malformed = Malformed
  Txn = {a, b}
  Stream <- MCStream
  Suspicious = {a}
  OutOfOrder = {3}
  SeenTTL = 1
  WireCap = 2
  MaxRestarts = 1
SPECIFICATION Spec
INVARIANTS TypeOK OncePerTTL AlertsAccounted
PROPERTIES RowAfterEmission PublishesAtLeastOnce
