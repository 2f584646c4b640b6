SPECIFICATION StorageSpec
CONSTANTS
  c1 = c1
  c2 = c2
  c3 = c3
  f = f
  g = g
  Calls = {c1, c2, c3}
  Unpins = {k1, k2}
  Payloads = {f, g}
  Payload <- MCPayload
  Wallet <- MCWallet
  Size <- MCSize
  FreeSize = 1
  Null = Null
CHECK_DEADLOCK FALSE

INVARIANTS SuccessHasWid
