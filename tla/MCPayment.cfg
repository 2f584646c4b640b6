SPECIFICATION SwanSpec
CONSTANTS
  a = a
  b = b
  Deals = {d1}
  Networks = {n1}
  Prices = {0, 1, 3}
  MaxLink = 2
  Ids = {a, b}
  Owners = {u1, u2}
  Recipients = {r1}
  LockParams <- MCLockParams
  Lists <- MCLists
  Worth <- MCWorth
  Funds = 3
  MaxNow = 2
  Null = Null
INVARIANTS SwanTypeOK CoversItsLocks
PROPERTIES LocksAreUsedUp
