SPECIFICATION PackSpec
CONSTANTS
  u1 = u1
  u2 = u2
  f1 = f1
  Uploads <- MCUploads
  FreeUploads <- MCFreeUploads
  Size <- MCSize
  OfferedPrice <- MCOfferedPrice
  Cars = {c1, c2}
  TaskIds = {t1, t2}
  Null = Null
  MaxNow = 2
  MinFileSize = 3
  MaxFileNumPerCar = 2
  MaxPrice = 3
  SecondPerDay = 1
SYMMETRY PackSymmetry
INVARIANTS PackTypeOK PackedOnce CarHasItsTask CarPriceIsPaidFor
PROPERTIES CarWorthCreating
