SPECIFICATION Spec
CONSTANTS
  u1 = u1
  Uploads <- MCUploads
  FreeUploads <- MCFreeUploads
  Size <- MCSize
  OfferedPrice <- MCOfferedPrice
  Cars = {c1, c2}
  TaskIds = {t1}
  Deals = {d1}
  Null = Null
  MaxNow = 1
  MinFileSize = 1
  MaxFileNumPerCar = 1
  MaxPrice = 3
  SecondPerDay = 1
  DealSendWindow = 0
INVARIANTS DealsStorePackedFiles
PROPERTIES PackSpec DealSpec
SYMMETRY CarSymmetry
