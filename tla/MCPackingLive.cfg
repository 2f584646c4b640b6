SPECIFICATION FairPackSpec
CONSTANTS
  u1 = u1
  u2 = u2
  f1 = f1
  Uploads <- FewUploads
  FreeUploads <- MCFreeUploads
  Size <- FewSizes
  OfferedPrice <- FewPrices
  Cars = {c1, c2}
  TaskIds = {t1, t2}
  Null = Null
  MaxNow = 1
  MinFileSize = 3
  MaxFileNumPerCar = 2
  MaxPrice = 3
  SecondPerDay = 1

PROPERTIES FreeFilesArePacked PaidFilesArePacked
