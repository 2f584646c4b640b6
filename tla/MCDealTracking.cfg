SPECIFICATION FairDealSpec
CONSTANTS
  Cars = {c1}
  Deals = {d1}
  Null = Null
  MaxNow = 2
  DealSendWindow = 1
INVARIANTS ActiveIsAttested UnlockedIffCharged
PROPERTIES SettledDealsStay CarsMoveForward ActiveDealsAreSettled CarsAreDecided
