SPECIFICATION DealSpec
CONSTANTS
  Cars = {c1}
  Deals = {d1}
  Null = Null
  MaxNow = 2
  DealSendWindow = 1
SYMMETRY DealSymmetry
INVARIANT UnsentCarHasNoDeals
