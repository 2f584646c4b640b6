SPECIFICATION FairDaoSpec
CONSTANTS
  d1 = d1
  Members = {m1, m2}
  Keys = {d1}
  Recipients = {r1}
  Recipient = r1
  BatchLists <- MCBatchLists
  Lists <- MCLists
  MaxBatch = 2
  Thresholds = {2}
  CarFiles <- MCCarFiles
  BatchSizeMax = 2
  UnlockThreshold = 1
  MaxInFlight = 1
  MaxFailed = 1
INVARIANTS DaoTypeOK VotesAgree UnlockIsAvailable OpenBatchesAreOffered
PROPERTIES AnnouncedAreCounted
CHECK_DEADLOCK FALSE
