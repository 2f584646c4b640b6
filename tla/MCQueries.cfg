SPECIFICATION QuerySpec
CONSTANTS
  Clients = {c1, c2}
  Addresses = {a1}
  Files <- MCFiles
  Amounts <- MCAmounts
  Queries <- MCQueriesAsked
  MaxReaders = 1
  MaxMints = 1
  MaxUploads = 2
  MaxNow = 1
INVARIANTS QueryTypeOK  ChecksMissOnlyOverlaps UnlockedShowsPayment
SYMMETRY ClientSymmetry
