SPECIFICATION OracleSpec
CONSTANTS
  a = a
  Members = {m1, m2}
  Keys = {k1}
  Recipients = {r1}
  BatchLists <- MCBatchLists
  Lists <- MCLists
  MaxBatch = 2
  Thresholds = {1, 2}
SYMMETRY MemberSymmetry
INVARIANTS VotesAreVoters SignedIsVoted ListedOnce
PROPERTIES DaoVoteSpec
