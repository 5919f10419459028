SPECIFICATION FairSpec
CONSTANTS
  Workers = {w1, w2}
  Accounts = {1, 2}
  Tellers = {1}
  Branches = {1}
  Deltas = {1, 2}
  MaxTx = 2
INVARIANTS BooksAgree WaitsForward ResultMatchesServer
PROPERTIES EntersAtOnce WorkersEnd
