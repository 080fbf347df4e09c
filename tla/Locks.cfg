SPECIFICATION MCSpec
CONSTANTS
  t1 = t1  t2 = t2
  Txns <- TwoTxns
  Calls <- EveryCall
  FirstUsers <- KnownOrNot
  FirstChats <- OneGroup
  FirstRequests <- OneOrNoRequest
  MaxCalls = 3
SYMMETRY Interchangeable
INVARIANTS FactsHold 
