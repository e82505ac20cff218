SPECIFICATION Spec
CONSTANTS
  t1 = t1
  t2 = t2
  Threads <- MCThreads
  NoOne = NoOne
  Count = 2
  SinkCount = 2
  Files = {1}
  MaxCalls = 3
INVARIANTS
  SinksAgreeOnOrder
  ResultTellsSinks
SYMMETRY MCSymmetry
