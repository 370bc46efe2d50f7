SPECIFICATION Spec
CONSTANTS
  Jobs <- MCJobs
  Orders <- MCOrders
  Threads = 2
  Target = 2
INVARIANTS
  Exclusive
  ReadBack
