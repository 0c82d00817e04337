SPECIFICATION MCSpec
CONSTANTS
  Engine = {"e1", "e2"}
  NoRunnable = "none"
  Runnable = {"x1", "x2", "x3"}
  Caller = {"c1", "c2"}
  Kept = {"x2"}
  Told = {"x1", "x2"}
  MaxRuns = 2
  Run = {"t1", "t2", "t3", "t4"}
  NJobs = 3
  MaxThreads = 2
  Element = {"a", "b"}
  InitialLimit = 2
  MaxLimit = 8
  Part = {"jobs"}
INVARIANT StoppedWithResult
