SPECIFICATION PoolFairSpec
CONSTANTS
  w1 = w1  w2 = w2  c1 = c1  c2 = c2
  x1 = x1  x2 = x2  x3 = x3  x4 = x4  x5 = x5
  NoItem = NoItem
  Owner = c1
  WorkerList <- TwoWorkers
  Clients <- TwoClients
  Threads <- AllThreads
  Items <- FourTasks
  TakeForms <- ListForm
  m_maxSize = 2
  Spawns <- NestedOfFour
  Awaits <- FirstAwaitsOfFour
  Stops <- SecondStops
PROPERTIES PendingOnlyIfExcused
CHECK_DEADLOCK FALSE
