SPECIFICATION MCSpec
CONSTANTS
  t1 = t1  t2 = t2  t3 = t3
  x1 = x1  x2 = x2  x3 = x3  x4 = x4
  NoItem = NoItem
  Threads <- ThreeThreads
  Items <- FourItems
  m_maxSize = 2
  TakeForms <- BothForms
INVARIANTS TypeOK Capacity ConsumerWakeup ProducerWakeup StopWakeup PreciseUntilBatch
PROPERTIES StopReleases NoStuckItem NoStuckPutter ImplementsChannel
CHECK_DEADLOCK FALSE
