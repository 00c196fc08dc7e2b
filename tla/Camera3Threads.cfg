CONSTANTS
  MaxMonitors = 2
  MaxQueue = 3
  Callers = {"client"}
  Streams = {"s1", "s2"}
  Total = 2
SPECIFICATION ThreadsSpec
INVARIANTS SleepsOnlyWhenReported PreparedOnce
PROPERTIES ReportsEveryChange EventuallyReported PrepareAnswered
\* Both threads may be told to exit, and nobody calls any more.
CHECK_DEADLOCK FALSE
