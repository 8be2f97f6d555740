\* Two windows of one thread.  One warm-up sample, buffers of two, and samples
\* for a full buffer and one more.  The stage may stop, so the system may rest.
CONSTANTS
  Windows = {a, b}
  Warmup = 1
  Flush = 2
  MaxSeen = 5
  None = None
SPECIFICATION LatencySpec
INVARIANTS TypeOK SamplesAccounted
PROPERTIES ShutdownDrains ShutdownReturns
CHECK_DEADLOCK FALSE
