SPECIFICATION FairSpec
CONSTANTS
  core = core
  io = io
  small = small
  big = big
  huge = huge
  None = None
  Threads <- MCThreads
  Packets <- MCPackets
  Size <- MCSize
  MAX_BURST_BYTES = 4
  MaxSends = 3
INVARIANTS
  PortTypeOK
  OneOperation
  NotStuck
  BurstBounded
PROPERTIES
  ImplementsPipe
  QueueDrains
CHECK_DEADLOCK FALSE
