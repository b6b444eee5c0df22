CONSTANTS
  Kinds = {"ring", "butterfly", "alltoall", "bursts"}
  Mapped = {"ring", "butterfly", "alltoall", "bursts"}
  RingSize = 3
  Levels = 2
  AllSize = 6
  Parallel = 2
  Senders = {0, 1}
  Bursts = 4
SPECIFICATION FairSpec
INVARIANTS OneShotOnce WindowKept ResultComplete RingAlive SharedAcrossGaps
PROPERTIES Completes
CHECK_DEADLOCK FALSE
