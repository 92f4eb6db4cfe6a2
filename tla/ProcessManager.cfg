SPECIFICATION Spec
CONSTANTS
  MaxSpawns = 2
  t1 = t1
  t2 = t2
  ThreadIds <- Threads2
  cap1 = cap1
  cap2 = cap2
  CapabilityIds <- Caps2
  ChannelIds = {ch}
  ConnectionIds = {conn}
  ExitCodes = {7}
  MaxMem = 1
SYMMETRY Symmetric
INVARIANTS ThreadsOwnedOnce RunningHasThread EndedHasNoThread
PROPERTIES LifecycleSpec
CHECK_DEADLOCK FALSE
