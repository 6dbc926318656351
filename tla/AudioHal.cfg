SPECIFICATION FairSpec
CONSTANTS
  t1 = t1
  t2 = t2
  t3 = t3
  NoThread = NoThread
  Threads <- MCThreads3
  OutRoutes <- MCOutRoutes
  InRoutes <- MCInRoutes
  Orientations <- MCOrientations
  InRates <- MCInRates
INVARIANTS
  OneRateGroup
  PcmMatchesRoute
  TransferHasPcm
  MemorySafe
  MixerInSync
  NoDeadlock
PROPERTIES
  DeviceLockReleased
  RateArbitrated
