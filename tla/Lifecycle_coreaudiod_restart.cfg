\* Sync mode after a coreaudiod restart
SPECIFICATION FairSpec
CONSTANTS
  RingTicks = 1
  SampleGap = 1
  HBMod = 3
  MaxStart = 1
  JackdMayFail = FALSE
  CoreaudiodMayFail = TRUE

PROPERTY SyncEngages
