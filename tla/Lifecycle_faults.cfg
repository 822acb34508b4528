\* Status register, watchdog, resumption and sync mode, every fault
SPECIFICATION FairSpec
CONSTANTS
  RingTicks = 1
  SampleGap = 2
  HBMod = 4
  MaxStart = 2
  JackdMayFail = TRUE
  CoreaudiodMayFail = TRUE
INVARIANT TypeOK
INVARIANT StatusFollowsIO
INVARIANT DetectionBound
PROPERTY NoFalseDeath
PROPERTY DeadDaemonDetected
PROPERTY HeartbeatResumes
PROPERTY AudioResumesUnderJackd
PROPERTY SyncEngagesUnderHal
