\* Audio after a jackd restart
SPECIFICATION FairSpec
CONSTANTS
  RingTicks = 1
  SampleGap = 1
  HBMod = 3
  MaxStart = 1
  JackdMayFail = TRUE
  CoreaudiodMayFail = FALSE

PROPERTY AudioResumes
