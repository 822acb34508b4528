\* Stamps under interleaving, stops, starts and restarts
SPECIFICATION Spec
CONSTANTS
  Period = 1
  FramesPerBuffer = 2
  Boot = 10
  MaxTicks = 6
  MaxFaults = 1
  NoStamp = NoStamp
CHECK_DEADLOCK FALSE
INVARIANT TypeOK
INVARIANT StampNotEarly
PROPERTY StampsNearLine
