SPECIFICATION ProcessFairSpec
CONSTANTS
  Slaves = {pistomp}
  Channels = {1}
  MaxRegs = 0
  Backends = {"coreaudio"}
  MaxBackoff = 1
  MaxKills = 0
PROPERTY Reattaches
