\* A slave that came back under a second name, and then loses the first
SPECIFICATION ProcessFairSpec
CONSTANTS
  Slaves = {"pistomp", "pistomp-01"}
  Channels = {1}
  MaxRegs = 0
  Backends = {"coreaudio"}
  MaxBackoff = 1
  MaxKills = 0
PROPERTY SteadyWires
