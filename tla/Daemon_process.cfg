SPECIFICATION ProcessFairSpec
CONSTANTS
  Slaves = {pistomp}
  Channels = {1}
  MaxRegs = 2
  Backends = {"coreaudio", "net"}
  MaxBackoff = 2
  MaxKills = 1
INVARIANT ProcessTypeOK
INVARIANT WorkgroupBalanced
INVARIANT NoPortForgotten
PROPERTY RetriesUntilJoined
PROPERTY SteadyWires
PROPERTY ReattachesUnlessMissed
