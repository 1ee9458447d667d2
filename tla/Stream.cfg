SPECIFICATION Spec
CONSTANTS
  None = None
  Word = 16
  Secrets = {0, 3, 6}
  Generators = {100}
  Moduli = {0, 1, 127}
  Sends <- MCSends
  Headers <- MCHeaders
  Packets <- MCPackets
  Identity <- MCIdentity
  MaxTraffic = 4
INVARIANT HandshakeCompletes FramesReadBack
PROPERTY ToGame ToClient EndsCleanly
CHECK_DEADLOCK FALSE
