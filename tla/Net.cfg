CONSTANTS
  Clients = {c1, c2}
  N = 2
  MaxChannels = 2
  Protocols = {"udp", "tcp"}
  Groups = {7}
  Foreign = {1}
  None = None
SPECIFICATION FairSpec
INVARIANTS PortsAccounted PortsBound ThreadSafe
PROPERTIES CloseReturns KeepsPool
