CONSTANTS
  Threads = {t1, t2}
  WritePorts = {w1}
  ReadPorts = {r1, r2}
  Groups = {g}
  Queues = {r1, r2, g}
  Names = {a}
  Modes = {"BROADCAST", "UNICAST"}
  PORT_BUFF_SIZE = 2
  WriteCounts = {1, 2}
  Timeouts = {"finite", "infinite"}
  None = None
  NoQueue = NoQueue
SPECIFICATION PortSpec
INVARIANTS LinksExact UnicastExact NoSleeperOnPackets FaultHasCause
SYMMETRY PortSymmetry
CHECK_DEADLOCK FALSE
VIEW PortView
