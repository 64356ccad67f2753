\* Three commands of any kind for FTP, TFTP and DHCP on one port: the two UDP
\* servers compete for it, and so do two servers of one protocol; the channel
\* holds one command, so that readers lag, and a session may end by a lagged
\* receiver.
SPECIFICATION Spec
CONSTANTS
  Protocols = {"tftp", "ftp", "dhcp"}
  Ports = {8080}
  RefusedSockets = {}
  CommandCap = 1
  MaxCommands = 3
INVARIANTS
  TypeOK
  StartReachesRunner
  OnlyLastCommandListens
  FailedStopLeavesNothing
  FlagsInOrder
PROPERTIES
  KeepsListeners
  LaterCommandStops
  StopEndsRunner
\* The system rests when no command is left to read.
CHECK_DEADLOCK FALSE
