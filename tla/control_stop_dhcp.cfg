SPECIFICATION Spec
CONSTANTS
  Protocols = {"dhcp"}
  Ports = {6767}
  RefusedSockets = {}
  CommandCap = 2
  MaxCommands = 2
PROPERTY StopEndsEveryRunner
\* The system rests when no command is left to read.
CHECK_DEADLOCK FALSE
