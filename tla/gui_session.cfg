\* Up to four clicks, DHCP's toggle among them; a task that lags by more than
\* two misses commands.
SPECIFICATION GuiSpec
CONSTANTS
  Protocols = {"tftp", "ftp", "dhcp"}
  Ports = {6969}
  RefusedSockets = {}
  CommandCap = 2
  MaxCommands = 4
INVARIANTS
  LastClickServed
  OnlyDhcpHidden
\* The system rests when no command is left to read.
CHECK_DEADLOCK FALSE
