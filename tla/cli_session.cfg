\* Three protocols, each asked for or not, with ports that collide after the cast.
SPECIFICATION CliSpec
CONSTANTS
  Protocols = {"http", "ftp", "dhcp"}
  Ports = {0, 80}
  RefusedSockets <- MCRefused
  CommandCap = 128
  MaxCommands = 4
  NoArg = NoArg
  CommandLines <- AnyPorts
INVARIANTS
  CliTypeOK
  LastStartServed
  OneServerStays
PROPERTIES
  Settles
\* The main thread parks once it has sent its commands.
CHECK_DEADLOCK FALSE
