\* quick-serve --headless --http --ftp --tftp
SPECIFICATION CliSpec
CONSTANTS
  Protocols = {"http", "ftp", "tftp"}
  Ports = {8080, 2121, 6969}
  RefusedSockets <- MCRefused
  CommandCap = 128
  MaxCommands = 4
  NoArg = NoArg
  CommandLines <- ReadmeExample
INVARIANT AllRequestedServe
\* The main thread parks once it has sent its commands.
CHECK_DEADLOCK FALSE
