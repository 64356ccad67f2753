---------------------------- MODULE MCCliSession ----------------------------
(* Command lines for the runs of CliSession. *)
EXTENDS CliSession

(* Each protocol with or without an option; 65616 and 80 are the same u16, *)
(* and 65536 is the port 0 that new() rejects.                             *)
AnyPorts == [port : [Protocols -> {80, 65616, 65536, NoArg}], dirOk : BOOLEAN, ipOk : {TRUE}]

(* quick-serve --headless --http --ftp --tftp, with the default ports. *)
ReadmeExample ==
    {[port |-> [http |-> 8080, ftp |-> 2121, tftp |-> 6969], dirOk |-> TRUE, ipOk |-> TRUE]}

MCRefused == {}

=============================================================================
