----------------------------- MODULE CliSession -----------------------------
(***************************************************************************)
(* The headless front end (server_starter_sender): the servers asked for   *)
(* on the command line are started in a fixed order, each with one start   *)
(* command, and the main thread then parks until Ctrl-C.                   *)
(***************************************************************************)
EXTENDS ControlPlane

CONSTANTS CommandLines,  \* the command lines that may be given, each in Cli
          NoArg          \* stands for an option that is absent

VARIABLES args,      \* the parsed command line
          step       \* the option server_starter_sender looks at next

cliVars == <<vars, args, step>>

(* Mutant: the block of the last option is a copy of the first one. *)
StarterOrderCopied == <<"http", "ftp", "tftp", "http">>

(* Mutant: the block of DHCP comes first. *)
StarterOrderDhcpFirst == <<"dhcp", "http", "ftp", "tftp">>

StarterOrder == <<"http", "ftp", "tftp", "dhcp">>

(* Whether --serve-dir names a directory that validate_path accepts and    *)
(* --bind-ip an address that validate_ip_port accepts is all that matters  *)
(* of them.                                                                *)
Cli == [port : [Protocols -> Nat \cup {NoArg}], dirOk : BOOLEAN, ipOk : BOOLEAN]

ASSUME ArgsAssumption ==
    /\ CommandLines \subseteq Cli
    /\ \A c \in CommandLines, p \in Protocols :
          c.port[p] # NoArg => c.port[p] % 65536 \in Ports
    /\ MaxCommands >= Len(StarterOrder)

CliTypeOK == TypeOK /\ args \in CommandLines /\ step \in 1 .. Len(StarterOrder) + 1

CliInit == Init /\ args \in CommandLines /\ step = 1

Requested == {p \in Protocols : args.port[p] # NoArg}

(* validate_ip_port, on the port. *)
PortAccepted(port) == port # 0 /\ (port >= 1024 \/ port \in {80, 443})

(* What the new() of protocol p checks: DHCP serves no directory. *)
Accepted(p, port) == args.ipOk /\ PortAccepted(port) /\ (p = "dhcp" \/ args.dirOk)

(* Mutant: the port is taken as it is. *)
StartCommandUncast(p) ==
    LET port == args.port[p] IN
    [protocol |-> p, start |-> TRUE, port |-> port, valid |-> Accepted(p, port)]

(* The u32 of the option is cast with `as u16`. *)
StartCommand(p) ==
    LET port == args.port[p] % 65536 IN
    [protocol |-> p, start |-> TRUE, port |-> port, valid |-> Accepted(p, port)]

(* The options are looked at in a fixed order; one that was given sends its *)
(* start command.                                                           *)
LookAtOption ==
    /\ Alive /\ step <= Len(StarterOrder)
    /\ step' = step + 1
    /\ IF StarterOrder[step] \in Requested
         THEN Send(StartCommand(StarterOrder[step]))
         ELSE UNCHANGED log
    /\ UNCHANGED <<taskVars, serverVars, args>>

AllSent == step = Len(StarterOrder) + 1

(* No server specified: exit(2). *)
NothingToStart == Alive /\ AllSent /\ log = <<>> /\ Die /\ UNCHANGED <<args, step>>

CliNext ==
    \/ LookAtOption
    \/ NothingToStart
    \/ Internal /\ UNCHANGED <<args, step>>

(* As Fairness of ControlPlane, for the main thread is not a worker.       *)
Undisturbed(A) == BlockedRunners = {} /\ A /\ UNCHANGED <<args, step>>

CliFairness ==
    /\ WF_cliVars(LookAtOption) /\ WF_cliVars(NothingToStart)
    /\ \A p \in Protocols : WF_cliVars(Undisturbed(TaskStep(p)))
    /\ \A i \in Id : /\ WF_cliVars(Undisturbed(RunnerStep(i)))
                     /\ WF_cliVars(Undisturbed(ListenerStep(i)))

CliSpec == CliInit /\ [][CliNext]_cliVars /\ CliFairness

-----------------------------------------------------------------------------
(* Properties *)

(* When everything has come to rest, the protocol of the last valid start   *)
(* command holds the server that command created: a start is never read by  *)
(* a task that takes it for a stop (server.rs:185).                         *)
LastStartServed ==
    Quiescent /\ AllSent /\ log # <<>> /\ log[Len(log)].valid =>
       own[Protocol(Len(log))] = Len(log)

(* Whatever the options, one server at most listens when a headless run is  *)
(* at rest, that of the last command: each earlier one was stopped by the   *)
(* next, and DHCP's, which no command stops, is asked for last              *)
(* (server.rs:185, 260-267, dhcp.rs:92).                                    *)
OneServerStays ==
    Quiescent => \A i \in Id : sock[i] = "open" => i = Len(log)

(* A headless run comes to rest once it has sent its commands, or ends, or *)
(* comes to serve DHCP: it ends if there was nothing to send, and what     *)
(* becomes of the tasks beside a DHCP server depends on the number of      *)
(* workers (server.rs:269-278, main_cli.rs:20, dhcp.rs:92).                *)
Settles ==
    <>(~Alive \/ BlockedRunners # {} \/ (Quiescent /\ AllSent /\ log # <<>>))

(* README.md:401: "Multiple protocols: quick-serve --headless --http --ftp *)
(* --tftp".  Once the run has come to rest, every protocol asked for is    *)
(* being served, provided its directory, port and address are good, or has *)
(* failed by itself.                                                       *)
AllRequestedServe ==
    Quiescent /\ AllSent =>
       \A i \in 1 .. Len(log) : log[i].valid => sock[i] \in {"open", "failed"}

=============================================================================
