---------------------------- MODULE ControlPlane ----------------------------
(***************************************************************************)
(* How quick-serve starts and stops its servers.                           *)
(*                                                                         *)
(* A front end sends CommandMsg values on one broadcast channel.  One task *)
(* per protocol (server_starter_receiver) reads that channel; on a start   *)
(* command of its protocol it creates a Server, whose runner is a task of  *)
(* its own with a second, private broadcast channel of connect flags.  The *)
(* runner binds a listening socket and serves until it is told to stop.    *)
(*                                                                         *)
(* A server is named by the position in the channel of the command that    *)
(* created it.  The front end is left open here: any command may be sent   *)
(* at any time.  CliSession and GuiSession close it.                       *)
(***************************************************************************)
EXTENDS Naturals, Sequences, FiniteSets

CONSTANTS Protocols,    \* the protocols in use, among AllProtocols
          Ports,        \* the port numbers a command may carry
          RefusedSockets, \* <<transport, port>> pairs the system will not bind
          CommandCap,   \* capacity of the command channel (128 in the code)
          MaxCommands   \* bound: commands sent in one behaviour

AllProtocols == {"http", "ftp", "tftp", "dhcp"}

ASSUME ProtocolsAssumption == Protocols \subseteq AllProtocols
ASSUME BoundsAssumption ==
    /\ CommandCap \in Nat \ {0}
    /\ MaxCommands \in Nat

VARIABLES log,      \* every command sent so far; the channel keeps the last CommandCap
          cur,      \* cur[p]: commands the task of p has read or lost
          pc,       \* pc[p]: where the task of p is
          own,      \* own[p]: the server the task of p holds, 0 if none
          inbox,    \* inbox[i]: connect flags sent to runner i and not yet read
          runner,   \* runner[i]: where the runner of server i is
          sock,     \* sock[i]: the listening socket of server i
          stopped   \* stopped[i]: what Server::stop returned for server i

taskVars   == <<cur, pc, own>>
serverVars == <<inbox, runner, sock, stopped>>
vars       == <<log, cur, pc, own, inbox, runner, sock, stopped>>

(* valid abstracts what validate_ip_port and validate_path decide about    *)
(* the message; nobody looks at it in a stop, which is written as valid.    *)
CommandMsg ==
    {m \in [protocol : Protocols, start : BOOLEAN, port : Ports, valid : BOOLEAN] :
        m.start \/ m.valid}

Id == 1 .. MaxCommands

TaskStates   == {"listen", "settle", "serving", "stopping", "dead"}
RunnerStates == {"none", "idle", "serving", "blocked", "draining", "ended"}
SockStates   == {"none", "binding", "open", "failed", "aborting", "closed"}

TypeOK ==
    /\ log \in Seq(CommandMsg) /\ Len(log) <= MaxCommands
    /\ cur \in [Protocols -> 0 .. MaxCommands]
    /\ pc \in [Protocols -> TaskStates]
    /\ own \in [Protocols -> 0 .. MaxCommands]
    /\ inbox \in [Id -> Seq(BOOLEAN)]
    /\ runner \in [Id -> RunnerStates]
    /\ sock \in [Id -> SockStates]
    /\ stopped \in [Id -> {"none", "ok", "err"}]

Init ==
    /\ log = <<>>
    /\ cur = [p \in Protocols |-> 0]
    /\ pc = [p \in Protocols |-> "listen"]
    /\ own = [p \in Protocols |-> 0]
    /\ inbox = [i \in Id |-> <<>>]
    /\ runner = [i \in Id |-> "none"]
    /\ sock = [i \in Id |-> "none"]
    /\ stopped = [i \in Id |-> "none"]

-----------------------------------------------------------------------------
(* Helpers *)

Protocol(i)  == log[i].protocol
Transport(p) == IF p \in {"http", "ftp"} THEN "tcp" ELSE "udp"
Address(i)   == <<Transport(Protocol(i)), log[i].port>>

Alive == \A p \in Protocols : pc[p] # "dead"

(* A runner's receiver exists from runner() until its loop breaks; the     *)
(* Server value, and with it the sender, exists while a task holds it.     *)
RxOpen(i) == runner[i] \in {"idle", "serving", "blocked"}
Held(i)   == \E p \in Protocols : own[p] = i
Wakes(i)  == inbox[i] # <<>> \/ ~Held(i)

(* dhcp_server::Server::serve never awaits: it keeps the worker thread     *)
(* that polls it.                                                          *)
BlockedRunners == {i \in Id : runner[i] = "blocked"}

Holding(i) == sock[i] \in {"open", "aborting"}
Bindable(i) ==
    /\ Address(i) \notin RefusedSockets
    /\ \A j \in Id : Holding(j) => Address(j) # Address(i)

Lagging(p) == Len(log) - cur[p] > CommandCap
Unread(p)  == cur[p] < Len(log)

(* Server::start and Server::stop send on the private channel; a send fails *)
(* when the runner's receiver is gone.                                      *)
SendTo(i, connect) == inbox' = [inbox EXCEPT ![i] = Append(@, connect)]

-----------------------------------------------------------------------------
(* The front end *)

Send(m) == log' = Append(log, m)

Command(m) ==
    /\ Alive
    /\ Len(log) < MaxCommands
    /\ Send(m)
    /\ UNCHANGED <<taskVars, serverVars>>

(* The process ends: the system takes back its threads and sockets. *)
Die ==
    /\ cur' = [p \in Protocols |-> 0]
    /\ pc' = [p \in Protocols |-> "dead"]
    /\ own' = [p \in Protocols |-> 0]
    /\ inbox' = [i \in Id |-> <<>>]
    /\ runner' = [i \in Id |-> "none"]
    /\ sock' = [i \in Id |-> "none"]
    /\ stopped' = [i \in Id |-> "none"]
    /\ UNCHANGED log

(* Ctrl-C, or the Exit button. *)
Exit == Alive /\ Die

-----------------------------------------------------------------------------
(* The task of protocol p *)

(* Outside a session a lagged receiver is an error that expect() turns into *)
(* a panic, and the release build aborts the process on a panic.            *)
RecvLagged(p) ==
    /\ pc[p] = "listen" /\ Lagging(p)
    /\ Die

(* cur[p] is moved past the next command, which the task reads. *)
Recv(p) ==
    /\ pc[p] = "listen"
    /\ Unread(p) /\ ~Lagging(p)
    /\ cur' = [cur EXCEPT ![p] = @ + 1]

NextCommand(p) == log[cur[p] + 1]

(* A command of another protocol, or a stop when nothing runs. *)
SkipCommand(p) ==
    /\ Recv(p)
    /\ NextCommand(p).protocol # p \/ ~NextCommand(p).start
    /\ UNCHANGED <<log, pc, own, serverVars>>

(* The Runner trait's new() refuses the address, the port or the path. *)
RejectCommand(p) ==
    /\ Recv(p)
    /\ NextCommand(p).protocol = p /\ NextCommand(p).start /\ ~NextCommand(p).valid
    /\ UNCHANGED <<log, pc, own, serverVars>>

(* Mutant: the runner subscribes in the task it spawns, not in new(). *)
CreateServerSubscribesLate(p) ==
    LET i == cur[p] + 1 IN
    /\ Recv(p)
    /\ NextCommand(p).protocol = p /\ NextCommand(p).start /\ NextCommand(p).valid
    /\ pc' = [pc EXCEPT ![p] = "settle"]
    /\ own' = [own EXCEPT ![p] = i]
    /\ UNCHANGED <<log, serverVars>>

(* new() subscribes the runner's receiver before it spawns the runner. *)
CreateServer(p) ==
    LET i == cur[p] + 1 IN
    /\ Recv(p)
    /\ NextCommand(p).protocol = p /\ NextCommand(p).start /\ NextCommand(p).valid
    /\ pc' = [pc EXCEPT ![p] = "settle"]
    /\ own' = [own EXCEPT ![p] = i]
    /\ runner' = [runner EXCEPT ![i] = "idle"]
    /\ UNCHANGED <<log, inbox, sock, stopped>>

(* The 10 ms sleep is over: Server::start. *)
StartServer(p) ==
    LET i == own[p] IN
    /\ pc[p] = "settle"
    /\ IF RxOpen(i)
         THEN /\ SendTo(i, TRUE)
              /\ pc' = [pc EXCEPT ![p] = "serving"]
              /\ UNCHANGED own
         ELSE /\ pc' = [pc EXCEPT ![p] = "listen"]
              /\ own' = [own EXCEPT ![p] = 0]
              /\ UNCHANGED inbox
    /\ UNCHANGED <<log, cur, runner, sock, stopped>>

(* Mutant: the session ends without waiting for a command. *)
RecvAnyStopAtOnce(p) ==
    LET i == own[p] IN
    /\ pc[p] = "serving"
    /\ cur' = [cur EXCEPT ![p] = @ + 1]
    /\ SendTo(i, FALSE)
    /\ pc' = [pc EXCEPT ![p] = "stopping"]
    /\ UNCHANGED <<log, own, runner, sock, stopped>>

(* Mutant: inside a session, commands of other protocols are skipped. *)
RecvAnyStopOwnOnly(p) ==
    LET i == own[p] IN
    /\ pc[p] = "serving" /\ Unread(p)
    /\ cur' = [cur EXCEPT ![p] = @ + 1]
    /\ IF NextCommand(p).protocol = p
         THEN SendTo(i, FALSE) /\ pc' = [pc EXCEPT ![p] = "stopping"]
         ELSE UNCHANGED <<inbox, pc>>
    /\ UNCHANGED <<log, own, runner, sock, stopped>>

(* Mutant: inside a session, commands are passed on to the server. *)
RecvAnyStopForwards(p) ==
    LET i == own[p] IN
    /\ pc[p] = "serving" /\ Unread(p)
    /\ cur' = [cur EXCEPT ![p] = @ + 1]
    /\ SendTo(i, NextCommand(p).start)
    /\ pc' = [pc EXCEPT ![p] = "stopping"]
    /\ UNCHANGED <<log, own, runner, sock, stopped>>

(* Any command of any protocol, and a lagged receiver too, ends the session: *)
(* Server::stop sends its first message, or returns because it cannot.       *)
RecvAnyStop(p) ==
    LET i == own[p] IN
    /\ pc[p] = "serving" /\ Unread(p)
    /\ cur' = [cur EXCEPT ![p] = IF Lagging(p) THEN Len(log) - CommandCap ELSE @ + 1]
    /\ IF RxOpen(i)
         THEN /\ SendTo(i, FALSE)
              /\ pc' = [pc EXCEPT ![p] = "stopping"]
              /\ UNCHANGED <<own, stopped>>
         ELSE /\ pc' = [pc EXCEPT ![p] = "listen"]
              /\ own' = [own EXCEPT ![p] = 0]
              /\ stopped' = [stopped EXCEPT ![i] = "err"]
              /\ UNCHANGED inbox
    /\ UNCHANGED <<log, runner, sock>>

(* The second message, after which the task drops the Server. *)
SendSecondStop(p) ==
    LET i == own[p] IN
    /\ pc[p] = "stopping"
    /\ IF RxOpen(i)
         THEN SendTo(i, FALSE) /\ stopped' = [stopped EXCEPT ![i] = "ok"]
         ELSE stopped' = [stopped EXCEPT ![i] = "err"] /\ UNCHANGED inbox
    /\ pc' = [pc EXCEPT ![p] = "listen"]
    /\ own' = [own EXCEPT ![p] = 0]
    /\ UNCHANGED <<log, cur, runner, sock>>

TaskStep(p) ==
    \/ RecvLagged(p) \/ SkipCommand(p) \/ RejectCommand(p) \/ CreateServer(p)
    \/ StartServer(p) \/ RecvAnyStop(p) \/ SendSecondStop(p)

-----------------------------------------------------------------------------
(* The runner of server i and its listening socket *)

(* An idle runner waits for a connect flag and ignores a stop; when the     *)
(* sender is gone and nothing is left to read, it ends.  The DHCP runner    *)
(* binds at once and then occupies its worker thread.                       *)
RunnerIdle(i) ==
    /\ runner[i] = "idle" /\ Wakes(i)
    /\ IF inbox[i] = <<>>
         THEN runner' = [runner EXCEPT ![i] = "ended"] /\ UNCHANGED <<inbox, sock>>
       ELSE IF ~Head(inbox[i])
         THEN inbox' = [inbox EXCEPT ![i] = Tail(@)] /\ UNCHANGED <<runner, sock>>
       ELSE IF Protocol(i) # "dhcp"
         THEN /\ inbox' = [inbox EXCEPT ![i] = Tail(@)]
              /\ runner' = [runner EXCEPT ![i] = "serving"]
              /\ sock' = [sock EXCEPT ![i] = "binding"]
       ELSE IF Bindable(i)
         THEN /\ inbox' = [inbox EXCEPT ![i] = Tail(@)]
              /\ runner' = [runner EXCEPT ![i] = "blocked"]
              /\ sock' = [sock EXCEPT ![i] = "open"]
         ELSE /\ inbox' = [inbox EXCEPT ![i] = <<>>]
              /\ runner' = [runner EXCEPT ![i] = "ended"]
              /\ sock' = [sock EXCEPT ![i] = "failed"]
    /\ UNCHANGED <<log, taskVars, stopped>>

(* HTTP and TFTP bind in a task of their own, whose failure the runner does *)
(* not notice; the FTP runner ends, and its receiver with it.               *)
BindSocket(i) ==
    /\ sock[i] = "binding"
    /\ sock' = [sock EXCEPT ![i] = IF Bindable(i) THEN "open" ELSE "failed"]
    /\ IF Protocol(i) = "ftp" /\ ~Bindable(i)
         THEN /\ runner' = [runner EXCEPT ![i] = "ended"]
              /\ inbox' = [inbox EXCEPT ![i] = <<>>]
         ELSE UNCHANGED <<runner, inbox>>
    /\ UNCHANGED <<log, taskVars, stopped>>

(* Mutant: the runner ends without aborting the serving task. *)
RecvStopNoAbort(i) ==
    /\ runner[i] = "serving" /\ Wakes(i)
    /\ Protocol(i) # "ftp"
    /\ runner' = [runner EXCEPT ![i] = "ended"]
    /\ inbox' = [inbox EXCEPT ![i] = <<>>]
    /\ UNCHANGED <<log, taskVars, sock, stopped>>

(* Mutant: a bind that is under way is not aborted. *)
RecvStopLeavesBind(i) ==
    /\ runner[i] = "serving" /\ Wakes(i)
    /\ Protocol(i) # "ftp"
    /\ sock' = [sock EXCEPT ![i] = IF @ = "open" THEN "aborting" ELSE @]
    /\ runner' = [runner EXCEPT ![i] = "ended"]
    /\ inbox' = [inbox EXCEPT ![i] = <<>>]
    /\ UNCHANGED <<log, taskVars, stopped>>

(* HTTP and TFTP: any message, or a closed channel, aborts the serving task *)
(* and ends the runner.  abort() does not wait: the task drops its listener *)
(* at its next turn, and a bind that is under way still goes through.       *)
RecvStop(i) ==
    /\ runner[i] = "serving" /\ Wakes(i)
    /\ Protocol(i) # "ftp"
    /\ \E s \in SockStates :
          /\ sock' = [sock EXCEPT ![i] = s]
          /\ CASE sock[i] = "open"    -> s = "aborting"
               [] sock[i] = "binding" -> s = "closed" \/ (s = "aborting" /\ Bindable(i))
               [] OTHER               -> s = sock[i]
    /\ runner' = [runner EXCEPT ![i] = "ended"]
    /\ inbox' = [inbox EXCEPT ![i] = <<>>]
    /\ UNCHANGED <<log, taskVars, stopped>>

DropAborted(i) ==
    /\ sock[i] = "aborting"
    /\ sock' = [sock EXCEPT ![i] = "closed"]
    /\ UNCHANGED <<log, taskVars, inbox, runner, stopped>>

(* FTP: the shutdown indicator closes the listener and gives the open       *)
(* sessions a grace period of five seconds.                                 *)
FtpShutdown(i) ==
    /\ runner[i] = "serving" /\ Wakes(i)
    /\ Protocol(i) = "ftp"
    /\ sock' = [sock EXCEPT ![i] = "closed"]
    /\ runner' = [runner EXCEPT ![i] = "draining"]
    /\ inbox' = [inbox EXCEPT ![i] = <<>>]
    /\ UNCHANGED <<log, taskVars, stopped>>

(* Mutant: the shutdown waits for the FTP sessions, for as long as they last. *)
FtpDrainedNever(i) == FALSE /\ runner[i] = "draining" /\ UNCHANGED vars

FtpDrained(i) ==
    /\ runner[i] = "draining"
    /\ runner' = [runner EXCEPT ![i] = "ended"]
    /\ UNCHANGED <<log, taskVars, inbox, sock, stopped>>

(* tftpd.serve() returned an error: the serving task ends, the runner stays. *)
TftpServeFails(i) ==
    /\ sock[i] = "open" /\ Protocol(i) = "tftp"
    /\ sock' = [sock EXCEPT ![i] = "failed"]
    /\ UNCHANGED <<log, taskVars, inbox, runner, stopped>>

(* The only way out of the DHCP serve loop. *)
DhcpSocketError(i) ==
    /\ runner[i] = "blocked"
    /\ runner' = [runner EXCEPT ![i] = "ended"]
    /\ sock' = [sock EXCEPT ![i] = "closed"]
    /\ inbox' = [inbox EXCEPT ![i] = <<>>]
    /\ UNCHANGED <<log, taskVars, stopped>>

RunnerStep(i)   == RunnerIdle(i) \/ RecvStop(i) \/ FtpShutdown(i) \/ FtpDrained(i)
ListenerStep(i) == BindSocket(i) \/ DropAborted(i)
Failure(i)      == TftpServeFails(i) \/ DhcpSocketError(i)

-----------------------------------------------------------------------------
Internal ==
    \/ \E p \in Protocols : TaskStep(p)
    \/ \E i \in Id : RunnerStep(i) \/ ListenerStep(i) \/ Failure(i)
    \/ Exit

Next == Internal \/ \E m \in CommandMsg : Command(m)

(* The tokio scheduler runs every task that is ready as long as no DHCP    *)
(* server serves.  While one does, other tasks may go on beside it, but     *)
(* nothing makes them: the runtime has as many workers as the host has      *)
(* CPUs, one perhaps, and the worker that is kept may be the one that       *)
(* drives timers and sockets (main_cli.rs:20, dhcp.rs:92).  Nothing makes   *)
(* the front end send, the user exit or a socket fail.                      *)
Fairness ==
    /\ \A p \in Protocols : WF_vars(BlockedRunners = {} /\ TaskStep(p))
    /\ \A i \in Id : /\ WF_vars(BlockedRunners = {} /\ RunnerStep(i))
                     /\ WF_vars(BlockedRunners = {} /\ ListenerStep(i))

Spec == Init /\ [][Next]_vars /\ Fairness

-----------------------------------------------------------------------------
(* Properties *)

(* Between creation and Server::start the runner is subscribed and has      *)
(* nothing to read, whatever the scheduler did during the sleep: the start  *)
(* message is never sent to nobody (server.rs:174-181, http.rs:172).  That  *)
(* does not take the sleep, which server.rs:174-175 calls necessary: new()  *)
(* subscribes before it returns, and the length of the sleep is left open.  *)
StartReachesRunner ==
    \A p \in Protocols :
       pc[p] = "settle" => runner[own[p]] = "idle" /\ inbox[own[p]] = <<>>

(* No task and no runner has anything left to do or to read. *)
Quiescent ==
    /\ Alive
    /\ \A p \in Protocols : pc[p] \in {"listen", "serving"} /\ ~Unread(p)
    /\ \A i \in Id :
          /\ runner[i] \in {"idle", "serving"} => ~Wakes(i)
          /\ runner[i] # "draining"
          /\ sock[i] \notin {"binding", "aborting"}

(* A system at rest listens for at most one command, the last one sent:     *)
(* every earlier HTTP, FTP and TFTP listener has been closed, through any   *)
(* interleaving of starts, stops, failed binds and aborts.                  *)
OnlyLastCommandListens ==
    Quiescent =>
       \A i \in Id : sock[i] = "open" /\ Protocol(i) # "dhcp" => i = Len(log)

(* A stop that reports an error leaves no listener behind: the send failed  *)
(* because the runner had ended already (server.rs:102-121).                *)
FailedStopLeavesNothing ==
    \A i \in Id :
       stopped[i] = "err" => ~RxOpen(i) /\ sock[i] \notin {"binding", "open"}

(* What waits for a runner that is idle is its start, then stops; once it   *)
(* serves any flag means stop, and only stops wait for it.  A start never   *)
(* comes late, and the private channel, which keeps 10 flags, never holds   *)
(* more than three (server.rs:70, 83-117, http.rs:182-245).                 *)
FlagsInOrder ==
    \A i \in Id :
       /\ Len(inbox[i]) <= 3
       /\ \A k \in DOMAIN inbox[i] : inbox[i][k] <=> k = 1 /\ runner[i] = "idle"

(* A command asks for an address if it starts a server that may be created. *)
NoAddress  == <<>>
Asked(m)   == IF m.start /\ m.valid THEN <<Transport(m.protocol), m.port>> ELSE NoAddress
Listener(i) ==
    IF Alive /\ Holding(i) THEN "open"
    ELSE IF ~Alive \/ runner[i] = "ended" \/ sock[i] \in {"closed", "failed"} THEN "over"
    ELSE "new"

Life == INSTANCE ServerLife WITH
           Addresses <- {"tcp", "udp"} \X Ports,
           Refused   <- RefusedSockets,
           Datagram  <- {"udp"} \X Ports,
           asked     <- [i \in 1 .. Len(log) |-> Asked(log[i])],
           life      <- [i \in Id |-> Listener(i)]

(* Tasks, runners and sockets keep the promise of ServerLife, whatever is   *)
(* sent: a bind that was under way when its server was stopped does not     *)
(* bring the server back, and nothing but a later command stops a TCP       *)
(* listener, also when readers lag (server.rs:184-200, http.rs:232-245).    *)
KeepsListeners == Life!Spec

(* Every command after its own start stops an HTTP, FTP or TFTP listener;   *)
(* once a DHCP server serves, nothing is promised any more.                 *)
LaterCommandStops ==
    \A i \in Id :
       (sock[i] = "open" /\ Protocol(i) # "dhcp" /\ Len(log) > i)
          ~> (sock[i] # "open" \/ BlockedRunners # {})

(* Server::stop ends the runner it was called for, unless it serves DHCP or *)
(* another one does: no stop is lost between the two loops of a runner      *)
(* (http.rs:181-250).                                                       *)
StopEndsRunner ==
    \A i \in Id :
       (stopped[i] = "ok" /\ Protocol(i) # "dhcp")
          ~> (runner[i] \in {"none", "ended"} \/ BlockedRunners # {})

(* server.rs:97: "Sends two disconnect messages to ensure both the inner    *)
(* loop and runner exit."                                                   *)
StopEndsEveryRunner ==
    \A i \in Id : (stopped[i] = "ok") ~> (runner[i] \in {"none", "ended"})

=============================================================================
