# A formal model of quick-serve

quick-serve starts small file servers (HTTP, FTP, TFTP) and a DHCP server from
one program, either headless from the command line or from a window.  This
directory holds TLA+ modules that model its control plane, its DHCP lease table,
its HTTP requests and the runs of its synchronisation script, the TLC
configurations that check them, and TLAPS proofs.
Paths below are relative to the repository (`src/servers/server.rs` and so on).

## The system

| Component | Source | State it keeps | Operations |
|---|---|---|---|
| command channel | `src/common/messages.rs` | a broadcast channel of `CommandMsg` that keeps the last 128 (100 rounded up) and a read position per receiver | send, receive, lag |
| server starter tasks | `src/servers/server.rs` 133-205 | per protocol: the loop it is in and the `Server` it holds | skip, reject, create, start, stop |
| server control channel | `src/servers/server.rs` 46-122 | a private broadcast channel of connect flags per `Server` | `start`, `stop` |
| protocol runners | `src/servers/{http,ftp,tftp,dhcp}.rs` | per server: a task that waits, serves, drains or has ended, and its listening socket | bind, serve, stop, fail |
| headless front end | `src/main_cli.rs`, `src/common/args.rs`, `server_starter_sender` | the parsed options | one start command per option, exit |
| window front end | `src/ui/window.rs`, `src/ui/toggle_switch.rs`, `src/main_gui.rs` | per protocol a toggle and a port; directory and bind address | click, edit, exit |
| DHCP lease table | `src/servers/dhcp_server/dhcp_server.rs` | leases (address, hardware address, expiry) and `last_lease` | discover, request, release, decline |
| HTTP requests | `src/servers/http.rs` 23-145 | open connections; the file system | answer a request |
| validation | `src/utils/validation.rs` | none | pure checks of addresses, ports and paths |
| qs-sync | `scripts/qs-sync` | lock file, state databases, trees, trash, conflict log | init, sync, pull, push, status, schedule |
| logger, errors, installers, docs | `src/utils/logger.rs`, `src/common/errors.rs`, `*.sh`, `docs/` | a list of log lines | formatting, copying |

How they interact.  A front end owns the sender of the command channel.  Every
starter task has its own receiver and sees **every** command, of its protocol or
not.  A start command of its protocol makes a task create a `Server`; `new()`
validates, subscribes the runner's receiver and spawns the runner, and after
10 ms the task sends the connect flag on the server's private channel.  (The comment
at server.rs:174-175 calls that delay necessary for the runner to subscribe.  It is
not: `runner` subscribes before it spawns its task, so nothing can come between, as
`StartReachesRunner` shows without any assumption on the delay.)  The runner
binds a socket, HTTP and TFTP in a task of their own that they abort when they
are told to stop.  While its server runs, the task waits for the next command,
*whatever it is*, takes it for a stop, sends two disconnect flags and drops the
`Server`, whose channel closes with it.

What is hard about it:

* **Order and interleaving.** Four tasks read one channel at their own pace, and
  the meaning of a command depends on the loop the reader is in.  `abort()` does
  not wait, binds take time, and two servers may want one port.
* **Lag.** A receiver that falls behind gets an error, which panics in the outer
  loop (the release profile aborts) and stops a server in the inner loop.
* **Partial failure.** A failed bind ends the inner task only; a send fails when
  the runner has ended already.
* **Scheduling.** The DHCP serve loop never yields and keeps a worker thread.
* **Check and use.** An HTTP request checks its path as text, then asks the file
  system up to five times about it; connections outlive the accept loop.
* **Signals.** A run of qs-sync may be killed or signalled while it holds the lock,
  and its children outlive it, with the lock or, if the child is an ssh, without; the
  lock file may be removed under it.
* **Restart.** The lease table is in memory: a DHCP server that is started again
  knows nothing of the addresses in use.
* **Time and messages.** DHCP leases expire by the server's clock and by the
  clients', packets are lost, late or sent twice, and offers reserve nothing.

What makes each part correct: a start reaches its runner; what listens at the end
is what was asked for last; a stop leaves nothing behind, DHCP excepted; the toggles
hide no running server but DHCP's; a headless run without DHCP comes to rest; no
address is used by two clients, and the table backs every use, once a lease time has
passed since the last restart; what was granted is not refused; the pool does not leak
away; no path of an HTTP request leads out of the directory by itself, and its answer
fits what was there while it was made; runs of qs-sync do not work at the same time,
and success means that the work was done.  Where the code does something else, a
violation run shows it.

## Modules

`ControlPlane` models the channel, the tasks, the runners and their sockets.
A server is named by the position in the channel of the command that created it.
The front end is left open: any command may come at any time.

| Variable | Code |
|---|---|
| `log`, `cur[p]` | the broadcast channel, and how far the task of `p` has read |
| `pc[p]` | `listen`: outer `recv` (144); `settle`: the 10 ms sleep (176); `serving`: inner `recv` (185); `stopping`: between the two sends of `stop` (113, 116); `dead`: the process ended |
| `own[p]` | the local variable `server` of the task |
| `inbox[i]` | flags on the private channel of server `i` not yet read |
| `runner[i]` | `idle`: first `recv`; `serving`: second `recv` (HTTP, TFTP) or `listen()` (FTP); `blocked`: inside `serve()` (DHCP); `draining`: FTP grace period; `ended` |
| `sock[i]` | the listening socket; `aborting`: `abort()` was called, the task has not been dropped |
| `stopped[i]` | what `Server::stop` returned |

Actions: `SkipCommand`, `RejectCommand`, `CreateServer`, `StartServer`,
`RecvAnyStop`, `SendSecondStop`, `RecvLagged` for the starter tasks; `RunnerIdle`,
`RecvStop`, `FtpShutdown`, `FtpDrained` for the runners; `BindSocket`,
`DropAborted`, `TftpServeFails`, `DhcpSocketError` for the sockets; `Exit`.

`ServerLife` is what all this promises to whoever sends the commands.  It knows only
the commands' addresses (`asked`) and the listener of each command (`life`): it is
opened once, at an address that nobody holds; it is given up only if the address
is refused or taken, or a later command came; it is closed only for a later command,
or by itself if it is of UDP (`TftpServeFails`, `DhcpSocketError`); and once over it
stays so.  `ControlPlane` implements it (`KeepsListeners`): `Listener(i)` is `open`
from the bind to the drop of the socket, aborted or not, and `over` when runner or
socket has ended or the program has.  Channels, tasks, flags and aborts do not appear,
which is the point: none of them may bring a listener back or close one too many.

`CliSession` closes it with `server_starter_sender`: `args` is the command line,
one of the `CommandLines` that a run allows, `step` the option that is looked at next.  `LookAtOption` is one `if` of the
function (the starter tasks run meanwhile), with the cast to `u16` and the port
rules of `validate_ip_port`; `NothingToStart` is the exit when nothing was asked
for.  `GuiSession` closes it with the window: a click flips a toggle and sends its
new position.

`DhcpServer` is the lease table: one action per branch of `handle_request`, with
the answer as a parameter.  The entry that `current_lease` picks depends on the
order of a hash map, so it is any entry of the client.  `LeaseReset` is
`DHCPRunner::runner`, which makes a new table.  `DhcpLan` composes it with
clients and a network, which are external: clients that follow RFC 2131 (replies
matched by transaction id, the lease counted from the first request), and a
network that delays and loses packets but keeps the order between the server and
one client; `Restart` ends the server and starts it again, at `bornAt`, while the
clients go on.  A lease given by an earlier server (`OldLease`) is over a lease
time after `bornAt`, and until then an address may have two users: nothing in the
code prevents it, and the properties say that nothing else can.  `AddressUse` is
the abstract specification: an address has at most one user, and a client takes one
only while nobody uses it.  `DhcpLan` implements it, with `users` the clients that
are bound and whose lease is not over.

`HttpServer` is the accept loop, its connections, and `receive_request` with one
action per look at the file system.  A requested path is a sequence of components
(`path[c]`), `PathAccepted` is `validate_file_path`: `BeginRequest` refuses the
path or goes on to the first look, while `Change` (external) replaces what the
path names at any moment.  `seen[c]` is a history variable: what the path named
since the request began.  An aborted accept loop leaves its connections alone; a
client that leaves before it is answered makes its connection `gone`, not `closed`.

The directory is what the file system makes of it: `exists`, `is_dir`, `is_file` and
`read` follow symbolic links, so an entry may be a file elsewhere that a link leads
to (`outside`), and the last link may be anywhere on the path.  The check of the path
is of its text only (validation.rs:126-147).

`QsSync` models runs of `scripts/qs-sync` that share a data directory.  `pc[r]` is
the next command of a run or the way it ended (`ok`: a sync that succeeded, `shown`:
a status, preview or other report); `fd[r]` its descriptor of the lock file, which a
local child inherits and an ssh closes; `orphan[r]` what a killed run left behind, and
`found[r]` what its rm deletes; `cleans[r]` the clean-ups it began, since
`ENABLE_CONFLICT_CLEANUP` and `ENABLE_TRASH_CLEANUP` may skip either; `lockFile` counts the files that had the lock's name,
`file[r]` is the one that run `r` opened, since `RemoveLock` (the advice of line 307)
makes the next run create another; `pidFile` whose PID the file begins with; `old` and
`trash` what the clean-up has to delete; `local`, `remote` and `base` the files of
the two trees and of the saved base state; `scanned[r]` the arrays of the run.
`Quit` is the EXIT trap, `Term` the same trap on a signal, after which the script
goes on.  Two facts of bash decide what a run does: a loop at the end of a pipeline
stores into a subshell's arrays (`AfterPipeline`), and `((count++))` at 0 fails
under `set -e` (`RemoveBackup`).  Since the scans lose what they find, change
detection finds nothing, and conflict resolution and transfers always run on empty
arrays; these two are not modelled, and `Save` follows the clean-up.

`MC*` modules give TLC its constants.  Operators marked *Mutant* are variations
of the operator after them with a plausible bug; each is known to violate one of
the properties.

What a run of qs-sync is asked for and how it is configured is chosen where the script
reads it, which is once.

Abstractions: all servers use one bind address (the hardest case for ports); the
`valid` field of a command stands for what `validate_path` and `validate_ip_port`
decide in `ControlPlane` and `GuiSession` (a stop, in which nothing is validated, is
written as valid), while `CliSession` computes it from the port; the process dies on a panic, as in the release profile; the private
channels are unbounded, since they never hold more than three flags of the ten they
have room for (`FlagsInOrder`).

## Runs

| Run | Shows | Bounds |
|---|---|---|
| `control_session` | starts reach their runner; at rest only the last command's server listens; a stop that failed left nothing; a runner's start comes first and only stops come after; `ServerLife` is implemented; every later command stops a listener and `stop` ends its runner, while no DHCP server blocks a worker | FTP, TFTP (which stops as HTTP does) and DHCP on one port, three commands, channel of one.  HTTP against FTP is in `cli_session`.  Three commands are a start, what stops it and what comes after; a channel of one lets every reader lag, also the one that serves |
| `control_stop_dhcp` (violation) | `Server::stop` does not end a DHCP runner, contrary to server.rs:97 | DHCP alone, two commands |
| `cli_session` | a headless run comes to rest, or to serve DHCP; the last valid start has its server, and no other server is left listening, DHCP's included, for every command line | HTTP, FTP, DHCP; ports 80, 65616 and 65536, which collide or vanish as `u16` |
| `cli_all_served` (violation) | the multi-protocol example of README.md:401-402 does not leave every server running: FTP's start closes HTTP, TFTP's closes FTP | the example itself, on its default ports; a server that fails by itself does not count |
| `gui_session` | no listener but a DHCP server's is hidden behind a toggle that shows off; the last click is served | TFTP, FTP and DHCP, four clicks, channel of two: a start, its stop, and two clicks elsewhere that make it lag |
| `dhcp_lan` | no address has two users, uses are backed by leases, what was granted is not refused to a retry, `AddressUse` is implemented | two clients that both ask for the first of two addresses and so may come to hold both, leases of one tick, a clock of two, two transactions each, two packets in flight each way |
| `dhcp_pool` | after a restart the promises hold again within one lease time; one entry per client and an answer to every discover when clients have no preference | two clients, two addresses, one restart at any time, a clock of two |
| `http_requests` | no path leads out of the directory by itself, and content from elsewhere needs a link; answers fit what the path named while it was looked at; every request is answered unless its client leaves, also after a stop | every path of up to two components and those of three that first go down (`MCHttpServer`); one connection (requests meet in the directory only), three changes, two starts: a change between any two looks |
| `http_links` (violation) | a symbolic link in the directory is answered with the file it leads to, contrary to validation.rs:117-118 and SECURITY.md:38 | a directory that stands still |
| `qs_sync_lock` | only a trapped signal, the removal of the lock file between two openings, or an ssh that a killed run left behind, lets two runs work at once; the lock file names the holder or nobody; a sync that succeeds left nothing of what its configuration has it clean up | three runs (one works, one waits or loses, one comes later), two backups, one trash batch, one removal; runs and backups are symmetric |
| `qs_sync_term` (violation) | a signalled run goes on without the lock, past the writing of its PID, while another one works, contrary to qs-sync:285 and docs/QS-SYNC-PHASE3.md:31 | two runs |
| `qs_sync_success` (violation) | a sync of trees that differ reports success and transfers nothing, contrary to qs-sync:1541 | one run |

Deadlock is not checked: every one of these systems may come to rest (nobody
sends a command) or reaches a bound.

Fairness.  Tasks, runners and sockets are weakly fair, because the tokio scheduler
runs whatever is ready, but only while no DHCP server is inside `serve()`
(`BlockedRunners = {}`): that call never gives its worker back, the runtime has as many
workers as the host has CPUs (main_cli.rs:20), perhaps one, and the blocked worker may
be the one that drives timers and sockets.  From there on nothing is assumed, and
`LaterCommandStops`, `StopEndsRunner` and `Settles` claim nothing.  No step is
forbidden either, so the safety properties hold however many workers there are.
Nothing makes a user click, a socket fail or the process exit.
`LookAtOption` is fair because the main thread sends its commands in a row.  The steps
of an HTTP request are fair for the same reason as tasks; clients are not, since
they may leave or wait.  Nothing is assumed of qs-sync, whose remote commands may
hang: its properties are safety properties.

## Proofs

`ControlPlaneProofs` proves about `ControlPlane`, for every set of protocols and
ports, every capacity of the channel and number of commands:

* `TypeCorrect`: `TypeOK` is invariant;
* `StartFindsRunner`: a start never goes to nobody;
* `OnlyLastListens`: at rest at most the last command's server listens;
* `FailedStopIsHarmless`: a failed stop left nothing to stop;
* `ServersNotShared`: no two tasks hold one server.

They rest on the assumptions `ProtocolsAssumption` and `BoundsAssumption`.  None of
the properties is inductive: whether a listener is stopped depends on who holds its
server and on how far that task has read.  The inductive invariant `IInv` adds
`TaskOK(p)` (a task holds a server exactly while it is in a session; that server is
named by the last command it has read; between creation and start its runner is
idle with an empty inbox) and `ServerOK(i)` (a runner exists only after its command
was read; only a live receiver has mail; a listener nobody aborted has its runner;
a failed stop means that the runner is gone).  The proof has one lemma per action;
steps of one server share `ServerStepInv`, steps of one task `TaskStepInv` and
`SessionStepInv`.

`ServerLifeProofs` EXTENDS it, from the same assumptions:

* `FlagsComeInOrder`: a runner finds its start first and only stops after it, and its
  channel, which keeps ten flags, never holds more than three;
* `ListenersKept`: `ControlPlane` implements `ServerLife`.

The invariant is `LifeInv`, on top of `IInv`.  `FlagsOK` counts what has been sent to a
runner together with what the task in charge may still send (`Unsent`): without that
sum nothing bounds the channel, and a flag found by a runner that serves could be its
own start.  `StageOK` says that a server with a runner was asked for, and that either a
later command came (`Followed`) or its task is in its session and has sent no stop.
Together they give `WokenByNext`: what wakes a runner that was started is a later
command, read or missed by a task that lagged, or the end of a session that such a
command ended.  `ServerMoves` then shows what each step of a runner or socket makes of
its listener, `TaskMoves` that the tasks make nothing of any, and `MoveStep` that such
a move is one of `ServerLife`; `BindableMeans` relates the sockets that are held to
the listeners that `ServerLife` calls open.

The front ends.  `GuiSessionProofs` and `CliSessionProofs` EXTEND
`ServerLifeProofs`: every step of a front end is a step of `ControlPlane`, so
`IInv` and `LifeInv` hold under them, for any number of clicks and every command line.

* `CliTypeCorrect`: the types, in particular that ports are `u16`;
* `LastClickIsServed`, `LastStartIsServed`: the last valid start has its server;
* `HiddenIsDhcp`: at rest, who listens is shown, DHCP excepted: a DHCP server that was
  toggled off keeps its socket, and nothing in the window says so;
* `OneServerIsLeft`: a headless run at rest has one listener at most, DHCP's included;
* `WindowKeepsListeners`, `HeadlessKeepsListeners`: both implement `ServerLife`.

What a front end adds is `SessionOK`: what a task holds was opened by a valid start
of its own protocol (`OwnStarts`), and a task that has read the last command, a
start of its own, is in its session (`LastRead`).  `LastIsServed` needs that no two
successive commands start one protocol (`Alternating`), since the second would be
taken for a stop.  The window keeps that because a click sends what
the toggle then shows (`Shown`), the command line because each option is looked at
once (`SentOnce`).  `OneServerIsLeft` needs the order of the options too (`DhcpLast`):
no command stops a DHCP server, and none comes after it.

`DhcpLanProofs` proves about `DhcpLan`, for any pool, lease time and number of
clients, restarts and packets in flight:

* `TypeCorrect`;
* `UseIsAlwaysLeased`: what a client uses is its own in the table, for as long as it
  will use it, or was given by an earlier server less than a lease time ago;
* `NeverAssignedTwice`: follows from it;
* `GrantsStand`: a retry of a request that was acknowledged is not refused while the
  lease may still be taken up or is used;
* `PromiseKept`: `DhcpLan` implements `AddressUse`.

The inductive invariant is `IInv`: per client, `Backed` (what it uses is leased),
`OwnTraffic` (everything on its wires carries its own transactions, none of the
future), `SelectingOK` and `ChosenOK` (an offer that was taken up, and what was
requested since), and `AckBacked`: an acknowledgement under way is backed by an entry
that lasts at least as long as the client will count, since the client counts from
its first request and the server from a later one.  That is why a second
acknowledgement of one transaction, or a late one, does no harm.  `GrantsStand` adds
that no refusal stands behind an acknowledgement in a client's replies (`GrantKept`):
what was acknowledged is backed, so the address is available to its client, and only
a request for one that is not is refused (`RefusedWhenTaken`).

`DhcpPoolProofs` EXTENDS `DhcpLanProofs`, for finitely many clients
(`ClientsAssumption`) that name no address in their discovers (`Asked = {NoAddr}`):

* `OneEntryEach`: a client holds one entry of the table at most;
* `DiscoversAnswered`: with no more clients than addresses, every discover finds one.

Neither is inductive, since an entry comes from a request, the request from an offer
and the offer from a discover, each of which may be under way.  `PoolOK` adds what a
client has in the table, asks for, has chosen or may still choose: this is one
address (`OneClaim`), because a discover not yet handled comes behind every request
and before every offer of its transaction (`DiscoverLast`), so its offer is of the
entry the client has or the first claim it makes.  That an address is free is then
the pigeonhole principle, and that the scan finds it is `ScanReaches`.

`HttpServerProofs` proves about `HttpServer`, for any set of paths and any number of
connections and changes of the directory:

* `HttpTypeCorrect`: in particular, no status but 200, 400, 403, 404 and 500 is answered
  (for 400 there is no error page: the built-in text is sent);
* `NoPathLeadsOut`: what is looked up lies in the directory as far as its path goes, and
  content from elsewhere is served only where a symbolic link was there to follow;
* `StandingStill`: a directory that stands still gets the answer its entry deserves;
* `NeverMadeUp`: any other answer says what was seen, and no path of ordinary names is
  refused (a name like `a..a` is: the check takes its two dots for a climb).

The invariants are `PathOK` (what is looked up was accepted) and `SawAndOK`: the
checks passed so far saw what they ask for (`ChecksSaw`), and an answer given is
justified by what was seen (`Justified`).  A change during a request adds a second
value to `seen`, so the answer need no longer fit one entry.  `AcceptedStaysInside`
and `RefusedIsOdd` are about `validate_file_path` alone, for paths of any length.

`QsSyncProofs` proves about `QsSync`, for any number of runs, files, signals and
removals of the lock file:

* `OverlapOnlySignalled`: runs, or what is left of them, overlap only after a trapped
  signal, when they opened different files under the lock's name, or beside an ssh
  that a killed run left behind;
* `LockFileNamesHolder`: the lock file is empty or names the holder of the lock;
* `SyncTypeCorrect`;
* `SuccessIsClean`: a sync that succeeds has left nothing of what its configuration has
  it clean up.

The inductive invariant adds that each lock file has one holder (`OneHolder`), that
an open descriptor without the lock belongs to a run that waits, that a run without
its descriptor works only after a signal, that a holder works or has left a child
behind, and that only killed runs have such children (`RunOK`).  `StepInv` is what
every step has in common; each action then only shows what it does to its own run.
`SuccessIsClean` rests on `CleanSoFar`: what a run has gone through was empty when it
passed, unless it was skipped, and nothing becomes old again.

All of these rest only on the named assumptions about the constants
(`ProtocolsAssumption`, `BoundsAssumption`, `ArgsAssumption`, `RequestsAssumption`,
`SignalsAssumption`, `RemovalsAssumption` and those of `DhcpServer` and `DhcpLan`),
which TLC evaluates.

Only model-checked: the liveness properties `LaterCommandStops`, `StopEndsRunner`,
`Settles` and `EveryRequestEnds`, since TLAPS proves neither fairness nor ENABLED.

## Not modelled

Logging, error texts, window drawing, installers and packaging: nothing the
servers do depends on them.

What libunftp and async-tftp do for clients: the repository only starts and stops
them.

Of the validation, whether an address parses and why `validate_path` refuses a
directory: no property tells the reasons apart, so the result is a free choice
(`valid`, `dirOk`, `ipOk`).  The error page of a status, or the built-in text in its
place, is one value.  Paths of HTTP requests hold no null bytes (the URI
parser refuses them), and are compared and joined as they come: the code does not
decode `%`.

Of qs-sync, options, configuration and timers (straight-line code), and its
resolution of conflicts and its transfers, which no run reaches:

* the scans store into the arrays of a subshell (535, 591), so both trees are empty
  when the changes are detected;
* if files were in them, `${STATE_BASE[$path]}` of a file that is not in the base
  (632) would be an unbound variable under `set -u`;
* if changes were detected, their number would be the status of `sync_analyze`, and
  the caller (1722-1731) takes every status but 0 for a failure.

So the number of changes modulo 256 (675) and a remote scan that failed halfway
(590) decide nothing in this code, and are not listed as hazards.  Nothing becomes
old while a sync is modelled, and deletions of local files succeed.

## Plan

Done: `ControlPlane` with `ServerLife`, `CliSession`, `GuiSession`, `DhcpServer` with `DhcpLan` and
`AddressUse`, `HttpServer` and `QsSync`, each with the proofs of its safety properties.

What could follow: if the scans of qs-sync are mended, detection, resolution and
transfer on what they find, with a crash between a transfer and the saving of the
base state.
