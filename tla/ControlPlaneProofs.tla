------------------------- MODULE ControlPlaneProofs -------------------------
(***************************************************************************)
(* Theorems about ControlPlane, for every set of protocols and ports, any  *)
(* capacity of the command channel and any number of commands.             *)
(***************************************************************************)
EXTENDS ControlPlane, TLAPS

(* Appending a flag to an inbox leaves sequences of flags. *)
LEMMA SendType ==
    ASSUME NEW box \in [Id -> Seq(BOOLEAN)], NEW i, NEW b \in BOOLEAN
    PROVE  [box EXCEPT ![i] = Append(@, b)] \in [Id -> Seq(BOOLEAN)]
<1>1. ASSUME NEW s \in Seq(BOOLEAN) PROVE Append(s, b) \in Seq(BOOLEAN)
  OBVIOUS
<1>2. i \in Id => box[i] \in Seq(BOOLEAN)
  OBVIOUS
<1>3. CASE i \in Id
  BY <1>1, <1>2, <1>3, Zenon
<1>4. CASE i \notin Id
  BY <1>4
<1> QED BY <1>3, <1>4

(* Reading the first flag of an inbox leaves the rest. *)
LEMMA ReadType ==
    ASSUME NEW box \in [Id -> Seq(BOOLEAN)], NEW i \in Id, box[i] # <<>>
    PROVE  /\ Head(box[i]) \in BOOLEAN
           /\ [box EXCEPT ![i] = Tail(@)] \in [Id -> Seq(BOOLEAN)]
OBVIOUS

(* Type correctness. *)
LEMMA InitType == Init => TypeOK
BY BoundsAssumption DEF Init, TypeOK, Id, TaskStates, RunnerStates, SockStates

(* Every action keeps every variable in its type. *)
LEMMA StepType == TypeOK /\ [Next]_vars => TypeOK'
<1> SUFFICES ASSUME TypeOK, [Next]_vars PROVE TypeOK'
  OBVIOUS
<1> USE DEF TypeOK, Id, TaskStates, RunnerStates, SockStates
<1>1. ASSUME NEW m \in CommandMsg, Command(m) PROVE TypeOK'
  BY <1>1, BoundsAssumption DEF Command, Send, taskVars, serverVars
<1>2. ASSUME Die PROVE TypeOK'
  BY <1>2, BoundsAssumption DEF Die
<1>3. ASSUME NEW p \in Protocols, TaskStep(p) PROVE TypeOK'
  <2> USE BoundsAssumption DEF Recv, Unread, Lagging, serverVars, NextCommand
  <2>1. CASE RecvLagged(p) BY <2>1, <1>2 DEF RecvLagged
  <2>2. CASE SkipCommand(p) BY <2>2 DEF SkipCommand
  <2>3. CASE RejectCommand(p) BY <2>3 DEF RejectCommand
  <2>4. CASE CreateServer(p) BY <2>4 DEF CreateServer
  <2> DEFINE Sent(b) == [inbox EXCEPT ![own[p]] = Append(@, b)]
  <2>0. ASSUME NEW b \in BOOLEAN PROVE Sent(b) \in [Id -> Seq(BOOLEAN)]
    BY SendType
  <2>5. CASE StartServer(p)
    <3>1. inbox' = inbox \/ inbox' = Sent(TRUE)
      BY <2>5, Zenon DEF StartServer, SendTo
    <3>2. inbox' \in [Id -> Seq(BOOLEAN)]
      BY <2>0, <3>1
    <3>3. /\ \E s \in TaskStates : pc' = [pc EXCEPT ![p] = s]
          /\ own' = own \/ own' = [own EXCEPT ![p] = 0]
      BY <2>5, Zenon DEF StartServer
    <3> QED BY <2>5, <3>2, <3>3 DEF StartServer
  <2>6. CASE RecvAnyStop(p)
    <3>1. inbox' = inbox \/ inbox' = Sent(FALSE)
      BY <2>6, Zenon DEF RecvAnyStop, SendTo
    <3>2. inbox' \in [Id -> Seq(BOOLEAN)]
      BY <2>0, <3>1
    <3>3. cur' \in [Protocols -> 0 .. MaxCommands]
      BY <2>6 DEF RecvAnyStop
    <3>4. UNCHANGED <<log, runner, sock>>
      BY <2>6 DEF RecvAnyStop
    <3>5. pc' \in [Protocols -> TaskStates]
      <4>1. \E s \in TaskStates : pc' = [pc EXCEPT ![p] = s]
        BY <2>6, Zenon DEF RecvAnyStop
      <4> QED BY <4>1
    <3>6. own' \in [Protocols -> 0 .. MaxCommands]
      <4>1. own' = own \/ own' = [own EXCEPT ![p] = 0]
        BY <2>6, Zenon DEF RecvAnyStop
      <4>2. 0 \in 0 .. MaxCommands
        OBVIOUS
      <4> QED BY <4>1, <4>2, Zenon
    <3>7. stopped' \in [Id -> {"none", "ok", "err"}]
      <4>1. stopped' = stopped \/ stopped' = [stopped EXCEPT ![own[p]] = "err"]
        BY <2>6, Zenon DEF RecvAnyStop
      <4> QED BY <4>1
    <3> QED BY <3>2, <3>3, <3>4, <3>5, <3>6, <3>7
  <2>7. CASE SendSecondStop(p)
    <3>1. inbox' = inbox \/ inbox' = Sent(FALSE)
      BY <2>7, Zenon DEF SendSecondStop, SendTo
    <3>2. inbox' \in [Id -> Seq(BOOLEAN)]
      BY <2>0, <3>1
    <3>3. \E s \in {"ok", "err"} : stopped' = [stopped EXCEPT ![own[p]] = s]
      BY <2>7, Zenon DEF SendSecondStop
    <3>4. stopped' \in [Id -> {"none", "ok", "err"}]
      BY <3>3
    <3>5. /\ pc' = [pc EXCEPT ![p] = "listen"] /\ own' = [own EXCEPT ![p] = 0]
          /\ UNCHANGED <<log, cur, runner, sock>>
      BY <2>7 DEF SendSecondStop
    <3> QED BY <3>2, <3>4, <3>5
  <2> QED BY <1>3, <2>1, <2>2, <2>3, <2>4, <2>5, <2>6, <2>7 DEF TaskStep
<1>4. ASSUME NEW i \in Id, RunnerStep(i) \/ ListenerStep(i) \/ Failure(i)
      PROVE  TypeOK'
  <2> USE DEF taskVars
  <2>1. CASE RunnerIdle(i)
    <3>1. [inbox EXCEPT ![i] = <<>>] \in [Id -> Seq(BOOLEAN)]
      OBVIOUS
    <3>2. inbox' \in [Id -> Seq(BOOLEAN)]
      BY <2>1, <3>1, ReadType DEF RunnerIdle
    <3> QED BY <2>1, <3>2 DEF RunnerIdle
  <2>2. CASE RecvStop(i) BY <2>2 DEF RecvStop
  <2>3. CASE FtpShutdown(i) BY <2>3 DEF FtpShutdown
  <2>4. CASE FtpDrained(i) BY <2>4 DEF FtpDrained
  <2>5. CASE BindSocket(i)
    <3>1. inbox' = inbox \/ inbox' = [inbox EXCEPT ![i] = <<>>]
      BY <2>5, Zenon DEF BindSocket
    <3>0. [inbox EXCEPT ![i] = <<>>] \in [Id -> Seq(BOOLEAN)]
      OBVIOUS
    <3>2. inbox' \in [Id -> Seq(BOOLEAN)]
      BY <3>0, <3>1
    <3>3. /\ sock' \in [Id -> SockStates]
          /\ runner' \in [Id -> RunnerStates]
      BY <2>5 DEF BindSocket, Bindable
    <3> QED BY <2>5, <3>1, <3>2 DEF BindSocket
  <2>6. CASE DropAborted(i) BY <2>6 DEF DropAborted
  <2>7. CASE TftpServeFails(i) BY <2>7 DEF TftpServeFails
  <2>8. CASE DhcpSocketError(i) BY <2>8 DEF DhcpSocketError
  <2> QED BY <1>4, <2>1, <2>2, <2>3, <2>4, <2>5, <2>6, <2>7, <2>8
          DEF RunnerStep, ListenerStep, Failure
<1>5. CASE UNCHANGED vars BY <1>5 DEF vars
<1> QED BY <1>1, <1>2, <1>3, <1>4, <1>5 DEF Next, Internal, Exit

(* Every variable stays in its type, however tasks and runners interleave.  *)
THEOREM TypeCorrect == Spec => []TypeOK
BY InitType, StepType, PTL DEF Spec

-----------------------------------------------------------------------------
(* The inductive invariant.  A task holds a server exactly while it is in a *)
(* session; the server is named by a start command of the task's protocol,  *)
(* so two tasks never hold the same one; and until the session ends, that   *)
(* command is the last one the task has read.                               *)
TaskOK(p) ==
    /\ cur[p] <= Len(log)
    /\ own[p] # 0 <=> pc[p] \in {"settle", "serving", "stopping"}
    /\ own[p] # 0 => /\ own[p] <= cur[p]
                     /\ Protocol(own[p]) = p
                     /\ runner[own[p]] # "none"
    /\ pc[p] \in {"settle", "serving"} => own[p] = cur[p]
    /\ pc[p] = "settle" => runner[own[p]] = "idle" /\ inbox[own[p]] = <<>>

(* A runner exists only after its task has read the start command; only a   *)
(* live receiver has mail; a listener that nobody aborted has its runner.   *)
ServerOK(i) ==
    /\ runner[i] # "none" => i <= Len(log) /\ i <= cur[Protocol(i)]
    /\ inbox[i] # <<>> => RxOpen(i)
    /\ sock[i] \in {"binding", "open"} =>
          runner[i] = IF Protocol(i) = "dhcp" THEN "blocked" ELSE "serving"
    /\ stopped[i] = "err" => runner[i] \in {"draining", "ended"}

IInv ==
    /\ TypeOK
    /\ \A p \in Protocols : TaskOK(p)
    /\ \A i \in Id : ServerOK(i)

(* The command that created a server is an entry of the channel. *)
LEMMA LogEntry ==
    ASSUME TypeOK, NEW i \in Id, i <= Len(log)
    PROVE  /\ log[i] \in CommandMsg
           /\ Protocol(i) \in Protocols
<1>1. log[i] \in CommandMsg
  BY DEF TypeOK, Id
<1> QED BY <1>1 DEF CommandMsg, Protocol

(* Nothing has been sent and no server exists at the start. *)
LEMMA InitInv == Init => IInv
<1> SUFFICES ASSUME Init PROVE IInv
  OBVIOUS
<1>1. TypeOK
  BY InitType
<1>2. ASSUME NEW p \in Protocols PROVE TaskOK(p)
  BY DEF Init, TaskOK
<1>3. ASSUME NEW i \in Id PROVE ServerOK(i)
  BY DEF Init, ServerOK
<1> QED BY <1>1, <1>2, <1>3 DEF IInv

(* A step of server i that leaves the tasks alone preserves the invariant   *)
(* if it preserves the part about server i, neither creates nor forgets the *)
(* runner, and does not disturb a runner that is to be started.             *)
LEMMA ServerStepInv ==
    ASSUME IInv, TypeOK', NEW i \in Id,
           UNCHANGED <<log, cur, pc, own, stopped>>,
           \A j \in Id \ {i} : /\ runner'[j] = runner[j]
                               /\ inbox'[j] = inbox[j]
                               /\ sock'[j] = sock[j],
           runner'[i] # "none",
           \/ runner'[i] = runner[i] /\ inbox'[i] = inbox[i]
           \/ \A p \in Protocols : pc[p] = "settle" => own[p] # i,
           ServerOK(i)'
    PROVE  IInv'
<1>1. ASSUME NEW p \in Protocols PROVE TaskOK(p)'
  <2>1. TaskOK(p) /\ own[p] \in 0 .. MaxCommands
    BY DEF IInv, TypeOK
  <2>2. own[p] # 0 => own[p] \in Id
    BY <2>1 DEF Id
  <2> QED BY <2>1, <2>2 DEF TaskOK, Protocol
<1>2. ASSUME NEW j \in Id, j # i PROVE ServerOK(j)'
  <2>1. ServerOK(j)
    BY DEF IInv
  <2> QED BY <1>2, <2>1 DEF ServerOK, RxOpen, Protocol
<1> QED BY <1>1, <1>2 DEF IInv

(* A step of the task of p that leaves the servers alone.                   *)
LEMMA TaskStepInv ==
    ASSUME IInv, TypeOK', NEW p \in Protocols,
           UNCHANGED <<log, serverVars>>,
           cur'[p] >= cur[p],
           \A q \in Protocols \ {p} : /\ cur'[q] = cur[q]
                                      /\ pc'[q] = pc[q]
                                      /\ own'[q] = own[q],
           TaskOK(p)'
    PROVE  IInv'
<1>1. ASSUME NEW q \in Protocols, q # p PROVE TaskOK(q)'
  <2>1. TaskOK(q)
    BY DEF IInv
  <2> QED BY <1>1, <2>1 DEF TaskOK, Protocol, serverVars
<1>2. ASSUME NEW j \in Id PROVE ServerOK(j)'
  <2>1. ServerOK(j)
    BY DEF IInv
  <2>2. \A q \in Protocols : cur[q] \in Nat /\ cur'[q] \in Nat /\ cur[q] <= cur'[q]
    <3>1. cur \in [Protocols -> Nat] /\ cur' \in [Protocols -> Nat]
      BY DEF IInv, TypeOK
    <3>2. \A q \in Protocols : q = p \/ cur'[q] = cur[q]
      OBVIOUS
    <3> QED BY <3>1, <3>2
  <2>3. CASE runner[j] # "none"
    <3>1. j <= Len(log) /\ j <= cur[Protocol(j)]
      BY <2>1, <2>3 DEF ServerOK
    <3>2. Protocol(j) \in Protocols
      BY <3>1, LogEntry DEF IInv
    <3>3. j <= cur'[Protocol(j)]
      BY <3>1, <3>2, <2>2 DEF Id
    <3>4. Protocol(j)' = Protocol(j)
      BY DEF Protocol
    <3> QED BY <2>1, <3>1, <3>3, <3>4 DEF ServerOK, RxOpen, serverVars
  <2>4. CASE runner[j] = "none"
    BY <2>1, <2>4 DEF ServerOK, RxOpen, Protocol, serverVars
  <2> QED BY <2>3, <2>4
<1> QED BY <1>1, <1>2 DEF IInv

(* A command only adds an entry to the channel. *)
LEMMA CommandInv ==
    ASSUME IInv, TypeOK', NEW m \in CommandMsg, Command(m)
    PROVE  IInv'
<1>1. /\ UNCHANGED <<cur, pc, own, inbox, runner, sock, stopped>>
      /\ log \in Seq(CommandMsg) /\ log' = Append(log, m)
  BY DEF Command, Send, taskVars, serverVars, IInv, TypeOK
<1>2. /\ Len(log') = Len(log) + 1 /\ Len(log) \in Nat
      /\ \A i \in 1 .. Len(log) : Protocol(i)' = Protocol(i)
  BY <1>1 DEF Protocol
<1>3. ASSUME NEW p \in Protocols PROVE TaskOK(p)'
  <2>1. TaskOK(p) /\ own[p] \in Nat /\ cur[p] \in Nat
    BY DEF IInv, TypeOK
  <2>2. own[p] # 0 => own[p] \in 1 .. Len(log)
    BY <2>1, <1>2 DEF TaskOK
  <2> QED BY <1>1, <1>2, <2>1, <2>2 DEF TaskOK
<1>4. ASSUME NEW j \in Id PROVE ServerOK(j)'
  <2>1. ServerOK(j) /\ j \in Nat \ {0}
    BY DEF IInv, Id
  <2>2. CASE runner[j] = "none"
    BY <1>1, <2>1, <2>2 DEF ServerOK, RxOpen
  <2>3. CASE runner[j] # "none"
    <3>1. j \in 1 .. Len(log)
      BY <2>1, <2>3, <1>2 DEF ServerOK
    <3>2. Protocol(j)' = Protocol(j)
      BY <3>1, <1>2
    <3> QED BY <1>1, <1>2, <2>1, <3>1, <3>2 DEF ServerOK, RxOpen
  <2> QED BY <2>2, <2>3
<1> QED BY <1>3, <1>4 DEF IInv

(* When the process ends, it holds no server. *)
LEMMA DieInv == ASSUME IInv, TypeOK', Die PROVE IInv'
<1>1. ASSUME NEW p \in Protocols PROVE TaskOK(p)'
  BY DEF Die, TaskOK, IInv, TypeOK
<1>2. ASSUME NEW j \in Id PROVE ServerOK(j)'
  BY DEF Die, ServerOK
<1> QED BY <1>1, <1>2 DEF IInv

(* Both handlers that only move on in the channel. *)
LEMMA PassInv ==
    ASSUME IInv, TypeOK', NEW p \in Protocols, SkipCommand(p) \/ RejectCommand(p)
    PROVE  IInv'
<1>1. /\ UNCHANGED <<log, pc, own, serverVars>>
      /\ pc[p] = "listen" /\ cur[p] < Len(log)
      /\ cur' = [cur EXCEPT ![p] = @ + 1]
  BY DEF SkipCommand, RejectCommand, Recv, Unread
<1>2. TaskOK(p) /\ cur \in [Protocols -> Nat] /\ Len(log) \in Nat
  BY DEF IInv, TypeOK
<1>3. cur'[p] = cur[p] + 1 /\ \A q \in Protocols \ {p} : cur'[q] = cur[q]
  BY <1>1, <1>2
<1>4. TaskOK(p)'
  BY <1>1, <1>2, <1>3 DEF TaskOK
<1> QED BY <1>1, <1>2, <1>3, <1>4, TaskStepInv

(* The new server is named by a command no task has read before. *)
LEMMA CreateInv ==
    ASSUME IInv, TypeOK', NEW p \in Protocols, CreateServer(p)
    PROVE  IInv'
<1> DEFINE i == cur[p] + 1
<1>1. /\ UNCHANGED <<log, inbox, sock, stopped>>
      /\ pc[p] = "listen" /\ cur[p] < Len(log)
      /\ cur' = [cur EXCEPT ![p] = i]
      /\ pc' = [pc EXCEPT ![p] = "settle"]
      /\ own' = [own EXCEPT ![p] = i]
      /\ runner' = [runner EXCEPT ![i] = "idle"]
      /\ Protocol(i) = p
  BY DEF CreateServer, Recv, Unread, NextCommand, Protocol
<1>2. /\ cur \in [Protocols -> Nat] /\ own \in [Protocols -> Nat]
      /\ pc \in [Protocols -> TaskStates] /\ runner \in [Id -> RunnerStates]
      /\ Len(log) \in Nat /\ Len(log) <= MaxCommands
  BY DEF IInv, TypeOK
<1>3. i \in Id /\ i \in Nat /\ i # 0 /\ i <= Len(log)
  BY <1>1, <1>2, BoundsAssumption DEF Id
<1>4. runner[i] = "none"
  BY <1>1, <1>2, <1>3 DEF IInv, ServerOK
<1>5. /\ inbox[i] = <<>>
      /\ sock[i] \notin {"binding", "open"}
      /\ stopped[i] # "err"
  BY <1>3, <1>4 DEF IInv, ServerOK, RxOpen
<1>6. ASSUME NEW q \in Protocols PROVE TaskOK(q)'
  <2>1. CASE q = p
    BY <1>1, <1>2, <1>3, <1>5, <2>1 DEF TaskOK, Protocol
  <2>2. CASE q # p
    <3>1. TaskOK(q)
      BY DEF IInv
    <3>2. own[q] # i
      BY <3>1, <1>3, <1>4 DEF TaskOK
    <3>3. /\ cur'[q] = cur[q] /\ pc'[q] = pc[q] /\ own'[q] = own[q]
          /\ runner'[own[q]] = runner[own[q]]
      BY <1>1, <1>2, <2>2, <3>2
    <3> QED BY <1>1, <3>1, <3>3 DEF TaskOK, Protocol
  <2> QED BY <2>1, <2>2
<1>7. ASSUME NEW j \in Id PROVE ServerOK(j)'
  <2>1. CASE j = i
    BY <1>1, <1>2, <1>3, <1>5, <2>1 DEF ServerOK, RxOpen, Protocol
  <2>2. CASE j # i
    <3>1. ServerOK(j) /\ runner'[j] = runner[j]
      BY <1>1, <1>2, <2>2 DEF IInv
    <3>2. CASE runner[j] = "none"
      BY <1>1, <3>1, <3>2 DEF ServerOK, RxOpen, Protocol
    <3>3. CASE runner[j] # "none"
      <4>1. j <= Len(log) /\ j <= cur[Protocol(j)]
        BY <3>1, <3>3 DEF ServerOK
      <4>2. Protocol(j) \in Protocols /\ Protocol(j)' = Protocol(j)
        BY <1>1, <4>1, LogEntry DEF IInv, Protocol
      <4>3. j <= cur'[Protocol(j)]
        BY <1>1, <1>2, <4>1, <4>2 DEF Id
      <4> QED BY <1>1, <3>1, <4>1, <4>2, <4>3 DEF ServerOK, RxOpen
    <3> QED BY <3>2, <3>3
  <2> QED BY <2>1, <2>2
<1> QED BY <1>6, <1>7 DEF IInv

(* A task that is in a session sends to its own runner only, if it is       *)
(* there, and may note how a stop ended; the rest is left to TaskOK(p).     *)
LEMMA SessionStepInv ==
    ASSUME IInv, TypeOK', NEW p \in Protocols, own[p] # 0,
           UNCHANGED <<log, runner, sock>>,
           cur'[p] >= cur[p],
           \A q \in Protocols \ {p} : /\ cur'[q] = cur[q]
                                      /\ pc'[q] = pc[q]
                                      /\ own'[q] = own[q],
           \A j \in Id \ {own[p]} : inbox'[j] = inbox[j] /\ stopped'[j] = stopped[j],
           RxOpen(own[p]) \/ inbox'[own[p]] = inbox[own[p]],
           ~RxOpen(own[p]) \/ stopped'[own[p]] # "err",
           TaskOK(p)'
    PROVE  IInv'
<1>1. /\ own \in [Protocols -> Nat] /\ cur \in [Protocols -> Nat]
      /\ cur' \in [Protocols -> Nat] /\ own[p] \in Id
  BY DEF IInv, TypeOK, Id
<1>2. TaskOK(p)
  BY DEF IInv
<1>3. ASSUME NEW q \in Protocols, q # p PROVE TaskOK(q)'
  <2>1. TaskOK(q)
    BY DEF IInv
  <2>2. own[q] # 0 => own[q] # own[p] /\ own[q] \in Id
    BY <1>2, <1>3, <2>1 DEF TaskOK, IInv, TypeOK, Id
  <2>3. own[q] # 0 => inbox'[own[q]] = inbox[own[q]]
    BY <2>2
  <2> QED BY <1>3, <2>1, <2>3 DEF TaskOK, Protocol
<1>4. ASSUME NEW j \in Id PROVE ServerOK(j)'
  <2>1. ServerOK(j) /\ runner[j] \in RunnerStates
    BY DEF IInv, TypeOK
  <2>2. \A q \in Protocols : cur[q] <= cur'[q]
    <3>1. \A q \in Protocols : q = p \/ cur'[q] = cur[q]
      OBVIOUS
    <3> QED BY <1>1, <3>1
  <2>3. runner[j] # "none" => j <= Len(log) /\ j <= cur'[Protocol(j)]
    <3>1. SUFFICES ASSUME runner[j] # "none"
                   PROVE  j <= Len(log) /\ j <= cur'[Protocol(j)]
      OBVIOUS
    <3>2. j <= Len(log) /\ j <= cur[Protocol(j)]
      BY <2>1, <3>1 DEF ServerOK
    <3>3. Protocol(j) \in Protocols
      BY <3>2, LogEntry DEF IInv
    <3> QED BY <1>1, <2>2, <3>2, <3>3 DEF Id
  <2>4. Protocol(j)' = Protocol(j) /\ (RxOpen(j)' <=> RxOpen(j))
    BY DEF Protocol, RxOpen
  <2>5. CASE j = own[p]
    <3>1. runner[j] # "none"
      BY <1>2, <2>5 DEF TaskOK
    <3>2. stopped'[j] = "err" => runner[j] \in {"draining", "ended"}
      BY <2>1, <2>5, <3>1 DEF RxOpen, RunnerStates
    <3> QED BY <2>1, <2>3, <2>4, <2>5, <3>2 DEF ServerOK
  <2>6. CASE j # own[p]
    BY <2>1, <2>3, <2>4, <2>6 DEF ServerOK
  <2> QED BY <2>5, <2>6
<1> QED BY <1>3, <1>4 DEF IInv

(* Server::start finds an idle runner with an empty inbox. *)
LEMMA StartInv ==
    ASSUME IInv, TypeOK', NEW p \in Protocols, StartServer(p)
    PROVE  IInv'
<1>1. TaskOK(p) /\ pc[p] = "settle"
  BY DEF IInv, StartServer
<1>2. own[p] # 0 /\ RxOpen(own[p]) /\ own[p] = cur[p]
  BY <1>1 DEF TaskOK, RxOpen
<1>3. /\ UNCHANGED <<log, cur, own, runner, sock, stopped>>
      /\ inbox' = [inbox EXCEPT ![own[p]] = Append(@, TRUE)]
      /\ pc' = [pc EXCEPT ![p] = "serving"]
  BY <1>2, Zenon DEF StartServer, SendTo
<1>4. /\ cur \in [Protocols -> Nat] /\ pc \in [Protocols -> TaskStates]
      /\ own \in [Protocols -> Nat] /\ own[p] \in Id
      /\ inbox \in [Id -> Seq(BOOLEAN)]
  BY <1>2 DEF IInv, TypeOK, Id
<1>5. /\ \A j \in Id \ {own[p]} : inbox'[j] = inbox[j] /\ stopped'[j] = stopped[j]
      /\ cur'[p] >= cur[p]
  BY <1>3, <1>4
<1>6. stopped'[own[p]] # "err"
  BY <1>2, <1>3, <1>4 DEF IInv, ServerOK, RxOpen
<1>7. TaskOK(p)'
  BY <1>1, <1>2, <1>3, <1>4 DEF TaskOK, Protocol
<1>8. \A q \in Protocols \ {p} : cur'[q] = cur[q] /\ pc'[q] = pc[q] /\ own'[q] = own[q]
  BY <1>3, <1>4
<1> QED BY <1>2, <1>3, <1>5, <1>6, <1>7, <1>8, SessionStepInv

(* The first message of Server::stop, or its error. *)
LEMMA StopInv ==
    ASSUME IInv, TypeOK', NEW p \in Protocols, RecvAnyStop(p)
    PROVE  IInv'
<1>1. TaskOK(p) /\ pc[p] = "serving" /\ cur[p] < Len(log)
  BY DEF IInv, RecvAnyStop, Unread
<1>2. own[p] # 0
  BY <1>1 DEF TaskOK
<1>3. /\ cur \in [Protocols -> Nat] /\ pc \in [Protocols -> TaskStates]
      /\ own \in [Protocols -> Nat] /\ Len(log) \in Nat /\ own[p] \in Id
      /\ inbox \in [Id -> Seq(BOOLEAN)] /\ stopped \in [Id -> {"none", "ok", "err"}]
  BY <1>2 DEF IInv, TypeOK, Id
<1>4. /\ UNCHANGED <<log, runner, sock>>
      /\ cur' = [cur EXCEPT ![p] = IF Lagging(p) THEN Len(log) - CommandCap ELSE @ + 1]
  BY DEF RecvAnyStop
<1>5. cur'[p] >= cur[p] /\ cur'[p] <= Len(log)
  BY <1>1, <1>3, <1>4, BoundsAssumption DEF Lagging
<1>6. CASE RxOpen(own[p])
  <2>1. /\ inbox' = [inbox EXCEPT ![own[p]] = Append(@, FALSE)]
        /\ pc' = [pc EXCEPT ![p] = "stopping"] /\ UNCHANGED <<own, stopped>>
    BY <1>6, Zenon DEF RecvAnyStop, SendTo
  <2>2. stopped[own[p]] # "err"
    BY <1>3, <1>6 DEF IInv, ServerOK, RxOpen
  <2>3. TaskOK(p)'
    BY <1>1, <1>2, <1>3, <1>4, <1>5, <2>1 DEF TaskOK, Protocol
  <2>4. \A j \in Id \ {own[p]} : inbox'[j] = inbox[j] /\ stopped'[j] = stopped[j]
    BY <1>3, <2>1
  <2> QED BY <1>2, <1>3, <1>4, <1>5, <1>6, <2>1, <2>2, <2>3, <2>4, SessionStepInv
<1>7. CASE ~RxOpen(own[p])
  <2>1. /\ UNCHANGED inbox /\ pc' = [pc EXCEPT ![p] = "listen"]
        /\ own' = [own EXCEPT ![p] = 0]
        /\ stopped' = [stopped EXCEPT ![own[p]] = "err"]
    BY <1>7, Zenon DEF RecvAnyStop
  <2>2. TaskOK(p)'
    BY <1>1, <1>2, <1>3, <1>4, <1>5, <2>1 DEF TaskOK, Protocol
  <2>3. \A j \in Id \ {own[p]} : inbox'[j] = inbox[j] /\ stopped'[j] = stopped[j]
    BY <1>3, <2>1
  <2> QED BY <1>2, <1>3, <1>4, <1>5, <1>7, <2>1, <2>2, <2>3, SessionStepInv
<1> QED BY <1>6, <1>7

(* The second message of Server::stop; the task lets go of the server. *)
LEMMA SecondStopInv ==
    ASSUME IInv, TypeOK', NEW p \in Protocols, SendSecondStop(p)
    PROVE  IInv'
<1>1. TaskOK(p) /\ pc[p] = "stopping"
  BY DEF IInv, SendSecondStop
<1>2. own[p] # 0
  BY <1>1 DEF TaskOK
<1>3. /\ cur \in [Protocols -> Nat] /\ pc \in [Protocols -> TaskStates]
      /\ own \in [Protocols -> Nat] /\ own[p] \in Id
      /\ inbox \in [Id -> Seq(BOOLEAN)] /\ stopped \in [Id -> {"none", "ok", "err"}]
  BY <1>2 DEF IInv, TypeOK, Id
<1>4. /\ UNCHANGED <<log, cur, runner, sock>>
      /\ pc' = [pc EXCEPT ![p] = "listen"] /\ own' = [own EXCEPT ![p] = 0]
  BY DEF SendSecondStop
<1>5. TaskOK(p)'
  BY <1>1, <1>3, <1>4 DEF TaskOK
<1>6. CASE RxOpen(own[p])
  <2>1. /\ inbox' = [inbox EXCEPT ![own[p]] = Append(@, FALSE)]
        /\ stopped' = [stopped EXCEPT ![own[p]] = "ok"]
    BY <1>6, Zenon DEF SendSecondStop, SendTo
  <2>2. /\ \A j \in Id \ {own[p]} : inbox'[j] = inbox[j] /\ stopped'[j] = stopped[j]
        /\ stopped'[own[p]] # "err"
    BY <1>3, <2>1
  <2> QED BY <1>2, <1>3, <1>4, <1>5, <1>6, <2>2, SessionStepInv
<1>7. CASE ~RxOpen(own[p])
  <2>1. UNCHANGED inbox /\ stopped' = [stopped EXCEPT ![own[p]] = "err"]
    BY <1>7, Zenon DEF SendSecondStop
  <2>2. \A j \in Id \ {own[p]} : inbox'[j] = inbox[j] /\ stopped'[j] = stopped[j]
    BY <1>3, <2>1
  <2> QED BY <1>2, <1>3, <1>4, <1>5, <1>7, <2>1, <2>2, SessionStepInv
<1> QED BY <1>6, <1>7

(* The steps of a server.  Each changes only what is indexed by i. *)
LEMMA RunnerIdleInv ==
    ASSUME IInv, TypeOK', NEW i \in Id, RunnerIdle(i)
    PROVE  IInv'
<1>1. /\ UNCHANGED <<log, cur, pc, own, stopped>>
      /\ runner[i] = "idle" /\ Wakes(i)
  BY DEF RunnerIdle, taskVars
<1>2. /\ inbox \in [Id -> Seq(BOOLEAN)] /\ runner \in [Id -> RunnerStates]
      /\ sock \in [Id -> SockStates]
  BY DEF IInv, TypeOK
<1>3. ServerOK(i)
  BY DEF IInv
<1>4. ASSUME NEW p \in Protocols, pc[p] = "settle" PROVE own[p] # i
  <2>1. TaskOK(p)
    BY DEF IInv
  <2> QED BY <1>1, <1>4, <2>1 DEF TaskOK, Wakes, Held
<1>5. /\ \E box \in {inbox[i], <<>>, Tail(inbox[i])} :
            inbox' = [inbox EXCEPT ![i] = box]
      /\ \E r \in {"idle", "ended", "serving", "blocked"} :
            runner' = [runner EXCEPT ![i] = r]
      /\ \E k \in SockStates : sock' = [sock EXCEPT ![i] = k]
  <2>1. /\ inbox = [inbox EXCEPT ![i] = inbox[i]]
        /\ runner = [runner EXCEPT ![i] = "idle"]
        /\ sock = [sock EXCEPT ![i] = sock[i]] /\ sock[i] \in SockStates
    BY <1>1, <1>2
  <2> QED BY <2>1, Zenon DEF RunnerIdle, SockStates
<1>6. ServerOK(i)'
  <2>1. Protocol(i)' = Protocol(i) /\ sock[i] \notin {"binding", "open"} /\ stopped[i] # "err"
    BY <1>1, <1>3 DEF ServerOK, Protocol
  <2>2. CASE inbox[i] = <<>>
    BY <1>1, <1>2, <1>3, <2>1, <2>2 DEF RunnerIdle, ServerOK, RxOpen
  <2>3. CASE inbox[i] # <<>> /\ ~Head(inbox[i])
    BY <1>1, <1>2, <1>3, <2>1, <2>3 DEF RunnerIdle, ServerOK, RxOpen
  <2>4. CASE inbox[i] # <<>> /\ Head(inbox[i]) /\ Protocol(i) # "dhcp"
    BY <1>1, <1>2, <1>3, <2>1, <2>4 DEF RunnerIdle, ServerOK, RxOpen
  <2>5. CASE inbox[i] # <<>> /\ Head(inbox[i]) /\ Protocol(i) = "dhcp" /\ Bindable(i)
    BY <1>1, <1>2, <1>3, <2>1, <2>5 DEF RunnerIdle, ServerOK, RxOpen
  <2>6. CASE inbox[i] # <<>> /\ Head(inbox[i]) /\ Protocol(i) = "dhcp" /\ ~Bindable(i)
    BY <1>1, <1>2, <1>3, <2>1, <2>6 DEF RunnerIdle, ServerOK, RxOpen
  <2> QED BY <2>2, <2>3, <2>4, <2>5, <2>6
<1>7. /\ \A j \in Id \ {i} : /\ runner'[j] = runner[j]
                             /\ inbox'[j] = inbox[j]
                             /\ sock'[j] = sock[j]
      /\ runner'[i] # "none"
  BY <1>2, <1>5
<1> QED BY <1>1, <1>4, <1>6, <1>7, ServerStepInv

(* Stopping an HTTP or TFTP runner aborts its listener with it. *)
LEMMA RecvStopInv ==
    ASSUME IInv, TypeOK', NEW i \in Id, RecvStop(i) \/ FtpShutdown(i)
    PROVE  IInv'
<1>1. /\ UNCHANGED <<log, cur, pc, own, stopped>>
      /\ runner[i] = "serving"
      /\ inbox' = [inbox EXCEPT ![i] = <<>>]
      /\ \E r \in {"ended", "draining"} : runner' = [runner EXCEPT ![i] = r]
      /\ \E k \in SockStates : sock' = [sock EXCEPT ![i] = k]
  BY DEF RecvStop, FtpShutdown, taskVars, SockStates
<1>2. /\ inbox \in [Id -> Seq(BOOLEAN)] /\ runner \in [Id -> RunnerStates]
      /\ sock \in [Id -> SockStates] /\ ServerOK(i)
  BY DEF IInv, TypeOK
<1>3. sock'[i] \notin {"binding", "open"}
  BY <1>2 DEF RecvStop, FtpShutdown
<1>4. ASSUME NEW p \in Protocols, pc[p] = "settle" PROVE own[p] # i
  <2>1. TaskOK(p)
    BY DEF IInv
  <2> QED BY <1>1, <1>4, <2>1 DEF TaskOK
<1>5. ServerOK(i)'
  BY <1>1, <1>2, <1>3 DEF ServerOK, Protocol
<1>6. /\ \A j \in Id \ {i} : /\ runner'[j] = runner[j]
                             /\ inbox'[j] = inbox[j]
                             /\ sock'[j] = sock[j]
      /\ runner'[i] # "none"
  BY <1>1, <1>2
<1> QED BY <1>1, <1>4, <1>5, <1>6, ServerStepInv

(* A listener binds, or fails to and takes the FTP runner with it. *)
LEMMA BindInv ==
    ASSUME IInv, TypeOK', NEW i \in Id, BindSocket(i)
    PROVE  IInv'
<1>1. UNCHANGED <<log, cur, pc, own, stopped>> /\ sock[i] = "binding"
  BY DEF BindSocket, taskVars
<1>2. /\ inbox \in [Id -> Seq(BOOLEAN)] /\ runner \in [Id -> RunnerStates]
      /\ sock \in [Id -> SockStates] /\ ServerOK(i)
  BY DEF IInv, TypeOK
<1>3. Protocol(i)' = Protocol(i) /\ runner[i] \in {"blocked", "serving"}
  BY <1>1, <1>2 DEF ServerOK, Protocol
<1>4. ASSUME NEW p \in Protocols, pc[p] = "settle" PROVE own[p] # i
  <2>1. TaskOK(p)
    BY DEF IInv
  <2> QED BY <1>3, <1>4, <2>1 DEF TaskOK
<1>5. CASE Protocol(i) = "ftp" /\ ~Bindable(i)
  <2>1. /\ runner' = [runner EXCEPT ![i] = "ended"] /\ inbox' = [inbox EXCEPT ![i] = <<>>]
        /\ sock' = [sock EXCEPT ![i] = "failed"]
    BY <1>5, Zenon DEF BindSocket
  <2>2. ServerOK(i)'
    BY <1>1, <1>2, <1>3, <2>1 DEF ServerOK, Protocol
  <2>3. /\ \A j \in Id \ {i} : /\ runner'[j] = runner[j]
                               /\ inbox'[j] = inbox[j]
                               /\ sock'[j] = sock[j]
        /\ runner'[i] # "none"
    BY <1>2, <2>1
  <2> QED BY <1>1, <1>4, <2>2, <2>3, ServerStepInv
<1>6. CASE ~(Protocol(i) = "ftp" /\ ~Bindable(i))
  <2>1. /\ UNCHANGED <<runner, inbox>>
        /\ \E k \in {"open", "failed"} : sock' = [sock EXCEPT ![i] = k]
    BY <1>6, Zenon DEF BindSocket
  <2>2. ServerOK(i)'
    BY <1>1, <1>2, <1>3, <2>1 DEF ServerOK, RxOpen
  <2>3. /\ \A j \in Id \ {i} : /\ runner'[j] = runner[j]
                               /\ inbox'[j] = inbox[j]
                               /\ sock'[j] = sock[j]
        /\ runner'[i] # "none"
    BY <1>2, <1>3, <2>1
  <2> QED BY <1>1, <1>4, <2>2, <2>3, ServerStepInv
<1> QED BY <1>5, <1>6

(* The serving task of a listener ends and the runner does not notice. *)
LEMMA ListenerEndsInv ==
    ASSUME IInv, TypeOK', NEW i \in Id, DropAborted(i) \/ TftpServeFails(i)
    PROVE  IInv'
<1>1. /\ UNCHANGED <<log, cur, pc, own, stopped, runner, inbox>>
      /\ sock[i] \in {"aborting", "open"}
      /\ \E k \in {"closed", "failed"} : sock' = [sock EXCEPT ![i] = k]
  BY DEF DropAborted, TftpServeFails, taskVars
<1>2. /\ sock \in [Id -> SockStates] /\ ServerOK(i)
      /\ \A p \in Protocols : TaskOK(p)
  BY DEF IInv, TypeOK
<1>3. ServerOK(i)'
  BY <1>1, <1>2 DEF ServerOK, RxOpen, Protocol
<1>4. ASSUME NEW p \in Protocols PROVE TaskOK(p)'
  BY <1>1, <1>2 DEF TaskOK, Protocol
<1>5. ASSUME NEW j \in Id, j # i PROVE ServerOK(j)'
  <2>1. ServerOK(j) /\ sock'[j] = sock[j]
    BY <1>1, <1>2, <1>5 DEF IInv
  <2> QED BY <1>1, <2>1 DEF ServerOK, RxOpen, Protocol
<1> QED BY <1>3, <1>4, <1>5 DEF IInv

(* A runner ends that no longer listens for messages. *)
LEMMA RunnerEndsInv ==
    ASSUME IInv, TypeOK', NEW i \in Id, FtpDrained(i) \/ DhcpSocketError(i)
    PROVE  IInv'
<1>1. /\ UNCHANGED <<log, cur, pc, own, stopped>>
      /\ runner[i] \in {"draining", "blocked"}
      /\ runner' = [runner EXCEPT ![i] = "ended"]
      /\ \/ UNCHANGED <<inbox, sock>> /\ runner[i] = "draining"
         \/ inbox' = [inbox EXCEPT ![i] = <<>>] /\ sock' = [sock EXCEPT ![i] = "closed"]
  BY DEF FtpDrained, DhcpSocketError, taskVars
<1>2. /\ inbox \in [Id -> Seq(BOOLEAN)] /\ runner \in [Id -> RunnerStates]
      /\ sock \in [Id -> SockStates] /\ ServerOK(i)
  BY DEF IInv, TypeOK
<1>3. ServerOK(i)'
  BY <1>1, <1>2 DEF ServerOK, RxOpen, Protocol
<1>4. ASSUME NEW p \in Protocols, pc[p] = "settle" PROVE own[p] # i
  <2>1. TaskOK(p)
    BY DEF IInv
  <2> QED BY <1>1, <1>4, <2>1 DEF TaskOK
<1>5. /\ \A j \in Id \ {i} : /\ runner'[j] = runner[j]
                             /\ inbox'[j] = inbox[j]
                             /\ sock'[j] = sock[j]
      /\ runner'[i] # "none"
  BY <1>1, <1>2
<1> QED BY <1>1, <1>3, <1>4, <1>5, ServerStepInv

(* Every action preserves the inductive invariant. *)
LEMMA StepInv == IInv /\ [Next]_vars => IInv'
<1> SUFFICES ASSUME IInv, [Next]_vars PROVE IInv'
  OBVIOUS
<1>1. TypeOK'
  BY StepType DEF IInv
<1>2. ASSUME NEW m \in CommandMsg, Command(m) PROVE IInv'
  BY <1>1, <1>2, CommandInv
<1>3. ASSUME NEW p \in Protocols, TaskStep(p) PROVE IInv'
  BY <1>1, <1>3, DieInv, PassInv, CreateInv, StartInv, StopInv, SecondStopInv
     DEF TaskStep, RecvLagged
<1>4. ASSUME NEW i \in Id, RunnerStep(i) \/ ListenerStep(i) \/ Failure(i) PROVE IInv'
  BY <1>1, <1>4, RunnerIdleInv, RecvStopInv, BindInv, ListenerEndsInv, RunnerEndsInv
     DEF RunnerStep, ListenerStep, Failure
<1>5. CASE Exit
  BY <1>1, <1>5, DieInv DEF Exit
<1>6. CASE UNCHANGED vars
  <2>1. ASSUME NEW p \in Protocols PROVE TaskOK(p)'
    BY <1>6 DEF IInv, TaskOK, Protocol, vars
  <2>2. ASSUME NEW i \in Id PROVE ServerOK(i)'
    BY <1>6 DEF IInv, ServerOK, RxOpen, Protocol, vars
  <2> QED BY <1>1, <2>1, <2>2 DEF IInv
<1> QED BY <1>2, <1>3, <1>4, <1>5, <1>6 DEF Next, Internal

(* The inductive invariant holds in every reachable state. *)
LEMMA Invariance == Spec => []IInv
BY InitInv, StepInv, PTL DEF Spec

-----------------------------------------------------------------------------
(* What the invariant gives. *)

(* Server::start always finds the runner it is meant for, idle and with an  *)
(* empty channel (server.rs:174-181).                                       *)
THEOREM StartFindsRunner == Spec => []StartReachesRunner
<1>1. IInv => StartReachesRunner
  BY DEF IInv, TaskOK, StartReachesRunner
<1> QED BY <1>1, Invariance, PTL

(* At rest, a listener that is not DHCP's belongs to a task in a session.  *)
LEMMA OpenIsHeld ==
    ASSUME IInv, Quiescent, NEW i \in Id, sock[i] = "open", Protocol(i) # "dhcp"
    PROVE  Held(i) /\ i # 0
<1>1. runner[i] = "serving" /\ i # 0
  BY DEF IInv, ServerOK, Id
<1> QED
  BY <1>1 DEF Quiescent, Wakes

LEMMA OnlyLast == IInv => OnlyLastCommandListens
<1> SUFFICES ASSUME IInv, Quiescent, NEW i \in Id, sock[i] = "open", Protocol(i) # "dhcp"
             PROVE  i = Len(log)
  BY DEF OnlyLastCommandListens
<1>1. i # 0 /\ runner[i] = "serving"
  BY OpenIsHeld DEF IInv, ServerOK
<1>2. PICK p \in Protocols : own[p] = i
  BY OpenIsHeld DEF Held
<1>3. TaskOK(p) /\ cur[p] \in Nat /\ Len(log) \in Nat
  BY DEF IInv, TypeOK
<1>4. pc[p] = "serving" /\ own[p] = cur[p]
  BY <1>1, <1>2, <1>3 DEF TaskOK, Quiescent
<1>5. cur[p] = Len(log)
  BY <1>3 DEF TaskOK, Quiescent, Unread
<1> QED
  BY <1>2, <1>4, <1>5

(* Whatever happened before, a system at rest listens for the last command  *)
(* only (server.rs:185, http.rs:233-247, tftp.rs:84-98, ftp.rs:62-79).      *)
THEOREM OnlyLastListens == Spec => []OnlyLastCommandListens
BY OnlyLast, Invariance, PTL

(* When Server::stop returns an error there was nothing left to stop        *)
(* (server.rs:102-121).                                                     *)
THEOREM FailedStopIsHarmless == Spec => []FailedStopLeavesNothing
<1>1. IInv => FailedStopLeavesNothing
  <2> SUFFICES ASSUME IInv, NEW i \in Id, stopped[i] = "err"
               PROVE  ~RxOpen(i) /\ sock[i] \notin {"binding", "open"}
    BY DEF FailedStopLeavesNothing
  <2>1. ServerOK(i)
    BY DEF IInv
  <2> QED BY <2>1 DEF ServerOK, RxOpen
<1> QED BY <1>1, Invariance, PTL

(* No two protocol tasks are ever in charge of one server.                  *)
THEOREM ServersNotShared ==
    Spec => [](\A p, q \in Protocols : own[p] = own[q] /\ own[p] # 0 => p = q)
<1>1. IInv => \A p, q \in Protocols : own[p] = own[q] /\ own[p] # 0 => p = q
  BY DEF IInv, TaskOK
<1> QED BY <1>1, Invariance, PTL

-----------------------------------------------------------------------------
(* Sessions, for the front ends: what becomes of a start command that is   *)
(* never followed or preceded by another start of the same protocol.       *)

Opens(p, k) == log[k].protocol = p /\ log[k].start /\ log[k].valid

(* Two commands in a row never start the same protocol.                    *)
Alternating ==
    \A k \in 1 .. Len(log) - 1 :
       log[k].protocol = log[k + 1].protocol /\ log[k].start => ~log[k + 1].start

OwnStarts == \A p \in Protocols : own[p] # 0 => Opens(p, own[p])

(* A task that has read the last command, a start of its own, is in the    *)
(* session that this command opened.                                       *)
LastRead(p) ==
    cur[p] # 0 /\ cur[p] = Len(log) /\ Opens(p, cur[p]) => pc[p] \in {"settle", "serving", "dead"}

SessionOK == OwnStarts /\ \A p \in Protocols : LastRead(p)

LEMMA SessionInit == Init => SessionOK
BY DEF Init, SessionOK, OwnStarts, LastRead

(* A new command is nobody's yet.                                          *)
LEMMA SessionSend ==
    ASSUME IInv, SessionOK, NEW m \in CommandMsg, log' = Append(log, m), UNCHANGED taskVars
    PROVE  SessionOK'
<1>1. log \in Seq(CommandMsg) /\ Len(log') = Len(log) + 1 /\ Len(log) \in Nat
  BY DEF IInv, TypeOK
<1>2. \A k \in 1 .. Len(log) : log'[k] = log[k]
  BY <1>1
<1>3. ASSUME NEW p \in Protocols
      PROVE  cur[p] \in Nat /\ cur[p] <= Len(log) /\ own[p] \in Nat /\ own[p] <= cur[p]
  BY <1>3 DEF IInv, TypeOK, TaskOK
<1>4. ASSUME NEW p \in Protocols, own'[p] # 0 PROVE Opens(p, own[p])'
  <2>1. own'[p] = own[p] /\ own[p] \in 1 .. Len(log)
    BY <1>1, <1>3, <1>4 DEF taskVars
  <2> QED
    BY <1>2, <1>4, <2>1 DEF SessionOK, OwnStarts, Opens
<1>5. ASSUME NEW p \in Protocols PROVE cur'[p] # Len(log')
  BY <1>1, <1>3 DEF taskVars
<1> QED
  BY <1>4, <1>5 DEF SessionOK, OwnStarts, LastRead

(* A step of one task that leaves the channel alone concerns that task.    *)
LEMMA SessionTask ==
    ASSUME IInv, SessionOK, NEW p \in Protocols, log' = log,
           \A q \in Protocols \ {p} : cur'[q] = cur[q] /\ pc'[q] = pc[q] /\ own'[q] = own[q],
           own'[p] # 0 => Opens(p, own'[p]),
           cur'[p] # 0 /\ cur'[p] = Len(log) /\ Opens(p, cur'[p]) =>
              pc'[p] \in {"settle", "serving", "dead"}
    PROVE  SessionOK'
<1>1. ASSUME NEW q \in Protocols, own'[q] # 0 PROVE Opens(q, own[q])'
  BY <1>1 DEF SessionOK, OwnStarts, Opens
<1>2. ASSUME NEW q \in Protocols PROVE LastRead(q)'
  BY DEF SessionOK, LastRead, Opens
<1> QED
  BY <1>1, <1>2 DEF SessionOK, OwnStarts

(* Only front ends send.                                                   *)
LEMMA InternalSendsNothing == Internal => log' = log
BY DEF Internal, Exit, Die, TaskStep, RecvLagged, SkipCommand, RejectCommand, CreateServer,
       StartServer, RecvAnyStop, SendSecondStop, RunnerStep, ListenerStep, Failure, RunnerIdle,
       RecvStop, FtpShutdown, FtpDrained, BindSocket, DropAborted, TftpServeFails, DhcpSocketError

(* A task takes the last command for a stop only if that command opens no  *)
(* server of its protocol, since the one before it did.                    *)
LEMMA SessionInternal ==
    ASSUME IInv, SessionOK, Alternating, Internal
    PROVE  SessionOK'
<1> USE DEF Recv, Unread, Lagging, NextCommand, Opens
<1>0. /\ log \in Seq(CommandMsg) /\ Len(log) \in Nat
      /\ cur \in [Protocols -> 0 .. MaxCommands]
      /\ pc \in [Protocols -> TaskStates] /\ own \in [Protocols -> 0 .. MaxCommands]
  BY DEF IInv, TypeOK
<1>1. CASE Exit
  BY <1>1 DEF Exit, Die, SessionOK, OwnStarts, LastRead
<1>2. ASSUME NEW i \in Id, RunnerStep(i) \/ ListenerStep(i) \/ Failure(i) PROVE SessionOK'
  <2>1. UNCHANGED <<log, taskVars>>
    BY <1>2 DEF RunnerStep, ListenerStep, Failure, RunnerIdle, RecvStop, FtpShutdown, FtpDrained,
                BindSocket, DropAborted, TftpServeFails, DhcpSocketError
  <2> QED
    BY <2>1 DEF taskVars, SessionOK, OwnStarts, LastRead
<1>3. ASSUME NEW p \in Protocols, TaskStep(p) PROVE SessionOK'
  <2>0. /\ TaskOK(p) /\ LastRead(p) /\ (own[p] # 0 => Opens(p, own[p]))
        /\ cur[p] \in Nat /\ own[p] \in Nat
    BY <1>0, <1>3 DEF IInv, SessionOK, OwnStarts
  <2>1. CASE RecvLagged(p)
    BY <2>1 DEF RecvLagged, Die, SessionOK, OwnStarts, LastRead
  <2>2. CASE SkipCommand(p)
    <3>1. cur'[p] = cur[p] + 1 /\ log' = log /\ pc' = pc /\ own' = own
      BY <1>0, <2>2 DEF SkipCommand
    <3>2. ~Opens(p, cur[p] + 1)
      BY <2>2 DEF SkipCommand
    <3> QED
      BY <1>0, <2>0, <2>2, <3>1, <3>2, SessionTask DEF SkipCommand
  <2>3. CASE RejectCommand(p)
    <3>1. cur'[p] = cur[p] + 1 /\ log' = log /\ pc' = pc /\ own' = own
      BY <1>0, <2>3 DEF RejectCommand
    <3>2. ~Opens(p, cur[p] + 1)
      BY <2>3 DEF RejectCommand
    <3> QED
      BY <1>0, <2>0, <2>3, <3>1, <3>2, SessionTask DEF RejectCommand
  <2>4. CASE CreateServer(p)
    <3>1. cur'[p] = cur[p] + 1 /\ own'[p] = cur[p] + 1 /\ pc'[p] = "settle" /\ log' = log
      BY <1>0, <2>4 DEF CreateServer
    <3>2. Opens(p, cur[p] + 1)
      BY <2>4 DEF CreateServer
    <3> QED
      BY <1>0, <2>4, <3>1, <3>2, SessionTask DEF CreateServer
  <2>5. CASE StartServer(p)
    <3>1. RxOpen(own[p])
      BY <2>0, <2>5 DEF StartServer, TaskOK, RxOpen
    <3>2. pc' = [pc EXCEPT ![p] = "serving"] /\ cur' = cur /\ own' = own /\ log' = log
      BY <2>5, <3>1 DEF StartServer
    <3> QED
      BY <1>0, <2>0, <3>2, SessionTask
  <2>6. CASE RecvAnyStop(p)
    <3>1. own[p] = cur[p] /\ own[p] # 0 /\ Opens(p, cur[p]) /\ cur[p] < Len(log)
      BY <2>0, <2>6 DEF RecvAnyStop, TaskOK
    <3>2. /\ log' = log
          /\ cur' = [cur EXCEPT ![p] = IF Lagging(p) THEN Len(log) - CommandCap ELSE @ + 1]
      BY <2>6 DEF RecvAnyStop
    <3>3. own' = own \/ own' = [own EXCEPT ![p] = 0]
      BY <2>6, Zenon DEF RecvAnyStop
    <3>4. pc' = [pc EXCEPT ![p] = "stopping"] \/ pc' = [pc EXCEPT ![p] = "listen"]
      BY <2>6, Zenon DEF RecvAnyStop
    <3>5. ~(cur'[p] = Len(log) /\ Opens(p, cur'[p]))
      <4>1. CASE Lagging(p)
        BY <1>0, <3>2, <4>1, BoundsAssumption
      <4>2. CASE ~Lagging(p)
        <5>1. cur'[p] = cur[p] + 1 /\ cur[p] \in 1 .. Len(log) - 1
          BY <1>0, <2>0, <3>1, <3>2, <4>2
        <5>2. ~Opens(p, cur[p] + 1)
          BY <3>1, <5>1 DEF Alternating
        <5> QED
          BY <5>1, <5>2
      <4> QED
        BY <4>1, <4>2
    <3>6. own'[p] # 0 => Opens(p, own'[p])
      BY <1>0, <3>1, <3>3
    <3>7. \A q \in Protocols \ {p} : cur'[q] = cur[q] /\ pc'[q] = pc[q] /\ own'[q] = own[q]
      BY <1>0, <3>2, <3>3, <3>4
    <3> QED
      BY <3>2, <3>5, <3>6, <3>7, SessionTask
  <2>7. CASE SendSecondStop(p)
    <3>1. /\ pc[p] = "stopping" /\ pc' = [pc EXCEPT ![p] = "listen"]
          /\ own' = [own EXCEPT ![p] = 0] /\ cur' = cur /\ log' = log
      BY <2>7 DEF SendSecondStop
    <3>2. ~(cur[p] # 0 /\ cur[p] = Len(log) /\ Opens(p, cur[p]))
      BY <2>0, <3>1 DEF LastRead
    <3> QED
      BY <1>0, <2>0, <3>1, <3>2, SessionTask
  <2> QED
    BY <1>3, <2>1, <2>2, <2>3, <2>4, <2>5, <2>6, <2>7 DEF TaskStep
<1> QED
  BY <1>1, <1>2, <1>3 DEF Internal

(* At rest, a last command that opens a server has it.                     *)
LEMMA LastIsServed ==
    ASSUME IInv, SessionOK, Quiescent, log # <<>>,
           log[Len(log)].start, log[Len(log)].valid
    PROVE  own[Protocol(Len(log))] = Len(log)
<1> DEFINE p == Protocol(Len(log))
<1>1. log \in Seq(CommandMsg) /\ Len(log) \in Nat \ {0} /\ p \in Protocols
  <2>1. log \in Seq(CommandMsg) /\ Len(log) \in Nat \ {0}
    BY DEF IInv, TypeOK
  <2>2. log[Len(log)] \in CommandMsg
    BY <2>1
  <2> QED
    BY <2>1, <2>2 DEF CommandMsg, Protocol
<1>2. cur[p] = Len(log) /\ pc[p] \in {"listen", "serving"}
  BY <1>1 DEF Quiescent, Unread, IInv, TypeOK, TaskOK
<1>3. Opens(p, cur[p])
  BY <1>2 DEF Opens, Protocol
<1>4. pc[p] = "serving" /\ TaskOK(p)
  BY <1>1, <1>2, <1>3 DEF SessionOK, LastRead, IInv
<1> QED
  BY <1>2, <1>4 DEF TaskOK

=============================================================================
