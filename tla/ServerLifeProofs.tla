-------------------------- MODULE ServerLifeProofs --------------------------
(***************************************************************************)
(* What travels to the runners, and that ControlPlane implements           *)
(* ServerLife: for every set of protocols and ports, any capacity of the   *)
(* command channel and any number of commands.                             *)
(***************************************************************************)
EXTENDS ControlPlaneProofs

-----------------------------------------------------------------------------
(* The inductive invariant *)

(* A runner is sent three flags at most; the task that holds the server    *)
(* still has some of them to send, and has sent the start if it serves.    *)
Unsent(p) == IF pc[p] = "stopping" THEN 1 ELSE 2
Room(i)   == IF runner[i] = "idle" THEN 3 ELSE 2

FlagsOK(i) ==
    /\ \A k \in DOMAIN inbox[i] : inbox[i][k] <=> k = 1 /\ runner[i] = "idle"
    /\ Len(inbox[i]) <= Room(i)
    /\ \A p \in Protocols : own[p] = i =>
          /\ Len(inbox[i]) + Unsent(p) <= Room(i)
          /\ pc[p] # "settle" /\ runner[i] = "idle" => inbox[i] # <<>>

(* The states of a listener that go with those of its runner.              *)
SocketsOf(r) ==
    CASE r \in {"none", "idle"} -> {"none"}
      [] r = "serving"          -> {"binding", "open", "failed"}
      [] r = "blocked"          -> {"open"}
      [] r = "draining"         -> {"closed"}
      [] r = "ended"            -> {"none", "failed", "aborting", "closed"}

Wanted(i)   == log[i].start /\ log[i].valid
Followed(i) == i < Len(log)
InSession(i) == \E p \in Protocols : own[p] = i /\ pc[p] \in {"settle", "serving"}

(* A server was asked for, and is held until a later command is read.      *)
StageOK(i) ==
    /\ runner[i] # "none" => Wanted(i) /\ (Followed(i) \/ InSession(i))
    /\ sock[i] \in SocketsOf(runner[i])
    /\ sock[i] = "aborting" => Followed(i)

LifeOK(i) == FlagsOK(i) /\ StageOK(i)
LifeInv   == \A i \in Id : LifeOK(i)

LEMMA LifeInit == Init => LifeInv
<1> SUFFICES ASSUME Init, NEW i \in Id PROVE LifeOK(i)
  BY DEF LifeInv
<1>1. runner[i] = "none" /\ sock[i] = "none" /\ inbox[i] = <<>>
  BY DEF Init
<1>2. FlagsOK(i)
  BY <1>1 DEF Init, FlagsOK, Room, Unsent, Id
<1> QED BY <1>1, <1>2 DEF LifeOK, StageOK, SocketsOf

(* A server that has a runner was named by a command.                      *)
LEMMA Named ==
    ASSUME IInv, LifeInv, NEW i \in Id, runner[i] # "none"
    PROVE  i \in 1 .. Len(log) /\ log[i] \in CommandMsg /\ Wanted(i)
<1>1. i <= Len(log) /\ log[i] \in CommandMsg
  BY LogEntry DEF IInv, ServerOK
<1> QED BY <1>1 DEF Id, LifeInv, LifeOK, StageOK

(* Nothing wakes a runner, once it was started, before the next command.   *)
LEMMA WokenByNext ==
    ASSUME IInv, LifeInv, NEW i \in Id, Wakes(i),
           runner[i] = "serving" \/ (runner[i] = "idle" /\ inbox[i] = <<>>)
    PROVE  Followed(i)
<1> SUFFICES ASSUME InSession(i) PROVE FALSE
  BY DEF LifeInv, LifeOK, StageOK
<1>1. PICK p \in Protocols : own[p] = i /\ pc[p] \in {"settle", "serving"}
  BY DEF InSession
<1>2. inbox[i] # <<>> /\ runner[i] = "serving"
  BY <1>1 DEF Wakes, Held
<1>3. pc[p] # "settle"
  BY <1>1, <1>2 DEF IInv, TaskOK
<1>4. Len(inbox[i]) \in Nat /\ Len(inbox[i]) # 0
  BY <1>2 DEF IInv, TypeOK
<1>5. Len(inbox[i]) + 2 <= 2
  BY <1>1, <1>2, <1>3 DEF LifeInv, LifeOK, FlagsOK, Unsent, Room
<1> QED BY <1>4, <1>5

(* An idle runner that finds a flag finds its start, behind which only     *)
(* stops wait.                                                             *)
LEMMA StartFirst ==
    ASSUME IInv, LifeInv, NEW i \in Id, runner[i] = "idle", inbox[i] # <<>>
    PROVE  /\ Head(inbox[i]) /\ Len(Tail(inbox[i])) = Len(inbox[i]) - 1
           /\ Len(inbox[i]) \in Nat
           /\ \A k \in DOMAIN Tail(inbox[i]) : Tail(inbox[i])[k] = FALSE
<1>1. inbox[i] \in Seq(BOOLEAN)
  BY DEF IInv, TypeOK
<1>2. 1 \in DOMAIN inbox[i] /\ Head(inbox[i]) = inbox[i][1]
  BY <1>1
<1>3. \A k \in DOMAIN inbox[i] : inbox[i][k] <=> k = 1
  BY DEF LifeInv, LifeOK, FlagsOK
<1>4. ASSUME NEW k \in DOMAIN Tail(inbox[i])
      PROVE  k + 1 \in DOMAIN inbox[i] /\ Tail(inbox[i])[k] = inbox[i][k + 1] /\ k + 1 # 1
  BY <1>1
<1>5. ASSUME NEW k \in DOMAIN inbox[i], k # 1 PROVE inbox[i][k] = FALSE
  <2>1. inbox[i][k] \in BOOLEAN /\ ~inbox[i][k]
    BY <1>1, <1>3, <1>5
  <2> QED BY <2>1
<1>6. ASSUME NEW k \in DOMAIN Tail(inbox[i]) PROVE Tail(inbox[i])[k] = FALSE
  BY <1>4, <1>5, Zenon
<1>7. Head(inbox[i])
  BY <1>2, <1>3
<1>8. Len(inbox[i]) \in Nat /\ Len(Tail(inbox[i])) = Len(inbox[i]) - 1
  BY <1>1
<1> QED BY <1>6, <1>7, <1>8

-----------------------------------------------------------------------------
(* The invariant is inductive *)

(* The flags of a runner that goes on, that ends, or that reads its start. *)
LEMMA FlagsStep ==
    ASSUME IInv, LifeInv, NEW i \in Id, UNCHANGED <<pc, own>>,
           \/ inbox'[i] = inbox[i] /\ (runner'[i] = "idle" <=> runner[i] = "idle")
           \/ inbox'[i] = <<>> /\ runner'[i] # "idle"
           \/ /\ runner[i] = "idle" /\ inbox[i] # <<>>
              /\ inbox'[i] = Tail(inbox[i]) /\ runner'[i] # "idle"
    PROVE  FlagsOK(i)'
<1>1. FlagsOK(i) /\ inbox[i] \in Seq(BOOLEAN)
  BY DEF LifeInv, LifeOK, IInv, TypeOK
<1>2. CASE inbox'[i] = inbox[i] /\ (runner'[i] = "idle" <=> runner[i] = "idle")
  BY <1>1, <1>2 DEF FlagsOK, Room, Unsent
<1>3. CASE inbox'[i] = <<>> /\ runner'[i] # "idle"
  BY <1>3 DEF FlagsOK, Room, Unsent
<1>4. CASE /\ runner[i] = "idle" /\ inbox[i] # <<>>
           /\ inbox'[i] = Tail(inbox[i]) /\ runner'[i] # "idle"
  <2>1. /\ \A k \in DOMAIN Tail(inbox[i]) : Tail(inbox[i])[k] = FALSE
        /\ Len(inbox[i]) \in Nat /\ Len(Tail(inbox[i])) = Len(inbox[i]) - 1
    BY <1>4, StartFirst
  <2>2. \A k \in DOMAIN inbox'[i] : inbox'[i][k] <=> k = 1 /\ runner'[i] = "idle"
    BY <1>4, <2>1
  <2>3. /\ Room(i) = 3 /\ Room(i)' = 2 /\ Len(inbox'[i]) = Len(inbox[i]) - 1
        /\ \A p \in Protocols : Unsent(p)' = Unsent(p) /\ Unsent(p) \in Nat
    BY <1>4, <2>1 DEF Room, Unsent
  <2>4. Len(inbox'[i]) <= Room(i)'
    BY <1>1, <2>1, <2>3 DEF FlagsOK
  <2>5. ASSUME NEW p \in Protocols, own'[p] = i
        PROVE  /\ Len(inbox'[i]) + Unsent(p)' <= Room(i)'
               /\ pc'[p] # "settle" /\ runner'[i] = "idle" => inbox'[i] # <<>>
    BY <1>1, <1>4, <2>1, <2>3, <2>5 DEF FlagsOK
  <2> QED BY <2>2, <2>4, <2>5 DEF FlagsOK
<1> QED BY <1>2, <1>3, <1>4

(* A step of a server disturbs no other server, and leaves it wanted.      *)
LEMMA OwnServerStep ==
    ASSUME LifeInv, NEW i \in Id, UNCHANGED <<log, cur, pc, own>>,
           \A j \in Id \ {i} : /\ runner'[j] = runner[j]
                               /\ inbox'[j] = inbox[j]
                               /\ sock'[j] = sock[j],
           runner[i] # "none", FlagsOK(i)',
           sock'[i] \in SocketsOf(runner'[i]),
           sock'[i] = "aborting" => Followed(i)
    PROVE  LifeInv'
<1>1. ASSUME NEW j \in Id, j # i PROVE LifeOK(j)'
  <2>1. LifeOK(j) /\ runner'[j] = runner[j] /\ inbox'[j] = inbox[j] /\ sock'[j] = sock[j]
    BY <1>1 DEF LifeInv
  <2>2. FlagsOK(j)'
    BY <2>1 DEF LifeOK, FlagsOK, Unsent, Room
  <2>3. StageOK(j)'
    BY <2>1 DEF LifeOK, StageOK, Wanted, Followed, InSession
  <2> QED BY <2>2, <2>3 DEF LifeOK
<1>2. Wanted(i)' /\ (Followed(i) \/ InSession(i))'
  BY DEF LifeInv, LifeOK, StageOK, Wanted, Followed, InSession
<1>3. StageOK(i)'
  BY <1>2 DEF StageOK, Followed
<1> QED BY <1>1, <1>3 DEF LifeInv, LifeOK

(* The first flag that an idle runner reads is its start.                  *)
LEMMA RunnerIdleLife ==
    ASSUME IInv, LifeInv, NEW i \in Id, RunnerIdle(i)
    PROVE  LifeInv'
<1>1. /\ UNCHANGED <<log, cur, pc, own>> /\ runner[i] = "idle"
      /\ inbox \in [Id -> Seq(BOOLEAN)] /\ runner \in [Id -> RunnerStates]
      /\ sock \in [Id -> SockStates]
  BY DEF RunnerIdle, taskVars, IInv, TypeOK
<1>2. sock[i] = "none"
  BY <1>1 DEF LifeInv, LifeOK, StageOK, SocketsOf
<1>3. \/ /\ runner' = [runner EXCEPT ![i] = "ended"] /\ UNCHANGED <<inbox, sock>>
         /\ inbox[i] = <<>>
      \/ /\ inbox[i] # <<>> /\ inbox' = [inbox EXCEPT ![i] = Tail(@)]
         /\ runner' = [runner EXCEPT ![i] = "serving"]
         /\ sock' = [sock EXCEPT ![i] = "binding"]
      \/ /\ inbox[i] # <<>> /\ inbox' = [inbox EXCEPT ![i] = Tail(@)]
         /\ runner' = [runner EXCEPT ![i] = "blocked"]
         /\ sock' = [sock EXCEPT ![i] = "open"]
      \/ /\ inbox' = [inbox EXCEPT ![i] = <<>>]
         /\ runner' = [runner EXCEPT ![i] = "ended"]
         /\ sock' = [sock EXCEPT ![i] = "failed"]
  <2>1. inbox[i] # <<>> => Head(inbox[i])
    BY <1>1, StartFirst
  <2> QED BY <2>1, Zenon DEF RunnerIdle
<1>4. FlagsOK(i)'
  BY <1>1, <1>3, FlagsStep
<1>5. sock'[i] \in SocketsOf(runner'[i]) /\ sock'[i] # "aborting"
  BY <1>1, <1>2, <1>3 DEF SocketsOf
<1>6. \A j \in Id \ {i} : /\ runner'[j] = runner[j]
                          /\ inbox'[j] = inbox[j]
                          /\ sock'[j] = sock[j]
  BY <1>1, <1>3
<1> QED BY <1>1, <1>4, <1>5, <1>6, OwnServerStep

(* A listener is aborted when its runner was woken, for a later command.   *)
LEMMA StopLife ==
    ASSUME IInv, LifeInv, NEW i \in Id, RecvStop(i) \/ FtpShutdown(i)
    PROVE  LifeInv'
<1>1. /\ UNCHANGED <<log, cur, pc, own>> /\ runner[i] = "serving" /\ Wakes(i)
      /\ inbox \in [Id -> Seq(BOOLEAN)] /\ runner \in [Id -> RunnerStates]
      /\ sock \in [Id -> SockStates]
  BY DEF RecvStop, FtpShutdown, taskVars, IInv, TypeOK
<1>2. sock[i] \in {"binding", "open", "failed"}
  BY <1>1 DEF LifeInv, LifeOK, StageOK, SocketsOf
<1>3. /\ inbox' = [inbox EXCEPT ![i] = <<>>]
      /\ \/ /\ runner' = [runner EXCEPT ![i] = "ended"]
            /\ \E s \in {"aborting", "closed", "failed"} : sock' = [sock EXCEPT ![i] = s]
         \/ /\ runner' = [runner EXCEPT ![i] = "draining"]
            /\ sock' = [sock EXCEPT ![i] = "closed"]
  BY <1>2 DEF RecvStop, FtpShutdown
<1>4. FlagsOK(i)'
  BY <1>1, <1>3, FlagsStep
<1>5. sock'[i] \in SocketsOf(runner'[i])
  BY <1>1, <1>3 DEF SocketsOf
<1>6. \A j \in Id \ {i} : /\ runner'[j] = runner[j]
                          /\ inbox'[j] = inbox[j]
                          /\ sock'[j] = sock[j]
  BY <1>1, <1>3
<1> QED BY <1>1, <1>4, <1>5, <1>6, WokenByNext, OwnServerStep

LEMMA BindLife ==
    ASSUME IInv, LifeInv, NEW i \in Id, BindSocket(i)
    PROVE  LifeInv'
<1>1. /\ UNCHANGED <<log, cur, pc, own>> /\ sock[i] = "binding"
      /\ inbox \in [Id -> Seq(BOOLEAN)] /\ runner \in [Id -> RunnerStates]
      /\ sock \in [Id -> SockStates]
  BY DEF BindSocket, taskVars, IInv, TypeOK
<1>2. runner[i] = "serving"
  BY <1>1 DEF LifeInv, LifeOK, StageOK, SocketsOf, RunnerStates
<1>3. \/ /\ UNCHANGED <<runner, inbox>>
         /\ \E s \in {"open", "failed"} : sock' = [sock EXCEPT ![i] = s]
      \/ /\ runner' = [runner EXCEPT ![i] = "ended"] /\ inbox' = [inbox EXCEPT ![i] = <<>>]
         /\ sock' = [sock EXCEPT ![i] = "failed"]
  BY Zenon DEF BindSocket
<1>4. FlagsOK(i)'
  BY <1>1, <1>2, <1>3, FlagsStep
<1>5. sock'[i] \in SocketsOf(runner'[i]) /\ sock'[i] # "aborting"
  BY <1>1, <1>2, <1>3 DEF SocketsOf
<1>6. \A j \in Id \ {i} : /\ runner'[j] = runner[j]
                          /\ inbox'[j] = inbox[j]
                          /\ sock'[j] = sock[j]
  BY <1>1, <1>3
<1> QED BY <1>1, <1>2, <1>4, <1>5, <1>6, OwnServerStep

(* A listener or a runner ends.                                            *)
LEMMA EndLife ==
    ASSUME IInv, LifeInv, NEW i \in Id,
           DropAborted(i) \/ TftpServeFails(i) \/ FtpDrained(i) \/ DhcpSocketError(i)
    PROVE  LifeInv'
<1>1. /\ UNCHANGED <<log, cur, pc, own>>
      /\ inbox \in [Id -> Seq(BOOLEAN)] /\ runner \in [Id -> RunnerStates]
      /\ sock \in [Id -> SockStates]
      /\ StageOK(i) /\ ServerOK(i)
  BY DEF DropAborted, TftpServeFails, FtpDrained, DhcpSocketError, taskVars, IInv, TypeOK,
         LifeInv, LifeOK
<1>2. CASE DropAborted(i)
  <2>1. sock[i] = "aborting" /\ sock' = [sock EXCEPT ![i] = "closed"] /\ UNCHANGED <<inbox, runner>>
    BY <1>2 DEF DropAborted
  <2>2. runner[i] = "ended"
    BY <1>1, <2>1 DEF StageOK, SocketsOf, RunnerStates
  <2>3. sock'[i] = "closed" /\ sock'[i] \in SocketsOf(runner'[i])
    BY <1>1, <2>1, <2>2 DEF SocketsOf
  <2>4. FlagsOK(i)'
    BY <1>1, <2>1, FlagsStep
  <2> QED BY <1>1, <2>1, <2>2, <2>3, <2>4, OwnServerStep
<1>3. CASE TftpServeFails(i)
  <2>1. sock[i] = "open" /\ sock' = [sock EXCEPT ![i] = "failed"] /\ UNCHANGED <<inbox, runner>>
    BY <1>3 DEF TftpServeFails
  <2>2. runner[i] = "serving"
    BY <1>1, <1>3, <2>1 DEF TftpServeFails, ServerOK
  <2>3. sock'[i] = "failed" /\ sock'[i] \in SocketsOf(runner'[i])
    BY <1>1, <2>1, <2>2 DEF SocketsOf
  <2>4. FlagsOK(i)'
    BY <1>1, <2>1, FlagsStep
  <2> QED BY <1>1, <2>1, <2>2, <2>3, <2>4, OwnServerStep
<1>4. CASE FtpDrained(i)
  <2>1. /\ runner[i] = "draining" /\ runner' = [runner EXCEPT ![i] = "ended"]
        /\ UNCHANGED <<inbox, sock>>
    BY <1>4 DEF FtpDrained
  <2>2. sock[i] = "closed"
    BY <1>1, <2>1 DEF StageOK, SocketsOf
  <2>3. runner'[i] = "ended" /\ sock'[i] = "closed" /\ sock'[i] \in SocketsOf(runner'[i])
    BY <1>1, <2>1, <2>2 DEF SocketsOf
  <2>4. FlagsOK(i)'
    BY <1>1, <2>1, <2>3, FlagsStep
  <2> QED BY <1>1, <2>1, <2>3, <2>4, OwnServerStep
<1>5. CASE DhcpSocketError(i)
  <2>1. /\ runner[i] = "blocked" /\ runner' = [runner EXCEPT ![i] = "ended"]
        /\ inbox' = [inbox EXCEPT ![i] = <<>>] /\ sock' = [sock EXCEPT ![i] = "closed"]
    BY <1>5 DEF DhcpSocketError
  <2>2. /\ runner'[i] = "ended" /\ sock'[i] = "closed" /\ sock'[i] \in SocketsOf(runner'[i])
        /\ inbox'[i] = <<>>
    BY <1>1, <2>1 DEF SocketsOf
  <2>3. FlagsOK(i)'
    BY <1>1, <2>2, FlagsStep
  <2> QED BY <1>1, <2>1, <2>2, <2>3, OwnServerStep
<1> QED BY <1>2, <1>3, <1>4, <1>5

(* One more flag is sent to the runner of the server that p holds.         *)
LEMMA FlagsSent ==
    ASSUME IInv, LifeInv, NEW p \in Protocols, NEW i \in Id, NEW b \in BOOLEAN,
           runner' = runner, inbox'[i] = Append(inbox[i], b),
           b <=> inbox[i] = <<>> /\ runner[i] = "idle",
           \A q \in Protocols : own'[q] = i => q = p,
           Len(inbox[i]) + 1 <= Room(i),
           own'[p] = i => Len(inbox[i]) + 1 + Unsent(p)' <= Room(i)
    PROVE  FlagsOK(i)'
<1>1. FlagsOK(i) /\ inbox[i] \in Seq(BOOLEAN)
  BY DEF LifeInv, LifeOK, IInv, TypeOK
<1>2. /\ Len(inbox'[i]) = Len(inbox[i]) + 1 /\ inbox'[i] # <<>>
      /\ Len(inbox[i]) \in Nat /\ (inbox[i] = <<>> <=> Len(inbox[i]) = 0)
      /\ DOMAIN inbox'[i] = 1 .. Len(inbox[i]) + 1
      /\ \A k \in 1 .. Len(inbox[i]) : inbox'[i][k] = inbox[i][k]
      /\ inbox'[i][Len(inbox[i]) + 1] = b
      /\ DOMAIN inbox[i] = 1 .. Len(inbox[i])
  BY <1>1
<1>3. ASSUME NEW k \in DOMAIN inbox'[i]
      PROVE  inbox'[i][k] <=> k = 1 /\ runner'[i] = "idle"
  <2>1. CASE k \in 1 .. Len(inbox[i])
    <3>1. inbox'[i][k] = inbox[i][k] /\ k \in DOMAIN inbox[i]
      BY <1>2, <2>1
    <3> QED BY <1>1, <3>1, Zenon DEF FlagsOK
  <2>2. CASE k = Len(inbox[i]) + 1
    <3>1. inbox'[i][k] = b /\ (k = 1 <=> inbox[i] = <<>>)
      BY <1>2, <2>2
    <3> QED BY <3>1, Zenon
  <2> QED BY <1>2, <1>3, <2>1, <2>2
<1>4. Room(i)' = Room(i)
  BY DEF Room
<1> QED BY <1>2, <1>3, <1>4 DEF FlagsOK

(* A step inside the session of p concerns the server that p holds.        *)
LEMMA SessionStepLife ==
    ASSUME IInv, LifeInv, NEW p \in Protocols, NEW i \in Id, own[p] = i,
           UNCHANGED <<log, runner, sock>>,
           \A q \in Protocols \ {p} : pc'[q] = pc[q] /\ own'[q] = own[q],
           own'[p] \in {0, i},
           \A j \in Id \ {i} : inbox'[j] = inbox[j],
           FlagsOK(i)',
           Followed(i) \/ InSession(i)'
    PROVE  LifeInv'
<1>1. ASSUME NEW j \in Id, j # i PROVE LifeOK(j)'
  <2>1. LifeOK(j) /\ inbox'[j] = inbox[j] /\ runner'[j] = runner[j] /\ j # 0
    BY <1>1 DEF LifeInv, Id
  <2>2. \A q \in Protocols : own'[q] = j => own[q] = j /\ pc'[q] = pc[q]
    BY <1>1, <2>1
  <2>3. InSession(j) => InSession(j)'
    BY <1>1 DEF InSession
  <2>4. FlagsOK(j)'
    <3>1. FlagsOK(j) /\ Room(j)' = Room(j) /\ \A q \in Protocols : own'[q] = j => Unsent(q)' = Unsent(q)
      BY <2>1, <2>2 DEF LifeOK, Unsent, Room
    <3> QED BY <2>1, <2>2, <3>1 DEF FlagsOK
  <2>5. StageOK(j)'
    BY <2>1, <2>3 DEF LifeOK, StageOK, Wanted, Followed
  <2> QED BY <2>4, <2>5 DEF LifeOK
<1>2. StageOK(i)'
  BY DEF LifeInv, LifeOK, StageOK, Wanted, Followed
<1> QED BY <1>1, <1>2 DEF LifeInv, LifeOK

(* The server that the task of p holds, and the flags it may still send.   *)
LEMMA InCharge ==
    ASSUME IInv, LifeInv, NEW p \in Protocols, pc[p] \in {"settle", "serving", "stopping"}
    PROVE  \E i \in Id :
              /\ own[p] = i /\ i # 0 /\ TaskOK(p) /\ FlagsOK(i)
              /\ \A q \in Protocols : own[q] = i => q = p
              /\ Len(inbox[i]) \in Nat
              /\ Len(inbox[i]) + Unsent(p) <= Room(i)
<1>1. TaskOK(p) /\ own[p] \in 0 .. MaxCommands
  BY DEF IInv, TypeOK
<1>2. own[p] # 0 /\ own[p] \in Id
  BY <1>1 DEF TaskOK, Id
<1>3. FlagsOK(own[p]) /\ Len(inbox[own[p]]) \in Nat
  BY <1>2 DEF LifeInv, LifeOK, IInv, TypeOK
<1>4. ASSUME NEW q \in Protocols, own[q] = own[p] PROVE q = p
  BY <1>1, <1>2, <1>4 DEF IInv, TaskOK
<1> QED BY <1>1, <1>2, <1>3, <1>4 DEF FlagsOK

(* A command that no task of its protocol has read has left no trace.      *)
LEMMA NewServer ==
    ASSUME IInv, LifeInv, NEW p \in Protocols, CreateServer(p)
    PROVE  \E i \in Id : /\ i = cur[p] + 1 /\ Protocol(i) = p /\ Wanted(i)
                         /\ pc[p] = "listen"
                         /\ pc' = [pc EXCEPT ![p] = "settle"] /\ own' = [own EXCEPT ![p] = i]
                         /\ runner' = [runner EXCEPT ![i] = "idle"]
                         /\ UNCHANGED <<log, inbox, sock>>
                         /\ runner[i] = "none" /\ inbox[i] = <<>> /\ sock[i] = "none"
<1> PICK i : i = cur[p] + 1
  OBVIOUS
<1>1. /\ UNCHANGED <<log, inbox, sock>> /\ pc[p] = "listen"
      /\ cur[p] < Len(log)
      /\ pc' = [pc EXCEPT ![p] = "settle"] /\ own' = [own EXCEPT ![p] = i]
      /\ runner' = [runner EXCEPT ![i] = "idle"]
      /\ Protocol(i) = p /\ Wanted(i)
  BY DEF CreateServer, Recv, Unread, NextCommand, Protocol, Wanted
<1>2. cur[p] \in Nat /\ Len(log) \in Nat /\ Len(log) <= MaxCommands
  BY DEF IInv, TypeOK
<1>3. i \in Id
  BY <1>1, <1>2, BoundsAssumption DEF Id
<1>4. runner[i] = "none"
  BY <1>1, <1>2, <1>3 DEF IInv, ServerOK
<1>5. inbox[i] = <<>> /\ sock[i] = "none"
  BY <1>3, <1>4 DEF IInv, ServerOK, RxOpen, LifeInv, LifeOK, StageOK, SocketsOf
<1> QED BY <1>1, <1>3, <1>4, <1>5

(* The new server is nobody else's.                                        *)
LEMMA CreateLife ==
    ASSUME IInv, LifeInv, NEW p \in Protocols, CreateServer(p)
    PROVE  LifeInv'
<1>1. PICK i \in Id : /\ Wanted(i) /\ pc[p] = "listen"
                      /\ pc' = [pc EXCEPT ![p] = "settle"] /\ own' = [own EXCEPT ![p] = i]
                      /\ runner' = [runner EXCEPT ![i] = "idle"]
                      /\ UNCHANGED <<log, inbox, sock>>
                      /\ runner[i] = "none" /\ inbox[i] = <<>> /\ sock[i] = "none"
  BY NewServer
<1>2. /\ own \in [Protocols -> Nat] /\ pc \in [Protocols -> TaskStates]
      /\ runner \in [Id -> RunnerStates]
  BY DEF IInv, TypeOK
<1>3. ASSUME NEW q \in Protocols PROVE own[q] # i
  BY <1>1 DEF IInv, TaskOK, Id
<1>4. LifeOK(i)'
  <2>1. /\ runner'[i] = "idle" /\ own'[p] = i /\ pc'[p] = "settle"
        /\ \A q \in Protocols : own'[q] = i => q = p
    BY <1>1, <1>2, <1>3
  <2>2. FlagsOK(i)'
    BY <1>1, <2>1 DEF FlagsOK, Room, Unsent
  <2>3. InSession(i)' /\ Wanted(i)'
    BY <1>1, <2>1 DEF InSession, Wanted
  <2>4. StageOK(i)'
    BY <1>1, <2>1, <2>3 DEF StageOK, SocketsOf
  <2> QED BY <2>2, <2>4 DEF LifeOK
<1>5. ASSUME NEW j \in Id, j # i PROVE LifeOK(j)'
  <2>1. LifeOK(j) /\ runner'[j] = runner[j]
    BY <1>2, <1>1, <1>5 DEF LifeInv
  <2>2. \A q \in Protocols : own'[q] = j => own[q] = j /\ pc'[q] = pc[q]
    BY <1>1, <1>2, <1>5
  <2>3. \A q \in Protocols : pc[q] \in {"settle", "serving"} => own'[q] = own[q] /\ pc'[q] = pc[q]
    BY <1>1, <1>2
  <2>4. FlagsOK(j)'
    BY <1>1, <2>1, <2>2 DEF LifeOK, FlagsOK, Unsent, Room
  <2>5. InSession(j) => InSession(j)'
    BY <2>3 DEF InSession
  <2>6. StageOK(j)'
    BY <1>1, <2>1, <2>5 DEF LifeOK, StageOK, Wanted, Followed
  <2> QED BY <2>4, <2>6 DEF LifeOK
<1> QED BY <1>4, <1>5 DEF LifeInv

(* The start is the first flag.                                            *)
LEMMA StartLife ==
    ASSUME IInv, LifeInv, NEW p \in Protocols, StartServer(p)
    PROVE  LifeInv'
<1>1. pc[p] = "settle"
  BY DEF StartServer
<1>2. PICK i \in Id : /\ own[p] = i /\ \A q \in Protocols : own[q] = i => q = p
                      /\ runner[i] = "idle" /\ inbox[i] = <<>>
  BY <1>1, InCharge DEF TaskOK
<1>3. /\ UNCHANGED <<log, cur, own, runner, sock>>
      /\ inbox' = [inbox EXCEPT ![i] = Append(@, TRUE)]
      /\ pc' = [pc EXCEPT ![p] = "serving"]
  BY <1>2, Zenon DEF StartServer, SendTo, RxOpen
<1>4. inbox \in [Id -> Seq(BOOLEAN)] /\ pc \in [Protocols -> TaskStates]
  BY DEF IInv, TypeOK
<1>5. /\ inbox'[i] = Append(inbox[i], TRUE)
      /\ \A j \in Id \ {i} : inbox'[j] = inbox[j]
      /\ pc'[p] = "serving" /\ \A q \in Protocols \ {p} : pc'[q] = pc[q]
  BY <1>2, <1>3, <1>4
<1>6. /\ Len(inbox[i]) = 0 /\ Room(i) = 3 /\ Unsent(p)' = 2
      /\ (TRUE <=> inbox[i] = <<>> /\ runner[i] = "idle")
  BY <1>2, <1>5 DEF Room, Unsent
<1>7. FlagsOK(i)'
  <2>1. \A q \in Protocols : own'[q] = i => q = p
    BY <1>2, <1>3
  <2>2. Len(inbox[i]) + 1 <= Room(i) /\ Len(inbox[i]) + 1 + Unsent(p)' <= Room(i)
    BY <1>6
  <2> QED BY <1>2, <1>3, <1>5, <1>6, <2>1, <2>2, FlagsSent
<1>8. InSession(i)'
  BY <1>2, <1>3, <1>5 DEF InSession
<1>9. \A q \in Protocols \ {p} : pc'[q] = pc[q] /\ own'[q] = own[q]
  BY <1>3, <1>5
<1> QED BY <1>2, <1>3, <1>5, <1>7, <1>8, <1>9, SessionStepLife

(* A stop is sent behind the start, and while p may still send it.         *)
LEMMA FlagsStopped ==
    ASSUME IInv, LifeInv, NEW p \in Protocols, NEW i \in Id, own[p] = i,
           pc[p] \in {"serving", "stopping"},
           runner' = runner, inbox' = [inbox EXCEPT ![i] = Append(@, FALSE)],
           \A q \in Protocols \ {p} : own'[q] = own[q],
           own'[p] # i \/ (pc[p] = "serving" /\ pc'[p] = "stopping")
    PROVE  FlagsOK(i)'
<1>0. /\ Unsent(p) \in {1, 2} /\ (pc[p] = "serving" => Unsent(p) = 2)
      /\ (pc'[p] = "stopping" => Unsent(p)' = 1)
  BY DEF Unsent
<1>1. /\ \A q \in Protocols : own[q] = i => q = p
      /\ FlagsOK(i) /\ Len(inbox[i]) \in Nat
      /\ Len(inbox[i]) + Unsent(p) <= Room(i)
  BY InCharge
<1>2. inbox'[i] = Append(inbox[i], FALSE) /\ Room(i) \in Nat
  BY DEF IInv, TypeOK, Room
<1>3. ~(inbox[i] = <<>> /\ runner[i] = "idle")
  BY <1>1 DEF FlagsOK
<1>4. Len(inbox[i]) + 1 <= Room(i)
  BY <1>0, <1>1, <1>2
<1>5. own'[p] = i => Len(inbox[i]) + 1 + Unsent(p)' <= Room(i)
  BY <1>0, <1>1, <1>2
<1>6. \A q \in Protocols : own'[q] = i => q = p
  BY <1>1
<1> QED BY <1>2, <1>3, <1>4, <1>5, <1>6, FlagsSent

(* The task of p takes a command for a stop, or sends its second stop.     *)
LEMMA TaskStopsLife ==
    ASSUME IInv, LifeInv, NEW p \in Protocols, RecvAnyStop(p) \/ SendSecondStop(p)
    PROVE  LifeInv'
<1>1. pc[p] \in {"serving", "stopping"} /\ UNCHANGED <<log, runner, sock>>
  BY DEF RecvAnyStop, SendSecondStop
<1>2. PICK i \in Id : /\ own[p] = i /\ i # 0 /\ TaskOK(p) /\ FlagsOK(i)
                      /\ \A q \in Protocols : own[q] = i => q = p
                      /\ Len(inbox[i]) \in Nat
                      /\ Len(inbox[i]) + Unsent(p) <= Room(i)
  BY <1>1, InCharge
<1>3. /\ inbox \in [Id -> Seq(BOOLEAN)] /\ pc \in [Protocols -> TaskStates]
      /\ own \in [Protocols -> 0 .. MaxCommands]
  BY DEF IInv, TypeOK
<1>4. Followed(i)
  <2>1. CASE RecvAnyStop(p)
    BY <1>2, <2>1 DEF RecvAnyStop, Unread, TaskOK, Followed
  <2>2. CASE SendSecondStop(p)
    <3>1. pc[p] = "stopping" /\ ~InSession(i)
      BY <1>2, <2>2 DEF SendSecondStop, InSession
    <3>2. runner[i] # "none"
      BY <1>2 DEF TaskOK
    <3> QED BY <3>1, <3>2 DEF LifeInv, LifeOK, StageOK
  <2> QED BY <2>1, <2>2
<1>5. /\ \/ own' = [own EXCEPT ![p] = 0]
         \/ own' = own /\ pc[p] = "serving" /\ pc' = [pc EXCEPT ![p] = "stopping"]
      /\ \/ inbox' = inbox /\ own' = [own EXCEPT ![p] = 0]
         \/ inbox' = [inbox EXCEPT ![i] = Append(@, FALSE)]
      /\ \E s \in {"listen", "stopping"} : pc' = [pc EXCEPT ![p] = s]
  BY <1>2, Zenon DEF RecvAnyStop, SendSecondStop, SendTo
<1>6. /\ own'[p] \in {0, i}
      /\ own'[p] # i \/ (pc[p] = "serving" /\ pc'[p] = "stopping")
      /\ \A q \in Protocols \ {p} : pc'[q] = pc[q] /\ own'[q] = own[q]
      /\ \A j \in Id \ {i} : inbox'[j] = inbox[j]
  <2>1. own'[p] = 0 \/ (own'[p] = i /\ pc[p] = "serving" /\ pc'[p] = "stopping")
    BY <1>2, <1>3, <1>5
  <2>2. \A q \in Protocols \ {p} : pc'[q] = pc[q] /\ own'[q] = own[q]
    BY <1>3, <1>5
  <2>3. \A j \in Id \ {i} : inbox'[j] = inbox[j]
    BY <1>3, <1>5
  <2> QED BY <1>2, <2>1, <2>2, <2>3
<1>7. FlagsOK(i)'
  <2>1. CASE inbox' = inbox /\ own' = [own EXCEPT ![p] = 0]
    <3>1. \A q \in Protocols : own'[q] # i
      BY <1>2, <1>3, <2>1
    <3> QED BY <1>1, <1>2, <2>1, <3>1 DEF FlagsOK, Room
  <2>2. CASE inbox' = [inbox EXCEPT ![i] = Append(@, FALSE)]
    BY <1>1, <1>2, <1>6, <2>2, FlagsStopped
  <2> QED BY <1>5, <2>1, <2>2
<1> QED BY <1>1, <1>2, <1>4, <1>6, <1>7, SessionStepLife

(* A command is for no server yet.                                         *)
LEMMA CommandLife ==
    ASSUME IInv, LifeInv, NEW m \in CommandMsg, Command(m)
    PROVE  LifeInv'
<1>1. /\ UNCHANGED <<pc, own, inbox, runner, sock>> /\ log' = Append(log, m)
      /\ log \in Seq(CommandMsg)
  BY DEF Command, Send, taskVars, serverVars, IInv, TypeOK
<1>2. /\ Len(log) \in Nat /\ Len(log') = Len(log) + 1
      /\ \A k \in 1 .. Len(log) : log'[k] = log[k]
  BY <1>1
<1>3. ASSUME NEW i \in Id PROVE LifeOK(i)'
  <2>1. LifeOK(i)
    BY DEF LifeInv
  <2>2. FlagsOK(i)'
    BY <1>1, <2>1 DEF LifeOK, FlagsOK, Room, Unsent
  <2>3. /\ runner[i] # "none" => Wanted(i)'
        /\ Followed(i) => Followed(i)'
        /\ InSession(i) => InSession(i)'
    <3>1. runner[i] # "none" => i \in 1 .. Len(log)
      BY Named
    <3> QED BY <1>1, <1>2, <2>1, <3>1 DEF LifeOK, StageOK, Wanted, Followed, InSession, Id
  <2> QED BY <1>1, <2>1, <2>2, <2>3 DEF LifeOK, StageOK
<1> QED BY <1>3 DEF LifeInv

LEMMA LifeStep == IInv /\ LifeInv /\ [Next]_vars => LifeInv'
<1> SUFFICES ASSUME IInv, LifeInv, [Next]_vars PROVE LifeInv'
  OBVIOUS
<1>1. ASSUME NEW m \in CommandMsg, Command(m) PROVE LifeInv'
  BY <1>1, CommandLife
<1>2. CASE Die
  <2>1. ASSUME NEW i \in Id PROVE LifeOK(i)'
    <3>1. inbox'[i] = <<>> /\ runner'[i] = "none" /\ sock'[i] = "none"
      BY <1>2 DEF Die
    <3>2. FlagsOK(i)'
      BY <1>2, <3>1 DEF Die, FlagsOK, Room, Unsent, Id
    <3> QED BY <3>1, <3>2 DEF LifeOK, StageOK, SocketsOf
  <2> QED BY <2>1 DEF LifeInv
<1>3. CASE UNCHANGED <<log, pc, own, serverVars>>
  <2>1. ASSUME NEW i \in Id PROVE LifeOK(i)'
    <3>1. LifeOK(i) /\ UNCHANGED <<log, pc, own, inbox, runner, sock>>
      BY <1>3 DEF serverVars, LifeInv
    <3>2. FlagsOK(i)'
      BY <3>1 DEF LifeOK, FlagsOK, Room, Unsent
    <3>3. StageOK(i)'
      BY <3>1 DEF LifeOK, StageOK, Wanted, Followed, InSession
    <3> QED BY <3>2, <3>3 DEF LifeOK
  <2> QED BY <2>1 DEF LifeInv
<1>4. ASSUME NEW p \in Protocols, TaskStep(p) PROVE LifeInv'
  BY <1>2, <1>3, <1>4, CreateLife, StartLife, TaskStopsLife
     DEF TaskStep, RecvLagged, SkipCommand, RejectCommand
<1>5. ASSUME NEW i \in Id, RunnerStep(i) \/ ListenerStep(i) \/ Failure(i) PROVE LifeInv'
  BY <1>5, RunnerIdleLife, StopLife, BindLife, EndLife DEF RunnerStep, ListenerStep, Failure
<1>6. CASE UNCHANGED vars
  BY <1>3, <1>6 DEF vars, serverVars
<1> QED BY <1>1, <1>2, <1>4, <1>5, <1>6 DEF Next, Internal, Exit

(* It holds under every front end, whatever its schedule.                  *)
LEMMA LifeInvariance == Init /\ [][Next]_vars => [](IInv /\ LifeInv)
BY InitInv, StepInv, LifeInit, LifeStep, PTL

(* A runner that is idle reads its start first and stops after it, one     *)
(* that serves finds stops only, and no private channel ever holds more    *)
(* than three flags (server.rs:70, 83-117, http.rs:182-245).               *)
THEOREM FlagsComeInOrder == Spec => []FlagsInOrder
<1>1. ASSUME IInv, LifeInv, NEW i \in Id
      PROVE  /\ Len(inbox[i]) <= 3
             /\ \A k \in DOMAIN inbox[i] : inbox[i][k] <=> k = 1 /\ runner[i] = "idle"
  <2>1. FlagsOK(i) /\ Len(inbox[i]) \in Nat /\ Room(i) \in {2, 3}
    BY <1>1 DEF LifeInv, LifeOK, IInv, TypeOK, Room
  <2> QED BY <2>1 DEF FlagsOK
<1>2. IInv /\ LifeInv => FlagsInOrder
  BY <1>1 DEF FlagsInOrder
<1> QED BY <1>2, LifeInvariance, PTL DEF Spec

-----------------------------------------------------------------------------
(* ControlPlane implements ServerLife *)

AskedLog == [i \in 1 .. Len(log) |-> Asked(log[i])]
Listeners == [i \in Id |-> Listener(i)]

(* What one step may do to a listener.                                     *)
MayMove(i) ==
    \/ Listener(i)' = Listener(i)
    \/ Listener(i) = "new" /\ Listener(i)' = "open" /\ Bindable(i)
    \/ Listener(i) = "new" /\ Listener(i)' = "over" /\ (~Bindable(i) \/ Followed(i))
    \/ /\ Listener(i) = "open" /\ Listener(i)' = "over"
       /\ Followed(i) \/ Transport(Protocol(i)) = "udp"

(* What the command of a server asked for is its address.                  *)
LEMMA AskedIsAddress ==
    ASSUME IInv, LifeInv, NEW i \in Id, runner[i] # "none"
    PROVE  /\ i \in 1 .. Len(AskedLog) /\ Len(AskedLog) = Len(log)
           /\ AskedLog[i] = Address(i) /\ Address(i) \in {"tcp", "udp"} \X Ports
<1>1. i \in 1 .. Len(log) /\ log[i] \in CommandMsg /\ Wanted(i)
  BY Named
<1>2. Len(log) \in Nat
  BY DEF IInv, TypeOK
<1>3. Len(AskedLog) = Len(log) /\ AskedLog[i] = Asked(log[i])
  BY <1>1, <1>2 DEF AskedLog
<1>4. Asked(log[i]) = Address(i)
  BY <1>1 DEF Asked, Address, Protocol, Wanted
<1>5. Address(i) \in {"tcp", "udp"} \X Ports
  BY <1>1 DEF Address, Protocol, Transport, CommandMsg
<1> QED BY <1>1, <1>3, <1>4, <1>5

(* An address that cannot be bound is refused or taken.                    *)
LEMMA BindableMeans ==
    ASSUME IInv, LifeInv, Alive, NEW i \in Id, runner[i] # "none"
    PROVE  Bindable(i) <=> AskedLog[i] \notin RefusedSockets /\ ~Life!Taken(AskedLog[i])
<1>1. ASSUME NEW j \in Id, Holding(j)
      PROVE  j \in 1 .. Len(AskedLog) /\ AskedLog[j] = Address(j) /\ Listeners[j] = "open"
  <2>1. runner[j] # "none"
    BY <1>1 DEF Holding, LifeInv, LifeOK, StageOK, SocketsOf
  <2>2. Listeners[j] = "open"
    BY <1>1 DEF Listeners, Listener
  <2> QED BY <2>1, <2>2, AskedIsAddress
<1>2. ASSUME NEW j \in 1 .. Len(AskedLog), Listeners[j] = "open" PROVE j \in Id /\ Holding(j)
  <2>1. Len(log) \in Nat /\ Len(log) <= MaxCommands /\ Len(AskedLog) = Len(log)
    BY AskedIsAddress DEF IInv, TypeOK
  <2>2. j \in Id
    BY <2>1, BoundsAssumption DEF Id
  <2> QED BY <1>2, <2>2 DEF Listeners, Listener
<1>3. AskedLog[i] = Address(i)
  BY AskedIsAddress
<1>4. Life!Taken(AskedLog[i]) <=> \E j \in Id : Holding(j) /\ Address(j) = Address(i)
  BY <1>1, <1>2, <1>3 DEF Life!Taken, AskedLog, Listeners
<1> QED BY <1>3, <1>4 DEF Bindable

(* Such a move is one of ServerLife.                                       *)
LEMMA MoveStep ==
    ASSUME IInv, LifeInv, Alive, NEW i \in Id, runner[i] # "none", log' = log,
           \A j \in Id \ {i} : Listener(j)' = Listener(j),
           MayMove(i)
    PROVE  [Life!Next]_<<AskedLog, Listeners>>
<1>1. AskedLog' = AskedLog /\ Listeners' = [Listeners EXCEPT ![i] = Listener(i)']
  BY DEF AskedLog, Listeners
<1>2. /\ i \in 1 .. Len(AskedLog) /\ Len(AskedLog) = Len(log)
      /\ AskedLog[i] = Address(i) /\ Address(i) \in {"tcp", "udp"} \X Ports
      /\ Listeners[i] = Listener(i)
  BY AskedIsAddress DEF Listeners
<1>3. Bindable(i) <=> AskedLog[i] \notin RefusedSockets /\ ~Life!Taken(AskedLog[i])
  BY BindableMeans
<1>4. Followed(i) <=> Life!Replaced(i)
  BY <1>2 DEF Followed, Life!Replaced, AskedLog
<1>5. CASE Listener(i)' = Listener(i)
  BY <1>1, <1>2, <1>5 DEF Listeners
<1>6. CASE Listener(i) = "new" /\ Listener(i)' = "open" /\ Bindable(i)
  <2>1. Life!Open(i)
    BY <1>1, <1>2, <1>3, <1>6 DEF Life!Open, Life!Become, AskedLog, Listeners
  <2> QED BY <1>2, <2>1 DEF Life!Next, AskedLog
<1>7. CASE Listener(i) = "new" /\ Listener(i)' = "over" /\ (~Bindable(i) \/ Followed(i))
  <2>1. Life!GiveUp(i)
    BY <1>1, <1>2, <1>3, <1>4, <1>7 DEF Life!GiveUp, Life!Become, AskedLog, Listeners
  <2> QED BY <1>2, <2>1 DEF Life!Next, AskedLog
<1>8. CASE /\ Listener(i) = "open" /\ Listener(i)' = "over"
           /\ Followed(i) \/ Transport(Protocol(i)) = "udp"
  <2>1. Transport(Protocol(i)) = "udp" => AskedLog[i] \in {"udp"} \X Ports
    BY <1>2 DEF Address
  <2>2. Life!Close(i)
    BY <1>1, <1>2, <1>4, <1>8, <2>1 DEF Life!Close, Life!Become, AskedLog, Listeners
  <2> QED BY <1>2, <2>2 DEF Life!Next, AskedLog
<1> QED BY <1>5, <1>6, <1>7, <1>8 DEF MayMove

(* What a step of server i makes of its listener.                          *)
LEMMA ServerMoves ==
    ASSUME IInv, LifeInv, Alive, NEW i \in Id, RunnerStep(i) \/ ListenerStep(i) \/ Failure(i)
    PROVE  /\ UNCHANGED <<log, pc>> /\ runner[i] # "none"
           /\ \A j \in Id \ {i} : Listener(j)' = Listener(j)
           /\ MayMove(i)
<1>1. /\ UNCHANGED <<log, pc>> /\ Alive'
      /\ runner \in [Id -> RunnerStates] /\ sock \in [Id -> SockStates]
      /\ StageOK(i) /\ ServerOK(i)
  BY DEF RunnerStep, ListenerStep, Failure, RunnerIdle, RecvStop, FtpShutdown, FtpDrained,
         BindSocket, DropAborted, TftpServeFails, DhcpSocketError, taskVars, Alive,
         IInv, TypeOK, LifeInv, LifeOK
<1>2. /\ \E r \in RunnerStates : runner' = [runner EXCEPT ![i] = r]
      /\ \E k \in SockStates : sock' = [sock EXCEPT ![i] = k]
  <2>1. /\ runner = [runner EXCEPT ![i] = runner[i]] /\ runner[i] \in RunnerStates
        /\ sock = [sock EXCEPT ![i] = sock[i]] /\ sock[i] \in SockStates
    BY <1>1
  <2>2. /\ {"idle", "ended", "serving", "blocked", "draining"} \subseteq RunnerStates
        /\ {"binding", "open", "failed", "aborting", "closed"} \subseteq SockStates
    BY DEF RunnerStates, SockStates
  <2> QED
    BY <2>1, <2>2, Zenon DEF RunnerStep, ListenerStep, Failure, RunnerIdle, RecvStop, FtpShutdown,
       FtpDrained, BindSocket, DropAborted, TftpServeFails, DhcpSocketError
<1>3. \A j \in Id \ {i} : Listener(j)' = Listener(j)
  BY <1>1, <1>2 DEF Listener, Holding
<1> USE DEF Listener, Holding, MayMove
<1>4. CASE RunnerIdle(i)
  <2>1. runner[i] = "idle" /\ Wakes(i) /\ sock[i] = "none"
    BY <1>1, <1>4 DEF RunnerIdle, StageOK, SocketsOf
  <2>2. \/ runner'[i] = "ended" /\ sock'[i] = "none" /\ inbox[i] = <<>>
        \/ runner'[i] = "serving" /\ sock'[i] = "binding"
        \/ runner'[i] = "blocked" /\ sock'[i] = "open" /\ Bindable(i)
        \/ runner'[i] = "ended" /\ sock'[i] = "failed" /\ ~Bindable(i)
    <3>1. inbox[i] # <<>> => Head(inbox[i])
      BY <2>1, StartFirst
    <3> QED BY <1>1, <1>4, <2>1, <3>1 DEF RunnerIdle
  <2>3. inbox[i] = <<>> => Followed(i)
    BY <2>1, WokenByNext
  <2> QED BY <1>1, <1>3, <2>1, <2>2, <2>3
<1>5. CASE RecvStop(i) \/ FtpShutdown(i)
  <2>1. runner[i] = "serving" /\ Wakes(i) /\ sock[i] \in {"binding", "open", "failed"}
    BY <1>1, <1>5 DEF RecvStop, FtpShutdown, StageOK, SocketsOf
  <2>2. \/ sock'[i] = "closed"
        \/ sock'[i] = "aborting" /\ (sock[i] = "open" \/ (sock[i] = "binding" /\ Bindable(i)))
        \/ sock'[i] = "failed" /\ sock[i] = "failed"
    BY <1>1, <1>5, <2>1 DEF RecvStop, FtpShutdown
  <2>3. Followed(i)
    BY <2>1, WokenByNext
  <2> QED BY <1>1, <1>3, <2>1, <2>2, <2>3
<1>6. CASE BindSocket(i)
  <2>1. runner[i] = "serving" /\ sock[i] = "binding"
    BY <1>1, <1>6 DEF BindSocket, StageOK, SocketsOf, RunnerStates
  <2>2. \/ runner'[i] = "serving" /\ sock'[i] = "open" /\ Bindable(i)
        \/ sock'[i] = "failed" /\ ~Bindable(i)
    BY <1>1, <1>6, <2>1 DEF BindSocket
  <2> QED BY <1>1, <1>3, <2>1, <2>2
<1>7. CASE DropAborted(i)
  <2>1. sock[i] = "aborting" /\ runner[i] # "none" /\ sock'[i] = "closed" /\ Followed(i)
    BY <1>1, <1>7 DEF DropAborted, StageOK, SocketsOf
  <2> QED BY <1>1, <1>3, <2>1
<1>8. CASE FtpDrained(i)
  <2>1. runner[i] = "draining" /\ sock[i] = "closed" /\ sock'[i] = "closed"
    BY <1>1, <1>8 DEF FtpDrained, StageOK, SocketsOf
  <2> QED BY <1>1, <1>3, <2>1
<1>9. CASE TftpServeFails(i)
  <2>1. sock[i] = "open" /\ runner[i] # "none" /\ sock'[i] = "failed"
    BY <1>1, <1>9 DEF TftpServeFails, StageOK, SocketsOf
  <2>2. Transport(Protocol(i)) = "udp"
    BY <1>9 DEF TftpServeFails, Transport
  <2> QED BY <1>1, <1>3, <2>1, <2>2
<1>10. CASE DhcpSocketError(i)
  <2>1. runner[i] = "blocked" /\ sock[i] = "open" /\ sock'[i] = "closed"
    BY <1>1, <1>10 DEF DhcpSocketError, StageOK, SocketsOf
  <2>2. Transport(Protocol(i)) = "udp"
    BY <1>1, <2>1 DEF ServerOK, Transport
  <2> QED BY <1>1, <1>3, <2>1, <2>2
<1> QED BY <1>4, <1>5, <1>6, <1>7, <1>8, <1>9, <1>10 DEF RunnerStep, ListenerStep, Failure

(* The tasks of a program that runs bind and close nothing themselves.     *)
LEMMA TaskMoves ==
    ASSUME IInv, LifeInv, Alive, NEW p \in Protocols, TaskStep(p), ~RecvLagged(p)
    PROVE  UNCHANGED <<AskedLog, Listeners>>
<1>1. /\ log' = log /\ sock' = sock /\ pc \in [Protocols -> TaskStates]
      /\ runner \in [Id -> RunnerStates]
  BY DEF TaskStep, SkipCommand, RejectCommand, CreateServer, StartServer, RecvAnyStop,
         SendSecondStop, serverVars, IInv, TypeOK
<1>2. \E s \in TaskStates \ {"dead"} : pc' = [pc EXCEPT ![p] = s]
  <2>1. pc = [pc EXCEPT ![p] = pc[p]] /\ pc[p] \in TaskStates \ {"dead"}
    BY <1>1 DEF Alive
  <2>2. {"listen", "settle", "serving", "stopping"} \subseteq TaskStates \ {"dead"}
    BY DEF TaskStates
  <2> QED
    BY <2>1, <2>2, Zenon DEF TaskStep, SkipCommand, RejectCommand, CreateServer, StartServer,
       RecvAnyStop, SendSecondStop
<1>3. Alive'
  BY <1>1, <1>2 DEF Alive
<1>4. ASSUME NEW i \in Id PROVE Listener(i)' = Listener(i)
  <2>1. CASE runner' = runner
    BY <1>1, <1>3, <2>1 DEF Listener, Holding
  <2>2. CASE CreateServer(p)
    <3>1. PICK k \in Id : /\ runner' = [runner EXCEPT ![k] = "idle"]
                          /\ runner[k] = "none" /\ sock[k] = "none"
      BY <2>2, NewServer
    <3> QED BY <1>1, <1>3, <3>1 DEF Listener, Holding
  <2> QED
    BY <2>1, <2>2 DEF TaskStep, SkipCommand, RejectCommand, StartServer, RecvAnyStop,
       SendSecondStop, serverVars
<1> QED BY <1>1, <1>4 DEF AskedLog, Listeners

(* The end of the program ends every listener.                             *)
LEMMA DieMoves ==
    ASSUME IInv, LifeInv, Die
    PROVE  [Life!Next]_<<AskedLog, Listeners>>
<1>1. AskedLog' = AskedLog
  BY DEF Die, AskedLog
<1>2. CASE Protocols = {}
  <2>1. ASSUME NEW i \in Id PROVE Listener(i)' = Listener(i)
    <3>1. runner[i] = "none"
      <4>1. runner[i] # "none" => log[i] \in CommandMsg
        BY Named
      <4> QED BY <1>2, <4>1 DEF CommandMsg
    <3>2. sock[i] = "none"
      BY <3>1 DEF LifeInv, LifeOK, StageOK, SocketsOf
    <3>3. Alive /\ Alive' /\ runner'[i] = "none" /\ sock'[i] = "none"
      BY <1>2 DEF Alive, Die
    <3> QED BY <3>1, <3>2, <3>3 DEF Listener, Holding
  <2> QED BY <1>1, <2>1 DEF Listeners
<1>3. CASE Protocols # {}
  <2>1. ~Alive'
    BY <1>3 DEF Die, Alive
  <2>2. Listeners' = [i \in Id |-> "over"]
    BY <2>1 DEF Listeners, Listener
  <2> QED BY <1>1, <2>2 DEF Life!Next, Life!End, AskedLog, Listeners
<1> QED BY <1>2, <1>3

(* A program that ended stays so.                                          *)
LEMMA DeadStays ==
    ASSUME IInv, ~Alive, [Next]_vars
    PROVE  log' = log /\ ~Alive'
<1>1. PICK p \in Protocols : pc[p] = "dead"
  BY DEF Alive
<1>2. CASE Die
  BY <1>1, <1>2 DEF Die, Alive
<1>3. CASE UNCHANGED <<log, pc>>
  BY <1>3 DEF Alive
<1>4. ASSUME NEW q \in Protocols, TaskStep(q), ~RecvLagged(q) PROVE log' = log /\ ~Alive'
  <2>1. log' = log /\ pc[q] # "dead"
    BY <1>4 DEF TaskStep, SkipCommand, RejectCommand, CreateServer, StartServer, RecvAnyStop,
                SendSecondStop, Recv
  <2>2. pc' = pc \/ \E s \in TaskStates : pc' = [pc EXCEPT ![q] = s]
    BY <1>4, Zenon DEF TaskStep, SkipCommand, RejectCommand, CreateServer, StartServer, RecvAnyStop,
                SendSecondStop, TaskStates
  <2>3. pc'[p] = pc[p]
    BY <1>1, <2>1, <2>2 DEF IInv, TypeOK
  <2> QED BY <1>1, <2>1, <2>3 DEF Alive
<1>5. ASSUME NEW i \in Id, RunnerStep(i) \/ ListenerStep(i) \/ Failure(i)
      PROVE  UNCHANGED <<log, pc>>
  BY <1>5 DEF RunnerStep, ListenerStep, Failure, RunnerIdle, RecvStop, FtpShutdown, FtpDrained,
              BindSocket, DropAborted, TftpServeFails, DhcpSocketError, taskVars
<1> QED BY <1>2, <1>3, <1>4, <1>5 DEF Next, Internal, Exit, Command, RecvLagged, TaskStep, vars

(* A command asks for its address, and changes no listener.                *)
LEMMA CommandAsks ==
    ASSUME IInv, NEW m \in CommandMsg, Command(m)
    PROVE  Life!Next
<1>1. /\ UNCHANGED <<pc, runner, sock>> /\ log' = Append(log, m)
      /\ log \in Seq(CommandMsg) /\ Len(log) \in Nat
  BY DEF Command, Send, taskVars, serverVars, IInv, TypeOK
<1>2. Listeners' = Listeners
  BY <1>1 DEF Listeners, Listener, Holding, Alive
<1>3. AskedLog' = Append(AskedLog, Asked(m))
  <2>1. /\ Len(log') = Len(log) + 1 /\ log'[Len(log) + 1] = m
        /\ \A k \in 1 .. Len(log) : log'[k] = log[k]
    BY <1>1
  <2> QED BY <1>1, <2>1 DEF AskedLog
<1>4. Asked(m) \in ({"tcp", "udp"} \X Ports) \cup {NoAddress}
  BY DEF Asked, Transport, CommandMsg
<1>5. Life!Ask(Asked(m))
  BY <1>2, <1>3 DEF Life!Ask, AskedLog, Listeners
<1> QED BY <1>4, <1>5 DEF Life!Next

LEMMA StepKeepsLife ==
    IInv /\ LifeInv /\ [Next]_vars => [Life!Next]_<<AskedLog, Listeners>>
<1> SUFFICES ASSUME IInv, LifeInv, [Next]_vars
             PROVE  [Life!Next]_<<AskedLog, Listeners>>
  OBVIOUS
<1>1. CASE ~Alive
  <2>1. log' = log /\ ~Alive'
    BY <1>1, DeadStays
  <2> QED BY <1>1, <2>1 DEF AskedLog, Listeners, Listener
<1>2. ASSUME Alive, NEW i \in Id, RunnerStep(i) \/ ListenerStep(i) \/ Failure(i)
      PROVE  [Life!Next]_<<AskedLog, Listeners>>
  <2>1. /\ UNCHANGED <<log, pc>> /\ runner[i] # "none"
        /\ \A j \in Id \ {i} : Listener(j)' = Listener(j)
        /\ MayMove(i)
    BY <1>2, ServerMoves
  <2> QED BY <1>2, <2>1, MoveStep
<1>3. ASSUME Alive, NEW p \in Protocols, TaskStep(p)
      PROVE  [Life!Next]_<<AskedLog, Listeners>>
  BY <1>3, TaskMoves, DieMoves DEF RecvLagged
<1>4. CASE UNCHANGED vars
  BY <1>4 DEF vars, AskedLog, Listeners, Listener, Holding, Alive
<1> QED BY <1>1, <1>2, <1>3, <1>4, DieMoves, CommandAsks DEF Next, Internal, Exit

(* Every front end may rely on it.                                         *)
LEMMA AnyFrontEndKeeps == Init /\ [][Next]_vars => KeepsListeners
<1>1. Init => Life!Init
  <2> SUFFICES ASSUME Init PROVE Life!Init
    OBVIOUS
  <2>1. Alive /\ log = <<>>
    BY DEF Init, Alive
  <2>2. \A i \in Id : Listener(i) = "new"
    BY <2>1 DEF Init, Listener, Holding
  <2>3. AskedLog = <<>>
    BY <2>1 DEF AskedLog
  <2> QED BY <2>2, <2>3 DEF Life!Init, AskedLog
<1>2. IInv /\ LifeInv /\ [Next]_vars
      => [Life!Next]_<<[i \in 1 .. Len(log) |-> Asked(log[i])], [i \in Id |-> Listener(i)]>>
  BY StepKeepsLife DEF AskedLog, Listeners
<1> QED BY <1>1, <1>2, LifeInvariance, PTL DEF KeepsListeners, Life!Spec

(* Tasks, runners and sockets keep the promise of ServerLife, whatever     *)
(* commands come: a server that was stopped while it was binding does not  *)
(* come back, and a TCP listener is closed for a later command only        *)
(* (server.rs:184-200, http.rs:232-245).                                   *)
THEOREM ListenersKept == Spec => KeepsListeners
BY AnyFrontEndKeeps, PTL DEF Spec

=============================================================================
