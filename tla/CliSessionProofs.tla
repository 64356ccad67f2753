-------------------------- MODULE CliSessionProofs --------------------------
(***************************************************************************)
(* What a headless run starts, for every command line and set of ports.    *)
(* The front end sends each protocol's start once; its steps are steps of  *)
(* ControlPlane, so that the invariant proved there holds.                 *)
(***************************************************************************)
EXTENDS CliSession, ServerLifeProofs

(* The commands sent so far are starts, for different options before step. *)
SentOnce ==
    /\ Len(log) < step
    /\ \A k \in 1 .. Len(log) : \E j \in 1 .. step - 1 : log[k].protocol = StarterOrder[j]
    /\ \A k, l \in 1 .. Len(log) : k < l => log[k].protocol # log[l].protocol
    /\ \A k \in 1 .. Len(log) : log[k].start

(* DHCP is asked for last.                                                 *)
DhcpLast == \A k \in 1 .. Len(log) : log[k].protocol = "dhcp" => k = Len(log)

CliInv == IInv /\ CliTypeOK /\ SessionOK /\ SentOnce /\ DhcpLast

(* Different options are different protocols.                              *)
LEMMA OrderFacts ==
    /\ Len(StarterOrder) = 4
    /\ \A j, k \in 1 .. 4 : StarterOrder[j] = StarterOrder[k] => j = k
    /\ \A j \in 1 .. 3 : StarterOrder[j] # "dhcp"
BY DEF StarterOrder

LEMMA CliInitInv == CliInit => CliInv
<1>1. Init => DhcpLast /\ (SentOnce \/ step # 1)
  BY DEF Init, SentOnce, DhcpLast
<1> QED
  BY <1>1, InitInv, InitType, SessionInit, OrderFacts DEF CliInit, CliInv, CliTypeOK

(* No two commands start one protocol.                                     *)
LEMMA SentAlternates == SentOnce /\ TypeOK => Alternating
<1> SUFFICES ASSUME SentOnce, TypeOK, NEW k \in 1 .. Len(log) - 1
             PROVE  log[k].protocol # log[k + 1].protocol
  BY DEF Alternating
<1>1. k \in 1 .. Len(log) /\ k + 1 \in 1 .. Len(log) /\ k < k + 1
  BY DEF TypeOK
<1> QED
  BY <1>1 DEF SentOnce

(* The message that an option sends.                                       *)
LEMMA StartCommandType ==
    ASSUME args \in CommandLines, NEW p \in Requested
    PROVE  /\ StartCommand(p) \in CommandMsg
           /\ StartCommand(p).protocol = p /\ StartCommand(p).start
<1>1. p \in Protocols /\ args.port[p] # NoArg /\ args.dirOk \in BOOLEAN /\ args.ipOk \in BOOLEAN
  BY ArgsAssumption DEF Cli, Requested
<1>2. args.port[p] % 65536 \in Ports
  BY <1>1, ArgsAssumption
<1>3. PICK b \in BOOLEAN : b = Accepted(p, args.port[p] % 65536)
  <2>1. \A port : Accepted(p, port) \in BOOLEAN
    BY DEF Accepted
  <2> QED
    BY <2>1
<1>4. StartCommand(p) = [protocol |-> p, start |-> TRUE, port |-> args.port[p] % 65536, valid |-> b]
  BY <1>3 DEF StartCommand
<1> QED
  BY <1>1, <1>2, <1>4 DEF CommandMsg

(* An option that was given is a command.                                  *)
LEMMA OptionCommands ==
    ASSUME CliInv, LookAtOption, log' # log
    PROVE  \E m \in CommandMsg : /\ Command(m) /\ m.start
                                 /\ m.protocol = StarterOrder[step]
<1> DEFINE p == StarterOrder[step]
<1>1. p \in Requested /\ Send(StartCommand(p)) /\ args \in CommandLines
  BY DEF LookAtOption, CliInv, CliTypeOK
<1>2. PICK m \in CommandMsg : m = StartCommand(p) /\ m.protocol = p /\ m.start
  BY <1>1, StartCommandType
<1>3. Len(log) < MaxCommands
  BY OrderFacts, ArgsAssumption, BoundsAssumption
     DEF CliInv, CliTypeOK, TypeOK, SentOnce, LookAtOption
<1>4. Command(m)
  BY <1>1, <1>2, <1>3 DEF Command, Send, LookAtOption
<1> QED
  BY <1>2, <1>4

(* Looking at an option sends nothing, or the start of a protocol that was *)
(* not started before.                                                     *)
LEMMA LookAtOptionInv ==
    ASSUME CliInv, LookAtOption
    PROVE  CliInv'
<1> USE DEF CliInv
<1>1. /\ log \in Seq(CommandMsg) /\ Len(log) \in Nat /\ step \in 1 .. 4 /\ Len(log) < step
      /\ step' = step + 1 /\ args' = args /\ args \in CommandLines
  BY OrderFacts DEF LookAtOption, CliTypeOK, TypeOK, SentOnce
<1>2. CASE log' = log
  <2>1. UNCHANGED vars
    BY <1>2 DEF LookAtOption, vars, taskVars, serverVars
  <2>2. IInv'
    BY <2>1, StepInv
  <2>3. SessionOK'
    BY <2>1 DEF vars, SessionOK, OwnStarts, LastRead, Opens, Protocol
  <2>4. SentOnce' /\ DhcpLast'
    BY <1>1, <1>2 DEF SentOnce, DhcpLast
  <2>5. CliTypeOK'
    BY <1>1, <2>2, OrderFacts DEF CliTypeOK, IInv
  <2> QED
    BY <2>2, <2>3, <2>4, <2>5
<1>3. CASE log' # log
  <2> DEFINE p == StarterOrder[step]
  <2>2. PICK m \in CommandMsg : Command(m) /\ m.protocol = p /\ m.start
    BY <1>3, OptionCommands
  <2>3. log' = Append(log, m) /\ UNCHANGED taskVars
    BY <2>2 DEF Command, Send
  <2>6. IInv' /\ SessionOK'
    BY <2>2, <2>3, StepInv, SessionSend DEF Next
  <2>7. CliTypeOK'
    BY <1>1, <2>6, OrderFacts DEF CliTypeOK, IInv
  <2>8. /\ Len(log') = Len(log) + 1 /\ log'[Len(log) + 1] = m
        /\ \A k \in 1 .. Len(log) : log'[k] = log[k]
    BY <1>1, <2>3
  <2>9. \A k \in 1 .. Len(log) : log[k].protocol # p
    <3>1. ASSUME NEW k \in 1 .. Len(log), log[k].protocol = p PROVE FALSE
      <4>1. PICK j \in 1 .. step - 1 : log[k].protocol = StarterOrder[j]
        BY DEF SentOnce
      <4>2. j \in 1 .. 4 /\ j # step
        BY <1>1, <4>1
      <4> QED
        BY <1>1, <3>1, <4>1, <4>2, OrderFacts
    <3> QED
      BY <3>1
  <2>10. \A k \in 1 .. Len(log') : k \in 1 .. Len(log) \/ k = Len(log) + 1
    BY <1>1, <2>8
  <2>11. SentOnce'
    <3>1. Len(log') < step'
      BY <1>1, <2>8
    <3>2. \A k \in 1 .. Len(log') : \E j \in 1 .. step' - 1 : log'[k].protocol = StarterOrder[j]
      <4>1. ASSUME NEW k \in 1 .. Len(log)
            PROVE  \E j \in 1 .. step' - 1 : log'[k].protocol = StarterOrder[j]
        <5>1. PICK j \in 1 .. step - 1 : log[k].protocol = StarterOrder[j]
          BY DEF SentOnce
        <5>2. j \in 1 .. step' - 1
          BY <1>1
        <5>3. log'[k].protocol = StarterOrder[j]
          BY <2>8, <5>1
        <5> QED
          BY <5>2, <5>3
      <4>2. step \in 1 .. step' - 1 /\ log'[Len(log) + 1].protocol = StarterOrder[step]
        BY <1>1, <2>2, <2>8
      <4> QED
        BY <2>10, <4>1, <4>2
    <3>3. \A k, l \in 1 .. Len(log') : k < l => log'[k].protocol # log'[l].protocol
      <4> SUFFICES ASSUME NEW k \in 1 .. Len(log'), NEW l \in 1 .. Len(log'), k < l
                   PROVE  log'[k].protocol # log'[l].protocol
        OBVIOUS
      <4>1. k \in 1 .. Len(log) /\ log'[k] = log[k]
        BY <2>8, <2>10
      <4>2. CASE l = Len(log) + 1
        BY <2>2, <2>8, <2>9, <4>1, <4>2
      <4>3. CASE l \in 1 .. Len(log)
        <5>1. log'[l] = log[l]
          BY <2>8, <4>3
        <5> QED
          BY <4>1, <4>3, <5>1 DEF SentOnce
      <4> QED
        BY <2>8, <2>10, <4>2, <4>3
    <3>4. \A k \in 1 .. Len(log') : log'[k].start
      BY <2>2, <2>8, <2>10 DEF SentOnce
    <3> QED
      BY <3>1, <3>2, <3>3, <3>4 DEF SentOnce
  <2>12. DhcpLast'
    <3>1. ASSUME NEW k \in 1 .. Len(log) PROVE log'[k].protocol # "dhcp"
      <4>1. PICK j \in 1 .. step - 1 : log[k].protocol = StarterOrder[j]
        BY DEF SentOnce
      <4>2. j \in 1 .. 3
        BY <1>1, <4>1
      <4> QED
        BY <2>8, <4>1, <4>2, OrderFacts
    <3> QED
      BY <2>8, <2>10, <3>1 DEF DhcpLast
  <2> QED
    BY <2>6, <2>7, <2>11, <2>12
<1> QED
  BY <1>2, <1>3

(* Tasks and runners, and the end of the program, send nothing.            *)
LEMMA InternalCliInv ==
    ASSUME CliInv, Internal, UNCHANGED <<args, step>>
    PROVE  CliInv'
<1> USE DEF CliInv
<1>1. Alternating
  BY SentAlternates DEF CliTypeOK
<1>2. IInv' /\ SessionOK'
  BY <1>1, StepInv, SessionInternal DEF Next
<1>3. log' = log
  BY InternalSendsNothing
<1>4. SentOnce' /\ DhcpLast' /\ CliTypeOK'
  BY <1>2, <1>3 DEF SentOnce, DhcpLast, CliTypeOK, IInv
<1> QED
  BY <1>2, <1>4

LEMMA CliInvariance == CliSpec => []CliInv
<1>1. CliInv /\ [CliNext]_cliVars => CliInv'
  <2> SUFFICES ASSUME CliInv, [CliNext]_cliVars PROVE CliInv'
    OBVIOUS
  <2>1. CASE UNCHANGED cliVars
    <3>1. IInv'
      BY <2>1, StepInv DEF CliInv, cliVars
    <3> QED
      BY <2>1, <3>1 DEF cliVars, vars, CliInv, CliTypeOK, IInv, SessionOK, OwnStarts, LastRead, Opens,
                        Protocol, SentOnce, DhcpLast
  <2>2. CASE NothingToStart
    <3>1. Internal /\ UNCHANGED <<args, step>>
      BY <2>2 DEF NothingToStart, Internal, Exit
    <3> QED
      BY <3>1, InternalCliInv
  <2> QED
    BY <2>1, <2>2, LookAtOptionInv, InternalCliInv DEF CliNext
<1> QED
  BY <1>1, CliInitInv, PTL DEF CliSpec

(* The types of the command line and of all behind it; the ports of the    *)
(* commands are u16, whatever the options say (server.rs:235).             *)
THEOREM CliTypeCorrect == CliSpec => []CliTypeOK
BY CliInvariance, PTL DEF CliInv

(* The last start is never taken for a stop by the task it is for          *)
(* (server.rs:150, 185).                                                   *)
THEOREM LastStartIsServed == CliSpec => []LastStartServed
<1>1. ASSUME CliInv, log # <<>> PROVE log[Len(log)].start
  <2>1. Len(log) \in 1 .. Len(log)
    BY <1>1 DEF CliInv, CliTypeOK, TypeOK
  <2> QED
    BY <1>1, <2>1 DEF CliInv, SentOnce
<1>2. CliInv => LastStartServed
  BY <1>1, LastIsServed DEF CliInv, LastStartServed
<1> QED
  BY <1>2, CliInvariance, PTL

(* One server at most stays, for every command line: DHCP's could not be   *)
(* stopped, but no command comes after its own (server.rs:260-267).        *)
THEOREM OneServerIsLeft == CliSpec => []OneServerStays
<1>1. ASSUME CliInv, Quiescent, NEW i \in Id, sock[i] = "open" PROVE i = Len(log)
  <2>1. CASE Protocol(i) # "dhcp"
    BY <1>1, <2>1, OnlyLast DEF CliInv, OnlyLastCommandListens
  <2>2. CASE Protocol(i) = "dhcp"
    <3>1. runner[i] # "none"
      BY <1>1, <2>2 DEF CliInv, IInv, ServerOK
    <3>2. i \in 1 .. Len(log)
      BY <1>1, <3>1 DEF CliInv, IInv, TypeOK, ServerOK, Id
    <3> QED
      BY <1>1, <2>2, <3>2 DEF CliInv, DhcpLast, Protocol
  <2> QED
    BY <2>1, <2>2
<1>2. CliInv => OneServerStays
  BY <1>1 DEF OneServerStays
<1> QED
  BY <1>2, CliInvariance, PTL

(* A headless run, too, closes a TCP listener for a later command only     *)
(* (server.rs:184-200, 224-267).                                           *)
THEOREM HeadlessKeepsListeners == CliSpec => KeepsListeners
<1>1. ASSUME CliInv, LookAtOption PROVE [Next]_vars
  <2>1. CASE log' = log
    BY <1>1, <2>1 DEF LookAtOption, vars, taskVars, serverVars
  <2>2. CASE log' # log
    <3>1. PICK m \in CommandMsg : Command(m)
      BY <1>1, <2>2, OptionCommands
    <3> QED
      BY <3>1 DEF Next
  <2> QED
    BY <2>1, <2>2
<1>2. CliInv /\ [CliNext]_cliVars => [Next]_vars
  BY <1>1 DEF CliNext, Next, Internal, NothingToStart, Exit, cliVars
<1> QED
  BY <1>2, CliInvariance, AnyFrontEndKeeps, PTL DEF CliSpec, CliInit

=============================================================================
