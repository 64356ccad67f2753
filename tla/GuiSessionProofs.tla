-------------------------- MODULE GuiSessionProofs --------------------------
(***************************************************************************)
(* What the window shows and gets, for any number of toggles, clicks and   *)
(* lost commands.  The window is a front end of ControlPlane: its steps    *)
(* are steps of ControlPlane, so that the invariant proved there holds.    *)
(***************************************************************************)
EXTENDS GuiSession, ServerLifeProofs

(* The toggle shows what the last command of its protocol asked for.       *)
Shown == log # <<>> => toggle[log[Len(log)].protocol] = log[Len(log)].start

GuiInv == IInv /\ GuiTypeOK /\ SessionOK /\ Alternating /\ Shown

LEMMA GuiInitInv == GuiInit => GuiInv
<1>1. Init => Alternating
  BY DEF Init, Alternating
<1> QED
  BY <1>1, InitInv, InitType, SessionInit DEF GuiInit, GuiInv, GuiTypeOK, Shown, Init

(* A click is a command.                                                   *)
LEMMA ClickCommands ==
    ASSUME GuiTypeOK, NEW p \in Protocols, Click(p)
    PROVE  \E m \in CommandMsg : /\ Command(m) /\ m.protocol = p /\ m.start = ~toggle[p]
                                 /\ toggle' = [toggle EXCEPT ![p] = ~@]
<1>1. PICK m \in CommandMsg : m.protocol = p /\ m.start = ~toggle[p] /\ Send(m)
  BY DEF Click
<1>2. Command(m) /\ toggle' = [toggle EXCEPT ![p] = ~@]
  BY <1>1 DEF Click, Command
<1> QED
  BY <1>1, <1>2

(* A click sends what the toggle then shows, so two clicks on one toggle   *)
(* never ask for a start both.                                             *)
LEMMA ClickInv ==
    ASSUME GuiInv, NEW p \in Protocols, Click(p)
    PROVE  GuiInv'
<1> USE DEF GuiInv
<1>1. PICK m \in CommandMsg : /\ Command(m) /\ m.protocol = p /\ m.start = ~toggle[p]
                              /\ toggle' = [toggle EXCEPT ![p] = ~@]
  BY ClickCommands
<1>3. /\ Command(m) /\ log' = Append(log, m) /\ UNCHANGED taskVars
      /\ toggle' = [toggle EXCEPT ![p] = ~@]
  BY <1>1 DEF Command, Send
<1>4. IInv'
  BY <1>3, StepInv DEF Next
<1>5. SessionOK'
  BY <1>3, SessionSend
<1>6. GuiTypeOK'
  BY <1>3, <1>4 DEF GuiTypeOK, IInv
<1>7. /\ log \in Seq(CommandMsg) /\ Len(log) \in Nat /\ Len(log') = Len(log) + 1
      /\ log'[Len(log) + 1] = m
  BY <1>3 DEF IInv, TypeOK
<1>8. \A k \in 1 .. Len(log) : log'[k] = log[k]
  BY <1>3, <1>7
<1>9. m.protocol = p /\ m.start = ~toggle[p] /\ toggle'[p] = ~toggle[p]
  BY <1>1 DEF GuiTypeOK
<1>10. Shown'
  BY <1>7, <1>9 DEF Shown
<1>11. Alternating'
  <2> SUFFICES ASSUME NEW k \in 1 .. Len(log') - 1,
                      log'[k].protocol = log'[k + 1].protocol, log'[k].start
               PROVE  ~log'[k + 1].start
    BY DEF Alternating
  <2>1. CASE k = Len(log)
    <3>1. log'[k] = log[k] /\ log'[k + 1] = m /\ log # <<>>
      BY <1>7, <1>8, <2>1
    <3>2. log[k].start = toggle[p]
      BY <1>9, <2>1, <3>1 DEF Shown
    <3> QED
      BY <1>9, <3>1, <3>2
  <2>2. CASE k # Len(log)
    <3>1. k \in 1 .. Len(log) - 1 /\ k + 1 \in 1 .. Len(log) /\ k \in 1 .. Len(log)
      BY <1>7, <2>2
    <3> QED
      BY <1>8, <3>1 DEF Alternating
  <2> QED
    BY <2>1, <2>2
<1> QED
  BY <1>4, <1>5, <1>6, <1>10, <1>11

(* Tasks and runners do not touch the window.                              *)
LEMMA InternalGuiInv ==
    ASSUME GuiInv, Internal, UNCHANGED toggle
    PROVE  GuiInv'
<1> USE DEF GuiInv
<1>1. IInv' /\ SessionOK'
  BY StepInv, SessionInternal DEF Next
<1>2. log' = log
  BY InternalSendsNothing
<1>3. Alternating' /\ Shown' /\ GuiTypeOK'
  BY <1>1, <1>2 DEF Alternating, Shown, GuiTypeOK, IInv
<1> QED
  BY <1>1, <1>3

LEMMA GuiInvariance == GuiSpec => []GuiInv
<1>1. GuiInv /\ [GuiNext]_guiVars => GuiInv'
  <2> SUFFICES ASSUME GuiInv, [GuiNext]_guiVars PROVE GuiInv'
    OBVIOUS
  <2>1. CASE UNCHANGED guiVars
    <3>1. IInv'
      BY <2>1, StepInv DEF GuiInv, guiVars
    <3> QED
      BY <2>1, <3>1 DEF guiVars, vars, GuiInv, GuiTypeOK, IInv, SessionOK, OwnStarts, LastRead, Opens,
                        Protocol, Alternating, Shown
  <2> QED
    BY <2>1, ClickInv, InternalGuiInv DEF GuiNext
<1> QED
  BY <1>1, GuiInitInv, PTL DEF GuiSpec

(* The types of the window and of all behind it.                           *)
LEMMA GuiTypeCorrect == GuiSpec => []GuiTypeOK
BY GuiInvariance, PTL DEF GuiInv

(* A click that asks for a server is never taken for a stop, however many  *)
(* clicks its task missed (server.rs:150, 185).                            *)
THEOREM LastClickIsServed == GuiSpec => []LastClickServed
<1>1. GuiInv => LastClickServed
  BY LastIsServed DEF GuiInv, LastClickServed
<1> QED
  BY <1>1, GuiInvariance, PTL

(* At rest, an HTTP, FTP or TFTP server that listens has its toggle on:    *)
(* only DHCP's, which no click stops, may listen behind one that shows off *)
(* (window.rs:107-118, server.rs:185, dhcp.rs:92).                         *)
THEOREM HiddenIsDhcp == GuiSpec => []OnlyDhcpHidden
<1>1. ASSUME GuiInv, Quiescent, NEW i \in Id, sock[i] = "open", Protocol(i) # "dhcp"
      PROVE  toggle[Protocol(i)]
  <2>1. i = Len(log) /\ log \in Seq(CommandMsg) /\ i # 0
    BY <1>1, OnlyLast DEF GuiInv, OnlyLastCommandListens, IInv, TypeOK, Id
  <2>2. PICK p \in Protocols : own[p] = i
    BY <1>1, OpenIsHeld DEF GuiInv, Held
  <2>3. log[i].start
    BY <1>1, <2>1, <2>2 DEF GuiInv, SessionOK, OwnStarts, Opens
  <2>4. toggle[log[i].protocol] = log[i].start
    BY <1>1, <2>1 DEF GuiInv, Shown
  <2> QED
    BY <2>3, <2>4, Zenon DEF Protocol
<1>2. GuiInv => OnlyDhcpHidden
  BY <1>1 DEF OnlyDhcpHidden
<1> QED
  BY <1>2, GuiInvariance, PTL

(* Behind the window too, only a later click closes a TCP listener, and    *)
(* nothing brings one back (window.rs:107-118, server.rs:184-200).         *)
THEOREM WindowKeepsListeners == GuiSpec => KeepsListeners
<1>1. ASSUME NEW p \in Protocols, GuiTypeOK, Click(p) PROVE Next
  <2>1. PICK m \in CommandMsg : Command(m)
    BY <1>1, ClickCommands
  <2> QED BY <2>1 DEF Next
<1>2. GuiTypeOK /\ [GuiNext]_guiVars => [Next]_vars
  BY <1>1 DEF GuiNext, Next, guiVars
<1> QED BY <1>2, GuiTypeCorrect, AnyFrontEndKeeps, PTL DEF GuiSpec, GuiInit

=============================================================================
