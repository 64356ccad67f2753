----------------------------- MODULE GuiSession -----------------------------
(***************************************************************************)
(* The window (UI::update): each protocol has a toggle and a port field; a *)
(* click on the toggle flips it and sends its new position as a command.   *)
(***************************************************************************)
EXTENDS ControlPlane

VARIABLE toggle   \* toggle[p]: the position shown for p

guiVars == <<vars, toggle>>

GuiTypeOK == TypeOK /\ toggle \in [Protocols -> BOOLEAN]

GuiInit == Init /\ toggle = [p \in Protocols |-> FALSE]

(* Mutant: every click sends a start command. *)
ClickAlwaysStarts(p) ==
    /\ Alive
    /\ Len(log) < MaxCommands
    /\ toggle' = [toggle EXCEPT ![p] = ~@]
    /\ \E m \in CommandMsg : m.protocol = p /\ m.start /\ Send(m)
    /\ UNCHANGED <<taskVars, serverVars>>

(* Mutant: the message carries the position before the click. *)
ClickSendsOld(p) ==
    /\ Alive
    /\ Len(log) < MaxCommands
    /\ toggle' = [toggle EXCEPT ![p] = ~@]
    /\ \E m \in CommandMsg : m.protocol = p /\ m.start = toggle[p] /\ Send(m)
    /\ UNCHANGED <<taskVars, serverVars>>

(* The port field, the bind address and the directory hold whatever the     *)
(* user put there before the click.                                         *)
Click(p) ==
    /\ Alive
    /\ Len(log) < MaxCommands
    /\ toggle' = [toggle EXCEPT ![p] = ~@]
    /\ \E m \in CommandMsg : m.protocol = p /\ m.start = ~toggle[p] /\ Send(m)
    /\ UNCHANGED <<taskVars, serverVars>>

GuiNext ==
    \/ \E p \in Protocols : Click(p)
    \/ Internal /\ UNCHANGED toggle

(* As Fairness of ControlPlane. *)
Undisturbed(A) == BlockedRunners = {} /\ A /\ UNCHANGED toggle

GuiFairness ==
    /\ \A p \in Protocols : WF_guiVars(Undisturbed(TaskStep(p)))
    /\ \A i \in Id : /\ WF_guiVars(Undisturbed(RunnerStep(i)))
                     /\ WF_guiVars(Undisturbed(ListenerStep(i)))

GuiSpec == GuiInit /\ [][GuiNext]_guiVars /\ GuiFairness

-----------------------------------------------------------------------------
(* Properties *)

(* At rest, a listener behind a toggle that shows off is a DHCP server's.  *)
(* No click stops that one: it stays, unseen, until its socket fails or    *)
(* the program ends.  Every other listener shows, whatever other protocols *)
(* were clicked, missed or failed meanwhile (window.rs:107-118,            *)
(* server.rs:185, dhcp.rs:92).                                             *)
OnlyDhcpHidden ==
    Quiescent =>
       \A i \in Id : sock[i] = "open" /\ ~toggle[Protocol(i)] => Protocol(i) = "dhcp"

(* A click that asks for a server is never taken for a stop: at rest, the   *)
(* last command, if it is a valid start, has its server.                    *)
LastClickServed ==
    Quiescent /\ log # <<>> /\ log[Len(log)].start /\ log[Len(log)].valid =>
       own[Protocol(Len(log))] = Len(log)

=============================================================================
