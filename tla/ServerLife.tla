----------------------------- MODULE ServerLife -----------------------------
(***************************************************************************)
(* What quick-serve promises about listeners, in the terms of the user who *)
(* sends the commands: the server asked for last is left alone, and one    *)
(* that is gone does not come back.                                        *)
(***************************************************************************)
EXTENDS Naturals, Sequences

CONSTANTS Id,         \* positions of commands
          Addresses,  \* where servers may listen
          NoAddress,  \* what a command that starts no server asks for
          Refused,    \* addresses that the system will not bind
          Datagram    \* addresses whose listener may fail by itself

VARIABLES asked,      \* the address each command asks for, in order
          life        \* life[i]: the listener of command i is "new", "open" or "over"

Init == asked = <<>> /\ life = [i \in Id |-> "new"]

Ask(a) == asked' = Append(asked, a) /\ UNCHANGED life

Become(i, state) == life' = [life EXCEPT ![i] = state] /\ UNCHANGED asked

Taken(a)    == \E j \in 1 .. Len(asked) : life[j] = "open" /\ asked[j] = a
Replaced(i) == i < Len(asked)

(* A server listens once, at an address that nobody else listens at.       *)
Open(i) ==
    /\ life[i] = "new" /\ asked[i] \in Addresses \ Refused
    /\ ~Taken(asked[i])
    /\ Become(i, "open")

(* It does not come to listen if it may not, or if a later command came.   *)
GiveUp(i) ==
    /\ life[i] = "new"
    /\ asked[i] \in Refused \/ Taken(asked[i]) \/ Replaced(i)
    /\ Become(i, "over")

(* A listener is closed for a later command only, unless it fails.         *)
Close(i) ==
    /\ life[i] = "open"
    /\ Replaced(i) \/ asked[i] \in Datagram
    /\ Become(i, "over")

(* The program ends.                                                       *)
End == life' = [i \in Id |-> "over"] /\ UNCHANGED asked

Next ==
    \/ \E a \in Addresses \cup {NoAddress} : Ask(a)
    \/ \E i \in 1 .. Len(asked) : Open(i) \/ GiveUp(i) \/ Close(i)
    \/ End

Spec == Init /\ [][Next]_<<asked, life>>

=============================================================================
