----------------------------- MODULE AddressUse -----------------------------
(***************************************************************************)
(* What a DHCP service promises its network: an address is used by at most *)
(* one client at a time, and a client starts to use one only when nobody   *)
(* does.  When clients stop is up to them and to the clock.                *)
(***************************************************************************)
CONSTANTS Clients, Pool

VARIABLE users   \* users[a]: the clients that use address a

Init == users = [a \in Pool |-> {}]

Take(c, a) ==
    /\ users[a] = {}
    /\ \A b \in Pool : c \notin users[b]
    /\ users' = [users EXCEPT ![a] = {c}]

(* Some clients stop; several at once when a tick of the clock ends leases. *)
Leave ==
    /\ users' \in [Pool -> SUBSET Clients]
    /\ \A a \in Pool : users'[a] \subseteq users[a]

Next == Leave \/ \E c \in Clients, a \in Pool : Take(c, a)

Spec == Init /\ [][Next]_users

=============================================================================
