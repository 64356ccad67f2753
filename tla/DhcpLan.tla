------------------------------ MODULE DhcpLan ------------------------------
(***************************************************************************)
(* The DHCP server with its clients and the network between them.          *)
(*                                                                         *)
(* Clients follow RFC 2131 as far as the server depends on it: replies are *)
(* matched by transaction id, and a lease is counted from the moment its   *)
(* first request was sent.  The network delays and loses packets but keeps *)
(* the order of those between the server and one client.                   *)
(***************************************************************************)
EXTENDS DhcpServer, Sequences

CONSTANTS Asked,     \* addresses a client may ask for in a discover
          MaxNow,    \* bound: the last value of the clock
          WireCap,   \* bound: packets of one client in flight
          ReplyCap,  \* bound: replies to one client in flight
          MaxRestarts \* bound: how often the program ends and is started again

ASSUME AskedAssumption == Asked \subseteq Pool \cup {NoAddr, Outside}
ASSUME RestartsAssumption == MaxRestarts \in Nat

VARIABLES phase,    \* phase[c]: where client c is in the protocol
          addr,     \* addr[c]: the address it requested or is bound to
          until,    \* until[c]: when its lease on that address ends
          xid,      \* xid[c]: its current transaction
          toServer, \* toServer[c]: packets of c on their way
          toClient, \* toClient[c]: replies to c on their way
          restarts, \* how often the server was started again
          bornAt    \* history: when the server that runs was started

clientVars == <<phase, addr, until, xid>>
wireVars   == <<toServer, toClient>>
lifeVars   == <<restarts, bornAt>>
vars       == <<leaseVars, now, clientVars, wireVars, lifeVars>>

Phases == {"init", "selecting", "requesting", "bound"}

TypeOK ==
    /\ LeaseTypeOK
    /\ phase \in [Clients -> Phases]
    /\ addr \in [Clients -> Pool \cup {NoAddr}]
    /\ until \in [Clients -> Nat]
    /\ xid \in [Clients -> Xid]
    /\ toServer \in [Clients -> Seq(Packet)]
    /\ toClient \in [Clients -> Seq(Reply)]
    /\ restarts \in 0 .. MaxRestarts
    /\ bornAt \in Nat

Init ==
    /\ LeaseInit
    /\ phase = [c \in Clients |-> "init"]
    /\ addr = [c \in Clients |-> NoAddr]
    /\ until = [c \in Clients |-> 0]
    /\ xid = [c \in Clients |-> 0]
    /\ toServer = [c \in Clients |-> <<>>]
    /\ toClient = [c \in Clients |-> <<>>]
    /\ restarts = 0
    /\ bornAt = 0

-----------------------------------------------------------------------------
(* The server *)

(* Server::serve: one packet is received and handled; its answer is sent.  *)
ServerStep(c) ==
    /\ toServer[c] # <<>>
    /\ Len(toClient[c]) < ReplyCap
    /\ \E r \in Reply \cup {NoReply} :
          /\ HandleRequest(Head(toServer[c]), r)
          /\ toClient' = IF r = NoReply THEN toClient
                         ELSE [toClient EXCEPT ![c] = Append(@, r)]
    /\ toServer' = [toServer EXCEPT ![c] = Tail(@)]
    /\ UNCHANGED <<now, clientVars, lifeVars>>

(* The program ends, by itself or by its user, and is started again: a new *)
(* runner serves with a new table.  What the old socket had not delivered  *)
(* is lost, see LosePacket; what is still on its way reaches the new one.  *)
Restart ==
    /\ restarts < MaxRestarts
    /\ restarts' = restarts + 1
    /\ bornAt' = now
    /\ LeaseReset
    /\ UNCHANGED <<now, clientVars, wireVars>>

-----------------------------------------------------------------------------
(* The clients *)

SendPacket(c, type, a, x, forUs) ==
    /\ Len(toServer[c]) < WireCap
    /\ toServer' = [toServer EXCEPT ![c] =
          Append(@, [type |-> type, mac |-> c, addr |-> a, xid |-> x, forUs |-> forUs])]

ToInit(c) ==
    /\ phase' = [phase EXCEPT ![c] = "init"]
    /\ addr' = [addr EXCEPT ![c] = NoAddr]
    /\ until' = [until EXCEPT ![c] = 0]

(* A new transaction, the first or a retry. *)
Discover(c) ==
    /\ phase[c] \in {"init", "selecting"}
    /\ xid[c] < MaxXid
    /\ xid' = [xid EXCEPT ![c] = @ + 1]
    /\ phase' = [phase EXCEPT ![c] = "selecting"]
    /\ \E a \in Asked : SendPacket(c, "discover", a, xid[c] + 1, FALSE)
    /\ UNCHANGED <<leaseVars, now, addr, until, toClient, lifeVars>>

(* Replies of a finished transaction are thrown away. *)
RecvReply(c, type) ==
    /\ toClient[c] # <<>>
    /\ Head(toClient[c]).type = type
    /\ Head(toClient[c]).xid = xid[c]
    /\ toClient' = [toClient EXCEPT ![c] = Tail(@)]

RecvOffer(c) ==
    LET a == Head(toClient[c]).addr IN
    /\ phase[c] = "selecting"
    /\ RecvReply(c, "offer")
    /\ phase' = [phase EXCEPT ![c] = "requesting"]
    /\ addr' = [addr EXCEPT ![c] = a]
    /\ until' = [until EXCEPT ![c] = now + LEASE_DURATION]
    /\ SendPacket(c, "request", a, xid[c], TRUE)
    /\ UNCHANGED <<leaseVars, now, xid, lifeVars>>

ResendRequest(c) ==
    /\ phase[c] = "requesting"
    /\ SendPacket(c, "request", addr[c], xid[c], TRUE)
    /\ UNCHANGED <<leaseVars, now, clientVars, toClient, lifeVars>>

RecvAck(c) ==
    /\ phase[c] = "requesting"
    /\ RecvReply(c, "ack")
    /\ now <= until[c]
    /\ phase' = [phase EXCEPT ![c] = "bound"]
    /\ UNCHANGED <<leaseVars, now, addr, until, xid, toServer, lifeVars>>

RecvNak(c) ==
    /\ phase[c] = "requesting"
    /\ RecvReply(c, "nak")
    /\ ToInit(c)
    /\ UNCHANGED <<leaseVars, now, xid, toServer, lifeVars>>

(* A reply nobody waits for, or a packet that the network loses. *)
DropReply(c) ==
    /\ toClient[c] # <<>>
    /\ toClient' = [toClient EXCEPT ![c] = Tail(@)]
    /\ UNCHANGED <<leaseVars, now, clientVars, toServer, lifeVars>>

LosePacket(c) ==
    /\ toServer[c] # <<>>
    /\ toServer' = [toServer EXCEPT ![c] = Tail(@)]
    /\ UNCHANGED <<leaseVars, now, clientVars, toClient, lifeVars>>

(* A renewal carries ciaddr and no server identifier. *)
Renew(c) ==
    /\ phase[c] = "bound"
    /\ SendPacket(c, "request", addr[c], xid[c], FALSE)
    /\ UNCHANGED <<leaseVars, now, clientVars, toClient, lifeVars>>

(* The client is done with its address, or found somebody else using it. *)
Relinquish(c) ==
    /\ phase[c] = "bound"
    /\ ToInit(c)
    /\ \E type \in {"release", "decline"} : SendPacket(c, type, addr[c], xid[c], TRUE)
    /\ UNCHANGED <<leaseVars, now, xid, toClient, lifeVars>>

(* The lease ran out, the client gave up waiting, or it was switched off. *)
Forget(c) ==
    /\ phase[c] # "init"
    /\ ToInit(c)
    /\ UNCHANGED <<leaseVars, now, xid, wireVars, lifeVars>>

ClientStep(c) ==
    \/ Discover(c) \/ RecvOffer(c) \/ ResendRequest(c) \/ RecvAck(c) \/ RecvNak(c)
    \/ Renew(c) \/ Relinquish(c) \/ Forget(c)

NetworkStep(c) == DropReply(c) \/ LosePacket(c)

Tick ==
    /\ now < MaxNow
    /\ now' = now + 1
    /\ UNCHANGED <<leaseVars, clientVars, wireVars, lifeVars>>

Next ==
    \/ \E c \in Clients : ServerStep(c) \/ ClientStep(c) \/ NetworkStep(c)
    \/ Tick \/ Restart

Spec == Init /\ [][Next]_vars

-----------------------------------------------------------------------------
(* Properties *)

(* A client uses its address until its lease is over. *)
Using(c, a) == phase[c] = "bound" /\ addr[c] = a /\ now <= until[c]

(* A lease that an earlier server may have given: nothing in the table of   *)
(* the server that runs backs it.                                          *)
OldLease(c) == restarts > 0 /\ until[c] <= bornAt + LEASE_DURATION

(* The k-th reply on its way to c is one of this type to its transaction.   *)
Answers(c, k, type) == toClient[c][k].type = type /\ toClient[c][k].xid = xid[c]

(* No two clients use one address at a time, although offers reserve       *)
(* nothing, leases expire by two clocks and a release may remove any of    *)
(* the client's entries (dhcp_server.rs:83-113).  A restart forgets every   *)
(* lease (dhcp.rs:62), but what it breaks heals within one lease time.      *)
NoDoubleAssignment ==
    \A c, d \in Clients : \A a \in Pool :
       Using(c, a) /\ Using(d, a) =>
          c = d \/ (restarts > 0 /\ now <= bornAt + LEASE_DURATION)

(* The table backs what clients do: an address in use is leased to its     *)
(* user for at least as long as the user will use it, unless the lease is  *)
(* older than the server.                                                  *)
UseIsLeased ==
    \A c \in Clients : \A a \in Pool :
       Using(c, a) => (owner[a] = c /\ expiry[a] >= until[c]) \/ OldLease(c)

(* What was granted is not refused: while the lease it waits for may still  *)
(* be taken up, a retry that comes after its request was acknowledged, or   *)
(* while it is bound already, never makes the server answer no, whatever    *)
(* other clients offer, request and give back between the two and whichever *)
(* replies are lost (dhcp_server.rs:83-103, 122-130).                       *)
GrantNotRefused ==
    \A c \in Clients : now <= until[c] /\ ~OldLease(c) =>
       \A k \in DOMAIN toClient[c] : Answers(c, k, "nak") =>
          /\ phase[c] # "bound"
          /\ phase[c] = "requesting" => \A j \in 1 .. k - 1 : ~Answers(c, j, "ack")

(* Clients that ask for no address get one entry each, through any losses,  *)
(* retries and lost releases: the pool does not leak away (dhcp_server.rs:  *)
(* 60-103).  Nothing is said of clients that ask for one.                   *)
OneLeasePerClient ==
    (Asked = {NoAddr}) =>
       \A c \in Clients : Cardinality({a \in Pool : owner[a] = c}) <= 1

(* With no more clients than addresses, none of which asks for an address,  *)
(* every discover can be answered: the scan that begins after last_lease    *)
(* reaches an available address unless the client has a lease               *)
(* (dhcp_server.rs:60-80).                                                  *)
DiscoverAnswered ==
    (Asked = {NoAddr} /\ Cardinality(Clients) <= LEASE_NUM) =>
       \A c \in Clients :
          CurrentLeases(c) # {} \/ \E k \in Scan : Available(c, Scanned(k))

(* The network sees what AddressUse promises, of every server anew. *)
UsersOf(a) == {c \in Clients : Using(c, a) /\ ~OldLease(c)}

Promise == INSTANCE AddressUse WITH users <- [a \in Pool |-> UsersOf(a)]

KeepsPromise == Promise!Spec

=============================================================================
