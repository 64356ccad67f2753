----------------------------- MODULE DhcpServer -----------------------------
(***************************************************************************)
(* The lease table of the DHCP server and its packet handler               *)
(* (dhcp_server.rs).  An address of the pool is its distance from IP_START.*)
(* Packets are handled one at a time, by the thread that serves; the       *)
(* answer, if any, is the reply r of the handler's actions.                *)
(***************************************************************************)
EXTENDS Naturals, FiniteSets

CONSTANTS Clients,        \* hardware addresses
          LEASE_NUM,      \* addresses in the pool (100 in the code)
          LEASE_DURATION, \* time units a lease lasts (7200 s in the code)
          MaxXid,         \* bound: transactions of one client
          Nobody,         \* the owner of an address that has no entry
          NoAddr,         \* no address
          Outside         \* any address that is not in the pool

Pool == 0 .. LEASE_NUM - 1

ASSUME PoolAssumption == LEASE_NUM \in Nat \ {0} /\ LEASE_DURATION \in Nat /\ MaxXid \in Nat
ASSUME ClientsAssumption == IsFiniteSet(Clients)
ASSUME MarkerAssumption ==
    Nobody \notin Clients /\ NoAddr \notin Pool /\ Outside \notin Pool

VARIABLES owner,      \* owner[a]: the hardware address in the entry of a
          expiry,     \* expiry[a]: the Instant in that entry
          last_lease, \* where the last scan for a free address ended
          now         \* the clock

leaseVars == <<owner, expiry, last_lease>>

Xid == 0 .. MaxXid

(* addr is the requested-address option or, in a request, else ciaddr;     *)
(* forUs says whether the server-identifier option names this server.      *)
Packet ==
    [type : {"discover", "request", "release", "decline"}, mac : Clients,
     addr : Pool \cup {NoAddr, Outside}, xid : Xid, forUs : BOOLEAN]

Reply == [type : {"offer", "ack", "nak"}, addr : Pool \cup {NoAddr}, xid : Xid]

NoReply == [type |-> "none", addr |-> NoAddr, xid |-> 0]

LeaseTypeOK ==
    /\ owner \in [Pool -> Clients \cup {Nobody}]
    /\ expiry \in [Pool -> Nat]
    /\ last_lease \in Pool
    /\ now \in Nat

LeaseInit ==
    /\ owner = [a \in Pool |-> Nobody]
    /\ expiry = [a \in Pool |-> 0]
    /\ last_lease = 0
    /\ now = 0

(* Every DHCP runner serves a table of its own, which nothing saves. *)
LeaseReset ==
    /\ owner' = [a \in Pool |-> Nobody]
    /\ expiry' = [a \in Pool |-> 0]
    /\ last_lease' = 0

-----------------------------------------------------------------------------
(* Mutant: a lease may be taken over in the instant in which it expires. *)
AvailableEarly(c, a) ==
    a \in Pool /\ (owner[a] \in {Nobody, c} \/ now + 1 >= expiry[a])

(* Mutant: a client's own entry is taken like anybody's. *)
AvailableToNobody(c, a) ==
    a \in Pool /\ (owner[a] = Nobody \/ now > expiry[a])

Available(c, a) ==
    a \in Pool /\ (owner[a] \in {Nobody, c} \/ now > expiry[a])

(* Mutant: an entry that expired no longer counts as the client's. *)
CurrentLeasesLive(c) == {a \in Pool : owner[a] = c /\ now <= expiry[a]}

(* current_lease returns the first entry of the client that the hash map   *)
(* happens to yield, expired ones included.                                *)
CurrentLeases(c) == {a \in Pool : owner[a] = c}

Answer(type, pkt, a) == [type |-> type, addr |-> a, xid |-> pkt.xid]

(* Mutant: the scan gives up one address too early. *)
ScanAllButOne == 1 .. LEASE_NUM - 1

(* The scan looks at every address once, starting after last_lease. *)
Scan == 1 .. LEASE_NUM

Scanned(k) == (last_lease + k) % LEASE_NUM

WantedAvailable(pkt) == Available(pkt.mac, pkt.addr)

(* The client's choice, if it is available. *)
OfferWanted(pkt, r) ==
    /\ pkt.type = "discover" /\ WantedAvailable(pkt)
    /\ r = Answer("offer", pkt, pkt.addr)
    /\ UNCHANGED leaseVars

(* Otherwise an address the client has, or had. *)
OfferCurrent(pkt, r) ==
    /\ pkt.type = "discover" /\ ~WantedAvailable(pkt)
    /\ \E a \in CurrentLeases(pkt.mac) : r = Answer("offer", pkt, a)
    /\ UNCHANGED leaseVars

(* Mutant: the counter runs on, and only the address is wrapped. *)
OfferFreeCounts(pkt, r) ==
    /\ pkt.type = "discover" /\ ~WantedAvailable(pkt)
    /\ CurrentLeases(pkt.mac) = {}
    /\ \E k \in Scan :
          /\ Available(pkt.mac, Scanned(k))
          /\ \A j \in 1 .. k - 1 : ~Available(pkt.mac, Scanned(j))
          /\ last_lease' = last_lease + k
          /\ r = Answer("offer", pkt, Scanned(k))
    /\ UNCHANGED <<owner, expiry>>

(* Otherwise the first available address; a full turn leaves last_lease    *)
(* where it was.                                                           *)
OfferFree(pkt, r) ==
    /\ pkt.type = "discover" /\ ~WantedAvailable(pkt)
    /\ CurrentLeases(pkt.mac) = {}
    /\ \/ \E k \in Scan :
             /\ Available(pkt.mac, Scanned(k))
             /\ \A j \in 1 .. k - 1 : ~Available(pkt.mac, Scanned(j))
             /\ last_lease' = Scanned(k)
             /\ r = Answer("offer", pkt, Scanned(k))
       \/ /\ \A k \in Scan : ~Available(pkt.mac, Scanned(k))
          /\ r = NoReply
          /\ UNCHANGED last_lease
    /\ UNCHANGED <<owner, expiry>>

(* Mutant: the lease time is counted from the previous entry, not from now. *)
AckKeepsExpiry(pkt, r) ==
    /\ pkt.type = "request" /\ pkt.forUs /\ Available(pkt.mac, pkt.addr)
    /\ owner' = [owner EXCEPT ![pkt.addr] = pkt.mac]
    /\ expiry' = [expiry EXCEPT ![pkt.addr] =
                     IF owner[pkt.addr] = pkt.mac THEN @ ELSE now + LEASE_DURATION]
    /\ r = Answer("ack", pkt, pkt.addr)
    /\ UNCHANGED last_lease

AckRequest(pkt, r) ==
    /\ pkt.type = "request" /\ pkt.forUs /\ Available(pkt.mac, pkt.addr)
    /\ owner' = [owner EXCEPT ![pkt.addr] = pkt.mac]
    /\ expiry' = [expiry EXCEPT ![pkt.addr] = now + LEASE_DURATION]
    /\ r = Answer("ack", pkt, pkt.addr)
    /\ UNCHANGED last_lease

NakRequest(pkt, r) ==
    /\ pkt.type = "request" /\ pkt.forUs /\ ~Available(pkt.mac, pkt.addr)
    /\ r = Answer("nak", pkt, NoAddr)
    /\ UNCHANGED leaseVars

(* Mutant: the entry of the address in the packet is removed. *)
GiveBackAddress(pkt, r) ==
    /\ pkt.type \in {"release", "decline"} /\ pkt.forUs
    /\ owner' = [owner EXCEPT ![pkt.addr] = Nobody]
    /\ expiry' = [expiry EXCEPT ![pkt.addr] = 0]
    /\ r = NoReply
    /\ UNCHANGED last_lease

(* Release and Decline remove one entry of the client, not necessarily the *)
(* one for the address the packet speaks of.                               *)
GiveBack(pkt, r) ==
    /\ pkt.type \in {"release", "decline"} /\ pkt.forUs
    /\ \/ \E a \in CurrentLeases(pkt.mac) :
             /\ owner' = [owner EXCEPT ![a] = Nobody]
             /\ expiry' = [expiry EXCEPT ![a] = 0]
       \/ CurrentLeases(pkt.mac) = {} /\ UNCHANGED <<owner, expiry>>
    /\ r = NoReply
    /\ UNCHANGED last_lease

(* A packet that names another server, or none. *)
NotForUs(pkt, r) ==
    /\ pkt.type # "discover" /\ ~pkt.forUs
    /\ r = NoReply
    /\ UNCHANGED leaseVars

HandleRequest(pkt, r) ==
    \/ OfferWanted(pkt, r) \/ OfferCurrent(pkt, r) \/ OfferFree(pkt, r)
    \/ AckRequest(pkt, r) \/ NakRequest(pkt, r)
    \/ GiveBack(pkt, r) \/ NotForUs(pkt, r)

=============================================================================
