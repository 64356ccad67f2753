---------------------------- MODULE DhcpLanProofs ----------------------------
(***************************************************************************)
(* No address is used twice, for any number of clients and addresses, any  *)
(* lease time, and any number of losses, retries and restarts; and the     *)
(* network with its server implements AddressUse.                          *)
(***************************************************************************)
EXTENDS DhcpLan, TLAPS

-----------------------------------------------------------------------------
(* Sequences and functions *)

(* What is left of a sequence when its first element is taken.             *)
LEMMA TailFacts ==
    ASSUME NEW S, NEW s \in Seq(S), s # <<>>
    PROVE  /\ 1 \in DOMAIN s /\ Head(s) = s[1] /\ Head(s) \in S
           /\ Tail(s) \in Seq(S)
           /\ \A k \in DOMAIN Tail(s) :
                 k \in Nat /\ 1 < k + 1 /\ k + 1 \in DOMAIN s /\ Tail(s)[k] = s[k + 1]
OBVIOUS

(* What a sequence holds when an element is added at its end.              *)
LEMMA AppendFacts ==
    ASSUME NEW S, NEW s \in Seq(S), NEW e \in S
    PROVE  /\ Append(s, e) \in Seq(S)
           /\ Append(s, e)[Len(s) + 1] = e
           /\ \A k \in DOMAIN s : k \in Nat /\ k < Len(s) + 1 /\ Append(s, e)[k] = s[k]
           /\ \A k \in DOMAIN Append(s, e) : k \in DOMAIN s \/ k = Len(s) + 1
OBVIOUS

(* A function that changes at one point keeps its values elsewhere.        *)
LEMMA ExceptFacts ==
    ASSUME NEW S, NEW T, NEW f \in [S -> T], NEW x \in S, NEW v \in T
    PROVE  /\ [f EXCEPT ![x] = v] \in [S -> T]
           /\ [f EXCEPT ![x] = v][x] = v
           /\ \A y \in S : y # x => [f EXCEPT ![x] = v][y] = f[y]
OBVIOUS

-----------------------------------------------------------------------------
(* The table *)

(* The scan stays in the pool.                                             *)
LEMMA ScannedInPool ==
    ASSUME LeaseTypeOK, NEW k \in Scan
    PROVE  Scanned(k) \in Pool
<1>1. last_lease + k \in Nat
  BY PoolAssumption DEF LeaseTypeOK, Pool, Scan
<1> QED
  BY <1>1, PoolAssumption DEF Scanned, Pool

GivesBack(pkt) == pkt.type \in {"release", "decline"}

(* What handling a packet may do to the table: an entry is left alone, or  *)
(* written for the sender if it was available to it, or removed because    *)
(* the sender gave up an entry of its own.                                 *)
EntryChange(pkt, a) ==
    \/ owner'[a] = owner[a] /\ expiry'[a] = expiry[a]
    \/ /\ owner'[a] = pkt.mac /\ expiry'[a] = now + LEASE_DURATION
       /\ owner[a] \in {Nobody, pkt.mac} \/ now > expiry[a]
    \/ GivesBack(pkt) /\ owner[a] = pkt.mac

(* What it may answer.                                                     *)
AnswerTo(pkt, r) ==
    \/ r = NoReply
    \/ r.type = "offer" /\ r.addr \in Pool /\ pkt.type = "discover" /\ r.xid = pkt.xid
    \/ r.type = "nak" /\ r.xid = pkt.xid
    \/ /\ r.type = "ack" /\ r.xid = pkt.xid
       /\ pkt.type = "request" /\ pkt.addr \in Pool
       /\ owner'[pkt.addr] = pkt.mac /\ expiry'[pkt.addr] = now + LEASE_DURATION

(* Handling a packet keeps the types and does nothing else than that.      *)
LEMMA HandleEffect ==
    ASSUME LeaseTypeOK, NEW pkt \in Packet, NEW r \in Reply \cup {NoReply},
           HandleRequest(pkt, r)
    PROVE  /\ owner' \in [Pool -> Clients \cup {Nobody}]
           /\ expiry' \in [Pool -> Nat]
           /\ last_lease' \in Pool
           /\ \A a \in Pool : EntryChange(pkt, a)
           /\ AnswerTo(pkt, r)
<1> USE DEF LeaseTypeOK, EntryChange, AnswerTo, leaseVars, Answer
<1>1. CASE OfferWanted(pkt, r)
  BY <1>1 DEF OfferWanted, WantedAvailable, Available
<1>2. CASE OfferCurrent(pkt, r)
  BY <1>2 DEF OfferCurrent, CurrentLeases
<1>3. CASE OfferFree(pkt, r)
  <2>1. owner' = owner /\ expiry' = expiry /\ pkt.type = "discover"
    BY <1>3 DEF OfferFree
  <2>2. CASE r = NoReply /\ last_lease' = last_lease
    BY <2>1, <2>2
  <2>3. CASE \E k \in Scan : last_lease' = Scanned(k) /\ r = Answer("offer", pkt, Scanned(k))
    BY <2>1, <2>3, ScannedInPool
  <2> QED
    BY <1>3, <2>2, <2>3 DEF OfferFree
<1>4. CASE AckRequest(pkt, r)
  <2>1. pkt.addr \in Pool /\ (owner[pkt.addr] \in {Nobody, pkt.mac} \/ now > expiry[pkt.addr])
    BY <1>4 DEF AckRequest, Available
  <2>2. pkt.mac \in Clients /\ now + LEASE_DURATION \in Nat
    BY PoolAssumption DEF Packet
  <2>3. /\ owner' = [owner EXCEPT ![pkt.addr] = pkt.mac]
        /\ expiry' = [expiry EXCEPT ![pkt.addr] = now + LEASE_DURATION]
        /\ last_lease' = last_lease
        /\ r = Answer("ack", pkt, pkt.addr) /\ pkt.type = "request"
    BY <1>4 DEF AckRequest
  <2> QED
    BY <2>1, <2>2, <2>3
<1>5. CASE NakRequest(pkt, r)
  BY <1>5 DEF NakRequest
<1>6. CASE GiveBack(pkt, r)
  <2>1. GivesBack(pkt) /\ r = NoReply /\ last_lease' = last_lease
    BY <1>6 DEF GiveBack, GivesBack
  <2>2. CASE UNCHANGED <<owner, expiry>>
    BY <2>1, <2>2
  <2>3. ASSUME NEW b \in CurrentLeases(pkt.mac),
               owner' = [owner EXCEPT ![b] = Nobody], expiry' = [expiry EXCEPT ![b] = 0]
        PROVE  /\ owner' \in [Pool -> Clients \cup {Nobody}]
               /\ expiry' \in [Pool -> Nat]
               /\ \A a \in Pool : EntryChange(pkt, a)
    BY <2>1, <2>3 DEF CurrentLeases
  <2> QED
    BY <1>6, <2>1, <2>2, <2>3 DEF GiveBack
<1>7. CASE NotForUs(pkt, r)
  BY <1>7 DEF NotForUs
<1> QED
  BY <1>1, <1>2, <1>3, <1>4, <1>5, <1>6, <1>7 DEF HandleRequest

-----------------------------------------------------------------------------
(* The inductive invariant *)

(* The address a client requests or is bound to is leased to it for as     *)
(* long as it may use it, or it will not take it up, or the lease is older *)
(* than the server.                                                        *)
Backed(c) ==
    \/ owner[addr[c]] = c /\ expiry[addr[c]] >= until[c]
    \/ now > until[c]
    \/ OldLease(c)

(* Everything in flight is the client's own, of its transactions so far.   *)
OwnTraffic(c) ==
    /\ \A k \in DOMAIN toServer[c] : toServer[c][k].mac = c /\ toServer[c][k].xid <= xid[c]
    /\ \A k \in DOMAIN toClient[c] : /\ toClient[c][k].xid <= xid[c]
                                     /\ toClient[c][k].type = "offer" => toClient[c][k].addr \in Pool

(* Before a client has chosen an offer, nothing was asked or granted in    *)
(* its transaction; whatever it gives back is handled before its offer is  *)
(* made.                                                                   *)
SelectingOK(c) ==
    phase[c] = "selecting" =>
       /\ \A k \in DOMAIN toServer[c] :
             toServer[c][k].xid = xid[c] => toServer[c][k].type # "request"
       /\ \A k \in DOMAIN toClient[c] :
             toClient[c][k].xid = xid[c] =>
                /\ toClient[c][k].type # "ack"
                /\ toClient[c][k].type = "offer" =>
                      \A j \in DOMAIN toServer[c] : ~GivesBack(toServer[c][j])
       /\ \A k, j \in DOMAIN toServer[c] :
             toServer[c][k].type = "discover" /\ toServer[c][k].xid = xid[c] /\ k < j =>
                ~GivesBack(toServer[c][j])

(* Once it has chosen one, it asks for that address only and gives nothing *)
(* back.                                                                   *)
ChosenOK(c) ==
    phase[c] \in {"requesting", "bound"} =>
       /\ addr[c] \in Pool
       /\ \A k \in DOMAIN toServer[c] :
             /\ ~GivesBack(toServer[c][k])
             /\ toServer[c][k].type = "request" /\ toServer[c][k].xid = xid[c] =>
                   toServer[c][k].addr = addr[c]

(* An acknowledgement the client would accept, or has accepted, is backed. *)
AckBacked(c) ==
    \/ phase[c] = "bound"
    \/ /\ phase[c] = "requesting"
       /\ \E k \in DOMAIN toClient[c] :
             toClient[c][k].type = "ack" /\ toClient[c][k].xid = xid[c]
    => Backed(c)

ClientOK(c) ==
    /\ until[c] <= now + LEASE_DURATION
    /\ OwnTraffic(c) /\ SelectingOK(c) /\ ChosenOK(c) /\ AckBacked(c)

IInv == TypeOK /\ bornAt <= now /\ \A c \in Clients : ClientOK(c)

(* What is on the wires.                                                   *)
LEMMA WireTypes ==
    ASSUME TypeOK, NEW c \in Clients
    PROVE  /\ \A k \in DOMAIN toServer[c] : /\ toServer[c][k] \in Packet
                                            /\ toServer[c][k].xid \in Nat
           /\ \A k \in DOMAIN toClient[c] : /\ toClient[c][k] \in Reply
                                            /\ toClient[c][k].xid \in Nat
<1>1. toServer[c] \in Seq(Packet) /\ toClient[c] \in Seq(Reply)
  BY DEF TypeOK
<1>2. /\ \A k \in DOMAIN toServer[c] : toServer[c][k] \in Packet
      /\ \A k \in DOMAIN toClient[c] : toClient[c][k] \in Reply
  BY <1>1
<1>3. \A p \in Packet : p.xid \in Nat
  BY DEF Packet, Xid
<1>4. \A r \in Reply : r.xid \in Nat
  BY DEF Reply, Xid
<1> QED
  BY <1>2, <1>3, <1>4

(* Nothing is in flight at the start.                                      *)
LEMMA InitInv == Init => IInv
<1> SUFFICES ASSUME Init PROVE IInv
  OBVIOUS
<1> USE DEF Init, LeaseInit
<1>1. TypeOK
  BY PoolAssumption, RestartsAssumption DEF TypeOK, LeaseTypeOK, Pool, Phases, Xid
<1>2. ASSUME NEW c \in Clients PROVE ClientOK(c)
  <2>1. DOMAIN toServer[c] = {} /\ DOMAIN toClient[c] = {} /\ phase[c] = "init" /\ until[c] = 0
    OBVIOUS
  <2> QED
    BY <2>1, PoolAssumption DEF ClientOK, OwnTraffic, SelectingOK, ChosenOK, AckBacked
<1> QED
  BY <1>1, <1>2 DEF IInv

(* Putting a packet on the wire.                                           *)
LEMMA SendEffect ==
    ASSUME TypeOK, NEW c \in Clients, NEW pkt \in Packet,
           toServer' = [toServer EXCEPT ![c] = Append(@, pkt)]
    PROVE  /\ toServer' \in [Clients -> Seq(Packet)]
           /\ toServer'[c] = Append(toServer[c], pkt)
           /\ \A d \in Clients : d # c => toServer'[d] = toServer[d]
<1>1. toServer \in [Clients -> Seq(Packet)]
  BY DEF TypeOK
<1>2. Append(toServer[c], pkt) \in Seq(Packet)
  BY <1>1, AppendFacts
<1> QED
  BY <1>1, <1>2, ExceptFacts

(* Taking a packet off the wire, in either direction.                      *)
LEMMA TailEffect ==
    ASSUME NEW T, NEW wire \in [Clients -> Seq(T)], NEW c \in Clients, wire[c] # <<>>
    PROVE  /\ [wire EXCEPT ![c] = Tail(@)] \in [Clients -> Seq(T)]
           /\ [wire EXCEPT ![c] = Tail(@)][c] = Tail(wire[c])
           /\ \A d \in Clients : d # c => [wire EXCEPT ![c] = Tail(@)][d] = wire[d]
<1>1. wire[c] \in Seq(T)
  OBVIOUS
<1>2. Tail(wire[c]) \in Seq(T)
  BY <1>1, TailFacts
<1> QED
  BY <1>2, ExceptFacts

(* What a client's state depends on: its own variables, and its backing.   *)
LEMMA UntouchedOK ==
    ASSUME TypeOK, NEW d \in Clients, ClientOK(d), now' \in Nat, now' >= now,
           phase'[d] = phase[d], addr'[d] = addr[d], until'[d] = until[d], xid'[d] = xid[d],
           toServer'[d] = toServer[d], toClient'[d] = toClient[d],
           addr[d] \in Pool /\ Backed(d) => Backed(d)'
    PROVE  ClientOK(d)'
<1>1. until'[d] <= now' + LEASE_DURATION
  BY PoolAssumption DEF ClientOK, TypeOK, LeaseTypeOK
<1>2. OwnTraffic(d)' /\ SelectingOK(d)' /\ ChosenOK(d)'
  BY DEF ClientOK, OwnTraffic, SelectingOK, ChosenOK
<1>3. AckBacked(d)'
  BY DEF ClientOK, ChosenOK, AckBacked
<1> QED
  BY <1>1, <1>2, <1>3 DEF ClientOK

(* The backing of a client whose own variables stay lasts while the table  *)
(* and the server stay, also when time goes by.                            *)
LEMMA BackedStays ==
    ASSUME TypeOK, NEW d \in Clients, Backed(d), now' \in Nat, now' >= now,
           addr'[d] = addr[d], until'[d] = until[d],
           owner' = owner, expiry' = expiry, restarts' = restarts, bornAt' = bornAt
    PROVE  Backed(d)'
BY DEF Backed, OldLease, TypeOK, LeaseTypeOK

(* A step of one client, or of the network between it and the server,      *)
(* leaves the others alone.                                                *)
LEMMA ClientStepInv ==
    ASSUME IInv, NEW c \in Clients, TypeOK', ClientOK(c)',
           UNCHANGED <<leaseVars, now, lifeVars>>,
           \A d \in Clients \ {c} :
              /\ phase'[d] = phase[d] /\ addr'[d] = addr[d]
              /\ until'[d] = until[d] /\ xid'[d] = xid[d]
              /\ toServer'[d] = toServer[d] /\ toClient'[d] = toClient[d]
    PROVE  IInv'
<1>1. ASSUME NEW d \in Clients, d # c PROVE ClientOK(d)'
  <2>1. ClientOK(d) /\ TypeOK
    BY DEF IInv
  <2>2. now \in Nat /\ now' = now
    BY DEF IInv, TypeOK, LeaseTypeOK
  <2>3. now' \in Nat /\ now' >= now
    BY <2>2
  <2>4. Backed(d) => Backed(d)'
    BY <1>1, <2>1, <2>3, BackedStays DEF leaseVars, lifeVars
  <2> QED
    BY <1>1, <2>1, <2>3, <2>4, UntouchedOK
<1>2. bornAt' <= now'
  BY DEF IInv, lifeVars
<1> QED
  BY <1>1, <1>2 DEF IInv

(* A discover begins a transaction in which nothing was said yet.          *)
LEMMA DiscoverInv ==
    ASSUME IInv, NEW c \in Clients, Discover(c)
    PROVE  IInv'
<1> USE DEF IInv
<1>1. PICK a \in Asked : SendPacket(c, "discover", a, xid[c] + 1, FALSE)
  BY DEF Discover
<1>2. xid[c] \in Nat /\ xid[c] + 1 \in Xid
  BY PoolAssumption DEF Discover, TypeOK, Xid
<1>3. PICK pkt \in Packet :
         pkt = [type |-> "discover", mac |-> c, addr |-> a, xid |-> xid[c] + 1, forUs |-> FALSE]
  BY <1>2, AskedAssumption DEF Packet
<1>4. /\ toServer' \in [Clients -> Seq(Packet)] /\ toServer'[c] = Append(toServer[c], pkt)
      /\ \A d \in Clients : d # c => toServer'[d] = toServer[d]
  <2>1. toServer' = [toServer EXCEPT ![c] = Append(@, pkt)]
    BY <1>1, <1>3 DEF SendPacket
  <2> QED
    BY <2>1, SendEffect
<1>5. /\ UNCHANGED <<leaseVars, now, lifeVars>>
      /\ addr' = addr /\ until' = until /\ toClient' = toClient
      /\ xid' = [xid EXCEPT ![c] = @ + 1] /\ phase' = [phase EXCEPT ![c] = "selecting"]
  BY DEF Discover
<1>6. TypeOK'
  BY <1>2, <1>4, <1>5 DEF TypeOK, LeaseTypeOK, leaseVars, lifeVars, Phases
<1>7. xid'[c] = xid[c] + 1 /\ phase'[c] = "selecting"
  BY <1>5 DEF TypeOK
<1>8. ClientOK(c)'
  <2> DEFINE s == toServer[c]
  <2>1. s \in Seq(Packet)
    BY DEF TypeOK
  <2>2. /\ \A k \in DOMAIN s : k \in Nat /\ k < Len(s) + 1 /\ toServer'[c][k] = s[k]
        /\ \A k \in DOMAIN toServer'[c] : k \in DOMAIN s \/ k = Len(s) + 1
        /\ toServer'[c][Len(s) + 1] = pkt
    BY <1>3, <1>4, <2>1, AppendFacts
  <2>3. ASSUME NEW k \in DOMAIN s PROVE s[k] \in Packet /\ s[k].mac = c /\ s[k].xid <= xid[c] /\ s[k].xid \in Nat
    BY WireTypes DEF ClientOK, OwnTraffic
  <2>4. ASSUME NEW k \in DOMAIN toClient[c]
        PROVE  /\ toClient[c][k].xid \in Nat /\ toClient[c][k].xid <= xid[c]
               /\ toClient[c][k].type = "offer" => toClient[c][k].addr \in Pool
    BY WireTypes DEF ClientOK, OwnTraffic
  <2>5. OwnTraffic(c)'
    BY <1>2, <1>3, <1>5, <1>7, <2>2, <2>3, <2>4 DEF OwnTraffic
  <2>6. SelectingOK(c)'
    <3>1. \A k \in DOMAIN s : toServer'[c][k].xid # xid'[c]
      BY <1>2, <1>7, <2>2, <2>3
    <3>2. \A k \in DOMAIN toClient[c] : toClient'[c][k].xid # xid'[c]
      BY <1>2, <1>5, <1>7, <2>4
    <3>3. toServer'[c][Len(s) + 1].type = "discover"
      BY <1>3, <2>2
    <3>4. \A k \in DOMAIN toServer'[c] :
             toServer'[c][k].xid = xid'[c] => k = Len(s) + 1 /\ toServer'[c][k].type = "discover"
      BY <2>2, <3>1, <3>3
    <3>5. \A k, j \in DOMAIN toServer'[c] : k = Len(s) + 1 => ~(k < j)
      BY <2>1, <2>2
    <3>6. /\ \A k \in DOMAIN toServer'[c] :
                toServer'[c][k].xid = xid'[c] => toServer'[c][k].type # "request"
          /\ \A k, j \in DOMAIN toServer'[c] :
                toServer'[c][k].xid = xid'[c] /\ k < j => ~GivesBack(toServer'[c][j])
      BY <3>4, <3>5
    <3>7. \A k \in DOMAIN toClient'[c] : toClient'[c][k].xid # xid'[c]
      BY <1>5, <3>2
    <3> QED
      BY <3>6, <3>7 DEF SelectingOK, GivesBack
  <2>7. ChosenOK(c)' /\ AckBacked(c)'
    BY <1>7 DEF ChosenOK, AckBacked
  <2>8. until'[c] <= now' + LEASE_DURATION
    BY <1>5 DEF ClientOK
  <2> QED
    BY <2>5, <2>6, <2>7, <2>8 DEF ClientOK
<1> QED
  BY <1>4, <1>5, <1>6, <1>8, ClientStepInv DEF TypeOK

(* A packet that the network loses.                                        *)
LEMMA LosePacketInv ==
    ASSUME IInv, NEW c \in Clients, LosePacket(c)
    PROVE  IInv'
<1> USE DEF IInv
<1> DEFINE s == toServer[c]
<1>1. toServer \in [Clients -> Seq(Packet)] /\ s # <<>> /\ s \in Seq(Packet)
  BY DEF LosePacket, TypeOK
<1>2. /\ toServer' \in [Clients -> Seq(Packet)] /\ toServer'[c] = Tail(s)
      /\ \A d \in Clients : d # c => toServer'[d] = toServer[d]
  BY <1>1, TailEffect DEF LosePacket
<1>3. UNCHANGED <<leaseVars, now, clientVars, toClient, lifeVars>>
  BY DEF LosePacket
<1>4. TypeOK'
  BY <1>2, <1>3 DEF TypeOK, LeaseTypeOK, leaseVars, clientVars, lifeVars
<1>5. \A k \in DOMAIN Tail(s) : k \in Nat /\ k + 1 \in DOMAIN s /\ Tail(s)[k] = s[k + 1]
  BY <1>1, TailFacts
<1>6. ClientOK(c)'
  <2>1. OwnTraffic(c)' /\ ChosenOK(c)'
    BY <1>2, <1>3, <1>5 DEF ClientOK, OwnTraffic, ChosenOK, clientVars
  <2>2. SelectingOK(c)'
    <3> SUFFICES ASSUME phase'[c] = "selecting" PROVE SelectingOK(c)'
      BY DEF SelectingOK
    <3>1. phase[c] = "selecting" /\ SelectingOK(c) /\ xid'[c] = xid[c] /\ toClient' = toClient
      BY <1>3 DEF ClientOK, clientVars
    <3>2. \A k \in DOMAIN toServer'[c] :
             k \in Nat /\ k + 1 \in DOMAIN s /\ toServer'[c][k] = s[k + 1]
      BY <1>2, <1>5
    <3>3. \A k, j \in DOMAIN toServer'[c] : k < j => k + 1 < j + 1
      BY <3>2
    <3>4. \A k, j \in DOMAIN s :
             s[k].type = "discover" /\ s[k].xid = xid[c] /\ k < j => ~GivesBack(s[j])
      BY <3>1 DEF SelectingOK
    <3>5. ASSUME NEW k \in DOMAIN toServer'[c], NEW j \in DOMAIN toServer'[c],
                 toServer'[c][k].type = "discover", toServer'[c][k].xid = xid[c], k < j
          PROVE  ~GivesBack(toServer'[c][j])
      <4>1. s[k + 1].type = "discover" /\ s[k + 1].xid = xid[c] /\ k + 1 < j + 1
        BY <3>2, <3>3, <3>5
      <4> QED
        BY <3>2, <3>4, <4>1
    <3>6. \A k \in DOMAIN toServer'[c] :
             toServer'[c][k].xid = xid[c] => toServer'[c][k].type # "request"
      BY <3>1, <3>2 DEF SelectingOK
    <3>7. \A k \in DOMAIN toClient[c] :
             toClient[c][k].xid = xid[c] =>
                /\ toClient[c][k].type # "ack"
                /\ toClient[c][k].type = "offer" =>
                      \A j \in DOMAIN toServer'[c] : ~GivesBack(toServer'[c][j])
      BY <3>1, <3>2 DEF SelectingOK
    <3> QED
      BY <3>1, <3>5, <3>6, <3>7 DEF SelectingOK, GivesBack
  <2>3. AckBacked(c)' /\ until'[c] <= now' + LEASE_DURATION
    BY <1>3 DEF ClientOK, AckBacked, Backed, OldLease, clientVars, leaseVars, lifeVars
  <2> QED
    BY <2>1, <2>2, <2>3 DEF ClientOK
<1> QED
  BY <1>2, <1>3, <1>4, <1>6, ClientStepInv DEF clientVars

(* A reply that the client throws away, or the network loses.              *)
LEMMA DropReplyInv ==
    ASSUME IInv, NEW c \in Clients, DropReply(c)
    PROVE  IInv'
<1> USE DEF IInv
<1> DEFINE r == toClient[c]
<1>1. toClient \in [Clients -> Seq(Reply)] /\ r # <<>> /\ r \in Seq(Reply)
  BY DEF DropReply, TypeOK
<1>2. /\ toClient' \in [Clients -> Seq(Reply)] /\ toClient'[c] = Tail(r)
      /\ \A d \in Clients : d # c => toClient'[d] = toClient[d]
  BY <1>1, TailEffect DEF DropReply
<1>3. UNCHANGED <<leaseVars, now, clientVars, toServer, lifeVars>>
  BY DEF DropReply
<1>4. TypeOK'
  BY <1>2, <1>3 DEF TypeOK, LeaseTypeOK, leaseVars, clientVars, lifeVars
<1>5. \A k \in DOMAIN Tail(r) : k \in Nat /\ k + 1 \in DOMAIN r /\ Tail(r)[k] = r[k + 1]
  BY <1>1, TailFacts
<1>6. ClientOK(c)'
  <2>1. OwnTraffic(c)' /\ ChosenOK(c)'
    BY <1>2, <1>3, <1>5 DEF ClientOK, OwnTraffic, ChosenOK, clientVars
  <2>2. SelectingOK(c)'
    BY <1>2, <1>3, <1>5 DEF ClientOK, SelectingOK, clientVars
  <2>3. AckBacked(c)' /\ until'[c] <= now' + LEASE_DURATION
    BY <1>2, <1>3, <1>5 DEF ClientOK, AckBacked, Backed, OldLease, clientVars, leaseVars, lifeVars
  <2> QED
    BY <2>1, <2>2, <2>3 DEF ClientOK
<1> QED
  BY <1>2, <1>3, <1>4, <1>6, ClientStepInv DEF clientVars

-----------------------------------------------------------------------------
(* The steps of a client *)

(* A packet and its reply queue stay the client's own when it sends in its *)
(* transaction, whether or not it takes a reply in the same step.          *)
LEMMA OwnSent ==
    ASSUME TypeOK, NEW c \in Clients, OwnTraffic(c), NEW pkt \in Packet,
           pkt.mac = c, pkt.xid = xid[c], xid'[c] = xid[c],
           toServer'[c] = Append(toServer[c], pkt),
           toClient'[c] = toClient[c] \/ (toClient[c] # <<>> /\ toClient'[c] = Tail(toClient[c]))
    PROVE  OwnTraffic(c)'
<1>1. toServer[c] \in Seq(Packet) /\ toClient[c] \in Seq(Reply) /\ xid[c] \in Nat
  BY DEF TypeOK, Xid
<1>2. \A k \in DOMAIN toServer'[c] : toServer'[c][k].mac = c /\ toServer'[c][k].xid <= xid'[c]
  BY <1>1, AppendFacts DEF OwnTraffic
<1>3. \A k \in DOMAIN toClient'[c] : /\ toClient'[c][k].xid <= xid'[c]
                                     /\ toClient'[c][k].type = "offer" => toClient'[c][k].addr \in Pool
  <2>1. CASE toClient'[c] = toClient[c]
    BY <2>1 DEF OwnTraffic
  <2>2. CASE toClient[c] # <<>> /\ toClient'[c] = Tail(toClient[c])
    BY <1>1, <2>2, TailFacts DEF OwnTraffic
  <2> QED
    BY <2>1, <2>2
<1> QED
  BY <1>2, <1>3 DEF OwnTraffic

(* A client that has chosen asks again for its address.                    *)
LEMMA AskAgainInv ==
    ASSUME IInv, NEW c \in Clients, phase[c] \in {"requesting", "bound"}, NEW forUs \in BOOLEAN,
           SendPacket(c, "request", addr[c], xid[c], forUs),
           UNCHANGED <<leaseVars, now, clientVars, toClient, lifeVars>>
    PROVE  IInv'
<1> USE DEF IInv
<1>0. addr[c] \in Pool
  BY DEF ClientOK, ChosenOK
<1>1. PICK pkt \in Packet :
         pkt = [type |-> "request", mac |-> c, addr |-> addr[c], xid |-> xid[c], forUs |-> forUs]
  BY <1>0 DEF Packet, TypeOK
<1>2. /\ toServer' \in [Clients -> Seq(Packet)] /\ toServer'[c] = Append(toServer[c], pkt)
      /\ \A d \in Clients : d # c => toServer'[d] = toServer[d]
  <2>1. toServer' = [toServer EXCEPT ![c] = Append(@, pkt)]
    BY <1>1 DEF SendPacket
  <2> QED
    BY <2>1, SendEffect
<1>3. TypeOK'
  BY <1>2 DEF TypeOK, LeaseTypeOK, leaseVars, clientVars, lifeVars
<1>4. ClientOK(c)'
  <2>1. OwnTraffic(c)'
    <3>1. pkt.mac = c /\ pkt.xid = xid[c]
      BY <1>1
    <3>2. OwnTraffic(c) /\ xid'[c] = xid[c] /\ toClient'[c] = toClient[c]
      BY DEF ClientOK, clientVars
    <3> QED
      BY <1>2, <3>1, <3>2, OwnSent
  <2>2. SelectingOK(c)'
    BY DEF SelectingOK, clientVars
  <2>3. ChosenOK(c)'
    <3>1. toServer[c] \in Seq(Packet) /\ ChosenOK(c) /\ addr' = addr /\ xid' = xid
      BY DEF TypeOK, ClientOK, clientVars
    <3>2. \A k \in DOMAIN toServer'[c] :
             (k \in DOMAIN toServer[c] /\ toServer'[c][k] = toServer[c][k]) \/ toServer'[c][k] = pkt
      BY <1>2, <3>1, AppendFacts
    <3>3. \A k \in DOMAIN toServer[c] :
             /\ ~GivesBack(toServer[c][k])
             /\ toServer[c][k].type = "request" /\ toServer[c][k].xid = xid[c] =>
                   toServer[c][k].addr = addr[c]
      BY <3>1 DEF ChosenOK
    <3>4. ~GivesBack(pkt) /\ pkt.addr = addr[c]
      BY <1>1 DEF GivesBack
    <3>5. \A k \in DOMAIN toServer'[c] : ~GivesBack(toServer'[c][k])
      BY <3>2, <3>3, <3>4
    <3>6. \A k \in DOMAIN toServer'[c] :
             toServer'[c][k].type = "request" /\ toServer'[c][k].xid = xid[c] =>
                toServer'[c][k].addr = addr[c]
      BY <3>2, <3>3, <3>4
    <3> QED
      BY <1>0, <3>1, <3>5, <3>6 DEF ChosenOK, GivesBack
  <2>4. AckBacked(c)' /\ until'[c] <= now' + LEASE_DURATION
    BY DEF ClientOK, AckBacked, Backed, OldLease, clientVars, leaseVars, lifeVars
  <2> QED
    BY <2>1, <2>2, <2>3, <2>4 DEF ClientOK
<1> QED
  BY <1>2, <1>3, <1>4, ClientStepInv DEF clientVars

(* Choosing an offer: no request of this transaction is on its way and     *)
(* nothing that gives a lease back, so no acknowledgement can be waiting.  *)
LEMMA RecvOfferInv ==
    ASSUME IInv, NEW c \in Clients, RecvOffer(c)
    PROVE  IInv'
<1> USE DEF IInv
<1> DEFINE a == Head(toClient[c]).addr
<1>1. /\ toClient \in [Clients -> Seq(Reply)] /\ toClient[c] # <<>>
      /\ toClient[c] \in Seq(Reply) /\ toServer[c] \in Seq(Packet) /\ xid[c] \in Xid
      /\ Head(toClient[c]).type = "offer" /\ Head(toClient[c]).xid = xid[c]
      /\ phase[c] = "selecting"
  BY DEF RecvOffer, RecvReply, TypeOK
<1>2. 1 \in DOMAIN toClient[c] /\ Head(toClient[c]) = toClient[c][1]
  BY <1>1, TailFacts
<1>3. a \in Pool
  BY <1>1, <1>2 DEF ClientOK, OwnTraffic
<1>4. PICK pkt \in Packet :
         pkt = [type |-> "request", mac |-> c, addr |-> a, xid |-> xid[c], forUs |-> TRUE]
  BY <1>1, <1>3 DEF Packet
<1>5. toServer' = [toServer EXCEPT ![c] = Append(@, pkt)]
  BY <1>4 DEF RecvOffer, SendPacket
<1>6. /\ toServer' \in [Clients -> Seq(Packet)] /\ toServer'[c] = Append(toServer[c], pkt)
      /\ \A d \in Clients : d # c => toServer'[d] = toServer[d]
  BY <1>5, SendEffect
<1>7. /\ toClient' \in [Clients -> Seq(Reply)] /\ toClient'[c] = Tail(toClient[c])
      /\ \A d \in Clients : d # c => toClient'[d] = toClient[d]
  BY <1>1, TailEffect DEF RecvOffer, RecvReply
<1>8. /\ UNCHANGED <<leaseVars, now, xid, lifeVars>>
      /\ phase' = [phase EXCEPT ![c] = "requesting"]
      /\ addr' = [addr EXCEPT ![c] = a]
      /\ until' = [until EXCEPT ![c] = now + LEASE_DURATION]
  BY DEF RecvOffer
<1>9. TypeOK'
  BY <1>3, <1>6, <1>7, <1>8, PoolAssumption DEF TypeOK, LeaseTypeOK, leaseVars, lifeVars, Phases
<1>10. phase'[c] = "requesting" /\ addr'[c] = a /\ until'[c] = now + LEASE_DURATION /\ xid'[c] = xid[c]
  BY <1>8 DEF TypeOK
<1>11. ClientOK(c)'
  <2>1. OwnTraffic(c)'
    BY <1>1, <1>4, <1>6, <1>7, <1>10, OwnSent DEF ClientOK
  <2>2. SelectingOK(c)'
    BY <1>10 DEF SelectingOK
  <2>3. /\ \A k \in DOMAIN toServer[c] : /\ toServer[c][k].xid = xid[c] => toServer[c][k].type # "request"
                                         /\ ~GivesBack(toServer[c][k])
        /\ \A k \in DOMAIN toClient[c] : toClient[c][k].xid = xid[c] => toClient[c][k].type # "ack"
    BY <1>1, <1>2 DEF ClientOK, SelectingOK
  <2>4. ChosenOK(c)'
    BY <1>1, <1>3, <1>4, <1>6, <1>10, <2>3, AppendFacts DEF ChosenOK, GivesBack
  <2>5. AckBacked(c)'
    BY <1>1, <1>7, <1>10, <2>3, TailFacts DEF AckBacked
  <2>6. until'[c] <= now' + LEASE_DURATION
    BY <1>8, <1>10, PoolAssumption DEF TypeOK, LeaseTypeOK
  <2> QED
    BY <2>1, <2>2, <2>4, <2>5, <2>6 DEF ClientOK
<1>12. \A d \in Clients \ {c} : phase'[d] = phase[d] /\ addr'[d] = addr[d] /\ until'[d] = until[d] /\ xid'[d] = xid[d]
  BY <1>8 DEF TypeOK
<1> QED
  BY <1>6, <1>7, <1>8, <1>9, <1>11, <1>12, ClientStepInv

(* An acknowledgement that is accepted is backed.                          *)
LEMMA RecvAckInv ==
    ASSUME IInv, NEW c \in Clients, RecvAck(c)
    PROVE  IInv' /\ Backed(c)
<1> USE DEF IInv
<1>1. /\ toClient \in [Clients -> Seq(Reply)] /\ toClient[c] # <<>> /\ toClient[c] \in Seq(Reply)
      /\ Head(toClient[c]).type = "ack" /\ Head(toClient[c]).xid = xid[c]
      /\ phase[c] = "requesting"
  BY DEF RecvAck, RecvReply, TypeOK
<1>2. 1 \in DOMAIN toClient[c] /\ Head(toClient[c]) = toClient[c][1]
  BY <1>1, TailFacts
<1>3. Backed(c)
  BY <1>1, <1>2 DEF ClientOK, AckBacked
<1>4. /\ toClient' \in [Clients -> Seq(Reply)] /\ toClient'[c] = Tail(toClient[c])
      /\ \A d \in Clients : d # c => toClient'[d] = toClient[d]
  BY <1>1, TailEffect DEF RecvAck, RecvReply
<1>5. /\ UNCHANGED <<leaseVars, now, addr, until, xid, toServer, lifeVars>>
      /\ phase' = [phase EXCEPT ![c] = "bound"]
  BY DEF RecvAck
<1>6. TypeOK'
  BY <1>4, <1>5 DEF TypeOK, LeaseTypeOK, leaseVars, lifeVars, Phases
<1>7. /\ phase'[c] = "bound"
      /\ \A d \in Clients \ {c} : phase'[d] = phase[d]
  BY <1>5 DEF TypeOK
<1>8. ClientOK(c)'
  <2>1. OwnTraffic(c)'
    BY <1>1, <1>4, <1>5, TailFacts DEF ClientOK, OwnTraffic
  <2>2. SelectingOK(c)' /\ ChosenOK(c)'
    BY <1>1, <1>5, <1>7 DEF ClientOK, SelectingOK, ChosenOK
  <2>3. AckBacked(c)' /\ until'[c] <= now' + LEASE_DURATION
    BY <1>3, <1>5 DEF ClientOK, AckBacked, Backed, OldLease, leaseVars, lifeVars
  <2> QED
    BY <2>1, <2>2, <2>3 DEF ClientOK
<1> QED
  BY <1>3, <1>4, <1>5, <1>6, <1>7, <1>8, ClientStepInv

(* A client that begins again has no claims.                               *)
LEMMA ToInitOK ==
    ASSUME IInv, NEW c \in Clients, ToInit(c), now' = now, OwnTraffic(c)'
    PROVE  /\ ClientOK(c)'
           /\ phase' \in [Clients -> Phases] /\ addr' \in [Clients -> Pool \cup {NoAddr}]
           /\ until' \in [Clients -> Nat]
           /\ \A d \in Clients \ {c} :
                 phase'[d] = phase[d] /\ addr'[d] = addr[d] /\ until'[d] = until[d]
<1>1. phase'[c] = "init" /\ until'[c] = 0
  BY DEF IInv, TypeOK, ToInit
<1>2. until'[c] <= now' + LEASE_DURATION
  BY <1>1, PoolAssumption DEF IInv, TypeOK, LeaseTypeOK
<1>3. ClientOK(c)'
  BY <1>1, <1>2 DEF ClientOK, SelectingOK, ChosenOK, AckBacked
<1> QED
  BY <1>3 DEF IInv, TypeOK, ToInit, Phases

LEMMA RecvNakInv ==
    ASSUME IInv, NEW c \in Clients, RecvNak(c)
    PROVE  IInv'
<1>1. toClient \in [Clients -> Seq(Reply)] /\ toClient[c] # <<>> /\ toClient[c] \in Seq(Reply)
  BY DEF IInv, RecvNak, RecvReply, TypeOK
<1>2. /\ toClient' \in [Clients -> Seq(Reply)] /\ toClient'[c] = Tail(toClient[c])
      /\ \A d \in Clients : d # c => toClient'[d] = toClient[d]
  BY <1>1, TailEffect DEF RecvNak, RecvReply
<1>3. ToInit(c) /\ UNCHANGED <<leaseVars, now, xid, toServer, lifeVars>>
  BY DEF RecvNak
<1>4. OwnTraffic(c)'
  BY <1>1, <1>2, <1>3, TailFacts DEF IInv, ClientOK, OwnTraffic
<1>5. /\ ClientOK(c)'
      /\ phase' \in [Clients -> Phases] /\ addr' \in [Clients -> Pool \cup {NoAddr}]
      /\ until' \in [Clients -> Nat]
      /\ \A d \in Clients \ {c} :
            phase'[d] = phase[d] /\ addr'[d] = addr[d] /\ until'[d] = until[d]
  BY <1>3, <1>4, ToInitOK
<1>6. TypeOK'
  BY <1>2, <1>3, <1>5 DEF IInv, TypeOK, LeaseTypeOK, leaseVars, lifeVars
<1> QED
  BY <1>2, <1>3, <1>5, <1>6, ClientStepInv

LEMMA ForgetInv ==
    ASSUME IInv, NEW c \in Clients, Forget(c)
    PROVE  IInv'
<1>1. ToInit(c) /\ UNCHANGED <<leaseVars, now, xid, wireVars, lifeVars>>
  BY DEF Forget
<1>2. OwnTraffic(c)'
  BY <1>1 DEF IInv, ClientOK, OwnTraffic, wireVars
<1>3. /\ ClientOK(c)'
      /\ phase' \in [Clients -> Phases] /\ addr' \in [Clients -> Pool \cup {NoAddr}]
      /\ until' \in [Clients -> Nat]
      /\ \A d \in Clients \ {c} :
            phase'[d] = phase[d] /\ addr'[d] = addr[d] /\ until'[d] = until[d]
  BY <1>1, <1>2, ToInitOK
<1>4. TypeOK'
  BY <1>1, <1>3 DEF IInv, TypeOK, LeaseTypeOK, leaseVars, lifeVars, wireVars
<1> QED
  BY <1>1, <1>3, <1>4, ClientStepInv DEF wireVars

(* Giving an address back ends its use in the same step.                   *)
LEMMA RelinquishInv ==
    ASSUME IInv, NEW c \in Clients, Relinquish(c)
    PROVE  IInv'
<1>1. PICK type \in {"release", "decline"} : SendPacket(c, type, addr[c], xid[c], TRUE)
  BY DEF Relinquish
<1>2. PICK pkt \in Packet :
         pkt = [type |-> type, mac |-> c, addr |-> addr[c], xid |-> xid[c], forUs |-> TRUE]
  BY DEF IInv, TypeOK, Packet
<1>3. /\ toServer' \in [Clients -> Seq(Packet)] /\ toServer'[c] = Append(toServer[c], pkt)
      /\ \A d \in Clients : d # c => toServer'[d] = toServer[d]
  <2>1. toServer' = [toServer EXCEPT ![c] = Append(@, pkt)]
    BY <1>1, <1>2 DEF SendPacket
  <2> QED
    BY <2>1, SendEffect DEF IInv
<1>4. ToInit(c) /\ UNCHANGED <<leaseVars, now, xid, toClient, lifeVars>>
  BY DEF Relinquish
<1>5. OwnTraffic(c)'
  <2>1. pkt.mac = c /\ pkt.xid = xid[c]
    BY <1>2
  <2>2. TypeOK /\ OwnTraffic(c) /\ xid'[c] = xid[c] /\ toClient'[c] = toClient[c]
    BY <1>4 DEF IInv, ClientOK
  <2> QED
    BY <1>3, <2>1, <2>2, OwnSent
<1>6. /\ ClientOK(c)'
      /\ phase' \in [Clients -> Phases] /\ addr' \in [Clients -> Pool \cup {NoAddr}]
      /\ until' \in [Clients -> Nat]
      /\ \A d \in Clients \ {c} :
            phase'[d] = phase[d] /\ addr'[d] = addr[d] /\ until'[d] = until[d]
  BY <1>4, <1>5, ToInitOK
<1>7. TypeOK'
  BY <1>3, <1>4, <1>6 DEF IInv, TypeOK, LeaseTypeOK, leaseVars, lifeVars
<1> QED
  BY <1>3, <1>4, <1>6, <1>7, ClientStepInv

-----------------------------------------------------------------------------
(* The clock and the program *)

(* Time backs no less than before.                                         *)
LEMMA TickInv == IInv /\ Tick => IInv'
<1> SUFFICES ASSUME IInv, Tick PROVE IInv'
  OBVIOUS
<1> USE DEF IInv
<1>1. /\ now \in Nat /\ now' = now + 1 /\ now' \in Nat /\ now' >= now
      /\ UNCHANGED <<leaseVars, clientVars, wireVars, lifeVars>>
  BY DEF Tick, TypeOK, LeaseTypeOK
<1>2. TypeOK'
  BY <1>1 DEF TypeOK, LeaseTypeOK, leaseVars, clientVars, wireVars, lifeVars
<1>3. ASSUME NEW d \in Clients PROVE ClientOK(d)'
  <2>1. Backed(d) => Backed(d)'
    BY <1>1, BackedStays DEF leaseVars, clientVars, lifeVars
  <2> QED
    BY <1>1, <2>1, UntouchedOK DEF clientVars, wireVars
<1>4. bornAt' <= now'
  BY <1>1 DEF TypeOK, LeaseTypeOK, lifeVars
<1> QED
  BY <1>2, <1>3, <1>4

(* A restart backs nothing, but every lease is then older than the server. *)
LEMMA RestartInv == IInv /\ Restart => IInv'
<1> SUFFICES ASSUME IInv, Restart PROVE IInv'
  OBVIOUS
<1> USE DEF IInv
<1>1. /\ restarts' = restarts + 1 /\ restarts' \in 0 .. MaxRestarts /\ restarts' > 0
      /\ bornAt' = now /\ now' = now /\ now \in Nat
      /\ UNCHANGED <<clientVars, wireVars>> /\ LeaseReset
  BY RestartsAssumption DEF Restart, TypeOK, LeaseTypeOK
<1>2. TypeOK'
  BY <1>1, PoolAssumption DEF TypeOK, LeaseTypeOK, LeaseReset, Pool, clientVars, wireVars
<1>3. ASSUME NEW d \in Clients PROVE ClientOK(d)'
  <2>1. Backed(d)'
    BY <1>1 DEF ClientOK, Backed, OldLease, clientVars
  <2>2. now' \in Nat /\ now' >= now
    BY <1>1
  <2> QED
    BY <1>1, <2>1, <2>2, UntouchedOK DEF clientVars, wireVars
<1> QED
  BY <1>1, <1>2, <1>3

-----------------------------------------------------------------------------
(* The server *)

(* Handling a packet takes the backing of no other client away: an entry   *)
(* of another one is only taken over once it has expired.                  *)
LEMMA OthersBacked ==
    ASSUME TypeOK, NEW pkt \in Packet, NEW d \in Clients, d # pkt.mac,
           addr[d] \in Pool, Backed(d), EntryChange(pkt, addr[d]),
           UNCHANGED <<now, clientVars, lifeVars>>
    PROVE  Backed(d)'
<1>1. d # Nobody /\ now \in Nat /\ until[d] \in Nat /\ expiry[addr[d]] \in Nat
  BY MarkerAssumption DEF TypeOK, LeaseTypeOK
<1>2. now' = now /\ addr'[d] = addr[d] /\ until'[d] = until[d] /\ (OldLease(d) => OldLease(d)')
  BY DEF clientVars, lifeVars, OldLease
<1>3. CASE owner[addr[d]] = d /\ expiry[addr[d]] >= until[d] /\ now <= until[d]
  <2>1. owner'[addr[d]] = owner[addr[d]] /\ expiry'[addr[d]] = expiry[addr[d]]
    BY <1>1, <1>3 DEF EntryChange
  <2> QED
    BY <1>2, <1>3, <2>1 DEF Backed
<1> QED
  BY <1>1, <1>2, <1>3 DEF Backed

(* The sender keeps its own backing unless it gives something back.        *)
LEMMA SenderBacked ==
    ASSUME TypeOK, NEW pkt \in Packet, NEW c \in Clients, c = pkt.mac,
           until[c] <= now + LEASE_DURATION, ~GivesBack(pkt),
           addr[c] \in Pool, Backed(c), EntryChange(pkt, addr[c]),
           UNCHANGED <<now, clientVars, lifeVars>>
    PROVE  Backed(c)'
<1>1. now' = now /\ addr'[c] = addr[c] /\ until'[c] = until[c] /\ (OldLease(c) => OldLease(c)')
  BY DEF clientVars, lifeVars, OldLease
<1>2. CASE owner'[addr[c]] = owner[addr[c]] /\ expiry'[addr[c]] = expiry[addr[c]]
  BY <1>1, <1>2 DEF Backed
<1>3. CASE owner'[addr[c]] = c /\ expiry'[addr[c]] = now + LEASE_DURATION
  BY <1>1, <1>3 DEF Backed
<1> QED
  BY <1>2, <1>3 DEF EntryChange

(* The server handles the first packet of a client and may answer it.      *)
LEMMA ServerStepInv ==
    ASSUME IInv, NEW c \in Clients, ServerStep(c)
    PROVE  IInv'
<1> USE DEF IInv
<1> DEFINE s == toServer[c]
           q == toClient[c]
<1>1. /\ toServer \in [Clients -> Seq(Packet)] /\ s # <<>> /\ s \in Seq(Packet)
      /\ toClient \in [Clients -> Seq(Reply)] /\ q \in Seq(Reply)
      /\ LeaseTypeOK /\ xid[c] \in Nat /\ ClientOK(c)
  BY DEF ServerStep, TypeOK, Xid
<1>2. 1 \in DOMAIN s /\ Head(s) = s[1] /\ Head(s) \in Packet
  BY <1>1, TailFacts
<1>3. PICK pkt \in Packet : pkt = s[1]
  BY <1>2
<1>4. PICK r \in Reply \cup {NoReply} :
         /\ HandleRequest(pkt, r)
         /\ toClient' = IF r = NoReply THEN toClient ELSE [toClient EXCEPT ![c] = Append(@, r)]
  BY <1>2, <1>3 DEF ServerStep
<1>5. /\ owner' \in [Pool -> Clients \cup {Nobody}] /\ expiry' \in [Pool -> Nat]
      /\ last_lease' \in Pool
      /\ \A a \in Pool : EntryChange(pkt, a)
      /\ AnswerTo(pkt, r)
  BY <1>1, <1>4, HandleEffect
<1>6. /\ toServer' \in [Clients -> Seq(Packet)] /\ toServer'[c] = Tail(s)
      /\ \A d \in Clients : d # c => toServer'[d] = toServer[d]
  BY <1>1, TailEffect DEF ServerStep
<1>7. UNCHANGED <<now, clientVars, lifeVars>>
  BY DEF ServerStep
<1>8. /\ toClient' \in [Clients -> Seq(Reply)]
      /\ \A d \in Clients : d # c => toClient'[d] = toClient[d]
      /\ \A k \in DOMAIN toClient'[c] : \/ k \in DOMAIN q /\ toClient'[c][k] = q[k]
                                        \/ r \in Reply /\ toClient'[c][k] = r
  <2>1. CASE r = NoReply
    BY <1>1, <1>4, <2>1
  <2>2. CASE r # NoReply
    <3>1. r \in Reply /\ toClient' = [toClient EXCEPT ![c] = Append(q, r)]
      BY <1>4, <2>2
    <3>2. Append(q, r) \in Seq(Reply)
      BY <1>1, <3>1, AppendFacts
    <3>3. /\ toClient' \in [Clients -> Seq(Reply)] /\ toClient'[c] = Append(q, r)
          /\ \A d \in Clients : d # c => toClient'[d] = toClient[d]
      BY <1>1, <3>1, <3>2, ExceptFacts
    <3> QED
      BY <1>1, <3>1, <3>3, AppendFacts
  <2> QED
    BY <2>1, <2>2
<1>9. TypeOK'
  BY <1>5, <1>6, <1>7, <1>8 DEF TypeOK, LeaseTypeOK, clientVars, lifeVars
<1>10. pkt.mac = c /\ pkt.xid <= xid[c] /\ pkt.xid \in Nat
  BY <1>2, <1>3, WireTypes DEF ClientOK, OwnTraffic
<1>11. \A k \in DOMAIN Tail(s) :
          k \in Nat /\ 1 < k + 1 /\ k + 1 \in DOMAIN s /\ Tail(s)[k] = s[k + 1]
  BY <1>1, TailFacts
<1>12. /\ phase' = phase /\ addr' = addr /\ until' = until /\ xid' = xid
       /\ now' = now /\ now' \in Nat /\ now' >= now /\ restarts' = restarts /\ bornAt' = bornAt
  BY <1>1, <1>7 DEF clientVars, lifeVars, LeaseTypeOK
<1>13. r \in Reply => r.type # "none"
  BY DEF Reply
<1>14. ASSUME NEW d \in Clients, d # c PROVE ClientOK(d)'
  <2>1. addr[d] \in Pool /\ Backed(d) => Backed(d)'
    BY <1>5, <1>7, <1>10, <1>14, OthersBacked
  <2> QED
    BY <1>6, <1>8, <1>12, <1>14, <2>1, UntouchedOK
<1>15. OwnTraffic(c)'
  <2>1. \A k \in DOMAIN toServer'[c] : toServer'[c][k].mac = c /\ toServer'[c][k].xid <= xid'[c]
    BY <1>1, <1>6, <1>11, <1>12 DEF ClientOK, OwnTraffic
  <2>2. r \in Reply => r.xid <= xid[c] /\ (r.type = "offer" => r.addr \in Pool)
    BY <1>5, <1>10 DEF AnswerTo, Reply, NoReply
  <2>3. \A k \in DOMAIN toClient'[c] :
           /\ toClient'[c][k].xid <= xid'[c]
           /\ toClient'[c][k].type = "offer" => toClient'[c][k].addr \in Pool
    BY <1>1, <1>8, <1>12, <2>2 DEF ClientOK, OwnTraffic
  <2> QED
    BY <2>1, <2>3 DEF OwnTraffic
<1>16. SelectingOK(c)'
  <2> SUFFICES ASSUME phase[c] = "selecting" PROVE SelectingOK(c)'
    BY <1>12 DEF SelectingOK
  <2>1. SelectingOK(c)
    BY <1>1 DEF ClientOK
  <2>2. \A k \in DOMAIN toServer'[c] :
           k \in Nat /\ 1 < k + 1 /\ k + 1 \in DOMAIN s /\ toServer'[c][k] = s[k + 1]
    BY <1>6, <1>11
  <2>3. \A k \in DOMAIN toServer'[c] :
           toServer'[c][k].xid = xid[c] => toServer'[c][k].type # "request"
    BY <2>1, <2>2 DEF SelectingOK
  <2>4. \A k, j \in DOMAIN s :
           s[k].type = "discover" /\ s[k].xid = xid[c] /\ k < j => ~GivesBack(s[j])
    BY <2>1 DEF SelectingOK
  <2>5. ASSUME NEW k \in DOMAIN toServer'[c], NEW j \in DOMAIN toServer'[c],
               toServer'[c][k].type = "discover", toServer'[c][k].xid = xid[c], k < j
        PROVE  ~GivesBack(toServer'[c][j])
    <3>1. k + 1 < j + 1
      BY <2>2, <2>5
    <3>2. s[k + 1].type = "discover" /\ s[k + 1].xid = xid[c]
      BY <2>2, <2>5
    <3> QED
      BY <2>2, <2>4, <3>1, <3>2
  <2>6. ASSUME NEW k \in DOMAIN q, q[k].xid = xid[c]
        PROVE  /\ q[k].type # "ack"
               /\ q[k].type = "offer" => \A j \in DOMAIN toServer'[c] : ~GivesBack(toServer'[c][j])
    BY <2>1, <2>2, <2>6 DEF SelectingOK
  <2>7. ASSUME r \in Reply, r.xid = xid[c]
        PROVE  /\ r.type # "ack"
               /\ r.type = "offer" => \A j \in DOMAIN toServer'[c] : ~GivesBack(toServer'[c][j])
    <3>1. r # NoReply
      BY <1>13, <2>7 DEF NoReply
    <3>2. r.type # "ack"
      <4>1. pkt.xid = xid[c] => pkt.type # "request"
        BY <1>2, <1>3, <2>1 DEF SelectingOK
      <4> QED
        BY <1>5, <2>7, <3>1, <4>1 DEF AnswerTo
    <3>3. ASSUME r.type = "offer", NEW j \in DOMAIN toServer'[c]
          PROVE  ~GivesBack(toServer'[c][j])
      <4>1. s[1].type = "discover" /\ s[1].xid = xid[c]
        BY <1>3, <1>5, <2>7, <3>1, <3>3 DEF AnswerTo
      <4> QED
        BY <1>2, <2>2, <2>4, <4>1
    <3> QED
      BY <3>2, <3>3
  <2>8. \A k \in DOMAIN toClient'[c] :
           toClient'[c][k].xid = xid[c] =>
              /\ toClient'[c][k].type # "ack"
              /\ toClient'[c][k].type = "offer" =>
                    \A j \in DOMAIN toServer'[c] : ~GivesBack(toServer'[c][j])
    BY <1>8, <2>6, <2>7
  <2> QED
    BY <1>12, <2>3, <2>5, <2>8 DEF SelectingOK, GivesBack
<1>17. ChosenOK(c)'
  <2> SUFFICES ASSUME phase[c] \in {"requesting", "bound"} PROVE ChosenOK(c)'
    BY <1>12 DEF ChosenOK
  <2>1. ChosenOK(c)
    BY <1>1 DEF ClientOK
  <2> QED
    BY <1>6, <1>11, <1>12, <2>1 DEF ChosenOK, GivesBack
<1>18. AckBacked(c)'
  <2> SUFFICES ASSUME phase[c] \in {"requesting", "bound"},
                      \/ phase[c] = "bound"
                      \/ \E k \in DOMAIN toClient'[c] :
                            toClient'[c][k].type = "ack" /\ toClient'[c][k].xid = xid[c]
               PROVE  Backed(c)'
    BY <1>12 DEF AckBacked
  <2>1. ChosenOK(c) /\ AckBacked(c) /\ until[c] <= now + LEASE_DURATION /\ addr[c] \in Pool
    BY <1>1 DEF ClientOK, ChosenOK
  <2>2. ~GivesBack(pkt) /\ (pkt.type = "request" /\ pkt.xid = xid[c] => pkt.addr = addr[c])
    BY <1>2, <1>3, <2>1 DEF ChosenOK
  <2>3. Backed(c) => Backed(c)'
    BY <1>5, <1>7, <1>10, <2>1, <2>2, SenderBacked
  <2>4. CASE \/ phase[c] = "bound"
             \/ \E k \in DOMAIN q : q[k].type = "ack" /\ q[k].xid = xid[c]
    BY <2>1, <2>3, <2>4 DEF AckBacked
  <2>5. CASE r \in Reply /\ r.type = "ack" /\ r.xid = xid[c]
    <3>1. owner'[pkt.addr] = c /\ expiry'[pkt.addr] = now + LEASE_DURATION
          /\ pkt.type = "request" /\ pkt.xid = xid[c]
      BY <1>5, <1>10, <2>5 DEF AnswerTo, NoReply
    <3> QED
      BY <1>12, <2>1, <2>2, <3>1 DEF Backed
  <2> QED
    BY <1>8, <2>4, <2>5
<1>19. until'[c] <= now' + LEASE_DURATION /\ bornAt' <= now'
  BY <1>1, <1>12 DEF ClientOK
<1> QED
  BY <1>9, <1>14, <1>15, <1>16, <1>17, <1>18, <1>19 DEF ClientOK

-----------------------------------------------------------------------------
(* The whole system *)

LEMMA NextInv == IInv /\ [Next]_vars => IInv'
<1> SUFFICES ASSUME IInv, [Next]_vars PROVE IInv'
  OBVIOUS
<1>1. ASSUME NEW c \in Clients, ClientStep(c) PROVE IInv'
  <2>1. CASE Discover(c) BY <2>1, DiscoverInv
  <2>2. CASE RecvOffer(c) BY <2>2, RecvOfferInv
  <2>3. CASE ResendRequest(c) BY <2>3, AskAgainInv DEF ResendRequest
  <2>4. CASE RecvAck(c) BY <2>4, RecvAckInv
  <2>5. CASE RecvNak(c) BY <2>5, RecvNakInv
  <2>6. CASE Renew(c) BY <2>6, AskAgainInv DEF Renew
  <2>7. CASE Relinquish(c) BY <2>7, RelinquishInv
  <2>8. CASE Forget(c) BY <2>8, ForgetInv
  <2> QED
    BY <1>1, <2>1, <2>2, <2>3, <2>4, <2>5, <2>6, <2>7, <2>8 DEF ClientStep
<1>2. ASSUME NEW c \in Clients, NetworkStep(c) PROVE IInv'
  BY <1>2, DropReplyInv, LosePacketInv DEF NetworkStep
<1>3. CASE UNCHANGED vars
  BY <1>3 DEF vars, IInv, TypeOK, LeaseTypeOK, ClientOK, OwnTraffic, SelectingOK, ChosenOK,
              AckBacked, Backed, OldLease, leaseVars, clientVars, wireVars, lifeVars
<1> QED
  BY <1>1, <1>2, <1>3, ServerStepInv, TickInv, RestartInv DEF Next

LEMMA Invariance == Spec => []IInv
BY InitInv, NextInv, PTL DEF Spec

(* What the invariant says of the clients that use an address.             *)
LEMMA BackedUse ==
    ASSUME IInv, NEW c \in Clients, NEW a \in Pool, Using(c, a)
    PROVE  (owner[a] = c /\ expiry[a] >= until[c]) \/ OldLease(c)
<1>1. AckBacked(c) /\ now \in Nat /\ until[c] \in Nat
  BY DEF IInv, ClientOK, TypeOK, LeaseTypeOK
<1> QED
  BY <1>1 DEF AckBacked, Backed, Using

(* The types of the table, of the clients and of the network.              *)
THEOREM TypeCorrect == Spec => []TypeOK
BY Invariance, PTL DEF IInv

(* An address in use is leased to its user for as long as it will be used, *)
(* unless an earlier server gave the lease: for every number of clients    *)
(* and addresses (dhcp_server.rs:83-140).                                  *)
THEOREM UseIsAlwaysLeased == Spec => []UseIsLeased
<1>1. IInv => UseIsLeased
  BY BackedUse DEF UseIsLeased
<1> QED
  BY <1>1, Invariance, PTL

(* No two clients use one address at a time, except, after a restart, for  *)
(* one lease time at most (dhcp.rs:62, dhcp_server.rs:83-113).             *)
THEOREM NeverAssignedTwice == Spec => []NoDoubleAssignment
<1>1. ASSUME IInv, NEW c \in Clients, NEW d \in Clients, NEW a \in Pool,
             Using(c, a), Using(d, a), c # d
      PROVE  restarts > 0 /\ now <= bornAt + LEASE_DURATION
  <2>1. OldLease(c) \/ OldLease(d)
    BY <1>1, BackedUse
  <2>2. /\ now \in Nat /\ bornAt \in Nat /\ LEASE_DURATION \in Nat
        /\ until[c] \in Nat /\ until[d] \in Nat
    BY <1>1, PoolAssumption DEF IInv, TypeOK, LeaseTypeOK
  <2> QED
    BY <1>1, <2>1, <2>2 DEF Using, OldLease
<1>2. IInv => NoDoubleAssignment
  BY <1>1 DEF NoDoubleAssignment
<1> QED
  BY <1>2, Invariance, PTL

-----------------------------------------------------------------------------
(* What was granted *)

(* What a grant promises to one client, see GrantNotRefused.               *)
GrantKept(c) ==
    now <= until[c] /\ ~OldLease(c) =>
       \A k \in DOMAIN toClient[c] : Answers(c, k, "nak") =>
          /\ phase[c] # "bound"
          /\ phase[c] = "requesting" => \A j \in 1 .. k - 1 : ~Answers(c, j, "ack")

(* Only a request for an address that is not available to its sender is    *)
(* refused.                                                                *)
LEMMA RefusedWhenTaken ==
    ASSUME NEW pkt \in Packet, NEW r \in Reply \cup {NoReply}, HandleRequest(pkt, r), r.type = "nak"
    PROVE  pkt.type = "request" /\ pkt.xid = r.xid /\ ~Available(pkt.mac, pkt.addr)
BY DEF HandleRequest, OfferWanted, OfferCurrent, OfferFree, AckRequest, NakRequest, GiveBack,
       NotForUs, Answer, NoReply

(* Nothing changes for a client while its own state and its replies stay,  *)
(* whatever happens to the table and to the clock.                         *)
LEMMA GrantUntouched ==
    ASSUME TypeOK, NEW d \in Clients, GrantKept(d), now' \in Nat, now' >= now,
           phase'[d] = phase[d], until'[d] = until[d], xid'[d] = xid[d],
           toClient'[d] = toClient[d], OldLease(d) => OldLease(d)'
    PROVE  GrantKept(d)'
<1>1. now \in Nat /\ until[d] \in Nat
  BY DEF TypeOK, LeaseTypeOK
<1> QED
  BY <1>1 DEF GrantKept, Answers

(* The first reply is taken off the wire.                                  *)
LEMMA GrantTail ==
    ASSUME TypeOK, NEW c \in Clients, GrantKept(c), UNCHANGED <<now, until, xid, lifeVars>>,
           toClient[c] # <<>>, toClient'[c] = Tail(toClient[c]),
           \/ phase'[c] = phase[c]
           \/ phase'[c] \notin {"requesting", "bound"}
           \/ phase[c] = "requesting" /\ Answers(c, 1, "ack")
    PROVE  GrantKept(c)'
<1>1. toClient[c] \in Seq(Reply)
  BY DEF TypeOK
<1>2. \A k \in DOMAIN Tail(toClient[c]) :
         /\ k \in Nat /\ 1 < k + 1 /\ k + 1 \in DOMAIN toClient[c]
         /\ Tail(toClient[c])[k] = toClient[c][k + 1]
  BY <1>1, TailFacts
<1> SUFFICES ASSUME now <= until[c], ~OldLease(c), NEW k \in DOMAIN Tail(toClient[c]),
                    Answers(c, k + 1, "nak"), phase'[c] \in {"requesting", "bound"}
             PROVE  /\ phase'[c] # "bound"
                    /\ \A j \in 1 .. k - 1 : ~Answers(c, j + 1, "ack")
  <2>1. OldLease(c)' <=> OldLease(c)
    BY DEF OldLease, lifeVars
  <2>2. ASSUME NEW k \in DOMAIN Tail(toClient[c]), NEW t
        PROVE  Answers(c, k, t)' <=> Answers(c, k + 1, t)
    BY <1>2, <2>2 DEF Answers
  <2>3. ASSUME NEW k \in DOMAIN Tail(toClient[c]), NEW j \in 1 .. k - 1
        PROVE  j \in DOMAIN Tail(toClient[c])
    <3>1. Tail(toClient[c]) \in Seq(Reply)
      BY <1>1, TailFacts
    <3> QED
      BY <2>3, <3>1
  <2> QED
    BY <2>1, <2>2, <2>3 DEF GrantKept
<1>3. k \in Nat /\ k + 1 \in DOMAIN toClient[c] /\ 1 \in 1 .. (k + 1) - 1
  BY <1>2
<1>4. ~(phase[c] = "requesting" /\ Answers(c, 1, "ack"))
  BY <1>3 DEF GrantKept
<1>5. phase'[c] = phase[c]
  BY <1>4
<1>6. \A j \in 1 .. k - 1 : j + 1 \in 1 .. (k + 1) - 1
  BY <1>3
<1> QED
  BY <1>3, <1>5, <1>6 DEF GrantKept

(* The server answers: a request of this transaction asks for the address  *)
(* that the grant before it leased to the client.                          *)
LEMMA GrantAnswered ==
    ASSUME IInv, NEW c \in Clients, ServerStep(c), GrantKept(c)
    PROVE  GrantKept(c)'
<1> USE DEF IInv
<1> DEFINE q == toClient[c]
<1>1. /\ toServer[c] \in Seq(Packet) /\ toServer[c] # <<>> /\ q \in Seq(Reply)
      /\ toClient \in [Clients -> Seq(Reply)] /\ ClientOK(c)
      /\ now \in Nat /\ until[c] \in Nat
      /\ UNCHANGED <<now, clientVars, lifeVars>>
  BY DEF ServerStep, TypeOK, LeaseTypeOK
<1>2. 1 \in DOMAIN toServer[c] /\ Head(toServer[c]) = toServer[c][1] /\ Head(toServer[c]) \in Packet
  BY <1>1, TailFacts
<1>3. PICK pkt \in Packet : pkt = toServer[c][1]
  BY <1>2
<1>4. PICK r \in Reply \cup {NoReply} :
         /\ HandleRequest(pkt, r)
         /\ toClient' = IF r = NoReply THEN toClient ELSE [toClient EXCEPT ![c] = Append(@, r)]
  BY <1>2, <1>3 DEF ServerStep
<1>5. phase' = phase /\ until' = until /\ xid' = xid /\ (OldLease(c) => OldLease(c)')
  BY <1>1 DEF clientVars, lifeVars, OldLease
<1>6. CASE r = NoReply
  BY <1>1, <1>4, <1>5, <1>6, GrantUntouched
<1>7. CASE r # NoReply
  <2>1. r \in Reply /\ toClient' = [toClient EXCEPT ![c] = Append(q, r)]
    BY <1>4, <1>7
  <2>2. toClient'[c] = Append(q, r)
    BY <1>1, <2>1
  <2>0. PICK n \in Nat : n = Len(q)
    BY <1>1
  <2>3. /\ \A k \in DOMAIN q : k \in Nat /\ k < n + 1 /\ toClient'[c][k] = q[k]
        /\ \A k \in DOMAIN toClient'[c] : k \in DOMAIN q \/ k = n + 1
        /\ toClient'[c][n + 1] = r
    BY <1>1, <2>0, <2>1, <2>2, AppendFacts
  <2>4. \A k \in DOMAIN q : \A j \in 1 .. k - 1 : j \in DOMAIN q
    BY <1>1
  <2>5. \A j \in 1 .. (n + 1) - 1 : j \in DOMAIN q
    BY <1>1, <2>0
  <2>6. ASSUME NEW k \in DOMAIN q, NEW t PROVE Answers(c, k, t)' <=> Answers(c, k, t)
    BY <1>5, <2>3, <2>6 DEF Answers
  <2> SUFFICES ASSUME now <= until[c], ~OldLease(c), r.type = "nak", r.xid = xid[c],
                      \/ phase[c] = "bound"
                      \/ phase[c] = "requesting" /\ \E j \in DOMAIN q : Answers(c, j, "ack")
               PROVE  FALSE
    <3>1. ~OldLease(c)' => ~OldLease(c)
      BY <1>5
    <3>2. ASSUME NEW k \in DOMAIN q, now <= until[c], ~OldLease(c), Answers(c, k, "nak")'
          PROVE  /\ phase'[c] # "bound"
                 /\ phase'[c] = "requesting" => \A j \in 1 .. k - 1 : ~Answers(c, j, "ack")'
      BY <1>5, <2>4, <2>6, <3>2 DEF GrantKept
    <3>3. ASSUME now <= until[c], ~OldLease(c), Answers(c, n + 1, "nak")'
          PROVE  /\ phase'[c] # "bound"
                 /\ phase'[c] = "requesting" =>
                       \A j \in 1 .. (n + 1) - 1 : ~Answers(c, j, "ack")'
      <4>1. r.type = "nak" /\ r.xid = xid[c]
        BY <1>5, <2>3, <3>3 DEF Answers
      <4> QED
        BY <1>5, <2>5, <2>6, <3>3, <4>1
    <3> QED
      BY <1>1, <1>5, <2>3, <3>1, <3>2, <3>3 DEF GrantKept
  <2>7. pkt.type = "request" /\ pkt.xid = xid[c] /\ ~Available(pkt.mac, pkt.addr)
    BY <1>4, RefusedWhenTaken
  <2>8. pkt.mac = c /\ pkt.addr = addr[c] /\ addr[c] \in Pool
    BY <1>1, <1>2, <1>3, <2>7 DEF ClientOK, OwnTraffic, ChosenOK
  <2>9. owner[addr[c]] = c
    BY <1>1 DEF ClientOK, AckBacked, Answers, Backed
  <2> QED
    BY <2>7, <2>8, <2>9 DEF Available
<1> QED
  BY <1>6, <1>7

(* Every other step: only the choice of an offer begins to wait for a      *)
(* grant, and no acknowledgement of its transaction is on its way then.    *)
LEMMA GrantStep ==
    ASSUME IInv, [Next]_vars, NEW d \in Clients, GrantKept(d)
    PROVE  GrantKept(d)'
<1> USE DEF IInv
<1>1. now \in Nat /\ toClient \in [Clients -> Seq(Reply)] /\ toClient[d] \in Seq(Reply)
  BY DEF TypeOK, LeaseTypeOK
<1>2. CASE UNCHANGED vars
  BY <1>1, <1>2, GrantUntouched DEF vars, clientVars, wireVars, lifeVars, OldLease
<1>3. CASE Tick
  BY <1>1, <1>3, GrantUntouched DEF Tick, clientVars, wireVars, lifeVars, OldLease
<1>4. CASE Restart
  <2>1. now' = now /\ bornAt' = now /\ restarts' > 0 /\ UNCHANGED <<clientVars, wireVars>>
    BY <1>4, RestartsAssumption DEF Restart, TypeOK
  <2>2. OldLease(d)'
    BY <2>1 DEF OldLease, clientVars, ClientOK
  <2> QED
    BY <2>2 DEF GrantKept
<1>5. ASSUME NEW c \in Clients, ServerStep(c) PROVE GrantKept(d)'
  <2>1. CASE c = d
    BY <1>5, <2>1, GrantAnswered
  <2>2. CASE c # d
    <3>1. toClient'[d] = toClient[d] /\ UNCHANGED <<now, clientVars, lifeVars>>
      BY <1>1, <1>5, <2>2 DEF ServerStep
    <3> QED
      BY <1>1, <3>1, GrantUntouched DEF clientVars, lifeVars, OldLease
  <2> QED
    BY <2>1, <2>2
<1>6. ASSUME NEW c \in Clients, NetworkStep(c) PROVE GrantKept(d)'
  <2>1. UNCHANGED <<now, clientVars, lifeVars>>
    BY <1>6 DEF NetworkStep, DropReply, LosePacket
  <2>2. CASE toClient'[d] = toClient[d]
    BY <1>1, <2>1, <2>2, GrantUntouched DEF clientVars, lifeVars, OldLease
  <2>3. CASE c = d /\ DropReply(d)
    BY <1>1, <2>1, <2>3, GrantTail, TailEffect DEF DropReply, clientVars
  <2> QED
    BY <1>1, <1>6, <2>2, <2>3 DEF NetworkStep, DropReply, LosePacket
<1>7. ASSUME NEW c \in Clients, ClientStep(c) PROVE GrantKept(d)'
  <2>1. now' = now /\ lifeVars' = lifeVars /\ (OldLease(d) /\ until'[d] = until[d] => OldLease(d)')
    BY <1>7 DEF ClientStep, Discover, RecvOffer, ResendRequest, RecvAck, RecvNak, Renew,
                Relinquish, Forget, lifeVars, OldLease
  <2>2. CASE c # d
    <3>1. /\ phase'[d] = phase[d] /\ until'[d] = until[d] /\ xid'[d] = xid[d]
          /\ toClient'[d] = toClient[d]
      BY <1>1, <1>7, <2>2 DEF ClientStep, Discover, RecvOffer, ResendRequest, RecvAck, RecvNak,
         Renew, Relinquish, Forget, ToInit, RecvReply, clientVars, wireVars, TypeOK
    <3> QED
      BY <1>1, <2>1, <3>1, GrantUntouched
  <2>3. CASE phase'[d] \in {"init", "selecting"}
    BY <2>3 DEF GrantKept
  <2>4. CASE c = d /\ (ResendRequest(d) \/ Renew(d))
    <3>1. phase' = phase /\ until' = until /\ xid' = xid /\ toClient' = toClient
      BY <2>4 DEF ResendRequest, Renew, clientVars
    <3> QED
      BY <1>1, <2>1, <3>1, GrantUntouched
  <2>5. CASE c = d /\ RecvAck(d)
    <3>1. /\ UNCHANGED <<now, until, xid, lifeVars>> /\ toClient[d] # <<>>
          /\ toClient' = [toClient EXCEPT ![d] = Tail(@)]
          /\ phase[d] = "requesting"
          /\ Head(toClient[d]).type = "ack" /\ Head(toClient[d]).xid = xid[d]
      BY <2>5 DEF RecvAck, RecvReply
    <3>2. toClient'[d] = Tail(toClient[d]) /\ Answers(d, 1, "ack")
      BY <1>1, <3>1, TailFacts DEF Answers
    <3> QED
      BY <3>1, <3>2, GrantTail
  <2>6. CASE c = d /\ RecvOffer(d)
    <3>1. /\ phase[d] = "selecting" /\ phase'[d] = "requesting" /\ xid'[d] = xid[d]
          /\ toClient[d] # <<>> /\ toClient'[d] = Tail(toClient[d])
      BY <1>1, <2>6 DEF RecvOffer, RecvReply, TypeOK
    <3>2. \A k \in DOMAIN toClient[d] : ~Answers(d, k, "ack")
      BY <3>1 DEF ClientOK, SelectingOK, Answers
    <3>3. \A k \in DOMAIN Tail(toClient[d]) :
             k \in Nat /\ k + 1 \in DOMAIN toClient[d] /\ Tail(toClient[d])[k] = toClient[d][k + 1]
      BY <1>1, <3>1, TailFacts
    <3>4. \A k \in DOMAIN Tail(toClient[d]) : ~Answers(d, k, "ack")'
      BY <3>1, <3>2, <3>3 DEF Answers
    <3>5. \A k \in DOMAIN Tail(toClient[d]) : \A j \in 1 .. k - 1 : j \in DOMAIN Tail(toClient[d])
      <4>1. Tail(toClient[d]) \in Seq(Reply)
        BY <1>1, <3>1, TailFacts
      <4> QED
        BY <4>1
    <3> QED
      BY <3>1, <3>4, <3>5 DEF GrantKept
  <2>7. CASE c = d /\ (Discover(d) \/ RecvNak(d) \/ Relinquish(d) \/ Forget(d))
    <3>1. phase'[d] \in {"init", "selecting"}
      BY <2>7 DEF Discover, RecvNak, Relinquish, Forget, ToInit, TypeOK
    <3> QED
      BY <2>3, <3>1
  <2> QED
    BY <1>7, <2>2, <2>4, <2>5, <2>6, <2>7 DEF ClientStep
<1> QED
  BY <1>2, <1>3, <1>4, <1>5, <1>6, <1>7 DEF Next

(* A lease that was acknowledged is never refused to its client while it   *)
(* may be taken up or is used, whatever the others do and whichever packets *)
(* are lost or repeated (dhcp_server.rs:83-103, 122-130).                  *)
THEOREM GrantsStand == Spec => []GrantNotRefused
<1> DEFINE Kept == \A c \in Clients : GrantKept(c)
<1>1. Init => Kept
  BY DEF Init, GrantKept
<1>2. IInv /\ Kept /\ [Next]_vars => Kept'
  BY GrantStep
<1>3. Kept => GrantNotRefused
  BY DEF GrantKept, GrantNotRefused
<1> QED
  BY <1>1, <1>2, <1>3, Invariance, PTL DEF Spec

-----------------------------------------------------------------------------
(* The refinement of AddressUse *)

(* A step in which nobody starts to use an address is one in which clients *)
(* leave.                                                                  *)
LEMMA OnlyLeave ==
    ASSUME TypeOK, TypeOK', now' >= now,
           \A c \in Clients : phase'[c] = "bound" =>
              phase[c] = "bound" /\ addr'[c] = addr[c] /\ until'[c] = until[c],
           \A c \in Clients : phase'[c] = "bound" /\ OldLease(c) => OldLease(c)'
    PROVE  Promise!Leave
<1>1. now \in Nat /\ now' \in Nat /\ \A c \in Clients : until[c] \in Nat
  BY DEF TypeOK, LeaseTypeOK
<1>2. \A a \in Pool : UsersOf(a)' \subseteq UsersOf(a)
  BY <1>1 DEF UsersOf, Using
<1>3. \A a \in Pool : UsersOf(a)' \subseteq Clients
  BY DEF UsersOf
<1> QED
  BY <1>2, <1>3 DEF Promise!Leave

(* A client that accepts an acknowledgement is the only user of its        *)
(* address, or its lease does not count.                                   *)
LEMMA AckTakes ==
    ASSUME IInv, IInv', NEW c \in Clients, RecvAck(c)
    PROVE  Promise!Next
<1>1. /\ UNCHANGED <<leaseVars, now, addr, until, lifeVars>>
      /\ phase[c] = "requesting" /\ now <= until[c]
      /\ phase' = [phase EXCEPT ![c] = "bound"]
  BY DEF RecvAck
<1>2. /\ TypeOK /\ TypeOK' /\ now \in Nat /\ until[c] \in Nat
      /\ phase'[c] = "bound" /\ \A d \in Clients \ {c} : phase'[d] = phase[d]
  BY <1>1 DEF IInv, TypeOK, LeaseTypeOK
<1>3. PICK a \in Pool : a = addr[c] /\ Backed(c)
  BY <1>1, RecvAckInv DEF IInv, ClientOK, ChosenOK
<1>4. now' = now /\ \A d \in Clients : OldLease(d)' <=> OldLease(d)
  BY <1>1 DEF lifeVars, OldLease
<1>5. \A d \in Clients \ {c} : \A b \in Pool : Using(d, b)' <=> Using(d, b)
  BY <1>1, <1>2 DEF Using
<1>6. \A b \in Pool : ~Using(c, b) /\ (Using(c, b)' <=> b = a)
  BY <1>1, <1>2, <1>3 DEF Using
<1>7. CASE OldLease(c)
  <2>1. \A b \in Pool : UsersOf(b)' = UsersOf(b)
    BY <1>4, <1>5, <1>6, <1>7 DEF UsersOf
  <2>2. \A b \in Pool : UsersOf(b) \subseteq Clients
    BY DEF UsersOf
  <2> QED
    BY <2>1, <2>2 DEF Promise!Next, Promise!Leave
<1>8. CASE ~OldLease(c)
  <2>1. owner[a] = c
    BY <1>1, <1>2, <1>3, <1>8 DEF Backed
  <2>2. UsersOf(a) = {}
    <3>1. ASSUME NEW d \in UsersOf(a) PROVE FALSE
      <4>1. d \in Clients /\ Using(d, a) /\ ~OldLease(d)
        BY DEF UsersOf
      <4>2. owner[a] = d
        BY <1>3, <4>1, BackedUse
      <4> QED
        BY <1>3, <1>6, <2>1, <4>1, <4>2
    <3> QED
      BY <3>1
  <2>3. \A b \in Pool : c \notin UsersOf(b)
    BY <1>6 DEF UsersOf
  <2>4. UsersOf(a)' = {c}
    <3>1. \A d \in Clients : Using(d, a)' /\ ~OldLease(d)' <=> d = c
      BY <1>3, <1>4, <1>5, <1>6, <1>8, <2>2 DEF UsersOf
    <3>2. \A d : d \in UsersOf(a)' <=> d \in Clients /\ Using(d, a)' /\ ~OldLease(d)'
      BY DEF UsersOf
    <3> QED
      BY <1>3, <3>1, <3>2
  <2>5. \A b \in Pool : b # a => UsersOf(b)' = UsersOf(b)
    BY <1>4, <1>5, <1>6 DEF UsersOf
  <2>6. [b \in Pool |-> UsersOf(b)]' = [[b \in Pool |-> UsersOf(b)] EXCEPT ![a] = {c}]
    BY <1>3, <2>4, <2>5
  <2>7. Promise!Take(c, a)
    BY <1>3, <2>2, <2>3, <2>6 DEF Promise!Take
  <2> QED
    BY <1>3, <2>7 DEF Promise!Next
<1> QED
  BY <1>7, <1>8

(* Every step of the system is one that AddressUse allows.                 *)
LEMMA StepKeepsPromise ==
    IInv /\ IInv' /\ [Next]_vars => [Promise!Next]_([a \in Pool |-> UsersOf(a)])
<1> SUFFICES ASSUME IInv, IInv', [Next]_vars, ~\E c \in Clients : RecvAck(c)
             PROVE  Promise!Leave
  BY AckTakes DEF Promise!Next
<1> USE DEF IInv
<1>1. TypeOK /\ TypeOK' /\ now \in Nat
  BY DEF TypeOK, LeaseTypeOK
<1>2. CASE UNCHANGED vars
  BY <1>1, <1>2, OnlyLeave DEF vars, clientVars, lifeVars, OldLease
<1>3. ASSUME NEW c \in Clients, ServerStep(c) PROVE Promise!Leave
  BY <1>1, <1>3, OnlyLeave DEF ServerStep, clientVars, lifeVars, OldLease
<1>4. ASSUME NEW c \in Clients, NetworkStep(c) PROVE Promise!Leave
  BY <1>1, <1>4, OnlyLeave DEF NetworkStep, DropReply, LosePacket, clientVars, lifeVars, OldLease
<1>5. CASE Tick
  <2>1. now' >= now
    BY <1>1, <1>5 DEF Tick
  <2> QED
    BY <1>1, <1>5, <2>1, OnlyLeave DEF Tick, clientVars, lifeVars, OldLease
<1>6. CASE Restart
  <2>1. /\ now' = now /\ bornAt' = now /\ restarts' > 0 /\ UNCHANGED clientVars
    BY <1>6, RestartsAssumption DEF Restart, TypeOK
  <2>2. \A c \in Clients : OldLease(c)'
    BY <2>1 DEF OldLease, clientVars, ClientOK
  <2> QED
    BY <1>1, <2>1, <2>2, OnlyLeave DEF clientVars
<1>7. ASSUME NEW c \in Clients, ClientStep(c) PROVE Promise!Leave
  <2>1. now' = now /\ lifeVars' = lifeVars
    BY <1>7 DEF ClientStep, Discover, RecvOffer, ResendRequest, RecvAck, RecvNak, Renew,
                Relinquish, Forget, lifeVars
  <2>2. ASSUME NEW d \in Clients, phase'[d] = "bound"
        PROVE  phase[d] = "bound" /\ addr'[d] = addr[d] /\ until'[d] = until[d]
    BY <1>1, <1>7, <2>2 DEF ClientStep, Discover, RecvOffer, ResendRequest, RecvNak, Renew,
                            Relinquish, Forget, ToInit, clientVars, TypeOK
  <2> QED
    BY <1>1, <2>1, <2>2, OnlyLeave DEF lifeVars, OldLease
<1> QED
  BY <1>2, <1>3, <1>4, <1>5, <1>6, <1>7 DEF Next

(* The network with its server keeps the promise of AddressUse.            *)
THEOREM PromiseKept == Spec => KeepsPromise
<1>1. Init => Promise!Init
  <2> SUFFICES ASSUME Init PROVE Promise!Init
    OBVIOUS
  <2>1. \A a \in Pool : UsersOf(a) = {}
    BY DEF Init, UsersOf, Using
  <2> QED
    BY <2>1 DEF Promise!Init
<1> QED
  BY <1>1, StepKeepsPromise, Invariance, PTL DEF Spec, KeepsPromise, Promise!Spec

=============================================================================
