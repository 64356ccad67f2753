--------------------------- MODULE DhcpPoolProofs ---------------------------
(***************************************************************************)
(* The pool does not leak away while clients ask for no address of their   *)
(* own, for any number of clients, addresses, losses and restarts: each    *)
(* client has a claim on one address at most, and a discover is answered   *)
(* if there are no more clients than addresses.                            *)
(***************************************************************************)
EXTENDS DhcpLanProofs, FiniteSetTheorems

-----------------------------------------------------------------------------
(* The handler *)

(* Only an acknowledged request gives its sender an address.               *)
LEMMA OnlyRequestsGrant ==
    ASSUME LeaseTypeOK, NEW pkt \in Packet, NEW r \in Reply \cup {NoReply}, HandleRequest(pkt, r)
    PROVE  \A a \in Pool :
              \/ owner'[a] \in {owner[a], Nobody}
              \/ owner'[a] = pkt.mac /\ pkt.type = "request" /\ pkt.addr = a
<1> USE DEF LeaseTypeOK, leaseVars
<1>1. CASE AckRequest(pkt, r)
  <2>1. owner' = [owner EXCEPT ![pkt.addr] = pkt.mac] /\ pkt.type = "request"
    BY <1>1 DEF AckRequest
  <2> QED
    BY <2>1
<1>2. CASE GiveBack(pkt, r)
  BY <1>2 DEF GiveBack
<1>3. CASE UNCHANGED owner
  BY <1>3
<1> QED
  BY <1>1, <1>2, <1>3 DEF HandleRequest, OfferWanted, OfferCurrent, OfferFree, NakRequest, NotForUs

(* What is offered to a client that asks for nothing in the pool is an     *)
(* address it has, unless it has none.                                     *)
LEMMA OfferOwn ==
    ASSUME LeaseTypeOK, NEW pkt \in Packet, NEW r \in Reply \cup {NoReply}, HandleRequest(pkt, r),
           r.type = "offer", pkt.addr \notin Pool
    PROVE  /\ pkt.type = "discover" /\ r.xid = pkt.xid /\ owner' = owner
           /\ \/ r.addr \in CurrentLeases(pkt.mac)
              \/ CurrentLeases(pkt.mac) = {}
<1> USE DEF Answer, NoReply, leaseVars
<1>1. ~OfferWanted(pkt, r)
  BY DEF OfferWanted, WantedAvailable, Available
<1>2. CASE OfferCurrent(pkt, r)
  BY <1>2 DEF OfferCurrent
<1>3. CASE OfferFree(pkt, r)
  BY <1>3 DEF OfferFree
<1>4. ~AckRequest(pkt, r) /\ ~NakRequest(pkt, r) /\ ~GiveBack(pkt, r) /\ ~NotForUs(pkt, r)
  BY DEF AckRequest, NakRequest, GiveBack, NotForUs
<1> QED
  BY <1>1, <1>2, <1>3, <1>4 DEF HandleRequest

-----------------------------------------------------------------------------
(* Claims *)

(* A packet of c that asks for address a, and one that begins its current  *)
(* transaction; an offer it may still take up.                             *)
AsksFor(p, a)   == p.type = "request" /\ p.addr = a
BeginsNow(p, c) == p.type = "discover" /\ p.xid = xid[c]
OffersNow(r, c) == r.type = "offer" /\ r.xid = xid[c]

(* Client c has address a in the table, or may come to request it.         *)
Claim(c, a) ==
    \/ a \in Pool /\ owner[a] = c
    \/ \E k \in DOMAIN toServer[c] : AsksFor(toServer[c][k], a)
    \/ phase[c] \in {"requesting", "bound"} /\ addr[c] = a
    \/ /\ phase[c] = "selecting"
       /\ \E k \in DOMAIN toClient[c] : OffersNow(toClient[c][k], c) /\ toClient[c][k].addr = a

OneClaim(c) == \A a, b : Claim(c, a) /\ Claim(c, b) => a = b

(* A discover that was not handled yet comes last, and its offer later.    *)
DiscoverLast(c) ==
    phase[c] = "selecting" =>
       \A k \in DOMAIN toServer[c] : BeginsNow(toServer[c][k], c) =>
          /\ \A j \in DOMAIN toServer[c] : k < j =>
                toServer[c][j].type # "request" /\ ~BeginsNow(toServer[c][j], c)
          /\ \A j \in DOMAIN toClient[c] : ~OffersNow(toClient[c][j], c)

AsksNothing(c) ==
    \A k \in DOMAIN toServer[c] : toServer[c][k].type = "discover" => toServer[c][k].addr = NoAddr

PoolOK(c) == OneClaim(c) /\ DiscoverLast(c) /\ AsksNothing(c)

LEMMA PoolInit == Init => \A c \in Clients : PoolOK(c)
<1> SUFFICES ASSUME Init, NEW c \in Clients PROVE PoolOK(c)
  OBVIOUS
<1>1. /\ DOMAIN toServer[c] = {} /\ DOMAIN toClient[c] = {} /\ phase[c] = "init"
      /\ \A a \in Pool : owner[a] # c
  BY MarkerAssumption DEF Init, LeaseInit
<1> QED
  BY <1>1 DEF PoolOK, OneClaim, Claim, DiscoverLast, AsksNothing

(* A client without a claim on anything new keeps its one claim.           *)
LEMMA FewerClaims ==
    ASSUME NEW c \in Clients, OneClaim(c), \A a : Claim(c, a)' => Claim(c, a)
    PROVE  OneClaim(c)'
BY DEF OneClaim

(* What is left of a wire when one packet is taken off it.                 *)
Left(s, t) == s # <<>> /\ t = Tail(s)

LEMMA LeftIn ==
    ASSUME NEW S, NEW s \in Seq(S), NEW t, t = s \/ Left(s, t)
    PROVE  \A k \in DOMAIN t : \E m \in DOMAIN s : t[k] = s[m]
<1>1. CASE t = s
  BY <1>1
<1>2. CASE Left(s, t)
  <2>1. \A k \in DOMAIN t : k + 1 \in DOMAIN s /\ t[k] = s[k + 1]
    BY <1>2, TailFacts DEF Left
  <2> QED
    BY <2>1
<1> QED
  BY <1>1, <1>2

(* A client that has not just begun a transaction, and has not just been   *)
(* offered an address, and whose packets come from those on the wire.      *)
LEMMA QuietStep ==
    ASSUME TypeOK, NEW c \in Clients, PoolOK(c),
           \A a \in Pool : owner'[a] = c => owner[a] = c,
           xid'[c] = xid[c],
           phase'[c] = phase[c] \/ phase'[c] = "init",
           addr'[c] = addr[c] \/ phase'[c] = "init",
           toServer'[c] = toServer[c] \/ Left(toServer[c], toServer'[c]),
           toClient'[c] = toClient[c] \/ Left(toClient[c], toClient'[c])
    PROVE  PoolOK(c)'
<1>1. toServer[c] \in Seq(Packet) /\ toClient[c] \in Seq(Reply)
  BY DEF TypeOK
<1>2. \A k \in DOMAIN toServer'[c] : \E m \in DOMAIN toServer[c] : toServer'[c][k] = toServer[c][m]
  BY <1>1, LeftIn
<1>3. \A k \in DOMAIN toClient'[c] : \E m \in DOMAIN toClient[c] : toClient'[c][k] = toClient[c][m]
  BY <1>1, LeftIn
<1>4. ASSUME NEW a, Claim(c, a)' PROVE Claim(c, a)
  BY <1>2, <1>3, <1>4 DEF Claim, AsksFor, OffersNow
<1>5. OneClaim(c)'
  BY <1>4, FewerClaims DEF PoolOK
<1>6. AsksNothing(c)'
  BY <1>2 DEF PoolOK, AsksNothing
<1>7. DiscoverLast(c)'
  <2> SUFFICES ASSUME phase'[c] = "selecting", NEW k \in DOMAIN toServer'[c],
                      BeginsNow(toServer'[c][k], c)
               PROVE  /\ \A j \in DOMAIN toServer'[c] : k < j =>
                            toServer'[c][j].type # "request" /\ ~BeginsNow(toServer'[c][j], c)
                      /\ \A j \in DOMAIN toClient'[c] : ~OffersNow(toClient'[c][j], c)
    BY DEF DiscoverLast, BeginsNow, OffersNow
  <2>1. phase[c] = "selecting" /\ DiscoverLast(c)
    BY DEF PoolOK
  <2>2. CASE toServer'[c] = toServer[c]
    BY <1>3, <2>1, <2>2 DEF DiscoverLast
  <2>3. CASE Left(toServer[c], toServer'[c])
    <3>1. \A j \in DOMAIN toServer'[c] :
             j \in Nat /\ j + 1 \in DOMAIN toServer[c] /\ toServer'[c][j] = toServer[c][j + 1]
      BY <1>1, <2>3, TailFacts DEF Left
    <3>2. \A j \in DOMAIN toServer'[c] : k < j => k + 1 < j + 1
      BY <3>1
    <3>3. k + 1 \in DOMAIN toServer[c] /\ BeginsNow(toServer[c][k + 1], c)
      BY <3>1
    <3>4. /\ \A j \in DOMAIN toServer[c] : k + 1 < j =>
                toServer[c][j].type # "request" /\ ~BeginsNow(toServer[c][j], c)
          /\ \A j \in DOMAIN toClient[c] : ~OffersNow(toClient[c][j], c)
      BY <2>1, <3>3 DEF DiscoverLast
    <3> QED
      BY <1>3, <3>1, <3>2, <3>4
  <2> QED
    BY <2>2, <2>3
<1> QED
  BY <1>5, <1>6, <1>7 DEF PoolOK

(* A client that asks for what it has a claim on, or gives it back, and is *)
(* not selecting afterwards.                                               *)
LEMMA SendingStep ==
    ASSUME TypeOK, NEW c \in Clients, PoolOK(c), owner' = owner, xid'[c] = xid[c],
           NEW pkt \in Packet, toServer'[c] = Append(toServer[c], pkt),
           pkt.type # "discover", pkt.type = "request" => Claim(c, pkt.addr),
           phase'[c] # "selecting",
           phase'[c] \in {"requesting", "bound"} => Claim(c, addr'[c])
    PROVE  PoolOK(c)'
<1>1. toServer[c] \in Seq(Packet)
  BY DEF TypeOK
<1>2. \A k \in DOMAIN toServer'[c] :
         (k \in DOMAIN toServer[c] /\ toServer'[c][k] = toServer[c][k]) \/ toServer'[c][k] = pkt
  BY <1>1, AppendFacts
<1>3. ASSUME NEW a, Claim(c, a)' PROVE Claim(c, a)
  <2>1. CASE a \in Pool /\ owner'[a] = c
    BY <2>1 DEF Claim
  <2>2. CASE \E k \in DOMAIN toServer'[c] : AsksFor(toServer'[c][k], a)
    BY <1>2, <2>2 DEF Claim, AsksFor
  <2>3. CASE phase'[c] \in {"requesting", "bound"} /\ addr'[c] = a
    BY <2>3
  <2> QED
    BY <1>3, <2>1, <2>2, <2>3 DEF Claim, AsksFor, OffersNow
<1>4. OneClaim(c)'
  BY <1>3, FewerClaims DEF PoolOK
<1> QED
  BY <1>2, <1>4 DEF PoolOK, AsksNothing, DiscoverLast

(* A new transaction: nothing was offered in it, and its discover is last. *)
LEMMA DiscoverStep ==
    ASSUME IInv, NEW c \in Clients, PoolOK(c), Discover(c), Asked = {NoAddr}
    PROVE  PoolOK(c)'
<1> USE DEF IInv
<1>1. SendPacket(c, "discover", NoAddr, xid[c] + 1, FALSE)
  BY DEF Discover
<1>2. xid[c] \in Nat /\ xid[c] + 1 \in Xid /\ toServer[c] \in Seq(Packet)
  BY PoolAssumption DEF Discover, TypeOK, Xid
<1>3. PICK pkt \in Packet :
         pkt = [type |-> "discover", mac |-> c, addr |-> NoAddr, xid |-> xid[c] + 1, forUs |-> FALSE]
  BY <1>2 DEF Packet
<1>4. toServer'[c] = Append(toServer[c], pkt)
  BY <1>1, <1>3 DEF SendPacket, TypeOK
<1>5. /\ owner' = owner /\ toClient' = toClient
      /\ xid'[c] = xid[c] + 1 /\ phase'[c] = "selecting"
  BY DEF Discover, leaseVars, TypeOK
<1>6. \A k \in DOMAIN toServer'[c] :
         \/ k \in DOMAIN toServer[c] /\ toServer'[c][k] = toServer[c][k]
         \/ k = Len(toServer[c]) + 1 /\ toServer'[c][k] = pkt
  BY <1>2, <1>4, AppendFacts
<1>7. /\ \A k \in DOMAIN toServer[c] : toServer[c][k].xid # xid'[c]
      /\ \A k \in DOMAIN toClient[c] : toClient[c][k].xid # xid'[c]
  BY <1>2, <1>5, WireTypes DEF ClientOK, OwnTraffic
<1>8. ASSUME NEW a, Claim(c, a)' PROVE Claim(c, a)
  <2>1. CASE \E k \in DOMAIN toServer'[c] : AsksFor(toServer'[c][k], a)
    BY <1>3, <1>6, <2>1 DEF Claim, AsksFor
  <2>2. CASE a \in Pool /\ owner'[a] = c
    BY <1>5, <2>2 DEF Claim
  <2> QED
    BY <1>5, <1>7, <1>8, <2>1, <2>2 DEF Claim, AsksFor, OffersNow
<1>9. OneClaim(c)'
  BY <1>8, FewerClaims DEF PoolOK
<1>10. AsksNothing(c)'
  BY <1>3, <1>6 DEF PoolOK, AsksNothing
<1>11. DiscoverLast(c)'
  <2>1. \A k \in DOMAIN toServer'[c] : toServer'[c][k].xid = xid'[c] => k = Len(toServer[c]) + 1
    BY <1>6, <1>7
  <2>2. \A k, j \in DOMAIN toServer'[c] : k = Len(toServer[c]) + 1 => ~(k < j)
    BY <1>2, <1>4
  <2> QED
    BY <1>5, <1>7, <2>1, <2>2 DEF DiscoverLast, BeginsNow, OffersNow
<1> QED
  BY <1>9, <1>10, <1>11 DEF PoolOK

-----------------------------------------------------------------------------
(* The steps *)

(* A step that is not the client's own leaves its claims alone, unless it  *)
(* takes an address from it.                                               *)
LEMMA ForeignStep ==
    ASSUME TypeOK, NEW c \in Clients, PoolOK(c),
           \A a \in Pool : owner'[a] = c => owner[a] = c,
           phase'[c] = phase[c], addr'[c] = addr[c], xid'[c] = xid[c],
           toServer'[c] = toServer[c], toClient'[c] = toClient[c]
    PROVE  PoolOK(c)'
BY QuietStep

LEMMA ClientPoolStep ==
    ASSUME IInv, NEW c \in Clients, PoolOK(c), Asked = {NoAddr}, ClientStep(c) \/ NetworkStep(c)
    PROVE  PoolOK(c)'
<1> USE DEF IInv
<1>0. /\ TypeOK /\ toServer[c] \in Seq(Packet) /\ toClient[c] \in Seq(Reply)
      /\ addr[c] \in Pool \cup {NoAddr} /\ xid[c] \in Xid
  BY DEF TypeOK
<1>1. CASE Discover(c)
  BY <1>1, DiscoverStep
<1>2. CASE RecvOffer(c)
  <2> DEFINE a == Head(toClient[c]).addr
  <2>1. /\ toClient[c] # <<>> /\ phase[c] = "selecting"
        /\ Head(toClient[c]).type = "offer" /\ Head(toClient[c]).xid = xid[c]
    BY <1>2 DEF RecvOffer, RecvReply
  <2>2. 1 \in DOMAIN toClient[c] /\ Head(toClient[c]) = toClient[c][1]
    BY <1>0, <2>1, TailFacts
  <2>3. a \in Pool
    BY <2>1, <2>2 DEF ClientOK, OwnTraffic
  <2>4. Claim(c, a)
    BY <2>1, <2>2 DEF Claim, OffersNow
  <2>5. PICK pkt \in Packet :
           pkt = [type |-> "request", mac |-> c, addr |-> a, xid |-> xid[c], forUs |-> TRUE]
    BY <1>0, <2>3 DEF Packet
  <2>6. toServer' = [toServer EXCEPT ![c] = Append(@, pkt)]
    BY <1>2, <2>5 DEF RecvOffer, SendPacket
  <2>7. toServer'[c] = Append(toServer[c], pkt)
    BY <2>6 DEF TypeOK
  <2>8. owner' = owner /\ xid'[c] = xid[c] /\ phase'[c] = "requesting" /\ addr'[c] = a
    BY <1>2, <2>3 DEF RecvOffer, leaseVars, TypeOK
  <2>9. pkt.type # "discover" /\ pkt.addr = a
    BY <2>5
  <2> QED
    BY <1>0, <2>4, <2>7, <2>8, <2>9, SendingStep
<1>3. CASE ResendRequest(c) \/ Renew(c)
  <2>1. phase[c] \in {"requesting", "bound"} /\ Claim(c, addr[c])
    BY <1>3 DEF ResendRequest, Renew, Claim
  <2>2. PICK forUs \in BOOLEAN : SendPacket(c, "request", addr[c], xid[c], forUs)
    BY <1>3 DEF ResendRequest, Renew
  <2>3. PICK pkt \in Packet :
           pkt = [type |-> "request", mac |-> c, addr |-> addr[c], xid |-> xid[c], forUs |-> forUs]
    BY <1>0 DEF Packet
  <2>4. toServer' = [toServer EXCEPT ![c] = Append(@, pkt)]
    BY <2>2, <2>3 DEF SendPacket
  <2>5. toServer'[c] = Append(toServer[c], pkt)
    BY <2>4 DEF TypeOK
  <2>6. owner' = owner /\ xid'[c] = xid[c] /\ phase'[c] = phase[c] /\ addr'[c] = addr[c]
    BY <1>3 DEF ResendRequest, Renew, leaseVars, clientVars
  <2>7. pkt.type # "discover" /\ pkt.addr = addr[c]
    BY <2>3
  <2> QED
    BY <1>0, <2>1, <2>5, <2>6, <2>7, SendingStep
<1>4. CASE RecvAck(c)
  <2>1. /\ toClient[c] # <<>> /\ phase[c] = "requesting" /\ phase'[c] = "bound"
        /\ toClient'[c] = Tail(toClient[c])
        /\ owner' = owner /\ addr' = addr /\ xid' = xid /\ toServer' = toServer
    BY <1>4 DEF RecvAck, RecvReply, leaseVars, TypeOK
  <2>2. ASSUME NEW a, Claim(c, a)' PROVE Claim(c, a)
    BY <2>1, <2>2 DEF Claim, AsksFor
  <2>3. OneClaim(c)'
    BY <2>2, FewerClaims DEF PoolOK
  <2> QED
    BY <2>1, <2>3 DEF PoolOK, AsksNothing, DiscoverLast
<1>5. CASE RecvNak(c)
  BY <1>0, <1>5, QuietStep DEF RecvNak, RecvReply, ToInit, leaseVars, TypeOK, Left
<1>6. CASE Forget(c)
  BY <1>0, <1>6, QuietStep DEF Forget, ToInit, leaseVars, wireVars, TypeOK
<1>7. CASE Relinquish(c)
  <2>1. PICK type \in {"release", "decline"} : SendPacket(c, type, addr[c], xid[c], TRUE)
    BY <1>7 DEF Relinquish
  <2>2. PICK pkt \in Packet :
           pkt = [type |-> type, mac |-> c, addr |-> addr[c], xid |-> xid[c], forUs |-> TRUE]
    BY <1>0 DEF Packet
  <2>3. toServer' = [toServer EXCEPT ![c] = Append(@, pkt)]
    BY <2>1, <2>2 DEF SendPacket
  <2>4. toServer'[c] = Append(toServer[c], pkt)
    BY <2>3 DEF TypeOK
  <2>5. owner' = owner /\ xid'[c] = xid[c] /\ phase'[c] = "init"
    BY <1>7 DEF Relinquish, ToInit, leaseVars, TypeOK
  <2>6. pkt.type # "discover" /\ pkt.type # "request"
    BY <2>2
  <2> QED
    BY <1>0, <2>4, <2>5, <2>6, SendingStep
<1>8. CASE NetworkStep(c)
  <2>1. CASE DropReply(c)
    BY <1>0, <2>1, QuietStep DEF DropReply, leaseVars, clientVars, TypeOK, Left
  <2>2. CASE LosePacket(c)
    BY <1>0, <2>2, QuietStep DEF LosePacket, leaseVars, clientVars, TypeOK, Left
  <2> QED
    BY <1>8, <2>1, <2>2 DEF NetworkStep
<1> QED
  BY <1>1, <1>2, <1>3, <1>4, <1>5, <1>6, <1>7, <1>8 DEF ClientStep

(* A packet is handled: a request makes an entry of the claim that it was, *)
(* and an offer is either of the address the client has, or its only claim *)
(* since everything it asked for before has been handled.                  *)
LEMMA ServerPoolStep ==
    ASSUME IInv, NEW c \in Clients, PoolOK(c), ServerStep(c)
    PROVE  /\ PoolOK(c)'
           /\ \A d \in Clients \ {c} : PoolOK(d) => PoolOK(d)'
<1> USE DEF IInv
<1> DEFINE s == toServer[c]
           q == toClient[c]
<1>1. /\ toServer \in [Clients -> Seq(Packet)] /\ s # <<>> /\ s \in Seq(Packet)
      /\ toClient \in [Clients -> Seq(Reply)] /\ q \in Seq(Reply) /\ TypeOK /\ LeaseTypeOK
  BY DEF ServerStep, TypeOK
<1>2. 1 \in DOMAIN s /\ Head(s) = s[1] /\ Head(s) \in Packet
  BY <1>1, TailFacts
<1>3. PICK pkt \in Packet : pkt = s[1]
  BY <1>2
<1>4. PICK r \in Reply \cup {NoReply} :
         /\ HandleRequest(pkt, r)
         /\ toClient' = IF r = NoReply THEN toClient ELSE [toClient EXCEPT ![c] = Append(@, r)]
  BY <1>2, <1>3 DEF ServerStep
<1>5. AnswerTo(pkt, r) /\ pkt.mac = c
  BY <1>1, <1>2, <1>3, <1>4, HandleEffect DEF ClientOK, OwnTraffic
<1>6. \A a \in Pool : \/ owner'[a] \in {owner[a], Nobody}
                      \/ owner'[a] = c /\ AsksFor(pkt, a)
  BY <1>1, <1>4, <1>5, OnlyRequestsGrant DEF AsksFor
<1>7. /\ toServer'[c] = Tail(s) /\ UNCHANGED clientVars
      /\ \A d \in Clients \ {c} : toServer'[d] = toServer[d] /\ toClient'[d] = toClient[d]
  BY <1>1, <1>4, TailEffect DEF ServerStep
<1>8. \A k \in DOMAIN toClient'[c] :
         \/ k \in DOMAIN q /\ toClient'[c][k] = q[k]
         \/ r \in Reply /\ toClient'[c][k] = r
  <2>1. CASE r = NoReply
    <3>1. toClient' = toClient
      BY <1>4, <2>1
    <3> QED
      BY <3>1
  <2>2. CASE r # NoReply
    <3>1. r \in Reply /\ toClient' = [toClient EXCEPT ![c] = Append(q, r)]
      BY <1>4, <2>2
    <3>2. Append(q, r) \in Seq(Reply)
      BY <1>1, <3>1, AppendFacts
    <3>3. toClient'[c] = Append(q, r)
      BY <1>1, <3>1, <3>2, ExceptFacts
    <3> QED
      BY <1>1, <3>1, <3>3, AppendFacts
  <2> QED
    BY <2>1, <2>2
<1>9. \A k \in DOMAIN toServer'[c] :
         k \in Nat /\ 1 < k + 1 /\ k + 1 \in DOMAIN s /\ toServer'[c][k] = s[k + 1]
  BY <1>1, <1>7, TailFacts
<1>10. phase' = phase /\ addr' = addr /\ xid' = xid
  BY <1>7 DEF clientVars
<1>11. ASSUME NEW d \in Clients \ {c}, PoolOK(d) PROVE PoolOK(d)'
  <2>1. \A a \in Pool : owner'[a] = d => owner[a] = d
    BY <1>6, MarkerAssumption
  <2> QED
    BY <1>1, <1>7, <1>10, <1>11, <2>1, ForeignStep
<1>12. AsksNothing(c)'
  BY <1>9 DEF PoolOK, AsksNothing
<1>13. CASE ~(phase[c] = "selecting" /\ r \in Reply /\ OffersNow(r, c))
  <2>1. ASSUME NEW a, Claim(c, a)' PROVE Claim(c, a)
    <3>1. CASE a \in Pool /\ owner'[a] = c
      <4>1. owner[a] = c \/ AsksFor(s[1], a)
        BY <1>3, <1>6, <3>1, MarkerAssumption
      <4> QED
        BY <1>2, <3>1, <4>1 DEF Claim
    <3>2. CASE \E k \in DOMAIN toServer'[c] : AsksFor(toServer'[c][k], a)
      BY <1>9, <3>2 DEF Claim
    <3>3. CASE phase[c] \in {"requesting", "bound"} /\ addr[c] = a
      BY <3>3 DEF Claim
    <3>4. CASE phase[c] = "selecting" /\ \E k \in DOMAIN toClient'[c] :
                  OffersNow(toClient'[c][k], c) /\ toClient'[c][k].addr = a
      BY <1>8, <1>13, <3>4 DEF Claim
    <3> QED
      BY <1>10, <2>1, <3>1, <3>2, <3>3, <3>4 DEF Claim, AsksFor, OffersNow
  <2>2. OneClaim(c)'
    BY <2>1, FewerClaims DEF PoolOK
  <2>3. DiscoverLast(c)'
    <3> SUFFICES ASSUME phase[c] = "selecting", NEW k \in DOMAIN toServer'[c],
                        BeginsNow(toServer'[c][k], c)
                 PROVE  /\ \A j \in DOMAIN toServer'[c] : k < j =>
                              toServer'[c][j].type # "request" /\ ~BeginsNow(toServer'[c][j], c)
                        /\ \A j \in DOMAIN toClient'[c] : ~OffersNow(toClient'[c][j], c)
      BY <1>10 DEF DiscoverLast, BeginsNow, OffersNow
    <3>1. k + 1 \in DOMAIN s /\ BeginsNow(s[k + 1], c)
      BY <1>9
    <3>2. /\ \A j \in DOMAIN s : k + 1 < j => s[j].type # "request" /\ ~BeginsNow(s[j], c)
          /\ \A j \in DOMAIN q : ~OffersNow(q[j], c)
      BY <3>1 DEF PoolOK, DiscoverLast
    <3>3. \A j \in DOMAIN toServer'[c] : k < j => k + 1 < j + 1
      BY <1>9
    <3> QED
      BY <1>8, <1>9, <1>13, <3>2, <3>3
  <2> QED
    BY <1>11, <1>12, <2>2, <2>3 DEF PoolOK
<1>14. CASE phase[c] = "selecting" /\ r \in Reply /\ OffersNow(r, c)
  <2>1. pkt.type = "discover" /\ pkt.xid = xid[c]
    BY <1>5, <1>14 DEF AnswerTo, OffersNow, NoReply
  <2>2. pkt.addr \notin Pool
    BY <1>2, <1>3, <2>1, MarkerAssumption DEF PoolOK, AsksNothing
  <2>3. owner' = owner /\ (r.addr \in CurrentLeases(c) \/ CurrentLeases(c) = {})
    BY <1>1, <1>4, <1>5, <1>14, <2>2, OfferOwn DEF OffersNow
  <2>4. /\ \A j \in DOMAIN s : 1 < j => s[j].type # "request" /\ ~BeginsNow(s[j], c)
        /\ \A j \in DOMAIN q : ~OffersNow(q[j], c)
    BY <1>2, <1>3, <1>14, <2>1 DEF PoolOK, DiscoverLast, BeginsNow
  <2>5. ASSUME NEW a, Claim(c, a)' PROVE (a \in Pool /\ owner[a] = c) \/ a = r.addr
    <3>1. \A k \in DOMAIN toServer'[c] : ~AsksFor(toServer'[c][k], a)
      BY <1>9, <2>4 DEF AsksFor
    <3>2. \A k \in DOMAIN toClient'[c] : OffersNow(toClient'[c][k], c) => toClient'[c][k] = r
      BY <1>8, <2>4
    <3> QED
      BY <1>10, <1>14, <2>3, <2>5, <3>1, <3>2 DEF Claim, AsksFor, OffersNow
  <2>6. ASSUME NEW a \in Pool, owner[a] = c PROVE a = r.addr
    <3>1. r.addr \in Pool /\ owner[r.addr] = c
      BY <2>3, <2>6 DEF CurrentLeases
    <3> QED
      BY <2>6, <3>1 DEF PoolOK, OneClaim, Claim
  <2>7. OneClaim(c)'
    BY <2>5, <2>6 DEF OneClaim
  <2>8. DiscoverLast(c)'
    <3>1. \A k \in DOMAIN toServer'[c] : ~BeginsNow(toServer'[c][k], c)
      BY <1>9, <2>4
    <3> QED
      BY <1>10, <3>1 DEF DiscoverLast, BeginsNow
  <2> QED
    BY <1>11, <1>12, <2>7, <2>8 DEF PoolOK
<1> QED
  BY <1>11, <1>13, <1>14

PoolInv == Asked = {NoAddr} => \A c \in Clients : PoolOK(c)

LEMMA PoolStep == IInv /\ PoolInv /\ [Next]_vars => PoolInv'
<1> SUFFICES ASSUME IInv, PoolInv, [Next]_vars, Asked = {NoAddr}, NEW d \in Clients
             PROVE  PoolOK(d)'
  BY DEF PoolInv
<1>1. TypeOK /\ \A c \in Clients : PoolOK(c)
  BY DEF PoolInv, IInv
<1>2. ASSUME NEW c \in Clients, ServerStep(c) PROVE PoolOK(d)'
  BY <1>1, <1>2, ServerPoolStep
<1>3. CASE ClientStep(d) \/ NetworkStep(d)
  BY <1>1, <1>3, ClientPoolStep
<1>4. ASSUME NEW c \in Clients \ {d}, ClientStep(c) \/ NetworkStep(c) PROVE PoolOK(d)'
  <2>1. /\ owner' = owner /\ phase'[d] = phase[d] /\ addr'[d] = addr[d] /\ xid'[d] = xid[d]
        /\ toServer'[d] = toServer[d] /\ toClient'[d] = toClient[d]
    BY <1>1, <1>4 DEF ClientStep, Discover, RecvOffer, ResendRequest, RecvAck, RecvNak, Renew,
          Relinquish, Forget, ToInit, SendPacket, RecvReply, NetworkStep, DropReply, LosePacket,
          TypeOK, leaseVars, clientVars, wireVars
  <2> QED
    BY <1>1, <2>1, ForeignStep
<1>5. CASE Restart
  <2>1. \A a \in Pool : owner'[a] # d
    BY <1>5, MarkerAssumption DEF Restart, LeaseReset
  <2> QED
    BY <1>1, <1>5, <2>1, ForeignStep DEF Restart, clientVars, wireVars
<1>6. CASE Tick \/ UNCHANGED vars
  BY <1>1, <1>6, ForeignStep DEF Tick, vars, leaseVars, clientVars, wireVars
<1> QED
  BY <1>2, <1>3, <1>4, <1>5, <1>6 DEF Next

LEMMA PoolInvariance == Spec => []PoolInv
<1>1. Init => PoolInv
  BY PoolInit DEF PoolInv
<1> QED
  BY <1>1, PoolStep, Invariance, PTL DEF Spec

-----------------------------------------------------------------------------
(* Clients that ask for nothing in particular hold one entry each, so that *)
(* the pool does not leak away (dhcp_server.rs:83-113).                    *)
THEOREM OneEntryEach == Spec => []OneLeasePerClient
<1>1. ASSUME PoolInv, Asked = {NoAddr}, NEW c \in Clients
      PROVE  Cardinality({a \in Pool : owner[a] = c}) <= 1
  <2> DEFINE L == {a \in Pool : owner[a] = c}
  <2>1. \A a, b \in L : a = b
    BY <1>1 DEF PoolInv, PoolOK, OneClaim, Claim
  <2>2. CASE L = {}
    BY <2>2, FS_EmptySet
  <2>3. CASE L # {}
    <3>1. PICK a : L = {a}
      BY <2>1, <2>3
    <3>2. Cardinality(L) = 1
      BY <3>1, FS_Singleton, Zenon
    <3> QED
      BY <3>2
  <2> QED
    BY <2>2, <2>3
<1>2. PoolInv => OneLeasePerClient
  BY <1>1 DEF OneLeasePerClient
<1> QED
  BY <1>2, PoolInvariance, PTL

(* The scan reaches every address of the pool (dhcp_server.rs:65-67).      *)
LEMMA ScanReaches ==
    ASSUME LeaseTypeOK, NEW a \in Pool
    PROVE  \E k \in Scan : Scanned(k) = a
<1>1. /\ last_lease \in Nat /\ a \in Nat /\ LEASE_NUM \in Nat
      /\ last_lease < LEASE_NUM /\ a < LEASE_NUM /\ LEASE_NUM > 0
  BY PoolAssumption DEF LeaseTypeOK, Pool
<1>2. a % LEASE_NUM = a /\ (a + LEASE_NUM) % LEASE_NUM = a
  BY <1>1
<1>3. CASE a > last_lease
  <2>1. a - last_lease \in Scan /\ last_lease + (a - last_lease) = a
    BY <1>1, <1>3 DEF Scan
  <2> QED
    BY <1>2, <2>1 DEF Scanned
<1>4. CASE a <= last_lease
  <2>1. /\ a + LEASE_NUM - last_lease \in Scan
        /\ last_lease + (a + LEASE_NUM - last_lease) = a + LEASE_NUM
    BY <1>1, <1>4 DEF Scan
  <2> QED
    BY <1>2, <2>1 DEF Scanned
<1> QED
  BY <1>1, <1>3, <1>4

(* With no more clients than addresses, and an entry each at most, a       *)
(* client without an entry finds an address without one.                   *)
LEMMA OneIsFree ==
    ASSUME LeaseTypeOK, Cardinality(Clients) <= LEASE_NUM, NEW c \in Clients,
           \A d \in Clients : \A a, b \in CurrentLeases(d) : a = b,
           CurrentLeases(c) = {}
    PROVE  \E a \in Pool : owner[a] = Nobody
<1> SUFFICES ASSUME \A a \in Pool : owner[a] # Nobody PROVE FALSE
  OBVIOUS
<1> DEFINE Others == Clients \ {c}
<1>1. IsFiniteSet(Others) /\ Cardinality(Others) = Cardinality(Clients) - 1 /\ Cardinality(Clients) \in Nat
  BY ClientsAssumption, FS_RemoveElement, FS_CardinalityType
<1>2. IsFiniteSet(Pool) /\ Cardinality(Pool) = LEASE_NUM
  BY PoolAssumption, FS_Interval DEF Pool
<1>3. owner \in [Pool -> Others]
  BY DEF LeaseTypeOK, CurrentLeases
<1>4. Cardinality(Others) < Cardinality(Pool)
  BY <1>1, <1>2, PoolAssumption
<1>5. PICK a \in Pool, b \in Pool : a # b /\ owner[a] = owner[b]
  BY <1>1, <1>2, <1>3, <1>4, FS_PigeonHole
<1> QED
  BY <1>3, <1>5 DEF CurrentLeases

(* With no more clients than addresses, every discover can be answered     *)
(* (dhcp_server.rs:60-80).                                                 *)
THEOREM DiscoversAnswered == Spec => []DiscoverAnswered
<1>1. ASSUME IInv, PoolInv, Asked = {NoAddr}, Cardinality(Clients) <= LEASE_NUM,
             NEW c \in Clients, CurrentLeases(c) = {}
      PROVE  \E k \in Scan : Available(c, Scanned(k))
  <2>1. \A d \in Clients : \A a, b \in CurrentLeases(d) : a = b
    BY <1>1 DEF PoolInv, PoolOK, OneClaim, Claim, CurrentLeases
  <2>2. LeaseTypeOK
    BY <1>1 DEF IInv, TypeOK
  <2>3. PICK a \in Pool : owner[a] = Nobody
    BY <1>1, <2>1, <2>2, OneIsFree
  <2>4. PICK k \in Scan : Scanned(k) = a
    BY <2>2, ScanReaches
  <2>5. Available(c, a)
    BY <2>3 DEF Available
  <2> QED
    BY <2>4, <2>5
<1>2. IInv /\ PoolInv => DiscoverAnswered
  BY <1>1 DEF DiscoverAnswered
<1> QED
  BY <1>2, Invariance, PoolInvariance, PTL

=============================================================================
