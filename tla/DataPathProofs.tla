--------------------------- MODULE DataPathProofs ---------------------------
(***************************************************************************)
(* Proofs about the data path, for any machines, routers and table, any    *)
(* size of the sockets and any number of messages and advertisements.      *)
(***************************************************************************)
EXTENDS DataPath, SequenceTheorems, WellFoundedInduction, TLAPS

(***************************************************************************)
(* The inductive invariant                                                 *)
(***************************************************************************)

\* Whatever may become the sender's router ran since dst_eth was cleared, or its
\* broadcast was on its way then.
OnlyFresh ==
    /\ alive \subseteq fresh
    /\ ToSet(bcast) \subseteq fresh
    /\ src_eth \in fresh \cup {ZERO}
    /\ dst_eth \in fresh \cup {ZERO}
    /\ pc = "build" => dst_eth # ZERO

\* A packet for an address of the table is new, or has been forwarded to its owner.
AtOwner ==
    \A m \in Routing : \A k \in DOMAIN nic[m] :
        nic[m][k].ip \in Unicast =>
            \/ nic[m][k].hops = 0
            \/ nic[m][k].hops = 1 /\ m = Owner(nic[m][k].ip)

IInv == TypeOK /\ OnlyFresh /\ AtOwner /\ ShownByOwner

(***************************************************************************)
(* The table                                                               *)
(***************************************************************************)

\* Every set of numbers that is not empty has a least one.
LEMMA LeastNat ==
    ASSUME NEW S \in SUBSET Nat, S # {}
    PROVE  \E x \in S : \A y \in S : x <= y
<1>1. PICK x \in S : \A y \in S : ~(<<y, x>> \in OpToRel(<, Nat))
  BY NatLessThanWellFounded, WFMin
<1>2. ASSUME NEW y \in S PROVE x <= y
  <2>1. ~(y < x)
    BY <1>1 DEF OpToRel
  <2> QED BY <2>1
<1> QED BY <1>2

\* The loop over IP_MAC finds the machine an address of the table belongs to.
LEMMA LookupFinds ==
    ASSUME NEW ip \in TableIp, NEW old
    PROVE  /\ Lookup(ip, old) = Owner(ip)
           /\ Owner(ip) \in Mac
<1> DEFINE I == {i \in 1 .. Len(IP_MAC) : IP_MAC[i].ip = ip}
<1>1. /\ IP_MAC \in Seq([ip : TableIp, mac : Mac])
      /\ DOMAIN IP_MAC = 1 .. Len(IP_MAC) /\ Len(IP_MAC) \in Nat
  BY DataPathAssumption
<1>2. I # {} /\ I \subseteq Nat
  BY <1>1 DEF TableIp
<1>3. PICK k \in I : SelectInSeq(IP_MAC, LAMBDA e : e.ip = ip) = k
  <2>1. \E x \in I : \A y \in I : x <= y
    BY <1>2, LeastNat
  <2>2. Min(I) \in I
    BY <2>1 DEF Min
  <2>3. SelectInSeq(IP_MAC, LAMBDA e : e.ip = ip) = Min(I)
    BY <1>2 DEF SelectInSeq
  <2> QED BY <2>2, <2>3
<1>4. k \in DOMAIN IP_MAC /\ IP_MAC[k].ip = ip /\ IP_MAC[k].mac \in Mac
  <2>1. k \in DOMAIN IP_MAC /\ IP_MAC[k].ip = ip
    BY <1>1, <1>3
  <2>2. IP_MAC[k] \in [ip : TableIp, mac : Mac]
    BY <1>1, <2>1, ElementOfSeq
  <2> QED BY <2>1, <2>2
<1>5. PICK e \in ToSet(IP_MAC) : e.ip = ip /\ e = CHOOSE r \in ToSet(IP_MAC) : r.ip = ip
  BY <1>4 DEF ToSet
<1>6. e.mac = IP_MAC[k].mac
  BY <1>4, <1>5, DataPathAssumption DEF ToSet
<1> QED BY <1>3, <1>4, <1>5, <1>6 DEF Lookup, Owner

LEMMA EmptyQueue == \A S : <<>> \in Seq(S) /\ Len(<<>>) = 0 /\ DOMAIN <<>> = {}
  OBVIOUS

LEMMA Queued ==
    ASSUME NEW S, NEW q \in Seq(S), NEW r \in S
    PROVE  /\ Append(q, r) \in Seq(S) /\ Len(Append(q, r)) = Len(q) + 1 /\ Len(q) \in Nat
           /\ \A k \in DOMAIN Append(q, r) :
                 (k \in DOMAIN q /\ Append(q, r)[k] = q[k]) \/ Append(q, r)[k] = r
  OBVIOUS

LEMMA Taken ==
    ASSUME NEW S, NEW q \in Seq(S), q # <<>>
    PROVE  /\ Head(q) \in S /\ Head(q) = q[1] /\ 1 \in DOMAIN q
           /\ Tail(q) \in Seq(S) /\ Len(Tail(q)) = Len(q) - 1 /\ Len(q) \in Nat
           /\ \A k \in DOMAIN Tail(q) : k + 1 \in DOMAIN q /\ Tail(q)[k] = q[k + 1]
  OBVIOUS

\* What a frame finds and leaves in the routers' sockets.
Sockets(n) ==
    /\ n \in [Routing -> Seq(Packet)]
    /\ \A m \in Routing : Len(n[m]) <= MaxQ
    /\ \A m \in Routing : \A k \in DOMAIN n[m] :
          n[m][k].ip \in Unicast => \/ n[m][k].hops = 0
                                    \/ n[m][k].hops = 1 /\ m = Owner(n[m][k].ip)

\* A packet that is new, or goes to the owner of its address only, may arrive.
LEMMA ArriveOk ==
    ASSUME NEW n, Sockets(n), NEW p \in Packet, NEW ms, Arrive(n, p, ms),
           \A m \in Routing \cap ms :
              p.ip \in Unicast => \/ p.hops = 0
                                  \/ p.hops = 1 /\ m = Owner(p.ip)
    PROVE  Sockets(nic')
<1>1. n \in [Routing -> Seq(Packet)]
  BY DEF Sockets
<1>2. nic' = [m \in Routing |->
                IF m \in ms \cap alive /\ Len(n[m]) < MaxQ THEN Append(n[m], p) ELSE n[m]]
  BY DEF Arrive
<1>3. ASSUME NEW m \in Routing
      PROVE  /\ nic'[m] \in Seq(Packet) /\ Len(nic'[m]) <= MaxQ
             /\ \A k \in DOMAIN nic'[m] :
                   nic'[m][k].ip \in Unicast =>
                      \/ nic'[m][k].hops = 0
                      \/ nic'[m][k].hops = 1 /\ m = Owner(nic'[m][k].ip)
  <2>1. n[m] \in Seq(Packet) /\ Len(n[m]) <= MaxQ
    BY <1>1 DEF Sockets
  <2>2. CASE nic'[m] = n[m]
    BY <2>1, <2>2 DEF Sockets
  <2>3. CASE nic'[m] = Append(n[m], p) /\ m \in ms /\ Len(n[m]) < MaxQ
    <3>1. /\ nic'[m] \in Seq(Packet) /\ Len(nic'[m]) = Len(n[m]) + 1 /\ Len(n[m]) \in Nat
          /\ \A k \in DOMAIN nic'[m] :
                (k \in DOMAIN n[m] /\ nic'[m][k] = n[m][k]) \/ nic'[m][k] = p
      BY <2>1, <2>3, Queued
    <3>2. Len(nic'[m]) <= MaxQ
      BY <2>3, <3>1, DataPathAssumption
    <3>3. ASSUME NEW k \in DOMAIN nic'[m], nic'[m][k].ip \in Unicast
          PROVE  \/ nic'[m][k].hops = 0
                 \/ nic'[m][k].hops = 1 /\ m = Owner(nic'[m][k].ip)
      <4>1. CASE k \in DOMAIN n[m] /\ nic'[m][k] = n[m][k]
        BY <3>3, <4>1 DEF Sockets
      <4>2. CASE nic'[m][k] = p
        BY <2>3, <3>3, <4>2
      <4> QED BY <3>1, <4>1, <4>2
    <3> QED BY <3>1, <3>2, <3>3
  <2> QED BY <1>2, <2>2, <2>3
<1>4. nic' \in [Routing -> Seq(Packet)]
  <2>1. nic' = [m \in Routing |-> nic'[m]]
    BY <1>2
  <2> QED BY <1>3, <2>1
<1> QED BY <1>3, <1>4 DEF Sockets

\* One socket emptied or its first packet read.
LEMMA ReadOk ==
    ASSUME NEW n, Sockets(n), NEW m \in Routing, NEW q \in {<<>>, Tail(n[m])},
           q = <<>> \/ n[m] # <<>>
    PROVE  Sockets([n EXCEPT ![m] = q])
<1> DEFINE r == [n EXCEPT ![m] = q]
<1>1. n \in [Routing -> Seq(Packet)] /\ n[m] \in Seq(Packet) /\ Len(n[m]) <= MaxQ
  BY DEF Sockets
<1>2. /\ q \in Seq(Packet) /\ Len(q) <= MaxQ
      /\ \A k \in DOMAIN q : k + 1 \in DOMAIN n[m] /\ q[k] = n[m][k + 1]
  <2>1. CASE q = <<>>
    BY <2>1, EmptyQueue, DataPathAssumption
  <2>2. CASE q = Tail(n[m]) /\ n[m] # <<>>
    <3>1. /\ q \in Seq(Packet) /\ Len(q) = Len(n[m]) - 1 /\ Len(n[m]) \in Nat
          /\ \A k \in DOMAIN q : k + 1 \in DOMAIN n[m] /\ q[k] = n[m][k + 1]
      BY <1>1, <2>2, Taken
    <3> QED BY <1>1, <3>1, DataPathAssumption
  <2> QED BY <2>1, <2>2
<1>3. r \in [Routing -> Seq(Packet)] /\ r[m] = q /\ \A l \in Routing \ {m} : r[l] = n[l]
  BY <1>1, <1>2
<1> HIDE DEF r
<1>4. \A l \in Routing : Len(r[l]) <= MaxQ
  BY <1>2, <1>3 DEF Sockets
<1>5. ASSUME NEW l \in Routing, NEW k \in DOMAIN r[l], r[l][k].ip \in Unicast
      PROVE  r[l][k].hops = 0 \/ (r[l][k].hops = 1 /\ l = Owner(r[l][k].ip))
  <2>1. CASE l = m
    BY <1>2, <1>3, <1>5, <2>1 DEF Sockets
  <2>2. CASE l # m
    BY <1>3, <1>5, <2>2 DEF Sockets
  <2> QED BY <2>1, <2>2
<1> QED BY <1>3, <1>4, <1>5 DEF Sockets, r

LEMMA Types ==
    IInv => /\ alive \subseteq Routing /\ phy_dst \in [Routing -> Mac \cup {UNSET}]
            /\ Sockets(nic)
            /\ bcast \in Seq(Routing) /\ Len(bcast) <= MaxQ
            /\ src_eth \in Routing \cup {ZERO} /\ dst_eth \in Routing \cup {ZERO}
            /\ pc \in {"prompt", "asleep", "build", "end"} /\ dest \in Ip
            /\ shown \in [Machine -> SUBSET Ip]
            /\ nmsg \in 0 .. MaxMsg /\ nadv \in 0 .. MaxAdv /\ fresh \subseteq Routing
  BY DEF IInv, TypeOK, AtOwner, Sockets

LEMMA Parts ==
    ASSUME alive' \subseteq Routing, phy_dst' \in [Routing -> Mac \cup {UNSET}],
           Sockets(nic'), bcast' \in Seq(Routing), Len(bcast') <= MaxQ,
           src_eth' \in Routing \cup {ZERO}, dst_eth' \in Routing \cup {ZERO},
           pc' \in {"prompt", "asleep", "build", "end"}, dest' \in Ip,
           shown' \in [Machine -> SUBSET Ip],
           nmsg' \in 0 .. MaxMsg, nadv' \in 0 .. MaxAdv, fresh' \subseteq Routing,
           OnlyFresh', ShownByOwner'
    PROVE  IInv'
  BY DEF IInv, TypeOK, AtOwner, Sockets

\* No address of the table is the group's or a broadcast of a router.
LEMMA NotUnicast == UDP \notin Unicast /\ VRRP_MCAST \notin Unicast
  BY DataPathAssumption DEF Unicast, Ip

LEMMA InitOk == Init => IInv
<1> SUFFICES ASSUME Init PROVE IInv
  OBVIOUS
<1>1. nic \in [Routing -> Seq(Packet)] /\ \A m \in Routing : nic[m] = <<>>
  BY EmptyQueue DEF Init
<1>2. \A m \in Routing : Len(nic[m]) <= MaxQ /\ DOMAIN nic[m] = {}
  BY <1>1, EmptyQueue, DataPathAssumption
<1>3. bcast \in Seq(Routing) /\ Len(bcast) <= MaxQ /\ ToSet(bcast) = {}
  BY EmptyQueue, DataPathAssumption DEF Init, ToSet
<1>4. phy_dst \in [Routing -> Mac \cup {UNSET}]
  BY DEF Init
<1>5. shown \in [Machine -> SUBSET Ip]
  BY DEF Init
<1>6. nmsg \in 0 .. MaxMsg /\ nadv \in 0 .. MaxAdv
  BY DataPathAssumption DEF Init
<1>7. TypeOK
  BY <1>1, <1>2, <1>3, <1>4, <1>5, <1>6 DEF TypeOK, Init
<1>8. OnlyFresh
  BY <1>3 DEF OnlyFresh, Init
<1>9. AtOwner
  BY <1>2 DEF AtOwner
<1>10. ShownByOwner
  BY DEF ShownByOwner, Init
<1> QED BY <1>7, <1>8, <1>9, <1>10 DEF IInv

(***************************************************************************)
(* The sender's steps                                                      *)
(***************************************************************************)
LEMMA EnterOk == ASSUME IInv, Enter PROVE IInv'
<1> USE Types
<1>1. /\ nmsg < MaxMsg /\ nmsg' = nmsg + 1 /\ dest' \in Ip /\ pc' = "asleep" /\ dst_eth' = ZERO
      /\ fresh' = alive \cup ToSet(bcast) \cup ({src_eth} \cap Machine)
      /\ UNCHANGED <<bcast, src_eth, alive, phy_dst, nic, shown, nadv>>
  BY DEF Enter, Started, listener, routers
<1>2. nmsg' \in 0 .. MaxMsg
  BY <1>1, DataPathAssumption
<1>3. fresh' \subseteq Routing
  <2>1. ToSet(bcast) \subseteq Routing
    BY ElementOfSeq DEF ToSet
  <2>2. {src_eth} \cap Machine \subseteq Routing
    BY DataPathAssumption
  <2> QED BY <1>1, <2>1, <2>2
<1>4. OnlyFresh'
  BY <1>1, DataPathAssumption DEF OnlyFresh
<1>5. ShownByOwner'
  BY <1>1 DEF IInv, ShownByOwner
<1> QED BY <1>1, <1>2, <1>3, <1>4, <1>5, Parts

LEMMA WakeOk == ASSUME IInv, Wake PROVE IInv'
<1> USE Types
<1>1. /\ pc' = IF dst_eth = ZERO THEN "prompt" ELSE "build"
      /\ UNCHANGED <<dst_eth, dest, nmsg, fresh, bcast, src_eth, alive, phy_dst, nic, shown, nadv>>
  BY DEF Wake, listener, routers
<1>2. OnlyFresh'
  BY <1>1 DEF IInv, OnlyFresh
<1>3. ShownByOwner'
  BY <1>1 DEF IInv, ShownByOwner
<1> QED BY <1>1, <1>2, <1>3, Parts

LEMMA SendOk == ASSUME IInv, Send PROVE IInv'
<1> USE Types
<1>1. /\ pc' \in {"prompt", "end"}
      /\ UNCHANGED <<dst_eth, dest, nmsg, fresh, bcast, src_eth, alive, phy_dst, nadv>>
  BY DEF Send, listener
<1>2. OnlyFresh'
  BY <1>1 DEF IInv, OnlyFresh
<1>3. CASE UNCHANGED <<nic, shown>>
  <2>1. ShownByOwner'
    BY <1>3 DEF IInv, ShownByOwner
  <2> QED BY <1>1, <1>2, <1>3, <2>1, Parts
<1>4. CASE LET p == [ip |-> dest, hops |-> 0]
           IN Arrive(nic, p, {dst_eth}) /\ Shows(p, {dst_eth})
  <2> DEFINE p == [ip |-> dest, hops |-> 0]
  <2>1. p \in Packet /\ p.hops = 0 /\ p.ip = dest
    BY DEF Packet, MaxHops
  <2> HIDE DEF p
  <2>2. Sockets(nic')
    BY <1>4, <2>1, ArriveOk DEF p
  <2>3. /\ shown' \in [Machine -> SUBSET Ip]
        /\ \A m \in Machine \ Routing : shown'[m] = shown[m]
    BY <1>4, <2>1, DataPathAssumption DEF Shows, p
  <2>4. ShownByOwner'
    BY <2>3 DEF IInv, ShownByOwner
  <2> QED BY <1>1, <1>2, <2>2, <2>3, <2>4, Parts
<1> QED BY <1>3, <1>4 DEF Send

LEMMA HearOk == ASSUME IInv, Hear PROVE IInv'
<1> USE Types
<1>1. /\ bcast # <<>> /\ src_eth' = Head(bcast) /\ bcast' = Tail(bcast)
      /\ UNCHANGED <<dst_eth, pc, dest, nmsg, fresh, alive, phy_dst, nic, shown, nadv>>
  BY DEF Hear, sender, routers
<1>2. /\ Head(bcast) \in Routing /\ Head(bcast) = bcast[1] /\ 1 \in DOMAIN bcast
      /\ Tail(bcast) \in Seq(Routing) /\ Len(Tail(bcast)) = Len(bcast) - 1 /\ Len(bcast) \in Nat
      /\ \A k \in DOMAIN Tail(bcast) : k + 1 \in DOMAIN bcast /\ Tail(bcast)[k] = bcast[k + 1]
  BY <1>1, Taken
<1>3. Len(bcast') <= MaxQ
  BY <1>1, <1>2, DataPathAssumption
<1>4. OnlyFresh'
  BY <1>1, <1>2 DEF IInv, OnlyFresh, ToSet
<1>5. ShownByOwner'
  BY <1>1 DEF IInv, ShownByOwner
<1> QED BY <1>1, <1>2, <1>3, <1>4, <1>5, Parts

LEMMA StoreOk == ASSUME IInv, Store PROVE IInv'
<1> USE Types
<1>1. /\ src_eth # ZERO /\ dst_eth' = src_eth /\ src_eth' = ZERO
      /\ UNCHANGED <<pc, dest, nmsg, fresh, bcast, alive, phy_dst, nic, shown, nadv>>
  BY DEF Store, routers
<1>2. OnlyFresh'
  BY <1>1 DEF IInv, OnlyFresh
<1>3. ShownByOwner'
  BY <1>1 DEF IInv, ShownByOwner
<1> QED BY <1>1, <1>2, <1>3, Parts

(***************************************************************************)
(* The routers' steps and advertisements                                   *)
(***************************************************************************)
LEMMA StartOk == ASSUME IInv, NEW m \in Routing, Start(m) PROVE IInv'
<1> USE Types
<1>1. /\ alive' = alive \cup {m} /\ fresh' = fresh \cup {m}
      /\ UNCHANGED <<dst_eth, pc, dest, nmsg, bcast, src_eth, phy_dst, nic, shown, nadv>>
  BY DEF Start, listener
<1>2. OnlyFresh'
  BY <1>1 DEF IInv, OnlyFresh
<1>3. ShownByOwner'
  BY <1>1 DEF IInv, ShownByOwner
<1> QED BY <1>1, <1>2, <1>3, Parts

LEMMA GoneOk ==
    ASSUME IInv, NEW m \in Routing, Gone(m), UNCHANGED <<sender, listener, shown, nadv>>
    PROVE  IInv'
<1> USE Types
<1>1. /\ alive' = alive \ {m} /\ phy_dst' = [phy_dst EXCEPT ![m] = UNSET]
      /\ nic' = [nic EXCEPT ![m] = <<>>]
      /\ UNCHANGED <<dst_eth, pc, dest, nmsg, fresh, bcast, src_eth, shown, nadv>>
  BY DEF Gone, sender, listener
<1>2. Sockets(nic')
  BY <1>1, ReadOk
<1>3. OnlyFresh'
  BY <1>1 DEF IInv, OnlyFresh
<1>4. ShownByOwner'
  BY <1>1 DEF IInv, ShownByOwner
<1> QED BY <1>1, <1>2, <1>3, <1>4, Parts

LEMMA BroadcastOk == ASSUME IInv, NEW m \in Routing, Broadcast(m) PROVE IInv'
<1> USE Types
<1> DEFINE p == [ip |-> UDP, hops |-> 0]
<1>1. /\ bcast' = IF Len(bcast) < MaxQ THEN Append(bcast, m) ELSE bcast
      /\ m \in alive /\ Arrive(nic, p, Machine \ {m})
      /\ UNCHANGED <<dst_eth, pc, dest, nmsg, fresh, src_eth, alive, phy_dst, shown, nadv>>
  BY DEF Broadcast, sender
<1>2. p \in Packet /\ p.hops = 0
  BY DEF Packet, MaxHops
<1> HIDE DEF p
<1>3. Sockets(nic')
  BY <1>1, <1>2, ArriveOk
<1>4. /\ bcast' \in Seq(Routing) /\ Len(bcast') <= MaxQ
      /\ \A k \in DOMAIN bcast' : (k \in DOMAIN bcast /\ bcast'[k] = bcast[k]) \/ bcast'[k] = m
  <2>1. CASE Len(bcast) < MaxQ
    <3>1. /\ bcast' \in Seq(Routing) /\ Len(bcast') = Len(bcast) + 1 /\ Len(bcast) \in Nat
          /\ \A k \in DOMAIN bcast' : (k \in DOMAIN bcast /\ bcast'[k] = bcast[k]) \/ bcast'[k] = m
      BY <1>1, <2>1, Queued
    <3> QED BY <2>1, <3>1, DataPathAssumption
  <2>2. CASE ~(Len(bcast) < MaxQ)
    BY <1>1, <2>2
  <2> QED BY <2>1, <2>2
<1>5. OnlyFresh'
  BY <1>1, <1>4 DEF IInv, OnlyFresh, ToSet
<1>6. ShownByOwner'
  BY <1>1 DEF IInv, ShownByOwner
<1> QED BY <1>1, <1>3, <1>4, <1>5, <1>6, Parts

LEMMA AdvertiseOk == ASSUME IInv, NEW m \in Machine, Advertise(m) PROVE IInv'
<1> USE Types
<1> DEFINE p == [ip |-> VRRP_MCAST, hops |-> 0]
<1>1. /\ nadv < MaxAdv /\ nadv' = nadv + 1
      /\ Arrive(nic, p, Machine \ {m}) /\ Shows(p, Machine \ {m})
      /\ UNCHANGED <<dst_eth, pc, dest, nmsg, fresh, bcast, src_eth, alive, phy_dst>>
  BY DEF Advertise, sender, listener
<1>2. p \in Packet /\ p.hops = 0 /\ p.ip = VRRP_MCAST
  BY DEF Packet, MaxHops
<1> HIDE DEF p
<1>3. Sockets(nic')
  BY <1>1, <1>2, ArriveOk
<1>4. nadv' \in 0 .. MaxAdv
  BY <1>1, DataPathAssumption
<1>5. shown' = shown
  BY <1>1, <1>2 DEF Shows
<1>6. OnlyFresh'
  BY <1>1 DEF IInv, OnlyFresh
<1>7. ShownByOwner'
  BY <1>5 DEF IInv, ShownByOwner
<1> QED BY <1>1, <1>3, <1>4, <1>5, <1>6, <1>7, Parts

\* A packet for an address of the table leaves for its owner, whatever was sent before,
\* and not at all from the owner itself: this is what ends its way.
LEMMA ForwardOk == ASSUME IInv, NEW m \in Routing, Forward(m) PROVE IInv'
<1> USE Types
<1> DEFINE p == Head(nic[m])
           to == Lookup(p.ip, phy_dst[m])
           q == [p EXCEPT !.hops = IF @ < MaxHops THEN @ + 1 ELSE @]
           rest == [nic EXCEPT ![m] = Tail(@)]
<1>1. /\ nic[m] # <<>>
      /\ UNCHANGED <<dst_eth, pc, dest, nmsg, fresh, bcast, src_eth, nadv>>
  BY DEF Forward, sender, listener
<1>2. OnlyFresh' \/ alive' # alive
  BY <1>1 DEF IInv, OnlyFresh
<1>3. Sockets(rest)
  BY <1>1, ReadOk
<1>4. p \in Packet /\ p = nic[m][1] /\ 1 \in DOMAIN nic[m]
  BY <1>1, Taken DEF Sockets
<1>5. CASE nic' = rest /\ UNCHANGED <<alive, phy_dst, shown>>
  <2>1. ShownByOwner'
    BY <1>5 DEF IInv, ShownByOwner
  <2> QED BY <1>1, <1>2, <1>3, <1>5, <2>1, Parts
<1>6. CASE Gone(m) /\ UNCHANGED shown
  BY <1>1, <1>6, GoneOk DEF sender, listener
<1>7. CASE /\ p.ip # UDP /\ phy_dst' = [phy_dst EXCEPT ![m] = to]
           /\ Arrive(rest, q, Addressees(m, to)) /\ Shows(q, Addressees(m, to))
           /\ UNCHANGED alive
  <2>1. /\ q \in Packet /\ q.ip = p.ip /\ p.ip \in Ip \cup {VRRP_MCAST, UDP}
        /\ p.hops = 0 => q.hops = 1
    BY <1>4 DEF Packet, MaxHops
  <2>2. p.ip \in Unicast => p.hops = 0 \/ m = Owner(p.ip)
    BY <1>4 DEF Sockets
  <2>3. p.ip \in Unicast => to = Owner(p.ip) /\ to # EVERY
    BY LookupFinds DEF Unicast
  <2>4. to \in Mac \cup {UNSET}
    BY LookupFinds DEF Lookup
  <2>5. ASSUME p.ip \in Unicast, NEW x \in Addressees(m, to)
        PROVE  x = Owner(p.ip) /\ p.hops = 0
    BY <2>2, <2>3, <2>5 DEF Addressees
  <2> HIDE DEF p, to, q, rest
  <2>6. phy_dst' \in [Routing -> Mac \cup {UNSET}]
    BY <1>7, <2>4
  <2>7. \A x \in Routing \cap Addressees(m, to) :
           q.ip \in Unicast => q.hops = 1 /\ x = Owner(q.ip)
    BY <2>1, <2>5
  <2>8. Sockets(nic')
    BY <1>3, <1>7, <2>1, <2>7, ArriveOk
  <2>9. shown' \in [Machine -> SUBSET Ip]
    BY <1>7, <2>1 DEF Shows
  <2>10. ShownByOwner'
    <3> SUFFICES ASSUME NEW ip \in Unicast, NEW x \in Machine \ Routing, ip \in shown'[x]
                 PROVE  x = Owner(ip)
      BY DEF ShownByOwner
    <3>1. CASE ip \in shown[x]
      BY <3>1 DEF IInv, ShownByOwner
    <3>2. CASE x \in Addressees(m, to) /\ ip = q.ip
      BY <2>1, <2>5, <3>2
    <3> QED BY <1>7, <3>1, <3>2 DEF Shows
  <2> QED BY <1>1, <1>2, <1>7, <2>6, <2>8, <2>9, <2>10, Parts
<1> QED BY <1>5, <1>6, <1>7 DEF Forward

LEMMA NextOk == IInv /\ [Next]_vars => IInv'
<1> SUFFICES ASSUME IInv, [Next]_vars PROVE IInv'
  OBVIOUS
<1>1. CASE UNCHANGED vars
  <2>1. UNCHANGED <<dst_eth, pc, dest, nmsg, fresh, bcast, src_eth, alive, phy_dst, nic, shown, nadv>>
    BY <1>1 DEF vars, sender, listener, routers
  <2> QED BY <2>1 DEF IInv, TypeOK, OnlyFresh, AtOwner, ShownByOwner
<1>2. ASSUME NEW m \in Routing, Interrupt(m) PROVE IInv'
  BY <1>2, GoneOk DEF Interrupt
<1> QED BY <1>1, <1>2, EnterOk, WakeOk, SendOk, HearOk, StoreOk, StartOk, BroadcastOk,
           ForwardOk, AdvertiseOk DEF Next

THEOREM InductiveInvariant == Spec => []IInv
  BY InitOk, NextOk, PTL DEF Spec

\* Type correctness: sockets hold at most MaxQ packets and dst_eth is always a router's
\* address or zero.
THEOREM TypeCorrect == Spec => []TypeOK
<1>1. IInv => TypeOK
  BY DEF IInv
<1> QED BY <1>1, InductiveInvariant, PTL

\* sender.c, main and acpt_dest_eth: although dst_eth is compared without the lock
\* and may change before it is used, a message goes to a router that ran, or whose
\* broadcast was under way, since dst_eth was cleared for it.
THEOREM MessageGoesToFreshRouter == Spec => []GoesToFreshRouter
<1>1. IInv => GoesToFreshRouter
  BY DEF IInv, OnlyFresh, GoesToFreshRouter
<1> QED BY <1>1, InductiveInvariant, PTL

\* router.c, main: whatever table and whatever was sent before, a message for an
\* address of the table is shown on no machine without a router but its owner's.
THEOREM OnlyOwnerShows == Spec => []ShownByOwner
<1>1. IInv => ShownByOwner
  BY DEF IInv
<1> QED BY <1>1, InductiveInvariant, PTL

\* router.c, main: however many routers run and hear each other, a message for an address
\* of the table is forwarded at most once on its way to another router.
THEOREM NoMessageLoops == Spec => []NoLoop
<1>1. IInv => NoLoop
  BY DEF IInv, AtOwner, NoLoop
<1> QED BY <1>1, InductiveInvariant, PTL
=============================================================================
