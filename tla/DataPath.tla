------------------------------ MODULE DataPath ------------------------------
(***************************************************************************)
(* What the master's router process is for: a sender gives a message to    *)
(* the router it has last heard, the router sends it on, receivers show    *)
(* what reaches their machine.                                             *)
(*                                                                         *)
(* A router broadcasts every second that it is there.  The sender's        *)
(* listener thread keeps the source address of these broadcasts in         *)
(* dst_eth; its main thread clears dst_eth, sleeps a second and takes what *)
(* it finds then.  A packet is its IP destination; texts and checksums are *)
(* left out.  Both sender and router build a packet in four bytes of heap, *)
(* and copy eight bytes into an address of four: they may end there.       *)
(***************************************************************************)
EXTENDS Naturals, Sequences, SequencesExt

CONSTANTS Machine,     \* the machines of the LAN, for their ethernet addresses
          Routing,     \* the machines on which a router may run
          IP_MAC,      \* the router's table, a sequence of [ip, mac]
          OtherIp,     \* addresses that are not in it
          EVERY,       \* ff:ff:ff:ff:ff:ff
          ZERO,        \* 00:00:00:00:00:00
          UNSET,       \* phy_dst before the first lookup: whatever the stack held
          MaxQ,        \* packets a socket holds
          MaxMsg,      \* bound on the number of messages typed
          MaxAdv       \* bound on the number of VRRP advertisements on the LAN

VRRP_MCAST == "224.0.0.18"
UDP == "udp"    \* a packet with another protocol than 112

TableIp == {IP_MAC[k].ip : k \in DOMAIN IP_MAC}
Ip == TableIp \cup OtherIp
Mac == Machine \cup {EVERY}

ASSUME DataPathAssumption ==
    /\ Routing \subseteq Machine
    /\ IP_MAC \in Seq([ip : TableIp, mac : Mac])
    /\ \A j, k \in DOMAIN IP_MAC : IP_MAC[j].ip = IP_MAC[k].ip => IP_MAC[j].mac = IP_MAC[k].mac
    /\ {VRRP_MCAST, UDP} \cap Ip = {} /\ TableIp \cap OtherIp = {}
    /\ {EVERY, ZERO, UNSET} \cap Machine = {}
    /\ MaxQ \in Nat \ {0} /\ MaxMsg \in Nat /\ MaxAdv \in Nat

MaxHops == 2    \* forwardings are counted up to here

Packet == [ip : Ip \cup {VRRP_MCAST, UDP}, hops : 0 .. MaxHops]

VARIABLES
    alive,      \* the machines whose router runs
    phy_dst,    \* per router, the address it last sent to
    nic,        \* per router, the packets in its socket
    bcast,      \* the broadcasts in the listener's socket, by their source
    src_eth,    \* the one the listener is about to store, ZERO if none
    dst_eth,
    pc,         \* the sender's main thread: "prompt", "asleep", "build" or "end"
    dest,       \* the destination typed
    shown,      \* per machine, the destinations of what its receiver has shown
    nmsg, nadv,
    fresh       \* history: the routers that ran, or whose broadcast was under way, when
                \* dst_eth was last cleared, and those started since

sender == <<dst_eth, pc, dest, nmsg, fresh>>
listener == <<bcast, src_eth>>
routers == <<alive, phy_dst, nic>>
vars == <<sender, listener, routers, shown, nadv>>

Init ==
    /\ alive = {}
    /\ phy_dst = [m \in Routing |-> UNSET]
    /\ nic = [m \in Routing |-> <<>>]
    /\ bcast = <<>> /\ src_eth = ZERO /\ dst_eth = ZERO
    /\ pc = "prompt" /\ dest \in Ip
    /\ shown = [m \in Machine |-> {}]
    /\ nmsg = 0 /\ nadv = 0 /\ fresh = {}

(***************************************************************************)
(* The LAN.  A frame goes to the machine it is addressed to or to every    *)
(* machine, never back to the one it comes from; what does not fit a       *)
(* socket is dropped.                                                      *)
(***************************************************************************)
Addressees(from, mac) == (IF mac = EVERY THEN Machine ELSE {mac} \cap Machine) \ {from}

\* mutant: a socket without a limit
ArriveUnbounded(before, p, ms) ==
    nic' = [m \in Routing |->
              IF m \in ms \cap alive THEN Append(before[m], p) ELSE before[m]]

Arrive(before, p, ms) ==
    nic' = [m \in Routing |->
              IF m \in ms \cap alive /\ Len(before[m]) < MaxQ THEN Append(before[m], p)
              ELSE before[m]]

\* receiver.c: what has protocol 112 and is not an advertisement
Shows(p, ms) ==
    shown' = [m \in Machine |->
                IF m \in ms /\ p.ip \notin {UDP, VRRP_MCAST} THEN shown[m] \cup {p.ip} ELSE shown[m]]

(***************************************************************************)
(* The sender                                                              *)
(***************************************************************************)
Started(keep) ==
    /\ pc = "prompt" /\ nmsg < MaxMsg
    /\ nmsg' = nmsg + 1
    /\ dest' \in Ip
    /\ pc' = "asleep"
    /\ dst_eth' = IF keep THEN dst_eth ELSE ZERO
    /\ fresh' = alive \cup ToSet(bcast) \cup ({src_eth} \cap Machine)
    /\ UNCHANGED <<listener, routers, shown, nadv>>

\* mutant: dst_eth keeps the router of the message before
EnterKept == Started(TRUE)

\* a message and its destination are typed, dst_eth is cleared
Enter == Started(FALSE)

\* after sleep(1): dst_eth is compared, without the lock
Wake ==
    /\ pc = "asleep"
    /\ pc' = IF dst_eth = ZERO THEN "prompt" ELSE "build"
    /\ UNCHANGED <<dst_eth, dest, nmsg, fresh, listener, routers, shown, nadv>>

\* CreateEthernetHeader copies dst_eth, under the lock, and the packet is sent
Send ==
    /\ pc = "build"
    /\ \/ /\ pc' = "prompt"
          /\ LET p == [ip |-> dest, hops |-> 0]
             IN Arrive(nic, p, {dst_eth}) /\ Shows(p, {dst_eth})
       \/ pc' = "end" /\ UNCHANGED <<nic, shown>>
    /\ UNCHANGED <<dst_eth, dest, nmsg, fresh, listener, alive, phy_dst, nadv>>

\* acpt_dest_eth: a broadcast for port 9099 is read, ...
Hear ==
    /\ pc # "end" /\ src_eth = ZERO /\ bcast # <<>>
    /\ src_eth' = Head(bcast)
    /\ bcast' = Tail(bcast)
    /\ UNCHANGED <<sender, routers, shown, nadv>>

\* ... and its source stored, under the lock
Store ==
    /\ pc # "end" /\ src_eth # ZERO
    /\ dst_eth' = src_eth
    /\ src_eth' = ZERO
    /\ UNCHANGED <<pc, dest, nmsg, fresh, bcast, routers, shown, nadv>>

(***************************************************************************)
(* The router                                                              *)
(***************************************************************************)

\* the daemon starts it, or a user
Start(m) ==
    /\ m \notin alive
    /\ alive' = alive \cup {m}
    /\ fresh' = fresh \cup {m}
    /\ UNCHANGED <<dst_eth, pc, dest, nmsg, listener, phy_dst, nic, shown, nadv>>

Gone(m) ==
    /\ alive' = alive \ {m}
    /\ phy_dst' = [phy_dst EXCEPT ![m] = UNSET]
    /\ nic' = [nic EXCEPT ![m] = <<>>]

\* SIGINT_handler
Interrupt(m) == m \in alive /\ Gone(m) /\ UNCHANGED <<sender, listener, shown, nadv>>

\* SendBcastPacket, every second
Broadcast(m) ==
    /\ m \in alive
    /\ bcast' = IF Len(bcast) < MaxQ THEN Append(bcast, m) ELSE bcast
    /\ Arrive(nic, [ip |-> UDP, hops |-> 0], Machine \ {m})
    /\ UNCHANGED <<sender, src_eth, alive, phy_dst, shown, nadv>>

\* mutant: the address is taken from the next row
LookupNextRow(ip, old) ==
    IF ip \in TableIp
    THEN LET k == SelectInSeq(IP_MAC, LAMBDA e : e.ip = ip)
         IN IP_MAC[IF k = Len(IP_MAC) THEN 1 ELSE k + 1].mac
    ELSE old

\* The first row with the address.  The loop runs past the table's end for one
\* that is not there, and phy_dst keeps its value.
Lookup(ip, old) ==
    IF ip \in TableIp THEN IP_MAC[SelectInSeq(IP_MAC, LAMBDA e : e.ip = ip)].mac ELSE old

\* main: a packet with protocol 112 is sent on, an advertisement too
Forward(m) ==
    /\ nic[m] # <<>>
    /\ LET p == Head(nic[m])
           to == Lookup(p.ip, phy_dst[m])
           q == [p EXCEPT !.hops = IF @ < MaxHops THEN @ + 1 ELSE @]
           rest == [nic EXCEPT ![m] = Tail(@)]
       IN \/ /\ p.ip = UDP
             /\ nic' = rest /\ UNCHANGED <<alive, phy_dst, shown>>
          \/ /\ p.ip # UDP
             /\ phy_dst' = [phy_dst EXCEPT ![m] = to]
             /\ Arrive(rest, q, Addressees(m, to))
             /\ Shows(q, Addressees(m, to))
             /\ UNCHANGED alive
          \/ p.ip # UDP /\ Gone(m) /\ UNCHANGED shown
    /\ UNCHANGED <<sender, listener, nadv>>

\* a daemon's advertisement, which reaches the routers as well
Advertise(m) ==
    /\ nadv < MaxAdv
    /\ nadv' = nadv + 1
    /\ LET p == [ip |-> VRRP_MCAST, hops |-> 0]
       IN Arrive(nic, p, Machine \ {m}) /\ Shows(p, Machine \ {m})
    /\ UNCHANGED <<sender, listener, alive, phy_dst>>

-----------------------------------------------------------------------------
Next == \/ Enter \/ Wake \/ Send \/ Hear \/ Store
        \/ \E m \in Routing : Start(m) \/ Interrupt(m) \/ Broadcast(m) \/ Forward(m)
        \/ \E m \in Machine : Advertise(m)

Spec == Init /\ [][Next]_vars

-----------------------------------------------------------------------------
\* Sockets hold at most MaxQ packets and dst_eth is a router's address or zero.
TypeOK ==
    /\ alive \subseteq Routing
    /\ phy_dst \in [Routing -> Mac \cup {UNSET}]
    /\ nic \in [Routing -> Seq(Packet)]
    /\ \A m \in Routing : Len(nic[m]) <= MaxQ
    /\ bcast \in Seq(Routing) /\ Len(bcast) <= MaxQ
    /\ src_eth \in Routing \cup {ZERO} /\ dst_eth \in Routing \cup {ZERO}
    /\ pc \in {"prompt", "asleep", "build", "end"} /\ dest \in Ip
    /\ shown \in [Machine -> SUBSET Ip]
    /\ nmsg \in 0 .. MaxMsg /\ nadv \in 0 .. MaxAdv
    /\ fresh \subseteq Routing

\* A message never goes to no router, or to one that had ended, its broadcasts
\* read, before the message was typed: dst_eth, compared without the lock and used
\* after it may have changed again, holds a router that ran since, or whose
\* broadcast was on its way.
GoesToFreshRouter == pc = "build" => dst_eth \in fresh

\* the machine an address of the table belongs to
Owner(ip) == (CHOOSE e \in ToSet(IP_MAC) : e.ip = ip).mac

Unicast == {ip \in TableIp : Owner(ip) # EVERY}

\* A message for an address of the table is shown by the receiver of its owner and
\* of the routers it passes, whatever a router sent before it.
ShownByOwner ==
    \A ip \in Unicast : \A m \in Machine \ Routing : ip \in shown[m] => m = Owner(ip)

\* Routers that hear each other do not send a message for an address of the table
\* round and round: though the TTL is set anew each time, it is forwarded once, or
\* twice if its owner runs a router as well.
NoLoop ==
    \A m \in Routing : \A k \in DOMAIN nic[m] :
        nic[m][k].ip \in Unicast => nic[m][k].hops <= 1
=============================================================================
