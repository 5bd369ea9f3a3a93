----------------------------- MODULE PollTable -----------------------------
(***************************************************************************)
(* The sockets of the daemon: netfds[], one entry per interface, and the   *)
(* poll table with its companions poll_intfs[] and poll_afs[], as          *)
(* setup_adm_socket and CMD_CREATE_INST fill them.  Nothing is ever taken  *)
(* out: removing an instance leaves its sockets open and polled.           *)
(***************************************************************************)
EXTENDS Integers, Sequences, FiniteSets

CONSTANTS Ifname,     \* the interfaces of the host
          NETFDS,     \* size of netfds[]
          CHUNK,      \* size of poll_intfs[] and poll_afs[], and by how much
                      \* pollfds[] grows
          MaxCreate   \* bound on the instances created

AF_UNSPEC == 0
AF_INET == 2
NONE == ""            \* an interface name that was never set

ASSUME TableAssumption ==
    /\ NONE \notin Ifname
    /\ NETFDS \in Nat \ {0} /\ CHUNK \in Nat \ {0} /\ MaxCreate \in Nat

VARIABLES netfds,      \* per entry, its interface and its two sockets
          pollfds,     \* the file descriptors polled, -1 where free
          poll_intfs,
          poll_afs,
          bound,       \* the interface each descriptor is bound to, in order
          insts,       \* the instances created: interface, entry of netfds[]
          up           \* FALSE once an array was written past its end

vars == <<netfds, pollfds, poll_intfs, poll_afs, bound, insts, up>>

Index(n) == 0 .. n - 1

Init ==
    /\ netfds = [i \in Index(NETFDS) |-> [intf |-> NONE, s_send |-> 0, s_rcv |-> 0]]
    /\ pollfds = <<>>
    /\ poll_intfs = [i \in Index(CHUNK) |-> NONE]
    /\ poll_afs = [i \in Index(CHUNK) |-> AF_UNSPEC]
    /\ bound = <<>>
    /\ insts = <<>>
    /\ up = TRUE

Least(S) == CHOOSE n \in S : \A m \in S : n <= m

(***************************************************************************)
(* poll_add(fd, af, intf).  C indices start at 0, those of pollfds at 1.   *)
(***************************************************************************)

\* mutant: the name goes one entry too far
fillNext(fd, af, f) ==
    LET i == Least({n \in DOMAIN pollfds : pollfds[n] = -1})
    IN /\ pollfds' = [pollfds EXCEPT ![i] = fd]
       /\ poll_afs' = [poll_afs EXCEPT ![i - 1] = af]
       /\ poll_intfs' = [poll_intfs EXCEPT ![i] = f]

\* mutant: a spot in use is taken
fillTaken(fd, af, f) ==
    /\ pollfds' = [pollfds EXCEPT ![2] = fd]
    /\ poll_afs' = [poll_afs EXCEPT ![1] = af]
    /\ poll_intfs' = [poll_intfs EXCEPT ![1] = f]

\* an empty spot already present
fillSpot(fd, af, f) ==
    LET i == Least({n \in DOMAIN pollfds : pollfds[n] = -1})
    IN /\ pollfds' = [pollfds EXCEPT ![i] = fd]
       /\ poll_afs' = [poll_afs EXCEPT ![i - 1] = af]
       /\ poll_intfs' = IF f = NONE THEN poll_intfs
                        ELSE [poll_intfs EXCEPT ![i - 1] = f]

\* mutant: the new spots are zeroed instead of marked free
growZeroed(fd) ==
    /\ pollfds' = pollfds \o [n \in 1 .. CHUNK |-> IF n = 1 THEN fd ELSE 0]
    /\ UNCHANGED <<poll_afs, poll_intfs>>

\* space for more; the family is not stored
growTable(fd) ==
    /\ pollfds' = pollfds \o [n \in 1 .. CHUNK |-> IF n = 1 THEN fd ELSE -1]
    /\ UNCHANGED <<poll_afs, poll_intfs>>

\* The name of an interface is written at index pollfd_num.  Only the command
\* socket, which has none, finds an empty table; for any other the table is full
\* and the index is the size of poll_intfs[].  A failing realloc changes nothing.
poll_add(fd, af, f) ==
    \/ /\ \E n \in DOMAIN pollfds : pollfds[n] = -1
       /\ fillSpot(fd, af, f)
       /\ UNCHANGED up
    \/ /\ \A n \in DOMAIN pollfds : pollfds[n] # -1
       /\ IF f = NONE THEN growTable(fd) /\ UNCHANGED up
          ELSE /\ up' \in BOOLEAN
               /\ UNCHANGED <<pollfds, poll_intfs, poll_afs>>

\* socket(), bind(), poll_add(); vrrpd exits if one of them fails
setup_adm_socket ==
    /\ up /\ pollfds = <<>>
    /\ bound' = <<NONE>>
    /\ poll_add(1, AF_UNSPEC, NONE)
    /\ UNCHANGED <<netfds, insts>>

(***************************************************************************)
(* vrrpd_setup_netfd, inst_start_recv                                      *)
(***************************************************************************)

\* mutants: the first entry whatever its interface; always an empty one
entryFirst(f) == 0
entryEmpty(f) ==
    LET empty == {i \in DOMAIN netfds : netfds[i].intf = NONE}
    IN IF empty # {} THEN Least(empty) ELSE NETFDS

\* vrrpd_setup_netfd_vr: the entry of the interface, or the first empty one
entryFor(f) ==
    LET mine == {i \in DOMAIN netfds : netfds[i].intf = f}
        empty == {i \in DOMAIN netfds : netfds[i].intf = NONE}
    IN IF mine # {} THEN Least(mine) ELSE IF empty # {} THEN Least(empty) ELSE NETFDS

\* CreateSock and BindSock, twice: two new descriptors bound to the interface
openSockets(f) == bound' = bound \o <<f, f>>

\* init_netfd: a sending and a receiving socket, bound to the interface.  They
\* replace those of an entry in use, which stay open.
init_netfd(i, f) ==
    /\ openSockets(f)
    /\ netfds' = [netfds EXCEPT ![i] = [intf |-> f, s_send |-> Len(bound) + 1,
                                       s_rcv |-> Len(bound) + 2]]

\* What CMD_CREATE_INST does once vrrp_create_inst has succeeded.  The
\* interface after the last that fits gets an entry past the end of netfds[].
create_inst(f) ==
    LET i == entryFor(f)
    IN /\ up /\ pollfds # <<>>
       /\ Len(insts) < MaxCreate
       /\ insts' = Append(insts, [intf |-> f, vfd |-> i])
       /\ IF i = NETFDS
          THEN up' = FALSE /\ UNCHANGED <<netfds, pollfds, poll_intfs, poll_afs, bound>>
          ELSE /\ init_netfd(i, f)
               /\ poll_add(netfds'[i].s_rcv, AF_INET, f)

Next == setup_adm_socket \/ \E f \in Ifname : create_inst(f)

Spec == Init /\ [][Next]_vars

-----------------------------------------------------------------------------
\* Descriptors are numbered from 1, the command socket's.
TypeOK ==
    /\ netfds \in [Index(NETFDS) -> [intf : Ifname \cup {NONE},
                                     s_send : 0 .. Len(bound), s_rcv : 0 .. Len(bound)]]
    /\ pollfds \in Seq({-1} \cup 1 .. Len(bound))
    /\ poll_intfs \in [Index(CHUNK) -> Ifname \cup {NONE}]
    /\ poll_afs \in [Index(CHUNK) -> {AF_UNSPEC, AF_INET}]
    /\ bound \in Seq(Ifname \cup {NONE})
    /\ insts \in Seq([intf : Ifname, vfd : 0 .. NETFDS])
    /\ up \in BOOLEAN

\* socket n of the table is polled for advertisements
Polled(n) == n \in DOMAIN pollfds /\ pollfds[n] > 1

\* process_vrrpd_sock is told the interface its socket is bound to, and AF_INET:
\* the entries of the parallel arrays never get out of step, so the instance the
\* advertisement is for is looked up on the interface it came in on.
NamesMatchSockets ==
    \A n \in DOMAIN pollfds : Polled(n) =>
        poll_intfs[n - 1] = bound[pollfds[n]] /\ poll_afs[n - 1] = AF_INET

\* Every instance within the size of the poll table hears its interface, whatever
\* instances were created on whatever interfaces after it.
InstanceHears ==
    \A k \in DOMAIN insts : (k < CHUNK /\ insts[k].vfd < NETFDS) =>
        \E n \in DOMAIN pollfds : Polled(n) /\ bound[pollfds[n]] = insts[k].intf

\* An instance sends through a socket bound to its own interface, although the
\* entry of netfds[] it points to is rewritten by every later create.
SendsOnOwnInterface ==
    \A k \in DOMAIN insts : insts[k].vfd < NETFDS =>
        bound[netfds[insts[k].vfd].s_send] = insts[k].intf

\* The arrays are large enough for one instance less than the poll table holds
\* descriptors, on as many interfaces as netfds[] has entries, and no write goes
\* past their end before that.
EnoughRoom ==
    (Len(insts) < CHUNK /\ Cardinality({insts[k].intf : k \in DOMAIN insts}) <= NETFDS) => up
=============================================================================
