-------------------------- MODULE PollTableProofs --------------------------
(***************************************************************************)
(* Proofs about the sockets of the daemon, for any interfaces, any size of *)
(* netfds[] and of the poll table and any number of instances.             *)
(***************************************************************************)
EXTENDS PollTable, SequenceTheorems, FiniteSetTheorems, WellFoundedInduction, TLAPS

(***************************************************************************)
(* The inductive invariant                                                 *)
(***************************************************************************)

\* Before the command socket is set up there is nothing.
Blank ==
    /\ bound = <<>> /\ insts = <<>> /\ up
    /\ \A i \in DOMAIN netfds : netfds[i].intf = NONE

\* The table is filled from the front, the command socket first and then a socket per
\* instance, in the order they were created.
FilledInOrder ==
    /\ Len(pollfds) = CHUNK /\ bound # <<>> /\ pollfds[1] = 1
    /\ up => \A n \in 1 .. CHUNK : pollfds[n] = -1 <=> n > Len(insts) + 1
    /\ \A k \in DOMAIN insts : (k < CHUNK /\ insts[k].vfd < NETFDS) => pollfds[k + 1] # -1
    /\ \A n \in 2 .. CHUNK : pollfds[n] # -1 =>
          /\ n - 1 \in DOMAIN insts /\ pollfds[n] > 1
          /\ bound[pollfds[n]] = insts[n - 1].intf
          /\ poll_intfs[n - 1] = insts[n - 1].intf /\ poll_afs[n - 1] = AF_INET

\* Each interface of an instance has one entry, with sockets bound to it, and no other
\* interface has one.
OneEntryEach ==
    /\ \A i \in DOMAIN netfds : netfds[i].intf # NONE =>
          /\ netfds[i].s_send # 0 /\ bound[netfds[i].s_send] = netfds[i].intf
          /\ \E k \in DOMAIN insts : insts[k].intf = netfds[i].intf
    /\ \A i, j \in DOMAIN netfds :
          (netfds[i].intf = netfds[j].intf /\ netfds[i].intf # NONE) => i = j
    /\ \A k \in DOMAIN insts : insts[k].vfd < NETFDS =>
          netfds[insts[k].vfd].intf = insts[k].intf

IInv == /\ TypeOK
        /\ pollfds = <<>> => Blank
        /\ pollfds # <<>> => FilledInOrder
        /\ OneEntryEach
        /\ EnoughRoom

(***************************************************************************)
(* Operators                                                               *)
(***************************************************************************)

\* Every set of numbers that is not empty has a least one.
LEMMA LeastNat ==
    ASSUME NEW S \in SUBSET Nat, S # {}
    PROVE  Least(S) \in S /\ \A y \in S : Least(S) <= y
<1>1. PICK x \in S : \A y \in S : ~(<<y, x>> \in OpToRel(<, Nat))
  BY NatLessThanWellFounded, WFMin
<1>2. ASSUME NEW y \in S PROVE x <= y
  <2>1. ~(y < x)
    BY <1>1 DEF OpToRel
  <2> QED BY <2>1
<1> QED BY <1>2 DEF Least

\* The entry found for an interface is its own or, if it has none, an empty one; there
\* is none only if every entry belongs to another.
LEMMA EntryFound ==
    ASSUME DOMAIN netfds = Index(NETFDS), NEW f \in Ifname, NEW i, i = entryFor(f)
    PROVE  \/ i \in Index(NETFDS) /\ netfds[i].intf = f
           \/ /\ i \in Index(NETFDS) /\ netfds[i].intf = NONE
              /\ \A j \in DOMAIN netfds : netfds[j].intf # f
           \/ i = NETFDS /\ \A j \in DOMAIN netfds : netfds[j].intf \notin {f, NONE}
<1> DEFINE mine == {j \in DOMAIN netfds : netfds[j].intf = f}
           empty == {j \in DOMAIN netfds : netfds[j].intf = NONE}
<1>1. mine \subseteq Nat /\ empty \subseteq Nat
  BY TableAssumption DEF Index
<1>2. i = IF mine # {} THEN Least(mine) ELSE IF empty # {} THEN Least(empty) ELSE NETFDS
  BY DEF entryFor
<1>3. CASE mine # {}
  BY <1>1, <1>2, <1>3, LeastNat
<1>4. CASE mine = {} /\ empty # {}
  BY <1>1, <1>2, <1>4, LeastNat
<1>5. CASE mine = {} /\ empty = {}
  BY <1>2, <1>5
<1> QED BY <1>3, <1>4, <1>5

\* No socket is bound to two interfaces, and no entry of netfds[] loses its sockets.
LEMMA Opened ==
    ASSUME bound \in Seq(Ifname \cup {NONE}), NEW f \in Ifname, openSockets(f)
    PROVE  /\ bound' \in Seq(Ifname \cup {NONE}) /\ Len(bound) \in Nat
           /\ Len(bound') = Len(bound) + 2
           /\ \A n \in 1 .. Len(bound) : bound'[n] = bound[n]
           /\ bound'[Len(bound) + 1] = f /\ bound'[Len(bound) + 2] = f
<1> DEFINE S == Ifname \cup {NONE}
<1>1. <<f, f>> \in Seq(S) /\ Len(<<f, f>>) = 2 /\ <<f, f>>[1] = f /\ <<f, f>>[2] = f
  OBVIOUS
<1>2. PICK t \in Seq(S) : t = <<f, f>> /\ Len(t) = 2 /\ t[1] = f /\ t[2] = f
  BY <1>1
<1>3. bound' = bound \o t
  BY <1>2 DEF openSockets
<1>4. Len(bound) \in Nat
  OBVIOUS
<1> HIDE DEF S
<1>5. /\ bound \o t \in Seq(S) /\ Len(bound \o t) = Len(bound) + 2
      /\ \A n \in 1 .. Len(bound) + 2 :
            (bound \o t)[n] = IF n <= Len(bound) THEN bound[n] ELSE t[n - Len(bound)]
  BY <1>2, ConcatProperties DEF S
<1>6. bound'[Len(bound) + 1] = t[1] /\ bound'[Len(bound) + 2] = t[2]
  BY <1>3, <1>4, <1>5
<1>7. \A n \in 1 .. Len(bound) : bound'[n] = bound[n]
  BY <1>3, <1>4, <1>5
<1> QED BY <1>2, <1>3, <1>4, <1>5, <1>6, <1>7 DEF S

(***************************************************************************)
(* The steps                                                               *)
(***************************************************************************)
LEMMA InitOk == Init => IInv
<1> SUFFICES ASSUME Init PROVE IInv
  OBVIOUS
<1>1. <<>> \in Seq({-1} \cup 1 .. 0) /\ (\A S : <<>> \in Seq(S)) /\ Len(<<>>) = 0 /\ DOMAIN <<>> = {}
  OBVIOUS
<1>2. bound = <<>> /\ insts = <<>> /\ pollfds = <<>> /\ up /\ Len(bound) = 0
      /\ DOMAIN insts = {}
  BY <1>1 DEF Init
<1>3. netfds \in [Index(NETFDS) -> [intf : Ifname \cup {NONE},
                                    s_send : 0 .. Len(bound), s_rcv : 0 .. Len(bound)]]
  BY <1>2 DEF Init
<1>4. /\ poll_intfs \in [Index(CHUNK) -> Ifname \cup {NONE}]
      /\ poll_afs \in [Index(CHUNK) -> {AF_UNSPEC, AF_INET}]
  BY DEF Init
<1>5. up \in BOOLEAN
  BY DEF Init
<1>6. TypeOK
  BY <1>1, <1>2, <1>3, <1>4, <1>5 DEF TypeOK
<1>7. Blank
  BY <1>2 DEF Blank, Init
<1>8. OneEntryEach
  BY <1>2 DEF OneEntryEach, Init
<1>9. EnoughRoom
  BY <1>2 DEF EnoughRoom
<1> QED BY <1>2, <1>6, <1>7, <1>8, <1>9 DEF IInv

LEMMA SetupOk == ASSUME IInv, setup_adm_socket PROVE IInv'
<1> DEFINE first == [n \in 1 .. CHUNK |-> IF n = 1 THEN 1 ELSE -1]
           fds == {-1} \cup 1 .. 1
<1>1. pollfds = <<>> /\ bound' = <<NONE>> /\ UNCHANGED <<netfds, insts>>
  BY DEF setup_adm_socket
<1>2. /\ pollfds' = pollfds \o first /\ UNCHANGED <<poll_afs, poll_intfs, up>>
  <2>1. DOMAIN pollfds = {}
    BY <1>1
  <2>2. poll_add(1, AF_UNSPEC, NONE)
    BY DEF setup_adm_socket
  <2> QED BY <2>1, <2>2 DEF poll_add, growTable
<1>3. first \in Seq(fds) /\ Len(first) = CHUNK /\ first # <<>>
  <2>1. first \in [1 .. CHUNK -> fds]
    BY TableAssumption
  <2> QED BY <2>1, TableAssumption
<1>4. pollfds' = first
  BY <1>1, <1>2, <1>3, ConcatEmptySeq
<1>5. Blank /\ DOMAIN insts = {}
  BY <1>1 DEF IInv, Blank
<1>6. Len(bound') = 1 /\ bound' # <<>> /\ bound' \in Seq(Ifname \cup {NONE})
  BY <1>1
<1>7. TypeOK'
  <2>1. netfds' \in [Index(NETFDS) -> [intf : Ifname \cup {NONE},
                                       s_send : 0 .. Len(bound'), s_rcv : 0 .. Len(bound')]]
    <3>1. /\ netfds \in [Index(NETFDS) -> [intf : Ifname \cup {NONE},
                                           s_send : 0 .. Len(bound), s_rcv : 0 .. Len(bound)]]
          /\ Len(bound) = 0
      BY <1>5 DEF IInv, TypeOK, Blank
    <3>2. 0 .. Len(bound) \subseteq 0 .. Len(bound')
      BY <1>6, <3>1
    <3> QED BY <1>1, <3>1, <3>2
  <2>2. pollfds' \in Seq({-1} \cup 1 .. Len(bound'))
    BY <1>3, <1>4, <1>6
  <2>3. /\ poll_intfs' \in [Index(CHUNK) -> Ifname \cup {NONE}]
        /\ poll_afs' \in [Index(CHUNK) -> {AF_UNSPEC, AF_INET}]
        /\ insts' \in Seq([intf : Ifname, vfd : 0 .. NETFDS])
    BY <1>1, <1>2 DEF IInv, TypeOK
  <2>4. up' \in BOOLEAN
    BY <1>2 DEF IInv, TypeOK
  <2> QED BY <1>6, <2>1, <2>2, <2>3, <2>4 DEF TypeOK
<1>8. FilledInOrder'
  <2>1. first[1] = 1 /\ \A n \in 2 .. CHUNK : first[n] = -1
    BY TableAssumption
  <2>2. Len(insts') = 0
    BY <1>1, <1>5 DEF Blank
  <2>3. \A n \in 1 .. CHUNK : first[n] = -1 <=> n > 1
    BY TableAssumption
  <2>4. DOMAIN insts' = {} /\ Len(pollfds') = CHUNK
    BY <1>1, <1>3, <1>4, <1>5
  <2> HIDE DEF first
  <2>5. /\ pollfds'[1] = 1 /\ \A n \in 2 .. CHUNK : pollfds'[n] = -1
        /\ \A n \in 1 .. CHUNK : pollfds'[n] = -1 <=> n > Len(insts') + 1
    BY <1>4, <2>1, <2>2, <2>3
  <2> QED BY <1>6, <2>4, <2>5 DEF FilledInOrder
<1>9. OneEntryEach'
  BY <1>1, <1>5 DEF OneEntryEach, Blank
<1>10. EnoughRoom'
  BY <1>2, <1>5 DEF EnoughRoom, Blank
<1> QED BY <1>3, <1>4, <1>7, <1>8, <1>9, <1>10 DEF IInv

\* What is known before an instance on interface f is created with entry i.
Creating(f, i) ==
    /\ IInv /\ up /\ FilledInOrder
    /\ i = entryFor(f)
    /\ insts' = Append(insts, [intf |-> f, vfd |-> i])

LEMMA Created ==
    ASSUME NEW f \in Ifname, NEW i, Creating(f, i)
    PROVE  /\ DOMAIN netfds = Index(NETFDS) /\ Len(insts) \in Nat
           /\ i \in 0 .. NETFDS
           /\ insts' \in Seq([intf : Ifname, vfd : 0 .. NETFDS])
           /\ DOMAIN insts = 1 .. Len(insts) /\ DOMAIN insts' = 1 .. Len(insts) + 1
           /\ Len(insts') = Len(insts) + 1
           /\ \A k \in DOMAIN insts : insts'[k] = insts[k] /\ insts[k].intf \in Ifname
           /\ insts'[Len(insts) + 1] = [intf |-> f, vfd |-> i]
<1> DEFINE S == [intf : Ifname, vfd : 0 .. NETFDS]
           e == [intf |-> f, vfd |-> i]
<1>1. insts \in Seq(S) /\ DOMAIN netfds = Index(NETFDS)
  BY DEF Creating, IInv, TypeOK
<1>2. i \in 0 .. NETFDS
  BY <1>1, EntryFound, TableAssumption DEF Creating, Index
<1>3. e \in S
  BY <1>2
<1>4. \A k \in DOMAIN insts : insts[k].intf \in Ifname
  <2> SUFFICES ASSUME NEW k \in DOMAIN insts PROVE insts[k].intf \in Ifname
    OBVIOUS
  <2>1. k \in 1 .. Len(insts)
    BY <1>1
  <2>2. insts[k] \in S
    <3> HIDE DEF S
    <3> QED BY <1>1, <2>1, ElementOfSeq
  <2> QED BY <2>2
<1> HIDE DEF S, e
<1>5. /\ Append(insts, e) \in Seq(S) /\ Len(Append(insts, e)) = Len(insts) + 1
      /\ \A k \in 1 .. Len(insts) : Append(insts, e)[k] = insts[k]
      /\ Append(insts, e)[Len(insts) + 1] = e
  BY <1>1, <1>3, AppendProperties
<1>6. insts' = Append(insts, e)
  BY DEF Creating, e
<1>7. Len(insts) \in Nat /\ DOMAIN insts = 1 .. Len(insts) /\ DOMAIN insts' = 1 .. Len(insts')
  BY <1>1, <1>5, <1>6
<1> QED BY <1>1, <1>2, <1>4, <1>5, <1>6, <1>7 DEF S, e

\* netfds[] has no entry left for a seventeenth interface: there were enough before.
LEMMA NoEntryOk ==
    ASSUME NEW f \in Ifname, Creating(f, NETFDS), up' = FALSE,
           UNCHANGED <<netfds, pollfds, poll_intfs, poll_afs, bound>>, pollfds # <<>>
    PROVE  IInv'
<1>1. /\ DOMAIN netfds = Index(NETFDS) /\ Len(insts) \in Nat
      /\ insts' \in Seq([intf : Ifname, vfd : 0 .. NETFDS])
      /\ DOMAIN insts = 1 .. Len(insts) /\ DOMAIN insts' = 1 .. Len(insts) + 1
      /\ Len(insts') = Len(insts) + 1
      /\ \A k \in DOMAIN insts : insts'[k] = insts[k] /\ insts[k].intf \in Ifname
      /\ insts'[Len(insts) + 1] = [intf |-> f, vfd |-> NETFDS]
  BY Created
<1>2. \A j \in Index(NETFDS) : netfds[j].intf \notin {f, NONE}
  BY <1>1, EntryFound DEF Creating, Index
<1>3. TypeOK'
  BY <1>1 DEF TypeOK, IInv, Creating
<1>4. FilledInOrder'
  BY <1>1, TableAssumption DEF FilledInOrder, Creating
<1>5. OneEntryEach'
  BY <1>1, TableAssumption DEF OneEntryEach, IInv, Creating
<1>6. EnoughRoom'
  <2> DEFINE N == Len(insts) + 1
             S == {insts'[k].intf : k \in 1 .. N}
             g == [j \in 0 .. NETFDS |-> IF j = NETFDS THEN f ELSE netfds[j].intf]
             h == [k \in 1 .. N |-> insts'[k].intf]
  <2>1. IsFiniteSet(1 .. N) /\ h \in Surjection(1 .. N, S)
    <3>1. N \in Nat
      BY <1>1
    <3> HIDE DEF N
    <3>2. IsFiniteSet(1 .. N)
      BY <3>1, FS_Interval
    <3>3. h \in [1 .. N -> S] /\ \A t \in S : \E k \in 1 .. N : h[k] = t
      OBVIOUS
    <3> QED BY <3>2, <3>3 DEF Surjection
  <2>2. IsFiniteSet(S) /\ Cardinality(S) \in Nat
    BY <2>1, FS_Surjection, FS_CardinalityType
  <2>3. IsFiniteSet(0 .. NETFDS) /\ Cardinality(0 .. NETFDS) = NETFDS + 1
    BY FS_Interval, TableAssumption
  <2>4. \A j \in Index(NETFDS) : \E k \in 1 .. Len(insts) : netfds[j].intf = insts[k].intf
    BY <1>1, <1>2 DEF IInv, OneEntryEach, Creating
  <2>5. g \in [0 .. NETFDS -> S]
    <3>1. f \in S
      <4>1. N \in 1 .. N /\ insts'[N].intf = f
        BY <1>1
      <4> QED BY <4>1
    <3>2. \A j \in Index(NETFDS) : netfds[j].intf \in S
      <4> SUFFICES ASSUME NEW j \in Index(NETFDS) PROVE netfds[j].intf \in S
        OBVIOUS
      <4>1. PICK k \in 1 .. Len(insts) : netfds[j].intf = insts[k].intf
        BY <2>4
      <4>2. k \in 1 .. N /\ insts'[k] = insts[k]
        BY <1>1
      <4> QED BY <4>1, <4>2
    <3> HIDE DEF S
    <3> QED BY <3>1, <3>2, TableAssumption DEF Index
  <2>6. \A x, y \in 0 .. NETFDS : x # y => g[x] # g[y]
    <3> SUFFICES ASSUME NEW x \in 0 .. NETFDS, NEW y \in 0 .. NETFDS, x # y, g[x] = g[y]
                 PROVE  FALSE
      OBVIOUS
    <3>1. CASE x = NETFDS
      BY <1>2, <3>1, TableAssumption DEF Index
    <3>2. CASE y = NETFDS
      BY <1>2, <3>2, TableAssumption DEF Index
    <3>3. CASE x # NETFDS /\ y # NETFDS
      <4>1. x \in Index(NETFDS) /\ y \in Index(NETFDS) /\ netfds[x].intf = netfds[y].intf
        BY <3>3, TableAssumption DEF Index
      <4> QED BY <1>1, <1>2, <4>1 DEF IInv, OneEntryEach, Creating
    <3> QED BY <3>1, <3>2, <3>3
  <2>7. ~(Cardinality(S) < NETFDS + 1)
    <3> HIDE DEF S, g
    <3> QED BY <2>2, <2>3, <2>5, <2>6, FS_PigeonHole
  <2>8. S = {insts'[k].intf : k \in DOMAIN insts'}
    BY <1>1
  <2> HIDE DEF S
  <2>9. ~(Cardinality({insts'[k].intf : k \in DOMAIN insts'}) <= NETFDS)
    BY <2>2, <2>7, <2>8, TableAssumption
  <2> QED BY <2>9 DEF EnoughRoom
<1> QED BY <1>3, <1>4, <1>5, <1>6 DEF IInv

\* New sockets for an entry: whoever points to it is on the same interface.
LEMMA EntryRewritten ==
    ASSUME NEW f \in Ifname, NEW i, Creating(f, i), i # NETFDS, init_netfd(i, f)
    PROVE  /\ OneEntryEach'
           /\ netfds' \in [Index(NETFDS) -> [intf : Ifname \cup {NONE},
                                             s_send : 0 .. Len(bound'), s_rcv : 0 .. Len(bound')]]
           /\ netfds'[i].s_rcv = Len(bound) + 2
<1> DEFINE L == Len(bound)
<1>1. /\ DOMAIN netfds = Index(NETFDS) /\ Len(insts) \in Nat
      /\ DOMAIN insts = 1 .. Len(insts) /\ DOMAIN insts' = 1 .. Len(insts) + 1
      /\ \A k \in DOMAIN insts : insts'[k] = insts[k] /\ insts[k].intf \in Ifname
      /\ insts'[Len(insts) + 1] = [intf |-> f, vfd |-> i]
  BY Created
<1>2. /\ i \in Index(NETFDS)
      /\ \/ netfds[i].intf = f
         \/ netfds[i].intf = NONE /\ \A j \in DOMAIN netfds : netfds[j].intf # f
  BY <1>1, EntryFound DEF Creating
<1>3. bound \in Seq(Ifname \cup {NONE}) /\ openSockets(f)
  BY DEF init_netfd, Creating, IInv, TypeOK
<1>4. /\ L \in Nat /\ Len(bound') = L + 2
      /\ \A n \in 1 .. L : bound'[n] = bound[n]
      /\ bound'[L + 1] = f /\ bound'[L + 2] = f
  BY <1>3, Opened
<1>5. netfds \in [Index(NETFDS) -> [intf : Ifname \cup {NONE}, s_send : 0 .. L, s_rcv : 0 .. L]]
  BY DEF Creating, IInv, TypeOK
<1>6. netfds' = [netfds EXCEPT ![i] = [intf |-> f, s_send |-> L + 1, s_rcv |-> L + 2]]
  BY DEF init_netfd
<1> HIDE DEF L
<1>7. /\ netfds'[i].intf = f /\ netfds'[i].s_send = L + 1 /\ netfds'[i].s_rcv = L + 2
      /\ \A j \in Index(NETFDS) \ {i} : netfds'[j] = netfds[j]
      /\ DOMAIN netfds' = Index(NETFDS)
  BY <1>2, <1>5, <1>6
<1>8. netfds' \in [Index(NETFDS) -> [intf : Ifname \cup {NONE},
                                     s_send : 0 .. Len(bound'), s_rcv : 0 .. Len(bound')]]
  <2> DEFINE E == [intf : Ifname \cup {NONE}, s_send : 0 .. L + 2, s_rcv : 0 .. L + 2]
  <2>1. \A j \in Index(NETFDS) : netfds[j] \in E
    <3>1. 0 .. L \subseteq 0 .. L + 2
      BY <1>4
    <3> QED BY <1>5, <3>1
  <2>2. [intf |-> f, s_send |-> L + 1, s_rcv |-> L + 2] \in E
    BY <1>4
  <2> HIDE DEF E
  <2>3. netfds' \in [Index(NETFDS) -> E]
    BY <1>5, <1>6, <2>1, <2>2
  <2> QED BY <1>4, <2>3 DEF E
<1>9. OneEntryEach'
  <2>1. OneEntryEach /\ NONE # f
    BY TableAssumption DEF Creating, IInv
  <2>2. ASSUME NEW j \in Index(NETFDS), netfds'[j].intf # NONE
        PROVE  /\ netfds'[j].s_send # 0 /\ bound'[netfds'[j].s_send] = netfds'[j].intf
               /\ \E k \in DOMAIN insts' : insts'[k].intf = netfds'[j].intf
    <3>1. CASE j = i
      <4>1. Len(insts) + 1 \in DOMAIN insts' /\ insts'[Len(insts) + 1].intf = f
        BY <1>1
      <4> QED BY <1>4, <1>7, <3>1, <4>1
    <3>2. CASE j # i
      <4>1. netfds'[j] = netfds[j] /\ netfds[j].s_send \in 0 .. L
        BY <1>5, <1>7, <3>2
      <4>2. /\ netfds[j].s_send # 0 /\ bound[netfds[j].s_send] = netfds[j].intf
            /\ \E k \in DOMAIN insts : insts[k].intf = netfds[j].intf
        BY <1>1, <2>1, <2>2, <4>1 DEF OneEntryEach
      <4>3. bound'[netfds[j].s_send] = bound[netfds[j].s_send]
        BY <1>4, <4>1, <4>2
      <4> QED BY <1>1, <4>1, <4>2, <4>3
    <3> QED BY <3>1, <3>2
  <2>3. ASSUME NEW j \in Index(NETFDS), NEW l \in Index(NETFDS),
               netfds'[j].intf = netfds'[l].intf, netfds'[j].intf # NONE
        PROVE  j = l
    <3>1. CASE j = i
      BY <1>1, <1>2, <1>7, <2>1, <2>3, <3>1 DEF OneEntryEach
    <3>2. CASE l = i
      BY <1>1, <1>2, <1>7, <2>1, <2>3, <3>2 DEF OneEntryEach
    <3>3. CASE j # i /\ l # i
      BY <1>1, <1>7, <2>1, <2>3, <3>3 DEF OneEntryEach
    <3> QED BY <3>1, <3>2, <3>3
  <2>4. ASSUME NEW k \in DOMAIN insts', insts'[k].vfd < NETFDS
        PROVE  netfds'[insts'[k].vfd].intf = insts'[k].intf
    <3>1. CASE k = Len(insts) + 1
      BY <1>1, <1>7, <3>1
    <3>2. CASE k # Len(insts) + 1
      <4>1. k \in DOMAIN insts /\ insts'[k] = insts[k] /\ insts[k].intf \in Ifname
        BY <1>1, <3>2
      <4>2. netfds[insts[k].vfd].intf = insts[k].intf
        BY <2>1, <2>4, <4>1 DEF OneEntryEach
      <4>3. insts[k].vfd \in Index(NETFDS)
        <5>1. insts[k] \in [intf : Ifname, vfd : 0 .. NETFDS]
          <6>1. insts \in Seq([intf : Ifname, vfd : 0 .. NETFDS])
            BY DEF Creating, IInv, TypeOK
          <6> QED BY <1>1, <4>1, <6>1, ElementOfSeq
        <5> QED BY <2>4, <4>1, <5>1, TableAssumption DEF Index
      <4> QED BY <1>2, <1>7, <4>1, <4>2, <4>3, TableAssumption
    <3> QED BY <3>1, <3>2
  <2> QED BY <1>7, <2>2, <2>3, <2>4 DEF OneEntryEach
<1> QED BY <1>7, <1>8, <1>9 DEF L

\* The table's next free spot is the new instance's.
LEMMA SpotOk ==
    ASSUME NEW f \in Ifname, NEW i, Creating(f, i), i # NETFDS, init_netfd(i, f),
           \E n \in DOMAIN pollfds : pollfds[n] = -1,
           fillSpot(Len(bound) + 2, AF_INET, f), UNCHANGED up
    PROVE  IInv'
<1> DEFINE L == Len(bound)
           N == Len(insts) + 2
           T == {-1} \cup 1 .. L + 2
<1>1. /\ N \in Nat /\ N >= 2 /\ i \in 0 .. NETFDS
      /\ insts' \in Seq([intf : Ifname, vfd : 0 .. NETFDS])
      /\ DOMAIN insts = 1 .. N - 2 /\ DOMAIN insts' = 1 .. N - 1 /\ Len(insts') = N - 1
      /\ \A k \in DOMAIN insts : insts'[k] = insts[k] /\ insts[k].intf \in Ifname
      /\ insts'[N - 1] = [intf |-> f, vfd |-> i]
  <2>1. N - 1 = Len(insts) + 1 /\ N - 2 = Len(insts) /\ N \in Nat /\ N >= 2
    BY Created
  <2> HIDE DEF N
  <2> QED BY <2>1, Created
<1>2. bound \in Seq(Ifname \cup {NONE}) /\ openSockets(f) /\ bound # <<>>
  BY DEF init_netfd, Creating, IInv, TypeOK, FilledInOrder
<1>3. /\ L \in Nat /\ L >= 1 /\ Len(bound') = L + 2 /\ bound' \in Seq(Ifname \cup {NONE})
      /\ \A n \in 1 .. L : bound'[n] = bound[n]
      /\ bound'[L + 1] = f /\ bound'[L + 2] = f
  BY <1>2, Opened
<1>4. /\ OneEntryEach'
      /\ netfds' \in [Index(NETFDS) -> [intf : Ifname \cup {NONE},
                                        s_send : 0 .. Len(bound'), s_rcv : 0 .. Len(bound')]]
  BY EntryRewritten
<1>5. /\ pollfds \in Seq({-1} \cup 1 .. L) /\ Len(pollfds) = CHUNK /\ DOMAIN pollfds = 1 .. CHUNK
      /\ poll_intfs \in [Index(CHUNK) -> Ifname \cup {NONE}]
      /\ poll_afs \in [Index(CHUNK) -> {AF_UNSPEC, AF_INET}]
  BY DEF Creating, IInv, TypeOK, FilledInOrder
<1>6. \A n \in 1 .. CHUNK : pollfds[n] = -1 <=> n >= N
  BY <1>1 DEF Creating, FilledInOrder
<1>7. N \in 2 .. CHUNK /\ Least({n \in DOMAIN pollfds : pollfds[n] = -1}) = N
  <2> DEFINE S == {n \in DOMAIN pollfds : pollfds[n] = -1}
  <2>1. S \subseteq Nat /\ S # {}
    BY <1>5
  <2>2. Least(S) \in S /\ \A y \in S : Least(S) <= y
    BY <2>1, LeastNat
  <2>3. S = N .. CHUNK
    BY <1>1, <1>5, <1>6, TableAssumption, SMTT(40)
  <2> HIDE DEF S
  <2>4. N <= CHUNK /\ N \in S
    BY <1>1, <2>2, <2>3, TableAssumption
  <2>5. Least(S) <= N /\ N <= Least(S) /\ Least(S) \in Nat
    BY <1>1, <2>1, <2>2, <2>3, <2>4, TableAssumption
  <2>6. Least(S) = N
    BY <1>1, <2>5
  <2> QED BY <1>1, <2>4, <2>6, TableAssumption DEF S
<1>8. /\ pollfds' = [pollfds EXCEPT ![N] = L + 2]
      /\ poll_afs' = [poll_afs EXCEPT ![N - 1] = AF_INET]
      /\ poll_intfs' = [poll_intfs EXCEPT ![N - 1] = f]
  BY <1>7, TableAssumption DEF fillSpot
<1> HIDE DEF L, N
<1>9. N - 1 \in Index(CHUNK) /\ N - 1 \in 1 .. CHUNK - 1
  BY <1>7, TableAssumption DEF Index
<1>10. /\ pollfds' \in Seq(T) /\ Len(pollfds') = CHUNK /\ DOMAIN pollfds' = 1 .. CHUNK
       /\ pollfds'[N] = L + 2
       /\ \A n \in 1 .. CHUNK : n # N => pollfds'[n] = pollfds[n]
  <2>1. {-1} \cup 1 .. L \subseteq T /\ L + 2 \in T
    BY <1>3
  <2> HIDE DEF T
  <2>2. pollfds \in Seq(T)
    BY <1>5, <2>1, SeqMonotonic
  <2>3. N \in 1 .. Len(pollfds)
    BY <1>5, <1>7
  <2> QED BY <1>5, <1>8, <2>1, <2>2, <2>3, ExceptSeq
<1>11. /\ poll_intfs' \in [Index(CHUNK) -> Ifname \cup {NONE}] /\ poll_intfs'[N - 1] = f
       /\ poll_afs' \in [Index(CHUNK) -> {AF_UNSPEC, AF_INET}] /\ poll_afs'[N - 1] = AF_INET
       /\ \A m \in 1 .. CHUNK - 1 : m # N - 1 =>
             poll_intfs'[m] = poll_intfs[m] /\ poll_afs'[m] = poll_afs[m]
  BY <1>5, <1>8, <1>9
<1>12. TypeOK'
  <2>1. up' \in BOOLEAN
    BY DEF Creating, IInv, TypeOK
  <2> QED BY <1>1, <1>3, <1>4, <1>10, <1>11, <2>1 DEF TypeOK
<1>13. FilledInOrder'
  <2>1. bound' # <<>>
    BY <1>3
  <2>2. pollfds'[1] = 1
    BY <1>7, <1>10 DEF Creating, FilledInOrder
  <2>3. \A n \in 1 .. CHUNK : pollfds'[n] = -1 <=> n > N
    BY <1>3, <1>6, <1>7, <1>10
  <2>4. ASSUME NEW k \in DOMAIN insts', k < CHUNK PROVE pollfds'[k + 1] # -1
    <3>1. k + 1 \in 1 .. CHUNK /\ ~(k + 1 > N)
      BY <1>1, <2>4, TableAssumption, SMTT(40)
    <3> QED BY <2>3, <3>1
  <2>5. ASSUME NEW n \in 2 .. CHUNK, pollfds'[n] # -1
        PROVE  /\ n - 1 \in DOMAIN insts' /\ pollfds'[n] > 1
               /\ bound'[pollfds'[n]] = insts'[n - 1].intf
               /\ poll_intfs'[n - 1] = insts'[n - 1].intf /\ poll_afs'[n - 1] = AF_INET
    <3>1. CASE n = N
      BY <1>1, <1>3, <1>10, <1>11, <3>1
    <3>2. CASE n # N
      <4>1. pollfds'[n] = pollfds[n] /\ n \in 1 .. CHUNK
        BY <1>10, <3>2
      <4>2. /\ n - 1 \in DOMAIN insts /\ pollfds[n] > 1
            /\ bound[pollfds[n]] = insts[n - 1].intf
            /\ poll_intfs[n - 1] = insts[n - 1].intf /\ poll_afs[n - 1] = AF_INET
        BY <2>5, <4>1 DEF Creating, FilledInOrder
      <4>3. pollfds[n] \in {-1} \cup 1 .. L
        BY <1>5, <4>1, ElementOfSeq
      <4>4. pollfds[n] \in 1 .. L
        BY <1>3, <4>2, <4>3
      <4>5. bound'[pollfds[n]] = bound[pollfds[n]]
        BY <1>3, <4>4
      <4>6. n - 1 \in DOMAIN insts' /\ insts'[n - 1] = insts[n - 1]
        <5>1. 1 .. N - 2 \subseteq 1 .. N - 1
          BY <1>1
        <5> QED BY <1>1, <4>2, <5>1
      <4>7. n - 1 \in 1 .. CHUNK - 1 /\ n - 1 # N - 1
        BY <1>7, <3>2, TableAssumption
      <4> QED BY <1>11, <4>1, <4>2, <4>5, <4>6, <4>7
    <3> QED BY <3>1, <3>2
  <2>6. \A n \in 1 .. CHUNK : pollfds'[n] = -1 <=> n > Len(insts') + 1
    BY <1>1, <2>3
  <2>7. \A k \in DOMAIN insts' : (k < CHUNK /\ insts'[k].vfd < NETFDS) => pollfds'[k + 1] # -1
    BY <2>4
  <2> QED BY <1>10, <2>1, <2>2, <2>5, <2>6, <2>7 DEF FilledInOrder
<1>14. EnoughRoom'
  BY DEF EnoughRoom, Creating
<1>15. pollfds' # <<>>
  BY <1>10, TableAssumption
<1> QED BY <1>4, <1>12, <1>13, <1>14, <1>15 DEF IInv

\* The table is full: the name is written past the end of poll_intfs[].
LEMMA FullOk ==
    ASSUME NEW f \in Ifname, NEW i, Creating(f, i), i # NETFDS, init_netfd(i, f),
           \A n \in DOMAIN pollfds : pollfds[n] # -1,
           up' \in BOOLEAN, UNCHANGED <<pollfds, poll_intfs, poll_afs>>
    PROVE  IInv'
<1> DEFINE L == Len(bound)
           N == Len(insts) + 2
<1>1. /\ N \in Nat /\ N >= 2 /\ i \in 0 .. NETFDS
      /\ insts' \in Seq([intf : Ifname, vfd : 0 .. NETFDS])
      /\ DOMAIN insts = 1 .. N - 2 /\ DOMAIN insts' = 1 .. N - 1 /\ Len(insts') = N - 1
      /\ \A k \in DOMAIN insts : insts'[k] = insts[k]
  <2>1. N - 1 = Len(insts) + 1 /\ N - 2 = Len(insts) /\ N \in Nat /\ N >= 2
    BY Created
  <2> HIDE DEF N
  <2> QED BY <2>1, Created
<1>2. bound \in Seq(Ifname \cup {NONE}) /\ openSockets(f) /\ bound # <<>>
  BY DEF init_netfd, Creating, IInv, TypeOK, FilledInOrder
<1>3. /\ L \in Nat /\ L >= 1 /\ Len(bound') = L + 2 /\ bound' \in Seq(Ifname \cup {NONE})
      /\ \A n \in 1 .. L : bound'[n] = bound[n]
  BY <1>2, Opened
<1>4. /\ OneEntryEach'
      /\ netfds' \in [Index(NETFDS) -> [intf : Ifname \cup {NONE},
                                        s_send : 0 .. Len(bound'), s_rcv : 0 .. Len(bound')]]
  BY EntryRewritten
<1>5. /\ pollfds \in Seq({-1} \cup 1 .. L) /\ Len(pollfds) = CHUNK /\ DOMAIN pollfds = 1 .. CHUNK
  BY DEF Creating, IInv, TypeOK, FilledInOrder
<1>6. \A n \in 1 .. CHUNK : pollfds[n] = -1 <=> n >= N
  BY <1>1 DEF Creating, FilledInOrder
<1> HIDE DEF L, N
<1>7. CHUNK < N /\ CHUNK \in Nat \ {0}
  BY <1>1, <1>5, <1>6, TableAssumption, SMTT(40)
<1>8. TypeOK'
  <2>1. {-1} \cup 1 .. L \subseteq {-1} \cup 1 .. Len(bound')
    BY <1>3
  <2>2. pollfds' \in Seq({-1} \cup 1 .. Len(bound'))
    BY <1>5, <2>1, SeqMonotonic
  <2>3. /\ poll_intfs' \in [Index(CHUNK) -> Ifname \cup {NONE}]
        /\ poll_afs' \in [Index(CHUNK) -> {AF_UNSPEC, AF_INET}]
    BY DEF Creating, IInv, TypeOK
  <2> QED BY <1>1, <1>3, <1>4, <2>2, <2>3 DEF TypeOK
<1>9. FilledInOrder'
  <2>1. bound' # <<>> /\ pollfds'[1] = 1 /\ Len(pollfds') = CHUNK
    BY <1>3, <1>5 DEF Creating, FilledInOrder
  <2>2. \A n \in 1 .. CHUNK : pollfds'[n] = -1 <=> n > Len(insts') + 1
    BY <1>1, <1>5, <1>7
  <2>3. \A k \in DOMAIN insts' : (k < CHUNK /\ insts'[k].vfd < NETFDS) => pollfds'[k + 1] # -1
    BY <1>1, <1>5, <1>7, SMTT(40)
  <2>4. ASSUME NEW n \in 2 .. CHUNK, pollfds'[n] # -1
        PROVE  /\ n - 1 \in DOMAIN insts' /\ pollfds'[n] > 1
               /\ bound'[pollfds'[n]] = insts'[n - 1].intf
               /\ poll_intfs'[n - 1] = insts'[n - 1].intf /\ poll_afs'[n - 1] = AF_INET
    <3>1. /\ n - 1 \in DOMAIN insts /\ pollfds[n] > 1
          /\ bound[pollfds[n]] = insts[n - 1].intf
          /\ poll_intfs[n - 1] = insts[n - 1].intf /\ poll_afs[n - 1] = AF_INET
      BY <2>4 DEF Creating, FilledInOrder
    <3>2. n \in 1 .. Len(pollfds)
      BY <1>5
    <3>3. pollfds[n] \in {-1} \cup 1 .. L
      BY <1>5, <3>2, ElementOfSeq
    <3>4. bound'[pollfds[n]] = bound[pollfds[n]]
      BY <1>3, <3>1, <3>3
    <3> QED BY <1>1, <3>1, <3>4, SMTT(40)
  <2> QED BY <2>1, <2>2, <2>3, <2>4 DEF FilledInOrder
<1>10. EnoughRoom'
  BY <1>1, <1>7 DEF EnoughRoom
<1>11. pollfds' # <<>>
  BY <1>5, <1>7
<1> QED BY <1>4, <1>8, <1>9, <1>10, <1>11 DEF IInv

LEMMA CreateOk == ASSUME IInv, NEW f \in Ifname, create_inst(f) PROVE IInv'
<1> DEFINE i == entryFor(f)
<1>1. Creating(f, i) /\ pollfds # <<>>
  BY DEF create_inst, Creating, IInv
<1>2. CASE i = NETFDS
  BY <1>1, <1>2, NoEntryOk DEF create_inst
<1>3. CASE i # NETFDS
  <2>1. init_netfd(i, f) /\ poll_add(netfds'[i].s_rcv, AF_INET, f)
    BY <1>3 DEF create_inst
  <2>2. netfds'[i].s_rcv = Len(bound) + 2
    BY <1>1, <1>3, <2>1, EntryRewritten
  <2>3. poll_add(Len(bound) + 2, AF_INET, f)
    BY <2>1, <2>2
  <2>4. CASE (\E n \in DOMAIN pollfds : pollfds[n] = -1)
             /\ fillSpot(Len(bound) + 2, AF_INET, f) /\ UNCHANGED up
    BY <1>1, <1>3, <2>1, <2>4, SpotOk
  <2>5. CASE (\A n \in DOMAIN pollfds : pollfds[n] # -1) /\ up' \in BOOLEAN
             /\ UNCHANGED <<pollfds, poll_intfs, poll_afs>>
    BY <1>1, <1>3, <2>1, <2>5, FullOk
  <2> QED BY <2>3, <2>4, <2>5, TableAssumption DEF poll_add
<1> QED BY <1>2, <1>3

LEMMA NextOk == IInv /\ [Next]_vars => IInv'
<1> SUFFICES ASSUME IInv, [Next]_vars PROVE IInv'
  OBVIOUS
<1>1. CASE UNCHANGED vars
  BY <1>1 DEF vars, IInv, TypeOK, Blank, FilledInOrder, OneEntryEach, EnoughRoom
<1> QED BY <1>1, SetupOk, CreateOk DEF Next

THEOREM InductiveInvariant == Spec => []IInv
  BY InitOk, NextOk, PTL DEF Spec

\* Type correctness: every entry of the tables holds an interface and descriptors that
\* exist, for any number of interfaces and instances.
THEOREM TypeCorrect == Spec => []TypeOK
<1>1. IInv => TypeOK
  BY DEF IInv
<1> QED BY <1>1, InductiveInvariant, PTL

\* poll_add keeps pollfds[], poll_intfs[] and poll_afs[] in step: process_vrrpd_sock is
\* told the interface its socket is bound to.
THEOREM NamesAlwaysMatch == Spec => []NamesMatchSockets
<1>1. IInv => NamesMatchSockets
  <2> SUFFICES ASSUME IInv, NEW n \in DOMAIN pollfds, pollfds[n] > 1
               PROVE  poll_intfs[n - 1] = bound[pollfds[n]] /\ poll_afs[n - 1] = AF_INET
    BY DEF NamesMatchSockets, Polled
  <2>1. pollfds # <<>> /\ pollfds \in Seq({-1} \cup 1 .. Len(bound))
    BY DEF IInv, TypeOK
  <2>2. FilledInOrder /\ DOMAIN pollfds = 1 .. CHUNK
    BY <2>1 DEF IInv, FilledInOrder
  <2>3. n \in 2 .. CHUNK /\ pollfds[n] # -1
    BY <2>2, TableAssumption DEF FilledInOrder
  <2> QED BY <2>2, <2>3 DEF FilledInOrder
<1> QED BY <1>1, InductiveInvariant, PTL

\* inst_start_recv: an instance within the size of the poll table hears its interface,
\* whatever is created after it.
THEOREM InstanceAlwaysHears == Spec => []InstanceHears
<1>1. IInv => InstanceHears
  <2> SUFFICES ASSUME IInv, NEW k \in DOMAIN insts, k < CHUNK, insts[k].vfd < NETFDS
               PROVE  \E n \in DOMAIN pollfds : Polled(n) /\ bound[pollfds[n]] = insts[k].intf
    BY DEF InstanceHears
  <2>1. insts \in Seq([intf : Ifname, vfd : 0 .. NETFDS]) /\ k \in 1 .. Len(insts)
    BY DEF IInv, TypeOK
  <2>2. pollfds # <<>>
    BY <2>1 DEF IInv, Blank
  <2>3. FilledInOrder /\ DOMAIN pollfds = 1 .. CHUNK
    BY <2>2 DEF IInv, FilledInOrder, TypeOK
  <2>4. k + 1 \in 2 .. CHUNK /\ pollfds[k + 1] # -1 /\ (k + 1) - 1 = k
    BY <2>1, <2>3, TableAssumption DEF FilledInOrder
  <2>5. pollfds[k + 1] > 1 /\ bound[pollfds[k + 1]] = insts[k].intf
    BY <2>3, <2>4 DEF FilledInOrder
  <2>6. k + 1 \in DOMAIN pollfds
    BY <2>3, <2>4
  <2> QED BY <2>5, <2>6 DEF Polled
<1> QED BY <1>1, InductiveInvariant, PTL

\* vrrpd_setup_netfd: although every create on an interface rewrites the entry that earlier
\* instances point to, each sends through a socket bound to its own interface.
THEOREM AlwaysSendsOnOwnInterface == Spec => []SendsOnOwnInterface
<1>1. IInv => SendsOnOwnInterface
  <2> SUFFICES ASSUME IInv, NEW k \in DOMAIN insts, insts[k].vfd < NETFDS
               PROVE  bound[netfds[insts[k].vfd].s_send] = insts[k].intf
    BY DEF SendsOnOwnInterface
  <2>1. insts \in Seq([intf : Ifname, vfd : 0 .. NETFDS]) /\ k \in 1 .. Len(insts)
    BY DEF IInv, TypeOK
  <2>2. insts[k] \in [intf : Ifname, vfd : 0 .. NETFDS]
    BY <2>1, ElementOfSeq
  <2>3. insts[k].vfd \in DOMAIN netfds /\ insts[k].intf # NONE
    <3>1. insts[k].vfd \in Index(NETFDS) /\ insts[k].intf # NONE
      BY <2>2, TableAssumption DEF Index
    <3>2. DOMAIN netfds = Index(NETFDS)
      BY DEF IInv, TypeOK
    <3> QED BY <3>1, <3>2
  <2> QED BY <2>3 DEF IInv, OneEntryEach
<1> QED BY <1>1, InductiveInvariant, PTL

\* The arrays are large enough for one instance less than the poll table holds
\* descriptors, on as many interfaces as netfds[] has entries.
THEOREM AlwaysEnoughRoom == Spec => []EnoughRoom
<1>1. IInv => EnoughRoom
  BY DEF IInv
<1> QED BY <1>1, InductiveInvariant, PTL
=============================================================================
