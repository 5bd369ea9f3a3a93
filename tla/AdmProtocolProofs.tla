------------------------- MODULE AdmProtocolProofs -------------------------
(***************************************************************************)
(* Proofs about the command protocol, for any number of clients, commands  *)
(* and requests and any size of the daemon's socket.                       *)
(***************************************************************************)
EXTENDS AdmProtocol, SequenceTheorems, TLAPS

(***************************************************************************)
(* The inductive invariant                                                 *)
(***************************************************************************)

\* The name belongs to a client only from its bind to its close.
NameIsHeld == \A c \in Client : name = c => pc[c] \in {"send", "wait", "close"}

\* A new socket is empty, and a request has a number from the moment it is typed.
SocketIsNew == \A c \in Client : pc[c] = "bind" => inbox[c] = <<>>

Numbered == \A c \in Client : pc[c] \in {"bind", "send", "wait", "close"} => mine[c] # 0

\* All that is under way is c's: the name, the requests, the replies.
Owns(c) ==
    /\ name = c
    /\ \A d \in Client \ {c} : pc[d] # "send"
    /\ pc[c] = "send" => queue = <<>> /\ busy = <<>>
    /\ \A k \in DOMAIN queue : queue[k].req = mine[c]
    /\ \A k \in DOMAIN busy : busy[k].req = mine[c]
    /\ \A k \in DOMAIN inbox[c] : inbox[c][k] = mine[c]
    /\ pc[c] = "close" => got[c] = mine[c]

AloneOwns ==
    \A c \in Client : (alone[c] /\ pc[c] \in {"send", "wait", "close"}) => Owns(c)

IInv == TypeOK /\ NameIsHeld /\ SocketIsNew /\ Numbered /\ AloneOwns

(***************************************************************************)
(* Requests                                                                *)
(***************************************************************************)
Request == [req : 1 .. MaxReq, cmd : Cmd]
Pc == {"prompt", "bind", "send", "failed", "wait", "close", "unlink", "shown", "dead"}

LEMMA Types ==
    TypeOK <=> /\ up \in BOOLEAN /\ inst \in {"none", "INIT", "RUN"} /\ hung \in BOOLEAN
               /\ queue \in Seq(Request) /\ busy \in Seq(Request)
               /\ Len(queue) <= MaxQ /\ Len(busy) <= 1
               /\ name \in Client \cup {NONE, "stale"}
               /\ pc \in [Client -> Pc] /\ cmd \in [Client -> Cmd]
               /\ mine \in [Client -> 0 .. MaxReq] /\ got \in [Client -> 0 .. MaxReq]
               /\ inbox \in [Client -> Seq(1 .. MaxReq)]
               /\ nreq \in 0 .. MaxReq /\ alone \in [Client -> BOOLEAN]
  BY DEF TypeOK, Request, Pc

LEMMA TypesNext ==
    ASSUME /\ up' \in BOOLEAN /\ inst' \in {"none", "INIT", "RUN"} /\ hung' \in BOOLEAN
           /\ queue' \in Seq(Request) /\ busy' \in Seq(Request)
           /\ Len(queue') <= MaxQ /\ Len(busy') <= 1
           /\ name' \in Client \cup {NONE, "stale"}
           /\ pc' \in [Client -> Pc] /\ cmd' \in [Client -> Cmd]
           /\ mine' \in [Client -> 0 .. MaxReq] /\ got' \in [Client -> 0 .. MaxReq]
           /\ inbox' \in [Client -> Seq(1 .. MaxReq)]
           /\ nreq' \in 0 .. MaxReq /\ alone' \in [Client -> BOOLEAN]
    PROVE  TypeOK'
  BY DEF TypeOK, Request, Pc

LEMMA EmptyLen == Len(<<>>) = 0 /\ (\A S : <<>> \in Seq(S))
  OBVIOUS

\* A request or a reply at the end of a socket's queue, or the first of it taken.
LEMMA Queued ==
    ASSUME NEW S, NEW q \in Seq(S), NEW r \in S
    PROVE  /\ Append(q, r) \in Seq(S) /\ Len(Append(q, r)) = Len(q) + 1
           /\ \A k \in DOMAIN Append(q, r) :
                 (k \in DOMAIN q /\ Append(q, r)[k] = q[k]) \/ Append(q, r)[k] = r
           /\ <<r>> \in Seq(S) /\ Len(<<r>>) = 1
  OBVIOUS

LEMMA Taken ==
    ASSUME NEW S, NEW q \in Seq(S), q # <<>>
    PROVE  /\ Head(q) \in S /\ Head(q) = q[1] /\ 1 \in DOMAIN q
           /\ Tail(q) \in Seq(S) /\ Len(Tail(q)) = Len(q) - 1
           /\ \A k \in DOMAIN Tail(q) : k + 1 \in DOMAIN q /\ Tail(q)[k] = q[k + 1]
  OBVIOUS

LEMMA InitOk == Init => IInv
<1> SUFFICES ASSUME Init PROVE IInv
  OBVIOUS
<1>1. TypeOK
  <2>1. 0 \in 0 .. MaxReq /\ 0 <= MaxQ /\ "show" \in Cmd /\ "prompt" \in Pc
    BY AdmAssumption DEF Cmd, Pc
  <2>2. /\ queue \in Seq(Request) /\ busy \in Seq(Request)
        /\ Len(queue) <= MaxQ /\ Len(busy) <= 1
    BY <2>1, EmptyLen DEF Init
  <2>3. inbox \in [Client -> Seq(1 .. MaxReq)]
    BY EmptyLen DEF Init
  <2>4. alone \in [Client -> BOOLEAN] /\ up \in BOOLEAN /\ hung \in BOOLEAN
    BY DEF Init
  <2> QED BY <2>1, <2>2, <2>3, <2>4, Types DEF Init
<1>2. NameIsHeld /\ SocketIsNew /\ Numbered /\ AloneOwns
  BY AdmAssumption DEF Init, NameIsHeld, SocketIsNew, Numbered, AloneOwns
<1> QED BY <1>1, <1>2 DEF IInv

(***************************************************************************)
(* The client's steps                                                      *)
(***************************************************************************)
LEMMA OpenSocketOk ==
    ASSUME IInv, NEW c \in Client, OpenSocket(c), cmd' \in [Client -> Cmd]
    PROVE  IInv'
<1> USE Types DEF IInv
<1>1. TypeOK'
  <2>1. nreq' \in 1 .. MaxReq /\ "bind" \in Pc
    BY AdmAssumption DEF OpenSocket, Pc
  <2>2. inbox' \in [Client -> Seq(1 .. MaxReq)]
    BY EmptyLen DEF OpenSocket
  <2>3. mine' \in [Client -> 0 .. MaxReq] /\ pc' \in [Client -> Pc]
    BY <2>1 DEF OpenSocket
  <2>4. alone' \in [Client -> BOOLEAN]
    BY DEF OpenSocket
  <2>5. UNCHANGED <<up, queue, busy, inst, hung, got>> /\ name' = NONE
    BY DEF OpenSocket, daemon
  <2> QED BY <2>1, <2>2, <2>3, <2>4, <2>5, TypesNext
<1>2. NameIsHeld'
  BY AdmAssumption DEF OpenSocket, NameIsHeld
<1>3. SocketIsNew'
  BY DEF OpenSocket, SocketIsNew
<1>4. Numbered'
  <2>1. nreq' # 0
    BY AdmAssumption DEF OpenSocket
  <2> QED BY <2>1 DEF OpenSocket, Numbered
<1>5. AloneOwns'
  BY DEF OpenSocket, AloneOwns
<1> QED BY <1>1, <1>2, <1>3, <1>4, <1>5

LEMMA TypeStepOk ==
    ASSUME IInv, NEW c \in Client, NEW k \in Typed, Type(c, k) PROVE IInv'
<1>1. cmd' \in [Client -> Cmd]
  BY Types, AdmAssumption DEF IInv, Type
<1> QED BY <1>1, OpenSocketOk DEF Type

\* The steps after which nobody is alone, or that leave the name, the daemon and the
\* sockets alone.
LEMMA BindOk ==
    ASSUME IInv, NEW c \in Client, Bind(c) PROVE IInv'
<1> USE Types DEF IInv
<1>1. CASE name = NONE
  <2>1. /\ name' = c /\ pc' = [pc EXCEPT ![c] = "send"]
        /\ alone' = [alone EXCEPT ![c] = /\ up /\ queue = <<>> /\ busy = <<>>
                                         /\ \A d \in Client : pc[d] # "send"]
        /\ UNCHANGED <<up, queue, busy, inst, hung, cmd, mine, got, inbox, nreq>>
        /\ pc[c] = "bind"
    BY <1>1 DEF Bind, daemon
  <2>2. TypeOK'
    <3>1. pc' \in [Client -> Pc]
      BY <2>1 DEF Pc
    <3>2. alone' \in [Client -> BOOLEAN]
      BY <2>1
    <3> QED BY <2>1, <3>1, <3>2, TypesNext
  <2>3. NameIsHeld'
    BY <2>1 DEF NameIsHeld
  <2>4. SocketIsNew' /\ Numbered'
    BY <2>1 DEF SocketIsNew, Numbered
  <2>5. AloneOwns'
    <3> SUFFICES ASSUME NEW d \in Client, alone'[d], pc'[d] \in {"send", "wait", "close"}
                 PROVE  Owns(d)'
      BY DEF AloneOwns
    <3>1. CASE d = c
      <4>1. /\ queue = <<>> /\ busy = <<>> /\ \A e \in Client : pc[e] # "send"
            /\ inbox[c] = <<>> /\ pc'[c] = "send"
        BY <2>1, <3>1 DEF SocketIsNew
      <4> QED BY <2>1, <3>1, <4>1 DEF Owns
    <3>2. CASE d # c
      <4>1. name = d
        BY <2>1, <3>2 DEF AloneOwns, Owns
      <4> QED BY <1>1, <4>1, AdmAssumption
    <3> QED BY <3>1, <3>2
  <2> QED BY <2>2, <2>3, <2>4, <2>5
<1>2. CASE name # NONE
  <2>1. /\ pc' = [pc EXCEPT ![c] = "failed"] /\ pc[c] = "bind"
        /\ UNCHANGED <<up, queue, busy, inst, hung, name, alone, cmd, mine, got, inbox, nreq>>
    BY <1>2 DEF Bind, daemon
  <2>2. TypeOK'
    <3>1. pc' \in [Client -> Pc]
      BY <2>1 DEF Pc
    <3> QED BY <2>1, <3>1, TypesNext
  <2>3. NameIsHeld' /\ SocketIsNew' /\ Numbered'
    BY <2>1 DEF NameIsHeld, SocketIsNew, Numbered
  <2>4. AloneOwns'
    BY <2>1 DEF AloneOwns, Owns
  <2> QED BY <2>2, <2>3, <2>4
<1> QED BY <1>1, <1>2

LEMMA SendOk ==
    ASSUME IInv, NEW c \in Client, Send(c) PROVE IInv'
<1> USE Types DEF IInv
<1> DEFINE r == [req |-> mine[c], cmd |-> cmd[c]]
<1>1. CASE up
  <2>1. /\ queue' = Append(queue, r) /\ Len(queue) < MaxQ
        /\ pc' = [pc EXCEPT ![c] = "wait"] /\ pc[c] = "send"
        /\ UNCHANGED <<up, busy, inst, hung, name, cmd, mine, got, inbox, nreq, alone>>
    BY <1>1 DEF Send
  <2>2. r \in Request /\ r.req = mine[c]
    <3>1. mine[c] \in 1 .. MaxReq /\ cmd[c] \in Cmd
      BY <2>1, AdmAssumption DEF Numbered
    <3> QED BY <3>1 DEF Request
  <2> HIDE DEF r
  <2>3. /\ queue' \in Seq(Request) /\ Len(queue') = Len(queue) + 1 /\ Len(queue) \in Nat
        /\ \A k \in DOMAIN queue' : (k \in DOMAIN queue /\ queue'[k] = queue[k]) \/ queue'[k] = r
    BY <2>1, <2>2, Queued
  <2>4. TypeOK'
    <3>1. Len(queue') <= MaxQ
      BY <2>1, <2>3, AdmAssumption
    <3>2. pc' \in [Client -> Pc]
      BY <2>1 DEF Pc
    <3> QED BY <2>1, <2>3, <3>1, <3>2, TypesNext
  <2>5. NameIsHeld' /\ SocketIsNew' /\ Numbered'
    BY <2>1 DEF NameIsHeld, SocketIsNew, Numbered
  <2>6. AloneOwns'
    <3> SUFFICES ASSUME NEW d \in Client, alone[d], pc'[d] \in {"send", "wait", "close"}
                 PROVE  Owns(d)'
      BY <2>1 DEF AloneOwns
    <3>1. Owns(d)
      BY <2>1 DEF AloneOwns
    <3>2. d = c
      BY <2>1, <3>1 DEF Owns
    <3>3. \A e \in Client : pc'[e] # "send"
      BY <2>1, <3>1, <3>2 DEF Owns
    <3>4. \A k \in DOMAIN queue' : queue'[k].req = mine[c]
      BY <2>2, <2>3, <3>1, <3>2 DEF Owns
    <3>5. pc'[c] = "wait"
      BY <2>1
    <3> QED BY <2>1, <3>1, <3>2, <3>3, <3>4, <3>5 DEF Owns
  <2> QED BY <2>4, <2>5, <2>6
<1>2. CASE ~up
  <2>1. /\ pc' = [pc EXCEPT ![c] = "failed"] /\ pc[c] = "send"
        /\ name' = IF name = c THEN "stale" ELSE name
        /\ UNCHANGED <<up, queue, busy, inst, hung, cmd, mine, got, inbox, nreq, alone>>
    BY <1>2 DEF Send
  <2>2. TypeOK'
    <3>1. pc' \in [Client -> Pc]
      BY <2>1 DEF Pc
    <3> QED BY <2>1, <3>1, TypesNext
  <2>3. NameIsHeld' /\ SocketIsNew' /\ Numbered'
    BY <2>1, AdmAssumption DEF NameIsHeld, SocketIsNew, Numbered
  <2>4. AloneOwns'
    BY <2>1 DEF AloneOwns, Owns
  <2> QED BY <2>2, <2>3, <2>4
<1> QED BY <1>1, <1>2

\* Where a client goes on without touching the name or a socket, outside the stretch
\* from bind to close.
LEMMA MoveOk ==
    ASSUME IInv, NEW c \in Client, NEW w \in {"prompt", "dead"},
           pc[c] \notin {"send", "wait", "close"}, pc' = [pc EXCEPT ![c] = w],
           UNCHANGED <<daemon, name, cmd, mine, got, inbox, nreq, alone>>
    PROVE  IInv'
<1> USE Types DEF IInv
<1>1. UNCHANGED <<up, queue, busy, inst, hung, name, cmd, mine, got, inbox, nreq, alone>>
  BY DEF daemon
<1>2. TypeOK'
  <2>1. pc' \in [Client -> Pc]
    BY DEF Pc
  <2> QED BY <1>1, <2>1, TypesNext
<1>3. NameIsHeld' /\ SocketIsNew' /\ Numbered'
  BY <1>1 DEF NameIsHeld, SocketIsNew, Numbered
<1>4. AloneOwns'
  BY <1>1 DEF AloneOwns, Owns
<1> QED BY <1>2, <1>3, <1>4

LEMMA ReceiveOk ==
    ASSUME IInv, NEW c \in Client, Receive(c) PROVE IInv'
<1> USE Types DEF IInv
<1>1. /\ pc[c] = "wait" /\ inbox[c] # <<>>
      /\ got' = [got EXCEPT ![c] = Head(inbox[c])]
      /\ inbox' = [inbox EXCEPT ![c] = Tail(inbox[c])]
      /\ UNCHANGED <<up, queue, busy, inst, hung, cmd, mine, nreq, alone>>
  BY DEF Receive, daemon
<1>2. \/ pc' = [pc EXCEPT ![c] = "close"] /\ name' = name
      \/ pc' = [pc EXCEPT ![c] = "dead"] /\ name' = IF name = c THEN "stale" ELSE name
  BY DEF Receive
<1>3. /\ Head(inbox[c]) \in 1 .. MaxReq /\ Head(inbox[c]) = inbox[c][1] /\ 1 \in DOMAIN inbox[c]
      /\ Tail(inbox[c]) \in Seq(1 .. MaxReq)
      /\ \A k \in DOMAIN Tail(inbox[c]) :
            k + 1 \in DOMAIN inbox[c] /\ Tail(inbox[c])[k] = inbox[c][k + 1]
  <2>1. PICK q \in Seq(1 .. MaxReq) : q = inbox[c]
    OBVIOUS
  <2>2. q # <<>>
    BY <1>1, <2>1
  <2>3. /\ Head(q) \in 1 .. MaxReq /\ Head(q) = q[1] /\ 1 \in DOMAIN q
        /\ Tail(q) \in Seq(1 .. MaxReq)
        /\ \A k \in DOMAIN Tail(q) : k + 1 \in DOMAIN q /\ Tail(q)[k] = q[k + 1]
    BY <2>2, Taken
  <2> QED BY <2>1, <2>3
<1>4. TypeOK'
  <2>1. pc' \in [Client -> Pc]
    BY <1>2 DEF Pc
  <2>2. got' \in [Client -> 0 .. MaxReq]
    <3>1. Head(inbox[c]) \in 0 .. MaxReq
      BY <1>3, AdmAssumption
    <3> QED BY <1>1, <3>1
  <2>3. inbox' \in [Client -> Seq(1 .. MaxReq)]
    BY <1>1, <1>3
  <2>4. name' \in Client \cup {NONE, "stale"}
    BY <1>2
  <2> QED BY <1>1, <2>1, <2>2, <2>3, <2>4, TypesNext
<1>5. NameIsHeld' /\ SocketIsNew' /\ Numbered'
  BY <1>1, <1>2, AdmAssumption DEF NameIsHeld, SocketIsNew, Numbered
<1>6. AloneOwns'
  <2> SUFFICES ASSUME NEW d \in Client, alone[d], pc'[d] \in {"send", "wait", "close"}
               PROVE  Owns(d)'
    BY <1>1 DEF AloneOwns
  <2>1. Owns(d)
    BY <1>1, <1>2 DEF AloneOwns
  <2>2. CASE d = c
    <3>1. pc' = [pc EXCEPT ![c] = "close"] /\ name' = name
      BY <1>2, <2>2
    <3>2. got'[c] = mine[c]
      BY <1>1, <1>3, <2>1, <2>2 DEF Owns
    <3>3. \A k \in DOMAIN inbox'[c] : inbox'[c][k] = mine[c]
      BY <1>1, <1>3, <2>1, <2>2 DEF Owns
    <3> QED BY <1>1, <2>1, <2>2, <3>1, <3>2, <3>3 DEF Owns
  <2>3. CASE d # c
    <3>1. name' = name /\ inbox'[d] = inbox[d] /\ got'[d] = got[d] /\ pc'[d] = pc[d]
      BY <1>1, <1>2, <2>1, <2>3 DEF Owns
    <3>2. \A e \in Client \ {d} : pc'[e] # "send"
      BY <1>2, <2>1 DEF Owns
    <3> QED BY <1>1, <2>1, <3>1, <3>2 DEF Owns
  <2> QED BY <2>2, <2>3
<1> QED BY <1>4, <1>5, <1>6

\* Where a client's socket is closed: a reply in it is lost, and its name is stale.
LEMMA ShutOk ==
    ASSUME IInv, NEW c \in Client, NEW w \in {"unlink", "dead"},
           pc' = [pc EXCEPT ![c] = w], name' = (IF name = c THEN "stale" ELSE name),
           inbox' = [inbox EXCEPT ![c] = <<>>],
           UNCHANGED <<daemon, cmd, mine, got, nreq, alone>>
    PROVE  IInv'
<1> USE Types DEF IInv
<1>1. UNCHANGED <<up, queue, busy, inst, hung, cmd, mine, got, nreq, alone>>
  BY DEF daemon
<1>2. TypeOK'
  <2>1. pc' \in [Client -> Pc]
    BY DEF Pc
  <2>2. inbox' \in [Client -> Seq(1 .. MaxReq)]
    BY EmptyLen
  <2> QED BY <1>1, <2>1, <2>2, TypesNext
<1>3. NameIsHeld' /\ SocketIsNew' /\ Numbered'
  BY <1>1, AdmAssumption DEF NameIsHeld, SocketIsNew, Numbered
<1>4. AloneOwns'
  <2> SUFFICES ASSUME NEW d \in Client, alone[d], pc'[d] \in {"send", "wait", "close"}
               PROVE  Owns(d)'
    BY <1>1 DEF AloneOwns
  <2>1. d # c /\ pc'[d] = pc[d] /\ inbox'[d] = inbox[d]
    OBVIOUS
  <2>2. Owns(d)
    BY <2>1 DEF AloneOwns
  <2>3. name' = name /\ \A e \in Client \ {d} : pc'[e] # "send"
    BY <2>1, <2>2 DEF Owns
  <2> QED BY <1>1, <2>1, <2>2, <2>3 DEF Owns
<1> QED BY <1>2, <1>3, <1>4

LEMMA UnlinkOk ==
    ASSUME IInv, NEW c \in Client, Unlink(c) PROVE IInv'
<1> USE Types DEF IInv
<1>1. PICK w \in {"dead", "shown", "prompt"} : pc' = [pc EXCEPT ![c] = w]
  BY DEF Unlink
<1>2. /\ name' = NONE /\ alone' = [d \in Client |-> FALSE]
      /\ UNCHANGED <<up, queue, busy, inst, hung, cmd, mine, got, inbox, nreq>>
  BY DEF Unlink, daemon
<1>3. TypeOK'
  <2>1. pc' \in [Client -> Pc]
    BY <1>1 DEF Pc
  <2>2. alone' \in [Client -> BOOLEAN]
    BY <1>2
  <2> QED BY <1>2, <2>1, <2>2, TypesNext
<1>4. NameIsHeld' /\ SocketIsNew' /\ Numbered'
  BY <1>1, <1>2, AdmAssumption DEF NameIsHeld, SocketIsNew, Numbered
<1>5. AloneOwns'
  BY <1>2 DEF AloneOwns
<1> QED BY <1>3, <1>4, <1>5

LEMMA ClientStepOk ==
    ASSUME IInv, NEW c \in Client, ClientStep(c) \/ Kill(c) \/ Start(c) PROVE IInv'
<1>1. CASE Fail(c)
  BY <1>1, MoveOk DEF Fail
<1>2. CASE Start(c)
  BY <1>2, MoveOk DEF Start
<1>3. CASE Close(c)
  BY <1>3, ShutOk DEF Close
<1>4. CASE Kill(c)
  BY <1>4, ShutOk DEF Kill
<1>5. CASE ShowNext(c)
  <2>1. CASE OpenSocket(c) /\ UNCHANGED cmd
    BY <2>1, OpenSocketOk, Types DEF IInv
  <2>2. CASE pc' = [pc EXCEPT ![c] = "dead"]
             /\ UNCHANGED <<daemon, name, cmd, mine, got, inbox, nreq, alone>>
    BY <1>5, <2>2, MoveOk DEF ShowNext
  <2> QED BY <1>5, <2>1, <2>2 DEF ShowNext
<1> QED BY <1>1, <1>2, <1>3, <1>4, <1>5, BindOk, SendOk, ReceiveOk, UnlinkOk DEF ClientStep

(***************************************************************************)
(* The daemon's steps                                                      *)
(***************************************************************************)
LEMMA TakeOk == ASSUME IInv, Take PROVE IInv'
<1> USE Types DEF IInv
<1>1. /\ busy = <<>> /\ queue # <<>> /\ busy' = <<Head(queue)>> /\ queue' = Tail(queue)
      /\ UNCHANGED <<up, inst, hung, name, pc, cmd, mine, got, inbox, nreq, alone>>
  BY DEF Take, clients
<1>2. /\ Head(queue) \in Request /\ Head(queue) = queue[1] /\ 1 \in DOMAIN queue
      /\ Tail(queue) \in Seq(Request) /\ Len(Tail(queue)) = Len(queue) - 1
      /\ \A k \in DOMAIN Tail(queue) : k + 1 \in DOMAIN queue /\ Tail(queue)[k] = queue[k + 1]
  BY <1>1, Taken
<1>3. <<Head(queue)>> \in Seq(Request) /\ Len(<<Head(queue)>>) = 1
  BY <1>2, Queued
<1>4. TypeOK'
  <2>1. Len(queue') <= MaxQ
    BY <1>1, <1>2, AdmAssumption
  <2> QED BY <1>1, <1>2, <1>3, <2>1, TypesNext
<1>5. NameIsHeld' /\ SocketIsNew' /\ Numbered'
  BY <1>1 DEF NameIsHeld, SocketIsNew, Numbered
<1>6. AloneOwns'
  <2> SUFFICES ASSUME NEW d \in Client, alone[d], pc[d] \in {"send", "wait", "close"}
               PROVE  Owns(d)'
    BY <1>1 DEF AloneOwns
  <2>1. Owns(d)
    BY DEF AloneOwns
  <2>2. pc[d] # "send"
    BY <1>1, <2>1 DEF Owns
  <2>3. \A k \in DOMAIN queue' : queue'[k].req = mine[d]
    BY <1>1, <1>2, <2>1 DEF Owns
  <2>4. \A k \in DOMAIN busy' : busy'[k].req = mine[d]
    <3>1. Head(queue).req = mine[d]
      BY <1>2, <2>1 DEF Owns
    <3>2. DOMAIN busy' = {1} /\ busy'[1] = Head(queue)
      BY <1>1
    <3> QED BY <3>1, <3>2
  <2> QED BY <1>1, <2>1, <2>2, <2>3, <2>4 DEF Owns
<1> QED BY <1>4, <1>5, <1>6

\* The end of the daemon: nobody is alone with it any more.
LEMMA EndedOk ==
    ASSUME IInv, Ended, UNCHANGED <<name, clients, inbox, nreq>> PROVE IInv'
<1> USE Types DEF IInv
<1>1. /\ up' = FALSE /\ queue' = <<>> /\ busy' = <<>> /\ inst' = "none" /\ hung' = FALSE
      /\ alone' = [c \in Client |-> FALSE]
      /\ UNCHANGED <<name, pc, cmd, mine, got, inbox, nreq>>
  BY DEF Ended, clients
<1>2. TypeOK'
  <2>1. /\ queue' \in Seq(Request) /\ busy' \in Seq(Request)
        /\ Len(queue') <= MaxQ /\ Len(busy') <= 1
    BY <1>1, EmptyLen, AdmAssumption
  <2>2. alone' \in [Client -> BOOLEAN] /\ up' \in BOOLEAN /\ hung' \in BOOLEAN
    BY <1>1
  <2> QED BY <1>1, <2>1, <2>2, TypesNext
<1>3. NameIsHeld' /\ SocketIsNew' /\ Numbered'
  BY <1>1 DEF NameIsHeld, SocketIsNew, Numbered
<1>4. AloneOwns'
  BY <1>1 DEF AloneOwns
<1> QED BY <1>2, <1>3, <1>4

LEMMA FinishOk == ASSUME IInv, Finish PROVE IInv'
<1> USE Types DEF IInv
<1>1. PICK i \in Executed(busy[1].cmd) :
        IF i = "end" THEN Ended /\ UNCHANGED inbox
        ELSE /\ inst' = i /\ busy' = <<>>
             /\ inbox' = IF name \in Client
                         THEN [inbox EXCEPT ![name] = Append(@, busy[1].req)] ELSE inbox
             /\ UNCHANGED <<up, queue, hung, alone>>
  BY DEF Finish
<1>2. UNCHANGED <<name, clients, nreq>> /\ busy # <<>>
  BY DEF Finish
<1>3. CASE i = "end"
  BY <1>1, <1>2, <1>3, EndedOk
<1>4. CASE i # "end"
  <2>1. /\ inst' = i /\ busy' = <<>>
        /\ inbox' = IF name \in Client
                    THEN [inbox EXCEPT ![name] = Append(inbox[name], busy[1].req)] ELSE inbox
        /\ UNCHANGED <<up, queue, hung, alone, name, pc, cmd, mine, got, nreq>>
    BY <1>1, <1>2, <1>4 DEF clients
  <2>2. i \in {"none", "INIT", "RUN"}
    BY <1>4 DEF Executed
  <2>3. 1 \in DOMAIN busy /\ busy[1].req \in 1 .. MaxReq
    <3>1. Head(busy) \in Request /\ Head(busy) = busy[1] /\ 1 \in DOMAIN busy
      BY <1>2, Taken
    <3> QED BY <3>1 DEF Request
  <2>4. TypeOK'
    <3>1. inbox' \in [Client -> Seq(1 .. MaxReq)]
      <4>1. name \in Client => Append(inbox[name], busy[1].req) \in Seq(1 .. MaxReq)
        BY <2>3, Queued
      <4> QED BY <2>1, <4>1
    <3>2. busy' \in Seq(Request) /\ Len(busy') <= 1
      BY <2>1, EmptyLen
    <3> QED BY <2>1, <2>2, <3>1, <3>2, TypesNext
  <2>5. NameIsHeld' /\ Numbered'
    BY <2>1 DEF NameIsHeld, Numbered
  <2>6. SocketIsNew'
    BY <2>1 DEF SocketIsNew, NameIsHeld
  <2>7. AloneOwns'
    <3> SUFFICES ASSUME NEW d \in Client, alone[d], pc[d] \in {"send", "wait", "close"}
                 PROVE  Owns(d)'
      BY <2>1 DEF AloneOwns
    <3>1. Owns(d) /\ name = d
      BY DEF AloneOwns, Owns
    <3>2. inbox'[d] = Append(inbox[d], busy[1].req) /\ busy[1].req = mine[d]
      BY <2>1, <2>3, <3>1 DEF Owns
    <3>3. \A k \in DOMAIN inbox'[d] : inbox'[d][k] = mine[d]
      <4>1. \A k \in DOMAIN inbox'[d] :
               (k \in DOMAIN inbox[d] /\ inbox'[d][k] = inbox[d][k]) \/ inbox'[d][k] = busy[1].req
        BY <2>3, <3>2, Queued
      <4> QED BY <3>1, <3>2, <4>1 DEF Owns
    <3>4. DOMAIN busy' = {}
      BY <2>1
    <3> QED BY <2>1, <3>1, <3>3, <3>4 DEF Owns
  <2> QED BY <2>4, <2>5, <2>6, <2>7
<1> QED BY <1>3, <1>4

\* A daemon that hangs leaves all else as it is.
LEMMA HangOk == ASSUME IInv, Hang PROVE IInv'
<1> USE Types DEF IInv
<1>1. /\ hung' = TRUE
      /\ UNCHANGED <<up, queue, busy, inst, name, pc, cmd, mine, got, inbox, nreq, alone>>
  BY DEF Hang, clients
<1>2. TypeOK'
  <2>1. hung' \in BOOLEAN
    BY <1>1
  <2> QED BY <1>1, <2>1, TypesNext
<1>3. NameIsHeld' /\ SocketIsNew' /\ Numbered'
  BY <1>1 DEF NameIsHeld, SocketIsNew, Numbered
<1>4. AloneOwns'
  BY <1>1 DEF AloneOwns, Owns
<1> QED BY <1>2, <1>3, <1>4

LEMMA BootOk == ASSUME IInv, Boot PROVE IInv'
<1> USE Types DEF IInv
<1>1. up' = TRUE /\ UNCHANGED <<queue, busy, inst, hung, name, pc, cmd, mine, got, inbox, nreq, alone>>
  BY DEF Boot, clients
<1>2. TypeOK'
  <2>1. up' \in BOOLEAN
    BY <1>1
  <2> QED BY <1>1, <2>1, TypesNext
<1>3. NameIsHeld' /\ SocketIsNew' /\ Numbered'
  BY <1>1 DEF NameIsHeld, SocketIsNew, Numbered
<1>4. AloneOwns'
  BY <1>1 DEF AloneOwns, Owns
<1> QED BY <1>2, <1>3, <1>4

LEMMA NextOk == IInv /\ [Next]_vars => IInv'
<1> SUFFICES ASSUME IInv, [Next]_vars PROVE IInv'
  OBVIOUS
<1>1. CASE UNCHANGED vars
  <2>1. UNCHANGED <<up, queue, busy, inst, hung, name, pc, cmd, mine, got, inbox, nreq, alone>>
    BY <1>1 DEF vars, daemon, clients
  <2> QED BY <2>1 DEF IInv, TypeOK, NameIsHeld, SocketIsNew, Numbered, AloneOwns, Owns
<1>2. CASE Crash
  BY <1>2, EndedOk DEF Crash
<1> QED BY <1>1, <1>2, TypeStepOk, ClientStepOk, TakeOk, FinishOk, HangOk,
          BootOk DEF Next

THEOREM InductiveInvariant == Spec => []IInv
  BY InitOk, NextOk, PTL DEF Spec

\* Type correctness: the daemon's socket never holds more than MaxQ requests and one
\* request is executed at a time, whatever clients are killed and daemons restarted.
THEOREM TypeCorrect == Spec => []TypeOK
<1>1. IInv => TypeOK
  BY DEF IInv
<1> QED BY <1>1, InductiveInvariant, PTL

\* A reply reaches the client that asked for it (process_adm_sock, which
\* replies to a name): a client that had the name to itself, with no other request
\* under way when it bound it, takes the reply to its own request for one.
THEOREM ReplyIsOwn == Spec => []OwnReply
<1>1. IInv => OwnReply
  BY DEF IInv, AloneOwns, Owns, OwnReply
<1> QED BY <1>1, InductiveInvariant, PTL
=============================================================================
