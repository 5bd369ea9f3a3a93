------------------------------- MODULE VrrpLan -------------------------------
(***************************************************************************)
(* Several daemons on one LAN, each with one instance (VrrpHost).  An      *)
(* advertisement is multicast: it goes to the receive socket of every      *)
(* other host that has one.  A socket keeps the order and drops what does  *)
(* not fit its buffer; the network may lose any packet; a daemon may crash *)
(* and be started again.                                                   *)
(***************************************************************************)
EXTENDS VrrpHost, FiniteSets

CONSTANTS Host,    \* the machines
          IdOf,    \* the id each is configured with
          MaxQ,    \* packets a receive socket holds
          MaxCmd   \* bound on the number of commands given

ASSUME LanAssumption == IdOf \in [Host -> Id] /\ MaxQ \in Nat \ {0} /\ MaxCmd \in Nat

VARIABLES host,    \* the daemon of every machine
          inbox,   \* per machine, the packets waiting in its socket
          hung,    \* the machines whose daemon waits for its own mutex for ever
          cmds,    \* the number of commands given
          fault    \* history: a stop advertisement was lost, a daemon ended without the stop
                   \* advertisement it owed, or an alarm overtook a shutdown

vars == <<host, inbox, hung, cmds, fault>>

Adv == [id : Id, pri : 0 .. 255]

Init ==
    /\ host = [x \in Host |-> Down(IdOf[x])]
    /\ inbox = [x \in Host |-> <<>>]
    /\ hung = {}
    /\ cmds = 0
    /\ fault = FALSE

\* raw sockets do not see what their own machine sends
Reaches(x, y) == x # y /\ host[y].up /\ host[y].open

Fits(y) == Len(inbox[y]) < MaxQ

\* the host will have to tell the others that it stops
Owes(h) == h.st = "MAST" \/ \E k \in DOMAIN h.todo : h.todo[k] = "stop"

\* The alarm has promoted a backup whose shutdown had begun: vrrp_state_b2i goes on
\* and sends nothing.
Overtaken(h) == h.st = "MAST" /\ h.todo = <<"init">>

\* The outcome o of an operation of host x, its advertisement multicast.  The
\* packets waiting for a process are lost with it.
Apply(x, o, in) ==
    LET adv == [id |-> IdOf[x], pri |-> o.adv]
        to == {y \in Host : o.adv # NoAdv /\ Reaches(x, y)}
    IN  /\ host' = [host EXCEPT ![x] = o.to]
        /\ inbox' = [y \in Host |->
                       IF y = x THEN IF o.to.up THEN in ELSE <<>>
                       ELSE IF y \in to /\ Fits(y) THEN Append(inbox[y], adv)
                       ELSE inbox[y]]
        /\ hung' = IF o.to.up THEN hung ELSE hung \ {x}
        /\ fault' = \/ fault
                    \/ o.adv = 0 /\ \E y \in to : ~Fits(y)
                    \/ ~o.to.up /\ Owes(host[x])
                    \/ Overtaken(o.to)

Commands(x) ==
    /\ x \notin hung /\ cmds < MaxCmd
    /\ cmds' = cmds + 1
    /\ \E o \in Command(host[x]) : Apply(x, o, inbox[x])

Works(x) ==
    /\ x \notin hung
    /\ \E o \in Do(host[x]) : Apply(x, o, inbox[x])
    /\ UNCHANGED cmds

Expires(x) ==
    /\ x \notin hung
    /\ \E o \in Alarm(host[x]) : Apply(x, o, inbox[x])
    /\ UNCHANGED cmds

Forks(x) ==
    /\ x \notin hung
    /\ \E o \in StartRouter(host[x]) : Apply(x, o, inbox[x])
    /\ UNCHANGED cmds

\* The alarm finds the main thread in a critical section and its handler waits for
\* the mutex (VrrpDaemon!SelfDeadlock): before the change of state of i2b, m2i, b2i and
\* m2b, in a removal, in a modify, or where a backup takes an advertisement in.
Hangs(x) ==
    /\ x \notin hung
    /\ host[x].up /\ host[x].made /\ host[x].armed
    /\ host[x].todo # <<>> => Head(host[x].todo) \in {"back", "init", "stop", "unlink"}
    /\ hung' = hung \cup {x}
    /\ UNCHANGED <<host, inbox, cmds, fault>>

\* process_vrrpd_sock: vrrp_adv_check and vrrp_process_incoming_adv
Receives(x) ==
    /\ x \notin hung /\ inbox[x] # <<>>
    /\ LET m == Head(inbox[x])
       IN \E o \in IF m.pri = 0 THEN ReceiveStop(host[x], m.id)
                   ELSE ReceiveAdv(host[x], m.id, m.pri) :
             Apply(x, o, Tail(inbox[x]))
    /\ UNCHANGED cmds

Crashes(x) == (\E o \in Crash(host[x]) : Apply(x, o, <<>>)) /\ UNCHANGED cmds

Boots(x) == (\E o \in Boot(host[x]) : Apply(x, o, inbox[x])) /\ UNCHANGED cmds

Loses(x) ==
    /\ inbox[x] # <<>>
    /\ inbox' = [inbox EXCEPT ![x] = Tail(@)]
    /\ fault' = (fault \/ Head(inbox[x]).pri = 0)
    /\ UNCHANGED <<host, hung, cmds>>

Next == \E x \in Host : \/ Commands(x) \/ Works(x) \/ Expires(x) \/ Forks(x)
                        \/ Receives(x) \/ Hangs(x) \/ Crashes(x) \/ Boots(x) \/ Loses(x)

Spec == Init /\ [][Next]_vars

-----------------------------------------------------------------------------
\* Priorities stay a byte whatever modify is given, sockets hold at most MaxQ packets,
\* and a daemon owes at most four steps before it polls again.
TypeOK ==
    /\ host \in [Host -> HostState]
    /\ inbox \in [Host -> Seq(Adv)]
    /\ \A x \in Host : Len(inbox[x]) <= MaxQ
    /\ hung \subseteq Host
    /\ cmds \in 0 .. MaxCmd
    /\ fault \in BOOLEAN

Masters(i) == {x \in Host : IdOf[x] = i /\ host[x].st = "MAST"}

Backup(x) == host[x].made /\ host[x].st = "BACK"

Quiet == \A x \in Host : host[x].todo = <<>> /\ inbox[x] = <<>>

\* flag[] tells the truth: unless packets or masters were lost, a host that has
\* nothing left to read has the flag of an id set only if another host is still
\* master of it, or is about to tell that it is not.
FlagIsTrue ==
    ~fault => \A x \in Host : inbox[x] = <<>> =>
                \A i \in host[x].heard :
                    \E y \in Host \ {x} : IdOf[y] = i /\ Owes(host[y])

\* A backup does not wait for nobody: unless packets or masters were lost, a LAN at
\* rest with a backup has a master.
NoOrphan ==
    (~fault /\ Quiet) =>
        \A x \in Host : Backup(x) => \E i \in Id : Masters(i) # {}

(***************************************************************************)
(* Liveness.  A daemon that does not hang and has something to do or to    *)
(* read, or an alarm pending, gets on with it, and the network does not    *)
(* lose every packet.                                                      *)
(***************************************************************************)
Fairness == \A x \in Host : /\ WF_vars(Works(x))
                            /\ WF_vars(Expires(x))
                            /\ SF_vars(Receives(x))

FairSpec == Spec /\ Fairness

\* Hand-over: a backup becomes master itself, or sees another master, unless its daemon
\* hangs or the stop advertisement that tells it is lost, or owed by a daemon that ends
\* or hangs.
HandsOver ==
    \A x \in Host :
        Backup(x) ~> \/ ~Backup(x) \/ x \in hung \/ \E i \in Id : Masters(i) # {}
                     \/ fault \/ \E y \in hung : Owes(host[y])

Pris == CreatePri \cup {m % 256 : m \in ModPri}

\* Two masters of one id and different priorities do not last, as long as both daemons
\* run: the lower one, if it is still in its daemon's list, gives way, however many
\* packets are lost, unless one of the two hangs.
LowerYields ==
    \A x \in Host : \A y \in {z \in Host \ {x} : IdOf[z] = IdOf[x]} :
        \A p \in Pris : \A r \in {n \in Pris : n > p} :
            []<>~( /\ host[x].made /\ {x, y} \subseteq Masters(IdOf[x]) \ hung
                   /\ host[x].pri = p /\ host[y].pri = r)

(***************************************************************************)
(* What a comment says and the daemons do not do                           *)
(***************************************************************************)

\* "In backup state the master down timer that fires when adv is not has not been
\* received" (timer.c:2): a backup that has heard a master with a higher
\* priority, which is still master, does not become master beside it.
BackupDefers ==
    [][\A x, y \in Host :
          ( /\ Backup(x) /\ host'[x].st = "MAST"
            /\ IdOf[y] = IdOf[x] /\ IdOf[x] \in host[x].heard )
          => ~(host[y].st = "MAST" /\ host[y].pri > host[x].pri)]_vars
=============================================================================
