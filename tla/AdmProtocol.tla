---------------------------- MODULE AdmProtocol ----------------------------
(***************************************************************************)
(* Commands and replies between vrrpadm and vrrpd.  Both sides use Unix    *)
(* datagram sockets with fixed names: every client removes the name of the *)
(* client socket, binds it to a socket of its own, sends, waits without a  *)
(* time limit for any reply, and removes the name again.  The daemon       *)
(* replies to the name, whoever it belongs to by then.                     *)
(*                                                                         *)
(* The daemon is reduced to one instance, in INIT or running.  The status  *)
(* in a reply is not modelled: issue_vrrp_cmd looks for it in the wrong    *)
(* place (16 bytes from the start, where its own command still stands) and *)
(* vrrp_all_cmd reports success for any reply.                             *)
(***************************************************************************)
EXTENDS Naturals, Sequences, FiniteSets

CONSTANTS Client,   \* the vrrpadm processes
          Typed,    \* the commands given to them
          MaxReq,   \* bound on the number of commands typed
          MaxQ,     \* datagrams a socket holds
          NONE      \* the client socket's name does not exist

Cmd == {"create", "remove", "startup", "shutdown", "modify", "getx", "show"}

ASSUME AdmAssumption ==
    /\ Typed \subseteq Cmd /\ MaxReq \in Nat /\ MaxQ \in Nat \ {0}
    /\ NONE \notin Client /\ "stale" \notin Client /\ NONE # "stale"

VARIABLES
    up,      \* the daemon runs
    queue,   \* the requests in its socket
    busy,    \* the request it is executing, <<>> or a sequence of one
    inst,    \* its instance: "none", "INIT" or "RUN"
    hung,    \* its main thread waits for ever for its own mutex
    name,    \* who the client socket's name belongs to: NONE, a client, or
             \* "stale" (a closed socket, or one its client has forgotten)
    pc,      \* where each client is in issue_vrrp_cmd
    cmd,     \* the command it executes
    mine,    \* the number of its request
    got,     \* the number of the request whose reply it has received
    inbox,   \* the replies in its socket
    nreq,    \* the number of requests so far
    alone    \* history: no other request was under way when the client bound the
             \* name, and since then nobody else removed it and the daemon ran

daemon == <<up, queue, busy, inst, hung>>
clients == <<pc, cmd, mine, got>>
vars == <<daemon, name, clients, inbox, nreq, alone>>

Init ==
    /\ up = FALSE /\ queue = <<>> /\ busy = <<>> /\ inst = "none" /\ hung = FALSE
    /\ name = NONE
    /\ pc = [c \in Client |-> "prompt"]
    /\ cmd = [c \in Client |-> "show"]
    /\ mine = [c \in Client |-> 0]
    /\ got = [c \in Client |-> 0]
    /\ inbox = [c \in Client |-> <<>>]
    /\ nreq = 0
    /\ alone = [c \in Client |-> FALSE]

(***************************************************************************)
(* The client                                                              *)
(***************************************************************************)

\* mutant: the socket of the command before is used again
OpenSocketReused(c) ==
    /\ nreq < MaxReq
    /\ nreq' = nreq + 1
    /\ mine' = [mine EXCEPT ![c] = nreq']
    /\ pc' = [pc EXCEPT ![c] = "bind"]
    /\ name' = NONE
    /\ alone' = [d \in Client |-> FALSE]
    /\ UNCHANGED <<daemon, got, inbox>>

\* A new socket; the name is removed, whoever it belongs to.
OpenSocket(c) ==
    /\ nreq < MaxReq
    /\ nreq' = nreq + 1
    /\ mine' = [mine EXCEPT ![c] = nreq']
    /\ pc' = [pc EXCEPT ![c] = "bind"]
    /\ inbox' = [inbox EXCEPT ![c] = <<>>]
    /\ name' = NONE
    /\ alone' = [d \in Client |-> FALSE]
    /\ UNCHANGED <<daemon, got>>

\* main: a command is typed.  show asks for one instance after the other.
Type(c, k) ==
    /\ pc[c] = "prompt"
    /\ cmd' = [cmd EXCEPT ![c] = k]
    /\ OpenSocket(c)

\* bind() fails if another client was faster
Bind(c) ==
    /\ pc[c] = "bind"
    /\ IF name = NONE
       THEN /\ name' = c
            /\ pc' = [pc EXCEPT ![c] = "send"]
            /\ alone' = [alone EXCEPT ![c] = /\ up /\ queue = <<>> /\ busy = <<>>
                                             /\ \A d \in Client : pc[d] # "send"]
       ELSE /\ pc' = [pc EXCEPT ![c] = "failed"]
            /\ UNCHANGED <<name, alone>>
    /\ UNCHANGED <<daemon, cmd, mine, got, inbox, nreq>>

\* mutant: a datagram too many
SendUnbounded(c) ==
    /\ pc[c] = "send" /\ up
    /\ queue' = Append(queue, [req |-> mine[c], cmd |-> cmd[c]])
    /\ pc' = [pc EXCEPT ![c] = "wait"]
    /\ UNCHANGED <<up, busy, inst, hung, name, cmd, mine, got, inbox, nreq, alone>>

\* sendto() waits for room in the daemon's socket and fails without a daemon; the
\* client's socket then stays open and its name stays
Send(c) ==
    /\ pc[c] = "send"
    /\ IF up
       THEN /\ Len(queue) < MaxQ
            /\ queue' = Append(queue, [req |-> mine[c], cmd |-> cmd[c]])
            /\ pc' = [pc EXCEPT ![c] = "wait"]
            /\ UNCHANGED name
       ELSE /\ pc' = [pc EXCEPT ![c] = "failed"]
            /\ name' = IF name = c THEN "stale" ELSE name
            /\ UNCHANGED queue
    /\ UNCHANGED <<up, busy, inst, hung, cmd, mine, got, inbox, nreq, alone>>

\* vrrp_all_cmd returns no value: the client may report success, or an error text
\* it finds outside the table, or end there.
Fail(c) ==
    /\ pc[c] = "failed"
    /\ \E w \in {"prompt", "dead"} : pc' = [pc EXCEPT ![c] = w]
    /\ UNCHANGED <<daemon, name, cmd, mine, got, inbox, nreq, alone>>

\* The first reply is taken, whatever it replies to.  The text of the status is
\* looked up with a number that only create keeps within the table.
Receive(c) ==
    /\ pc[c] = "wait"
    /\ inbox[c] # <<>>
    /\ got' = [got EXCEPT ![c] = Head(inbox[c])]
    /\ inbox' = [inbox EXCEPT ![c] = Tail(@)]
    /\ \/ pc' = [pc EXCEPT ![c] = "close"] /\ UNCHANGED name
       \/ /\ cmd[c] # "create"
          /\ pc' = [pc EXCEPT ![c] = "dead"]
          /\ name' = IF name = c THEN "stale" ELSE name
    /\ UNCHANGED <<daemon, cmd, mine, nreq, alone>>

Close(c) ==
    /\ pc[c] = "close"
    /\ pc' = [pc EXCEPT ![c] = "unlink"]
    /\ name' = IF name = c THEN "stale" ELSE name
    /\ inbox' = [inbox EXCEPT ![c] = <<>>]
    /\ UNCHANGED <<daemon, cmd, mine, got, nreq, alone>>

\* The name is removed, even if another client has bound it since.  getx then frees
\* the instance it never received; show uses a pointer it never set.
Unlink(c) ==
    /\ pc[c] = "unlink"
    /\ name' = NONE
    /\ alone' = [d \in Client |-> FALSE]
    /\ pc' = [pc EXCEPT ![c] = CASE cmd[c] = "getx" -> "dead"
                                 [] cmd[c] = "show" -> "shown"
                                 [] OTHER -> "prompt"]
    /\ UNCHANGED <<daemon, cmd, mine, got, inbox, nreq>>

\* cmd_show_all: the next id, for ever (a uint8_t is below 256), or the end
ShowNext(c) ==
    /\ pc[c] = "shown"
    /\ \/ OpenSocket(c) /\ UNCHANGED cmd
       \/ /\ pc' = [pc EXCEPT ![c] = "dead"]
          /\ UNCHANGED <<daemon, name, cmd, mine, got, inbox, nreq, alone>>

\* the user interrupts a client, and starts it again
Kill(c) ==
    /\ pc[c] # "dead"
    /\ pc' = [pc EXCEPT ![c] = "dead"]
    /\ name' = IF name = c THEN "stale" ELSE name
    /\ inbox' = [inbox EXCEPT ![c] = <<>>]
    /\ UNCHANGED <<daemon, cmd, mine, got, nreq, alone>>

Start(c) ==
    /\ pc[c] = "dead"
    /\ pc' = [pc EXCEPT ![c] = "prompt"]
    /\ UNCHANGED <<daemon, name, cmd, mine, got, inbox, nreq, alone>>

(***************************************************************************)
(* The daemon                                                              *)
(***************************************************************************)

\* what the command makes of the instance; "end" if the daemon does not survive it:
\* a removal of what is not there, or of what never was master
Executed(k) ==
    CASE k = "create" /\ inst = "none" -> {"INIT", "RUN"}
      [] k = "remove" /\ inst = "none" -> {"end"}
      [] k = "remove" /\ inst # "none" -> {"none", "end"}
      [] k = "startup" /\ inst = "INIT" -> {"RUN"}
      [] k = "shutdown" /\ inst = "RUN" -> {"INIT"}
      [] OTHER -> {inst}

Ended ==
    /\ up' = FALSE /\ queue' = <<>> /\ busy' = <<>> /\ inst' = "none" /\ hung' = FALSE
    /\ alone' = [c \in Client |-> FALSE]

\* process_adm_sock reads a request ...
Take ==
    /\ up /\ ~hung /\ busy = <<>> /\ queue # <<>>
    /\ busy' = <<Head(queue)>>
    /\ queue' = Tail(queue)
    /\ UNCHANGED <<up, inst, hung, name, clients, inbox, nreq, alone>>

\* mutant: a command that fails is not answered
FinishIfDone ==
    /\ up /\ ~hung /\ busy # <<>>
    /\ \E i \in Executed(busy[1].cmd) :
          IF i = "end" THEN Ended /\ UNCHANGED inbox
          ELSE /\ inst' = i /\ busy' = <<>>
               /\ inbox' = IF name \in Client /\ i # inst
                           THEN [inbox EXCEPT ![name] = Append(@, busy[1].req)] ELSE inbox
               /\ UNCHANGED <<up, queue, hung, alone>>
    /\ UNCHANGED <<name, clients, nreq>>

\* ... executes it, which can take the seconds of a sleep(), and replies to the name
Finish ==
    /\ up /\ ~hung /\ busy # <<>>
    /\ \E i \in Executed(busy[1].cmd) :
          IF i = "end" THEN Ended /\ UNCHANGED inbox
          ELSE /\ inst' = i /\ busy' = <<>>
               /\ inbox' = IF name \in Client
                           THEN [inbox EXCEPT ![name] = Append(@, busy[1].req)] ELSE inbox
               /\ UNCHANGED <<up, queue, hung, alone>>
    /\ UNCHANGED <<name, clients, nreq>>

\* An alarm finds the main thread in a critical section, of a command or of an
\* advertisement's handler, and its own handler waits for the mutex
\* (VrrpDaemon!SelfDeadlock).  The socket stays, and requests stay in it.
Hang ==
    /\ up /\ ~hung
    /\ IF busy = <<>> THEN inst = "RUN" ELSE busy[1].cmd \notin {"getx", "show"}
    /\ hung' = TRUE
    /\ UNCHANGED <<up, queue, busy, inst, name, clients, inbox, nreq, alone>>

\* the daemon ends and is started again: setup_adm_socket makes a new socket
Crash == up /\ Ended /\ UNCHANGED <<name, clients, inbox, nreq>>

Boot ==
    /\ ~up /\ up' = TRUE
    /\ UNCHANGED <<queue, busy, inst, hung, name, clients, inbox, nreq, alone>>

-----------------------------------------------------------------------------
ClientStep(c) == \/ Bind(c) \/ Send(c) \/ Fail(c) \/ Receive(c) \/ Close(c)
                 \/ Unlink(c) \/ ShowNext(c)

Next == \/ \E c \in Client : \/ \E k \in Typed : Type(c, k)
                             \/ ClientStep(c) \/ Kill(c) \/ Start(c)
        \/ Take \/ Finish \/ Hang \/ Crash \/ Boot

Spec == Init /\ [][Next]_vars

\* a process that can go on does (a daemon that hangs cannot); nobody has to start one,
\* type or interrupt
Fairness == WF_vars(Take) /\ WF_vars(Finish) /\ \A c \in Client : WF_vars(ClientStep(c))

FairSpec == Spec /\ Fairness

-----------------------------------------------------------------------------
\* The daemon's socket holds at most MaxQ requests and one request is executed at a time.
TypeOK ==
    /\ up \in BOOLEAN /\ inst \in {"none", "INIT", "RUN"} /\ hung \in BOOLEAN
    /\ \A s \in {queue, busy} : s \in Seq([req : 1 .. MaxReq, cmd : Cmd])
    /\ Len(queue) <= MaxQ /\ Len(busy) <= 1
    /\ name \in Client \cup {NONE, "stale"}
    /\ pc \in [Client -> {"prompt", "bind", "send", "failed", "wait", "close",
                          "unlink", "shown", "dead"}]
    /\ cmd \in [Client -> Cmd]
    /\ mine \in [Client -> 0 .. MaxReq] /\ got \in [Client -> 0 .. MaxReq]
    /\ inbox \in [Client -> Seq(1 .. MaxReq)]
    /\ nreq \in 0 .. MaxReq
    /\ alone \in [Client -> BOOLEAN]

\* A client that had the name to itself, with no other request under way when it
\* bound it, takes the reply to its own request for one, whatever clients were
\* killed and daemons restarted before.
OwnReply == \A c \in Client : (pc[c] = "close" /\ alone[c]) => got[c] = mine[c]

\* Such a client does not wait for ever, unless the daemon hangs: also a command that
\* fails is answered, and nothing left behind by others, a name or a request, is in
\* the way.
Answered ==
    \A c \in Client :
        (pc[c] \in {"send", "wait"} /\ alone[c])
            ~> (pc[c] \notin {"send", "wait"} \/ ~alone[c] \/ hung)
=============================================================================
