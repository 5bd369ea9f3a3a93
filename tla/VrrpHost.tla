------------------------------ MODULE VrrpHost ------------------------------
(***************************************************************************)
(* A daemon with one instance as the rest of the LAN sees it: its state,   *)
(* what its commands, advertisements and alarms make of it, and what it    *)
(* sends.  The queue, the mutex and the handler's instructions are left    *)
(* out: DaemonHost maps VrrpDaemon to this module and states that each of  *)
(* its steps is one of these operations, and VrrpLan puts several hosts on *)
(* one LAN.                                                                *)
(*                                                                         *)
(* Every operation is the set of its outcomes: the host afterwards and the *)
(* priority it advertises (NoAdv if none).  An operation that cannot       *)
(* happen has no outcome.                                                  *)
(***************************************************************************)
EXTENDS Integers, Sequences

CONSTANTS Id,          \* virtual router ids on the LAN, 1 .. 255
          CreatePri,   \* priorities given to create
          ModPri       \* integers given to modify as a priority

ASSUME HostAssumption ==
    /\ Id \subseteq 1 .. 255
    /\ CreatePri \subseteq 0 .. 255
    /\ ModPri \subseteq Nat

NoAdv == -1
OWNER == 255

(***************************************************************************)
(* id     the id the host's instance is created with                       *)
(* up     the process runs                                                 *)
(* open   an instance was created: its sockets are polled from then on     *)
(* made   the instance is in inst_runtime_list                             *)
(* st     its state, also after its removal, when its VR may be queued     *)
(* heard  the ids whose flag[] is set                                      *)
(* armed  an alarm is pending, or the handler or the main thread is about  *)
(*        to set one                                                       *)
(* had    v->pid is not 0: a router was started                            *)
(* todo   what the main thread still has to do before it polls again       *)
(***************************************************************************)
Todo == {"mast", "back", "init", "stop", "kill", "sleep", "unlink"}

Down(i) == [id |-> i, up |-> FALSE, open |-> FALSE, made |-> FALSE, st |-> "INIT",
            pri |-> 0, heard |-> {}, armed |-> FALSE, had |-> FALSE, todo |-> <<>>]

HostState ==
    {h \in [id : Id, up : BOOLEAN, open : BOOLEAN, made : BOOLEAN,
            st : {"INIT", "MAST", "BACK"}, pri : 0 .. 255, heard : SUBSET Id,
            armed : BOOLEAN, had : BOOLEAN, todo : Seq(Todo)] : Len(h.todo) <= 4}

Outcome(h, p) == [to |-> h, adv |-> p]
Silent(h) == {Outcome(h, NoAdv)}
When(guard, outcomes) == IF guard THEN outcomes ELSE {}

\* the main thread is in poll()
Polls(h) == h.up /\ h.todo = <<>>

(***************************************************************************)
(* Commands                                                                *)
(***************************************************************************)

\* The address owner becomes master at once.  One instance per process.
Create(h, p) ==
    When(Polls(h) /\ ~h.open,
         Silent([h EXCEPT !.open = TRUE, !.made = TRUE, !.pri = p,
                          !.todo = IF p = OWNER THEN <<"mast">> ELSE <<>>]))

Startup(h) ==
    When(Polls(h) /\ h.made /\ h.st = "INIT",
         Silent([h EXCEPT !.todo = <<"back", "sleep">>]))

Shutdown(h) ==
    When(Polls(h) /\ h.made /\ h.st # "INIT",
         Silent([h EXCEPT !.todo = IF h.st = "MAST" THEN <<"init", "stop", "kill">>
                                   ELSE <<"init">>]))

\* A master is shut down first, unless it was found with id 0.  The removal of
\* any other sends what a master sends to stop.
Destroy(h, wild) ==
    When(Polls(h) /\ h.made,
         Silent([h EXCEPT !.todo = CASE h.st # "MAST" -> <<"stop", "kill", "unlink">>
                                     [] h.st = "MAST" /\ ~wild ->
                                            <<"init", "stop", "kill", "unlink">>
                                     [] h.st = "MAST" /\ wild -> <<"unlink">>]))

\* No instance has the id given: the search's result is used before it is
\* compared with NULL.
DestroyMissing(h) == When(Polls(h), Silent(Down(h.id)))

\* attr->pri is a uint8_t
SetProp(h, p) == When(Polls(h) /\ h.made, Silent([h EXCEPT !.pri = p % 256]))

\* vrrp_set_inst_prop with a new interval: in INIT the timeout left in the VR, used
\* again, may set an alarm.
SetDelay(h) == When(Polls(h) /\ h.made /\ h.st = "INIT", Silent([h EXCEPT !.armed = TRUE]))

(***************************************************************************)
(* Advertisements                                                          *)
(***************************************************************************)

\* vrrp_process_incoming_adv: a master gives way to a higher priority
yields(h, i, p) == h.made /\ i = h.id /\ h.st = "MAST" /\ p > h.pri

\* mutant: a master that is told of a better one stays
ReceiveAdvDeaf(h, i, p) == When(Polls(h), Silent([h EXCEPT !.heard = @ \cup {i}]))

\* mutant: flag[] is indexed by the priority
ReceiveAdvByPri(h, i, p) == When(Polls(h), Silent([h EXCEPT !.heard = @ \cup {p}]))

ReceiveAdv(h, i, p) ==
    When(Polls(h),
         Silent([h EXCEPT !.heard = @ \cup {i},
                          !.todo = IF yields(h, i, p)
                                   THEN <<"back", "stop", "kill", "sleep">> ELSE <<>>]))

\* mutant: the flag stays set
ReceiveStopFlagged(h, i) ==
    When(Polls(h) /\ h.made,
         Silent([h EXCEPT !.todo = IF h.st = "BACK" THEN <<"mast">> ELSE <<>>]))

\* Priority 0: the first instance of the list, whatever its id, is promoted if it
\* is a BACKUP; in an empty list its state is read through NULL.
ReceiveStop(h, i) ==
    When(Polls(h),
         IF ~h.made THEN Silent(Down(h.id))
         ELSE Silent([h EXCEPT !.heard = @ \ {i},
                               !.todo = IF h.st = "BACK" THEN <<"mast">> ELSE <<>>]))

(***************************************************************************)
(* The next thing the main thread has to do                                *)
(***************************************************************************)

\* vrrp_state_i2m, b2m: the alarm is set right after the state
BecomeMaster(h) == [h EXCEPT !.st = "MAST", !.armed = TRUE, !.todo = Tail(h.todo)]

\* vrrp_state_m2b, i2b, m2i, b2i
Become(h, st) == [h EXCEPT !.st = st, !.todo = Tail(h.todo)]

\* kill(v->pid, SIGINT): 0 is the daemon's own process group
Kill(h) == IF h.had THEN [h EXCEPT !.todo = Tail(h.todo)] ELSE Down(h.id)

\* sleep(), which reads no socket, and any_master_up(), which asks for any id
Sleep(h) == [h EXCEPT !.todo = IF h.heard = {} THEN <<"mast">> ELSE Tail(h.todo)]

Unlink(h) == [h EXCEPT !.made = FALSE, !.todo = Tail(h.todo)]

\* mutant: a master stops without a word
DoSilently(h) ==
    When(h.up /\ h.todo # <<>>,
         CASE Head(h.todo) = "mast" -> Silent(BecomeMaster(h))
           [] Head(h.todo) = "back" -> Silent(Become(h, "BACK"))
           [] Head(h.todo) = "init" -> Silent(Become(h, "INIT"))
           [] Head(h.todo) = "stop" -> Silent([h EXCEPT !.todo = Tail(h.todo)])
           [] Head(h.todo) = "kill" -> Silent(Kill(h))
           [] Head(h.todo) = "sleep" -> Silent(Sleep(h))
           [] Head(h.todo) = "unlink" -> Silent(Unlink(h)))

Do(h) ==
    When(h.up /\ h.todo # <<>>,
         CASE Head(h.todo) = "mast" -> Silent(BecomeMaster(h))
           [] Head(h.todo) = "back" -> Silent(Become(h, "BACK"))
           [] Head(h.todo) = "init" -> Silent(Become(h, "INIT"))
           [] Head(h.todo) = "stop" -> {Outcome([h EXCEPT !.todo = Tail(h.todo)], 0)}
           [] Head(h.todo) = "kill" -> Silent(Kill(h))
           [] Head(h.todo) = "sleep" -> Silent(Sleep(h))
           [] Head(h.todo) = "unlink" -> Silent(Unlink(h)))

(***************************************************************************)
(* The alarm, which interrupts the main thread wherever it is              *)
(***************************************************************************)

\* signal_alarm: a MASTER advertises, a BACKUP is promoted, for one in INIT the
\* chain of alarms ends.  The handler finds the queue empty, and sets no alarm, when
\* it comes between the removal of the VR and the change of state that follows.
Alarm(h) ==
    When(h.up /\ h.armed,
         (CASE h.st = "MAST" -> {Outcome(h, h.pri)}
            [] h.st = "BACK" -> Silent([h EXCEPT !.st = "MAST"])
            [] h.st = "INIT" -> Silent([h EXCEPT !.armed = FALSE]))
         \cup When(h.todo # <<>> /\ Head(h.todo) \in {"mast", "init"},
                   Silent([h EXCEPT !.armed = FALSE])))

\* the fork of vrrp_state_execution, which may also fail
StartRouter(h) == When(h.up /\ h.st = "MAST" /\ ~h.had, Silent([h EXCEPT !.had = TRUE]))

\* the end of the process, by a queue torn where an alarm interrupted vrrp_state_b2m,
\* by a search of the queue with a leftover timeout, or for a reason outside its
\* code; and its restart
Crash(h) == When(h.up, Silent(Down(h.id)))

Boot(h) == When(~h.up, Silent([h EXCEPT !.up = TRUE]))

-----------------------------------------------------------------------------
Command(h) == UNION ({Create(h, p) : p \in CreatePri} \cup {SetProp(h, p) : p \in ModPri}
                     \cup {Destroy(h, w) : w \in BOOLEAN}
                     \cup {Startup(h), Shutdown(h), DestroyMissing(h), SetDelay(h)})

Step(h) == Do(h) \cup Alarm(h) \cup StartRouter(h)
=============================================================================
