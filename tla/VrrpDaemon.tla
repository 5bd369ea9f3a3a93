----------------------------- MODULE VrrpDaemon -----------------------------
(***************************************************************************)
(* The daemon vrrpd: the main thread, which polls the command socket and   *)
(* the advertisement sockets and runs one handler at a time, and the       *)
(* SIGALRM handler of timer.c, which the kernel may run on the main thread *)
(* (freezing it) or on the timer thread (beside it).  They share the       *)
(* advertisement queue, its mutex, the instances and the one alarm clock.  *)
(*                                                                         *)
(* The functions of state.c and timer.c are straight-line code, so each is *)
(* a sequence of instructions in Code and a thread is a place in one of    *)
(* them.  An instruction is as much of the code as the other thread cannot *)
(* tell from a single step: a whole queue call where the mutex excludes    *)
(* the other thread, a single pointer assignment where it does not.        *)
(*                                                                         *)
(* Every instance holds exactly one VR, so one object stands for both.     *)
(* Objects are never freed: a destroyed one can still be in the queue.     *)
(***************************************************************************)
EXTENDS AdvQueueOps, Integers, Sequences, FiniteSets

CONSTANTS Vrid,            \* virtual router ids on this LAN, 1 .. 255
          VridOf,          \* the id each object is created with
          CreatePri,       \* priorities given to create
          ModPri,          \* integers given to modify as a priority
          ModDelay,        \* intervals given to modify, in seconds
          AdvPri,          \* priorities above 0 in received advertisements
          HandlerThreads,  \* the threads SIGALRM may be delivered to
          MaxPid,          \* bound on the number of successful forks
          EMPTY            \* marks that vrrp_enqueue_impl found no queue

OWNER == 255               \* VRRP_PRIO_OWNER
UNCHANGE == -1             \* VR_PROP_UNCHANGE

ASSUME DaemonAssumption ==
    /\ Vrid \subseteq 1 .. 255
    /\ VridOf \in [Vr -> Vrid]
    /\ CreatePri \subseteq 0 .. 255
    /\ ModPri \subseteq Nat
    /\ ModDelay \subseteq Nat
    /\ AdvPri \subseteq 1 .. 255
    /\ HandlerThreads \subseteq {"main", "timer"}
    /\ MaxPid \in Nat
    /\ EMPTY \notin Ptr

VARIABLES
    live,     \* the instances of inst_runtime_list, which is sorted by id
    used,     \* the objects allocated so far
    pri, delay, pree,       \* attr of every object
    state,    \* the VRRP state of every object
    pid,      \* the router process it remembers, 0 if none
    routers,  \* the router processes that run
    npid,     \* the last process id given out
    wire,     \* per id, the priority last advertised, -1 if none
    flag,     \* flag[]: a master of this id was heard
    q,        \* adv_q, qnext, qprev
    armed,    \* an alarm is pending
    lock,     \* the holder of adv_q_lock
    prog, at, \* per thread, the function it runs and the place in it
    ent,      \* per thread, the VR it works on
    curr,     \* per thread, the local curr of vrrp_enqueue_impl
    more, nxt,\* the locals more and next_entry of signal_alarm
    hthr,     \* the thread the signal handler runs on
    up        \* "up", or what ended the process

attrs == <<pri, delay, pree>>
list == <<live, used>>
procs == <<pid, routers, npid>>
locals == <<curr, more, nxt>>
threads == <<prog, at, ent, locals, hthr>>
vars == <<list, attrs, state, procs, wire, flag, q, armed, lock, threads, up>>

Thread == {"main", "alrm"}
States == {"INIT", "MAST", "BACK"}

(***************************************************************************)
(* The functions.  "lock" .. "unlock" is a critical section.  vrrp_state_  *)
(* b2m takes no lock ("Called in queue mutex, no need to lock"), so its    *)
(* queue calls, and those of the handler it can meet, are spelt out.       *)
(***************************************************************************)
Code ==
  [idle     |-> <<"wait">>,
   i2m      |-> <<"lock", "enqueue", "unlock", "mast", "fork", "alarm">>,
   i2b      |-> <<"lock", "enqueue", "unlock", "back", "sleep">>,
   m2i      |-> <<"lock", "rmqueue", "unlock", "init", "stop", "kill">>,
   b2i      |-> <<"lock", "rmqueue", "unlock", "init">>,
   b2m      |-> <<"bypass", "relink", "clrnext", "clrprev",
                  "head", "join", "linkback", "inherit", "publish",
                  "mast", "fork", "alarm">>,
   m2b      |-> <<"lock", "rmqueue", "enqueue", "unlock", "back",
                  "stop", "kill", "sleep">>,
   \* vrrp_destroy_inst: a master, a master found with id 0 (shutdown and
   \* rmqueue then fail with EINVAL), any other, any other found with id 0
   kill_mast      |-> <<"lock", "rmqueue", "unlock", "init", "stop", "kill",
                        "lock", "rmlinked", "unlock", "unlink">>,
   kill_mast_wild |-> <<"lock", "unlock", "unlink">>,
   kill_other     |-> <<"lock", "rmlinked", "unlock", "stop", "kill", "unlink">>,
   kill_other_wild|-> <<"lock", "unlock", "stop", "kill", "unlink">>,
   \* vrrp_set_inst_prop with a new delay, the same with id 0
   modify      |-> <<"lock", "requeue", "unlock">>,
   modify_wild |-> <<"lock", "unlock">>,
   \* vrrp_process_incoming_adv in BACKUP
   adv_back |-> <<"lock", "rmqueue", "enqueue3", "unlock">>,
   \* signal_alarm: its loop, the body for the entry dequeued, what it does for
   \* a MASTER and for a BACKUP, and its end
   expire   |-> <<"lock", "dequeue">>,
   x_loop   |-> <<"dequeue">>,
   x_entry  |-> <<"bypass", "relink", "clrnext", "clrprev",
                  "more", "is_mast", "is_back">>,
   x_mast   |-> <<"send", "head", "join", "linkback", "inherit", "publish",
                  "alarmnext", "again">>,
   x_back   |-> <<"bypass", "relink", "clrnext", "clrprev",
                  "head", "join", "linkback", "inherit", "publish",
                  "mast", "fork", "alarm",
                  "head", "join", "linkback", "inherit", "publish",
                  "alarmnext", "again">>,
   x_none   |-> <<"again">>,
   x_done   |-> <<"unlock">>]

Functions == DOMAIN Code

\* The main thread stands still while the handler runs on it.
Runs(t) == up = "up" /\ (t = "main" => hthr # "main")

At(t, op) == Runs(t) /\ Code[prog[t]][at[t]] = op

Last(t) == at[t] = Len(Code[prog[t]])

Advance(t) ==
    /\ prog' = [prog EXCEPT ![t] = IF Last(t) THEN "idle" ELSE @]
    /\ at' = [at EXCEPT ![t] = IF Last(t) THEN 1 ELSE @ + 1]
    /\ ent' = [ent EXCEPT ![t] = IF Last(t) THEN NULL ELSE @]
    /\ hthr' = IF t = "alrm" /\ Last(t) THEN "none" ELSE hthr

Jump(t, f) ==
    /\ prog' = [prog EXCEPT ![t] = f]
    /\ at' = [at EXCEPT ![t] = 1]
    /\ UNCHANGED hthr

\* The main thread starts a function on instance v.
Call(f, v) ==
    /\ Jump("main", f)
    /\ ent' = [ent EXCEPT !["main"] = v]
    /\ UNCHANGED locals

MainIdle == Runs("main") /\ prog["main"] = "idle"

\* SIGSEGV: a NULL pointer was followed, and where
Segv(where) == up' = where /\ UNCHANGED <<list, attrs, state, procs, wire, flag, q,
                                          armed, lock, threads>>

Init ==
    /\ live = {} /\ used = {}
    /\ pri = [v \in Vr |-> 0]
    /\ delay = [v \in Vr |-> 0]
    /\ pree = [v \in Vr |-> FALSE]
    /\ state = [v \in Vr |-> "INIT"]
    /\ pid = [v \in Vr |-> 0]
    /\ routers = {} /\ npid = 0
    /\ wire = [i \in Vrid |-> -1]
    /\ flag = [i \in Vrid |-> FALSE]
    /\ q = EmptyQueue
    /\ armed = FALSE
    /\ lock = "free"
    /\ prog = [t \in Thread |-> "idle"]
    /\ at = [t \in Thread |-> 1]
    /\ ent = [t \in Thread |-> NULL]
    /\ curr = [t \in Thread |-> NULL]
    /\ more = FALSE /\ nxt = NULL
    /\ hthr = "none"
    /\ up = "up"

(***************************************************************************)
(* Commands: process_adm_sock and the functions of vrrpd_impl.c it calls.  *)
(* A command that fails changes nothing and is not an action.              *)
(***************************************************************************)

\* vrrp_search_inst: by id, or (id 0, no interface) the only instance
FoundById(v) == v \in live
FoundByWildcard(v) == live = {v}

vrrp_create_inst(v, p, d, m) ==
    /\ MainIdle
    /\ v \notin used
    /\ \A w \in live : VridOf[w] # VridOf[v]
    /\ d > 0
    /\ live' = live \cup {v}
    /\ used' = used \cup {v}
    /\ pri' = [pri EXCEPT ![v] = p]
    /\ delay' = [delay EXCEPT ![v] = d]
    /\ pree' = [pree EXCEPT ![v] = m]
    /\ IF p = OWNER THEN Call("i2m", v) ELSE UNCHANGED threads
    /\ UNCHANGED <<state, procs, wire, flag, q, armed, lock, up>>

vrrp_startup_inst(v) ==
    /\ MainIdle
    /\ FoundById(v)
    /\ state[v] = "INIT"
    /\ Call("i2b", v)
    /\ UNCHANGED <<list, attrs, state, procs, wire, flag, q, armed, lock, up>>

vrrp_shutdown_inst(v) ==
    /\ MainIdle
    /\ FoundById(v)
    /\ \/ state[v] = "MAST" /\ Call("m2i", v)
       \/ state[v] = "BACK" /\ Call("b2i", v)
    /\ UNCHANGED <<list, attrs, state, procs, wire, flag, q, armed, lock, up>>

vrrp_destroy_inst(v, wild) ==
    /\ MainIdle
    /\ IF wild THEN FoundByWildcard(v) ELSE FoundById(v)
    /\ IF state[v] = "MAST"
       THEN Call(IF wild THEN "kill_mast_wild" ELSE "kill_mast", v)
       ELSE Call(IF wild THEN "kill_other_wild" ELSE "kill_other", v)
    /\ UNCHANGED <<list, attrs, state, procs, wire, flag, q, armed, lock, up>>

\* curr->state is read before curr is compared with NULL.
destroy_missing ==
    /\ MainIdle
    /\ \/ \E i \in Vrid : \A v \in live : VridOf[v] # i
       \/ \A v \in live : ~FoundByWildcard(v)
    /\ Segv("destroy")

\* mutant: the priority is stored as an int
priorityWide(old, p) == IF p = UNCHANGE THEN old ELSE p

\* attr->pri is a uint8_t
priority(old, p) == IF p = UNCHANGE THEN old ELSE p % 256

\* One step: an alarm between the stores of priority and interval advertises the new
\* priority and sets the clock by the old interval, as armed as by the new one unless
\* that is 0.  Only this thread reads the preempt mode, which is stored last.
vrrp_set_inst_prop(v, wild, p, d, m) ==
    /\ MainIdle
    /\ IF wild THEN FoundByWildcard(v) ELSE FoundById(v)
    /\ pri' = [pri EXCEPT ![v] = priority(@, p)]
    /\ delay' = [delay EXCEPT ![v] = IF d = UNCHANGE THEN @ ELSE d]
    /\ pree' = [pree EXCEPT ![v] = IF m = UNCHANGE THEN @ ELSE m = 1]
    /\ IF d = UNCHANGE THEN UNCHANGED threads
       ELSE Call(IF wild THEN "modify_wild" ELSE "modify", v)
    /\ UNCHANGED <<list, state, procs, wire, flag, q, armed, lock, up>>

(***************************************************************************)
(* Advertisements: process_vrrpd_sock, vrrp_adv_check and                  *)
(* vrrp_process_incoming_adv.                                              *)
(***************************************************************************)

\* the first instance of the list
First(v) == v \in live /\ \A w \in live : VridOf[v] <= VridOf[w]

\* mutant: the flag of the master that is going down stays set
receive_stop_flagged(i) ==
    /\ MainIdle
    /\ live # {}
    /\ \E v \in live :
          /\ First(v)
          /\ IF state[v] = "BACK" THEN Call("b2m", v) ELSE UNCHANGED threads
    /\ UNCHANGED <<list, attrs, state, procs, wire, flag, q, armed, lock, up>>

\* Priority 0: a master is going down.  The first instance of the list, which
\* need not be the one concerned, is promoted if it is a BACKUP.
receive_stop(i) ==
    /\ MainIdle
    /\ live # {}
    /\ flag' = [flag EXCEPT ![i] = FALSE]
    /\ \E v \in live :
          /\ First(v)
          /\ IF state[v] = "BACK" THEN Call("b2m", v) ELSE UNCHANGED threads
    /\ UNCHANGED <<list, attrs, state, procs, wire, q, armed, lock, up>>

receive_stop_no_instance(i) == MainIdle /\ live = {} /\ Segv("first")

\* a MASTER gives way to this priority
yields(v, p) == p > pri[v]

receive_adv(i, p) ==
    /\ MainIdle
    /\ flag' = [flag EXCEPT ![i] = TRUE]
    /\ \/ /\ \A v \in live : VridOf[v] # i
          /\ UNCHANGED threads
       \/ \E v \in live :
             /\ VridOf[v] = i
             /\ CASE state[v] = "BACK" /\ (~pree[v] \/ p >= pri[v]) -> Call("adv_back", v)
                  [] state[v] = "MAST" /\ yields(v, p) -> Call("m2b", v)
                  [] OTHER -> UNCHANGED threads
    /\ UNCHANGED <<list, attrs, state, procs, wire, q, armed, lock, up>>

(***************************************************************************)
(* Instructions of both threads                                            *)
(***************************************************************************)

\* ualarm(), for an entry put into queue qq: a timeout of a second or more is
\* rejected; a zero timeout stops the clock, which the closing ualarm() restarts if
\* the queue was not empty and under a second was left.
ArmedAfter(qq, zero) ==
    IF ~zero THEN {armed} ELSE IF qq.head = NULL THEN {FALSE} ELSE {FALSE, armed}

\* mutant: the lock does not wait
DoLockBarge(t) ==
    /\ At(t, "lock")
    /\ lock' = t
    /\ Advance(t)
    /\ UNCHANGED <<list, attrs, state, procs, wire, flag, q, armed, locals, up>>

DoLock(t) ==
    /\ At(t, "lock")
    /\ lock = "free"
    /\ lock' = t
    /\ Advance(t)
    /\ UNCHANGED <<list, attrs, state, procs, wire, flag, q, armed, locals, up>>

\* mutant: the mutex is not released
DoUnlockLost(t) ==
    /\ At(t, "unlock")
    /\ Advance(t)
    /\ UNCHANGED <<list, attrs, state, procs, wire, flag, q, armed, lock, locals, up>>

DoUnlock(t) ==
    /\ At(t, "unlock")
    /\ lock' = "free"
    /\ Advance(t)
    /\ UNCHANGED <<list, attrs, state, procs, wire, flag, q, armed, locals, up>>

\* v->state = ...
SetState(t, op, st) == At(t, op) /\ state' = [state EXCEPT ![ent[t]] = st]

DoState(t) ==
    /\ \/ SetState(t, "mast", "MAST")
       \/ SetState(t, "back", "BACK")
       \/ SetState(t, "init", "INIT")
    /\ Advance(t)
    /\ UNCHANGED <<list, attrs, procs, wire, flag, q, armed, lock, locals, up>>

\* vrrp_state_execution(.. _TO_MAST): start a router process.  Its return
\* value is ignored, so a failed fork leaves the old pid.
DoFork(t) ==
    /\ At(t, "fork")
    /\ \/ /\ npid < MaxPid
          /\ npid' = npid + 1
          /\ pid' = [pid EXCEPT ![ent[t]] = npid']
          /\ routers' = routers \cup {npid'}
       \/ UNCHANGED procs
    /\ Advance(t)
    /\ UNCHANGED <<list, attrs, state, wire, flag, q, armed, lock, locals, up>>

\* mutant: the handler does not set the next alarm
DoAlarmOnce(t) ==
    /\ \/ At(t, "alarm") /\ armed' = (delay[ent[t]] > 0)
       \/ At(t, "alarmnext") /\ UNCHANGED armed
    /\ Advance(t)
    /\ UNCHANGED <<list, attrs, state, procs, wire, flag, q, lock, locals, up>>

\* alarm(delay); zero cancels.  At its end the handler takes the interval of
\* next_entry, if there is one.
DoAlarm(t) ==
    /\ \/ At(t, "alarm") /\ armed' = (delay[ent[t]] > 0)
       \/ At(t, "alarmnext") /\ armed' = (delay[IF nxt = NULL THEN ent[t] ELSE nxt] > 0)
    /\ Advance(t)
    /\ UNCHANGED <<list, attrs, state, procs, wire, flag, q, lock, locals, up>>

\* CreateVRRPHeader: the priority in the packet is the instance's, or 0
CreateVRRPHeader(v, p) == IF p = 0 THEN 0 ELSE pri[v]

\* the packet leaves on the instance's interface, with its id
vrrp_send_adv(v, p) == wire' = [wire EXCEPT ![VridOf[v]] = CreateVRRPHeader(v, p)]

\* what the handler sends for a MASTER, and what a master sends to stop
DoSend(t) ==
    /\ \/ At(t, "send") /\ vrrp_send_adv(ent[t], 1)
       \/ At(t, "stop") /\ vrrp_send_adv(ent[t], 0)
    /\ Advance(t)
    /\ UNCHANGED <<list, attrs, state, procs, flag, q, armed, lock, locals, up>>

(***************************************************************************)
(* Queue calls, one assignment at a time                                   *)
(***************************************************************************)
\* (curr is a local of vrrp_enqueue_impl, which ends with "publish")
QueueStep(t, op, qq, crash) ==
    /\ At(t, op)
    /\ IF crash THEN Segv("queue")
       ELSE /\ q' = qq
            /\ Advance(t)
            /\ curr' = [curr EXCEPT ![t] = IF op = "publish" THEN NULL ELSE @]
            /\ UNCHANGED <<list, attrs, state, procs, wire, flag, armed, lock, more, nxt, up>>

DoRmqueueStep(t) ==
    LET e == ent[t] IN
    \/ QueueStep(t, "bypass", bypassEntry(q, e), FALSE)
    \/ QueueStep(t, "relink", relinkSuccessor(q, e), RelinkCrashes(q, e))
    \/ QueueStep(t, "clrnext", clearNext(q, e), FALSE)
    \/ QueueStep(t, "clrprev", clearPrev(q, e), FALSE)

\* curr = adv_q; ualarm(entry->timeout)
DoReadHead(t) ==
    /\ At(t, "head")
    /\ curr' = [curr EXCEPT ![t] = q.head]
    /\ armed' \in ArmedAfter(q, delay[ent[t]] = 0)
    /\ Advance(t)
    /\ UNCHANGED <<list, attrs, state, procs, wire, flag, q, lock, more, nxt, up>>

\* adv_q is read again: if it is NULL the entry becomes the queue (curr is
\* then of no more use and records that), otherwise it is linked before curr
DoJoin(t) ==
    /\ At(t, "join")
    /\ IF q.head = NULL
       THEN q' = setHead(q, ent[t]) /\ curr' = [curr EXCEPT ![t] = EMPTY]
       ELSE q' = linkBefore(q, ent[t], curr[t]) /\ UNCHANGED curr
    /\ Advance(t)
    /\ UNCHANGED <<list, attrs, state, procs, wire, flag, armed, lock, more, nxt, up>>

DoEnqueueStep(t) ==
    LET e == ent[t]
        c == curr[t]
    IN
    \/ QueueStep(t, "linkback", IF c = EMPTY THEN q ELSE linkBack(q, e, c), c = NULL)
    \/ QueueStep(t, "inherit", IF c = EMPTY THEN q ELSE inheritPrev(q, e, c), FALSE)
    \/ QueueStep(t, "publish", IF c = EMPTY THEN clearPrev(q, e) ELSE publish(q, e, c),
                 c # EMPTY /\ c # q.head /\ q.prev[e] = NULL)

(***************************************************************************)
(* Instructions of the main thread only                                    *)
(***************************************************************************)
DoRmqueue ==
    LET e == ent["main"] IN
    \/ QueueStep("main", "rmqueue", vrrp_rmqueue_impl(q, e), RmqueueCrashes(q, e))
    \/ QueueStep("main", "rmlinked",
                 IF Linked(q, e) THEN vrrp_rmqueue_impl(q, e) ELSE q,
                 RmqueueCrashes(q, e))

MainEnqueue(op, qq, clocks) ==
    /\ At("main", op)
    /\ q' = qq
    /\ armed' \in clocks
    /\ Advance("main")
    /\ UNCHANGED <<list, attrs, state, procs, wire, flag, lock, locals, up>>

\* The master down interval is 3 * delay, plus a second for priority 0.
DoEnqueue ==
    LET e == ent["main"]
        put(op, zero) == MainEnqueue(op, vrrp_enqueue_impl(q, e), ArmedAfter(q, zero))
    IN put("enqueue", delay[e] = 0) \/ put("enqueue3", delay[e] = 0 /\ pri[e] # 0)

\* vrrp_enqueue in INIT assigns no timeout and uses the one left in the VR, which
\* may be any (AdvQueueTimed!Requeue): the search may pass VRs of queue qq, run off
\* its end or never end, which stops the process too, and any alarm may be pending
\* afterwards.
EnqueueLeftover(qq, e) ==
    \/ qq.head = NULL /\ MainEnqueue("requeue", vrrp_enqueue_impl(qq, e), BOOLEAN)
    \/ \E c \in Chain(qq) : MainEnqueue("requeue", enqueueBefore(qq, e, c), BOOLEAN)
    \/ qq.head # NULL /\ Segv("queue")

\* vrrp_set_inst_prop: vrrp_rmqueue and, if it succeeds, vrrp_enqueue
DoRequeue ==
    LET e == ent["main"]
        q0 == vrrp_rmqueue_impl(q, e)
        put(zero) == MainEnqueue("requeue", vrrp_enqueue_impl(q0, e), ArmedAfter(q0, zero))
    IN /\ At("main", "requeue")
       /\ IF ~Linked(q, e) THEN MainEnqueue("requeue", q, {armed})
          ELSE IF RmqueueCrashes(q, e) THEN Segv("queue")
          ELSE \/ state[e] = "MAST" /\ put(delay[e] = 0)
               \/ state[e] = "BACK" /\ put(delay[e] = 0 /\ pri[e] # 0)
               \/ state[e] = "INIT" /\ EnqueueLeftover(q0, e)

\* kill(v->pid, SIGINT): pid 0 is the daemon's own process group
DoKill ==
    /\ At("main", "kill")
    /\ IF pid[ent["main"]] = 0
       THEN up' = "sigint" /\ routers' = {}
       ELSE routers' = routers \ {pid[ent["main"]]} /\ UNCHANGED up
    /\ Advance("main")
    /\ UNCHANGED <<list, attrs, state, pid, npid, wire, flag, q, armed, lock, locals>>

\* sleep(delay), cut short by a signal; any_master_up() == 0 promotes
DoSleep ==
    /\ At("main", "sleep")
    /\ IF \E i \in Vrid : flag[i] THEN Advance("main")
       ELSE Jump("main", "b2m") /\ UNCHANGED ent
    /\ UNCHANGED <<list, attrs, state, procs, wire, flag, q, armed, lock, locals, up>>

DoUnlink ==
    /\ At("main", "unlink")
    /\ live' = live \ {ent["main"]}
    /\ Advance("main")
    /\ UNCHANGED <<used, attrs, state, procs, wire, flag, q, armed, lock, locals, up>>

(***************************************************************************)
(* Instructions of the signal handler only                                 *)
(***************************************************************************)

\* The kernel runs signal_alarm on one of the threads.  An alarm that expires
\* while the handler still runs waits for it (assumed: SIGALRM is blocked on that
\* thread only, but alarms are a second apart).
Deliver(thr) ==
    /\ up = "up" /\ armed /\ hthr = "none"
    /\ armed' = FALSE
    /\ hthr' = thr
    /\ prog' = [prog EXCEPT !["alrm"] = "expire"]
    /\ at' = [at EXCEPT !["alrm"] = 1]
    /\ UNCHANGED <<list, attrs, state, procs, wire, flag, q, lock, ent, locals, up>>

\* vrrp_dequeue: entry = adv_q; with an empty queue the loop is over
DoDequeue ==
    /\ At("alrm", "dequeue")
    /\ ent' = [ent EXCEPT !["alrm"] = q.head]
    /\ more' = FALSE
    /\ IF q.head = NULL
       THEN Jump("alrm", "x_done") /\ nxt' = NULL
       ELSE Jump("alrm", "x_entry") /\ UNCHANGED nxt
    /\ UNCHANGED <<list, attrs, state, procs, wire, flag, q, armed, lock, curr, up>>

\* entry->qnext was cleared just before: it is set only if the main thread, in
\* an unlocked b2m, has set it since.  Whether entry->timeout is 0 depends on the
\* timeouts, which are not modelled here.
DoMore ==
    /\ At("alrm", "more")
    /\ LET n == q.next[ent["alrm"]] IN
       \E zero \in BOOLEAN :
          /\ more' = (n # NULL /\ zero)
          /\ nxt' = IF more' THEN n ELSE nxt
    /\ Advance("alrm")
    /\ UNCHANGED <<list, attrs, state, procs, wire, flag, q, armed, lock, curr, up>>

\* mutant: every state but MASTER takes over
takesOverAny(s) == TRUE

\* the handler advertises for a MASTER and promotes a BACKUP
advertises(s) == s = "MAST"
takesOver(s) == s = "BACK"

\* p->state is read once for MASTER and once more for BACKUP
DoTest ==
    LET s == state[ent["alrm"]] IN
    /\ \/ /\ At("alrm", "is_mast")
          /\ IF advertises(s) THEN Jump("alrm", "x_mast") /\ UNCHANGED ent
             ELSE Advance("alrm")
       \/ /\ At("alrm", "is_back")
          /\ Jump("alrm", IF takesOver(s) THEN "x_back" ELSE "x_none")
          /\ UNCHANGED ent
    /\ UNCHANGED <<list, attrs, state, procs, wire, flag, q, armed, lock, locals, up>>

\* the end of the loop's body; next_entry is not reset between two rounds
DoAgain ==
    /\ At("alrm", "again")
    /\ IF more THEN Jump("alrm", "x_loop") /\ UNCHANGED nxt
       ELSE Jump("alrm", "x_done") /\ nxt' = NULL
    /\ UNCHANGED <<list, attrs, state, procs, wire, flag, q, armed, lock, ent, curr, more, up>>

-----------------------------------------------------------------------------
Command ==
    \/ \E v \in Vr :
         \/ \E p \in CreatePri, d \in ModDelay, m \in BOOLEAN : vrrp_create_inst(v, p, d, m)
         \/ vrrp_startup_inst(v)
         \/ vrrp_shutdown_inst(v)
         \/ \E wild \in BOOLEAN :
              \/ vrrp_destroy_inst(v, wild)
              \/ \E p \in ModPri \cup {UNCHANGE}, d \in ModDelay \cup {UNCHANGE},
                    m \in {UNCHANGE, 0, 1} : vrrp_set_inst_prop(v, wild, p, d, m)
    \/ destroy_missing

Advert == \E i \in Vrid : \/ receive_stop(i)
                         \/ receive_stop_no_instance(i)
                         \/ \E p \in AdvPri : receive_adv(i, p)

Step(t) == \/ DoLock(t) \/ DoUnlock(t) \/ DoState(t) \/ DoFork(t) \/ DoAlarm(t)
           \/ DoSend(t) \/ DoRmqueueStep(t) \/ DoReadHead(t) \/ DoJoin(t)
           \/ DoEnqueueStep(t)

MainStep == \/ Step("main") \/ DoRmqueue \/ DoEnqueue \/ DoRequeue
            \/ DoKill \/ DoSleep \/ DoUnlink

HandlerStep == Step("alrm") \/ DoDequeue \/ DoMore \/ DoTest \/ DoAgain

Next == \/ Command \/ Advert \/ MainStep \/ HandlerStep
        \/ \E thr \in HandlerThreads : Deliver(thr)

Spec == Init /\ [][Next]_vars

-----------------------------------------------------------------------------
(***************************************************************************)
(* Properties                                                              *)
(***************************************************************************)

\* Every variable holds a value of its C type; pids count up to MaxPid.
TypeOK ==
    /\ live \subseteq used /\ used \subseteq Vr
    /\ pri \in [Vr -> 0 .. 255]
    /\ delay \in [Vr -> Nat]
    /\ pree \in [Vr -> BOOLEAN]
    /\ state \in [Vr -> States]
    /\ pid \in [Vr -> 0 .. npid]
    /\ npid \in 0 .. MaxPid
    /\ routers \subseteq 1 .. npid
    /\ wire \in [Vrid -> -1 .. 255]
    /\ flag \in [Vrid -> BOOLEAN]
    /\ q \in Queues
    /\ armed \in BOOLEAN
    /\ lock \in Thread \cup {"free"}
    /\ prog \in [Thread -> Functions]
    /\ at \in [Thread -> Nat] /\ \A t \in Thread : at[t] \in 1 .. Len(Code[prog[t]])
    /\ ent \in [Thread -> Ptr]
    /\ curr \in [Thread -> Ptr \cup {EMPTY}]
    /\ more \in BOOLEAN /\ nxt \in Ptr
    /\ hthr \in {"none", "main", "timer"}
    /\ up \in {"up", "queue", "destroy", "first", "sigint"}

\* between pthread_mutex_lock and pthread_mutex_unlock
Critical(t) ==
    \/ prog[t] \in {"x_loop", "x_entry", "x_mast", "x_back", "x_none", "x_done"}
    \/ \E i \in 1 .. at[t] - 1 :
          /\ Code[prog[t]][i] = "lock"
          /\ \A j \in i .. at[t] - 1 : Code[prog[t]][j] # "unlock"

\* The mutex is held by exactly the thread that is between lock and unlock: no
\* function returns with it, none unlocks what it does not hold, and the handler
\* keeps it through every way it can end.
LockDiscipline == \A t \in Thread : lock = t <=> Critical(t)

AtRest == up = "up" /\ \A t \in Thread : prog[t] = "idle"

\* With a single VR so far, a master that is left alone will send its
\* advertisements: it is the head of the queue and an alarm is pending, whatever alarm met
\* whatever command on the way there.  (An interval of 0 stops the clock.)
SoloMasterServed ==
    \A v \in Vr :
        (used = {v} /\ 0 \notin ModDelay /\ AtRest /\ v \in live /\ state[v] = "MAST")
            => q.head = v /\ armed

\* An instance that was shut down stays in INIT until a command starts it: no
\* alarm that was on its way promotes it again.
ShutdownSticks ==
    [][\A v \in Vr : (state[v] = "INIT" /\ prog["main"] = "idle") => state'[v] = "INIT"]_vars

(***************************************************************************)
(* What the comment on vrrp_state_b2m supposes                             *)
(***************************************************************************)

\* the main thread is in a b2m it called, without the mutex
InB2m == prog["main"] = "b2m" /\ at["main"] > 1

\* "Called in queue mutex, no need to lock" (state.c:126): the handler is never
\* in its critical section while the main thread is in vrrp_state_b2m.
B2mExcludesHandler == ~(InB2m /\ lock = "alrm")

(***************************************************************************)
(* Liveness.  A thread that again and again can go on does: alarms and     *)
(* commands leave the mutex free, and the main thread unfrozen, for most   *)
(* of the time between two of them.  A pending alarm is delivered.         *)
(***************************************************************************)
Fairness == /\ SF_vars(MainStep)
            /\ SF_vars(HandlerStep)
            /\ WF_vars(\E thr \in HandlerThreads : Deliver(thr))

FairSpec == Spec /\ Fairness

\* The alarm has caught the main thread inside its own critical section.
SelfDeadlock == hthr = "main" /\ lock = "main"

\* "infinitely accept commands from vrrpadm and process it" (vrrpd.c:83): every
\* command and advertisement is dealt with and the main thread is back at poll.
CommandsReturn == []<>(prog["main"] = "idle" \/ up # "up")

\* Nothing but that catch keeps the main thread from poll: it never waits for ever
\* for a mutex that the handler on the timer thread, or nobody, holds.
OnlySelfDeadlocks == CommandsReturn \/ <>[]SelfDeadlock

\* With a single VR, an instance that stays MASTER advertises again and again,
\* unless the alarm has caught the main thread inside its own critical section or
\* the handler has run on the timer thread beside an unlocked b2m.
MasterAdvertises ==
    \A v \in Vr : (Vr = {v} /\ 0 \notin ModDelay) =>
        \/ []<>(prog["alrm"] = "x_mast" /\ ent["alrm"] = v)
        \/ []<>(state[v] # "MAST" \/ v \notin live \/ up # "up")
        \/ <>[]SelfDeadlock
        \/ <>(hthr = "timer" /\ ~B2mExcludesHandler)

\* "In backup state the master down timer that fires when adv is not has not
\* been received" (timer.c:2): once advertisements have ceased, a backup does not
\* stay one for ever.
BackupTakesOver ==
    <>[][~Advert]_vars => \A v \in Vr : []<>(state[v] # "BACK" \/ v \notin live \/ up # "up")

(***************************************************************************)
(* What comments say of the daemon and it does not do                      *)
(***************************************************************************)

\* "if it is in MASTER state send SHUTDOWN signal" (vrrpd_impl.c:221): an
\* instance that was removed is no master any more.
RemovedIsNoMaster == AtRest => \A v \in used \ live : state[v] # "MAST"

\* "infinitely accept commands from vrrpadm and process it" (vrrpd.c:83): no
\* command makes the daemon stop itself with the signal meant for a router.
SparesItself == up # "sigint"

\* "hold pid of routing process" (libvrrp.h:218): every router process that runs
\* is remembered by the instance that started it.
RouterIsHeld == AtRest => routers \subseteq {pid[v] : v \in Vr}

\* "the advertisement timer that fires to trigger sending of adv in master state"
\* (timer.c:2): an advertisement that claims the addresses is sent only for an
\* instance that is a MASTER at that moment.
AdvertisesAsMaster ==
    [][\A i \in Vrid : (wire'[i] # wire[i] /\ wire'[i] > 0)
                       => \E v \in Vr : VridOf[v] = i /\ state[v] = "MAST"]_vars

\* "adv_q is a queue of VR running in MASTER & BACUP STATE" (libvrrp.h:203): at
\* rest every instance in one of these states is in the queue.
QueueHoldsRunning == AtRest => \A v \in live : state[v] # "INIT" => v \in Chain(q)
=============================================================================
