-------------------------- MODULE VrrpDaemonProofs --------------------------
(***************************************************************************)
(* Proofs about the daemon, for any priorities, intervals and              *)
(* advertisements, and any bound on the processes.                         *)
(*                                                                         *)
(* The first part is about any number of VRs: types, places in the code,   *)
(* the mutex, and what the handler on the main thread may rely on.         *)
(*                                                                         *)
(* The second part is about a daemon that has allocated one VR: with the   *)
(* alarms handled on the main thread, the master stays in the queue and an *)
(* alarm pending, and the daemon implements VrrpHost.                      *)
(***************************************************************************)
EXTENDS DaemonHost, TLAPS

\* the instruction a thread is at
Op(t) == Code[prog[t]][at[t]]

\* the functions that belong to signal_alarm
HandlerCode == {"expire", "x_loop", "x_entry", "x_mast", "x_back", "x_none", "x_done"}

\* position n of function f is between lock and unlock
Held(f, n) ==
    \/ f \in {"x_loop", "x_entry", "x_mast", "x_back", "x_none", "x_done"}
    \/ \E i \in 1 .. n - 1 :
          /\ Code[f][i] = "lock"
          /\ \A j \in i .. n - 1 : Code[f][j] # "unlock"

(***************************************************************************)
(* Facts about the code, one function at a time                            *)
(***************************************************************************)
\* The functions of the daemon.
LEMMA EachFunction ==
    Functions = {"idle", "i2m", "i2b", "m2i", "b2i", "b2m", "m2b", "kill_mast",
                 "kill_mast_wild", "kill_other", "kill_other_wild", "modify", "modify_wild",
                 "adv_back", "expire", "x_loop", "x_entry", "x_mast", "x_back", "x_none",
                 "x_done"}
BY DEF Functions, Code

LEMMA CodeLength == \A f \in Functions : Len(Code[f]) \in Nat \ {0}
BY EachFunction, SMTT(40) DEF Code

LEMMA FunctionNames ==
    /\ {"idle", "b2m", "i2m", "i2b", "m2i", "b2i", "m2b", "kill_mast", "kill_mast_wild",
        "kill_other", "kill_other_wild", "modify", "modify_wild", "adv_back"} \subseteq Functions
    /\ HandlerCode \subseteq Functions
BY DEF Functions, Code, HandlerCode

\* What comes before an instruction that uses a local, and which instructions do
\* without an entry to work on.
LEMMA CodeOrder ==
    ASSUME NEW f \in Functions, NEW n \in 1 .. Len(Code[f])
    PROVE  /\ Code[f][n] = "join" => n > 1 /\ Code[f][n - 1] = "head"
           /\ Code[f][n] = "inherit" => n > 1 /\ Code[f][n - 1] = "linkback"
           /\ f \in {"idle", "expire", "x_loop", "x_done"} =>
                 Code[f][n] \in {"wait", "lock", "dequeue", "unlock"}
           /\ Code[f][n] = "wait" <=> f = "idle"
<1>1. CASE f = "idle"
  BY <1>1 DEF Code
<1>2. CASE f = "i2m"
  BY <1>2 DEF Code
<1>3. CASE f = "i2b"
  BY <1>3 DEF Code
<1>4. CASE f = "m2i"
  BY <1>4 DEF Code
<1>5. CASE f = "b2i"
  BY <1>5 DEF Code
<1>6. CASE f = "b2m"
  BY <1>6 DEF Code
<1>7. CASE f = "m2b"
  BY <1>7 DEF Code
<1>8. CASE f = "kill_mast"
  BY <1>8 DEF Code
<1>9. CASE f = "kill_mast_wild"
  BY <1>9 DEF Code
<1>10. CASE f = "kill_other"
  BY <1>10 DEF Code
<1>11. CASE f = "kill_other_wild"
  BY <1>11 DEF Code
<1>12. CASE f = "modify"
  BY <1>12 DEF Code
<1>13. CASE f = "modify_wild"
  BY <1>13 DEF Code
<1>14. CASE f = "adv_back"
  BY <1>14 DEF Code
<1>15. CASE f = "expire"
  BY <1>15 DEF Code
<1>16. CASE f = "x_loop"
  BY <1>16 DEF Code
<1>17. CASE f = "x_entry"
  BY <1>17 DEF Code
<1>18. CASE f = "x_mast"
  BY <1>18 DEF Code
<1>19. CASE f = "x_back"
  BY <1>19 DEF Code
<1>20. CASE f = "x_none"
  BY <1>20 DEF Code
<1>21. CASE f = "x_done"
  BY <1>21 DEF Code
<1> QED
  BY <1>1, <1>2, <1>3, <1>4, <1>5, <1>6, <1>7, <1>8, <1>9, <1>10, <1>11,
     <1>12, <1>13, <1>14, <1>15, <1>16, <1>17, <1>18, <1>19, <1>20, <1>21, EachFunction

\* Every unlock is inside a critical section, none is left without one, and the
\* handler leaves a function by a jump except where it unlocks.
LEMMA CodeSections ==
    ASSUME NEW f \in Functions, NEW n \in 1 .. Len(Code[f])
    PROVE  /\ Code[f][n] = "unlock" => Held(f, n)
           /\ (n = Len(Code[f]) /\ f \notin HandlerCode /\ Code[f][n] # "unlock")
                 => ~Held(f, n)
           /\ Code[f][n] = "sleep" => ~Held(f, n) /\ f \notin HandlerCode
           /\ Code[f][n] = "lock" => n < Len(Code[f])
           /\ f \in HandlerCode =>
                 (n = Len(Code[f]) <=> Code[f][n] \in {"dequeue", "is_back", "again", "unlock"})
           /\ Code[f][n] \in {"dequeue", "is_mast", "is_back", "again"}
                 => Held(f, n) /\ f \in HandlerCode
           /\ Code[f][n] \in {"rmqueue", "rmlinked", "enqueue", "enqueue3", "requeue", "kill",
                              "unlink"} => f \notin HandlerCode
<1>1. CASE f = "idle"
  BY <1>1 DEF Code, HandlerCode, Held
<1>2. CASE f = "i2m"
  BY <1>2 DEF Code, HandlerCode, Held
<1>3. CASE f = "i2b"
  BY <1>3 DEF Code, HandlerCode, Held
<1>4. CASE f = "m2i"
  BY <1>4 DEF Code, HandlerCode, Held
<1>5. CASE f = "b2i"
  BY <1>5 DEF Code, HandlerCode, Held
<1>6. CASE f = "b2m"
  BY <1>6 DEF Code, HandlerCode, Held
<1>7. CASE f = "m2b"
  BY <1>7 DEF Code, HandlerCode, Held
<1>8. CASE f = "kill_mast"
  BY <1>8 DEF Code, HandlerCode, Held
<1>9. CASE f = "kill_mast_wild"
  BY <1>9 DEF Code, HandlerCode, Held
<1>10. CASE f = "kill_other"
  BY <1>10 DEF Code, HandlerCode, Held
<1>11. CASE f = "kill_other_wild"
  BY <1>11 DEF Code, HandlerCode, Held
<1>12. CASE f = "modify"
  BY <1>12 DEF Code, HandlerCode, Held
<1>13. CASE f = "modify_wild"
  BY <1>13 DEF Code, HandlerCode, Held
<1>14. CASE f = "adv_back"
  BY <1>14 DEF Code, HandlerCode, Held
<1>15. CASE f = "expire"
  BY <1>15 DEF Code, HandlerCode, Held
<1>16. CASE f = "x_loop"
  BY <1>16 DEF Code, HandlerCode, Held
<1>17. CASE f = "x_entry"
  BY <1>17 DEF Code, HandlerCode, Held
<1>18. CASE f = "x_mast"
  BY <1>18 DEF Code, HandlerCode, Held
<1>19. CASE f = "x_back"
  BY <1>19 DEF Code, HandlerCode, Held
<1>20. CASE f = "x_none"
  BY <1>20 DEF Code, HandlerCode, Held
<1>21. CASE f = "x_done"
  BY <1>21 DEF Code, HandlerCode, Held
<1> QED
  BY <1>1, <1>2, <1>3, <1>4, <1>5, <1>6, <1>7, <1>8, <1>9, <1>10, <1>11,
     <1>12, <1>13, <1>14, <1>15, <1>16, <1>17, <1>18, <1>19, <1>20, <1>21, EachFunction

(***************************************************************************)
(* The type invariant, in two halves: the data and the control.  It is     *)
(* inductive only with what the control says of the locals: a thread in a  *)
(* function that works on an entry has one, and curr is a pointer where it *)
(* is about to be linked to.                                               *)
(***************************************************************************)
Data ==
    /\ live \subseteq used /\ used \subseteq Vr
    /\ pri \in [Vr -> 0 .. 255]
    /\ delay \in [Vr -> Nat]
    /\ pree \in [Vr -> BOOLEAN]
    /\ state \in [Vr -> States]
    /\ pid \in [Vr -> 0 .. npid]
    /\ npid \in 0 .. MaxPid
    /\ routers \subseteq 1 .. npid
    /\ wire \in [Vrid -> -1 .. 255]
    /\ flag \in [Vrid -> BOOLEAN]
    /\ q \in Queues
    /\ armed \in BOOLEAN
    /\ lock \in Thread \cup {"free"}
    /\ more \in BOOLEAN /\ nxt \in Ptr
    /\ up \in {"up", "queue", "destroy", "first", "sigint"}

Places ==
    /\ prog \in [Thread -> Functions]
    /\ at \in [Thread -> Nat] /\ \A t \in Thread : at[t] \in 1 .. Len(Code[prog[t]])
    /\ ent \in [Thread -> Ptr]
    /\ hthr \in {"none", "main", "timer"}
    /\ \A t \in Thread : prog[t] \notin {"idle", "expire", "x_loop", "x_done"} => ent[t] \in Vr

Roles ==
    /\ prog["main"] \notin HandlerCode
    /\ prog["alrm"] \in HandlerCode \cup {"idle"}
    /\ hthr = "none" <=> prog["alrm"] = "idle"

Currs ==
    /\ curr \in [Thread -> Ptr \cup {EMPTY}]
    /\ \A t \in Thread : /\ Op(t) = "join" => curr[t] \in Ptr
                         /\ Op(t) = "inherit" => curr[t] \in Vr \cup {EMPTY}

Control == Places /\ Roles /\ Currs

LEMMA TypeOfHalves == Data /\ Control => TypeOK
BY DEF Data, Control, Places, Currs, TypeOK

\* What an instruction may do to curr.
CurrStep(t) ==
    /\ curr' \in [Thread -> Ptr \cup {EMPTY}]
    /\ \A u \in Thread : u # t => curr'[u] = curr[u]
    /\ Op(t) = "head" => curr'[t] \in Ptr
    /\ Op(t) = "linkback" => curr'[t] \in Vr \cup {EMPTY}

LEMMA AdvanceKeepsControl ==
    ASSUME Control, NEW t \in Thread, Advance(t), CurrStep(t)
    PROVE  Control'
<1> DEFINE n == at[t]
<1>0. "main" \in Thread /\ "alrm" \in Thread /\ Thread = {"main", "alrm"}
  BY DEF Thread
<1>1. /\ prog[t] \in Functions /\ n \in 1 .. Len(Code[prog[t]])
      /\ Len(Code[prog[t]]) \in Nat \ {0}
  BY CodeLength DEF Control, Places
<1>2. /\ prog'[t] = IF Last(t) THEN "idle" ELSE prog[t]
      /\ at'[t] = IF Last(t) THEN 1 ELSE n + 1
      /\ ent'[t] = IF Last(t) THEN NULL ELSE ent[t]
      /\ \A u \in Thread : u # t => prog'[u] = prog[u] /\ at'[u] = at[u] /\ ent'[u] = ent[u]
  BY DEF Advance, Control, Places
<1>3. at'[t] \in 1 .. Len(Code[prog'[t]])
  <2>1. CASE Last(t)
    BY <1>2, <2>1, CodeLength, FunctionNames
  <2>2. CASE ~Last(t)
    BY <1>1, <1>2, <2>2 DEF Last
  <2> QED BY <2>1, <2>2
<1>4. Places'
  <2>1. prog' \in [Thread -> Functions] /\ at' \in [Thread -> Nat] /\ ent' \in [Thread -> Ptr]
    BY FunctionNames DEF Advance, Control, Places, Ptr
  <2>2. hthr' \in {"none", "main", "timer"}
    BY DEF Advance, Control, Places
  <2>3. \A u \in Thread : at'[u] \in 1 .. Len(Code[prog'[u]])
    BY <1>2, <1>3 DEF Control, Places
  <2>4. \A u \in Thread :
            prog'[u] \notin {"idle", "expire", "x_loop", "x_done"} => ent'[u] \in Vr
    BY <1>2 DEF Control, Places
  <2> QED BY <2>1, <2>2, <2>3, <2>4 DEF Places
<1>5. Roles'
  BY <1>0, <1>2 DEF Advance, Control, Roles, HandlerCode
<1>6. Currs'
  <2>1. ASSUME NEW u \in Thread, u # t
        PROVE  /\ Op(u)' = "join" => curr'[u] \in Ptr
               /\ Op(u)' = "inherit" => curr'[u] \in Vr \cup {EMPTY}
    BY <1>2, <2>1 DEF Control, Currs, CurrStep, Op
  <2>2. /\ Op(t)' = "join" => curr'[t] \in Ptr
        /\ Op(t)' = "inherit" => curr'[t] \in Vr \cup {EMPTY}
    <3>1. CASE Last(t)
      <4>1. Op(t)' = "wait"
        BY <1>2, <3>1 DEF Op, Code
      <4> QED BY <4>1
    <3>2. CASE ~Last(t)
      <4>1. prog'[t] = prog[t] /\ at'[t] = n + 1 /\ n + 1 \in 1 .. Len(Code[prog[t]])
        BY <1>2, <1>3, <3>2
      <4>2. /\ Code[prog[t]][n + 1] = "join" => Code[prog[t]][n] = "head"
            /\ Code[prog[t]][n + 1] = "inherit" => Code[prog[t]][n] = "linkback"
        BY <1>1, <4>1, CodeOrder
      <4> QED BY <4>1, <4>2 DEF Op, CurrStep
    <3> QED BY <3>1, <3>2
  <2> QED BY <2>1, <2>2 DEF Currs, CurrStep
<1> QED BY <1>4, <1>5, <1>6 DEF Control

\* Entering function f at its first instruction.
LEMMA EnterKeepsControl ==
    ASSUME Control, NEW t \in Thread, NEW f \in Functions,
           prog' = [prog EXCEPT ![t] = f], at' = [at EXCEPT ![t] = 1],
           ent' \in [Thread -> Ptr], \A u \in Thread : u # t => ent'[u] = ent[u],
           f \notin {"idle", "expire", "x_loop", "x_done"} => ent'[t] \in Vr,
           curr' = curr, hthr' \in {"none", "main", "timer"},
           t = "main" => f \notin HandlerCode /\ hthr' = hthr,
           t = "alrm" => f \in HandlerCode /\ hthr' # "none"
    PROVE  Control'
<1>0. "main" \in Thread /\ "alrm" \in Thread /\ Thread = {"main", "alrm"}
  BY DEF Thread
<1>1. /\ prog'[t] = f /\ at'[t] = 1
      /\ \A u \in Thread : u # t => prog'[u] = prog[u] /\ at'[u] = at[u]
  BY DEF Control, Places
<1>2. 1 \in 1 .. Len(Code[f])
  BY CodeLength
<1>3. Places'
  <2>1. prog' \in [Thread -> Functions] /\ at' \in [Thread -> Nat]
    BY DEF Control, Places
  <2>2. \A u \in Thread : at'[u] \in 1 .. Len(Code[prog'[u]])
    BY <1>1, <1>2 DEF Control, Places
  <2>3. \A u \in Thread :
            prog'[u] \notin {"idle", "expire", "x_loop", "x_done"} => ent'[u] \in Vr
    BY <1>1 DEF Control, Places
  <2> QED BY <2>1, <2>2, <2>3 DEF Places
<1>4. Roles'
  BY <1>0, <1>1 DEF Control, Roles, HandlerCode
<1>5. Currs'
  <2>1. Op(t)' = Code[f][1] /\ Code[f][1] # "join" /\ Code[f][1] # "inherit"
    BY <1>1, <1>2, CodeOrder DEF Op
  <2>2. \A u \in Thread : u # t => Op(u)' = Op(u)
    BY <1>1 DEF Op
  <2> QED BY <2>1, <2>2 DEF Control, Currs
<1> QED BY <1>3, <1>4, <1>5 DEF Control

\* The entry an instruction works on is a VR.
LEMMA EntryIsVr ==
    ASSUME Control, NEW t \in Thread, Op(t) \notin {"wait", "lock", "dequeue", "unlock"}
    PROVE  ent[t] \in Vr
BY CodeOrder DEF Control, Places, Op

LEMMA SameCurr ==
    ASSUME Control, NEW t \in Thread, curr' = curr, Op(t) \notin {"head", "linkback"}
    PROVE  CurrStep(t)
BY DEF Control, Currs, CurrStep

(***************************************************************************)
(* Queue assignments keep the queue a queue                                *)
(***************************************************************************)
LEMMA QueueTypes ==
    ASSUME NEW qq \in Queues, NEW e \in Vr
    PROVE  /\ bypassEntry(qq, e) \in Queues
           /\ relinkSuccessor(qq, e) \in Queues
           /\ clearNext(qq, e) \in Queues
           /\ clearPrev(qq, e) \in Queues
           /\ setHead(qq, e) \in Queues
           /\ \A c \in Ptr : linkBefore(qq, e, c) \in Queues
           /\ \A c \in Vr : linkBack(qq, e, c) \in Queues /\ inheritPrev(qq, e, c) \in Queues
           /\ \A c : publish(qq, e, c) \in Queues
<1>1. bypassEntry(qq, e) \in Queues /\ relinkSuccessor(qq, e) \in Queues
  BY DEF bypassEntry, relinkSuccessor, Queues, Ptr
<1>2. clearNext(qq, e) \in Queues /\ clearPrev(qq, e) \in Queues /\ setHead(qq, e) \in Queues
  BY DEF clearNext, clearPrev, setHead, Queues, Ptr
<1>3. \A c \in Ptr : linkBefore(qq, e, c) \in Queues
  BY DEF linkBefore, Queues, Ptr
<1>4. \A c \in Vr : linkBack(qq, e, c) \in Queues /\ inheritPrev(qq, e, c) \in Queues
  BY DEF linkBack, inheritPrev, Queues, Ptr
<1>5. \A c : publish(qq, e, c) \in Queues
  BY <1>2 DEF publish, Queues, Ptr
<1> QED BY <1>1, <1>2, <1>3, <1>4, <1>5

LEMMA CallTypes ==
    ASSUME NEW qq \in Queues, NEW e \in Vr
    PROVE  /\ vrrp_rmqueue_impl(qq, e) \in Queues /\ vrrp_enqueue_impl(qq, e) \in Queues
           /\ \A c \in Vr : enqueueBefore(qq, e, c) \in Queues
<1>1. vrrp_rmqueue_impl(qq, e) \in Queues
  BY QueueTypes DEF vrrp_rmqueue_impl
<1>4. ASSUME NEW c \in Vr PROVE enqueueBefore(qq, e, c) \in Queues
  <2> DEFINE q1 == linkBefore(qq, e, c)
             q2 == linkBack(q1, e, c)
             q3 == inheritPrev(q2, e, c)
  <2>1. q1 \in Queues
    BY <1>4, QueueTypes DEF Ptr
  <2> HIDE DEF q1
  <2>2. q2 \in Queues
    BY <1>4, <2>1, QueueTypes
  <2> HIDE DEF q2
  <2>3. q3 \in Queues
    BY <1>4, <2>2, QueueTypes
  <2> HIDE DEF q3
  <2>4. publish(q3, e, c) \in Queues
    BY <2>3, QueueTypes
  <2> QED BY <2>4 DEF q1, q2, q3, enqueueBefore
<1>2. CASE qq.head = NULL
  <2>1. setHead(qq, e) \in Queues
    BY QueueTypes
  <2>2. clearPrev(setHead(qq, e), e) \in Queues
    BY <2>1, QueueTypes
  <2> QED BY <1>1, <1>2, <1>4, <2>2 DEF vrrp_enqueue_impl
<1>3. CASE qq.head # NULL
  <2>1. qq.head \in Vr
    BY <1>3 DEF Queues, Ptr
  <2> QED BY <1>1, <1>3, <1>4, <2>1 DEF vrrp_enqueue_impl
<1> QED BY <1>1, <1>2, <1>3, <1>4

(***************************************************************************)
(* Commands and advertisements                                             *)
(***************************************************************************)
LEMMA CallKeepsControl ==
    ASSUME Control, NEW f \in Functions \ HandlerCode, NEW v \in Vr, Call(f, v)
    PROVE  Control'
<1>1. "main" \in Thread
  BY DEF Thread
<1>2. ent' \in [Thread -> Ptr] /\ ent'["main"] = v
      /\ \A u \in Thread : u # "main" => ent'[u] = ent[u]
  BY <1>1 DEF Call, Control, Places, Ptr
<1> QED BY <1>1, <1>2, EnterKeepsControl DEF Call, Jump, Control, Places, locals

LEMMA SameControl ==
    ASSUME Control, UNCHANGED threads
    PROVE  Control'
BY DEF Control, Places, Roles, Currs, Op, threads, locals

LEMMA CreateKeeps ==
    ASSUME Data, Control, NEW v \in Vr, NEW p \in CreatePri, NEW d \in ModDelay,
           NEW m \in BOOLEAN, vrrp_create_inst(v, p, d, m)
    PROVE  Data' /\ Control'
<1>1. Control'
  BY CallKeepsControl, SameControl, FunctionNames DEF vrrp_create_inst, HandlerCode
<1>2. more' = more /\ nxt' = nxt
  BY DEF vrrp_create_inst, Call, threads, locals
<1>3. Data'
  BY <1>2, DaemonAssumption DEF vrrp_create_inst, Data, procs
<1> QED BY <1>1, <1>3

LEMMA StartupKeeps ==
    ASSUME Data, Control, NEW v \in Vr, vrrp_startup_inst(v)
    PROVE  Data' /\ Control'
<1>1. Control'
  BY CallKeepsControl, FunctionNames DEF vrrp_startup_inst, HandlerCode
<1>2. Data'
  BY DEF vrrp_startup_inst, Call, Data, list, attrs, procs, locals
<1> QED BY <1>1, <1>2

LEMMA ShutdownKeeps ==
    ASSUME Data, Control, NEW v \in Vr, vrrp_shutdown_inst(v)
    PROVE  Data' /\ Control'
<1>1. Control'
  BY CallKeepsControl, FunctionNames DEF vrrp_shutdown_inst, HandlerCode
<1>2. Data'
  BY DEF vrrp_shutdown_inst, Call, Data, list, attrs, procs, locals
<1> QED BY <1>1, <1>2

LEMMA DestroyKeeps ==
    ASSUME Data, Control, NEW v \in Vr, NEW wild \in BOOLEAN, vrrp_destroy_inst(v, wild)
    PROVE  Data' /\ Control'
<1>1. \E f \in {"kill_mast_wild", "kill_mast", "kill_other_wild", "kill_other"} : Call(f, v)
  BY DEF vrrp_destroy_inst
<1>2. Control'
  BY <1>1, CallKeepsControl, FunctionNames DEF HandlerCode
<1>3. Data'
  BY <1>1 DEF vrrp_destroy_inst, Call, Data, list, attrs, procs, locals
<1> QED BY <1>2, <1>3

LEMMA SegvKeeps ==
    ASSUME Data, Control, NEW w \in {"queue", "destroy", "first"}, Segv(w)
    PROVE  Data' /\ Control'
<1>1. Control'
  BY SameControl DEF Segv
<1>2. Data'
  BY DEF Segv, Data, list, attrs, procs, threads, locals
<1> QED BY <1>1, <1>2

LEMMA ModifyKeeps ==
    ASSUME Data, Control, NEW v \in Vr, NEW wild \in BOOLEAN, NEW p \in ModPri \cup {UNCHANGE},
           NEW d \in ModDelay \cup {UNCHANGE}, NEW m \in {UNCHANGE, 0, 1},
           vrrp_set_inst_prop(v, wild, p, d, m)
    PROVE  Data' /\ Control'
<1>1. \/ \E f \in {"modify", "modify_wild"} : Call(f, v)
      \/ UNCHANGED threads
  BY DEF vrrp_set_inst_prop
<1>2. Control'
  BY <1>1, CallKeepsControl, SameControl, FunctionNames DEF HandlerCode
<1>3. more' = more /\ nxt' = nxt
  BY <1>1 DEF Call, threads, locals
<1>4. pri' \in [Vr -> 0 .. 255]
  <2>1. p # UNCHANGE => p % 256 \in 0 .. 255
    BY DaemonAssumption
  <2>2. pri' = [pri EXCEPT ![v] = IF p = UNCHANGE THEN @ ELSE p % 256]
    BY DEF vrrp_set_inst_prop, priority
  <2> QED BY <2>1, <2>2 DEF Data
<1>5. delay' \in [Vr -> Nat]
  BY DaemonAssumption DEF vrrp_set_inst_prop, Data
<1>6. pree' \in [Vr -> BOOLEAN]
  BY DEF vrrp_set_inst_prop, Data
<1>7. Data'
  BY <1>3, <1>4, <1>5, <1>6 DEF vrrp_set_inst_prop, Data, list, procs
<1> QED BY <1>2, <1>7

LEMMA AdvertKeeps ==
    ASSUME Data, Control, Advert
    PROVE  Data' /\ Control'
<1>1. ASSUME NEW i \in Vrid, receive_stop(i) PROVE Data' /\ Control'
  <2>1. (\E v \in Vr : Call("b2m", v)) \/ UNCHANGED threads
    BY <1>1 DEF receive_stop, Data
  <2>2. Control'
    BY <2>1, CallKeepsControl, SameControl, FunctionNames DEF HandlerCode
  <2>3. more' = more /\ nxt' = nxt
    BY <2>1 DEF Call, threads, locals
  <2>4. Data'
    BY <1>1, <2>3 DEF receive_stop, Data, list, attrs, procs
  <2> QED BY <2>2, <2>4
<1>2. ASSUME NEW i \in Vrid, receive_stop_no_instance(i) PROVE Data' /\ Control'
  BY <1>2, SegvKeeps DEF receive_stop_no_instance
<1>3. ASSUME NEW i \in Vrid, NEW p \in AdvPri, receive_adv(i, p) PROVE Data' /\ Control'
  <2>1. (\E v \in Vr, f \in {"adv_back", "m2b"} : Call(f, v)) \/ UNCHANGED threads
    BY <1>3 DEF receive_adv, Data
  <2>2. Control'
    BY <2>1, CallKeepsControl, SameControl, FunctionNames DEF HandlerCode
  <2>3. more' = more /\ nxt' = nxt
    BY <2>1 DEF Call, threads, locals
  <2>4. Data'
    BY <1>3, <2>3 DEF receive_adv, Data, list, attrs, procs
  <2> QED BY <2>2, <2>4
<1> QED BY <1>1, <1>2, <1>3 DEF Advert

LEMMA CommandKeeps ==
    ASSUME Data, Control, Command
    PROVE  Data' /\ Control'
BY CreateKeeps, StartupKeeps, ShutdownKeeps, DestroyKeeps, ModifyKeeps, SegvKeeps
   DEF Command, destroy_missing

(***************************************************************************)
(* Instructions                                                            *)
(***************************************************************************)

\* An instruction that leaves curr alone keeps the control.
LEMMA PlainStep ==
    ASSUME Control, NEW t \in Thread, NEW op, op \notin {"head", "linkback"},
           At(t, op), Advance(t), curr' = curr
    PROVE  Control'
BY SameCurr, AdvanceKeepsControl DEF At, Op

LEMMA LockKeeps ==
    ASSUME Data, Control, NEW t \in Thread, DoLock(t) \/ DoUnlock(t)
    PROVE  Data' /\ Control'
<1>1. Control'
  BY PlainStep DEF DoLock, DoUnlock, locals
<1>2. lock' \in Thread \cup {"free"}
  BY DEF DoLock, DoUnlock
<1>3. UNCHANGED <<list, attrs, state, procs, wire, flag, q, armed, locals, up>>
  BY DEF DoLock, DoUnlock
<1>4. Data'
  BY <1>2, <1>3 DEF Data, list, attrs, procs, locals
<1> QED BY <1>1, <1>4

LEMMA StateKeeps ==
    ASSUME Data, Control, NEW t \in Thread, DoState(t)
    PROVE  Data' /\ Control'
<1>1. PICK op \in {"mast", "back", "init"}, st \in States : SetState(t, op, st)
  BY DEF DoState, States
<1>2. Control'
  BY <1>1, PlainStep DEF DoState, SetState, locals
<1>3. Data'
  BY <1>1 DEF DoState, SetState, Data, list, attrs, procs, locals
<1> QED BY <1>2, <1>3

LEMMA ForkKeeps ==
    ASSUME Data, Control, NEW t \in Thread, DoFork(t)
    PROVE  Data' /\ Control'
<1>1. Control'
  BY PlainStep DEF DoFork, locals
<1>2. ent[t] \in Vr
  BY EntryIsVr DEF DoFork, At, Op
<1>3. pid' \in [Vr -> 0 .. npid'] /\ npid' \in 0 .. MaxPid /\ routers' \subseteq 1 .. npid'
  <2>1. CASE UNCHANGED procs
    BY <2>1 DEF Data, procs
  <2>2. CASE /\ npid < MaxPid /\ npid' = npid + 1
             /\ pid' = [pid EXCEPT ![ent[t]] = npid']
             /\ routers' = routers \cup {npid'}
    <3>1. npid \in Nat /\ MaxPid \in Nat /\ npid' \in 0 .. MaxPid
      BY <2>2, DaemonAssumption DEF Data
    <3>2. pid' \in [Vr -> 0 .. npid']
      BY <2>2, <3>1, <1>2 DEF Data
    <3>3. routers' \subseteq 1 .. npid'
      BY <2>2, <3>1 DEF Data
    <3> QED BY <3>1, <3>2, <3>3
  <2> QED BY <2>1, <2>2 DEF DoFork
<1>4. Data'
  BY <1>3 DEF DoFork, Data, list, attrs, locals
<1> QED BY <1>1, <1>4

LEMMA AlarmKeeps ==
    ASSUME Data, Control, NEW t \in Thread, DoAlarm(t)
    PROVE  Data' /\ Control'
<1>1. Control'
  BY PlainStep DEF DoAlarm, locals
<1>2. armed' \in BOOLEAN
  <2>1. ent[t] \in Vr
    BY EntryIsVr DEF DoAlarm, At, Op
  <2>2. \A v \in Vr : (delay[v] > 0) \in BOOLEAN
    BY DEF Data
  <2>3. \E v \in Vr : armed' = (delay[v] > 0)
    BY <2>1 DEF DoAlarm, Data, Ptr
  <2> QED BY <2>2, <2>3
<1>3. UNCHANGED <<list, attrs, state, procs, wire, flag, q, lock, locals, up>>
  BY DEF DoAlarm
<1>4. Data'
  BY <1>2, <1>3 DEF Data, list, attrs, procs, locals
<1> QED BY <1>1, <1>4

LEMMA SendKeeps ==
    ASSUME Data, Control, NEW t \in Thread, DoSend(t)
    PROVE  Data' /\ Control'
<1>1. Control'
  BY PlainStep DEF DoSend, vrrp_send_adv, CreateVRRPHeader, locals
<1>2. ent[t] \in Vr
  BY EntryIsVr DEF DoSend, vrrp_send_adv, CreateVRRPHeader, At, Op
<1>3. VridOf[ent[t]] \in Vrid /\ pri[ent[t]] \in 0 .. 255
  BY <1>2, DaemonAssumption DEF Data
<1>4. wire' \in [Vrid -> -1 .. 255]
  BY <1>3 DEF DoSend, vrrp_send_adv, CreateVRRPHeader, Data
<1>5. Data'
  BY <1>4 DEF DoSend, vrrp_send_adv, CreateVRRPHeader, Data, list, attrs, procs, locals
<1> QED BY <1>1, <1>5

\* A queue assignment, or the crash in its place.
LEMMA QueueStepKeeps ==
    ASSUME Data, Control, NEW t \in Thread, NEW op, NEW qq, NEW crash \in BOOLEAN,
           QueueStep(t, op, qq, crash), op # "head",
           ~crash => qq \in Queues,
           ~crash /\ op = "linkback" => curr[t] \in Vr \cup {EMPTY}
    PROVE  Data' /\ Control'
<1>1. CASE crash
  BY <1>1, SegvKeeps DEF QueueStep
<1>2. CASE ~crash
  <2>1. CurrStep(t)
    <3>1. curr' = [curr EXCEPT ![t] = IF op = "publish" THEN NULL ELSE @] /\ Op(t) = op
      BY <1>2 DEF QueueStep, At, Op
    <3> QED BY <3>1, <1>2 DEF CurrStep, Control, Currs, Ptr
  <2>2. Control'
    BY <1>2, <2>1, AdvanceKeepsControl DEF QueueStep
  <2>3. q' \in Queues
    BY <1>2 DEF QueueStep
  <2>4. UNCHANGED <<list, attrs, state, procs, wire, flag, armed, lock, more, nxt, up>>
    BY <1>2 DEF QueueStep
  <2>5. Data'
    BY <2>3, <2>4 DEF Data, list, attrs, procs
  <2> QED BY <2>2, <2>5
<1> QED BY <1>1, <1>2

LEMMA RmqueueStepKeeps ==
    ASSUME Data, Control, NEW t \in Thread, DoRmqueueStep(t)
    PROVE  Data' /\ Control'
<1>1. ent[t] \in Vr /\ q \in Queues
  BY EntryIsVr DEF DoRmqueueStep, QueueStep, At, Op, Data
<1>2. RelinkCrashes(q, ent[t]) \in BOOLEAN
  BY DEF RelinkCrashes
<1>3. /\ bypassEntry(q, ent[t]) \in Queues /\ relinkSuccessor(q, ent[t]) \in Queues
      /\ clearNext(q, ent[t]) \in Queues /\ clearPrev(q, ent[t]) \in Queues
  BY <1>1, QueueTypes
<1>4. CASE QueueStep(t, "bypass", bypassEntry(q, ent[t]), FALSE)
  BY <1>3, <1>4, QueueStepKeeps
<1>5. CASE QueueStep(t, "relink", relinkSuccessor(q, ent[t]), RelinkCrashes(q, ent[t]))
  BY <1>2, <1>3, <1>5, QueueStepKeeps
<1>6. CASE QueueStep(t, "clrnext", clearNext(q, ent[t]), FALSE)
  BY <1>3, <1>6, QueueStepKeeps
<1>7. CASE QueueStep(t, "clrprev", clearPrev(q, ent[t]), FALSE)
  BY <1>3, <1>7, QueueStepKeeps
<1> QED BY <1>4, <1>5, <1>6, <1>7 DEF DoRmqueueStep

LEMMA ArmedType ==
    ASSUME Data, NEW qq, NEW zero, NEW x \in ArmedAfter(qq, zero)
    PROVE  x \in BOOLEAN
BY DEF Data, ArmedAfter

LEMMA ReadHeadKeeps ==
    ASSUME Data, Control, NEW t \in Thread, DoReadHead(t)
    PROVE  Data' /\ Control'
<1>1. curr' = [curr EXCEPT ![t] = q.head] /\ Op(t) = "head" /\ q.head \in Ptr
  BY DEF DoReadHead, At, Op, Data, Queues
<1>2. CurrStep(t)
  BY <1>1 DEF CurrStep, Control, Currs
<1>3. Control'
  BY <1>2, AdvanceKeepsControl DEF DoReadHead
<1>4. armed' \in BOOLEAN
  BY ArmedType DEF DoReadHead
<1>5. Data'
  BY <1>4 DEF DoReadHead, Data, list, attrs, procs
<1> QED BY <1>3, <1>5

LEMMA JoinKeeps ==
    ASSUME Data, Control, NEW t \in Thread, DoJoin(t)
    PROVE  Data' /\ Control'
<1>1. Op(t) = "join" /\ ent[t] \in Vr
  BY EntryIsVr DEF DoJoin, At, Op
<1>2. curr[t] \in Ptr
  BY <1>1 DEF Control, Currs
<1>3. CurrStep(t)
  BY <1>1 DEF DoJoin, CurrStep, Control, Currs
<1>4. Control'
  BY <1>3, AdvanceKeepsControl DEF DoJoin
<1>5. q' \in Queues
  BY <1>1, <1>2, QueueTypes DEF DoJoin, Data
<1>6. Data'
  BY <1>5 DEF DoJoin, Data, list, attrs, procs
<1> QED BY <1>4, <1>6

LEMMA EnqueueStepKeeps ==
    ASSUME Data, Control, NEW t \in Thread, DoEnqueueStep(t)
    PROVE  Data' /\ Control'
<1> DEFINE e == ent[t]
           c == curr[t]
           qback == IF c = EMPTY THEN q ELSE linkBack(q, e, c)
           qprev == IF c = EMPTY THEN q ELSE inheritPrev(q, e, c)
           qpub == IF c = EMPTY THEN clearPrev(q, e) ELSE publish(q, e, c)
           crash == c # EMPTY /\ c # q.head /\ q.prev[e] = NULL
<1>1. e \in Vr /\ q \in Queues /\ c \in Ptr \cup {EMPTY}
  BY EntryIsVr DEF DoEnqueueStep, QueueStep, At, Op, Data, Control, Currs
<1>2. CASE QueueStep(t, "linkback", qback, c = NULL)
  <2>1. c # NULL => c \in Vr \cup {EMPTY}
    BY <1>1 DEF Ptr
  <2>2. c # NULL => qback \in Queues
    BY <1>1, <2>1, QueueTypes
  <2>3. (c = NULL) \in BOOLEAN
    OBVIOUS
  <2> QED BY <1>2, <2>1, <2>2, <2>3, QueueStepKeeps
<1>3. CASE QueueStep(t, "inherit", qprev, FALSE)
  <2>1. c \in Vr \cup {EMPTY}
    BY <1>3 DEF QueueStep, At, Op, Control, Currs
  <2>2. qprev \in Queues
    BY <1>1, <2>1, QueueTypes
  <2> QED BY <1>3, <2>2, QueueStepKeeps
<1>4. CASE QueueStep(t, "publish", qpub, crash)
  <2>1. qpub \in Queues
    BY <1>1, QueueTypes
  <2>2. crash \in BOOLEAN
    OBVIOUS
  <2> QED BY <1>4, <2>1, <2>2, QueueStepKeeps
<1> QED BY <1>2, <1>3, <1>4 DEF DoEnqueueStep

LEMMA StepKeeps ==
    ASSUME Data, Control, NEW t \in Thread, Step(t)
    PROVE  Data' /\ Control'
BY LockKeeps, StateKeeps, ForkKeeps, AlarmKeeps, SendKeeps, RmqueueStepKeeps, ReadHeadKeeps,
   JoinKeeps, EnqueueStepKeeps DEF Step

LEMMA RmqueueKeeps ==
    ASSUME Data, Control, DoRmqueue
    PROVE  Data' /\ Control'
<1> DEFINE e == ent["main"]
           qq == IF Linked(q, e) THEN vrrp_rmqueue_impl(q, e) ELSE q
<1>1. "main" \in Thread
  BY DEF Thread
<1>2. e \in Vr /\ q \in Queues
  BY <1>1, EntryIsVr DEF DoRmqueue, QueueStep, At, Op, Data
<1>3. vrrp_rmqueue_impl(q, e) \in Queues /\ qq \in Queues
  BY <1>2, CallTypes
<1>4. RmqueueCrashes(q, e) \in BOOLEAN
  BY DEF RmqueueCrashes, RelinkCrashes
<1>5. CASE QueueStep("main", "rmqueue", vrrp_rmqueue_impl(q, e), RmqueueCrashes(q, e))
  BY <1>1, <1>3, <1>4, <1>5, QueueStepKeeps
<1>6. CASE QueueStep("main", "rmlinked", qq, RmqueueCrashes(q, e))
  BY <1>1, <1>3, <1>4, <1>6, QueueStepKeeps
<1> QED BY <1>5, <1>6 DEF DoRmqueue

LEMMA MainEnqueueKeeps ==
    ASSUME Data, Control, NEW op \in {"enqueue", "enqueue3", "requeue"}, NEW qq \in Queues,
           NEW clocks \in SUBSET BOOLEAN, MainEnqueue(op, qq, clocks)
    PROVE  Data' /\ Control'
<1>1. "main" \in Thread
  BY DEF Thread
<1>2. Control'
  BY <1>1, PlainStep DEF MainEnqueue, locals
<1>3. armed' \in BOOLEAN
  BY DEF MainEnqueue
<1>4. Data'
  BY <1>3 DEF MainEnqueue, Data, list, attrs, procs, locals
<1> QED BY <1>2, <1>4

LEMMA EnqueueKeeps ==
    ASSUME Data, Control, DoEnqueue
    PROVE  Data' /\ Control'
<1>1. "main" \in Thread
  BY DEF Thread
<1>2. ent["main"] \in Vr /\ q \in Queues
  BY <1>1, EntryIsVr DEF DoEnqueue, MainEnqueue, At, Op, Data
<1>3. vrrp_enqueue_impl(q, ent["main"]) \in Queues
  BY <1>2, CallTypes
<1>4. \A z : ArmedAfter(q, z) \in SUBSET BOOLEAN
  BY ArmedType
<1> QED BY <1>3, <1>4, MainEnqueueKeeps DEF DoEnqueue

\* What vrrp_set_inst_prop may do to queue and clock.
LEMMA RequeueCases ==
    ASSUME DoRequeue
    PROVE  \/ MainEnqueue("requeue", q, {armed})
           \/ Segv("queue") /\ Runs("main")
           \/ \E z : MainEnqueue("requeue",
                                vrrp_enqueue_impl(vrrp_rmqueue_impl(q, ent["main"]), ent["main"]),
                                ArmedAfter(vrrp_rmqueue_impl(q, ent["main"]), z))
           \/ MainEnqueue("requeue",
                          vrrp_enqueue_impl(vrrp_rmqueue_impl(q, ent["main"]), ent["main"]),
                          BOOLEAN)
           \/ \E c \in Vr : MainEnqueue("requeue",
                                enqueueBefore(vrrp_rmqueue_impl(q, ent["main"]), ent["main"], c),
                                BOOLEAN)
BY DEF DoRequeue, EnqueueLeftover, Chain, At

LEMMA RequeueKeeps ==
    ASSUME Data, Control, DoRequeue
    PROVE  Data' /\ Control'
<1> DEFINE e == ent["main"]
           q0 == vrrp_rmqueue_impl(q, e)
<1>1. "main" \in Thread
  BY DEF Thread
<1>2. e \in Vr /\ q \in Queues
  BY <1>1, EntryIsVr DEF DoRequeue, At, Op, Data
<1>3. /\ q0 \in Queues /\ vrrp_enqueue_impl(q0, e) \in Queues
      /\ \A c \in Vr : enqueueBefore(q0, e, c) \in Queues
  BY <1>2, CallTypes
<1>4. {armed} \in SUBSET BOOLEAN /\ \A z : ArmedAfter(q0, z) \in SUBSET BOOLEAN
  BY ArmedType DEF Data
<1> HIDE DEF q0
<1>5. \/ MainEnqueue("requeue", q, {armed})
      \/ Segv("queue")
      \/ \E z : MainEnqueue("requeue", vrrp_enqueue_impl(q0, e), ArmedAfter(q0, z))
      \/ MainEnqueue("requeue", vrrp_enqueue_impl(q0, e), BOOLEAN)
      \/ \E c \in Vr : MainEnqueue("requeue", enqueueBefore(q0, e, c), BOOLEAN)
  BY RequeueCases DEF q0
<1> QED BY <1>2, <1>3, <1>4, <1>5, MainEnqueueKeeps, SegvKeeps

LEMMA KillKeeps ==
    ASSUME Data, Control, DoKill
    PROVE  Data' /\ Control'
<1>1. Control'
  BY PlainStep DEF DoKill, locals, Thread
<1>2. routers' \subseteq 1 .. npid /\ up' \in {"up", "queue", "destroy", "first", "sigint"}
  BY DEF DoKill, Data
<1>3. Data'
  BY <1>2 DEF DoKill, Data, list, attrs, locals
<1> QED BY <1>1, <1>3

LEMMA SleepKeeps ==
    ASSUME Data, Control, DoSleep
    PROVE  Data' /\ Control'
<1>1. "main" \in Thread
  BY DEF Thread
<1>2. Data'
  BY DEF DoSleep, Data, list, attrs, procs, locals
<1>3. CASE Advance("main")
  BY <1>1, <1>2, <1>3, PlainStep DEF DoSleep, locals
<1>4. CASE Jump("main", "b2m") /\ UNCHANGED ent
  <2>1. ent["main"] \in Vr
    BY <1>1, EntryIsVr DEF DoSleep, At, Op
  <2>2. curr' = curr /\ "b2m" \in Functions /\ "b2m" \notin HandlerCode
    BY FunctionNames DEF DoSleep, locals, HandlerCode
  <2>3. Control'
    BY <1>1, <1>4, <2>1, <2>2, EnterKeepsControl DEF Jump, Control, Places
  <2> QED BY <1>2, <2>3
<1> QED BY <1>3, <1>4 DEF DoSleep

LEMMA UnlinkKeeps ==
    ASSUME Data, Control, DoUnlink
    PROVE  Data' /\ Control'
<1>1. Control'
  BY PlainStep DEF DoUnlink, locals, Thread
<1>2. Data'
  BY DEF DoUnlink, Data, attrs, procs, locals
<1> QED BY <1>1, <1>2

\* The handler goes to another of its functions.
LEMMA JumpKeeps ==
    ASSUME Control, NEW f \in HandlerCode, Jump("alrm", f), curr' = curr,
           prog["alrm"] # "idle",
           ent' \in [Thread -> Ptr], ent'["main"] = ent["main"],
           f \notin {"expire", "x_loop", "x_done"} => ent'["alrm"] \in Vr
    PROVE  Control'
<1>1. "alrm" \in Thread /\ \A u \in Thread : u # "alrm" => ent'[u] = ent[u]
  BY DEF Thread
<1>2. hthr' = hthr /\ hthr # "none" /\ hthr \in {"none", "main", "timer"}
  BY DEF Jump, Control, Roles, Places
<1> QED BY <1>1, <1>2, FunctionNames, EnterKeepsControl DEF Jump

LEMMA NotIdle ==
    ASSUME Control, NEW t \in Thread, Op(t) # "wait"
    PROVE  prog[t] # "idle"
BY CodeOrder DEF Control, Places, Op

LEMMA DeliverKeeps ==
    ASSUME Data, Control, NEW thr \in HandlerThreads, Deliver(thr)
    PROVE  Data' /\ Control'
<1>1. "alrm" \in Thread /\ "expire" \in Functions /\ "expire" \in HandlerCode
  BY FunctionNames DEF Thread, HandlerCode
<1>2. hthr' \in {"main", "timer"} /\ ent' = ent /\ curr' = curr
  BY DaemonAssumption DEF Deliver, locals
<1>3. Control'
  BY <1>1, <1>2, EnterKeepsControl DEF Deliver, Control, Places
<1>4. Data'
  BY DEF Deliver, Data, list, attrs, procs, locals
<1> QED BY <1>3, <1>4

LEMMA DequeueKeeps ==
    ASSUME Data, Control, DoDequeue
    PROVE  Data' /\ Control'
<1>1. "alrm" \in Thread /\ "main" \in Thread
  BY DEF Thread
<1>2. q.head \in Ptr
  BY DEF Data, Queues
<1>3. ent' \in [Thread -> Ptr] /\ ent'["main"] = ent["main"] /\ ent'["alrm"] = q.head
  BY <1>1, <1>2 DEF DoDequeue, Control, Places
<1>4. prog["alrm"] # "idle"
  BY <1>1, NotIdle DEF DoDequeue, At, Op
<1>5. Control'
  <2>1. CASE Jump("alrm", "x_done")
    BY <1>3, <1>4, <2>1, JumpKeeps DEF DoDequeue, HandlerCode
  <2>2. CASE Jump("alrm", "x_entry") /\ q.head # NULL
    BY <1>2, <1>3, <1>4, <2>2, JumpKeeps DEF DoDequeue, HandlerCode, Ptr
  <2> QED BY <2>1, <2>2 DEF DoDequeue
<1>6. more' \in BOOLEAN /\ nxt' \in Ptr
  BY DEF DoDequeue, Data, Ptr
<1>7. Data'
  BY <1>6 DEF DoDequeue, Data, list, attrs, procs
<1> QED BY <1>5, <1>7

LEMMA MoreKeeps ==
    ASSUME Data, Control, DoMore
    PROVE  Data' /\ Control'
<1>1. "alrm" \in Thread
  BY DEF Thread
<1>2. ent["alrm"] \in Vr
  BY <1>1, EntryIsVr DEF DoMore, At, Op
<1>3. q.next[ent["alrm"]] \in Ptr
  BY <1>2 DEF Data, Queues
<1>4. more' \in BOOLEAN /\ nxt' \in Ptr
  BY <1>3 DEF DoMore, Data
<1>5. Control'
  BY <1>1, PlainStep DEF DoMore
<1>6. Data'
  BY <1>4 DEF DoMore, Data, list, attrs, procs
<1> QED BY <1>5, <1>6

LEMMA TestKeeps ==
    ASSUME Data, Control, DoTest
    PROVE  Data' /\ Control'
<1>1. "alrm" \in Thread
  BY DEF Thread
<1>2. ent["alrm"] \in Vr /\ prog["alrm"] # "idle"
  BY <1>1, EntryIsVr, NotIdle DEF DoTest, At, Op
<1>3. Data'
  BY DEF DoTest, Data, list, attrs, procs, locals
<1>4. CASE At("alrm", "is_mast") /\ Advance("alrm")
  BY <1>1, <1>3, <1>4, PlainStep DEF DoTest, locals
<1>5. CASE UNCHANGED ent /\ \E f \in {"x_mast", "x_back", "x_none"} : Jump("alrm", f)
  BY <1>2, <1>3, <1>5, JumpKeeps DEF DoTest, locals, HandlerCode, Control, Places
<1> QED BY <1>4, <1>5 DEF DoTest

LEMMA AgainKeeps ==
    ASSUME Data, Control, DoAgain
    PROVE  Data' /\ Control'
<1>1. "alrm" \in Thread
  BY DEF Thread
<1>2. prog["alrm"] # "idle"
  BY <1>1, NotIdle DEF DoAgain, At, Op
<1>3. Data'
  BY DEF DoAgain, Data, list, attrs, procs, Ptr
<1>4. \E f \in {"x_loop", "x_done"} : Jump("alrm", f)
  BY DEF DoAgain
<1>5. Control'
  BY <1>2, <1>4, JumpKeeps DEF DoAgain, HandlerCode, Control, Places
<1> QED BY <1>3, <1>5

(***************************************************************************)
(* The type invariant holds                                                *)
(***************************************************************************)
LEMMA InitKeeps == Init => Data /\ Control
<1> SUFFICES ASSUME Init PROVE Data /\ Control
  OBVIOUS
<1>1. "idle" \in Functions /\ Code["idle"] = <<"wait">>
  BY FunctionNames DEF Code
<1>2. Data
  <2>1. q \in Queues
    BY DEF Init, EmptyQueue, Queues, Ptr
  <2>2. npid \in 0 .. MaxPid /\ routers \subseteq 1 .. npid /\ pid \in [Vr -> 0 .. npid]
    BY DaemonAssumption DEF Init
  <2>3. /\ pri \in [Vr -> 0 .. 255] /\ delay \in [Vr -> Nat] /\ pree \in [Vr -> BOOLEAN]
        /\ state \in [Vr -> States]
    BY DEF Init, States
  <2>4. wire \in [Vrid -> -1 .. 255] /\ flag \in [Vrid -> BOOLEAN]
    BY DEF Init
  <2> QED BY <2>1, <2>2, <2>3, <2>4 DEF Init, Data, Ptr
<1>3. Control
  BY <1>1 DEF Init, Control, Places, Roles, Currs, Op, Thread, HandlerCode, Ptr
<1> QED BY <1>2, <1>3

LEMMA NextKeeps == Data /\ Control /\ [Next]_vars => Data' /\ Control'
<1> SUFFICES ASSUME Data, Control, [Next]_vars PROVE Data' /\ Control'
  OBVIOUS
<1>0. "main" \in Thread /\ "alrm" \in Thread
  BY DEF Thread
<1>1. CASE Command
  BY <1>1, CommandKeeps
<1>2. CASE Advert
  BY <1>2, AdvertKeeps
<1>3. CASE MainStep
  BY <1>0, <1>3, StepKeeps, RmqueueKeeps, EnqueueKeeps, RequeueKeeps, KillKeeps, SleepKeeps,
     UnlinkKeeps DEF MainStep
<1>4. CASE HandlerStep
  BY <1>0, <1>4, StepKeeps, DequeueKeeps, MoreKeeps, TestKeeps, AgainKeeps DEF HandlerStep
<1>5. CASE \E thr \in HandlerThreads : Deliver(thr)
  BY <1>5, DeliverKeeps
<1>6. CASE UNCHANGED vars
  <2>1. Control'
    BY <1>6, SameControl DEF vars
  <2>2. Data'
    BY <1>6 DEF vars, Data, list, attrs, procs, threads, locals
  <2> QED BY <2>1, <2>2
<1> QED BY <1>1, <1>2, <1>3, <1>4, <1>5, <1>6 DEF Next

LEMMA TypesHold == Spec => [](Data /\ Control)
BY InitKeeps, NextKeeps, PTL DEF Spec

\* Every value of the daemon's state has its C type: no instruction of state.c or
\* timer.c works on a NULL entry, and no counter leaves its range, however
\* alarms, commands and advertisements interleave.
THEOREM TypeCorrect == Spec => []TypeOK
BY TypesHold, TypeOfHalves, PTL

(***************************************************************************)
(* The mutex                                                               *)
(***************************************************************************)
Locking == \A t \in Thread : lock = t <=> Held(prog[t], at[t])

LEMMA HeldAtEntry ==
    ASSUME NEW f
    PROVE  Held(f, 1) <=> f \in {"x_loop", "x_entry", "x_mast", "x_back", "x_none", "x_done"}
BY DEF Held

\* One instruction further: held after a lock, not after an unlock, as before
\* after anything else.
LEMMA HeldNext ==
    ASSUME NEW f \in Functions, NEW n \in Nat, n \in 1 .. Len(Code[f]), n # Len(Code[f])
    PROVE  /\ Code[f][n] = "lock" => Held(f, n + 1)
           /\ Code[f][n] = "unlock" => ~Held(f, n + 1)
           /\ Code[f][n] \notin {"lock", "unlock"} => (Held(f, n + 1) <=> Held(f, n))
<1>1. Code[f][n] = "lock" => Held(f, n + 1)
  BY DEF Held
<1>2. Code[f][n] = "unlock" => ~Held(f, n + 1)
  <2>1. Code[f][n] = "unlock" => f \notin HandlerCode
    BY CodeSections
  <2> QED BY <2>1 DEF Held, HandlerCode
<1>3. Code[f][n] \notin {"lock", "unlock"} => (Held(f, n + 1) <=> Held(f, n))
  <2> SUFFICES ASSUME Code[f][n] \notin {"lock", "unlock"} PROVE Held(f, n + 1) <=> Held(f, n)
    OBVIOUS
  <2>1. ASSUME NEW i \in 1 .. n - 1, Code[f][i] = "lock",
               \A j \in i .. n - 1 : Code[f][j] # "unlock"
        PROVE  Held(f, n + 1)
    <3>1. i \in 1 .. (n + 1) - 1 /\ \A j \in i .. (n + 1) - 1 : Code[f][j] # "unlock"
      BY <2>1
    <3> QED BY <2>1, <3>1 DEF Held
  <2>2. Held(f, n + 1) => Held(f, n)
    BY DEF Held
  <2> QED BY <2>1, <2>2 DEF Held
<1> QED BY <1>1, <1>2, <1>3

LEMMA AdvanceKeepsLocking ==
    ASSUME Control, Locking, NEW t \in Thread, Advance(t),
           Op(t) \notin {"dequeue", "is_back", "again"},
           Op(t) = "lock" => lock = "free" /\ lock' = t,
           Op(t) = "unlock" => lock' = "free",
           Op(t) \notin {"lock", "unlock"} => lock' = lock
    PROVE  Locking'
<1> DEFINE f == prog[t]
           n == at[t]
<1>1. /\ f \in Functions /\ n \in 1 .. Len(Code[f]) /\ n \in Nat
      /\ lock = t <=> Held(f, n)
      /\ Op(t) = Code[f][n]
      /\ t # "free"
  BY DEF Control, Places, Locking, Op, Thread
<1>2. /\ prog'[t] = IF Last(t) THEN "idle" ELSE f
      /\ at'[t] = IF Last(t) THEN 1 ELSE n + 1
      /\ \A u \in Thread : u # t => prog'[u] = prog[u] /\ at'[u] = at[u]
  BY DEF Advance, Control, Places
<1>3. Op(t) = "unlock" => lock = t
  BY <1>1, CodeSections
<1>4. ASSUME NEW u \in Thread, u # t
      PROVE  lock' = u <=> Held(prog'[u], at'[u])
  <2>1. lock' = u <=> lock = u
    BY <1>3, <1>4 DEF Thread
  <2> QED BY <1>2, <1>4, <2>1 DEF Locking
<1>5. lock' = t <=> Held(prog'[t], at'[t])
  <2>1. CASE Last(t)
    <3>1. ~Held(prog'[t], at'[t])
      BY <1>2, <2>1, HeldAtEntry
    <3>2. n = Len(Code[f])
      BY <2>1 DEF Last
    <3>3. Op(t) # "lock"
      BY <1>1, <3>2, CodeSections
    <3>4. Op(t) # "unlock" => ~Held(f, n)
      BY <1>1, <3>2, CodeSections
    <3> QED BY <1>1, <3>1, <3>3, <3>4
  <2>2. CASE ~Last(t)
    <3>1. n # Len(Code[f])
      BY <2>2 DEF Last
    <3> QED BY <1>1, <1>2, <2>2, <3>1, HeldNext
  <2> QED BY <2>1, <2>2
<1> QED BY <1>4, <1>5 DEF Locking

\* An instruction other than those of the mutex and the jumps.
LEMMA PlainLocking ==
    ASSUME Control, Locking, NEW t \in Thread, NEW op,
           op \notin {"lock", "unlock", "dequeue", "is_back", "again"},
           At(t, op), Advance(t), lock' = lock
    PROVE  Locking'
BY AdvanceKeepsLocking DEF At, Op

LEMMA JumpKeepsLocking ==
    ASSUME Control, Locking, NEW t \in Thread, NEW f, Jump(t, f), lock' = lock,
           Held(prog[t], at[t]) <=> Held(f, 1)
    PROVE  Locking'
<1>1. /\ prog'[t] = f /\ at'[t] = 1
      /\ \A u \in Thread : u # t => prog'[u] = prog[u] /\ at'[u] = at[u]
  BY DEF Jump, Control, Places
<1> QED BY <1>1 DEF Locking

LEMMA IdleIsFree ==
    ASSUME Control, NEW t \in Thread, prog[t] = "idle"
    PROVE  at[t] = 1 /\ ~Held(prog[t], at[t])
<1>1. Len(Code["idle"]) = 1
  BY DEF Code
<1>2. at[t] \in 1 .. Len(Code["idle"])
  BY DEF Control, Places
<1>3. at[t] = 1
  BY <1>1, <1>2
<1> QED BY <1>3, HeldAtEntry

LEMMA SameLocking ==
    ASSUME Locking, UNCHANGED <<threads, lock>>
    PROVE  Locking'
BY DEF Locking, threads

LEMMA CallLocking ==
    ASSUME Control, Locking, MainIdle, NEW f \in Functions \ HandlerCode, NEW v, Call(f, v),
           lock' = lock
    PROVE  Locking'
<1>1. "main" \in Thread /\ ~Held(prog["main"], at["main"])
  BY IdleIsFree DEF MainIdle, Thread
<1>2. ~Held(f, 1)
  BY HeldAtEntry DEF HandlerCode
<1> QED BY <1>1, <1>2, JumpKeepsLocking DEF Call

\* What a command or an advertisement does at once: it starts a function of the
\* main thread, if any; i2b only for an instance in INIT.
LEMMA InputEffect ==
    ASSUME Data, Command \/ Advert
    PROVE  /\ MainIdle /\ state' = state /\ wire' = wire /\ lock' = lock
           /\ \/ UNCHANGED threads
              \/ \E v \in Vr, f \in Functions \ HandlerCode :
                    /\ Call(f, v)
                    /\ f = "i2b" => state[v] = "INIT"
<1> DEFINE Same == MainIdle /\ state' = state /\ wire' = wire /\ lock' = lock
           Calls(F) == \E v \in Vr, f \in F : Call(f, v)
<1>1. ASSUME NEW v \in Vr, NEW p, NEW d, NEW m, vrrp_create_inst(v, p, d, m)
      PROVE  Same /\ (UNCHANGED threads \/ Calls({"i2m"}))
  BY <1>1 DEF vrrp_create_inst
<1>2. ASSUME NEW v \in Vr, vrrp_startup_inst(v)
      PROVE  Same /\ Call("i2b", v) /\ state[v] = "INIT"
  BY <1>2 DEF vrrp_startup_inst
<1>3. ASSUME NEW v \in Vr, vrrp_shutdown_inst(v)
      PROVE  Same /\ Calls({"m2i", "b2i"})
  BY <1>3 DEF vrrp_shutdown_inst
<1>4. ASSUME NEW v \in Vr, NEW wild, vrrp_destroy_inst(v, wild)
      PROVE  Same /\ Calls({"kill_mast", "kill_mast_wild", "kill_other", "kill_other_wild"})
  BY <1>4 DEF vrrp_destroy_inst
<1>5. ASSUME NEW v \in Vr, NEW wild, NEW p, NEW d, NEW m, vrrp_set_inst_prop(v, wild, p, d, m)
      PROVE  Same /\ (UNCHANGED threads \/ Calls({"modify", "modify_wild"}))
  BY <1>5 DEF vrrp_set_inst_prop
<1>6. ASSUME destroy_missing
      PROVE  Same /\ UNCHANGED threads
  BY <1>6 DEF destroy_missing, Segv
<1>7. ASSUME NEW i \in Vrid, receive_stop(i)
      PROVE  Same /\ (UNCHANGED threads \/ Calls({"b2m"}))
  BY <1>7 DEF receive_stop, Data
<1>8. ASSUME NEW i \in Vrid, receive_stop_no_instance(i)
      PROVE  Same /\ UNCHANGED threads
  BY <1>8 DEF receive_stop_no_instance, Segv
<1>9. ASSUME NEW i \in Vrid, NEW p \in AdvPri, receive_adv(i, p)
      PROVE  Same /\ (UNCHANGED threads \/ Calls({"adv_back", "m2b"}))
  BY <1>9 DEF receive_adv, Data
<1>10. \/ Same /\ UNCHANGED threads
       \/ Same /\ Calls({"i2m", "m2i", "b2i", "kill_mast", "kill_mast_wild", "kill_other",
                         "kill_other_wild", "modify", "modify_wild", "b2m", "adv_back",
                         "m2b"})
       \/ Same /\ \E v \in Vr : Call("i2b", v) /\ state[v] = "INIT"
  <2>1. CASE Command
    BY <2>1, <1>1, <1>2, <1>3, <1>4, <1>5, <1>6 DEF Command
  <2>2. CASE Advert
    BY <2>2, <1>7, <1>8, <1>9 DEF Advert
  <2> QED BY <2>1, <2>2
<1> QED BY <1>10, FunctionNames DEF HandlerCode

LEMMA InputLocking ==
    ASSUME Data, Control, Locking, Command \/ Advert
    PROVE  Locking'
<1>1. CASE UNCHANGED threads
  BY <1>1, InputEffect, SameLocking
<1>2. CASE \E v \in Vr, f \in Functions \ HandlerCode : Call(f, v)
  BY <1>2, InputEffect, CallLocking
<1> QED BY <1>1, <1>2, InputEffect

LEMMA QueueStepLocking ==
    ASSUME Control, Locking, NEW t \in Thread, NEW op, NEW qq, NEW crash,
           op \notin {"lock", "unlock", "dequeue", "is_back", "again"},
           QueueStep(t, op, qq, crash)
    PROVE  Locking'
BY SameLocking, PlainLocking DEF QueueStep, Segv

LEMMA StepLocking ==
    ASSUME Control, Locking, NEW t \in Thread, Step(t)
    PROVE  Locking'
<1>1. CASE DoLock(t) \/ DoUnlock(t)
  BY <1>1, AdvanceKeepsLocking DEF DoLock, DoUnlock, At, Op
<1>2. CASE DoState(t) \/ DoFork(t)
  BY <1>2, PlainLocking DEF DoState, SetState, DoFork
<1>3. CASE DoAlarm(t) \/ DoSend(t)
  BY <1>3, PlainLocking DEF DoAlarm, DoSend, vrrp_send_adv, CreateVRRPHeader
<1>4. CASE DoRmqueueStep(t)
  BY <1>4, QueueStepLocking DEF DoRmqueueStep
<1>5. CASE DoReadHead(t) \/ DoJoin(t)
  BY <1>5, PlainLocking DEF DoReadHead, DoJoin
<1>6. CASE DoEnqueueStep(t)
  BY <1>6, QueueStepLocking DEF DoEnqueueStep
<1> QED BY <1>1, <1>2, <1>3, <1>4, <1>5, <1>6 DEF Step

LEMMA MainLocking ==
    ASSUME Control, Locking, MainStep
    PROVE  Locking'
<1>0. "main" \in Thread
  BY DEF Thread
<1>1. CASE Step("main")
  BY <1>0, <1>1, StepLocking
<1>2. CASE DoRmqueue
  BY <1>0, <1>2, QueueStepLocking DEF DoRmqueue
<1>3. ASSUME NEW op, op \notin {"lock", "unlock", "dequeue", "is_back", "again"}, NEW qq,
             NEW clocks, MainEnqueue(op, qq, clocks)
      PROVE  Locking'
  BY <1>0, <1>3, PlainLocking DEF MainEnqueue
<1>4. CASE DoEnqueue
  BY <1>3, <1>4 DEF DoEnqueue
<1>5. CASE DoRequeue
  <2>1. \/ \E qq, clocks : MainEnqueue("requeue", qq, clocks)
        \/ Segv("queue")
    BY <1>5, RequeueCases
  <2> QED BY <1>3, <2>1, SameLocking DEF Segv
<1>6. CASE DoKill \/ DoUnlink
  BY <1>0, <1>6, PlainLocking DEF DoKill, DoUnlink
<1>7. CASE DoSleep
  <2>1. CASE Advance("main")
    BY <1>0, <1>7, <2>1, PlainLocking DEF DoSleep
  <2>2. CASE Jump("main", "b2m")
    <3>1. ~Held(prog["main"], at["main"]) /\ ~Held("b2m", 1)
      BY <1>0, <1>7, CodeSections, HeldAtEntry, SMTT(40) DEF DoSleep, At, Control, Places
    <3> QED BY <1>0, <1>7, <2>2, <3>1, JumpKeepsLocking DEF DoSleep
  <2> QED BY <1>7, <2>1, <2>2 DEF DoSleep
<1> QED BY <1>1, <1>2, <1>4, <1>5, <1>6, <1>7 DEF MainStep

LEMMA HandlerLocking ==
    ASSUME Control, Locking, HandlerStep
    PROVE  Locking'
<1>0. "alrm" \in Thread
  BY DEF Thread
<1>1. CASE Step("alrm")
  BY <1>0, <1>1, StepLocking
<1>2. ASSUME NEW op \in {"dequeue", "is_mast", "is_back", "again"}, At("alrm", op),
             NEW f \in {"x_loop", "x_entry", "x_mast", "x_back", "x_none", "x_done"},
             Jump("alrm", f), lock' = lock
      PROVE  Locking'
  <2>1. Held(prog["alrm"], at["alrm"]) /\ Held(f, 1)
    BY <1>0, <1>2, CodeSections, HeldAtEntry DEF At, Control, Places
  <2> QED BY <1>0, <1>2, <2>1, JumpKeepsLocking
<1>3. CASE DoDequeue \/ DoAgain
  BY <1>2, <1>3 DEF DoDequeue, DoAgain
<1>4. CASE DoMore
  BY <1>0, <1>4, PlainLocking DEF DoMore
<1>5. CASE DoTest
  <2>1. CASE At("alrm", "is_mast") /\ Advance("alrm")
    BY <1>0, <1>5, <2>1, PlainLocking DEF DoTest
  <2>2. CASE \E op \in {"is_mast", "is_back"}, f \in {"x_mast", "x_back", "x_none"} :
                At("alrm", op) /\ Jump("alrm", f)
    BY <1>2, <1>5, <2>2 DEF DoTest
  <2> QED BY <1>5, <2>1, <2>2 DEF DoTest
<1> QED BY <1>1, <1>3, <1>4, <1>5 DEF HandlerStep

LEMMA DeliverLocking ==
    ASSUME Control, Locking, NEW thr, Deliver(thr)
    PROVE  Locking'
<1>1. "alrm" \in Thread /\ "main" \in Thread /\ prog["alrm"] = "idle"
  BY DEF Deliver, Control, Roles, Thread
<1>2. ~Held(prog["alrm"], at["alrm"]) /\ ~Held("expire", 1)
  BY <1>1, IdleIsFree, HeldAtEntry
<1>3. /\ prog'["alrm"] = "expire" /\ at'["alrm"] = 1 /\ lock' = lock
      /\ \A u \in Thread : u # "alrm" => prog'[u] = prog[u] /\ at'[u] = at[u]
  BY <1>1 DEF Deliver, Control, Places
<1> QED BY <1>1, <1>2, <1>3 DEF Locking

(***************************************************************************)
(* The mutex is held by exactly the thread that is between lock and        *)
(* unlock, for any number of VRs and on whatever thread the alarm lands.   *)
(***************************************************************************)
THEOREM MutexIsDisciplined == Spec => []LockDiscipline
<1>1. Init => Locking
  <2> SUFFICES ASSUME Init PROVE Locking
    OBVIOUS
  <2>1. \A t \in Thread : ~Held(prog[t], at[t])
    BY HeldAtEntry DEF Init
  <2> QED BY <2>1 DEF Init, Locking, Thread
<1>2. Data /\ Control /\ Locking /\ [Next]_vars => Locking'
  <2> SUFFICES ASSUME Data, Control, Locking, [Next]_vars PROVE Locking'
    OBVIOUS
  <2>1. CASE UNCHANGED vars
    BY <2>1, SameLocking DEF vars
  <2> QED BY <2>1, InputLocking, MainLocking, HandlerLocking, DeliverLocking
          DEF Next
<1>3. Locking => LockDiscipline
  BY DEF Locking, LockDiscipline, Held, Critical
<1> QED BY <1>1, <1>2, <1>3, TypesHold, PTL DEF Spec

(***************************************************************************)
(* What the alarm cannot undo when it is handled on the main thread, which *)
(* is what Linux does with a signal sent to the process.  The main thread  *)
(* then stands still from Deliver to the handler's end, so what either     *)
(* thread has tested still holds when it acts on it.                       *)
(***************************************************************************)

\* Where the states are assigned and advertisements are sent.
LEMMA CodeStates ==
    ASSUME NEW f \in Functions, NEW n \in 1 .. Len(Code[f])
    PROVE  /\ Code[f][n] = "mast" => f \in {"i2m", "b2m"} \/ (f = "x_back" /\ n = 10)
           /\ Code[f][n] = "back" => (f = "i2b" /\ n = 4) \/ (f = "m2b" /\ n = 5)
           /\ Code[f][n] = "init" => f \in {"m2i", "b2i", "kill_mast"}
           /\ Code[f][n] = "send" => f = "x_mast" /\ n = 1
<1>1. CASE f = "idle"
  BY <1>1 DEF Code
<1>2. CASE f = "i2m"
  BY <1>2 DEF Code
<1>3. CASE f = "i2b"
  BY <1>3 DEF Code
<1>4. CASE f = "m2i"
  BY <1>4 DEF Code
<1>5. CASE f = "b2i"
  BY <1>5 DEF Code
<1>6. CASE f = "b2m"
  BY <1>6 DEF Code
<1>7. CASE f = "m2b"
  BY <1>7 DEF Code
<1>8. CASE f = "kill_mast"
  BY <1>8 DEF Code
<1>9. CASE f = "kill_mast_wild"
  BY <1>9 DEF Code
<1>10. CASE f = "kill_other"
  BY <1>10 DEF Code
<1>11. CASE f = "kill_other_wild"
  BY <1>11 DEF Code
<1>12. CASE f = "modify"
  BY <1>12 DEF Code
<1>13. CASE f = "modify_wild"
  BY <1>13 DEF Code
<1>14. CASE f = "adv_back"
  BY <1>14 DEF Code
<1>15. CASE f = "expire"
  BY <1>15 DEF Code
<1>16. CASE f = "x_loop"
  BY <1>16 DEF Code
<1>17. CASE f = "x_entry"
  BY <1>17 DEF Code
<1>18. CASE f = "x_mast"
  BY <1>18 DEF Code
<1>19. CASE f = "x_back"
  BY <1>19 DEF Code
<1>20. CASE f = "x_none"
  BY <1>20 DEF Code
<1>21. CASE f = "x_done"
  BY <1>21 DEF Code
<1> QED
  BY <1>1, <1>2, <1>3, <1>4, <1>5, <1>6, <1>7, <1>8, <1>9, <1>10, <1>11,
     <1>12, <1>13, <1>14, <1>15, <1>16, <1>17, <1>18, <1>19, <1>20, <1>21, EachFunction

Tested ==
    /\ hthr # "timer"
    /\ (prog["alrm"] = "x_back" /\ at["alrm"] <= 10) => state[ent["alrm"]] = "BACK"
    /\ (prog["alrm"] = "x_mast" /\ at["alrm"] = 1) => state[ent["alrm"]] = "MAST"
    /\ (prog["main"] = "i2b" /\ at["main"] <= 4) => state[ent["main"]] = "INIT"

\* What an instruction does to the places, the states and the network.
MainEffect ==
    /\ Runs("main") /\ pri' = pri
    /\ \/ UNCHANGED <<threads, state, wire>>
       \/ /\ Advance("main") \/ (Jump("main", "b2m") /\ ent' = ent)
          /\ state' = state \/ DoState("main")
          /\ wire' = wire \/ DoSend("main")

HandlerJump(f) ==
    /\ Jump("alrm", f)
    /\ f = "x_back" => state[ent'["alrm"]] = "BACK"
    /\ f = "x_mast" => state[ent'["alrm"]] = "MAST"

HandlerEffect ==
    /\ Runs("alrm") /\ pri' = pri
    /\ \/ UNCHANGED <<threads, state, wire>>
       \/ /\ Advance("alrm")
          /\ state' = state \/ DoState("alrm")
          /\ wire' = wire \/ DoSend("alrm")
       \/ /\ state' = state /\ wire' = wire /\ ent'["main"] = ent["main"]
          /\ \E f \in HandlerCode : HandlerJump(f)

LEMMA QueueStepEffect ==
    ASSUME NEW t, NEW op, NEW qq, NEW crash, QueueStep(t, op, qq, crash)
    PROVE  /\ Runs(t) /\ pri' = pri /\ state' = state /\ wire' = wire
           /\ UNCHANGED threads \/ Advance(t)
BY DEF QueueStep, At, Segv, attrs

LEMMA StepEffect ==
    ASSUME NEW t, Step(t)
    PROVE  /\ Runs(t) /\ pri' = pri
           /\ \/ UNCHANGED <<threads, state, wire>>
              \/ /\ Advance(t)
                 /\ state' = state \/ DoState(t)
                 /\ wire' = wire \/ DoSend(t)
<1>1. CASE DoLock(t) \/ DoUnlock(t)
  BY <1>1 DEF DoLock, DoUnlock, At, attrs
<1>2. CASE DoState(t)
  BY <1>2 DEF DoState, SetState, At, attrs
<1>3. CASE DoFork(t) \/ DoAlarm(t)
  BY <1>3 DEF DoFork, DoAlarm, At, attrs
<1>4. CASE DoSend(t)
  BY <1>4 DEF DoSend, vrrp_send_adv, CreateVRRPHeader, At, attrs
<1>5. CASE DoReadHead(t) \/ DoJoin(t)
  BY <1>5 DEF DoReadHead, DoJoin, At, attrs
<1>6. CASE DoRmqueueStep(t) \/ DoEnqueueStep(t)
  BY <1>6, QueueStepEffect DEF DoRmqueueStep, DoEnqueueStep
<1> QED BY <1>1, <1>2, <1>3, <1>4, <1>5, <1>6 DEF Step

LEMMA MainStepEffect ==
    ASSUME MainStep
    PROVE  MainEffect
<1>1. CASE Step("main")
  BY <1>1, StepEffect DEF MainEffect
<1>2. CASE DoRmqueue
  BY <1>2, QueueStepEffect DEF DoRmqueue, MainEffect
<1>3. ASSUME NEW op, NEW qq, NEW clocks, MainEnqueue(op, qq, clocks) PROVE MainEffect
  BY <1>3 DEF MainEnqueue, At, attrs, MainEffect
<1>4. CASE DoEnqueue
  BY <1>3, <1>4 DEF DoEnqueue
<1>5. CASE DoRequeue
  <2>1. \/ \E qq, clocks : MainEnqueue("requeue", qq, clocks)
        \/ Segv("queue") /\ Runs("main")
    BY <1>5, RequeueCases
  <2>2. CASE Segv("queue") /\ Runs("main")
    BY <2>2 DEF Segv, attrs, MainEffect
  <2> QED BY <1>3, <2>1, <2>2
<1>6. CASE DoKill \/ DoUnlink
  BY <1>6 DEF DoKill, DoUnlink, At, attrs, MainEffect
<1>7. CASE DoSleep
  BY <1>7 DEF DoSleep, At, attrs, MainEffect
<1> QED BY <1>1, <1>2, <1>4, <1>5, <1>6, <1>7 DEF MainStep

LEMMA HandlerStepEffect ==
    ASSUME Control, HandlerStep
    PROVE  HandlerEffect
<1>1. CASE Step("alrm")
  BY <1>1, StepEffect DEF HandlerEffect
<1>2. CASE DoDequeue
  <2>1. ent'["main"] = ent["main"]
    BY <1>2 DEF DoDequeue, Control, Places, Thread
  <2> QED BY <1>2, <2>1 DEF DoDequeue, At, attrs, HandlerEffect, HandlerJump, HandlerCode
<1>3. CASE DoMore
  BY <1>3 DEF DoMore, At, attrs, HandlerEffect
<1>4. CASE DoTest
  BY <1>4 DEF DoTest, advertises, takesOver, At, attrs, HandlerEffect, HandlerJump, HandlerCode
<1>5. CASE DoAgain
  BY <1>5 DEF DoAgain, At, attrs, HandlerEffect, HandlerJump, HandlerCode
<1> QED BY <1>1, <1>2, <1>3, <1>4, <1>5 DEF HandlerStep

\* An assignment to a state, with the place it is made from.
LEMMA StateEffect ==
    ASSUME Control, NEW t \in Thread, DoState(t)
    PROVE  /\ ent[t] \in Vr
           /\ \/ /\ state' = [state EXCEPT ![ent[t]] = "MAST"]
                 /\ prog[t] \in {"i2m", "b2m"} \/ (prog[t] = "x_back" /\ at[t] = 10)
              \/ /\ state' = [state EXCEPT ![ent[t]] = "BACK"]
                 /\ (prog[t] = "i2b" /\ at[t] = 4) \/ (prog[t] = "m2b" /\ at[t] = 5)
              \/ /\ state' = [state EXCEPT ![ent[t]] = "INIT"]
                 /\ prog[t] \in {"m2i", "b2i", "kill_mast"}
<1>1. prog[t] \in Functions /\ at[t] \in 1 .. Len(Code[prog[t]])
  BY DEF Control, Places
<1>2. ent[t] \in Vr
  BY EntryIsVr DEF DoState, SetState, At, Op
<1> QED BY <1>1, <1>2, CodeStates DEF DoState, SetState, At

\* The main thread runs only while there is no handler.
LEMMA MainAlone ==
    ASSUME Control, Tested, Runs("main")
    PROVE  prog["alrm"] = "idle"
BY DEF Control, Roles, Places, Tested, Runs

LEMMA AdvanceEffect ==
    ASSUME Control, NEW t \in Thread, Advance(t)
    PROVE  /\ prog'[t] \in {"idle", prog[t]}
           /\ prog'[t] # "idle" => at'[t] = at[t] + 1 /\ ent'[t] = ent[t]
           /\ \A u \in Thread : u # t => prog'[u] = prog[u] /\ at'[u] = at[u] /\ ent'[u] = ent[u]
           /\ at[t] \in Nat \ {0}
           /\ hthr' \in {hthr, "none"}
<1>1. /\ prog'[t] = IF Last(t) THEN "idle" ELSE prog[t]
      /\ at'[t] = IF Last(t) THEN 1 ELSE at[t] + 1
      /\ ent'[t] = IF Last(t) THEN NULL ELSE ent[t]
      /\ \A u \in Thread : u # t => prog'[u] = prog[u] /\ at'[u] = at[u] /\ ent'[u] = ent[u]
  BY DEF Advance, Control, Places
<1>2. hthr' \in {hthr, "none"}
  BY DEF Advance
<1>3. at[t] \in 1 .. Len(Code[prog[t]]) /\ prog[t] \in Functions
  BY DEF Control, Places
<1>4. at[t] \in Nat \ {0}
  BY <1>3, CodeLength
<1> QED BY <1>1, <1>2, <1>4

LEMMA JumpEffect ==
    ASSUME Control, NEW t \in Thread, NEW f, Jump(t, f)
    PROVE  /\ prog'[t] = f /\ at'[t] = 1 /\ hthr' = hthr
           /\ \A u \in Thread : u # t => prog'[u] = prog[u] /\ at'[u] = at[u]
BY DEF Jump, Control, Places

LEMMA InputKeepsTested ==
    ASSUME Data, Control, Tested, Command \/ Advert
    PROVE  Tested'
<1>0. "main" \in Thread /\ "alrm" \in Thread /\ "alrm" # "main"
  BY DEF Thread
<1>1. prog["alrm"] = "idle" /\ prog["main"] = "idle" /\ state' = state
  BY InputEffect, MainAlone DEF MainIdle
<1>2. CASE UNCHANGED threads
  BY <1>1, <1>2 DEF Tested, threads
<1>3. ASSUME NEW v \in Vr, NEW f \in Functions \ HandlerCode, Call(f, v),
             f = "i2b" => state[v] = "INIT"
      PROVE  Tested'
  <2>1. /\ prog'["main"] = f /\ prog'["alrm"] = "idle" /\ hthr' = hthr
    BY <1>0, <1>1, <1>3, JumpEffect DEF Call
  <2>2. ent'["main"] = v
    BY <1>0, <1>3 DEF Call, Control, Places
  <2> QED BY <1>1, <1>3, <2>1, <2>2 DEF Tested
<1> QED BY <1>2, <1>3, InputEffect

LEMMA MainKeepsTested ==
    ASSUME Data, Control, Tested, MainStep
    PROVE  Tested'
<1>0. "main" \in Thread /\ "alrm" \in Thread /\ "alrm" # "main"
  BY DEF Thread
<1>1. MainEffect /\ prog["alrm"] = "idle"
  BY MainStepEffect, MainAlone DEF MainEffect
<1>2. CASE UNCHANGED <<threads, state, wire>>
  BY <1>1, <1>2 DEF Tested, threads, MainEffect
<1>3. CASE Jump("main", "b2m") /\ ent' = ent
  <2>1. prog'["main"] = "b2m" /\ prog'["alrm"] = "idle" /\ hthr' = hthr
    BY <1>0, <1>1, <1>3, JumpEffect
  <2> QED BY <2>1 DEF Tested
<1>4. CASE Advance("main") /\ (state' = state \/ DoState("main"))
  <2>1. /\ prog'["main"] \in {"idle", prog["main"]}
        /\ prog'["main"] # "idle" => at'["main"] = at["main"] + 1 /\ ent'["main"] = ent["main"]
        /\ prog'["alrm"] = "idle" /\ hthr' \in {hthr, "none"} /\ at["main"] \in Nat \ {0}
    BY <1>0, <1>1, <1>4, AdvanceEffect
  <2>2. (prog'["main"] = "i2b" /\ at'["main"] <= 4) => state'[ent'["main"]] = "INIT"
    <3> SUFFICES ASSUME prog'["main"] = "i2b", at'["main"] <= 4
                 PROVE  state'[ent'["main"]] = "INIT"
      OBVIOUS
    <3>1. prog["main"] = "i2b" /\ at["main"] <= 3 /\ ent'["main"] = ent["main"]
      BY <2>1
    <3>2. state' = state
      BY <1>0, <1>4, <3>1, <2>1, StateEffect
    <3> QED BY <2>1, <3>1, <3>2 DEF Tested
  <2> QED BY <2>1, <2>2 DEF Tested
<1> QED BY <1>1, <1>2, <1>3, <1>4 DEF MainEffect

LEMMA HandlerKeepsTested ==
    ASSUME Data, Control, Tested, HandlerStep
    PROVE  Tested'
<1>0. "main" \in Thread /\ "alrm" \in Thread /\ "alrm" # "main"
  BY DEF Thread
<1>1. HandlerEffect /\ pri' = pri
  BY HandlerStepEffect DEF HandlerEffect
<1>2. CASE UNCHANGED <<threads, state, wire>>
  BY <1>1, <1>2 DEF Tested, threads
<1>3. ASSUME NEW f \in HandlerCode, HandlerJump(f), state' = state, ent'["main"] = ent["main"]
      PROVE  Tested'
  <2>1. /\ prog'["alrm"] = f /\ hthr' = hthr
        /\ prog'["main"] = prog["main"] /\ at'["main"] = at["main"]
    BY <1>0, <1>3, JumpEffect DEF HandlerJump
  <2> QED BY <1>1, <1>3, <2>1 DEF Tested, HandlerJump
<1>4. CASE Advance("alrm") /\ (state' = state \/ DoState("alrm"))
  <2>1. /\ prog'["alrm"] \in {"idle", prog["alrm"]}
        /\ prog'["alrm"] # "idle" => at'["alrm"] = at["alrm"] + 1 /\ ent'["alrm"] = ent["alrm"]
        /\ prog'["main"] = prog["main"] /\ at'["main"] = at["main"] /\ ent'["main"] = ent["main"]
        /\ hthr' \in {hthr, "none"} /\ at["alrm"] \in Nat \ {0}
    BY <1>0, <1>4, AdvanceEffect
  <2>2. \/ state' = state
        \/ /\ prog["alrm"] = "x_back" /\ at["alrm"] = 10 /\ ent["alrm"] \in Vr
           /\ state' = [state EXCEPT ![ent["alrm"]] = "MAST"]
    <3>1. prog["alrm"] \in HandlerCode \cup {"idle"}
      BY DEF Control, Roles
    <3> QED BY <1>0, <1>4, <3>1, StateEffect DEF HandlerCode
  <2>3. (prog'["alrm"] = "x_back" /\ at'["alrm"] <= 10) => state'[ent'["alrm"]] = "BACK"
    BY <2>1, <2>2 DEF Tested
  <2>4. prog'["alrm"] = "x_mast" => at'["alrm"] # 1
    BY <2>1
  <2>5. (prog'["main"] = "i2b" /\ at'["main"] <= 4) => state'[ent'["main"]] = "INIT"
    <3> SUFFICES ASSUME prog["main"] = "i2b", at["main"] <= 4
                 PROVE  state'[ent["main"]] = "INIT"
      BY <2>1
    <3>1. ent["main"] \in Vr /\ state[ent["main"]] = "INIT"
      BY <1>0 DEF Control, Places, Tested
    <3>2. CASE state' = state
      BY <3>1, <3>2
    <3>3. CASE /\ prog["alrm"] = "x_back" /\ at["alrm"] = 10 /\ ent["alrm"] \in Vr
               /\ state' = [state EXCEPT ![ent["alrm"]] = "MAST"]
      <4>1. state[ent["alrm"]] = "BACK"
        BY <3>3 DEF Tested
      <4> QED BY <3>1, <3>3, <4>1 DEF Data
    <3> QED BY <2>2, <3>2, <3>3
  <2> QED BY <1>1, <2>1, <2>3, <2>4, <2>5 DEF Tested
<1> QED BY <1>1, <1>2, <1>3, <1>4 DEF HandlerEffect

LEMMA DeliverKeepsTested ==
    ASSUME Control, Tested, Deliver("main")
    PROVE  Tested'
<1>1. /\ prog'["alrm"] = "expire" /\ prog'["main"] = prog["main"] /\ at'["main"] = at["main"]
      /\ ent' = ent /\ state' = state /\ pri' = pri /\ hthr' = "main"
  BY DEF Deliver, Control, Places, Thread, attrs
<1> QED BY <1>1 DEF Tested

LEMMA TestedHolds == HandlerThreads \subseteq {"main"} => (Spec => []Tested)
<1> SUFFICES ASSUME HandlerThreads \subseteq {"main"} PROVE Spec => []Tested
  OBVIOUS
<1>1. Init => Tested
  BY DEF Init, Tested, Thread
<1>2. Data /\ Control /\ Tested /\ [Next]_vars => Tested'
  <2> SUFFICES ASSUME Data, Control, Tested, [Next]_vars PROVE Tested'
    OBVIOUS
  <2>1. CASE UNCHANGED vars
    BY <2>1 DEF vars, threads, attrs, Tested
  <2>2. CASE \E thr \in HandlerThreads : Deliver(thr)
    BY <2>2, DeliverKeepsTested
  <2> QED BY <2>1, <2>2, InputKeepsTested, MainKeepsTested, HandlerKeepsTested DEF Next
<1> QED BY <1>1, <1>2, TypesHold, PTL DEF Spec

\* A step that changes a state is an assignment; a step that changes what is on
\* the network is a vrrp_send_adv.
LEMMA WhoChanges ==
    ASSUME Data, Control, Next
    PROVE  /\ state' # state => \E t \in Thread : DoState(t) /\ Runs(t)
           /\ wire' # wire => \E t \in Thread : DoSend(t)
<1>1. CASE Command \/ Advert
  BY <1>1, InputEffect
<1>2. CASE MainStep
  BY <1>2, MainStepEffect DEF MainEffect, Thread
<1>3. CASE HandlerStep
  BY <1>3, HandlerStepEffect DEF HandlerEffect, Thread
<1>4. CASE \E thr \in HandlerThreads : Deliver(thr)
  BY <1>4 DEF Deliver
<1> QED BY <1>1, <1>2, <1>3, <1>4 DEF Next

LEMMA SticksStep ==
    ASSUME Data, Control, Tested, [Next]_vars, NEW v \in Vr,
           state[v] = "INIT", prog["main"] = "idle"
    PROVE  state'[v] = "INIT"
<1>1. CASE state' = state
  BY <1>1
<1>2. CASE state' # state
  <2>1. PICK t \in Thread : DoState(t)
    BY <1>2, WhoChanges DEF vars
  <2>2. prog[t] = "x_back" /\ at[t] = 10 /\ t = "alrm" /\ ent[t] \in Vr
        /\ state' = [state EXCEPT ![ent[t]] = "MAST"]
    BY <2>1, StateEffect DEF Control, Roles, HandlerCode, Thread
  <2>3. state[ent[t]] = "BACK"
    BY <2>2 DEF Tested
  <2> QED BY <2>2, <2>3 DEF Data
<1> QED BY <1>1, <1>2

(***************************************************************************)
(* A shut down instance stays down, for any number of VRs: an alarm that   *)
(* is handled on the main thread never promotes an instance it found to be *)
(* a BACKUP after a command has taken it to INIT.                          *)
(***************************************************************************)
THEOREM ShutdownAlwaysSticks == HandlerThreads \subseteq {"main"} => (Spec => ShutdownSticks)
<1> SUFFICES ASSUME HandlerThreads \subseteq {"main"} PROVE Spec => ShutdownSticks
  OBVIOUS
<1>1. Spec => []Tested
  BY TestedHolds
<1>2. Data /\ Control /\ Tested /\ [Next]_vars =>
        [\A v \in Vr : (state[v] = "INIT" /\ prog["main"] = "idle") => state'[v] = "INIT"]_vars
  BY SticksStep
<1> QED BY <1>1, <1>2, TypesHold, PTL DEF Spec, ShutdownSticks

-----------------------------------------------------------------------------
(***************************************************************************)
(* Places in the code: n is a position in function f                       *)
(***************************************************************************)

\* The main thread has taken the VR out of the queue and will put it back, or is about to
\* take it out of MASTER or BACKUP.
Out(f, n) == \/ f \in {"m2i", "b2i", "kill_mast"} /\ n \in {3, 4}
             \/ f \in {"m2b", "adv_back"} /\ n = 3

\* The main thread is in vrrp_state_b2m and has put the VR into the queue.
Relinked(f, n) == f = "b2m" /\ n >= 7

\* The main thread has yet to set the alarm of a new master, or the VR is to leave MASTER
\* for INIT.
Unset(f, n) == \/ f \in {"m2i", "b2i", "kill_mast"} /\ n >= 3
               \/ f = "i2m"
               \/ f = "b2m" /\ n >= 11

\* The VR has become a BACKUP, which an alarm promotes although vrrp_state_b2m may be
\* about to promote it, too.
Exposed(f, n) == \/ f = "i2b" /\ n = 5
                 \/ f = "m2b" /\ n >= 6
                 \/ f = "b2m" /\ n = 1

\* The handler has taken the VR out of the queue and not put it back.
Taken(f, n) == \/ f = "x_entry"
               \/ f = "x_mast" /\ n <= 3
               \/ f = "x_back" /\ n <= 6

\* The handler has yet to set the next alarm.
Acting(f, n) == \/ f \in {"expire", "x_entry"}
                \/ f = "x_mast" /\ n <= 7
                \/ f = "x_back" /\ n <= 18

(***************************************************************************)
(* The inductive invariant, for the only VR v                              *)
(***************************************************************************)
OwnQueue(v) == q.head \in {NULL, v} /\ q.next[v] \in {NULL, v} /\ q.prev[v] \in {NULL, v}

\* Both threads work on v, and the handler never finds a second entry.
OwnThreads(v) ==
    /\ \A t \in Thread : curr[t] \in {NULL, EMPTY, v}
    /\ \A t \in Thread : prog[t] \notin {"idle", "expire", "x_loop", "x_done"} => ent[t] = v
    /\ delay[v] > 0 /\ ~more /\ nxt = NULL /\ prog["alrm"] # "x_loop"

\* What the main thread's place says of the state.
MainOk(v) ==
    /\ prog["main"] = "i2m" => /\ prog["alrm"] = "idle" /\ ~armed
                               /\ at["main"] <= 2 => state[v] = "INIT"
                               /\ at["main"] >= 3 => q.head = v
    /\ (prog["main"] = "b2m" \/ Exposed(prog["main"], at["main"])) => state[v] # "INIT"
    /\ (prog["main"] \in {"m2i", "kill_mast"} /\ at["main"] >= 5) => state[v] = "INIT"

\* What the handler's place says of the state and the queue.
HandlerOk(v) ==
    /\ (prog["alrm"] = "x_entry" /\ at["alrm"] >= 4) => q.next[v] = NULL
    /\ (prog["alrm"] = "x_entry" /\ at["alrm"] = 7) => state[v] # "MAST"
    /\ prog["alrm"] = "x_none" => state[v] = "INIT"
    /\ prog["alrm"] = "x_mast" => state[v] = "MAST"
    /\ prog["alrm"] = "x_back" => state[v] = IF at["alrm"] <= 10 THEN "BACK" ELSE "MAST"
    /\ (prog["alrm"] = "x_mast" /\ at["alrm"] >= 4) => q.head = v
    /\ (prog["alrm"] = "x_back" /\ at["alrm"] >= 7) => q.head = v

\* A master is in the queue.
InQueue(v) ==
    /\ state[v] = "MAST" \/ Relinked(prog["main"], at["main"])
    /\ ~Out(prog["main"], at["main"])
    => q.head = v \/ Taken(prog["alrm"], at["alrm"])

\* A master has an alarm pending.
AlarmSet(v) ==
    (state[v] = "MAST" /\ ~Unset(prog["main"], at["main"]))
    => armed \/ Acting(prog["alrm"], at["alrm"])

\* Linked to itself, as enqueueing it twice leaves it: removing it does not empty the
\* queue.
Self(v) == q.next[v] = v /\ q.prev[v] = v

\* v is the head and linked to itself, or the handler is on its way to link it so.
Doubled(v) ==
    /\ q.head = v
    /\ prog["alrm"] \in {"idle", "expire", "x_done"} => Self(v)
    /\ (prog["alrm"] = "x_entry" /\ at["alrm"] <= 3) => Self(v)
    /\ (prog["alrm"] = "x_mast" /\ at["alrm"] \in 3 .. 6) => curr["alrm"] = v
    /\ (prog["alrm"] = "x_mast" /\ at["alrm"] = 4) => q.next[v] = v
    /\ (prog["alrm"] = "x_mast" /\ at["alrm"] >= 5) => Self(v)
    /\ (prog["alrm"] = "x_back" /\ at["alrm"] \in 14 .. 17) => curr["alrm"] = v
    /\ (prog["alrm"] = "x_back" /\ at["alrm"] = 15) => q.next[v] = v
    /\ (prog["alrm"] = "x_back" /\ at["alrm"] >= 16) => Self(v)

\* A backup that an alarm has promoted where vrrp_state_b2m may still remove it.
Twice(v) == (state[v] = "MAST" /\ Exposed(prog["main"], at["main"])) => Doubled(v)

SoloOk(v) == /\ OwnQueue(v) /\ OwnThreads(v) /\ MainOk(v) /\ HandlerOk(v)
             /\ InQueue(v) /\ AlarmSet(v) /\ Twice(v)

\* Before the first create there is nothing.
Fresh == /\ live = {} /\ prog["main"] = "idle" /\ prog["alrm"] = "idle"
         /\ q = EmptyQueue /\ ~armed /\ ~more /\ nxt = NULL
         /\ \A t \in Thread : curr[t] = NULL
         /\ \A v \in Vr : state[v] = "INIT"

SoloInv == (up = "up" /\ 0 \notin ModDelay) =>
               /\ used = {} => Fresh
               /\ \A v \in Vr : used = {v} => SoloOk(v)

\* All that is known when a step is taken with v the only VR.
Ready(v) == /\ Data /\ Control /\ Locking /\ Tested
            /\ used = {v} /\ up = "up" /\ SoloOk(v)

(***************************************************************************)
(* Queue assignments with v the only VR                                    *)
(***************************************************************************)
LEMMA SoloAssignments ==
    ASSUME NEW v \in Vr, NEW qq \in Queues,
           qq.head \in {NULL, v}, qq.next[v] \in {NULL, v}, qq.prev[v] \in {NULL, v}
    PROVE  /\ LET r == bypassEntry(qq, v)
              IN /\ r.head = IF qq.prev[v] = NULL THEN qq.next[v] ELSE qq.head
                 /\ r.next[v] = qq.next[v] /\ r.prev[v] = qq.prev[v]
           /\ LET r == relinkSuccessor(qq, v)
              IN r.head = qq.head /\ r.next[v] = qq.next[v] /\ r.prev[v] = qq.prev[v]
           /\ LET r == clearNext(qq, v)
              IN r.head = qq.head /\ r.next[v] = NULL /\ r.prev[v] = qq.prev[v]
           /\ LET r == clearPrev(qq, v)
              IN r.head = qq.head /\ r.next[v] = qq.next[v] /\ r.prev[v] = NULL
           /\ LET r == setHead(qq, v)
              IN r.head = v /\ r.next[v] = qq.next[v] /\ r.prev[v] = qq.prev[v]
           /\ \A c \in {NULL, v} :
                 LET r == linkBefore(qq, v, c)
                 IN r.head = qq.head /\ r.next[v] = c /\ r.prev[v] = qq.prev[v]
           /\ LET r == linkBack(qq, v, v)
              IN r.head = qq.head /\ r.next[v] = qq.next[v] /\ r.prev[v] = v
           /\ LET r == inheritPrev(qq, v, v)
              IN r.head = qq.head /\ r.next[v] = qq.next[v] /\ r.prev[v] = qq.prev[v]
           /\ \A c : LET r == publish(qq, v, c)
                     IN (c = qq.head \/ qq.prev[v] # NULL) =>
                          /\ r.head = IF c = qq.head THEN v ELSE qq.head
                          /\ r.next[v] = IF c = qq.head THEN qq.next[v] ELSE v
                          /\ r.prev[v] = qq.prev[v]
<1>0. v # NULL
  BY NullAssumption
<1>1. qq = [head |-> qq.head, next |-> qq.next, prev |-> qq.prev] /\ qq.next \in [Vr -> Ptr]
      /\ qq.prev \in [Vr -> Ptr]
  BY DEF Queues
<1>2. LET r == bypassEntry(qq, v)
      IN /\ r.head = IF qq.prev[v] = NULL THEN qq.next[v] ELSE qq.head
         /\ r.next[v] = qq.next[v] /\ r.prev[v] = qq.prev[v]
  BY <1>0, <1>1 DEF bypassEntry
<1>3. LET r == relinkSuccessor(qq, v)
      IN r.head = qq.head /\ r.next[v] = qq.next[v] /\ r.prev[v] = qq.prev[v]
  BY <1>0, <1>1 DEF relinkSuccessor
<1>4. LET r == clearNext(qq, v)
      IN r.head = qq.head /\ r.next[v] = NULL /\ r.prev[v] = qq.prev[v]
  BY <1>0, <1>1 DEF clearNext
<1>5. LET r == clearPrev(qq, v)
      IN r.head = qq.head /\ r.next[v] = qq.next[v] /\ r.prev[v] = NULL
  BY <1>0, <1>1 DEF clearPrev
<1>6. LET r == setHead(qq, v)
      IN r.head = v /\ r.next[v] = qq.next[v] /\ r.prev[v] = qq.prev[v]
  BY <1>0, <1>1 DEF setHead
<1>7. \A c \in {NULL, v} :
         LET r == linkBefore(qq, v, c)
         IN r.head = qq.head /\ r.next[v] = c /\ r.prev[v] = qq.prev[v]
  BY <1>0, <1>1 DEF linkBefore
<1>8. LET r == linkBack(qq, v, v)
      IN r.head = qq.head /\ r.next[v] = qq.next[v] /\ r.prev[v] = v
  BY <1>0, <1>1 DEF linkBack
<1>9. LET r == inheritPrev(qq, v, v)
      IN r.head = qq.head /\ r.next[v] = qq.next[v] /\ r.prev[v] = qq.prev[v]
  BY <1>0, <1>1 DEF inheritPrev
<1>10. ASSUME NEW c, c = qq.head \/ qq.prev[v] # NULL
       PROVE  LET r == publish(qq, v, c)
              IN /\ r.head = IF c = qq.head THEN v ELSE qq.head
                 /\ r.next[v] = IF c = qq.head THEN qq.next[v] ELSE v
                 /\ r.prev[v] = qq.prev[v]
  BY <1>0, <1>1, <1>10 DEF publish, setHead
<1> QED BY <1>2, <1>3, <1>4, <1>5, <1>6, <1>7, <1>8, <1>9, <1>10

\* Enqueueing v makes it the head, and links it to itself if it was the head.
LEMMA SoloEnqueue ==
    ASSUME NEW v \in Vr, NEW qq \in Queues,
           qq.head \in {NULL, v}, qq.next[v] \in {NULL, v}, qq.prev[v] \in {NULL, v}
    PROVE  /\ vrrp_enqueue_impl(qq, v).head = v
           /\ vrrp_enqueue_impl(qq, v).next[v] = IF qq.head = v THEN v ELSE qq.next[v]
           /\ vrrp_enqueue_impl(qq, v).prev[v] = IF qq.head = v THEN v ELSE NULL
<1>0. v # NULL
  BY NullAssumption
<1>1. ASSUME qq.head = NULL
      PROVE  /\ vrrp_enqueue_impl(qq, v).head = v
             /\ vrrp_enqueue_impl(qq, v).next[v] = qq.next[v]
             /\ vrrp_enqueue_impl(qq, v).prev[v] = NULL
  BY <1>0, <1>1 DEF vrrp_enqueue_impl, setHead, clearPrev, Queues
<1>2. ASSUME qq.head = v
      PROVE  /\ vrrp_enqueue_impl(qq, v).head = v
             /\ vrrp_enqueue_impl(qq, v).next[v] = v
             /\ vrrp_enqueue_impl(qq, v).prev[v] = v
  <2> DEFINE a == linkBefore(qq, v, v)
             b == linkBack(a, v, v)
             c == inheritPrev(b, v, v)
  <2>1. vrrp_enqueue_impl(qq, v) = publish(c, v, v)
    BY <1>0, <1>2 DEF vrrp_enqueue_impl, enqueueBefore
  <2>2. a \in Queues /\ a.head = v /\ a.next[v] = v /\ a.prev[v] \in {NULL, v}
    <3>1. a \in Queues
      BY QueueTypes DEF Ptr
    <3> QED BY <1>2, <3>1, SoloAssignments
  <2> HIDE DEF a
  <2>3. b \in Queues /\ b.head = v /\ b.next[v] = v /\ b.prev[v] = v
    BY <2>2, QueueTypes DEF linkBack, Queues
  <2> HIDE DEF b
  <2>4. c \in Queues /\ c.head = v /\ c.next[v] = v /\ c.prev[v] = v
    BY <2>3, QueueTypes DEF inheritPrev, Queues
  <2> HIDE DEF c
  <2>5. publish(c, v, v).head = v /\ publish(c, v, v).next[v] = v /\ publish(c, v, v).prev[v] = v
    BY <2>4 DEF publish, setHead, Queues
  <2> QED BY <2>1, <2>5
<1> QED BY <1>0, <1>1, <1>2

\* Removing v empties the queue unless v is linked to itself; enqueueing it makes it the
\* head.
LEMMA SoloCalls ==
    ASSUME NEW v \in Vr, NEW qq \in Queues,
           qq.head \in {NULL, v}, qq.next[v] \in {NULL, v}, qq.prev[v] \in {NULL, v}
    PROVE  /\ vrrp_rmqueue_impl(qq, v).head = IF qq.prev[v] = NULL THEN qq.next[v] ELSE qq.head
           /\ vrrp_rmqueue_impl(qq, v).next[v] = NULL
           /\ vrrp_rmqueue_impl(qq, v).prev[v] = NULL
           /\ vrrp_enqueue_impl(qq, v).head = v
           /\ vrrp_enqueue_impl(qq, v).next[v] \in {NULL, v}
           /\ vrrp_enqueue_impl(qq, v).prev[v] \in {NULL, v}
<1>0. v # NULL
  BY NullAssumption
<1>1. /\ vrrp_rmqueue_impl(qq, v).head = IF qq.prev[v] = NULL THEN qq.next[v] ELSE qq.head
      /\ vrrp_rmqueue_impl(qq, v).next[v] = NULL
      /\ vrrp_rmqueue_impl(qq, v).prev[v] = NULL
  <2> DEFINE a == bypassEntry(qq, v)
             b == relinkSuccessor(a, v)
             c == clearNext(b, v)
  <2>0. ASSUME NEW x \in Queues,
               x.head \in {NULL, v}, x.next[v] \in {NULL, v}, x.prev[v] \in {NULL, v}
        PROVE  /\ bypassEntry(x, v) \in Queues /\ relinkSuccessor(x, v) \in Queues
               /\ clearNext(x, v) \in Queues
               /\ bypassEntry(x, v).head = IF x.prev[v] = NULL THEN x.next[v] ELSE x.head
               /\ bypassEntry(x, v).next[v] = x.next[v] /\ bypassEntry(x, v).prev[v] = x.prev[v]
               /\ relinkSuccessor(x, v).head = x.head
               /\ relinkSuccessor(x, v).next[v] = x.next[v]
               /\ relinkSuccessor(x, v).prev[v] = x.prev[v]
               /\ clearNext(x, v).head = x.head /\ clearNext(x, v).next[v] = NULL
               /\ clearNext(x, v).prev[v] = x.prev[v]
               /\ clearPrev(x, v).head = x.head /\ clearPrev(x, v).next[v] = x.next[v]
               /\ clearPrev(x, v).prev[v] = NULL
    <3>1. /\ bypassEntry(x, v) \in Queues /\ relinkSuccessor(x, v) \in Queues
          /\ clearNext(x, v) \in Queues
      BY QueueTypes
    <3>2. x.head \in {NULL, v} /\ x.next[v] \in {NULL, v} /\ x.prev[v] \in {NULL, v}
      BY <2>0
    <3> QED BY <3>1, <3>2, SoloAssignments
  <2>1. /\ a \in Queues /\ a.next[v] = qq.next[v] /\ a.prev[v] = qq.prev[v]
        /\ a.head = IF qq.prev[v] = NULL THEN qq.next[v] ELSE qq.head
    BY <2>0
  <2> HIDE DEF a
  <2>2. b \in Queues /\ b.head = a.head /\ b.next[v] = a.next[v] /\ b.prev[v] = a.prev[v]
    BY <2>0, <2>1
  <2> HIDE DEF b
  <2>3. c \in Queues /\ c.head = b.head /\ c.next[v] = NULL /\ c.prev[v] = b.prev[v]
    BY <2>0, <2>1, <2>2
  <2> HIDE DEF c
  <2>4. /\ clearPrev(c, v).head = c.head /\ clearPrev(c, v).next[v] = NULL
        /\ clearPrev(c, v).prev[v] = NULL
    BY <2>0, <2>1, <2>2, <2>3
  <2> QED BY <2>1, <2>2, <2>3, <2>4 DEF vrrp_rmqueue_impl, a, b, c
<1> QED BY <1>0, <1>1, SoloEnqueue

(***************************************************************************)
(* Where the instructions are                                              *)
(***************************************************************************)

\* <<g, m>> is the place after <<f, n>>.
After(f, n, g, m) == IF n = Len(Code[f]) THEN g = "idle" /\ m = 1 ELSE g = f /\ m = n + 1

\* What the main thread's next place says, compared with the one it leaves.
QuietPlace(f, n, g, m) ==
    /\ Out(f, n) => Out(g, m)
    /\ Relinked(g, m) => Relinked(f, n)
    /\ Unset(f, n) => Unset(g, m) \/ (f \in {"m2i", "kill_mast"} /\ n >= 5)
    /\ Exposed(g, m) => Exposed(f, n)
    /\ g = "b2m" => f = "b2m"
    /\ g = "i2m" => f = "i2m" /\ (m <= 2 => n <= 2) /\ (m >= 3 => n >= 3)
    /\ (g \in {"m2i", "kill_mast"} /\ m >= 5) => (f = g /\ n >= 5)

LEMMA QuietPlaces ==
    ASSUME NEW f \in Functions \ HandlerCode, NEW n \in 1 .. Len(Code[f]), NEW g, NEW m,
           After(f, n, g, m),
           Code[f][n] \in {"lock", "unlock", "fork", "stop", "kill", "unlink"}
    PROVE  QuietPlace(f, n, g, m)
<1>1. CASE f = "idle"
  BY <1>1 DEF Code, After, QuietPlace, Out, Relinked, Unset, Exposed
<1>2. CASE f = "i2m"
  BY <1>2 DEF Code, After, QuietPlace, Out, Relinked, Unset, Exposed
<1>3. CASE f = "i2b"
  BY <1>3 DEF Code, After, QuietPlace, Out, Relinked, Unset, Exposed
<1>4. CASE f = "m2i"
  BY <1>4 DEF Code, After, QuietPlace, Out, Relinked, Unset, Exposed
<1>5. CASE f = "b2i"
  BY <1>5 DEF Code, After, QuietPlace, Out, Relinked, Unset, Exposed
<1>6. CASE f = "b2m"
  BY <1>6 DEF Code, After, QuietPlace, Out, Relinked, Unset, Exposed
<1>7. CASE f = "m2b"
  BY <1>7 DEF Code, After, QuietPlace, Out, Relinked, Unset, Exposed
<1>8. CASE f = "kill_mast"
  BY <1>8 DEF Code, After, QuietPlace, Out, Relinked, Unset, Exposed
<1>9. CASE f = "kill_mast_wild"
  BY <1>9 DEF Code, After, QuietPlace, Out, Relinked, Unset, Exposed
<1>10. CASE f = "kill_other"
  BY <1>10 DEF Code, After, QuietPlace, Out, Relinked, Unset, Exposed
<1>11. CASE f = "kill_other_wild"
  BY <1>11 DEF Code, After, QuietPlace, Out, Relinked, Unset, Exposed
<1>12. CASE f = "modify"
  BY <1>12 DEF Code, After, QuietPlace, Out, Relinked, Unset, Exposed
<1>13. CASE f = "modify_wild"
  BY <1>13 DEF Code, After, QuietPlace, Out, Relinked, Unset, Exposed
<1>14. CASE f = "adv_back"
  BY <1>14 DEF Code, After, QuietPlace, Out, Relinked, Unset, Exposed
<1> QED
  BY <1>1, <1>2, <1>3, <1>4, <1>5, <1>6, <1>7, <1>8, <1>9, <1>10,
     <1>11, <1>12, <1>13, <1>14, EachFunction DEF HandlerCode

LEMMA MainPlaces ==
    ASSUME NEW f \in Functions \ HandlerCode, NEW n \in 1 .. Len(Code[f]), NEW g, NEW m,
           After(f, n, g, m)
    PROVE  /\ Code[f][n] = "mast" =>
                 g = f /\ m = n + 1 /\ ((f = "i2m" /\ n = 4) \/ (f = "b2m" /\ n = 10))
           /\ Code[f][n] = "back" =>
                 g = f /\ m = n + 1 /\ ((f = "i2b" /\ n = 4) \/ (f = "m2b" /\ n = 5))
           /\ Code[f][n] = "init" =>
                 \/ n = 4 /\ f \in {"m2i", "kill_mast"} /\ g = f /\ m = 5
                 \/ n = 4 /\ f = "b2i" /\ g = "idle" /\ m = 1
           /\ Code[f][n] = "alarm" =>
                 g = "idle" /\ m = 1 /\ ((f = "i2m" /\ n = 6) \/ (f = "b2m" /\ n = 12))
           /\ Code[f][n] = "rmqueue" =>
                 /\ n = 2 /\ f \in {"m2i", "b2i", "m2b", "kill_mast", "adv_back"}
                 /\ g = f /\ m = 3
           /\ Code[f][n] = "rmlinked" =>
                 /\ g = f /\ m = n + 1
                 /\ (f = "kill_mast" /\ n = 8) \/ (f = "kill_other" /\ n = 2)
           /\ Code[f][n] \in {"enqueue", "enqueue3"} =>
                 /\ g = f /\ m = n + 1
                 /\ \/ n = 2 /\ f \in {"i2m", "i2b"}
                    \/ n = 3 /\ f \in {"m2b", "adv_back"}
           /\ Code[f][n] = "requeue" => f = "modify" /\ n = 2 /\ g = f /\ m = 3
           /\ Code[f][n] = "sleep" =>
                 /\ g = "idle" /\ m = 1
                 /\ (f = "i2b" /\ n = 5) \/ (f = "m2b" /\ n = 8)
           /\ f = "b2m" => Len(Code[f]) = 12
           /\ Code[f][n] \notin {"send", "alarmnext", "dequeue", "more", "is_mast", "is_back", "again"}
           /\ Code[f][n] = "bypass" => f = "b2m" /\ n = 1
           /\ Code[f][n] = "relink" => f = "b2m" /\ n = 2
           /\ Code[f][n] = "clrnext" => f = "b2m" /\ n = 3
           /\ Code[f][n] = "clrprev" => f = "b2m" /\ n = 4
           /\ Code[f][n] = "head" => f = "b2m" /\ n = 5
           /\ Code[f][n] = "join" => f = "b2m" /\ n = 6
           /\ Code[f][n] = "linkback" => f = "b2m" /\ n = 7
           /\ Code[f][n] = "inherit" => f = "b2m" /\ n = 8
           /\ Code[f][n] = "publish" => f = "b2m" /\ n = 9
<1>1. CASE f = "idle"
  BY <1>1 DEF Code, After
<1>2. CASE f = "i2m"
  BY <1>2 DEF Code, After
<1>3. CASE f = "i2b"
  BY <1>3 DEF Code, After
<1>4. CASE f = "m2i"
  BY <1>4 DEF Code, After
<1>5. CASE f = "b2i"
  BY <1>5 DEF Code, After
<1>6. CASE f = "b2m"
  BY <1>6 DEF Code, After
<1>7. CASE f = "m2b"
  BY <1>7 DEF Code, After
<1>8. CASE f = "kill_mast"
  BY <1>8 DEF Code, After
<1>9. CASE f = "kill_mast_wild"
  BY <1>9 DEF Code, After
<1>10. CASE f = "kill_other"
  BY <1>10 DEF Code, After
<1>11. CASE f = "kill_other_wild"
  BY <1>11 DEF Code, After
<1>12. CASE f = "modify"
  BY <1>12 DEF Code, After
<1>13. CASE f = "modify_wild"
  BY <1>13 DEF Code, After
<1>14. CASE f = "adv_back"
  BY <1>14 DEF Code, After
<1> QED
  BY <1>1, <1>2, <1>3, <1>4, <1>5, <1>6, <1>7, <1>8, <1>9, <1>10,
     <1>11, <1>12, <1>13, <1>14, EachFunction DEF HandlerCode

LEMMA HandlerPlaces ==
    ASSUME NEW f \in HandlerCode, NEW n \in 1 .. Len(Code[f]), f # "x_loop"
    PROVE  /\ f = "expire" => Len(Code[f]) = 2
           /\ f = "x_entry" => Len(Code[f]) = 7
           /\ f = "x_mast" => Len(Code[f]) = 8
           /\ f = "x_back" => Len(Code[f]) = 19
           /\ f \in {"x_none", "x_done"} => Len(Code[f]) = 1
           /\ Code[f][n] = "lock" => f = "expire" /\ n = 1
           /\ Code[f][n] = "dequeue" => f = "expire" /\ n = 2
           /\ Code[f][n] = "unlock" => f = "x_done" /\ n = 1
           /\ Code[f][n] = "send" => f = "x_mast" /\ n = 1
           /\ Code[f][n] = "mast" => f = "x_back" /\ n = 10
           /\ Code[f][n] = "fork" => f = "x_back" /\ n = 11
           /\ Code[f][n] = "alarm" => f = "x_back" /\ n = 12
           /\ Code[f][n] = "alarmnext" => (f = "x_mast" /\ n = 7) \/ (f = "x_back" /\ n = 18)
           /\ Code[f][n] = "bypass" => f \in {"x_entry", "x_back"} /\ n = 1
           /\ Code[f][n] = "relink" => f \in {"x_entry", "x_back"} /\ n = 2
           /\ Code[f][n] = "clrnext" => f \in {"x_entry", "x_back"} /\ n = 3
           /\ Code[f][n] = "clrprev" => f \in {"x_entry", "x_back"} /\ n = 4
           /\ Code[f][n] = "head" => (f = "x_mast" /\ n = 2) \/ (f = "x_back" /\ n \in {5, 13})
           /\ Code[f][n] = "join" => (f = "x_mast" /\ n = 3) \/ (f = "x_back" /\ n \in {6, 14})
           /\ Code[f][n] = "linkback" => (f = "x_mast" /\ n = 4) \/ (f = "x_back" /\ n \in {7, 15})
           /\ Code[f][n] = "inherit" => (f = "x_mast" /\ n = 5) \/ (f = "x_back" /\ n \in {8, 16})
           /\ Code[f][n] = "publish" => (f = "x_mast" /\ n = 6) \/ (f = "x_back" /\ n \in {9, 17})
           /\ Code[f][n] = "more" => f = "x_entry" /\ n = 5
           /\ Code[f][n] = "is_mast" => f = "x_entry" /\ n = 6
           /\ Code[f][n] = "is_back" => f = "x_entry" /\ n = 7
           /\ Code[f][n] = "again" =>
                 (f = "x_mast" /\ n = 8) \/ (f = "x_back" /\ n = 19) \/ f = "x_none"
           /\ Code[f][n] \notin {"back", "init", "stop"}
<1>1. CASE f = "expire"
  BY <1>1 DEF Code
<1>2. CASE f = "x_loop"
  BY <1>2 DEF Code
<1>3. CASE f = "x_entry"
  BY <1>3 DEF Code
<1>4. CASE f = "x_mast"
  BY <1>4 DEF Code
<1>5. CASE f = "x_back"
  BY <1>5 DEF Code
<1>6. CASE f = "x_none"
  BY <1>6 DEF Code
<1>7. CASE f = "x_done"
  BY <1>7 DEF Code
<1> QED
  BY <1>1, <1>2, <1>3, <1>4, <1>5, <1>6, <1>7 DEF HandlerCode

(***************************************************************************)
(* Steps of the main thread, which are taken while there is no handler     *)
(***************************************************************************)
LEMMA MainMoves ==
    ASSUME NEW v \in Vr, Ready(v), Advance("main")
    PROVE  /\ prog["main"] \in Functions \ HandlerCode
           /\ at["main"] \in 1 .. Len(Code[prog["main"]]) /\ at["main"] \in Nat
           /\ After(prog["main"], at["main"], prog'["main"], at'["main"])
           /\ prog'["alrm"] = prog["alrm"] /\ at'["alrm"] = at["alrm"] /\ ent'["alrm"] = ent["alrm"]
           /\ prog'["main"] # "idle" => ent'["main"] = ent["main"]
<1>0. "main" \in Thread /\ "alrm" \in Thread /\ "alrm" # "main"
  BY DEF Thread
<1>1. prog["main"] \in Functions \ HandlerCode /\ at["main"] \in 1 .. Len(Code[prog["main"]])
  BY <1>0 DEF Ready, Control, Places, Roles
<1>2. at["main"] \in Nat
  BY <1>0 DEF Ready, Control, Places
<1>3. After(prog["main"], at["main"], prog'["main"], at'["main"])
  BY <1>0 DEF Advance, Last, After, Ready, Control, Places
<1>4. /\ prog'["alrm"] = prog["alrm"] /\ at'["alrm"] = at["alrm"] /\ ent'["alrm"] = ent["alrm"]
      /\ prog'["main"] # "idle" => ent'["main"] = ent["main"]
  BY <1>0 DEF Advance, Ready, Control, Places
<1> QED BY <1>1, <1>2, <1>3, <1>4

\* What has to be shown after a step of the main thread: the handler's part is empty.
Calm(v) == /\ OwnQueue(v) /\ OwnThreads(v) /\ MainOk(v)
           /\ (/\ state[v] = "MAST" \/ Relinked(prog["main"], at["main"])
               /\ ~Out(prog["main"], at["main"])) => q.head = v
           /\ (state[v] = "MAST" /\ ~Unset(prog["main"], at["main"])) => armed
           /\ (state[v] = "MAST" /\ Exposed(prog["main"], at["main"])) => q.head = v /\ Self(v)

LEMMA CalmIsOk ==
    ASSUME NEW v \in Vr, prog["alrm"] = "idle", SoloOk(v)
    PROVE  Calm(v)
<1> DEFINE f == prog["main"]
           n == at["main"]
<1>1. ~Taken(prog["alrm"], at["alrm"]) /\ ~Acting(prog["alrm"], at["alrm"])
  BY DEF Taken, Acting
<1>2. Twice(v) <=> ((state[v] = "MAST" /\ Exposed(f, n)) => q.head = v /\ Self(v))
  BY DEF Twice, Doubled
<1>3. HandlerOk(v)
  BY DEF HandlerOk
<1>4. InQueue(v) <=> (((state[v] = "MAST" \/ Relinked(f, n)) /\ ~Out(f, n)) => q.head = v)
  BY <1>1, Zenon DEF InQueue
<1>5. AlarmSet(v) <=> ((state[v] = "MAST" /\ ~Unset(f, n)) => armed)
  BY <1>1, Zenon DEF AlarmSet
<1> QED BY <1>2, <1>3, <1>4, <1>5, Zenon DEF SoloOk, Calm

LEMMA CalmIsOkNext ==
    ASSUME NEW v \in Vr, prog'["alrm"] = "idle", Calm(v)'
    PROVE  SoloOk(v)'
<1> DEFINE f == prog'["main"]
           n == at'["main"]
<1>1. ~Taken(prog'["alrm"], at'["alrm"]) /\ ~Acting(prog'["alrm"], at'["alrm"])
  BY DEF Taken, Acting
<1>2. Twice(v)' <=> ((state'[v] = "MAST" /\ Exposed(f, n)) => q'.head = v /\ Self(v)')
  BY DEF Twice, Doubled
<1>3. HandlerOk(v)'
  BY DEF HandlerOk
<1>4. InQueue(v)' <=> (((state'[v] = "MAST" \/ Relinked(f, n)) /\ ~Out(f, n)) => q'.head = v)
  BY <1>1, Zenon DEF InQueue
<1>5. AlarmSet(v)' <=> ((state'[v] = "MAST" /\ ~Unset(f, n)) => armed')
  BY <1>1, Zenon DEF AlarmSet
<1>6. OwnQueue(v)' /\ OwnThreads(v)' /\ MainOk(v)'
  BY DEF Calm
<1>7. ((state'[v] = "MAST" \/ Relinked(f, n)) /\ ~Out(f, n)) => q'.head = v
  BY DEF Calm
<1>8. (state'[v] = "MAST" /\ ~Unset(f, n)) => armed'
  BY DEF Calm
<1>9. (state'[v] = "MAST" /\ Exposed(f, n)) => q'.head = v /\ Self(v)'
  BY DEF Calm
<1>10. InQueue(v)'
  BY <1>4, <1>7
<1>11. AlarmSet(v)'
  <2> HIDE DEF f, n
  <2> QED BY <1>5, <1>8, Zenon
<1>12. Twice(v)'
  BY <1>2, <1>9
<1> QED BY <1>3, <1>6, <1>10, <1>11, <1>12 DEF SoloOk

\* Nothing moves but the place.
SameSolo == /\ state' = state /\ q' = q /\ armed' = armed
            /\ delay' = delay /\ curr' = curr /\ more' = more /\ nxt' = nxt

LEMMA OwnThreadsMoves ==
    ASSUME NEW v \in Vr, Ready(v), Advance("main"),
           \A t \in Thread : curr'[t] \in {NULL, EMPTY, v},
           delay' = delay, more' = more, nxt' = nxt
    PROVE  OwnThreads(v)'
<1>1. \A t \in Thread : prog'[t] \notin {"idle", "expire", "x_loop", "x_done"} => ent'[t] = v
  <2>1. prog'["main"] \in {"idle", prog["main"]} /\ OwnThreads(v)
    BY MainMoves DEF After, Ready, SoloOk
  <2> QED BY <2>1, MainMoves DEF Thread, OwnThreads
<1>2. delay[v] > 0 /\ ~more /\ nxt = NULL /\ prog'["alrm"] # "x_loop"
  BY MainMoves DEF Ready, SoloOk, OwnThreads
<1> QED BY <1>1, <1>2 DEF OwnThreads

LEMMA QuietMain ==
    ASSUME NEW v \in Vr, Ready(v), prog["alrm"] = "idle", Advance("main"), SameSolo,
           Op("main") \in {"lock", "unlock", "fork", "stop", "kill", "unlink"}
    PROVE  SoloOk(v)'
<1> DEFINE f == prog["main"]
           n == at["main"]
           g == prog'["main"]
           m == at'["main"]
<1>1. QuietPlace(f, n, g, m) /\ n \in Nat /\ prog'["alrm"] = "idle"
  BY MainMoves, QuietPlaces DEF Op
<1>2. Calm(v)
  BY CalmIsOk DEF Ready
<1>3. OwnThreads(v)'
  BY <1>2, OwnThreadsMoves DEF SameSolo, Calm, OwnThreads
<1>4. OwnQueue(v)'
  BY <1>2 DEF SameSolo, Calm, OwnQueue
<1>5. MainOk(v)'
  BY <1>1, <1>2 DEF SameSolo, Calm, MainOk, QuietPlace
<1>6. (state[v] = "MAST" \/ Relinked(g, m)) /\ ~Out(g, m) => q.head = v
  BY <1>1, <1>2 DEF Calm, QuietPlace
<1>7. (state[v] = "MAST" /\ ~Unset(g, m)) => armed
  BY <1>1, <1>2 DEF Calm, QuietPlace, MainOk
<1>8. (state[v] = "MAST" /\ Exposed(g, m)) => q.head = v /\ Self(v)
  BY <1>1, <1>2 DEF Calm, QuietPlace
<1>9. Calm(v)'
  BY <1>3, <1>4, <1>5, <1>6, <1>7, <1>8 DEF Calm, SameSolo, Self
<1> QED BY <1>1, <1>9, CalmIsOkNext

\* Whatever the main thread works on is v.
LEMMA MainEntry ==
    ASSUME NEW v \in Vr, Ready(v)
    PROVE  /\ prog["main"] # "idle" => ent["main"] = v
           /\ prog["main"] \in Functions \ HandlerCode /\ at["main"] \in 1 .. Len(Code[prog["main"]])
           /\ v # NULL /\ delay[v] > 0 /\ delay[v] \in Nat
<1>1. prog["main"] \in Functions \ HandlerCode /\ at["main"] \in 1 .. Len(Code[prog["main"]])
  BY DEF Ready, Control, Places, Roles, Thread
<1>2. prog["main"] # "idle" => ent["main"] = v
  BY <1>1 DEF Ready, SoloOk, OwnThreads, Thread, HandlerCode
<1>3. v # NULL /\ delay[v] > 0 /\ delay[v] \in Nat
  BY NullAssumption DEF Ready, SoloOk, OwnThreads, Data
<1> QED BY <1>1, <1>2, <1>3

\* A step of the main thread that goes on in its function, and what is left to show of it.
LEMMA MainNext ==
    ASSUME NEW v \in Vr, Ready(v), prog["alrm"] = "idle", Advance("main"),
           \A t \in Thread : curr'[t] \in {NULL, EMPTY, v},
           delay' = delay, more' = more, nxt' = nxt, OwnQueue(v)', MainOk(v)',
           (/\ state'[v] = "MAST" \/ Relinked(prog'["main"], at'["main"])
            /\ ~Out(prog'["main"], at'["main"])) => q'.head = v,
           (state'[v] = "MAST" /\ ~Unset(prog'["main"], at'["main"])) => armed',
           (state'[v] = "MAST" /\ Exposed(prog'["main"], at'["main"])) => q'.head = v /\ Self(v)'
    PROVE  SoloOk(v)'
<1>1. prog'["alrm"] = "idle"
  BY MainMoves
<1>2. OwnThreads(v)'
  BY OwnThreadsMoves
<1>3. Calm(v)'
  BY <1>2, Zenon DEF Calm
<1> QED BY <1>1, <1>3, CalmIsOkNext

\* mast, back and init
LEMMA MainState ==
    ASSUME NEW v \in Vr, Ready(v), prog["alrm"] = "idle", DoState("main")
    PROVE  SoloOk(v)'
<1> DEFINE f == prog["main"]
           n == at["main"]
           g == prog'["main"]
           m == at'["main"]
<1>1. /\ Advance("main") /\ prog'["alrm"] = "idle" /\ q' = q /\ armed' = armed
      /\ \A t \in Thread : curr'[t] \in {NULL, EMPTY, v}
      /\ delay' = delay /\ more' = more /\ nxt' = nxt
  BY MainMoves DEF DoState, attrs, locals, Ready, SoloOk, OwnThreads
<1>2. After(f, n, g, m) /\ f \in Functions \ HandlerCode /\ n \in 1 .. Len(Code[f])
  BY <1>1, MainMoves
<1>3. Calm(v)
  BY CalmIsOk DEF Ready
<1>4. OwnQueue(v)'
  BY <1>1, <1>3 DEF Calm, OwnQueue
<1>5. ent["main"] = v /\ state \in [Vr -> States]
  <2>1. Code["idle"] = <<"wait">>
    BY DEF Code
  <2>2. f # "idle"
    BY <1>2, <2>1 DEF DoState, SetState, At
  <2> QED BY <2>2, MainEntry DEF Ready, Data
<1>6. CASE At("main", "mast")
  <2>1. g = f /\ m = n + 1 /\ ((f = "i2m" /\ n = 4) \/ (f = "b2m" /\ n = 10))
    BY <1>2, <1>6, MainPlaces DEF At
  <2>2. state'[v] = "MAST"
    BY <1>5, <1>6, <2>1 DEF DoState, SetState, At
  <2>3. q.head = v
    BY <1>3, <2>1 DEF Calm, MainOk, Relinked, Out
  <2>4. Unset(g, m) /\ ~Exposed(g, m)
    BY <2>1 DEF Unset, Exposed
  <2>5. MainOk(v)'
    <3>1. CASE f = "i2m"
      BY <1>1, <1>3, <2>1, <2>3, <3>1 DEF Calm, MainOk, Exposed
    <3>2. CASE f = "b2m"
      BY <2>1, <2>2, <3>2 DEF MainOk, Exposed
    <3> QED BY <2>1, <3>1, <3>2
  <2> HIDE DEF f, n, g, m
  <2> QED BY <1>1, <1>4, <2>3, <2>4, <2>5, MainNext DEF g, m
<1>7. CASE At("main", "back")
  <2>1. g = f /\ m = n + 1 /\ ((f = "i2b" /\ n = 4) \/ (f = "m2b" /\ n = 5))
    BY <1>2, <1>7, MainPlaces DEF At
  <2>2. state'[v] = "BACK"
    BY <1>5, <1>7, <2>1 DEF DoState, SetState, At
  <2>3. ~Relinked(g, m)
    BY <2>1 DEF Relinked
  <2>4. MainOk(v)'
    BY <2>1, <2>2 DEF MainOk, Exposed
  <2> HIDE DEF f, n, g, m
  <2> QED BY <1>1, <1>4, <2>2, <2>3, <2>4, MainNext DEF g, m
<1>8. CASE At("main", "init")
  <2>1. \/ n = 4 /\ f \in {"m2i", "kill_mast"} /\ g = f /\ m = 5
        \/ n = 4 /\ f = "b2i" /\ g = "idle" /\ m = 1
    BY <1>2, <1>8, MainPlaces DEF At
  <2>2. state'[v] = "INIT"
    BY <1>5, <1>8, <2>1 DEF DoState, SetState, At
  <2>3. ~Relinked(g, m)
    BY <2>1 DEF Relinked
  <2>4. MainOk(v)'
    BY <2>1, <2>2 DEF MainOk, Exposed
  <2> HIDE DEF f, n, g, m
  <2> QED BY <1>1, <1>4, <2>2, <2>3, <2>4, MainNext DEF g, m
<1> QED BY <1>6, <1>7, <1>8 DEF DoState, SetState

\* alarm
LEMMA MainAlarm ==
    ASSUME NEW v \in Vr, Ready(v), prog["alrm"] = "idle", DoAlarm("main")
    PROVE  SoloOk(v)'
<1> DEFINE f == prog["main"]
           n == at["main"]
           g == prog'["main"]
           m == at'["main"]
<1>1. /\ Advance("main") /\ prog'["alrm"] = "idle" /\ q' = q /\ state' = state
      /\ \A t \in Thread : curr'[t] \in {NULL, EMPTY, v}
      /\ delay' = delay /\ more' = more /\ nxt' = nxt
  BY MainMoves DEF DoAlarm, attrs, locals, Ready, SoloOk, OwnThreads
<1>2. After(f, n, g, m) /\ f \in Functions \ HandlerCode /\ n \in 1 .. Len(Code[f])
  BY <1>1, MainMoves
<1>3. Calm(v)
  BY CalmIsOk DEF Ready
<1>4. OwnQueue(v)'
  BY <1>1, <1>3 DEF Calm, OwnQueue
<1>5. Op("main") = "alarm" /\ armed' = (delay[ent["main"]] > 0)
  BY <1>2, MainPlaces DEF DoAlarm, At, Op
<1>6. g = "idle" /\ m = 1 /\ ((f = "i2m" /\ n = 6) \/ (f = "b2m" /\ n = 12))
  BY <1>2, <1>5, MainPlaces DEF Op
<1>7. armed'
  <2>1. ent["main"] = v
    BY <1>6, MainEntry
  <2> QED BY <1>5, <2>1, MainEntry
<1>8. q.head = v
  BY <1>3, <1>6 DEF Calm, MainOk, Relinked, Out
<1>9. ~Exposed(g, m)
  BY <1>6 DEF Exposed
<1>10. MainOk(v)'
  BY <1>6 DEF MainOk, Exposed
<1> HIDE DEF f, n, g, m
<1> QED BY <1>1, <1>4, <1>7, <1>8, <1>9, <1>10, MainNext DEF g, m

\* vrrp_rmqueue and vrrp_enqueue, called by the main thread
LEMMA MainCall ==
    ASSUME NEW v \in Vr, Ready(v), prog["alrm"] = "idle", Advance("main"),
           state' = state, armed' = armed, delay' = delay, UNCHANGED locals,
           \/ Op("main") = "rmqueue" /\ q' = vrrp_rmqueue_impl(q, v)
           \/ Op("main") \in {"enqueue", "enqueue3"} /\ q' = vrrp_enqueue_impl(q, v)
           \/ Op("main") = "rmlinked" /\ q'.head = q.head /\ OwnQueue(v)'
    PROVE  SoloOk(v)'
<1> DEFINE f == prog["main"]
           n == at["main"]
           g == prog'["main"]
           m == at'["main"]
<1>1. /\ \A t \in Thread : curr'[t] \in {NULL, EMPTY, v}
      /\ more' = more /\ nxt' = nxt /\ prog'["alrm"] = "idle"
  BY MainMoves DEF locals, Ready, SoloOk, OwnThreads
<1>2. After(f, n, g, m) /\ f \in Functions \ HandlerCode /\ n \in 1 .. Len(Code[f])
  BY MainMoves
<1>3. Calm(v) /\ q \in Queues
  BY CalmIsOk DEF Ready, Data
<1>4. q.head \in {NULL, v} /\ q.next[v] \in {NULL, v} /\ q.prev[v] \in {NULL, v}
  BY <1>3 DEF Calm, OwnQueue
<1>5. CASE Op("main") = "rmqueue" /\ q' = vrrp_rmqueue_impl(q, v)
  <2>1. /\ n = 2 /\ f \in {"m2i", "b2i", "m2b", "kill_mast", "adv_back"}
        /\ g = f /\ m = 3
    BY <1>2, <1>5, MainPlaces DEF Op
  <2>2. OwnQueue(v)'
    BY <1>3, <1>4, <1>5, SoloCalls DEF OwnQueue
  <2>3. Out(g, m) /\ ~Exposed(g, m) /\ (Unset(f, n) => Unset(g, m))
    BY <2>1 DEF Out, Exposed, Unset
  <2>4. MainOk(v)'
    BY <2>1 DEF MainOk, Exposed
  <2>5. (state[v] = "MAST" /\ ~Unset(g, m)) => armed
    BY <1>3, <2>3, Zenon DEF Calm
  <2> HIDE DEF f, n, g, m
  <2> QED BY <1>1, <2>2, <2>3, <2>4, <2>5, MainNext DEF g, m
<1>6. CASE Op("main") \in {"enqueue", "enqueue3"} /\ q' = vrrp_enqueue_impl(q, v)
  <2>1. /\ g = f /\ m = n + 1
        /\ \/ n = 2 /\ f \in {"i2m", "i2b"}
           \/ n = 3 /\ f \in {"m2b", "adv_back"}
    BY <1>2, <1>6, MainPlaces DEF Op
  <2>2. OwnQueue(v)' /\ q'.head = v
    BY <1>3, <1>4, <1>6, SoloCalls DEF OwnQueue
  <2>3. ~Exposed(g, m) /\ (Unset(f, n) => Unset(g, m))
    BY <2>1 DEF Exposed, Unset
  <2>4. MainOk(v)'
    BY <1>1, <1>3, <2>1, <2>2 DEF MainOk, Exposed, Calm
  <2>5. (state[v] = "MAST" /\ ~Unset(g, m)) => armed
    BY <1>3, <2>3, Zenon DEF Calm
  <2> HIDE DEF f, n, g, m
  <2> QED BY <1>1, <2>2, <2>3, <2>4, <2>5, MainNext DEF g, m
<1>7. CASE Op("main") = "rmlinked" /\ q'.head = q.head /\ OwnQueue(v)'
  <2>1. g = f /\ m = n + 1 /\ ((f = "kill_mast" /\ n = 8) \/ (f = "kill_other" /\ n = 2))
    BY <1>2, <1>7, MainPlaces DEF Op
  <2>2. ~Out(f, n) /\ ~Relinked(g, m) /\ ~Exposed(g, m) /\ (Unset(f, n) => Unset(g, m))
    BY <2>1 DEF Out, Relinked, Exposed, Unset
  <2>3. MainOk(v)'
    BY <1>3, <2>1 DEF MainOk, Exposed, Calm
  <2>4. (state[v] = "MAST" /\ ~Unset(g, m)) => armed
    BY <1>3, <2>2, Zenon DEF Calm
  <2>5. state[v] = "MAST" => q.head = v
    BY <1>3, <2>2 DEF Calm
  <2> HIDE DEF f, n, g, m
  <2> QED BY <1>1, <1>7, <2>2, <2>3, <2>4, <2>5, MainNext DEF g, m
<1> QED BY <1>5, <1>6, <1>7

LEMMA MainRmqueue ==
    ASSUME NEW v \in Vr, Ready(v), prog["alrm"] = "idle", DoRmqueue, up' = up
    PROVE  SoloOk(v)'
<1>1. q \in Queues /\ q.head \in {NULL, v} /\ q.next[v] \in {NULL, v} /\ q.prev[v] \in {NULL, v}
  BY DEF Ready, Data, SoloOk, OwnQueue
<1>2. ASSUME NEW op, NEW qq, NEW crash, QueueStep("main", op, qq, crash),
             op \in {"rmqueue", "rmlinked"}
      PROVE  /\ Op("main") = op /\ ent["main"] = v /\ Advance("main") /\ q' = qq /\ ~crash
             /\ state' = state /\ armed' = armed /\ delay' = delay /\ UNCHANGED locals
  <2>1. up' # "queue"
    BY DEF Ready
  <2>2. ~crash
    BY <1>2, <2>1 DEF QueueStep, Segv
  <2>3. Op("main") = op
    BY <1>2 DEF QueueStep, At, Op
  <2>4. prog["main"] # "idle"
    BY <1>2, <2>3, SMTT(40) DEF Op, Code, Ready, Control, Places, Thread
  <2>5. curr' = curr
    BY <1>2, <2>2 DEF QueueStep, Ready, Control, Currs
  <2> QED BY <1>2, <2>2, <2>3, <2>4, <2>5, MainEntry DEF QueueStep, attrs, locals
<1>3. CASE QueueStep("main", "rmqueue", vrrp_rmqueue_impl(q, ent["main"]),
                     RmqueueCrashes(q, ent["main"]))
  <2>1. ent["main"] = v
    BY <1>2, <1>3
  <2> QED BY <1>2, <1>3, <2>1, MainCall
<1>4. CASE QueueStep("main", "rmlinked",
                     IF Linked(q, ent["main"]) THEN vrrp_rmqueue_impl(q, ent["main"]) ELSE q,
                     RmqueueCrashes(q, ent["main"]))
  <2>1. ent["main"] = v /\ ~RmqueueCrashes(q, ent["main"])
    BY <1>2, <1>4
  <2>2. q' = IF Linked(q, v) THEN vrrp_rmqueue_impl(q, v) ELSE q
    BY <1>2, <1>4, <2>1
  <2>3. q'.head = q.head /\ OwnQueue(v)'
    <3>1. CASE Linked(q, v)
      BY <1>1, <2>1, <2>2, <3>1, SoloCalls DEF Linked, RmqueueCrashes, RelinkCrashes, OwnQueue
    <3>2. CASE ~Linked(q, v)
      BY <1>1, <2>2, <3>2 DEF OwnQueue
    <3> QED BY <3>1, <3>2
  <2> QED BY <1>2, <1>4, <2>3, MainCall
<1> QED BY <1>3, <1>4 DEF DoRmqueue

LEMMA MainEnqueues ==
    ASSUME NEW v \in Vr, Ready(v), prog["alrm"] = "idle", DoEnqueue
    PROVE  SoloOk(v)'
<1>1. ASSUME NEW op \in {"enqueue", "enqueue3"}, NEW qq, NEW clocks, MainEnqueue(op, qq, clocks)
      PROVE  /\ Op("main") = op /\ ent["main"] = v /\ Advance("main") /\ q' = qq
             /\ state' = state /\ delay' = delay /\ UNCHANGED locals
             /\ armed' \in clocks
  <2>1. Op("main") = op
    BY <1>1 DEF MainEnqueue, At, Op
  <2>2. prog["main"] # "idle"
    BY <1>1, <2>1, SMTT(40) DEF Op, Code, Ready, Control, Places, Thread
  <2> QED BY <1>1, <2>1, <2>2, MainEntry DEF MainEnqueue, attrs
<1>2. PICK op \in {"enqueue", "enqueue3"}, zero \in BOOLEAN :
         /\ MainEnqueue(op, vrrp_enqueue_impl(q, ent["main"]), ArmedAfter(q, zero))
         /\ zero => delay[ent["main"]] = 0
  BY DEF DoEnqueue
<1>3. zero = FALSE
  BY <1>1, <1>2, MainEntry
<1>4. armed' = armed
  BY <1>1, <1>2, <1>3 DEF ArmedAfter
<1> QED BY <1>1, <1>2, <1>4, MainCall

\* Where the main thread is when it removes and adds, and when it sleeps.
LEMMA MainWhere ==
    ASSUME NEW v \in Vr, Ready(v)
    PROVE  /\ Op("main") = "requeue" => prog["main"] = "modify" /\ at["main"] = 2
           /\ Op("main") = "sleep" => \/ prog["main"] = "i2b" /\ at["main"] = 5
                                      \/ prog["main"] = "m2b" /\ at["main"] = 8
<1> DEFINE f == prog["main"]
           n == at["main"]
           g == IF n = Len(Code[f]) THEN "idle" ELSE f
           m == IF n = Len(Code[f]) THEN 1 ELSE n + 1
<1>1. f \in Functions \ HandlerCode /\ n \in 1 .. Len(Code[f])
  BY MainEntry
<1>2. After(f, n, g, m)
  BY DEF After
<1> HIDE DEF f, n, g, m
<1>3. /\ Code[f][n] = "requeue" => f = "modify" /\ n = 2
      /\ Code[f][n] = "sleep" => (f = "i2b" /\ n = 5) \/ (f = "m2b" /\ n = 8)
  BY <1>1, <1>2, MainPlaces
<1> QED BY <1>3 DEF Op, f, n

\* The only VR is all the queue can hold, so the search of vrrp_enqueue has one place to
\* stop.
LEMMA SoloChain ==
    ASSUME NEW v \in Vr, NEW qq, qq.head \in {NULL, v}, qq.next[v] \in {NULL, v}
    PROVE  Chain(qq) \subseteq {v} /\ (qq.head = NULL => Chain(qq) = {})
<1>1. ASSUME NEW c \in Chain(qq) PROVE c = v /\ qq.head # NULL
  <2>1. v # NULL
    BY NullAssumption
  <2>2. c \in {v}
    <3>1. {v} \in SUBSET Vr
      OBVIOUS
    <3>2. qq.head \in {v} \cup {NULL} /\ \A u \in {v} : qq.next[u] \in {v} \cup {NULL}
      OBVIOUS
    <3> QED BY <3>1, <3>2 DEF Chain
  <2>3. qq.head # NULL
    <3>1. SUFFICES ASSUME qq.head = NULL PROVE FALSE
      OBVIOUS
    <3>2. {} \in SUBSET Vr /\ qq.head \in {} \cup {NULL} /\ \A u \in {} : qq.next[u] \in {} \cup {NULL}
      BY <3>1
    <3>3. c \in {}
      BY <3>2 DEF Chain
    <3> QED BY <3>3
  <2> QED BY <2>2, <2>3
<1> QED BY <1>1

\* What vrrp_set_inst_prop does to the only VR: only in INIT, where the timeout is a
\* leftover, may it touch the clock.
LEMMA SoloRequeue ==
    ASSUME NEW v \in Vr, DoRequeue, up' # "queue", ent["main"] = v, delay[v] # 0,
           q \in Queues, q.head \in {NULL, v}, q.next[v] \in {NULL, v}, q.prev[v] \in {NULL, v},
           armed \in BOOLEAN
    PROVE  \/ ~Linked(q, v) /\ MainEnqueue("requeue", q, {armed})
           \/ /\ Linked(q, v) /\ ~RmqueueCrashes(q, v)
              /\ \E clocks \in SUBSET BOOLEAN :
                    /\ MainEnqueue("requeue", vrrp_enqueue_impl(vrrp_rmqueue_impl(q, v), v), clocks)
                    /\ state[v] \in {"MAST", "BACK"} => clocks = {armed}
<1> DEFINE r == vrrp_rmqueue_impl(q, v)
<1>1. CASE ~Linked(q, v)
  BY <1>1 DEF DoRequeue
<1>2. CASE Linked(q, v)
  <2>1. ~RmqueueCrashes(q, v)
    BY <1>2 DEF DoRequeue, Segv
  <2>2. r.head \in {NULL, v} /\ r.next[v] = NULL
    BY SoloCalls
  <2>3. Chain(r) \subseteq {v} /\ (r.head = NULL => Chain(r) = {})
    BY <2>2, SoloChain
  <2>4. CASE state[v] \in {"MAST", "BACK"}
    <3>1. MainEnqueue("requeue", vrrp_enqueue_impl(r, v), ArmedAfter(r, FALSE))
      BY <1>2, <2>1, <2>4 DEF DoRequeue
    <3>2. ArmedAfter(r, FALSE) = {armed}
      BY DEF ArmedAfter
    <3> QED BY <1>2, <2>1, <3>1, <3>2
  <2>5. CASE state[v] \notin {"MAST", "BACK"}
    <3>1. EnqueueLeftover(r, v)
      BY <1>2, <2>1, <2>5 DEF DoRequeue
    <3> HIDE DEF r
    <3>2. ASSUME NEW c \in Chain(r), MainEnqueue("requeue", enqueueBefore(r, v, c), BOOLEAN)
          PROVE  MainEnqueue("requeue", vrrp_enqueue_impl(r, v), BOOLEAN)
      <4>1. c = v /\ r.head = v /\ v # NULL
        BY <2>2, <2>3, NullAssumption
      <4> QED BY <3>2, <4>1 DEF vrrp_enqueue_impl
    <3>3. MainEnqueue("requeue", vrrp_enqueue_impl(r, v), BOOLEAN)
      BY <3>1, <3>2 DEF EnqueueLeftover, Segv
    <3> QED BY <1>2, <2>1, <2>5, <3>3 DEF r
  <2> QED BY <2>4, <2>5
<1> QED BY <1>1, <1>2

\* vrrp_set_inst_prop: out of the queue and in again
LEMMA MainRequeue ==
    ASSUME NEW v \in Vr, Ready(v), prog["alrm"] = "idle", DoRequeue, up' = up
    PROVE  SoloOk(v)'
<1> DEFINE f == prog["main"]
           n == at["main"]
           g == prog'["main"]
           m == at'["main"]
           r == vrrp_rmqueue_impl(q, v)
<1>1. /\ q \in Queues /\ q.head \in {NULL, v} /\ q.next[v] \in {NULL, v} /\ q.prev[v] \in {NULL, v}
      /\ Calm(v)
  BY CalmIsOk DEF Ready, Data, SoloOk, OwnQueue
<1>2. Op("main") = "requeue"
  BY DEF DoRequeue, At, Op
<1>3. f = "modify" /\ n = 2
  BY <1>2, MainWhere
<1>4. ent["main"] = v /\ delay[v] # 0
  BY <1>3, MainEntry
<1>5. up' # "queue"
  BY DEF Ready
<1>6. /\ Advance("main") /\ state' = state /\ delay' = delay /\ UNCHANGED locals
      /\ \/ q' = q /\ armed' = armed
         \/ /\ q' = vrrp_enqueue_impl(r, v)
            /\ state[v] \in {"MAST", "BACK"} => armed' = armed
  BY <1>1, <1>4, <1>5, SoloRequeue DEF MainEnqueue, attrs, Ready, Data
<1>7. OwnQueue(v)' /\ q'.head \in {q.head, v}
  <2>1. CASE q' = q
    BY <1>1, <2>1 DEF OwnQueue
  <2>2. CASE q' = vrrp_enqueue_impl(r, v)
    <3>1. r \in Queues
      BY <1>1, CallTypes
    <3>2. r.head \in {NULL, v} /\ r.next[v] = NULL /\ r.prev[v] = NULL
      BY <1>1, SoloCalls
    <3> HIDE DEF r
    <3>3. /\ vrrp_enqueue_impl(r, v).head = v
          /\ vrrp_enqueue_impl(r, v).next[v] \in {NULL, v}
          /\ vrrp_enqueue_impl(r, v).prev[v] \in {NULL, v}
      BY <3>1, <3>2, SoloCalls
    <3> QED BY <2>2, <3>3 DEF OwnQueue
  <2> QED BY <1>6, <2>1, <2>2
<1>8. g = "modify" /\ m = 3
  <2>1. After(f, n, g, m) /\ f \in Functions \ HandlerCode /\ n \in 1 .. Len(Code[f])
    BY <1>6, MainMoves
  <2> QED BY <1>2, <2>1, MainPlaces DEF Op
<1>9. ~Out(f, n) /\ ~Relinked(g, m) /\ ~Exposed(g, m) /\ ~Unset(f, n)
  BY <1>3, <1>8 DEF Out, Relinked, Exposed, Unset
<1>10. MainOk(v)'
  BY <1>8 DEF MainOk, Exposed
<1>11. state[v] = "MAST" => q'.head = v
  BY <1>1, <1>7, <1>9 DEF Calm
<1>12. state[v] = "MAST" => armed
  BY <1>1, <1>9, Zenon DEF Calm
<1>13. ASSUME state[v] = "MAST" PROVE armed'
  <2>1. armed' = armed
    BY <1>6, <1>13
  <2>2. armed
    BY <1>12, <1>13
  <2> QED BY <2>1, <2>2
<1>14. \A t \in Thread : curr'[t] \in {NULL, EMPTY, v}
  BY <1>6 DEF locals, Ready, SoloOk, OwnThreads
<1> HIDE DEF f, n, g, m, r
<1> QED BY <1>6, <1>7, <1>9, <1>10, <1>11, <1>13, <1>14, MainNext DEF g, m, locals

\* sleep, and vrrp_state_b2m if no master was heard
LEMMA MainSleep ==
    ASSUME NEW v \in Vr, Ready(v), prog["alrm"] = "idle", DoSleep
    PROVE  SoloOk(v)'
<1> DEFINE f == prog["main"]
           n == at["main"]
           g == prog'["main"]
           m == at'["main"]
<1>1. /\ q' = q /\ state' = state /\ armed' = armed /\ delay' = delay /\ more' = more /\ nxt' = nxt
      /\ \A t \in Thread : curr'[t] \in {NULL, EMPTY, v}
  BY DEF DoSleep, attrs, locals, Ready, SoloOk, OwnThreads
<1>2. Calm(v)
  BY CalmIsOk DEF Ready
<1>3. OwnQueue(v)'
  BY <1>1, <1>2 DEF Calm, OwnQueue
<1>4. (f = "i2b" /\ n = 5) \/ (f = "m2b" /\ n = 8)
  BY MainWhere DEF DoSleep, At, Op
<1>5. Exposed(f, n) /\ ~Out(f, n) /\ ~Unset(f, n)
  BY <1>4 DEF Exposed, Out, Unset
<1>6. state[v] # "INIT" /\ (state[v] = "MAST" => q.head = v /\ Self(v))
  BY <1>2, <1>5 DEF Calm, MainOk
<1>7. state[v] = "MAST" => armed
  BY <1>2, <1>5, Zenon DEF Calm
<1>8. CASE Advance("main")
  <2>1. g = "idle" /\ m = 1
    <3>1. After(f, n, g, m) /\ f \in Functions \ HandlerCode /\ n \in 1 .. Len(Code[f])
      BY <1>8, MainMoves
    <3> QED BY <3>1, MainPlaces DEF DoSleep, At
  <2>2. ~Relinked(g, m) /\ ~Exposed(g, m)
    BY <2>1 DEF Relinked, Exposed
  <2>3. MainOk(v)'
    BY <2>1 DEF MainOk, Exposed
  <2> HIDE DEF f, n, g, m
  <2> QED BY <1>1, <1>3, <1>6, <1>7, <1>8, <2>2, <2>3, MainNext DEF g, m
<1>9. CASE Jump("main", "b2m") /\ ent' = ent
  <2>1. /\ g = "b2m" /\ m = 1 /\ ent'["main"] = v
        /\ prog'["alrm"] = "idle"
    BY <1>4, <1>9, MainEntry DEF Jump, Ready, Control, Places, Thread
  <2>2. ~Relinked(g, m)
    BY <2>1 DEF Relinked
  <2>3. MainOk(v)'
    BY <1>1, <1>6, <2>1 DEF MainOk, Exposed
  <2>4. OwnThreads(v)'
    <3>1. delay[v] > 0 /\ ~more /\ nxt = NULL
      BY DEF Ready, SoloOk, OwnThreads
    <3>2. \A t \in Thread : prog'[t] \notin {"idle", "expire", "x_loop", "x_done"} => ent'[t] = v
      BY <2>1 DEF Thread
    <3> QED BY <1>1, <2>1, <3>1, <3>2 DEF OwnThreads
  <2>5. Self(v)' <=> Self(v)
    BY <1>1 DEF Self
  <2> HIDE DEF f, n, g, m
  <2>6. Calm(v)'
    BY <1>1, <1>3, <1>6, <1>7, <2>2, <2>3, <2>4, <2>5 DEF Calm, g, m
  <2> QED BY <2>1, <2>6, CalmIsOkNext
<1> QED BY <1>8, <1>9 DEF DoSleep

(***************************************************************************)
(* vrrp_state_b2m, one assignment at a time                                *)
(***************************************************************************)
LEMMA B2mMove ==
    ASSUME NEW v \in Vr, Ready(v), prog["alrm"] = "idle", Advance("main"),
           prog["main"] = "b2m", at["main"] \in 1 .. 9,
           state' = state, armed' = armed, delay' = delay, more' = more, nxt' = nxt,
           \A t \in Thread : curr'[t] \in {NULL, EMPTY, v},
           OwnQueue(v)',
           state[v] = "MAST" \/ at["main"] >= 6 => q'.head = v
    PROVE  SoloOk(v)'
<1> DEFINE n == at["main"]
           g == prog'["main"]
           m == at'["main"]
<1>1. g = "b2m" /\ m = n + 1
  BY MainMoves DEF After, Code
<1>2. Calm(v)
  BY CalmIsOk DEF Ready
<1>3. ~Unset("b2m", n) /\ ~Exposed(g, m) /\ (Relinked(g, m) => n >= 6)
  BY <1>1 DEF Unset, Exposed, Relinked
<1>4. MainOk(v)'
  BY <1>1, <1>2 DEF Calm, MainOk, Exposed
<1>5. state[v] = "MAST" => armed
  BY <1>2, <1>3, Zenon DEF Calm
<1> HIDE DEF n, g, m
<1> QED BY <1>3, <1>4, <1>5, MainNext DEF n, g, m

\* Where the main thread is among them, and what is known of the queue there.
LEMMA B2mWhere ==
    ASSUME NEW v \in Vr, Ready(v), prog["alrm"] = "idle"
    PROVE  /\ Op("main") = "bypass" => prog["main"] = "b2m" /\ at["main"] = 1
           /\ Op("main") = "relink" => prog["main"] = "b2m" /\ at["main"] = 2
           /\ Op("main") = "clrnext" => prog["main"] = "b2m" /\ at["main"] = 3
           /\ Op("main") = "clrprev" => prog["main"] = "b2m" /\ at["main"] = 4
           /\ Op("main") = "head" => prog["main"] = "b2m" /\ at["main"] = 5
           /\ Op("main") = "join" => prog["main"] = "b2m" /\ at["main"] = 6
           /\ Op("main") = "linkback" => prog["main"] = "b2m" /\ at["main"] = 7
           /\ Op("main") = "inherit" => prog["main"] = "b2m" /\ at["main"] = 8
           /\ Op("main") = "publish" => prog["main"] = "b2m" /\ at["main"] = 9
           /\ prog["main"] = "b2m" =>
                 /\ ent["main"] = v
                 /\ at["main"] >= 7 => q.head = v
                 /\ (at["main"] <= 6 /\ state[v] = "MAST") => q.head = v
                 /\ (at["main"] = 1 /\ state[v] = "MAST") => Self(v)
<1> DEFINE f == prog["main"]
           n == at["main"]
           g == IF n = Len(Code[f]) THEN "idle" ELSE f
           m == IF n = Len(Code[f]) THEN 1 ELSE n + 1
<1>1. f \in Functions \ HandlerCode /\ n \in 1 .. Len(Code[f])
  BY MainEntry
<1>2. After(f, n, g, m)
  BY DEF After
<1>3. ASSUME f = "b2m"
      PROVE  /\ ent["main"] = v
             /\ n >= 7 => q.head = v
             /\ (n <= 6 /\ state[v] = "MAST") => q.head = v
             /\ (n = 1 /\ state[v] = "MAST") => Self(v)
  <2>1. Calm(v) /\ ent["main"] = v
    BY <1>3, CalmIsOk, MainEntry DEF Ready
  <2>2. ~Out(f, n) /\ (n >= 7 => Relinked(f, n)) /\ (n = 1 => Exposed(f, n))
    BY <1>3 DEF Out, Relinked, Exposed
  <2> HIDE DEF f, n
  <2> QED BY <2>1, <2>2 DEF Calm, f, n
<1> HIDE DEF g, m
<1>4. /\ Code[f][n] = "bypass" => f = "b2m" /\ n = 1
      /\ Code[f][n] = "relink" => f = "b2m" /\ n = 2
      /\ Code[f][n] = "clrnext" => f = "b2m" /\ n = 3
      /\ Code[f][n] = "clrprev" => f = "b2m" /\ n = 4
      /\ Code[f][n] = "head" => f = "b2m" /\ n = 5
      /\ Code[f][n] = "join" => f = "b2m" /\ n = 6
      /\ Code[f][n] = "linkback" => f = "b2m" /\ n = 7
      /\ Code[f][n] = "inherit" => f = "b2m" /\ n = 8
      /\ Code[f][n] = "publish" => f = "b2m" /\ n = 9
  BY <1>1, <1>2, MainPlaces
<1> HIDE DEF f, n
<1> QED BY <1>3, <1>4 DEF Op, f, n

\* What a step of either thread does to the queue and the locals.
LEMMA SoloQueueStep ==
    ASSUME NEW v \in Vr, Ready(v), NEW t \in Thread, NEW op, NEW qq, NEW crash,
           QueueStep(t, op, qq, crash), up' = up
    PROVE  /\ Op(t) = op /\ ~crash /\ Advance(t) /\ q' = qq
           /\ state' = state /\ armed' = armed /\ delay' = delay /\ more' = more /\ nxt' = nxt
           /\ \A u \in Thread : curr'[u] \in {NULL, EMPTY, v}
           /\ op # "publish" => curr' = curr
<1>1. up' # "queue"
  BY DEF Ready
<1>2. ~crash
  BY <1>1 DEF QueueStep, Segv
<1>3. curr' = [curr EXCEPT ![t] = IF op = "publish" THEN NULL ELSE @]
  BY <1>2 DEF QueueStep
<1>4. \A u \in Thread : curr[u] \in {NULL, EMPTY, v}
  BY DEF Ready, SoloOk, OwnThreads
<1>5. curr \in [Thread -> Ptr \cup {EMPTY}]
  BY DEF Ready, Control, Currs
<1>6. \A u \in Thread : curr'[u] \in {NULL, EMPTY, v}
  BY <1>3, <1>4, <1>5
<1>7. op # "publish" => curr' = curr
  BY <1>3, <1>5
<1> QED BY <1>2, <1>6, <1>7 DEF QueueStep, At, Op, attrs

LEMMA B2mRemoves ==
    ASSUME NEW v \in Vr, Ready(v), prog["alrm"] = "idle", DoRmqueueStep("main"), up' = up
    PROVE  SoloOk(v)'
<1>1. "main" \in Thread /\ v # NULL
  BY MainEntry DEF Thread
<1>2. q \in Queues /\ q.head \in {NULL, v} /\ q.next[v] \in {NULL, v} /\ q.prev[v] \in {NULL, v}
  BY DEF Ready, Data, SoloOk, OwnQueue
<1>3. Op("main") \in {"bypass", "relink", "clrnext", "clrprev"}
  BY <1>1, SoloQueueStep DEF DoRmqueueStep
<1>4. prog["main"] = "b2m" /\ at["main"] \in 1 .. 4 /\ ent["main"] = v
  BY <1>3, B2mWhere
<1>5. ASSUME NEW op, NEW qq, NEW crash, QueueStep("main", op, qq, crash),
             op \in {"bypass", "relink", "clrnext", "clrprev"}, qq.head \in {NULL, v},
             state[v] = "MAST" => qq.head = v,
             qq.next[v] \in {NULL, v}, qq.prev[v] \in {NULL, v}
      PROVE  SoloOk(v)'
  <2>1. q' = qq
    BY <1>1, <1>5, SoloQueueStep
  <2>2. OwnQueue(v)' /\ (state[v] = "MAST" => q'.head = v)
    BY <1>2, <1>4, <1>5, <2>1, B2mWhere DEF OwnQueue
  <2> QED BY <1>1, <1>4, <1>5, <2>2, SoloQueueStep, B2mMove
<1>6. /\ bypassEntry(q, v).head = IF q.prev[v] = NULL THEN q.next[v] ELSE q.head
      /\ bypassEntry(q, v).next[v] = q.next[v] /\ bypassEntry(q, v).prev[v] = q.prev[v]
      /\ relinkSuccessor(q, v).head = q.head /\ relinkSuccessor(q, v).next[v] = q.next[v]
      /\ relinkSuccessor(q, v).prev[v] = q.prev[v]
      /\ clearNext(q, v).head = q.head /\ clearNext(q, v).next[v] = NULL
      /\ clearNext(q, v).prev[v] = q.prev[v]
      /\ clearPrev(q, v).head = q.head /\ clearPrev(q, v).next[v] = q.next[v]
      /\ clearPrev(q, v).prev[v] = NULL
  BY <1>2, SoloAssignments
<1>7. CASE QueueStep("main", "bypass", bypassEntry(q, ent["main"]), FALSE)
  <2>1. Op("main") = "bypass"
    BY <1>1, <1>7, SoloQueueStep
  <2>2. bypassEntry(q, v).head \in {NULL, v} /\ (state[v] = "MAST" => bypassEntry(q, v).head = v)
    BY <1>1, <1>2, <1>6, <2>1, B2mWhere DEF Self
  <2> QED BY <1>2, <1>4, <1>5, <1>6, <1>7, <2>2
<1>8. state[v] = "MAST" => q.head = v
  BY <1>4, B2mWhere
<1>9. CASE QueueStep("main", "relink", relinkSuccessor(q, ent["main"]),
                     RelinkCrashes(q, ent["main"]))
  BY <1>2, <1>4, <1>5, <1>6, <1>8, <1>9
<1>10. CASE QueueStep("main", "clrnext", clearNext(q, ent["main"]), FALSE)
  BY <1>2, <1>4, <1>5, <1>6, <1>8, <1>10
<1>11. CASE QueueStep("main", "clrprev", clearPrev(q, ent["main"]), FALSE)
  BY <1>2, <1>4, <1>5, <1>6, <1>8, <1>11
<1> QED BY <1>7, <1>9, <1>10, <1>11 DEF DoRmqueueStep

LEMMA B2mEnqueues ==
    ASSUME NEW v \in Vr, Ready(v), prog["alrm"] = "idle", up' = up,
           DoReadHead("main") \/ DoJoin("main") \/ DoEnqueueStep("main")
    PROVE  SoloOk(v)'
<1>1. "main" \in Thread /\ v # NULL /\ delay[v] # 0 /\ EMPTY \notin Ptr
  BY MainEntry, DaemonAssumption DEF Thread
<1>2. q \in Queues /\ q.head \in {NULL, v} /\ q.next[v] \in {NULL, v} /\ q.prev[v] \in {NULL, v}
  BY DEF Ready, Data, SoloOk, OwnQueue
<1>3. /\ curr \in [Thread -> Ptr \cup {EMPTY}] /\ \A u \in Thread : curr[u] \in {NULL, EMPTY, v}
      /\ Op("main") = "join" => curr["main"] \in {NULL, v}
      /\ Op("main") = "inherit" => curr["main"] \in {v, EMPTY}
  BY <1>1, NullAssumption DEF Ready, SoloOk, OwnThreads, Control, Currs, Ptr
<1>4. CASE DoReadHead("main")
  <2>1. prog["main"] = "b2m" /\ at["main"] = 5 /\ ent["main"] = v
    BY <1>4, B2mWhere DEF DoReadHead, At, Op
  <2>2. armed' = armed
    BY <1>1, <1>4, <2>1 DEF DoReadHead, ArmedAfter
  <2>3. \A u \in Thread : curr'[u] \in {NULL, EMPTY, v}
    BY <1>2, <1>3, <1>4 DEF DoReadHead
  <2>4. Advance("main") /\ state' = state /\ delay' = delay /\ more' = more /\ nxt' = nxt /\ q' = q
    BY <1>4 DEF DoReadHead, attrs
  <2>5. OwnQueue(v)' /\ (state[v] = "MAST" => q'.head = v)
    BY <1>2, <2>1, <2>4, B2mWhere DEF OwnQueue
  <2> QED BY <2>1, <2>2, <2>3, <2>4, <2>5, B2mMove
<1>5. CASE DoJoin("main")
  <2>1. Op("main") = "join" /\ prog["main"] = "b2m" /\ at["main"] = 6 /\ ent["main"] = v
    BY <1>5, B2mWhere DEF DoJoin, At, Op
  <2>2. \A u \in Thread : curr'[u] \in {NULL, EMPTY, v}
    BY <1>3, <1>5 DEF DoJoin
  <2>3. /\ Advance("main") /\ state' = state /\ delay' = delay /\ more' = more /\ nxt' = nxt
        /\ armed' = armed
    BY <1>5 DEF DoJoin, attrs
  <2>4. OwnQueue(v)' /\ q'.head = v
    <3>1. CASE q.head = NULL
      <4>1. q' = setHead(q, v)
        BY <1>5, <2>1, <3>1 DEF DoJoin
      <4> QED BY <1>2, <4>1, SoloAssignments DEF OwnQueue
    <3>2. CASE q.head = v
      <4>1. q' = linkBefore(q, v, curr["main"]) /\ curr["main"] \in {NULL, v}
        BY <1>1, <1>3, <1>5, <2>1, <3>2 DEF DoJoin
      <4> QED BY <1>2, <3>2, <4>1, SoloAssignments DEF OwnQueue
    <3> QED BY <1>2, <3>1, <3>2
  <2> QED BY <2>1, <2>2, <2>3, <2>4, B2mMove
<1>6. ASSUME NEW op \in {"linkback", "inherit", "publish"}, NEW qq, NEW crash,
             QueueStep("main", op, qq, crash), qq.head = v,
             qq.next[v] \in {NULL, v}, qq.prev[v] \in {NULL, v}
      PROVE  SoloOk(v)'
  <2>1. Op("main") = op /\ q' = qq
    BY <1>1, <1>6, SoloQueueStep
  <2>2. prog["main"] = "b2m" /\ at["main"] \in 7 .. 9
    BY <2>1, B2mWhere
  <2>3. OwnQueue(v)'
    BY <1>6, <2>1 DEF OwnQueue
  <2> QED BY <1>1, <1>6, <2>1, <2>2, <2>3, SoloQueueStep, B2mMove
<1>7. ASSUME NEW op \in {"linkback", "inherit", "publish"}, NEW qq, NEW crash,
             QueueStep("main", op, qq, crash)
      PROVE  Op("main") = op /\ ~crash /\ ent["main"] = v /\ q.head = v
  <2>1. Op("main") = op /\ ~crash
    BY <1>1, <1>7, SoloQueueStep
  <2> QED BY <2>1, B2mWhere
<1> DEFINE c == curr["main"]
<1>8. CASE QueueStep("main", "linkback", IF c = EMPTY THEN q ELSE linkBack(q, ent["main"], c),
                     c = NULL)
  <2>1. ent["main"] = v /\ q.head = v /\ c \in {EMPTY, v}
    BY <1>1, <1>3, <1>7, <1>8
  <2>2. LET r == IF c = EMPTY THEN q ELSE linkBack(q, v, c)
        IN r.head = v /\ r.next[v] \in {NULL, v} /\ r.prev[v] \in {NULL, v}
    BY <1>2, <2>1, SoloAssignments
  <2> QED BY <1>6, <1>8, <2>1, <2>2
<1>9. CASE QueueStep("main", "inherit", IF c = EMPTY THEN q ELSE inheritPrev(q, ent["main"], c),
                     FALSE)
  <2>1. ent["main"] = v /\ q.head = v /\ c \in {EMPTY, v}
    BY <1>3, <1>7, <1>9
  <2>2. LET r == IF c = EMPTY THEN q ELSE inheritPrev(q, v, c)
        IN r.head = v /\ r.next[v] \in {NULL, v} /\ r.prev[v] \in {NULL, v}
    BY <1>2, <2>1, SoloAssignments
  <2> QED BY <1>6, <1>9, <2>1, <2>2
<1>10. CASE QueueStep("main", "publish",
                      IF c = EMPTY THEN clearPrev(q, ent["main"]) ELSE publish(q, ent["main"], c),
                      c # EMPTY /\ c # q.head /\ q.prev[ent["main"]] = NULL)
  <2>1. ent["main"] = v /\ q.head = v /\ (c = EMPTY \/ c = q.head \/ q.prev[v] # NULL)
    BY <1>7, <1>10
  <2>2. LET r == IF c = EMPTY THEN clearPrev(q, v) ELSE publish(q, v, c)
        IN r.head = v /\ r.next[v] \in {NULL, v} /\ r.prev[v] \in {NULL, v}
    BY <1>2, <2>1, SoloAssignments
  <2> QED BY <1>6, <1>10, <2>1, <2>2
<1> QED BY <1>4, <1>5, <1>8, <1>9, <1>10 DEF DoEnqueueStep

(***************************************************************************)
(* Every step of the main thread                                           *)
(***************************************************************************)
LEMMA MainKeepsSolo ==
    ASSUME NEW v \in Vr, Ready(v), MainStep, up' = up
    PROVE  SoloOk(v)'
<1>1. prog["alrm"] = "idle"
  <2>1. Runs("main")
    BY MainStepEffect DEF MainEffect, Ready
  <2> QED BY <2>1, MainAlone DEF Ready
<1>2. CASE DoLock("main") \/ DoUnlock("main")
  BY <1>1, <1>2, QuietMain DEF DoLock, DoUnlock, At, Op, SameSolo, attrs, locals
<1>3. CASE DoFork("main") \/ DoUnlink
  BY <1>1, <1>3, QuietMain DEF DoFork, DoUnlink, At, Op, SameSolo, attrs, locals
<1>4. CASE DoKill
  BY <1>1, <1>4, QuietMain DEF DoKill, At, Op, SameSolo, attrs, locals
<1>5. CASE DoSend("main")
  <2>1. Advance("main") /\ SameSolo /\ Op("main") \in {"send", "stop"}
    BY <1>5 DEF DoSend, At, Op, SameSolo, attrs, locals
  <2>2. Op("main") # "send"
    BY <2>1, MainMoves, MainPlaces DEF Op
  <2> QED BY <1>1, <2>1, <2>2, QuietMain
<1>6. CASE DoState("main") \/ DoAlarm("main")
  BY <1>1, <1>6, MainState, MainAlarm
<1>7. CASE DoRmqueueStep("main") \/ DoReadHead("main") \/ DoJoin("main") \/ DoEnqueueStep("main")
  BY <1>1, <1>7, B2mRemoves, B2mEnqueues
<1>8. CASE DoRmqueue \/ DoEnqueue \/ DoRequeue \/ DoSleep
  BY <1>1, <1>8, MainRmqueue, MainEnqueues, MainRequeue, MainSleep
<1> QED BY <1>2, <1>3, <1>4, <1>5, <1>6, <1>7, <1>8 DEF MainStep, Step

(***************************************************************************)
(* Commands and advertisements                                             *)
(***************************************************************************)

\* With the main thread in poll and no handler, the VR is as it should be at rest.
LEMMA RestIsCalm ==
    ASSUME NEW v \in Vr, Ready(v), MainIdle
    PROVE  /\ prog["alrm"] = "idle" /\ prog["main"] = "idle" /\ Calm(v)
           /\ state[v] = "MAST" => q.head = v
           /\ state[v] = "MAST" => armed
<1>1. prog["alrm"] = "idle" /\ prog["main"] = "idle"
  BY MainAlone DEF MainIdle, Ready
<1>2. Calm(v)
  BY <1>1, CalmIsOk DEF Ready
<1>3. ~Out("idle", at["main"]) /\ ~Unset("idle", at["main"])
  BY DEF Out, Unset
<1>4. state[v] = "MAST" => q.head = v
  BY <1>1, <1>2, <1>3 DEF Calm
<1>5. state[v] = "MAST" => armed
  BY <1>1, <1>2, <1>3, Zenon DEF Calm
<1> QED BY <1>1, <1>2, <1>4, <1>5

LEMMA CallSolo ==
    ASSUME NEW v \in Vr, Ready(v), MainIdle, NEW f \in Functions \ HandlerCode,
           f \notin {"idle", "i2m"}, f = "b2m" => state[v] = "BACK", Call(f, v),
           state' = state, q' = q, armed' = armed, delay'[v] > 0
    PROVE  SoloOk(v)'
<1>1. /\ prog'["main"] = f /\ at'["main"] = 1 /\ ent'["main"] = v
      /\ prog'["alrm"] = "idle" /\ UNCHANGED locals
  BY RestIsCalm DEF Call, Jump, Ready, Control, Places, Thread
<1>2. ~Relinked(f, 1) /\ (Exposed(f, 1) => f = "b2m")
  BY DEF Relinked, Exposed
<1>3. MainOk(v)'
  BY <1>1, <1>2 DEF MainOk
<1>4. OwnThreads(v)' /\ OwnQueue(v)'
  <2>1. OwnThreads(v) /\ OwnQueue(v)
    BY DEF Ready, SoloOk
  <2>2. \A t \in Thread : prog'[t] \notin {"idle", "expire", "x_loop", "x_done"} => ent'[t] = v
    BY <1>1 DEF Thread
  <2> QED BY <1>1, <2>1, <2>2 DEF OwnThreads, OwnQueue, locals
<1>5. state[v] = "MAST" => ~Exposed(f, 1)
  BY <1>2
<1>6. Calm(v)'
  <2>1. (state'[v] = "MAST" \/ Relinked(prog'["main"], at'["main"])) => q'.head = v
    BY <1>1, <1>2, RestIsCalm
  <2>2. state'[v] = "MAST" => armed'
    BY RestIsCalm
  <2>3. state'[v] = "MAST" => ~Exposed(prog'["main"], at'["main"])
    BY <1>1, <1>5
  <2> QED BY <1>3, <1>4, <2>1, <2>2, <2>3, Zenon DEF Calm
<1> QED BY <1>1, <1>6, CalmIsOkNext

LEMMA NoCallSolo ==
    ASSUME NEW v \in Vr, Ready(v), UNCHANGED threads,
           state' = state, q' = q, armed' = armed, delay'[v] > 0
    PROVE  SoloOk(v)'
<1>1. SoloOk(v) /\ prog' = prog /\ at' = at /\ ent' = ent /\ curr' = curr /\ more' = more /\ nxt' = nxt
  BY DEF Ready, threads, locals
<1>2. OwnQueue(v)' /\ OwnThreads(v)' /\ MainOk(v)'
  BY <1>1 DEF SoloOk, OwnQueue, OwnThreads, MainOk
<1>3. HandlerOk(v)' /\ InQueue(v)' /\ Twice(v)'
  BY <1>1 DEF SoloOk, HandlerOk, InQueue, Twice, Doubled, Self
<1>4. AlarmSet(v)'
  BY <1>1 DEF SoloOk, AlarmSet
<1> QED BY <1>2, <1>3, <1>4 DEF SoloOk

\* What a command or an advertisement does when v is the only VR.
LEMMA SoloInput ==
    ASSUME NEW v \in Vr, Ready(v), Command \/ Advert, 0 \notin ModDelay, used' = {v}, up' = "up"
    PROVE  /\ MainIdle /\ state' = state /\ q' = q /\ armed' = armed /\ delay'[v] > 0
           /\ \/ UNCHANGED threads
              \/ \E f \in Functions \ HandlerCode :
                    /\ f \notin {"idle", "i2m"}
                    /\ f = "b2m" => state[v] = "BACK"
                    /\ f = "m2b" => state[v] = "MAST"
                    /\ Call(f, v)
<1> DEFINE Same == MainIdle /\ state' = state /\ q' = q /\ armed' = armed
           F == {"i2b", "m2i", "b2i", "kill_mast", "kill_mast_wild", "kill_other",
                 "kill_other_wild", "modify", "modify_wild", "adv_back"}
           Calls(w) == \E f \in F : Call(f, w)
<1>1. /\ delay[v] > 0 /\ delay \in [Vr -> Nat] /\ live \subseteq {v}
      /\ \A d \in ModDelay : d \in Nat /\ d > 0
  BY DaemonAssumption DEF Ready, SoloOk, OwnThreads, Data
<1>2. ASSUME NEW w \in Vr, NEW p, NEW d, NEW m, vrrp_create_inst(w, p, d, m)
      PROVE  FALSE
  BY <1>2 DEF vrrp_create_inst, Ready
<1>3. ASSUME NEW w \in Vr,
             \/ vrrp_startup_inst(w)
             \/ vrrp_shutdown_inst(w)
             \/ \E wild \in BOOLEAN : vrrp_destroy_inst(w, wild)
      PROVE  Same /\ delay' = delay /\ Calls(v)
  <2>1. CASE vrrp_startup_inst(w)
    BY <1>1, <2>1 DEF vrrp_startup_inst, FoundById, attrs
  <2>2. CASE vrrp_shutdown_inst(w)
    BY <1>1, <2>2 DEF vrrp_shutdown_inst, FoundById, attrs
  <2>3. CASE \E wild \in BOOLEAN : vrrp_destroy_inst(w, wild)
    BY <1>1, <2>3 DEF vrrp_destroy_inst, FoundById, FoundByWildcard, attrs
  <2> QED BY <1>3, <2>1, <2>2, <2>3
<1>4. ASSUME NEW w \in Vr, NEW wild, NEW p, NEW d \in ModDelay \cup {UNCHANGE}, NEW m,
             vrrp_set_inst_prop(w, wild, p, d, m)
      PROVE  Same /\ delay'[v] > 0 /\ (UNCHANGED threads \/ Calls(v))
  <2>1. w = v
    BY <1>1, <1>4 DEF vrrp_set_inst_prop, FoundById, FoundByWildcard
  <2>2. delay'[v] > 0
    BY <1>1, <1>4, <2>1 DEF vrrp_set_inst_prop
  <2> QED BY <1>4, <2>1, <2>2 DEF vrrp_set_inst_prop
<1>5. ~destroy_missing /\ \A i \in Vrid : ~receive_stop_no_instance(i)
  BY DEF destroy_missing, receive_stop_no_instance, Segv
<1>6. ASSUME NEW i \in Vrid, receive_stop(i)
      PROVE  Same /\ delay' = delay
             /\ (UNCHANGED threads \/ (Call("b2m", v) /\ state[v] = "BACK"))
  BY <1>1, <1>6 DEF receive_stop, First, attrs
<1>7. ASSUME NEW i \in Vrid, NEW p \in AdvPri, receive_adv(i, p)
      PROVE  Same /\ delay' = delay
             /\ (UNCHANGED threads \/ Calls(v) \/ (Call("m2b", v) /\ state[v] = "MAST"))
  <2>1. \/ UNCHANGED threads
        \/ \E w \in live : Call("adv_back", w) \/ (Call("m2b", w) /\ state[w] = "MAST")
    BY <1>7 DEF receive_adv
  <2> QED BY <1>1, <1>7, <2>1 DEF receive_adv, attrs
<1>8. /\ Same /\ delay'[v] > 0
      /\ \/ UNCHANGED threads \/ Calls(v)
         \/ Call("b2m", v) /\ state[v] = "BACK"
         \/ Call("m2b", v) /\ state[v] = "MAST"
  <2>1. CASE Command
    BY <1>1, <2>1, <1>2, <1>3, <1>4, <1>5 DEF Command
  <2>2. CASE Advert
    BY <1>1, <2>2, <1>5, <1>6, <1>7 DEF Advert
  <2> QED BY <2>1, <2>2
<1>9. F \cup {"b2m", "m2b"} \subseteq (Functions \ HandlerCode) \ {"idle", "i2m"}
  BY FunctionNames DEF HandlerCode
<1> QED BY <1>8, <1>9

LEMMA InputKeepsSolo ==
    ASSUME NEW v \in Vr, Ready(v), Command \/ Advert, 0 \notin ModDelay, used' = {v}, up' = "up"
    PROVE  SoloOk(v)'
<1>1. /\ MainIdle /\ state' = state /\ q' = q /\ armed' = armed /\ delay'[v] > 0
      /\ \/ UNCHANGED threads
         \/ \E f \in Functions \ HandlerCode :
               /\ f \notin {"idle", "i2m"}
               /\ f = "b2m" => state[v] = "BACK"
               /\ Call(f, v)
  BY SoloInput
<1>2. CASE UNCHANGED threads
  BY <1>1, <1>2, NoCallSolo
<1>3. ASSUME NEW f \in Functions \ HandlerCode,
             f \notin {"idle", "i2m"}, f = "b2m" => state[v] = "BACK", Call(f, v)
      PROVE  SoloOk(v)'
  BY <1>1, <1>3, CallSolo
<1> QED BY <1>1, <1>2, <1>3

(***************************************************************************)
(* Before the first create                                                 *)
(***************************************************************************)
LEMMA StepsWorkSomewhere ==
    /\ MainStep => Op("main") # "wait"
    /\ HandlerStep => Op("alrm") # "wait"
<1>1. ASSUME NEW t, Step(t) PROVE Op(t) # "wait"
  BY <1>1 DEF Step, DoLock, DoUnlock, DoState, SetState, DoFork, DoAlarm, DoSend, DoRmqueueStep,
     DoReadHead, DoJoin, DoEnqueueStep, QueueStep, At, Op
<1>2. MainStep => Op("main") # "wait"
  BY <1>1 DEF MainStep, DoRmqueue, DoEnqueue, MainEnqueue, DoRequeue, DoKill, DoSleep, DoUnlink,
     QueueStep, At, Op
<1>3. HandlerStep => Op("alrm") # "wait"
  BY <1>1 DEF HandlerStep, DoDequeue, DoMore, DoTest, DoAgain, At, Op
<1> QED BY <1>2, <1>3

LEMMA FirstCreate ==
    ASSUME Control, Fresh, used = {}, 0 \notin ModDelay,
           NEW v \in Vr, NEW p, NEW d \in ModDelay, NEW m, vrrp_create_inst(v, p, d, m),
           delay \in [Vr -> Nat]
    PROVE  SoloOk(v)'
<1>1. /\ q' = EmptyQueue /\ ~armed' /\ ~more' /\ nxt' = NULL /\ state'[v] = "INIT"
      /\ delay'[v] > 0 /\ \A t \in Thread : curr'[t] = NULL
  <2>1. delay'[v] = d /\ d > 0
    BY DEF vrrp_create_inst
  <2>2. UNCHANGED <<q, armed, more, nxt, state, curr>>
    BY DEF vrrp_create_inst, Call, threads, locals
  <2>3. ~armed'
    BY <2>2 DEF Fresh
  <2>4. ~more'
    BY <2>2 DEF Fresh
  <2> QED BY <2>1, <2>2, <2>3, <2>4 DEF Fresh
<1>2. /\ prog'["alrm"] = "idle"
      /\ \/ prog'["main"] = "i2m" /\ at'["main"] = 1 /\ ent'["main"] = v
         \/ prog'["main"] = "idle"
  BY DEF vrrp_create_inst, Call, Jump, threads, Fresh, Control, Places, Thread
<1>3. OwnQueue(v)'
  BY <1>1 DEF OwnQueue, EmptyQueue
<1>4. OwnThreads(v)'
  BY <1>1, <1>2 DEF OwnThreads, Thread
<1>5. MainOk(v)' /\ ~Relinked(prog'["main"], at'["main"])
  BY <1>1, <1>2 DEF MainOk, Exposed, Relinked
<1>6. Calm(v)'
  BY <1>1, <1>3, <1>4, <1>5, Zenon DEF Calm
<1> QED BY <1>2, <1>6, CalmIsOkNext

LEMMA FreshStep ==
    ASSUME Data, Control, Fresh, used = {}, up = "up", 0 \notin ModDelay, [Next]_vars, up' = "up"
    PROVE  /\ used' = {} => Fresh'
           /\ \A v \in Vr : used' = {v} => SoloOk(v)'
<1>1. CASE UNCHANGED vars
  <2>1. used' = {} /\ UNCHANGED <<live, prog, q, armed, more, nxt, curr, state>>
    BY <1>1 DEF vars, list, threads, locals
  <2>2. /\ live' = {} /\ prog'["main"] = "idle" /\ prog'["alrm"] = "idle"
        /\ q' = EmptyQueue /\ nxt' = NULL
        /\ \A t \in Thread : curr'[t] = NULL
        /\ \A v \in Vr : state'[v] = "INIT"
    BY <2>1 DEF Fresh
  <2>3. ~armed' /\ ~more'
    BY <2>1, Zenon DEF Fresh
  <2> QED BY <2>1, <2>2, <2>3 DEF Fresh
<1>2. CASE Command \/ Advert
  <2>1. CASE \E v \in Vr, p \in CreatePri, d \in ModDelay, m \in BOOLEAN : vrrp_create_inst(v, p, d, m)
    <3>1. PICK v \in Vr, p \in CreatePri, d \in ModDelay, m \in BOOLEAN : vrrp_create_inst(v, p, d, m)
      BY <2>1
    <3>2. used' = {v}
      BY <3>1 DEF vrrp_create_inst
    <3>3. SoloOk(v)'
      BY <3>1, FirstCreate DEF Data
    <3> QED BY <3>2, <3>3
  <2>2. CASE ~\E v \in Vr, p \in CreatePri, d \in ModDelay, m \in BOOLEAN : vrrp_create_inst(v, p, d, m)
    <3>1. live = {}
      BY DEF Fresh
    <3>2. \A v \in Vr : ~FoundById(v) /\ ~FoundByWildcard(v)
      BY <3>1 DEF FoundById, FoundByWildcard
    <3>3. PICK i \in Vrid, p \in AdvPri : receive_adv(i, p)
      <4>1. ~Command
        BY <2>2, <3>2 DEF Command, vrrp_startup_inst, vrrp_shutdown_inst, vrrp_destroy_inst,
           vrrp_set_inst_prop, destroy_missing, Segv
      <4>2. \A i \in Vrid : ~receive_stop(i) /\ ~receive_stop_no_instance(i)
        BY <3>1 DEF receive_stop, receive_stop_no_instance, Segv
      <4> QED BY <1>2, <4>1, <4>2 DEF Advert
    <3>4. UNCHANGED <<live, used, prog, q, armed, more, nxt, curr, state>>
      BY <3>1, <3>3 DEF receive_adv, list, threads, locals
    <3>5. /\ live' = {} /\ prog'["main"] = "idle" /\ prog'["alrm"] = "idle"
          /\ q' = EmptyQueue /\ nxt' = NULL
          /\ \A t \in Thread : curr'[t] = NULL
          /\ \A v \in Vr : state'[v] = "INIT"
      BY <3>4 DEF Fresh
    <3>6. ~armed' /\ ~more'
      BY <3>4, Zenon DEF Fresh
    <3> QED BY <3>4, <3>5, <3>6 DEF Fresh
  <2> QED BY <2>1, <2>2
<1>3. ~MainStep /\ ~HandlerStep
  BY StepsWorkSomewhere, CodeOrder DEF Fresh, Control, Places, Thread, Op
<1>4. \A thr : ~Deliver(thr)
  BY DEF Deliver, Fresh
<1> QED BY <1>1, <1>2, <1>3, <1>4 DEF Next

(***************************************************************************)
(* Steps of the signal handler.  The main thread stands still, and what    *)
(* its place asks for does not change:                                     *)
(***************************************************************************)
Wanted(v) == /\ state[v] = "MAST" \/ Relinked(prog["main"], at["main"])
             /\ ~Out(prog["main"], at["main"])

Due(v) == state[v] = "MAST" /\ ~Unset(prog["main"], at["main"])

Risked(v) == state[v] = "MAST" /\ Exposed(prog["main"], at["main"])

\* Another place, another queue, another alarm; the entry is v wherever it is used.
HandlerTo(v, g, m) ==
    /\ prog'["main"] = prog["main"] /\ at'["main"] = at["main"] /\ ent'["main"] = ent["main"]
    /\ prog'["alrm"] = g /\ at'["alrm"] = m
    /\ g \notin {"idle", "expire", "x_done"} => ent'["alrm"] = v
    /\ delay' = delay /\ ~more' /\ nxt' = NULL
    /\ \A t \in Thread : curr'[t] \in {NULL, EMPTY, v}

\* What is known where the handler is.
LEMMA HandlerFacts ==
    ASSUME NEW v \in Vr, Ready(v), prog["alrm"] # "idle"
    PROVE  /\ prog["alrm"] \in HandlerCode \ {"x_loop"} /\ at["alrm"] \in 1 .. Len(Code[prog["alrm"]])
           /\ at["alrm"] \in Nat /\ "alrm" \in Thread /\ v # NULL /\ delay[v] > 0 /\ EMPTY \notin Ptr
           /\ prog["alrm"] \notin {"expire", "x_done"} => ent["alrm"] = v
           /\ prog["main"] # "i2m" /\ ~more /\ nxt = NULL
           /\ q \in Queues /\ OwnQueue(v) /\ HandlerOk(v)
           /\ Wanted(v) => q.head = v \/ Taken(prog["alrm"], at["alrm"])
           /\ Risked(v) => Doubled(v)
           /\ state \in [Vr -> States]
<1>0. "alrm" \in Thread /\ v # NULL /\ EMPTY \notin Ptr
  BY NullAssumption, DaemonAssumption DEF Thread
<1>1. prog["alrm"] \in HandlerCode /\ at["alrm"] \in 1 .. Len(Code[prog["alrm"]]) /\ at["alrm"] \in Nat
  BY <1>0 DEF Ready, Control, Places, Roles
<1>2. /\ prog["alrm"] # "x_loop" /\ nxt = NULL /\ delay[v] > 0
      /\ prog["alrm"] \notin {"expire", "x_done"} => ent["alrm"] = v
  BY <1>0 DEF Ready, SoloOk, OwnThreads
<1>3. ~more
  BY DEF Ready, SoloOk, OwnThreads
<1>4. prog["main"] # "i2m"
  BY DEF Ready, SoloOk, MainOk
<1>5. q \in Queues /\ OwnQueue(v) /\ HandlerOk(v) /\ state \in [Vr -> States]
  BY DEF Ready, SoloOk, Data
<1>6. Wanted(v) => q.head = v \/ Taken(prog["alrm"], at["alrm"])
  BY DEF Ready, SoloOk, InQueue, Wanted
<1>7. Risked(v) => Doubled(v)
  BY DEF Ready, SoloOk, Twice, Risked
<1> QED BY <1>0, <1>1, <1>2, <1>3, <1>4, <1>5, <1>6, <1>7

\* It remains to show what the handler's new place says.
LEMMA HandlerNext ==
    ASSUME NEW v \in Vr, Ready(v), prog["alrm"] # "idle", NEW g, NEW m, HandlerTo(v, g, m),
           g # "x_loop", state' = state, OwnQueue(v)', HandlerOk(v)',
           Wanted(v) => q'.head = v \/ Taken(g, m),
           Due(v) => armed' \/ Acting(g, m),
           Risked(v) => Doubled(v)'
    PROVE  SoloOk(v)'
<1>1. prog'["main"] = prog["main"] /\ at'["main"] = at["main"] /\ prog'["alrm"] = g /\ at'["alrm"] = m
  BY DEF HandlerTo
<1>2. OwnThreads(v)'
  <2>1. ent'["main"] = ent["main"] /\ delay[v] > 0 /\ (g \notin {"idle", "expire", "x_done"} => ent'["alrm"] = v)
        /\ delay' = delay /\ ~more' /\ nxt' = NULL
        /\ \A t \in Thread : curr'[t] \in {NULL, EMPTY, v}
    BY HandlerFacts DEF HandlerTo
  <2>2. \A t \in Thread : prog[t] \notin {"idle", "expire", "x_loop", "x_done"} => ent[t] = v
    BY DEF Ready, SoloOk, OwnThreads
  <2>3. \A t \in Thread : prog'[t] \notin {"idle", "expire", "x_loop", "x_done"} => ent'[t] = v
    BY <1>1, <2>1, <2>2 DEF Thread
  <2> QED BY <1>1, <2>1, <2>3 DEF OwnThreads
<1>3. MainOk(v)'
  <2>1. MainOk(v) /\ prog["main"] # "i2m"
    BY HandlerFacts DEF Ready, SoloOk
  <2> QED BY <1>1, <2>1 DEF MainOk
<1>4. InQueue(v)'
  BY <1>1 DEF InQueue, Wanted
<1>5. AlarmSet(v)'
  <2>1. Acting(g, m) <=> Acting(prog'["alrm"], at'["alrm"])
    BY <1>1
  <2>2. Due(v) <=> (state'[v] = "MAST" /\ ~Unset(prog'["main"], at'["main"]))
    BY <1>1 DEF Due
  <2> QED BY <2>1, <2>2, Zenon DEF AlarmSet
<1>6. Twice(v)'
  BY <1>1 DEF Twice, Risked
<1> QED BY <1>2, <1>3, <1>4, <1>5, <1>6 DEF SoloOk

\* The handler goes on to its next instruction.
LEMMA HandlerGoesOn ==
    ASSUME NEW v \in Vr, Ready(v), prog["alrm"] # "idle", Advance("alrm"),
           delay' = delay, more' = more, nxt' = nxt,
           \A t \in Thread : curr'[t] \in {NULL, EMPTY, v}
    PROVE  /\ at["alrm"] # Len(Code[prog["alrm"]]) => HandlerTo(v, prog["alrm"], at["alrm"] + 1)
           /\ at["alrm"] = Len(Code[prog["alrm"]]) => HandlerTo(v, "idle", 1)
<1>1. ~more'
  BY HandlerFacts
<1>2. nxt' = NULL
  BY HandlerFacts
<1>3. /\ prog'["main"] = prog["main"] /\ at'["main"] = at["main"] /\ ent'["main"] = ent["main"]
      /\ prog'["alrm"] = IF Last("alrm") THEN "idle" ELSE prog["alrm"]
      /\ at'["alrm"] = IF Last("alrm") THEN 1 ELSE at["alrm"] + 1
      /\ ~Last("alrm") => ent'["alrm"] = ent["alrm"]
  BY DEF Advance, Ready, Control, Places, Thread
<1>4. Last("alrm") <=> at["alrm"] = Len(Code[prog["alrm"]])
  BY DEF Last
<1>5. prog["alrm"] \notin {"expire", "x_done"} => ent["alrm"] = v
  BY HandlerFacts
<1> QED BY <1>1, <1>2, <1>3, <1>4, <1>5 DEF HandlerTo

LEMMA HandlerLengths ==
    ASSUME NEW f, NEW n \in Nat
    PROVE  /\ (f = "expire" /\ n = 1) => n # Len(Code[f])
           /\ (f = "x_entry" /\ n <= 6) => n # Len(Code[f])
           /\ (f = "x_mast" /\ n <= 7) => n # Len(Code[f])
           /\ (f = "x_back" /\ n <= 18) => n # Len(Code[f])
<1>1. Len(Code["expire"]) = 2
  BY DEF Code
<1>2. Len(Code["x_entry"]) = 7
  BY DEF Code
<1>3. Len(Code["x_mast"]) = 8
  BY DEF Code
<1>4. Len(Code["x_back"]) = 19
  BY DEF Code
<1>5. (f = "expire" /\ n = 1) => n # Len(Code[f])
  BY <1>1
<1>6. ASSUME f = "x_entry", n <= 6 PROVE n # Len(Code[f])
  <2>1. n # 7
    BY <1>6
  <2>2. Len(Code[f]) = 7
    BY <1>2, <1>6
  <2> QED BY <2>1, <2>2
<1>7. ASSUME f = "x_mast", n <= 7 PROVE n # Len(Code[f])
  <2>1. n # 8
    BY <1>7
  <2>2. Len(Code[f]) = 8
    BY <1>3, <1>7
  <2> QED BY <2>1, <2>2
<1>8. ASSUME f = "x_back", n <= 18 PROVE n # Len(Code[f])
  <2>1. n # 19
    BY <1>8
  <2>2. Len(Code[f]) = 19
    BY <1>4, <1>8
  <2> QED BY <2>1, <2>2
<1> QED BY <1>5, <1>6, <1>7, <1>8

\* lock, send and fork
LEMMA HandlerPlain ==
    ASSUME NEW v \in Vr, Ready(v), prog["alrm"] # "idle", Advance("alrm"), SameSolo,
           Op("alrm") \in {"lock", "send", "fork"}
    PROVE  SoloOk(v)'
<1> DEFINE f == prog["alrm"]
           n == at["alrm"]
<1>1. \A t \in Thread : curr'[t] \in {NULL, EMPTY, v}
  BY DEF SameSolo, Ready, SoloOk, OwnThreads
<1>2. (f = "expire" /\ n = 1) \/ (f = "x_mast" /\ n = 1) \/ (f = "x_back" /\ n = 11)
  BY HandlerFacts, HandlerPlaces DEF Op
<1>3. n # Len(Code[f])
  <2>1. n \in Nat
    BY HandlerFacts
  <2> HIDE DEF f, n
  <2> QED BY <1>2, <2>1, HandlerLengths
<1>4. HandlerTo(v, f, n + 1)
  BY <1>1, <1>3, HandlerGoesOn DEF SameSolo
<1>5. OwnQueue(v)' /\ q' = q /\ state' = state
  BY HandlerFacts DEF SameSolo, OwnQueue
<1>6. HandlerOk(v)'
  BY <1>2, <1>4, <1>5, HandlerFacts DEF HandlerOk, HandlerTo
<1>7. Acting(f, n + 1) /\ (Taken(f, n) => Taken(f, n + 1))
  BY <1>2 DEF Acting, Taken
<1>8. Risked(v) => Doubled(v)'
  BY <1>2, <1>4, <1>5, HandlerFacts DEF Doubled, HandlerTo, Self
<1> HIDE DEF f, n
<1>9. Wanted(v) => q'.head = v \/ Taken(f, n + 1)
  BY <1>5, <1>7, HandlerFacts DEF f, n
<1> QED BY <1>2, <1>4, <1>5, <1>6, <1>7, <1>8, <1>9, HandlerNext

\* unlock: the handler returns
LEMMA HandlerReturns ==
    ASSUME NEW v \in Vr, Ready(v), prog["alrm"] # "idle", Advance("alrm"), SameSolo,
           Op("alrm") = "unlock"
    PROVE  SoloOk(v)'
<1>1. \A t \in Thread : curr'[t] \in {NULL, EMPTY, v}
  BY DEF SameSolo, Ready, SoloOk, OwnThreads
<1>2. prog["alrm"] = "x_done" /\ at["alrm"] = 1 /\ Len(Code[prog["alrm"]]) = 1
  BY HandlerFacts, HandlerPlaces DEF Op
<1>3. HandlerTo(v, "idle", 1)
  BY <1>1, <1>2, HandlerGoesOn DEF SameSolo
<1>4. OwnQueue(v)' /\ q' = q /\ state' = state
  BY HandlerFacts DEF SameSolo, OwnQueue
<1>5. HandlerOk(v)'
  BY <1>3 DEF HandlerOk, HandlerTo
<1>6. ~Acting(prog["alrm"], at["alrm"]) /\ ~Taken(prog["alrm"], at["alrm"])
  BY <1>2 DEF Acting, Taken
<1>7. Due(v) => armed'
  <2>1. Due(v) => armed
    BY <1>6, Zenon DEF Ready, SoloOk, AlarmSet, Due
  <2> QED BY <2>1 DEF SameSolo
<1>8. Risked(v) => Doubled(v)'
  BY <1>2, <1>3, <1>4, HandlerFacts DEF Doubled, HandlerTo, Self
<1>9. Wanted(v) => q'.head = v
  BY <1>4, <1>6, HandlerFacts
<1> QED BY <1>3, <1>4, <1>5, <1>7, <1>8, <1>9, HandlerNext

\* vrrp_dequeue: only a removal by a main thread that has the mutex can have emptied the
\* queue of a master.
LEMMA HandlerDequeues ==
    ASSUME NEW v \in Vr, Ready(v), prog["alrm"] # "idle", DoDequeue
    PROVE  SoloOk(v)'
<1>1. prog["alrm"] = "expire" /\ at["alrm"] = 2
  BY HandlerFacts, HandlerPlaces DEF DoDequeue, At
<1>2. /\ q' = q /\ state' = state /\ delay' = delay /\ armed' = armed /\ curr' = curr
      /\ \A t \in Thread : curr[t] \in {NULL, EMPTY, v}
      /\ ent'["alrm"] = q.head /\ ent'["main"] = ent["main"]
      /\ prog'["main"] = prog["main"] /\ at'["main"] = at["main"] /\ at'["alrm"] = 1
  BY DEF DoDequeue, Jump, attrs, Ready, SoloOk, OwnThreads, Control, Places, Thread
<1>3. ~more'
  BY DEF DoDequeue
<1>4. nxt' = NULL
  BY HandlerFacts DEF DoDequeue
<1>5. OwnQueue(v)'
  BY <1>2, HandlerFacts DEF OwnQueue
<1>6. CASE q.head = NULL
  <2>1. prog'["alrm"] = "x_done"
    BY <1>6 DEF DoDequeue, Jump, Ready, Control, Places, Thread
  <2>2. HandlerTo(v, "x_done", 1)
    BY <1>2, <1>3, <1>4, <2>1 DEF HandlerTo
  <2>3. HandlerOk(v)'
    BY <2>1 DEF HandlerOk
  <2>4. ~Wanted(v)
    BY <1>1, <1>6, HandlerFacts DEF Taken
  <2>5. ~(prog["main"] \in {"m2b", "adv_back"} /\ at["main"] = 3)
    <3>1. Held("expire", 2) /\ Held("m2b", 3) /\ Held("adv_back", 3)
      BY DEF Held, Code
    <3>2. lock = "alrm"
      BY <1>1, <3>1 DEF Ready, Locking, Thread
    <3> QED BY <3>1, <3>2 DEF Ready, Locking, Thread
  <2>6. ~Due(v)
    <3>1. Out(prog["main"], at["main"]) => Unset(prog["main"], at["main"])
      BY <2>5 DEF Out, Unset
    <3> QED BY <2>4, <3>1 DEF Wanted, Due
  <2>7. ~Risked(v)
    BY <1>6, HandlerFacts DEF Doubled
  <2> QED BY <1>2, <1>5, <2>2, <2>3, <2>4, <2>6, <2>7, HandlerNext
<1>7. CASE q.head = v
  <2>1. prog'["alrm"] = "x_entry"
    BY <1>7, HandlerFacts DEF DoDequeue, Jump, Ready, Control, Places, Thread
  <2>2. HandlerTo(v, "x_entry", 1)
    BY <1>2, <1>3, <1>4, <1>7, <2>1 DEF HandlerTo
  <2>3. HandlerOk(v)'
    BY <1>2, <2>1 DEF HandlerOk
  <2>4. Taken("x_entry", 1) /\ Acting("x_entry", 1)
    BY DEF Taken, Acting
  <2>5. Risked(v) => Doubled(v)'
    BY <1>1, <1>2, <2>1, HandlerFacts DEF Doubled, Self
  <2> QED BY <1>2, <1>5, <2>2, <2>3, <2>4, <2>5, HandlerNext
<1> QED BY <1>6, <1>7, HandlerFacts DEF OwnQueue

\* vrrp_rmqueue, one assignment at a time
LEMMA HandlerRemoves ==
    ASSUME NEW v \in Vr, Ready(v), prog["alrm"] # "idle", DoRmqueueStep("alrm"), up' = up
    PROVE  SoloOk(v)'
<1> DEFINE f == prog["alrm"]
           n == at["alrm"]
<1>1. q \in Queues /\ q.head \in {NULL, v} /\ q.next[v] \in {NULL, v} /\ q.prev[v] \in {NULL, v}
  BY HandlerFacts DEF OwnQueue
<1>2. Op("alrm") \in {"bypass", "relink", "clrnext", "clrprev"}
  BY HandlerFacts, SoloQueueStep DEF DoRmqueueStep
<1>3. f \in {"x_entry", "x_back"} /\ n \in 1 .. 4 /\ ent["alrm"] = v
  BY <1>2, HandlerFacts, HandlerPlaces DEF Op
<1>4. ASSUME NEW op, NEW qq, NEW crash, QueueStep("alrm", op, qq, crash),
             qq.head \in {NULL, v}, qq.next[v] \in {NULL, v}, qq.prev[v] \in {NULL, v},
             (f = "x_entry" /\ op \in {"clrnext", "clrprev"}) => qq.next[v] = NULL,
             Risked(v) => qq.head = v,
             (Risked(v) /\ op \in {"bypass", "relink"}) => qq.next[v] = v /\ qq.prev[v] = v
      PROVE  SoloOk(v)'
  <2>0. (n >= 3 => op \in {"clrnext", "clrprev"}) /\ (n <= 2 => op \in {"bypass", "relink"})
    <3>1. Op("alrm") = op
      BY <1>4, HandlerFacts, SoloQueueStep
    <3> QED BY <1>2, <1>3, <3>1, HandlerFacts, HandlerPlaces DEF Op
  <2>1. q' = qq /\ Advance("alrm") /\ state' = state /\ delay' = delay /\ more' = more /\ nxt' = nxt
    BY <1>4, HandlerFacts, SoloQueueStep
  <2>2. \A t \in Thread : curr'[t] \in {NULL, EMPTY, v}
    BY <1>4, HandlerFacts, SoloQueueStep
  <2>3. n # Len(Code[f])
    <3>1. n \in Nat
      BY HandlerFacts
    <3> HIDE DEF f, n
    <3> QED BY <1>3, <3>1, HandlerLengths
  <2>4. HandlerTo(v, f, n + 1)
    BY <2>1, <2>2, <2>3, HandlerGoesOn
  <2>5. OwnQueue(v)'
    BY <1>4, <2>1 DEF OwnQueue
  <2>6. HandlerOk(v)'
    BY <1>3, <1>4, <2>0, <2>1, <2>4, HandlerFacts DEF HandlerOk, HandlerTo
  <2>7. Taken(f, n + 1) /\ Acting(f, n + 1)
    BY <1>3 DEF Taken, Acting
  <2>8. Risked(v) => Doubled(v)'
    <3>1. CASE f = "x_entry"
      BY <1>3, <1>4, <2>0, <2>1, <2>4, <3>1 DEF Doubled, HandlerTo, Self
    <3>2. CASE f = "x_back"
      BY <1>3, <3>2, HandlerFacts DEF HandlerOk, Risked
    <3> QED BY <1>3, <3>1, <3>2
  <2> HIDE DEF f, n
  <2> QED BY <1>3, <2>1, <2>4, <2>5, <2>6, <2>7, <2>8, HandlerNext
<1>5. /\ bypassEntry(q, v).head = IF q.prev[v] = NULL THEN q.next[v] ELSE q.head
      /\ bypassEntry(q, v).next[v] = q.next[v] /\ bypassEntry(q, v).prev[v] = q.prev[v]
      /\ relinkSuccessor(q, v).head = q.head /\ relinkSuccessor(q, v).next[v] = q.next[v]
      /\ relinkSuccessor(q, v).prev[v] = q.prev[v]
      /\ clearNext(q, v).head = q.head /\ clearNext(q, v).next[v] = NULL
      /\ clearNext(q, v).prev[v] = q.prev[v]
      /\ clearPrev(q, v).head = q.head /\ clearPrev(q, v).next[v] = q.next[v]
      /\ clearPrev(q, v).prev[v] = NULL
  BY <1>1, SoloAssignments
<1>6. Risked(v) => /\ f = "x_entry" /\ q.head = v
                   /\ n <= 3 => q.next[v] = v /\ q.prev[v] = v
  BY <1>3, HandlerFacts DEF HandlerOk, Risked, Doubled, Self
<1>7. ASSUME NEW op, NEW qq, NEW crash, QueueStep("alrm", op, qq, crash),
             op \in {"bypass", "relink", "clrnext", "clrprev"}
      PROVE  /\ op = "bypass" => n = 1
             /\ op = "relink" => n = 2
             /\ op = "clrnext" => n = 3
             /\ op = "clrprev" => n = 4
  BY <1>7, HandlerFacts, HandlerPlaces, SoloQueueStep DEF Op
<1> HIDE DEF f, n
<1>8. CASE QueueStep("alrm", "bypass", bypassEntry(q, ent["alrm"]), FALSE)
  <2>1. n = 1
    BY <1>7, <1>8
  <2>2. Risked(v) => bypassEntry(q, v).head = v
    BY <1>5, <1>6, <2>1, NullAssumption
  <2>3. Risked(v) => q.next[v] = v /\ q.prev[v] = v
    BY <1>6, <2>1
  <2> QED BY <1>1, <1>3, <1>4, <1>5, <1>8, <2>2, <2>3
<1>9. CASE QueueStep("alrm", "relink", relinkSuccessor(q, ent["alrm"]),
                     RelinkCrashes(q, ent["alrm"]))
  <2>1. n = 2
    BY <1>7, <1>9
  <2> QED BY <1>1, <1>3, <1>4, <1>5, <1>6, <1>9, <2>1
<1>10. CASE QueueStep("alrm", "clrnext", clearNext(q, ent["alrm"]), FALSE)
  <2>1. n = 3
    BY <1>7, <1>10
  <2> QED BY <1>1, <1>3, <1>4, <1>5, <1>6, <1>10, <2>1
<1>11. CASE QueueStep("alrm", "clrprev", clearPrev(q, ent["alrm"]), FALSE)
  <2>1. n = 4
    BY <1>7, <1>11
  <2>2. f = "x_entry" => q.next[v] = NULL
    BY <2>1, HandlerFacts DEF HandlerOk, f, n
  <2> QED BY <1>1, <1>3, <1>4, <1>5, <1>6, <1>11, <2>1, <2>2
<1> QED BY <1>8, <1>9, <1>10, <1>11 DEF DoRmqueueStep

\* A step of vrrp_enqueue_impl, and what is left to show of it.
LEMMA HandlerEnqueue ==
    ASSUME NEW v \in Vr, Ready(v), prog["alrm"] # "idle", Advance("alrm"),
           Op("alrm") \in {"head", "join", "linkback", "inherit", "publish"},
           state' = state, delay' = delay, more' = more, nxt' = nxt,
           \A t \in Thread : curr'[t] \in {NULL, EMPTY, v},
           OwnQueue(v)',
           (prog["alrm"] = "x_mast" /\ at["alrm"] >= 3) => q'.head = v,
           (prog["alrm"] = "x_back" /\ at["alrm"] >= 6) => q'.head = v,
           Risked(v) => /\ q'.head = v
                        /\ Op("alrm") \in {"head", "join", "linkback", "inherit"} => curr'["alrm"] = v
                        /\ Op("alrm") = "join" => q'.next[v] = v
                        /\ Op("alrm") \in {"linkback", "inherit", "publish"} => Self(v)'
    PROVE  SoloOk(v)'
<1> DEFINE f == prog["alrm"]
           n == at["alrm"]
<1>1. /\ n \in Nat
      /\ \/ f = "x_mast" /\ n \in 2 .. 6
         \/ f = "x_back" /\ n \in (5 .. 9) \cup (13 .. 17)
  BY HandlerFacts, HandlerPlaces, SMTT(40) DEF Op
<1>2. n # Len(Code[f])
  <2> HIDE DEF f, n
  <2> QED BY <1>1, HandlerLengths
<1>3. HandlerTo(v, f, n + 1)
  BY <1>2, HandlerGoesOn
<1>4. HandlerOk(v)'
  BY <1>1, <1>3, HandlerFacts DEF HandlerOk, HandlerTo
<1>5. Acting(f, n + 1)
  BY <1>1 DEF Acting
<1>6. Taken(f, n + 1) \/ q'.head = v
  BY <1>1 DEF Taken
<1>7. Risked(v) => Doubled(v)'
  <2> SUFFICES ASSUME Risked(v) PROVE Doubled(v)'
    OBVIOUS
  <2>1. CASE f = "x_mast" /\ n \in 2 .. 6
    <3>1. /\ n = 2 => Op("alrm") = "head"
          /\ n = 3 => Op("alrm") = "join"
          /\ n = 4 => Op("alrm") = "linkback"
          /\ n = 5 => Op("alrm") = "inherit"
          /\ n = 6 => Op("alrm") = "publish"
      BY <2>1, HandlerFacts, HandlerPlaces DEF Op
    <3> QED BY <1>3, <2>1, <3>1 DEF Doubled, HandlerTo
  <2>2. CASE f = "x_back" /\ n \in 13 .. 17
    <3>1. /\ n = 13 => Op("alrm") = "head"
          /\ n = 14 => Op("alrm") = "join"
          /\ n = 15 => Op("alrm") = "linkback"
          /\ n = 16 => Op("alrm") = "inherit"
          /\ n = 17 => Op("alrm") = "publish"
      BY <2>2, HandlerFacts, HandlerPlaces DEF Op
    <3> QED BY <1>3, <2>2, <3>1 DEF Doubled, HandlerTo
  <2>3. CASE f = "x_back" /\ n \in 5 .. 9
    BY <2>3, HandlerFacts DEF HandlerOk, Risked
  <2> QED BY <1>1, <2>1, <2>2, <2>3
<1>8. f # "x_loop"
  BY <1>1
<1> HIDE DEF f, n
<1> QED BY <1>3, <1>4, <1>5, <1>6, <1>7, <1>8, HandlerNext

LEMMA HandlerEnqueues ==
    ASSUME NEW v \in Vr, Ready(v), prog["alrm"] # "idle", up' = up,
           DoReadHead("alrm") \/ DoJoin("alrm") \/ DoEnqueueStep("alrm")
    PROVE  SoloOk(v)'
<1> DEFINE f == prog["alrm"]
           n == at["alrm"]
           c == curr["alrm"]
<1>1. q \in Queues /\ q.head \in {NULL, v} /\ q.next[v] \in {NULL, v} /\ q.prev[v] \in {NULL, v}
  BY HandlerFacts DEF OwnQueue
<1>2. Op("alrm") \in {"head", "join", "linkback", "inherit", "publish"}
  BY DEF DoReadHead, DoJoin, DoEnqueueStep, QueueStep, At, Op
<1>3. /\ n \in Nat /\ ent["alrm"] = v
      /\ \/ f = "x_mast" /\ n \in 2 .. 6
         \/ f = "x_back" /\ n \in (5 .. 9) \cup (13 .. 17)
  BY <1>2, HandlerFacts, HandlerPlaces, SMTT(40) DEF Op
<1>4. /\ curr \in [Thread -> Ptr \cup {EMPTY}] /\ \A u \in Thread : curr[u] \in {NULL, EMPTY, v}
      /\ Op("alrm") = "join" => c \in {NULL, v}
      /\ Op("alrm") = "inherit" => c \in {v, EMPTY}
  BY HandlerFacts, NullAssumption DEF Ready, SoloOk, OwnThreads, Control, Currs, Ptr
<1>5. /\ (f = "x_mast" /\ n >= 4) => q.head = v
      /\ (f = "x_back" /\ n >= 7) => q.head = v
      /\ (f = "x_back" /\ n <= 10) => state[v] = "BACK"
  BY HandlerFacts DEF HandlerOk
<1>6. Risked(v) => /\ q.head = v
                   /\ Op("alrm") \in {"join", "linkback", "inherit", "publish"} => c = v
                   /\ Op("alrm") = "linkback" => q.next[v] = v
                   /\ Op("alrm") \in {"inherit", "publish"} => Self(v)
  <2> SUFFICES ASSUME Risked(v)
               PROVE  /\ q.head = v
                      /\ Op("alrm") \in {"join", "linkback", "inherit", "publish"} => c = v
                      /\ Op("alrm") = "linkback" => q.next[v] = v
                      /\ Op("alrm") \in {"inherit", "publish"} => Self(v)
    OBVIOUS
  <2>1. Doubled(v) /\ ~(f = "x_back" /\ n \in 5 .. 9)
    BY <1>5, HandlerFacts DEF Risked
  <2>2. /\ f = "x_mast" => /\ Op("alrm") = "join" => n = 3
                           /\ Op("alrm") = "linkback" => n = 4
                           /\ Op("alrm") = "inherit" => n = 5
                           /\ Op("alrm") = "publish" => n = 6
        /\ f = "x_back" => /\ Op("alrm") = "join" => n = 14
                           /\ Op("alrm") = "linkback" => n = 15
                           /\ Op("alrm") = "inherit" => n = 16
                           /\ Op("alrm") = "publish" => n = 17
    BY <2>1, <1>3, HandlerFacts, HandlerPlaces, SMTT(40) DEF Op
  <2> QED BY <1>3, <2>1, <2>2 DEF Doubled
<1>7. CASE DoReadHead("alrm")
  <2>1. /\ Advance("alrm") /\ state' = state /\ delay' = delay /\ more' = more /\ nxt' = nxt /\ q' = q
        /\ Op("alrm") = "head" /\ curr' = [curr EXCEPT !["alrm"] = q.head]
    BY <1>7 DEF DoReadHead, attrs, At, Op
  <2>2. \A u \in Thread : curr'[u] \in {NULL, EMPTY, v}
    BY <1>1, <1>4, <2>1
  <2>3. curr'["alrm"] = q.head
    BY <1>4, <2>1, HandlerFacts
  <2>4. OwnQueue(v)'
    BY <1>1, <2>1 DEF OwnQueue
  <2>5. /\ (f = "x_mast" /\ n >= 3) => q'.head = v
        /\ (f = "x_back" /\ n >= 6) => q'.head = v
    BY <1>2, <1>3, <1>5, <2>1, HandlerFacts, HandlerPlaces DEF Op
  <2> QED BY <1>6, <2>1, <2>2, <2>3, <2>4, <2>5, HandlerEnqueue
<1>8. CASE DoJoin("alrm")
  <2>1. /\ Advance("alrm") /\ state' = state /\ delay' = delay /\ more' = more /\ nxt' = nxt
        /\ Op("alrm") = "join"
    BY <1>8 DEF DoJoin, attrs, At, Op
  <2>2. /\ \A u \in Thread : curr'[u] \in {NULL, EMPTY, v}
        /\ q.head # NULL => curr' = curr
    BY <1>4, <1>8 DEF DoJoin
  <2>3. /\ OwnQueue(v)' /\ q'.head = v
        /\ (q.head = v /\ c = v) => q'.next[v] = v
    <3>1. CASE q.head = NULL
      <4>1. q' = setHead(q, v)
        BY <1>3, <1>8, <3>1 DEF DoJoin
      <4> QED BY <1>1, <3>1, <4>1, HandlerFacts, SoloAssignments DEF OwnQueue
    <3>2. CASE q.head = v
      <4>1. q' = linkBefore(q, v, c) /\ c \in {NULL, v}
        BY <1>3, <1>4, <1>8, <2>1, <3>2, HandlerFacts DEF DoJoin
      <4> QED BY <1>1, <3>2, <4>1, SoloAssignments DEF OwnQueue
    <3> QED BY <1>1, <3>1, <3>2
  <2>4. Risked(v) => q'.head = v /\ curr'["alrm"] = v /\ q'.next[v] = v
    BY <1>6, <2>1, <2>2, <2>3, HandlerFacts
  <2> QED BY <2>1, <2>2, <2>3, <2>4, HandlerEnqueue
<1>9. ASSUME NEW op \in {"linkback", "inherit", "publish"}, NEW qq, NEW crash,
             QueueStep("alrm", op, qq, crash), qq.head = v,
             qq.next[v] \in {NULL, v}, qq.prev[v] \in {NULL, v},
             Risked(v) => qq.next[v] = v /\ qq.prev[v] = v
      PROVE  SoloOk(v)'
  <2>1. /\ Op("alrm") = op /\ q' = qq /\ Advance("alrm")
        /\ state' = state /\ delay' = delay /\ more' = more /\ nxt' = nxt
        /\ \A u \in Thread : curr'[u] \in {NULL, EMPTY, v}
        /\ op # "publish" => curr' = curr
    BY <1>9, HandlerFacts, SoloQueueStep
  <2>2. OwnQueue(v)' /\ q'.head = v
    BY <1>9, <2>1 DEF OwnQueue
  <2>3. Risked(v) => /\ Op("alrm") \in {"linkback", "inherit"} => curr'["alrm"] = v
                     /\ Self(v)'
    BY <1>6, <1>9, <2>1 DEF Self
  <2> QED BY <1>9, <2>1, <2>2, <2>3, HandlerEnqueue
<1>10. ASSUME NEW op \in {"linkback", "inherit", "publish"}, NEW qq, NEW crash,
              QueueStep("alrm", op, qq, crash)
       PROVE  Op("alrm") = op /\ ~crash /\ ent["alrm"] = v /\ q.head = v
  <2>1. Op("alrm") = op /\ ~crash
    BY <1>10, HandlerFacts, SoloQueueStep
  <2>2. (f = "x_mast" /\ n >= 4) \/ (f = "x_back" /\ n >= 7)
    BY <2>1, HandlerFacts, HandlerPlaces, SMTT(40) DEF Op
  <2> QED BY <1>3, <1>5, <2>1, <2>2
<1> HIDE DEF f, n
<1>11. CASE QueueStep("alrm", "linkback", IF c = EMPTY THEN q ELSE linkBack(q, ent["alrm"], c),
                      c = NULL)
  <2>1. Op("alrm") = "linkback" /\ ent["alrm"] = v /\ q.head = v /\ c \in {EMPTY, v}
    BY <1>4, <1>10, <1>11, HandlerFacts
  <2>2. LET r == IF c = EMPTY THEN q ELSE linkBack(q, v, c)
        IN /\ r.head = v /\ r.next[v] \in {NULL, v} /\ r.prev[v] \in {NULL, v}
           /\ Risked(v) => r.next[v] = v /\ r.prev[v] = v
    <3>1. v # EMPTY
      BY HandlerFacts DEF Ptr
    <3>2. Risked(v) => c = v /\ q.next[v] = v
      BY <1>6, <2>1
    <3>3. /\ linkBack(q, v, v).head = q.head /\ linkBack(q, v, v).next[v] = q.next[v]
          /\ linkBack(q, v, v).prev[v] = v
      BY <1>1, SoloAssignments
    <3> QED BY <1>1, <2>1, <3>1, <3>2, <3>3
  <2> QED BY <1>9, <1>11, <2>1, <2>2
<1>12. CASE QueueStep("alrm", "inherit", IF c = EMPTY THEN q ELSE inheritPrev(q, ent["alrm"], c),
                      FALSE)
  <2>1. Op("alrm") = "inherit" /\ ent["alrm"] = v /\ q.head = v /\ c \in {EMPTY, v}
    BY <1>4, <1>10, <1>12
  <2>2. LET r == IF c = EMPTY THEN q ELSE inheritPrev(q, v, c)
        IN /\ r.head = v /\ r.next[v] \in {NULL, v} /\ r.prev[v] \in {NULL, v}
           /\ Risked(v) => r.next[v] = v /\ r.prev[v] = v
    <3>1. v # EMPTY
      BY HandlerFacts DEF Ptr
    <3>2. Risked(v) => c = v /\ q.next[v] = v /\ q.prev[v] = v
      BY <1>6, <2>1 DEF Self
    <3>3. /\ inheritPrev(q, v, v).head = q.head /\ inheritPrev(q, v, v).next[v] = q.next[v]
          /\ inheritPrev(q, v, v).prev[v] = q.prev[v]
      BY <1>1, SoloAssignments
    <3> QED BY <1>1, <2>1, <3>1, <3>2, <3>3
  <2> QED BY <1>9, <1>12, <2>1, <2>2
<1>13. CASE QueueStep("alrm", "publish",
                      IF c = EMPTY THEN clearPrev(q, ent["alrm"]) ELSE publish(q, ent["alrm"], c),
                      c # EMPTY /\ c # q.head /\ q.prev[ent["alrm"]] = NULL)
  <2>1. /\ Op("alrm") = "publish" /\ ent["alrm"] = v /\ q.head = v
        /\ c = EMPTY \/ c = q.head \/ q.prev[v] # NULL
    BY <1>10, <1>13
  <2>2. v # EMPTY
    BY HandlerFacts DEF Ptr
  <2>3. LET r == IF c = EMPTY THEN clearPrev(q, v) ELSE publish(q, v, c)
        IN /\ r.head = v /\ r.next[v] \in {NULL, v} /\ r.prev[v] \in {NULL, v}
           /\ Risked(v) => r.next[v] = v /\ r.prev[v] = v
    BY <1>1, <1>6, <2>1, <2>2, SoloAssignments DEF Self
  <2> QED BY <1>9, <1>13, <2>1, <2>3
<1> QED BY <1>7, <1>8, <1>11, <1>12, <1>13 DEF DoEnqueueStep

\* "entry->qnext" was cleared, so the loop ends after one entry
LEMMA HandlerLooks ==
    ASSUME NEW v \in Vr, Ready(v), prog["alrm"] # "idle", DoMore
    PROVE  SoloOk(v)'
<1>1. prog["alrm"] = "x_entry" /\ at["alrm"] = 5 /\ ent["alrm"] = v
  BY HandlerFacts, HandlerPlaces DEF DoMore, At
<1>2. q.next[v] = NULL
  BY <1>1, HandlerFacts DEF HandlerOk
<1>3. more' = FALSE
  BY <1>1, <1>2 DEF DoMore
<1>4. nxt' = nxt
  BY <1>3 DEF DoMore
<1>5. more' = more
  <2>1. ~more /\ more \in BOOLEAN
    BY HandlerFacts DEF Ready, Control, Data
  <2> QED BY <1>3, <2>1
<1>6. /\ Advance("alrm") /\ q' = q /\ state' = state /\ delay' = delay /\ curr' = curr
      /\ \A t \in Thread : curr'[t] \in {NULL, EMPTY, v}
  BY DEF DoMore, attrs, Ready, SoloOk, OwnThreads
<1>7. HandlerTo(v, "x_entry", 6)
  <2>1. at["alrm"] # Len(Code[prog["alrm"]])
    BY <1>1 DEF Code
  <2>2. HandlerTo(v, prog["alrm"], at["alrm"] + 1)
    BY <1>4, <1>5, <1>6, <2>1, HandlerGoesOn
  <2> QED BY <1>1, <2>2
<1>8. OwnQueue(v)'
  BY <1>6, HandlerFacts DEF OwnQueue
<1>9. HandlerOk(v)'
  BY <1>2, <1>6, <1>7 DEF HandlerOk, HandlerTo
<1>10. Taken("x_entry", 6) /\ Acting("x_entry", 6)
  BY DEF Taken, Acting
<1>11. Risked(v) => Doubled(v)'
  BY <1>6, <1>7, HandlerFacts DEF Doubled, HandlerTo
<1> QED BY <1>6, <1>7, <1>8, <1>9, <1>10, <1>11, HandlerNext

\* the two looks at the state
LEMMA HandlerTests ==
    ASSUME NEW v \in Vr, Ready(v), prog["alrm"] # "idle", DoTest
    PROVE  SoloOk(v)'
<1>1. prog["alrm"] = "x_entry" /\ at["alrm"] \in {6, 7} /\ ent["alrm"] = v
  BY HandlerFacts, HandlerPlaces DEF DoTest, At
<1>2. /\ q' = q /\ state' = state /\ delay' = delay /\ UNCHANGED locals
      /\ \A t \in Thread : curr'[t] \in {NULL, EMPTY, v}
  BY DEF DoTest, attrs, locals, Ready, SoloOk, OwnThreads
<1>3. OwnQueue(v)'
  BY <1>2, HandlerFacts DEF OwnQueue
<1>4. ASSUME NEW f \in HandlerCode, Jump("alrm", f), UNCHANGED ent
      PROVE  HandlerTo(v, f, 1)
  <2>1. /\ prog'["main"] = prog["main"] /\ at'["main"] = at["main"] /\ ent' = ent
        /\ prog'["alrm"] = f /\ at'["alrm"] = 1
    BY <1>4 DEF Jump, Ready, Control, Places, Thread
  <2>2. ~more'
    BY <1>2, HandlerFacts DEF locals
  <2>3. nxt' = NULL
    BY <1>2, HandlerFacts DEF locals
  <2> QED BY <1>1, <1>2, <2>1, <2>2, <2>3 DEF HandlerTo
<1>5. q.next[v] = NULL /\ (Risked(v) => q.head = v)
  BY <1>1, HandlerFacts DEF HandlerOk, Doubled
<1>6. CASE At("alrm", "is_mast")
  <2>1. at["alrm"] = 6
    BY <1>6, HandlerFacts, HandlerPlaces DEF At
  <2>2. CASE state[v] = "MAST"
    <3>1. HandlerTo(v, "x_mast", 1)
      BY <1>1, <1>4, <1>6, <2>1, <2>2 DEF DoTest, At, advertises, HandlerCode, Code
    <3>2. HandlerOk(v)'
      BY <1>2, <2>2, <3>1 DEF HandlerOk, HandlerTo
    <3>3. Taken("x_mast", 1) /\ Acting("x_mast", 1)
      BY DEF Taken, Acting
    <3>4. Risked(v) => Doubled(v)'
      BY <1>2, <1>5, <3>1 DEF Doubled, HandlerTo
    <3> QED BY <1>2, <1>3, <3>1, <3>2, <3>3, <3>4, HandlerNext
  <2>3. CASE state[v] # "MAST"
    <3>1. Advance("alrm") /\ delay' = delay /\ more' = more /\ nxt' = nxt
      BY <1>1, <1>2, <1>6, <2>1, <2>3 DEF DoTest, At, advertises, Code, locals
    <3>2. HandlerTo(v, "x_entry", 7)
      <4>1. at["alrm"] # Len(Code[prog["alrm"]])
        BY <1>1, <2>1 DEF Code
      <4>2. HandlerTo(v, prog["alrm"], at["alrm"] + 1)
        BY <1>2, <3>1, <4>1, HandlerGoesOn
      <4> QED BY <1>1, <2>1, <4>2
    <3>3. HandlerOk(v)'
      BY <1>2, <1>5, <2>3, <3>2 DEF HandlerOk, HandlerTo
    <3>4. Taken("x_entry", 7) /\ Acting("x_entry", 7) /\ ~Risked(v)
      BY <2>3 DEF Taken, Acting, Risked
    <3> QED BY <1>2, <1>3, <3>2, <3>3, <3>4, HandlerNext
  <2> QED BY <2>2, <2>3
<1>7. CASE At("alrm", "is_back")
  <2>1. at["alrm"] = 7
    BY <1>7, HandlerFacts, HandlerPlaces DEF At
  <2>2. state[v] \in {"INIT", "BACK"}
    BY <1>1, <2>1, HandlerFacts DEF HandlerOk, States
  <2>3. ~Due(v) /\ ~Risked(v)
    BY <2>2 DEF Due, Risked
  <2>4. CASE state[v] = "BACK"
    <3>1. HandlerTo(v, "x_back", 1)
      BY <1>1, <1>4, <1>7, <2>1, <2>4 DEF DoTest, At, takesOver, HandlerCode, Code
    <3>2. HandlerOk(v)'
      BY <1>2, <2>4, <3>1 DEF HandlerOk, HandlerTo
    <3>3. Taken("x_back", 1)
      BY DEF Taken
    <3> QED BY <1>2, <1>3, <2>3, <3>1, <3>2, <3>3, HandlerNext
  <2>5. CASE state[v] = "INIT"
    <3>1. HandlerTo(v, "x_none", 1)
      BY <1>1, <1>4, <1>7, <2>1, <2>5 DEF DoTest, At, takesOver, HandlerCode, Code
    <3>2. HandlerOk(v)'
      BY <1>2, <2>5, <3>1 DEF HandlerOk, HandlerTo
    <3>3. ~Wanted(v)
      BY <2>5 DEF Wanted, Relinked, Ready, SoloOk, MainOk
    <3> QED BY <1>2, <1>3, <2>3, <3>1, <3>2, <3>3, HandlerNext
  <2> QED BY <2>2, <2>4, <2>5
<1> QED BY <1>6, <1>7 DEF DoTest

\* the end of the loop's body
LEMMA HandlerEnds ==
    ASSUME NEW v \in Vr, Ready(v), prog["alrm"] # "idle", DoAgain
    PROVE  SoloOk(v)'
<1> DEFINE f == prog["alrm"]
           n == at["alrm"]
<1>1. (f = "x_mast" /\ n = 8) \/ (f = "x_back" /\ n = 19) \/ f = "x_none"
  BY HandlerFacts, HandlerPlaces DEF DoAgain, At
<1>2. /\ q' = q /\ state' = state /\ delay' = delay /\ armed' = armed /\ ent' = ent
      /\ \A t \in Thread : curr'[t] \in {NULL, EMPTY, v}
  BY DEF DoAgain, attrs, Ready, SoloOk, OwnThreads
<1>3. Jump("alrm", "x_done") /\ nxt' = NULL
  BY HandlerFacts DEF DoAgain
<1>4. ~more'
  BY HandlerFacts DEF DoAgain
<1>5. HandlerTo(v, "x_done", 1)
  BY <1>2, <1>3, <1>4 DEF HandlerTo, Jump, Ready, Control, Places, Thread
<1>6. OwnQueue(v)'
  BY <1>2, HandlerFacts DEF OwnQueue
<1>7. HandlerOk(v)'
  BY <1>5 DEF HandlerOk, HandlerTo
<1>8. ~Acting(f, n) /\ ~Taken(f, n)
  BY <1>1 DEF Acting, Taken
<1>9. Due(v) => armed'
  <2>1. Due(v) => armed
    BY <1>8, Zenon DEF Ready, SoloOk, AlarmSet, Due
  <2> QED BY <1>2, <2>1
<1>10. Wanted(v) => q'.head = v
  BY <1>2, <1>8, HandlerFacts
<1>11. Risked(v) => Doubled(v)'
  <2>1. (Risked(v) /\ f # "x_none") => q.head = v /\ Self(v)
    BY <1>1, HandlerFacts DEF Doubled
  <2>2. Risked(v) => f # "x_none"
    BY HandlerFacts DEF Risked, HandlerOk
  <2> QED BY <1>2, <1>5, <2>1, <2>2 DEF Doubled, HandlerTo, Self
<1> QED BY <1>2, <1>5, <1>6, <1>7, <1>9, <1>10, <1>11, HandlerNext

\* alarm: with a positive interval one is pending afterwards
LEMMA HandlerArms ==
    ASSUME NEW v \in Vr, Ready(v), prog["alrm"] # "idle", DoAlarm("alrm")
    PROVE  SoloOk(v)'
<1> DEFINE f == prog["alrm"]
           n == at["alrm"]
<1>1. /\ n \in Nat /\ ent["alrm"] = v
      /\ (f = "x_mast" /\ n = 7) \/ (f = "x_back" /\ n = 12) \/ (f = "x_back" /\ n = 18)
  BY HandlerFacts, HandlerPlaces DEF DoAlarm, At
<1>2. /\ Advance("alrm") /\ q' = q /\ state' = state /\ delay' = delay
      /\ more' = more /\ nxt' = nxt
      /\ \A t \in Thread : curr'[t] \in {NULL, EMPTY, v}
  BY DEF DoAlarm, attrs, locals, Ready, SoloOk, OwnThreads
<1>3. armed' = (delay[v] > 0)
  BY <1>1, HandlerFacts DEF DoAlarm
<1>4. armed'
  BY <1>3, HandlerFacts
<1>5. n # Len(Code[f])
  <2> HIDE DEF f, n
  <2> QED BY <1>1, HandlerLengths
<1>6. HandlerTo(v, f, n + 1)
  BY <1>2, <1>5, HandlerGoesOn
<1>7. OwnQueue(v)'
  BY <1>2, HandlerFacts DEF OwnQueue
<1>8. HandlerOk(v)'
  BY <1>1, <1>2, <1>6, HandlerFacts DEF HandlerOk, HandlerTo
<1>9. Wanted(v) => q'.head = v
  BY <1>1, <1>2, HandlerFacts DEF HandlerOk
<1>10. Risked(v) => Doubled(v)'
  BY <1>1, <1>2, <1>6, HandlerFacts DEF Doubled, HandlerTo, Self
<1>11. f # "x_loop"
  BY <1>1
<1> HIDE DEF f, n
<1> QED BY <1>2, <1>4, <1>6, <1>7, <1>8, <1>9, <1>10, <1>11, HandlerNext

\* The handler promotes a backup.
LEMMA HandlerPromotes ==
    ASSUME NEW v \in Vr, Ready(v), prog["alrm"] # "idle", DoState("alrm")
    PROVE  SoloOk(v)'
<1>1. prog["alrm"] = "x_back" /\ at["alrm"] = 10 /\ ent["alrm"] = v /\ At("alrm", "mast")
  BY HandlerFacts, HandlerPlaces DEF DoState, SetState, At
<1>2. /\ Advance("alrm") /\ q' = q /\ delay' = delay /\ more' = more /\ nxt' = nxt
      /\ \A t \in Thread : curr'[t] \in {NULL, EMPTY, v}
  BY DEF DoState, attrs, locals, Ready, SoloOk, OwnThreads
<1>3. state'[v] = "MAST"
  BY <1>1, HandlerFacts DEF DoState, SetState, At
<1>4. HandlerTo(v, "x_back", 11)
  <2>1. at["alrm"] # Len(Code[prog["alrm"]])
    BY <1>1 DEF Code
  <2>2. HandlerTo(v, prog["alrm"], at["alrm"] + 1)
    BY <1>2, <2>1, HandlerGoesOn
  <2> QED BY <1>1, <2>2
<1>5. q.head = v /\ state[v] = "BACK"
  BY <1>1, HandlerFacts DEF HandlerOk
<1>6. OwnQueue(v)'
  BY <1>2, HandlerFacts DEF OwnQueue
<1>7. OwnThreads(v)'
  <2>1. \A t \in Thread : prog[t] \notin {"idle", "expire", "x_loop", "x_done"} => ent[t] = v
    BY DEF Ready, SoloOk, OwnThreads
  <2>2. \A t \in Thread : prog'[t] \notin {"idle", "expire", "x_loop", "x_done"} => ent'[t] = v
    BY <1>4, <2>1 DEF Thread, HandlerTo
  <2> QED BY <1>4, <2>2, HandlerFacts DEF OwnThreads, HandlerTo
<1>8. MainOk(v)'
  BY <1>3, <1>4, <1>5, HandlerFacts DEF Ready, SoloOk, MainOk, HandlerTo
<1>9. HandlerOk(v)'
  BY <1>2, <1>3, <1>4, <1>5 DEF HandlerOk, HandlerTo
<1>10. InQueue(v)'
  BY <1>2, <1>5 DEF InQueue
<1>11. AlarmSet(v)'
  <2>1. Acting(prog'["alrm"], at'["alrm"])
    BY <1>4 DEF Acting, HandlerTo
  <2> QED BY <2>1, Zenon DEF AlarmSet
<1>12. Twice(v)'
  <2>1. Doubled(v)'
    BY <1>2, <1>4, <1>5 DEF Doubled, HandlerTo
  <2> QED BY <2>1 DEF Twice
<1> QED BY <1>6, <1>7, <1>8, <1>9, <1>10, <1>11, <1>12 DEF SoloOk

\* Every step of the handler.
LEMMA HandlerKeepsSolo ==
    ASSUME NEW v \in Vr, Ready(v), HandlerStep, up' = up
    PROVE  SoloOk(v)'
<1>1. prog["alrm"] # "idle"
  BY StepsWorkSomewhere, CodeOrder DEF Ready, Control, Places, Thread, Op
<1>2. CASE DoLock("alrm") \/ DoFork("alrm")
  BY <1>1, <1>2, HandlerPlain DEF DoLock, DoFork, At, Op, SameSolo, attrs, locals
<1>3. CASE DoSend("alrm")
  <2>1. Advance("alrm") /\ SameSolo /\ Op("alrm") \in {"send", "stop"}
    BY <1>3 DEF DoSend, At, Op, SameSolo, attrs, locals
  <2>2. Op("alrm") # "stop"
    BY <1>1, HandlerFacts, HandlerPlaces DEF Op
  <2> QED BY <1>1, <2>1, <2>2, HandlerPlain
<1>4. CASE DoUnlock("alrm")
  BY <1>1, <1>4, HandlerReturns DEF DoUnlock, At, Op, SameSolo, attrs, locals
<1>5. CASE DoState("alrm") \/ DoAlarm("alrm")
  BY <1>1, <1>5, HandlerPromotes, HandlerArms
<1>6. CASE \/ DoRmqueueStep("alrm") \/ DoReadHead("alrm") \/ DoJoin("alrm")
           \/ DoEnqueueStep("alrm")
  BY <1>1, <1>6, HandlerRemoves, HandlerEnqueues
<1>7. CASE DoDequeue \/ DoMore \/ DoTest \/ DoAgain
  BY <1>1, <1>7, HandlerDequeues, HandlerLooks, HandlerTests, HandlerEnds
<1> QED BY <1>2, <1>3, <1>4, <1>5, <1>6, <1>7 DEF HandlerStep, Step

\* The alarm goes off.
LEMMA DeliverKeepsSolo ==
    ASSUME NEW v \in Vr, Ready(v), NEW thr, Deliver(thr)
    PROVE  SoloOk(v)'
<1>1. prog["alrm"] = "idle" /\ prog["main"] # "i2m"
  BY DEF Deliver, Ready, Control, Roles, SoloOk, MainOk
<1>2. /\ q' = q /\ state' = state /\ delay' = delay /\ ent' = ent
      /\ UNCHANGED locals
      /\ prog'["main"] = prog["main"] /\ at'["main"] = at["main"] /\ prog'["alrm"] = "expire"
      /\ at'["alrm"] = 1
  BY DEF Deliver, attrs, Ready, Control, Places, Thread
<1>3. OwnQueue(v)' /\ MainOk(v)'
  BY <1>1, <1>2 DEF Ready, SoloOk, OwnQueue, MainOk
<1>4. OwnThreads(v)'
  <2>1. OwnThreads(v)
    BY DEF Ready, SoloOk
  <2>2. \A t \in Thread : prog'[t] \notin {"idle", "expire", "x_loop", "x_done"} => ent'[t] = v
    BY <1>2, <2>1 DEF Thread, OwnThreads
  <2> QED BY <1>2, <2>1, <2>2 DEF OwnThreads, locals
<1>5. HandlerOk(v)'
  BY <1>2 DEF HandlerOk
<1>6. InQueue(v)'
  BY <1>1, <1>2 DEF Ready, SoloOk, InQueue, Taken
<1>7. AlarmSet(v)'
  <2>1. Acting(prog'["alrm"], at'["alrm"])
    BY <1>2 DEF Acting
  <2> QED BY <2>1, Zenon DEF AlarmSet
<1>8. Twice(v)'
  BY <1>1, <1>2 DEF Ready, SoloOk, Twice, Doubled, Self
<1> QED BY <1>3, <1>4, <1>5, <1>6, <1>7, <1>8 DEF SoloOk

(***************************************************************************)
(* The invariant                                                           *)
(***************************************************************************)

\* No object is ever freed and the process does not come back.
LEMMA UsedOnlyGrows ==
    ASSUME Data, [Next]_vars
    PROVE  /\ used \subseteq used'
           /\ used' # used => \E v \in Vr : v \notin used /\ used' = used \cup {v}
           /\ up # "up" => up' = up
<1>1. CASE UNCHANGED vars
  BY <1>1 DEF vars, list
<1>2. CASE Command
  BY <1>2 DEF Command, vrrp_create_inst, vrrp_startup_inst, vrrp_shutdown_inst,
     vrrp_destroy_inst, vrrp_set_inst_prop, destroy_missing, Segv, MainIdle, Runs, list
<1>3. CASE Advert
  BY <1>3 DEF Advert, receive_stop, receive_stop_no_instance, receive_adv, Segv, MainIdle,
     Runs, list
<1>4. ASSUME NEW t, Step(t) PROVE used' = used /\ up = "up"
  BY <1>4 DEF Step, DoLock, DoUnlock, DoState, SetState, DoFork, DoAlarm, DoSend, DoRmqueueStep,
     DoReadHead, DoJoin, DoEnqueueStep, QueueStep, Segv, At, Runs, list
<1>8. CASE DoRequeue
  BY <1>8, RequeueCases DEF MainEnqueue, Segv, At, Runs, list
<1>5. CASE MainStep
  BY <1>4, <1>5, <1>8 DEF MainStep, DoRmqueue, DoEnqueue, MainEnqueue, DoKill, DoSleep,
     DoUnlink, QueueStep, Segv, At, Runs, list
<1>6. CASE HandlerStep
  BY <1>4, <1>6 DEF HandlerStep, DoDequeue, DoMore, DoTest, DoAgain, At, Runs, list
<1>7. CASE \E thr \in HandlerThreads : Deliver(thr)
  BY <1>7 DEF Deliver, list
<1> QED BY <1>1, <1>2, <1>3, <1>5, <1>6, <1>7 DEF Next

LEMMA SoloStep ==
    ASSUME Data, Control, Locking, Tested, SoloInv, [Next]_vars
    PROVE  SoloInv'
<1> SUFFICES ASSUME up' = "up", 0 \notin ModDelay
             PROVE  /\ used' = {} => Fresh'
                    /\ \A v \in Vr : used' = {v} => SoloOk(v)'
  BY DEF SoloInv
<1>1. up = "up"
  BY UsedOnlyGrows
<1>2. CASE used = {}
  <2>1. Fresh
    BY <1>1, <1>2 DEF SoloInv
  <2> QED BY <1>1, <1>2, <2>1, FreshStep
<1>3. CASE used # {}
  <2>1. used' # {}
    BY <1>3, UsedOnlyGrows
  <2>2. ASSUME NEW v \in Vr, used' = {v} PROVE SoloOk(v)'
    <3>1. used = {v}
      BY <1>3, <2>2, UsedOnlyGrows
    <3>2. Ready(v)
      BY <1>1, <3>1 DEF SoloInv, Ready
    <3>3. CASE UNCHANGED vars
      <4>1. UNCHANGED threads /\ state' = state /\ q' = q /\ armed' = armed /\ delay' = delay
        BY <3>3 DEF vars, attrs
      <4>2. delay'[v] > 0
        BY <3>2, <4>1, MainEntry
      <4> QED BY <3>2, <4>1, <4>2, NoCallSolo
    <3>4. CASE Command \/ Advert
      BY <2>2, <3>2, <3>4, InputKeepsSolo
    <3>5. CASE MainStep
      BY <1>1, <3>2, <3>5, MainKeepsSolo
    <3>6. CASE HandlerStep
      BY <1>1, <3>2, <3>6, HandlerKeepsSolo
    <3>7. CASE \E thr \in HandlerThreads : Deliver(thr)
      BY <3>2, <3>7, DeliverKeepsSolo
    <3> QED BY <3>3, <3>4, <3>5, <3>6, <3>7 DEF Next
  <2> QED BY <2>1, <2>2
<1> QED BY <1>2, <1>3

LEMMA SoloInit == Init => SoloInv
BY DEF Init, SoloInv, Fresh, Thread

LEMMA SoloMeansServed == Control /\ SoloInv => SoloMasterServed
<1> SUFFICES ASSUME Control, SoloInv, NEW v \in Vr, used = {v}, 0 \notin ModDelay, AtRest,
                    state[v] = "MAST"
             PROVE  q.head = v /\ armed
  BY DEF SoloMasterServed
<1>1. SoloOk(v) /\ prog["main"] = "idle" /\ prog["alrm"] = "idle"
  BY DEF SoloInv, AtRest, Thread
<1>2. Calm(v)
  BY <1>1, CalmIsOk
<1>3. ~Out("idle", at["main"]) /\ ~Unset("idle", at["main"])
  BY DEF Out, Unset
<1>4. q.head = v
  BY <1>1, <1>2, <1>3 DEF Calm
<1>5. armed
  BY <1>1, <1>2, <1>3, Zenon DEF Calm
<1> QED BY <1>4, <1>5

LEMMA MutexHolds == Spec => []Locking
<1>1. LockDiscipline => Locking
  BY DEF LockDiscipline, Locking, Critical, Held
<1> QED BY <1>1, MutexIsDisciplined, PTL

\* Where alarms are handled by the main thread, the invariant holds of every daemon.
THEOREM SoloAlwaysHolds == HandlerThreads \subseteq {"main"} => (Spec => []SoloInv)
<1> SUFFICES ASSUME HandlerThreads \subseteq {"main"} PROVE Spec => []SoloInv
  OBVIOUS
<1>1. Spec => []Tested
  BY TestedHolds
<1>2. Data /\ Control /\ Locking /\ Tested /\ SoloInv /\ [Next]_vars => SoloInv'
  BY SoloStep
<1> QED BY <1>1, <1>2, SoloInit, TypesHold, MutexHolds, PTL DEF Spec

\* A master that is the only VR so far is the head of the queue and has an alarm
\* pending whenever neither thread is at work: no advertisement, command or alarm that
\* met another one on the main thread, also inside the unlocked vrrp_state_b2m, has left
\* it unserved.  Intervals of 0 are excluded, which stop the clock.
THEOREM MasterIsServed == HandlerThreads \subseteq {"main"} => (Spec => []SoloMasterServed)
<1> SUFFICES ASSUME HandlerThreads \subseteq {"main"} PROVE Spec => []SoloMasterServed
  OBVIOUS
<1>1. Spec => []SoloInv
  BY SoloAlwaysHolds
<1> QED BY <1>1, SoloMeansServed, TypesHold, PTL

(***************************************************************************)
(* The refinement of VrrpHost.  Beside the state of the VR, the host shows *)
(* whether an alarm is pending, so it takes a second invariant, about the  *)
(* alarm.  Again n is a position in function f.                            *)
(***************************************************************************)

\* The alarm that called the handler is spent and the next is not set.
Spent(f, n) == \/ f \in {"expire", "x_entry", "x_none"}
               \/ f = "x_mast" /\ n <= 7
               \/ f = "x_back" /\ n <= 12

\* The handler has set the next alarm.
Rearmed(f, n) == (f = "x_mast" /\ n = 8) \/ (f = "x_back" /\ n >= 13)

\* The main thread has taken the VR out of the queue and will put it back or change its
\* state.
Emptied(f, n) == Out(f, n) \/ (f = "b2m" /\ n \in 2 .. 6)

\* The main thread is past the point where a VR in INIT may still be out of the queue
\* with an alarm pending.
Settled(f, n) == (f = "i2b" /\ n >= 3) \/ f = "m2b"

Dormant(v) == \/ state[v] = "INIT" /\ ~Settled(prog["main"], at["main"])
              \/ Emptied(prog["main"], at["main"])

SpentOk == Spent(prog["alrm"], at["alrm"]) => ~armed
RearmedOk == Rearmed(prog["alrm"], at["alrm"]) => armed

\* An alarm finds the queue empty only where its handler may end without setting another.
EmptyOk(v) == (q.head = NULL /\ (armed \/ prog["alrm"] = "expire")) => Dormant(v)

SettingOk(v) == Setting(prog["main"], at["main"]) => state[v] = "MAST"

AlarmOk(v) == SpentOk /\ RearmedOk /\ EmptyOk(v) /\ SettingOk(v)

AlarmInv == (up = "up" /\ 0 \notin ModDelay) => \A v \in Vr : used = {v} => AlarmOk(v)

(***************************************************************************)
(* Places of the main thread                                               *)
(***************************************************************************)

\* The instructions that make a queue call one assignment at a time, and the whole calls
\* of the main thread.
Parts == {"bypass", "relink", "clrnext", "clrprev", "head", "join", "linkback", "inherit",
          "publish"}
Wholes == {"rmqueue", "rmlinked", "enqueue", "enqueue3", "requeue"}

\* The lists that Rest can return.
LEMMA Tails ==
    /\ <<"mast">> # <<>> /\ Head(<<"mast">>) = "mast" /\ Tail(<<"mast">>) = <<>>
    /\ <<"sleep">> # <<>> /\ Head(<<"sleep">>) = "sleep" /\ Tail(<<"sleep">>) = <<>>
    /\ <<"unlink">> # <<>> /\ Head(<<"unlink">>) = "unlink" /\ Tail(<<"unlink">>) = <<>>
    /\ <<"kill">> # <<>> /\ Head(<<"kill">>) = "kill" /\ Tail(<<"kill">>) = <<>>
    /\ <<"init">> # <<>> /\ Head(<<"init">>) = "init" /\ Tail(<<"init">>) = <<>>
    /\ <<"back", "sleep">> # <<>> /\ Head(<<"back", "sleep">>) = "back"
    /\ Tail(<<"back", "sleep">>) = <<"sleep">>
    /\ <<"kill", "sleep">> # <<>> /\ Head(<<"kill", "sleep">>) = "kill"
    /\ Tail(<<"kill", "sleep">>) = <<"sleep">>
    /\ <<"kill", "unlink">> # <<>> /\ Head(<<"kill", "unlink">>) = "kill"
    /\ Tail(<<"kill", "unlink">>) = <<"unlink">>
    /\ <<"stop", "kill">> # <<>> /\ Head(<<"stop", "kill">>) = "stop"
    /\ Tail(<<"stop", "kill">>) = <<"kill">>
    /\ <<"stop", "kill", "sleep">> # <<>> /\ Head(<<"stop", "kill", "sleep">>) = "stop"
    /\ Tail(<<"stop", "kill", "sleep">>) = <<"kill", "sleep">>
    /\ <<"stop", "kill", "unlink">> # <<>> /\ Head(<<"stop", "kill", "unlink">>) = "stop"
    /\ Tail(<<"stop", "kill", "unlink">>) = <<"kill", "unlink">>
    /\ <<"init", "stop", "kill">> # <<>> /\ Head(<<"init", "stop", "kill">>) = "init"
    /\ Tail(<<"init", "stop", "kill">>) = <<"stop", "kill">>
    /\ <<"init", "stop", "kill", "unlink">> # <<>>
    /\ Head(<<"init", "stop", "kill", "unlink">>) = "init"
    /\ Tail(<<"init", "stop", "kill", "unlink">>) = <<"stop", "kill", "unlink">>
    /\ <<"back", "stop", "kill", "sleep">> # <<>>
    /\ Head(<<"back", "stop", "kill", "sleep">>) = "back"
    /\ Tail(<<"back", "stop", "kill", "sleep">>) = <<"stop", "kill", "sleep">>
OBVIOUS

\* An instruction the LAN can see is the first of the rest, and no other is in it.
LEMMA RestPlaces ==
    ASSUME NEW f \in Functions \ HandlerCode, NEW n \in 1 .. Len(Code[f]), NEW g, NEW m,
           After(f, n, g, m)
    PROVE  /\ Code[f][n] \in Host!Todo => /\ Rest(f, n) # <<>> /\ Head(Rest(f, n)) = Code[f][n]
                                          /\ Rest(g, m) = Tail(Rest(f, n))
           /\ Code[f][n] \notin Host!Todo => Rest(g, m) = Rest(f, n)
<1>0. Rest("idle", 1) = <<>>
  BY DEF Rest
<1>1. CASE f = "idle"
  BY <1>1, <1>0, Tails DEF Code, After, Rest, Host!Todo
<1>2. CASE f = "i2m"
  BY <1>2, <1>0, Tails DEF Code, After, Rest, Host!Todo
<1>3. CASE f = "i2b"
  BY <1>3, <1>0, Tails DEF Code, After, Rest, Host!Todo
<1>4. CASE f = "m2i"
  BY <1>4, <1>0, Tails DEF Code, After, Rest, Host!Todo
<1>5. CASE f = "b2i"
  BY <1>5, <1>0, Tails DEF Code, After, Rest, Host!Todo
<1>6. CASE f = "b2m"
  BY <1>6, <1>0, Tails DEF Code, After, Rest, Host!Todo
<1>7. CASE f = "m2b"
  BY <1>7, <1>0, Tails DEF Code, After, Rest, Host!Todo
<1>8. CASE f = "kill_mast"
  BY <1>8, <1>0, Tails DEF Code, After, Rest, Host!Todo
<1>9. CASE f = "kill_mast_wild"
  BY <1>9, <1>0, Tails DEF Code, After, Rest, Host!Todo
<1>10. CASE f = "kill_other"
  BY <1>10, <1>0, Tails DEF Code, After, Rest, Host!Todo
<1>11. CASE f = "kill_other_wild"
  BY <1>11, <1>0, Tails DEF Code, After, Rest, Host!Todo
<1>12. CASE f = "modify"
  BY <1>12, <1>0, Tails DEF Code, After, Rest, Host!Todo
<1>13. CASE f = "modify_wild"
  BY <1>13, <1>0, Tails DEF Code, After, Rest, Host!Todo
<1>14. CASE f = "adv_back"
  BY <1>14, <1>0, Tails DEF Code, After, Rest, Host!Todo
<1> QED
  BY <1>1, <1>2, <1>3, <1>4, <1>5, <1>6, <1>7, <1>8, <1>9, <1>10,
     <1>11, <1>12, <1>13, <1>14, EachFunction DEF HandlerCode

\* Only a new master sets the alarm.
LEMMA SettingPlaces ==
    ASSUME NEW f \in Functions \ HandlerCode, NEW n \in 1 .. Len(Code[f]), NEW g, NEW m,
           After(f, n, g, m)
    PROVE  /\ Code[f][n] = "mast" => Setting(g, m)
           /\ Code[f][n] = "alarm" => Setting(f, n)
           /\ Code[f][n] \notin {"mast", "alarm"} => (Setting(g, m) <=> Setting(f, n))
           /\ Code[f][n] \in {"back", "init"} => ~Setting(f, n)
           /\ Code[f][n] = "fork" => Setting(f, n)
<1>1. CASE f = "idle"
  BY <1>1 DEF Code, After, Setting
<1>2. CASE f = "i2m"
  BY <1>2 DEF Code, After, Setting
<1>3. CASE f = "i2b"
  BY <1>3 DEF Code, After, Setting
<1>4. CASE f = "m2i"
  BY <1>4 DEF Code, After, Setting
<1>5. CASE f = "b2i"
  BY <1>5 DEF Code, After, Setting
<1>6. CASE f = "b2m"
  BY <1>6 DEF Code, After, Setting
<1>7. CASE f = "m2b"
  BY <1>7 DEF Code, After, Setting
<1>8. CASE f = "kill_mast"
  BY <1>8 DEF Code, After, Setting
<1>9. CASE f = "kill_mast_wild"
  BY <1>9 DEF Code, After, Setting
<1>10. CASE f = "kill_other"
  BY <1>10 DEF Code, After, Setting
<1>11. CASE f = "kill_other_wild"
  BY <1>11 DEF Code, After, Setting
<1>12. CASE f = "modify"
  BY <1>12 DEF Code, After, Setting
<1>13. CASE f = "modify_wild"
  BY <1>13 DEF Code, After, Setting
<1>14. CASE f = "adv_back"
  BY <1>14 DEF Code, After, Setting
<1> QED
  BY <1>1, <1>2, <1>3, <1>4, <1>5, <1>6, <1>7, <1>8, <1>9, <1>10,
     <1>11, <1>12, <1>13, <1>14, EachFunction DEF HandlerCode

\* Where the VR may be out of the queue.
LEMMA EmptiedPlaces ==
    ASSUME NEW f \in Functions \ HandlerCode, NEW n \in 1 .. Len(Code[f]), NEW g, NEW m,
           After(f, n, g, m)
    PROVE  /\ Code[f][n] \in {"lock", "unlock", "fork", "stop", "kill", "unlink", "rmlinked", "requeue"}
                 => (Emptied(f, n) => Emptied(g, m)) /\ (Settled(g, m) => Settled(f, n))
           /\ Code[f][n] \in {"rmqueue", "bypass", "relink", "clrnext", "clrprev", "head"}
                 => Emptied(g, m)
           /\ Code[f][n] \in {"mast", "back", "sleep"} => ~Emptied(f, n)
           /\ Code[f][n] = "init" => ~Settled(g, m)
           /\ Code[f][n] \in {"back", "sleep"} => Settled(f, n)
<1>1. CASE f = "idle"
  BY <1>1 DEF Code, After, Emptied, Settled, Out
<1>2. CASE f = "i2m"
  BY <1>2 DEF Code, After, Emptied, Settled, Out
<1>3. CASE f = "i2b"
  BY <1>3 DEF Code, After, Emptied, Settled, Out
<1>4. CASE f = "m2i"
  BY <1>4 DEF Code, After, Emptied, Settled, Out
<1>5. CASE f = "b2i"
  BY <1>5 DEF Code, After, Emptied, Settled, Out
<1>6. CASE f = "b2m"
  BY <1>6 DEF Code, After, Emptied, Settled, Out
<1>7. CASE f = "m2b"
  BY <1>7 DEF Code, After, Emptied, Settled, Out
<1>8. CASE f = "kill_mast"
  BY <1>8 DEF Code, After, Emptied, Settled, Out
<1>9. CASE f = "kill_mast_wild"
  BY <1>9 DEF Code, After, Emptied, Settled, Out
<1>10. CASE f = "kill_other"
  BY <1>10 DEF Code, After, Emptied, Settled, Out
<1>11. CASE f = "kill_other_wild"
  BY <1>11 DEF Code, After, Emptied, Settled, Out
<1>12. CASE f = "modify"
  BY <1>12 DEF Code, After, Emptied, Settled, Out
<1>13. CASE f = "modify_wild"
  BY <1>13 DEF Code, After, Emptied, Settled, Out
<1>14. CASE f = "adv_back"
  BY <1>14 DEF Code, After, Emptied, Settled, Out
<1> QED
  BY <1>1, <1>2, <1>3, <1>4, <1>5, <1>6, <1>7, <1>8, <1>9, <1>10,
     <1>11, <1>12, <1>13, <1>14, EachFunction DEF HandlerCode

(***************************************************************************)
(* What an instruction changes of what the LAN can see                     *)
(***************************************************************************)
\* instruction Op(t) of thread t, on v
Shows(t, v) ==
    /\ pri' = pri /\ flag' = flag /\ used' = used
    /\ Op(t) # "unlink" => live' = live
    /\ Op(t) = "unlink" => v \notin live'
    /\ Op(t) \notin {"mast", "back", "init"} => state' = state
    /\ Op(t) = "mast" => state'[v] = "MAST"
    /\ Op(t) = "back" => state'[v] = "BACK"
    /\ Op(t) = "init" => state'[v] = "INIT"
    /\ Op(t) # "fork" => pid' = pid
    /\ Op(t) = "fork" => pid'[v] = pid[v] \/ pid'[v] # 0
    /\ Op(t) \notin {"send", "stop"} => wire' = wire
    /\ Op(t) = "send" => wire' = [wire EXCEPT ![VridOf[v]] = pri[v]]
    /\ Op(t) = "stop" => wire' = [wire EXCEPT ![VridOf[v]] = 0]

LEMMA QueueStepShows ==
    ASSUME NEW v, NEW t, NEW op \in Parts \cup Wholes, NEW qq, NEW crash,
           QueueStep(t, op, qq, crash)
    PROVE  Shows(t, v) /\ Op(t) = op
<1>1. Op(t) = op /\ UNCHANGED <<list, attrs, state, procs, wire, flag>>
  BY DEF QueueStep, At, Op, Segv
<1>2. op \notin {"unlink", "mast", "back", "init", "fork", "send", "stop"}
  BY DEF Parts, Wholes
<1> QED BY <1>1, <1>2 DEF Shows, list, attrs, procs

LEMMA StepShows ==
    ASSUME Data, NEW v \in Vr, NEW t, ent[t] = v, Step(t)
    PROVE  Shows(t, v)
<1>1. CASE DoLock(t) \/ DoUnlock(t) \/ DoAlarm(t)
  BY <1>1 DEF DoLock, DoUnlock, DoAlarm, At, Op, Shows, list, attrs, procs
<1>2. CASE DoState(t)
  BY <1>2 DEF DoState, SetState, At, Op, Shows, list, attrs, procs, Data
<1>3. CASE DoFork(t)
  <2>1. npid \in Nat /\ pid \in [Vr -> 0 .. npid]
    BY DaemonAssumption DEF Data
  <2> QED BY <1>3, <2>1 DEF DoFork, At, Op, Shows, list, attrs, procs
<1>4. CASE DoSend(t)
  BY <1>4 DEF DoSend, vrrp_send_adv, CreateVRRPHeader, At, Op, Shows, list, attrs, procs
<1>5. CASE DoReadHead(t) \/ DoJoin(t)
  BY <1>5 DEF DoReadHead, DoJoin, At, Op, Shows, list, attrs, procs
<1>6. CASE DoRmqueueStep(t) \/ DoEnqueueStep(t)
  BY <1>6, QueueStepShows DEF DoRmqueueStep, DoEnqueueStep, Parts
<1> QED BY <1>1, <1>2, <1>3, <1>4, <1>5, <1>6 DEF Step

LEMMA MainShows ==
    ASSUME NEW v \in Vr, Ready(v), MainStep
    PROVE  /\ Shows("main", v)
           /\ Op("main") = "kill" => (up' = up <=> pid[v] # 0) /\ (up' # up => up' = "sigint")
           /\ Op("main") # "kill" => up' \in {up, "queue"}
<1>1. ent["main"] = v /\ Data /\ up = "up" /\ live \subseteq {v}
  <2>1. prog["main"] # "idle"
    BY StepsWorkSomewhere, CodeOrder, MainEntry DEF Op
  <2> QED BY <2>1, MainEntry DEF Ready, Data
<1>2. CASE Step("main")
  <2>1. Op("main") # "kill" /\ up' \in {up, "queue"}
    BY <1>2 DEF Step, DoLock, DoUnlock, DoState, SetState, DoFork, DoAlarm, DoSend, DoRmqueueStep,
       DoReadHead, DoJoin, DoEnqueueStep, QueueStep, Segv, At, Op
  <2> QED BY <1>1, <1>2, <2>1, StepShows
<1>3. CASE DoRmqueue
  <2>1. Shows("main", v) /\ Op("main") \in {"rmqueue", "rmlinked"}
    BY <1>3, QueueStepShows DEF DoRmqueue, Wholes
  <2>2. up' \in {up, "queue"}
    BY <1>3 DEF DoRmqueue, QueueStep, Segv
  <2> QED BY <2>1, <2>2
<1>4. ASSUME NEW op \in Wholes, NEW qq, NEW clocks, MainEnqueue(op, qq, clocks)
      PROVE  Shows("main", v) /\ Op("main") = op /\ op # "kill" /\ up' = up
  <2>1. op \notin {"unlink", "mast", "back", "init", "fork", "send", "stop", "kill"}
    BY DEF Wholes
  <2> QED BY <1>4, <2>1 DEF MainEnqueue, At, Op, Shows, list, attrs, procs
<1>5. CASE DoEnqueue
  BY <1>4, <1>5 DEF DoEnqueue, Wholes
<1>6. CASE DoRequeue
  <2>1. \/ \E qq, clocks : MainEnqueue("requeue", qq, clocks)
        \/ Segv("queue") /\ Op("main") = "requeue"
    BY <1>6, RequeueCases DEF DoRequeue, At, Op
  <2>2. CASE Segv("queue") /\ Op("main") = "requeue"
    BY <2>2 DEF Segv, Shows, list, attrs, procs
  <2> QED BY <1>4, <2>1, <2>2 DEF Wholes
<1>7. CASE DoKill
  BY <1>1, <1>7 DEF DoKill, At, Op, Shows, list, attrs, procs
<1>8. CASE DoSleep
  BY <1>8 DEF DoSleep, At, Op, Shows, list, attrs, procs
<1>9. CASE DoUnlink
  BY <1>1, <1>9 DEF DoUnlink, At, Op, Shows, list, attrs, procs
<1> QED BY <1>2, <1>3, <1>5, <1>6, <1>7, <1>8, <1>9 DEF MainStep

\* Where the main thread goes.
LEMMA MainGoes ==
    ASSUME NEW v \in Vr, Ready(v), MainStep, up' = up
    PROVE  /\ prog["alrm"] = "idle" /\ prog'["alrm"] = "idle"
           /\ Op("main") # "sleep" => Advance("main")
           /\ Op("main") = "sleep" =>
                 IF \E i \in Vrid : flag[i] THEN Advance("main")
                 ELSE prog'["main"] = "b2m" /\ at'["main"] = 1
<1>1. prog["alrm"] = "idle"
  <2>1. Runs("main")
    BY MainStepEffect DEF MainEffect, Ready
  <2> QED BY <2>1, MainAlone DEF Ready
<1>2. CASE DoSleep
  <2>1. Op("main") = "sleep" /\ prog \in [Thread -> Functions] /\ at \in [Thread -> Nat]
    BY <1>2 DEF DoSleep, At, Op, Ready, Control, Places
  <2>2. CASE \E i \in Vrid : flag[i]
    BY <1>1, <1>2, <2>1, <2>2, MainMoves DEF DoSleep
  <2>3. CASE ~\E i \in Vrid : flag[i]
    BY <1>1, <1>2, <2>1, <2>3 DEF DoSleep, Jump, Thread
  <2> QED BY <2>2, <2>3
<1>3. CASE ~DoSleep
  <2>1. Op("main") # "sleep" /\ Advance("main")
    <3>1. up' # "queue"
      BY DEF Ready
    <3>2. CASE Step("main")
      BY <3>1, <3>2 DEF Step, DoLock, DoUnlock, DoState, SetState, DoFork, DoAlarm, DoSend, DoRmqueueStep,
         DoReadHead, DoJoin, DoEnqueueStep, QueueStep, Segv, At, Op
    <3>3. CASE DoRmqueue \/ DoEnqueue \/ DoKill \/ DoUnlink
      BY <3>1, <3>3 DEF DoRmqueue, DoEnqueue, MainEnqueue, DoKill, DoUnlink, QueueStep, Segv, At, Op
    <3>4. CASE DoRequeue
      <4>1. Op("main") = "requeue"
        BY <3>4 DEF DoRequeue, At, Op
      <4>2. \E qq, clocks : MainEnqueue("requeue", qq, clocks)
        BY <3>1, <3>4, RequeueCases DEF Segv
      <4> QED BY <4>1, <4>2 DEF MainEnqueue
    <3> QED BY <1>3, <3>2, <3>3, <3>4 DEF MainStep
  <2> QED BY <1>1, <2>1, MainMoves
<1> QED BY <1>2, <1>3

\* What the main thread's instruction does to the alarm and to the head of the queue.
LEMMA MainServes ==
    ASSUME NEW v \in Vr, Ready(v), MainStep, up' = up
    PROVE  /\ Op("main") = "alarm" => armed' = TRUE
           /\ Op("main") \notin {"alarm", "requeue"} => armed' = armed
           /\ Op("main") = "requeue" => armed' = armed \/ (state[v] = "INIT" /\ q'.head = v)
           /\ Op("main") \in {"enqueue", "enqueue3"} => q'.head = v
           /\ Op("main") = "rmlinked" => q'.head = q.head
           /\ Op("main") = "requeue" => q'.head \in {q.head, v}
           /\ Op("main") \notin Parts \cup Wholes => q' = q
<1> DEFINE Serves(op) ==
       /\ op = "alarm" => armed' = TRUE
       /\ op \notin {"alarm", "requeue"} => armed' = armed
       /\ op = "requeue" => armed' = armed \/ (state[v] = "INIT" /\ q'.head = v)
       /\ op \in {"enqueue", "enqueue3"} => q'.head = v
       /\ op = "rmlinked" => q'.head = q.head
       /\ op = "requeue" => q'.head \in {q.head, v}
       /\ op \notin Parts \cup Wholes => q' = q
<1>1. /\ ent["main"] = v /\ up # "queue" /\ delay[v] > 0 /\ delay[v] # 0
      /\ prog["main"] \in Functions \ HandlerCode /\ at["main"] \in 1 .. Len(Code[prog["main"]])
  <2>1. prog["main"] # "idle"
    BY StepsWorkSomewhere, CodeOrder, MainEntry DEF Op
  <2> QED BY <2>1, MainEntry DEF Ready
<1>2. /\ q \in Queues /\ q.head \in {NULL, v} /\ q.next[v] \in {NULL, v} /\ q.prev[v] \in {NULL, v}
      /\ state \in [Vr -> States] /\ armed \in BOOLEAN
  BY DEF Ready, Data, SoloOk, OwnQueue
<1>3. CASE DoLock("main") \/ DoUnlock("main") \/ DoState("main") \/ DoFork("main") \/ DoSend("main")
  <2>1. PICK op \in {"lock", "unlock", "mast", "back", "init", "fork", "send", "stop"} : Op("main") = op
    BY <1>3 DEF DoLock, DoUnlock, DoState, SetState, DoFork, DoSend, At, Op
  <2>2. q' = q /\ armed' = armed
    BY <1>3 DEF DoLock, DoUnlock, DoState, SetState, DoFork, DoSend
  <2> QED BY <2>1, <2>2
<1>4. CASE DoAlarm("main")
  <2>1. Op("main") = "alarm" /\ armed' = (delay[v] > 0) /\ q' = q
    <3>1. Op("main") # "alarmnext"
      <4> DEFINE f == prog["main"]
                 n == at["main"]
                 g == IF n = Len(Code[f]) THEN "idle" ELSE f
                 m == IF n = Len(Code[f]) THEN 1 ELSE n + 1
      <4>1. After(f, n, g, m)
        BY DEF After
      <4> HIDE DEF f, n, g, m
      <4>2. Code[f][n] # "alarmnext"
        BY <1>1, <4>1, MainPlaces DEF f, n
      <4> QED BY <4>2 DEF f, n, Op
    <3> QED BY <1>1, <1>4, <3>1 DEF DoAlarm, At, Op
  <2> QED BY <1>1, <2>1
<1>5. CASE DoKill \/ DoSleep \/ DoUnlink
  <2>1. Op("main") \in {"kill", "sleep", "unlink"} /\ q' = q /\ armed' = armed
    BY <1>5 DEF DoKill, DoSleep, DoUnlink, At, Op
  <2> QED BY <2>1
<1>6. ASSUME NEW op, NEW qq, NEW crash, QueueStep("main", op, qq, crash)
      PROVE  Op("main") = op /\ armed' = armed /\ q' = qq /\ ~crash
  BY <1>1, <1>6 DEF QueueStep, At, Op, Segv
<1>7. CASE DoRmqueueStep("main") \/ DoEnqueueStep("main")
  <2>1. \E op \in Parts : \E qq, crash : QueueStep("main", op, qq, crash)
    BY <1>7 DEF DoRmqueueStep, DoEnqueueStep, Parts
  <2>2. PICK op \in Parts : Op("main") = op /\ armed' = armed
    BY <1>6, <2>1
  <2>3. op \notin {"alarm", "requeue", "enqueue", "enqueue3", "rmlinked"}
    BY DEF Parts
  <2> QED BY <2>2, <2>3
<1>8. CASE DoReadHead("main") \/ DoJoin("main")
  <2>1. Op("main") \in {"head", "join"} /\ armed' = armed
    BY <1>1, <1>8 DEF DoReadHead, DoJoin, ArmedAfter, At, Op
  <2> QED BY <2>1 DEF Parts
<1>9. CASE DoRmqueue
  <2>1. CASE Op("main") = "rmqueue"
    BY <1>6, <1>9, <2>1 DEF DoRmqueue, Wholes
  <2>2. CASE Op("main") = "rmlinked"
    <3>1. /\ q' = IF Linked(q, v) THEN vrrp_rmqueue_impl(q, v) ELSE q
          /\ ~RmqueueCrashes(q, v) /\ armed' = armed
      BY <1>1, <1>6, <1>9, <2>2 DEF DoRmqueue
    <3>2. CASE Linked(q, v)
      BY <1>2, <2>2, <3>1, <3>2, SoloCalls DEF Linked, RmqueueCrashes, RelinkCrashes, Wholes
    <3>3. CASE ~Linked(q, v)
      BY <2>2, <3>1, <3>3 DEF Wholes
    <3> QED BY <3>2, <3>3
  <2> QED BY <1>6, <1>9, <2>1, <2>2 DEF DoRmqueue
<1>10. ASSUME NEW op, NEW qq, NEW clocks, MainEnqueue(op, qq, clocks)
       PROVE  Op("main") = op /\ q' = qq /\ armed' \in clocks
  BY <1>10 DEF MainEnqueue, At, Op
<1>11. CASE DoEnqueue
  <2>1. PICK op \in {"enqueue", "enqueue3"}, zero \in BOOLEAN :
           /\ MainEnqueue(op, vrrp_enqueue_impl(q, v), ArmedAfter(q, zero))
           /\ zero => delay[v] = 0
    BY <1>1, <1>11 DEF DoEnqueue
  <2>2. ArmedAfter(q, zero) = {armed}
    BY <1>1, <2>1 DEF ArmedAfter
  <2>3. Op("main") = op /\ q' = vrrp_enqueue_impl(q, v) /\ armed' = armed
    BY <1>10, <2>1, <2>2
  <2> QED BY <1>2, <2>3, SoloCalls DEF Wholes
<1>12. CASE DoRequeue
  <2> DEFINE r == vrrp_rmqueue_impl(q, v)
  <2>1. Op("main") = "requeue"
    BY <1>12 DEF DoRequeue, At, Op
  <2>2. \/ MainEnqueue("requeue", q, {armed})
        \/ \E clocks \in SUBSET BOOLEAN :
              /\ MainEnqueue("requeue", vrrp_enqueue_impl(r, v), clocks)
              /\ state[v] \in {"MAST", "BACK"} => clocks = {armed}
    BY <1>1, <1>2, <1>12, SoloRequeue
  <2>3. CASE MainEnqueue("requeue", q, {armed})
    BY <1>10, <2>1, <2>3 DEF Wholes
  <2>4. ASSUME NEW clocks \in SUBSET BOOLEAN, MainEnqueue("requeue", vrrp_enqueue_impl(r, v), clocks),
               state[v] \in {"MAST", "BACK"} => clocks = {armed}
        PROVE  Serves(Op("main"))
    <3>1. r \in Queues /\ r.head \in {NULL, v} /\ r.next[v] = NULL /\ r.prev[v] = NULL
      BY <1>2, SoloCalls, CallTypes
    <3>2. q' = vrrp_enqueue_impl(r, v) /\ armed' \in clocks
      BY <1>10, <2>4
    <3> HIDE DEF r
    <3>3. q'.head = v
      BY <3>1, <3>2, SoloCalls
    <3>4. armed' = armed \/ state[v] = "INIT"
      BY <1>2, <2>4, <3>2 DEF States
    <3> QED BY <2>1, <3>3, <3>4 DEF Wholes
  <2> QED BY <2>2, <2>3, <2>4
<1> HIDE DEF Serves
<1> QED BY <1>3, <1>4, <1>5, <1>7, <1>8, <1>9, <1>11, <1>12 DEF MainStep, Step

(***************************************************************************)
(* The invariant of the alarm                                              *)
(***************************************************************************)
LEMMA MainOps ==
    ASSUME MainStep
    PROVE  Op("main") \in {"alarm", "mast", "back", "init", "sleep", "send", "alarmnext",
                           "rmqueue", "bypass", "relink", "clrnext", "clrprev", "head",
                           "join", "linkback", "inherit", "publish",
                           "enqueue", "enqueue3", "requeue", "rmlinked",
                           "lock", "unlock", "fork", "stop", "kill", "unlink"}
<1>1. ASSUME NEW op, NEW qq, NEW crash, QueueStep("main", op, qq, crash)
      PROVE  Op("main") = op
  BY <1>1 DEF QueueStep, At, Op
<1>2. CASE DoRmqueueStep("main")
  BY <1>1, <1>2 DEF DoRmqueueStep
<1>3. CASE DoEnqueueStep("main")
  BY <1>1, <1>3 DEF DoEnqueueStep
<1>4. CASE DoRmqueue
  BY <1>1, <1>4 DEF DoRmqueue
<1>5. CASE DoEnqueue \/ DoRequeue \/ DoKill \/ DoSleep \/ DoUnlink
  BY <1>5 DEF DoEnqueue, MainEnqueue, DoRequeue, DoKill, DoSleep, DoUnlink, At, Op
<1>6. CASE DoLock("main") \/ DoUnlock("main") \/ DoState("main") \/ DoFork("main")
           \/ DoAlarm("main") \/ DoSend("main") \/ DoReadHead("main") \/ DoJoin("main")
  BY <1>6 DEF DoLock, DoUnlock, DoState, SetState, DoFork, DoAlarm, DoSend, DoReadHead, DoJoin, At, Op
<1> QED BY <1>2, <1>3, <1>4, <1>5, <1>6 DEF MainStep, Step

\* The main thread keeps the invariant: it empties the queue only on the way to another
\* state, or to put the VR back.
LEMMA MainKeepsAlarm ==
    ASSUME NEW v \in Vr, Ready(v), AlarmOk(v), MainStep, up' = up, SoloOk(v)'
    PROVE  AlarmOk(v)'
<1> DEFINE f == prog["main"]
           n == at["main"]
           g == prog'["main"]
           m == at'["main"]
           op == Op("main")
<1>1. /\ prog["alrm"] = "idle" /\ prog'["alrm"] = "idle"
      /\ op # "sleep" => Advance("main")
      /\ op = "sleep" => Advance("main") \/ (g = "b2m" /\ m = 1)
  BY MainGoes
<1>2. f \in Functions \ HandlerCode /\ n \in 1 .. Len(Code[f]) /\ Code[f][n] = op
  BY MainEntry DEF Op
<1>3. Advance("main") => After(f, n, g, m)
  BY MainMoves
<1>4. /\ q \in Queues /\ q.head \in {NULL, v} /\ v # NULL /\ MainOk(v)
      /\ InQueue(v)' /\ EmptyOk(v) /\ SettingOk(v) /\ OwnQueue(v)'
      /\ state \in [Vr -> States]
  BY MainEntry DEF Ready, Data, SoloOk, OwnQueue, AlarmOk
<1>5. Shows("main", v)
  BY MainShows
<1>6. prog["main"] = "b2m" /\ at["main"] >= 7 => q.head = v
  BY <1>1, B2mWhere
<1> HIDE DEF f, n, g, m, op
<1>7. EmptyOk(v)'
  <2> SUFFICES ASSUME q'.head = NULL, armed'
               PROVE  Dormant(v)'
    BY <1>1 DEF EmptyOk
  <2>1. CASE op = "alarm"
    <3>1. q' = q /\ ((f = "i2m" /\ n = 6) \/ (f = "b2m" /\ n = 12))
      <4>1. "alarm" \notin Parts \cup Wholes
        BY DEF Parts, Wholes
      <4>2. q' = q
        BY <2>1, <4>1, MainServes DEF op
      <4> QED BY <1>1, <1>2, <1>3, <2>1, <4>2, MainPlaces
    <3>2. q.head = v
      BY <1>4, <1>6, <3>1 DEF MainOk, f, n
    <3> QED BY <1>4, <3>1, <3>2
  <2>2. CASE op = "mast"
    <3>1. q' = q /\ armed' = armed /\ ((f = "i2m" /\ n = 4) \/ (f = "b2m" /\ n = 10))
      <4>1. "mast" \notin Parts \cup Wholes
        BY DEF Parts, Wholes
      <4>2. q' = q /\ armed' = armed
        BY <2>2, <4>1, MainServes DEF op
      <4>3. (f = "i2m" /\ n = 4) \/ (f = "b2m" /\ n = 10)
        BY <1>1, <1>2, <1>3, <2>2, MainPlaces
      <4> QED BY <4>2, <4>3
    <3>2. CASE f = "i2m"
      BY <1>4, <3>1, <3>2 DEF MainOk, f
    <3>3. CASE f = "b2m" /\ n = 10
      BY <1>4, <1>6, <3>1, <3>3 DEF f, n
    <3> QED BY <3>1, <3>2, <3>3
  <2>3. CASE op \in {"back", "sleep"}
    <3>1. q' = q /\ armed' = armed
      <4>1. "back" \notin Parts \cup Wholes /\ "sleep" \notin Parts \cup Wholes
        BY DEF Parts, Wholes
      <4> QED BY <2>3, <4>1, MainServes DEF op
    <3>2. Settled(f, n) /\ ~Emptied(f, n)
      <4> DEFINE g1 == IF n = Len(Code[f]) THEN "idle" ELSE f
                 m1 == IF n = Len(Code[f]) THEN 1 ELSE n + 1
      <4>1. After(f, n, g1, m1)
        BY DEF After
      <4> HIDE DEF g1, m1
      <4> QED BY <1>2, <2>3, <4>1, EmptiedPlaces
    <3>3. Dormant(v)
      BY <1>4, <3>1 DEF EmptyOk
    <3> QED BY <3>2, <3>3 DEF Dormant, f, n
  <2>4. CASE op = "init"
    <3>1. state'[v] = "INIT"
      BY <1>5, <2>4 DEF Shows, op
    <3>2. ~Settled(g, m)
      BY <1>1, <1>2, <1>3, <2>4, EmptiedPlaces
    <3> QED BY <3>1, <3>2 DEF Dormant, g, m
  <2>5. CASE op \in {"rmqueue", "bypass", "relink", "clrnext", "clrprev", "head"}
    <3>1. Emptied(g, m)
      BY <1>1, <1>2, <1>3, <2>5, EmptiedPlaces
    <3> QED BY <3>1 DEF Dormant, g, m
  <2>6. CASE op \in {"join", "linkback", "inherit", "publish"}
    <3>1. g = "b2m" /\ m >= 7
      <4>1. f = "b2m" /\ n \in 6 .. 9 /\ Len(Code[f]) = 12
        BY <1>1, <1>2, <1>3, <2>6, MainPlaces
      <4> QED BY <1>1, <1>3, <2>6, <4>1 DEF After
    <3>2. Relinked(g, m) /\ ~Out(g, m)
      BY <3>1 DEF Relinked, Out
    <3>3. q'.head = v
      BY <1>1, <1>4, <3>2 DEF InQueue, Taken, g, m
    <3> QED BY <1>4, <3>3
  <2>7. CASE op \in {"enqueue", "enqueue3"}
    BY <1>4, <2>7, MainServes DEF op
  <2>8. CASE op \in {"rmlinked", "requeue", "lock", "unlock", "fork", "stop", "kill", "unlink"}
    <3>1. q.head = NULL
      <4>1. op \in {"rmlinked", "requeue"} \/ op \notin Parts \cup Wholes
        BY <2>8 DEF Parts, Wholes
      <4>2. op = "rmlinked" => q'.head = q.head
        BY MainServes DEF op
      <4>3. op = "requeue" => q'.head \in {q.head, v}
        BY MainServes DEF op
      <4>4. op \notin Parts \cup Wholes => q' = q
        BY MainServes DEF op
      <4> QED BY <1>4, <4>1, <4>2, <4>3, <4>4
    <3>2. armed
      <4>1. op = "requeue" => armed' = armed
        BY <1>4, MainServes DEF op
      <4>2. op \notin {"alarm", "requeue"} => armed' = armed
        BY MainServes DEF op
      <4>3. op # "alarm"
        BY <2>8
      <4> QED BY <4>1, <4>2, <4>3
    <3>3. Dormant(v)
      BY <1>4, <3>1, <3>2 DEF EmptyOk
    <3>4. state' = state
      BY <1>5, <2>8 DEF Shows, op
    <3>5. (Emptied(f, n) => Emptied(g, m)) /\ (Settled(g, m) => Settled(f, n))
      BY <1>1, <1>2, <1>3, <2>8, EmptiedPlaces
    <3> QED BY <3>3, <3>4, <3>5 DEF Dormant, f, n, g, m
  <2>9. op \notin {"send", "alarmnext"}
    <3> DEFINE g1 == IF n = Len(Code[f]) THEN "idle" ELSE f
               m1 == IF n = Len(Code[f]) THEN 1 ELSE n + 1
    <3>1. After(f, n, g1, m1)
      BY DEF After
    <3> HIDE DEF g1, m1
    <3> QED BY <1>2, <3>1, MainPlaces
  <2> QED BY <2>1, <2>2, <2>3, <2>4, <2>5, <2>6, <2>7, <2>8, <2>9, MainOps DEF op
<1>8. SettingOk(v)'
  <2> SUFFICES ASSUME Setting(g, m)
               PROVE  state'[v] = "MAST"
    BY DEF SettingOk, g, m
  <2>0. Advance("main")
    BY <1>1 DEF Setting
  <2>1. CASE op = "mast"
    BY <1>5, <2>1 DEF Shows, op
  <2>2. op # "alarm"
    <3>1. op = "alarm" => g = "idle"
      BY <1>2, <1>3, <2>0, MainPlaces
    <3> QED BY <3>1 DEF Setting
  <2>3. CASE op # "mast"
    <3>1. Setting(f, n) /\ op \notin {"back", "init"}
      BY <1>2, <1>3, <2>0, <2>2, <2>3, SettingPlaces
    <3>2. state' = state
      BY <1>5, <2>3, <3>1 DEF Shows, op
    <3> QED BY <1>4, <3>1, <3>2 DEF SettingOk, f, n
  <2> QED BY <2>1, <2>3
<1> QED BY <1>1, <1>7, <1>8 DEF AlarmOk, SpentOk, RearmedOk, Spent, Rearmed

\* Commands and advertisements leave the queue and the alarm alone.
LEMMA InputKeepsAlarm ==
    ASSUME NEW v \in Vr, Ready(v), AlarmOk(v), Command \/ Advert, 0 \notin ModDelay,
           used' = {v}, up' = "up"
    PROVE  AlarmOk(v)'
<1>1. /\ MainIdle /\ state' = state /\ q' = q /\ armed' = armed
      /\ \/ UNCHANGED threads
         \/ \E f \in Functions \ HandlerCode :
               /\ f \notin {"idle", "i2m"}
               /\ f = "b2m" => state[v] = "BACK"
               /\ f = "m2b" => state[v] = "MAST"
               /\ Call(f, v)
  BY SoloInput
<1>2. prog["alrm"] = "idle" /\ prog["main"] = "idle" /\ (state[v] = "MAST" => q.head = v)
  BY <1>1, RestIsCalm
<1>3. UNCHANGED threads \/ (prog'["alrm"] = "idle" /\ at'["main"] = 1)
  BY <1>1, <1>2 DEF Call, Jump, Ready, Control, Places, Thread
<1>4. prog'["main"] = "m2b" => state[v] = "MAST"
  BY <1>1, <1>2 DEF Call, Jump, Ready, Control, Places, Thread, threads
<1>5. EmptyOk(v)'
  <2> SUFFICES ASSUME q'.head = NULL, armed' \/ prog'["alrm"] = "expire"
               PROVE  Dormant(v)'
    BY DEF EmptyOk
  <2>1. prog'["alrm"] = "idle"
    BY <1>2, <1>3 DEF threads
  <2>2. Dormant(v)
    <3>1. armed
      BY <1>1, <2>1
    <3> QED BY <1>1, <3>1 DEF AlarmOk, EmptyOk
  <2>3. state[v] = "INIT"
    BY <1>2, <2>2 DEF Dormant, Emptied, Out
  <2>4. ~Settled(prog'["main"], at'["main"])
    BY <1>2, <1>3, <1>4, <2>3 DEF Settled, threads
  <2> QED BY <1>1, <2>3, <2>4 DEF Dormant
<1>6. SettingOk(v)'
  BY <1>2, <1>3 DEF SettingOk, Setting, threads
<1>7. SpentOk' /\ RearmedOk'
  BY <1>2, <1>3 DEF SpentOk, RearmedOk, Spent, Rearmed, threads
<1> QED BY <1>5, <1>6, <1>7 DEF AlarmOk

\* The first create finds no alarm pending.
LEMMA CreateSetsNoAlarm ==
    ASSUME Control, Fresh, NEW v \in Vr, NEW p, NEW d, NEW m, vrrp_create_inst(v, p, d, m)
    PROVE  AlarmOk(v)'
<1>1. prog'["alrm"] = "idle" /\ at'["main"] = 1
  <2>1. at["main"] = 1
    BY IdleIsFree DEF Fresh, Thread
  <2> QED BY <2>1 DEF vrrp_create_inst, Call, Jump, Fresh, Control, Places, Thread, threads
<1>2. ~armed'
  BY DEF vrrp_create_inst, Fresh
<1>3. EmptyOk(v)' /\ SettingOk(v)'
  BY <1>1, <1>2 DEF EmptyOk, SettingOk, Setting
<1> QED BY <1>1, <1>3 DEF AlarmOk, SpentOk, RearmedOk, Spent, Rearmed

\* The alarm goes off, and is spent.
LEMMA DeliverKeepsAlarm ==
    ASSUME NEW v \in Vr, Ready(v), AlarmOk(v), NEW thr, Deliver(thr)
    PROVE  AlarmOk(v)'
<1>1. /\ prog'["alrm"] = "expire" /\ prog'["main"] = prog["main"] /\ at'["main"] = at["main"]
      /\ q' = q /\ state' = state
  BY DEF Deliver, Ready, Control, Places, Thread
<1>2. armed /\ armed' = FALSE
  BY DEF Deliver
<1>3. EmptyOk(v)'
  BY <1>1, <1>2 DEF EmptyOk, AlarmOk, Dormant
<1>4. SettingOk(v)'
  BY <1>1 DEF SettingOk, AlarmOk
<1>5. SpentOk' /\ RearmedOk'
  BY <1>1, <1>2 DEF SpentOk, RearmedOk, Rearmed
<1> QED BY <1>3, <1>4, <1>5 DEF AlarmOk

\* Where the handler goes.
LEMMA HandlerGoes ==
    ASSUME NEW v \in Vr, Ready(v), HandlerStep, up' = up
    PROVE  LET f == prog["alrm"]   n == at["alrm"]
               g == prog'["alrm"]  m == at'["alrm"]
           IN \/ f = "expire" /\ n = 1 /\ g = "expire" /\ Op("alrm") = "lock"
              \/ f = "expire" /\ n = 2 /\ q.head = v /\ g = "x_entry" /\ m = 1
              \/ f = "expire" /\ n = 2 /\ q.head = NULL /\ g = "x_done"
              \/ f = "x_entry" /\ n <= 5 /\ g = "x_entry"
              \/ f = "x_entry" /\ n = 6 /\ state[v] # "MAST" /\ g = "x_entry"
              \/ f = "x_entry" /\ n = 6 /\ state[v] = "MAST" /\ g = "x_mast" /\ m = 1
              \/ f = "x_entry" /\ n = 7 /\ state[v] = "BACK" /\ g = "x_back" /\ m = 1
              \/ f = "x_entry" /\ n = 7 /\ state[v] = "INIT" /\ g = "x_none"
              \/ f = "x_mast" /\ n <= 7 /\ g = "x_mast" /\ m = n + 1
              \/ f = "x_back" /\ n <= 18 /\ g = "x_back" /\ m = n + 1
              \/ f = "x_mast" /\ n = 8 /\ g = "x_done" /\ Op("alrm") = "again"
              \/ f = "x_back" /\ n = 19 /\ g = "x_done" /\ Op("alrm") = "again"
              \/ f = "x_none" /\ g = "x_done" /\ Op("alrm") = "again"
              \/ f = "x_done" /\ g = "idle" /\ Op("alrm") = "unlock"
<1> DEFINE f == prog["alrm"]
           n == at["alrm"]
           g == prog'["alrm"]
           m == at'["alrm"]
<1>1. prog["alrm"] # "idle"
  BY StepsWorkSomewhere, CodeOrder DEF Ready, Control, Places, Thread, Op
<1>2. /\ f \in HandlerCode \ {"x_loop"} /\ n \in 1 .. Len(Code[f]) /\ n \in Nat
      /\ prog \in [Thread -> Functions] /\ at \in [Thread -> Nat] /\ "alrm" \in Thread
      /\ ~more /\ HandlerOk(v) /\ q.head \in {NULL, v} /\ state[v] \in States
      /\ f \notin {"expire", "x_done"} => ent["alrm"] = v
  BY <1>1, HandlerFacts DEF Ready, Control, Places, OwnQueue
<1>3. Op("alrm") = Code[f][n]
  BY DEF Op
<1>4. Advance("alrm") => IF n = Len(Code[f]) THEN g = "idle" ELSE g = f /\ m = n + 1
  BY <1>2 DEF Advance, Last
<1>5. \A j : Jump("alrm", j) => g = j /\ m = 1
  BY <1>2 DEF Jump
<1> HIDE DEF f, n, g, m
<1>6. CASE DoDequeue
  <2>0. Op("alrm") = "dequeue"
    BY <1>6 DEF DoDequeue, At, Op
  <2>1. f = "expire" /\ n = 2
    BY <1>2, <1>3, <2>0, HandlerPlaces
  <2>2. IF q.head = NULL THEN g = "x_done" ELSE g = "x_entry" /\ m = 1
    BY <1>5, <1>6 DEF DoDequeue
  <2> QED BY <1>2, <2>1, <2>2 DEF f, n, g, m
<1>7. CASE DoMore
  <2>0. Op("alrm") = "more" /\ Advance("alrm")
    BY <1>7 DEF DoMore, At, Op
  <2>1. f = "x_entry" /\ n = 5
    BY <1>2, <1>3, <2>0, HandlerPlaces
  <2>2. Len(Code[f]) = 7
    BY <1>2, <2>1, HandlerPlaces
  <2>3. g = "x_entry"
    BY <1>4, <2>0, <2>1, <2>2
  <2> QED BY <2>1, <2>3 DEF f, n, g, m
<1>8. CASE DoTest
  <2>1. CASE Op("alrm") = "is_mast"
    <3>1. f = "x_entry" /\ n = 6
      BY <1>2, <1>3, <2>1, HandlerPlaces
    <3>2. Len(Code[f]) = 7
      BY <1>2, <3>1, HandlerPlaces
    <3>3. IF state[v] = "MAST" THEN g = "x_mast" /\ m = 1 ELSE g = "x_entry"
      BY <1>2, <1>4, <1>5, <1>8, <2>1, <3>1, <3>2 DEF DoTest, At, Op, advertises
    <3> QED BY <3>1, <3>3 DEF f, n, g, m
  <2>2. CASE Op("alrm") = "is_back"
    <3>1. f = "x_entry" /\ n = 7
      BY <1>2, <1>3, <2>2, HandlerPlaces
    <3>2. state[v] # "MAST"
      BY <1>2, <3>1 DEF HandlerOk, f, n
    <3>3. IF state[v] = "BACK" THEN g = "x_back" /\ m = 1 ELSE g = "x_none"
      BY <1>2, <1>5, <1>8, <2>2, <3>1 DEF DoTest, At, Op, takesOver
    <3> QED BY <1>2, <3>1, <3>2, <3>3 DEF f, n, g, m, States
  <2> QED BY <1>8, <2>1, <2>2 DEF DoTest, At, Op
<1>9. CASE DoAgain
  <2>1. Op("alrm") = "again" /\ g = "x_done"
    BY <1>2, <1>5, <1>9 DEF DoAgain, At, Op
  <2>2. (f = "x_mast" /\ n = 8) \/ (f = "x_back" /\ n = 19) \/ f = "x_none"
    BY <1>2, <1>3, <2>1, HandlerPlaces
  <2> QED BY <2>1, <2>2 DEF f, n, g, m
<1>10. CASE Step("alrm")
  <2>1. Advance("alrm") /\ Op("alrm") \notin {"dequeue", "is_mast", "is_back", "again"}
    <3>1. up' # "queue"
      BY DEF Ready
    <3> QED BY <1>10, <3>1 DEF Step, DoLock, DoUnlock, DoState, SetState, DoFork, DoAlarm, DoSend,
         DoRmqueueStep, DoReadHead, DoJoin, DoEnqueueStep, QueueStep, Segv, At, Op
  <2>2. CASE f = "expire"
    <3>1. Len(Code[f]) = 2
      BY <1>2, <2>2, HandlerPlaces
    <3>2. Code["expire"][2] = "dequeue" /\ Code["expire"][1] = "lock"
      BY DEF Code
    <3> QED BY <1>2, <1>3, <1>4, <2>1, <2>2, <3>1, <3>2 DEF f, n, g, m
  <2>3. CASE f = "x_entry"
    <3>1. Len(Code[f]) = 7
      BY <1>2, <2>3, HandlerPlaces
    <3>2. Code["x_entry"][6] = "is_mast" /\ Code["x_entry"][7] = "is_back"
      BY DEF Code
    <3> QED BY <1>2, <1>3, <1>4, <2>1, <2>3, <3>1, <3>2 DEF f, n, g, m
  <2>4. CASE f = "x_mast"
    <3>1. Len(Code[f]) = 8
      BY <1>2, <2>4, HandlerPlaces
    <3>2. Code["x_mast"][8] = "again"
      BY DEF Code
    <3> QED BY <1>2, <1>3, <1>4, <2>1, <2>4, <3>1, <3>2 DEF f, n, g, m
  <2>5. CASE f = "x_back"
    <3>1. Len(Code[f]) = 19
      BY <1>2, <2>5, HandlerPlaces
    <3>2. Code["x_back"][19] = "again"
      BY DEF Code
    <3> QED BY <1>2, <1>3, <1>4, <2>1, <2>5, <3>1, <3>2 DEF f, n, g, m
  <2>6. CASE f = "x_done" \/ f = "x_none"
    <3>1. Len(Code[f]) = 1
      BY <1>2, <2>6, HandlerPlaces
    <3>2. Code["x_done"][1] = "unlock" /\ Code["x_none"][1] = "again"
      BY DEF Code
    <3> QED BY <1>2, <1>3, <1>4, <2>1, <2>6, <3>1, <3>2 DEF f, n, g, m
  <2> QED BY <1>2, <2>2, <2>3, <2>4, <2>5, <2>6 DEF HandlerCode
<1> QED BY <1>6, <1>7, <1>8, <1>9, <1>10 DEF HandlerStep

\* What the handler does to the alarm and to what the LAN can see.
LEMMA HandlerShows ==
    ASSUME NEW v \in Vr, Ready(v), HandlerStep
    PROVE  /\ Shows("alrm", v)
           /\ Op("alrm") \notin {"stop", "back", "init", "unlink"}
           /\ up' \in {up, "queue"}
           /\ prog'["main"] = prog["main"] /\ at'["main"] = at["main"]
           /\ up' = up => (Op("alrm") \in {"alarm", "alarmnext"} => armed' = TRUE)
           /\ Op("alrm") \notin {"alarm", "alarmnext"} => armed' = armed
           /\ (prog["alrm"] \in {"expire", "x_done", "x_none"} \/ Op("alrm") = "again") => q' = q
<1> DEFINE Quiet == /\ up' \in {up, "queue"}
                    /\ prog'["main"] = prog["main"] /\ at'["main"] = at["main"]
                    /\ up' = up => (Op("alrm") \in {"alarm", "alarmnext"} => armed' = TRUE)
                    /\ Op("alrm") \notin {"alarm", "alarmnext"} => armed' = armed
                    /\ (prog["alrm"] \in {"expire", "x_done", "x_none"} \/ Op("alrm") = "again") => q' = q
<1>1. prog["alrm"] # "idle"
  BY StepsWorkSomewhere, CodeOrder DEF Ready, Control, Places, Thread, Op
<1>2. /\ prog["alrm"] \in HandlerCode \ {"x_loop"} /\ at["alrm"] \in 1 .. Len(Code[prog["alrm"]])
      /\ prog \in [Thread -> Functions] /\ at \in [Thread -> Nat] /\ Data
      /\ prog["alrm"] \notin {"expire", "x_done"} => ent["alrm"] = v
      /\ delay[v] > 0 /\ delay[v] # 0 /\ nxt = NULL
  BY <1>1, HandlerFacts DEF Ready, Control, Places
<1>3. Op("alrm") \notin {"stop", "back", "init", "unlink"}
  <2>1. prog["alrm"] \in Functions
    BY <1>2, FunctionNames
  <2> QED BY <1>2, <2>1, CodeSections, HandlerPlaces DEF Op
<1>4. \A f : Advance("alrm") \/ Jump("alrm", f)
             => prog'["main"] = prog["main"] /\ at'["main"] = at["main"]
  BY <1>2 DEF Advance, Jump, Thread
<1>5. Op("alrm") \in {"alarm", "alarmnext", "send", "fork", "mast", "bypass", "relink", "clrnext",
                      "clrprev", "head", "join", "linkback", "inherit", "publish"}
         => prog["alrm"] \notin {"expire", "x_done", "x_none"} /\ Op("alrm") # "again"
  BY <1>2, HandlerPlaces DEF Op
<1>6. CASE DoLock("alrm") \/ DoUnlock("alrm") \/ DoDequeue \/ DoMore \/ DoTest \/ DoAgain
  <2>1. Op("alrm") \in {"lock", "unlock", "dequeue", "more", "is_mast", "is_back", "again"}
    BY <1>6 DEF DoLock, DoUnlock, DoDequeue, DoMore, DoTest, DoAgain, At, Op
  <2>2. UNCHANGED <<pri, flag, used, live, state, pid, wire, q, armed, up>>
    BY <1>6 DEF DoLock, DoUnlock, DoDequeue, DoMore, DoTest, DoAgain, list, attrs, procs
  <2>3. Advance("alrm") \/ \E f : Jump("alrm", f)
    BY <1>6 DEF DoLock, DoUnlock, DoDequeue, DoMore, DoTest, DoAgain
  <2>4. Quiet
    BY <1>4, <2>1, <2>2, <2>3
  <2>5. Shows("alrm", v)
    BY <2>1, <2>2 DEF Shows
  <2> QED BY <1>3, <2>4, <2>5
<1>7. CASE Step("alrm") /\ ~DoLock("alrm") /\ ~DoUnlock("alrm")
  <2>1. Op("alrm") \in {"alarm", "alarmnext", "send", "stop", "fork", "mast", "back", "init", "bypass",
                        "relink", "clrnext", "clrprev", "head", "join", "linkback", "inherit", "publish"}
    BY <1>7 DEF Step, DoState, SetState, DoFork, DoAlarm, DoSend, DoRmqueueStep,
       DoReadHead, DoJoin, DoEnqueueStep, QueueStep, At, Op
  <2>2. ent["alrm"] = v /\ prog["alrm"] \notin {"expire", "x_done", "x_none"} /\ Op("alrm") # "again"
    BY <1>2, <1>3, <1>5, <2>1
  <2>3. Shows("alrm", v)
    BY <1>2, <1>7, <2>2, StepShows
  <2>4. ASSUME NEW op, NEW qq, NEW crash, QueueStep("alrm", op, qq, crash)
        PROVE  armed' = armed /\ up' \in {up, "queue"} /\ (Advance("alrm") \/ UNCHANGED threads)
    BY <2>4 DEF QueueStep, Segv
  <2>5. CASE DoRmqueueStep("alrm") \/ DoEnqueueStep("alrm")
    <3>1. armed' = armed /\ up' \in {up, "queue"} /\ (Advance("alrm") \/ UNCHANGED threads)
      BY <2>4, <2>5 DEF DoRmqueueStep, DoEnqueueStep
    <3>2. Op("alrm") \notin {"alarm", "alarmnext"}
      BY <2>5 DEF DoRmqueueStep, DoEnqueueStep, QueueStep, At, Op
    <3> QED BY <1>3, <1>4, <2>2, <2>3, <3>1, <3>2 DEF threads
  <2>6. CASE DoAlarm("alrm")
    <3>1. armed' = (delay[v] > 0) /\ up' = up /\ Advance("alrm") /\ Op("alrm") \in {"alarm", "alarmnext"}
      BY <1>2, <2>2, <2>6 DEF DoAlarm, At, Op
    <3> QED BY <1>2, <1>3, <1>4, <2>2, <2>3, <3>1
  <2>7. CASE DoReadHead("alrm")
    <3>1. armed' = armed /\ up' = up /\ Advance("alrm") /\ Op("alrm") = "head"
      BY <1>2, <2>2, <2>7 DEF DoReadHead, ArmedAfter, At, Op
    <3> QED BY <1>3, <1>4, <2>2, <2>3, <3>1
  <2>8. CASE DoState("alrm") \/ DoFork("alrm") \/ DoSend("alrm") \/ DoJoin("alrm")
    <3>1. armed' = armed /\ up' = up /\ Advance("alrm")
      BY <2>8 DEF DoState, DoFork, DoSend, DoJoin
    <3>2. Op("alrm") \notin {"alarm", "alarmnext"}
      BY <2>8 DEF DoState, SetState, DoFork, DoSend, DoJoin, At, Op
    <3> QED BY <1>3, <1>4, <2>2, <2>3, <3>1, <3>2
  <2> QED BY <1>7, <2>5, <2>6, <2>7, <2>8 DEF Step
<1> QED BY <1>6, <1>7 DEF HandlerStep

\* The handler leaves the loop with the next alarm set, or because of an empty queue.
LEMMA HandlerKeepsAlarm ==
    ASSUME NEW v \in Vr, Ready(v), AlarmOk(v), HandlerStep, up' = up, SoloOk(v)'
    PROVE  AlarmOk(v)'
<1> DEFINE f == prog["alrm"]
           n == at["alrm"]
           g == prog'["alrm"]
           m == at'["alrm"]
           op == Op("alrm")
<1>1. \/ f = "expire" /\ n = 1 /\ g = "expire" /\ op = "lock"
      \/ f = "expire" /\ n = 2 /\ q.head = v /\ g = "x_entry" /\ m = 1
      \/ f = "expire" /\ n = 2 /\ q.head = NULL /\ g = "x_done"
      \/ f = "x_entry" /\ n <= 5 /\ g = "x_entry"
      \/ f = "x_entry" /\ n = 6 /\ state[v] # "MAST" /\ g = "x_entry"
      \/ f = "x_entry" /\ n = 6 /\ state[v] = "MAST" /\ g = "x_mast" /\ m = 1
      \/ f = "x_entry" /\ n = 7 /\ state[v] = "BACK" /\ g = "x_back" /\ m = 1
      \/ f = "x_entry" /\ n = 7 /\ state[v] = "INIT" /\ g = "x_none"
      \/ f = "x_mast" /\ n <= 7 /\ g = "x_mast" /\ m = n + 1
      \/ f = "x_back" /\ n <= 18 /\ g = "x_back" /\ m = n + 1
      \/ f = "x_mast" /\ n = 8 /\ g = "x_done" /\ op = "again"
      \/ f = "x_back" /\ n = 19 /\ g = "x_done" /\ op = "again"
      \/ f = "x_none" /\ g = "x_done" /\ op = "again"
      \/ f = "x_done" /\ g = "idle" /\ op = "unlock"
  BY HandlerGoes
<1>2. /\ Shows("alrm", v) /\ op \notin {"stop", "back", "init", "unlink"}
      /\ prog'["main"] = prog["main"] /\ at'["main"] = at["main"]
      /\ (f \in {"expire", "x_done", "x_none"} \/ op = "again") => q' = q
  BY HandlerShows
<1>3. /\ op \in {"alarm", "alarmnext"} => armed' = TRUE
      /\ op \notin {"alarm", "alarmnext"} => armed' = armed
  BY HandlerShows
<1>4. prog["alrm"] # "idle"
  BY StepsWorkSomewhere, CodeOrder DEF Ready, Control, Places, Thread, Op
<1>5. /\ n \in Nat /\ HandlerOk(v) /\ HandlerOk(v)' /\ v # NULL
      /\ SpentOk /\ RearmedOk /\ EmptyOk(v) /\ SettingOk(v)
  BY <1>4, HandlerFacts DEF SoloOk, AlarmOk
<1>6. /\ op = "alarm" => f = "x_back" /\ n = 12
      /\ op = "alarmnext" => (f = "x_mast" /\ n = 7) \/ (f = "x_back" /\ n = 18)
      /\ (f = "x_mast" /\ n = 7) => op = "alarmnext"
      /\ (f = "x_back" /\ n = 12) => op = "alarm"
      /\ op = "mast" => f = "x_back" /\ n = 10
  <2>1. Code["x_mast"][7] = "alarmnext" /\ Code["x_back"][12] = "alarm"
    BY DEF Code
  <2> QED BY <1>4, <2>1, HandlerFacts, HandlerPlaces DEF Op
<1>7. (state' = state) \/ (op = "mast" /\ state'[v] = "MAST")
  BY <1>2 DEF Shows
<1>8. /\ HandlerOk(v) => /\ (f = "x_mast" /\ n >= 4) => q.head = v
                         /\ (f = "x_back" /\ n >= 7) => q.head = v
      /\ HandlerOk(v)' => /\ (g = "x_mast" /\ m >= 4) => q'.head = v
                          /\ (g = "x_back" /\ m >= 7) => q'.head = v
  BY DEF HandlerOk
<1> HIDE DEF f, n, g, m, op
<1>9. Spent(g, m) => ~armed'
  <2> SUFFICES ASSUME Spent(g, m) PROVE ~armed'
    OBVIOUS
  <2>1. Spent(f, n)
    BY <1>1, <1>5 DEF Spent
  <2>2. op \notin {"alarm", "alarmnext"}
    BY <1>1, <1>5, <1>6 DEF Spent
  <2>3. ~armed
    BY <1>5, <2>1 DEF SpentOk, f, n
  <2> QED BY <1>3, <2>2, <2>3
<1>10. Rearmed(g, m) => armed'
  <2> SUFFICES ASSUME Rearmed(g, m) PROVE armed'
    OBVIOUS
  <2>1. Rearmed(f, n) \/ op \in {"alarm", "alarmnext"}
    BY <1>1, <1>5, <1>6 DEF Rearmed
  <2>2. Rearmed(f, n) => armed
    BY <1>5 DEF RearmedOk, f, n
  <2>3. CASE op \in {"alarm", "alarmnext"}
    BY <1>3, <2>3
  <2>4. CASE op \notin {"alarm", "alarmnext"}
    BY <1>3, <2>1, <2>2, <2>4
  <2> QED BY <2>3, <2>4
<1>11. EmptyOk(v)'
  <2> SUFFICES ASSUME q'.head = NULL, armed' \/ g = "expire"
               PROVE  Dormant(v)'
    BY DEF EmptyOk, g
  <2>1. ~Spent(g, m) \/ g = "expire"
    BY <1>9
  <2>2. (f = "expire" /\ n = 1 /\ g = "expire" /\ op = "lock") \/ (f = "x_done" /\ op = "unlock")
    <3>1. ~(g = "x_mast" /\ m >= 4) /\ ~(g = "x_back" /\ m >= 7)
      BY <1>5, <1>8
    <3>2. ASSUME g = "x_done" PROVE FALSE
      <4>1. f \in {"expire", "x_none"} => FALSE
        <5>1. f \in {"expire", "x_none"} => ~armed
          BY <1>5 DEF SpentOk, Spent, f
        <5>2. f \in {"expire", "x_none"} => op \notin {"alarm", "alarmnext"}
          BY <1>6
        <5>3. f \in {"expire", "x_none"} => ~armed'
          BY <1>3, <5>1, <5>2
        <5> QED BY <3>2, <5>3
      <4>2. op = "again" /\ ((f = "x_mast" /\ n = 8) \/ (f = "x_back" /\ n = 19))
        BY <1>1, <3>2, <4>1
      <4>3. q.head = v /\ q' = q
        BY <1>2, <1>5, <1>8, <4>2
      <4> QED BY <1>5, <4>3
    <3> QED BY <1>1, <1>5, <2>1, <3>1, <3>2 DEF Spent
  <2>3. q' = q /\ armed' = armed /\ state' = state
    <3>1. q' = q /\ state' = state
      BY <1>2, <1>7, <2>2
    <3>2. armed' = armed
      BY <1>3, <2>2
    <3> QED BY <3>1, <3>2
  <2>4. Dormant(v)
    <3>1. f = "x_done" => g # "expire"
      BY <1>1
    <3>2. armed \/ f = "expire"
      BY <2>2, <2>3, <3>1
    <3> QED BY <1>5, <2>3, <3>2 DEF EmptyOk, f
  <2> QED BY <1>2, <2>3, <2>4 DEF Dormant
<1>12. SettingOk(v)'
  BY <1>2, <1>5, <1>7 DEF SettingOk
<1> QED BY <1>9, <1>10, <1>11, <1>12 DEF AlarmOk, SpentOk, RearmedOk, g, m

LEMMA AlarmStep ==
    ASSUME Data, Control, Locking, Tested, SoloInv, SoloInv', AlarmInv, [Next]_vars
    PROVE  AlarmInv'
<1> SUFFICES ASSUME up' = "up", 0 \notin ModDelay, NEW v \in Vr, used' = {v}
             PROVE  AlarmOk(v)'
  BY DEF AlarmInv
<1>1. up = "up" /\ SoloOk(v)'
  BY UsedOnlyGrows DEF SoloInv
<1>2. CASE used = {}
  <2>1. Fresh
    BY <1>1, <1>2 DEF SoloInv
  <2>2. \E w \in Vr, p \in CreatePri, d \in ModDelay, m \in BOOLEAN : vrrp_create_inst(w, p, d, m)
    <3>1. used' # used
      BY <1>2
    <3>2. Command
      <4>1. ~UNCHANGED vars
        BY <3>1 DEF vars, list
      <4>2. ~MainStep /\ ~HandlerStep
        BY <2>1, StepsWorkSomewhere, CodeOrder DEF Fresh, Control, Places, Thread, Op
      <4>3. ~Advert
        BY <3>1 DEF Advert, receive_stop, receive_stop_no_instance, receive_adv, Segv, list
      <4>4. \A thr : ~Deliver(thr)
        BY <2>1 DEF Deliver, Fresh
      <4> QED BY <4>1, <4>2, <4>3, <4>4 DEF Next
    <3> QED BY <3>1, <3>2 DEF Command, vrrp_startup_inst, vrrp_shutdown_inst, vrrp_destroy_inst,
         vrrp_set_inst_prop, destroy_missing, Segv, list
  <2>3. PICK w \in Vr, p \in CreatePri, d \in ModDelay, m \in BOOLEAN : vrrp_create_inst(w, p, d, m)
    BY <2>2
  <2>4. w = v
    BY <1>2, <2>3 DEF vrrp_create_inst
  <2> QED BY <2>1, <2>3, <2>4, CreateSetsNoAlarm
<1>3. CASE used # {}
  <2>1. used = {v}
    BY <1>3, UsedOnlyGrows
  <2>2. Ready(v) /\ AlarmOk(v)
    BY <1>1, <2>1 DEF SoloInv, AlarmInv, Ready
  <2>3. CASE UNCHANGED vars
    BY <2>2, <2>3 DEF vars, threads, AlarmOk, SpentOk, RearmedOk, EmptyOk, SettingOk, Dormant
  <2>4. CASE Command \/ Advert
    BY <2>2, <2>4, InputKeepsAlarm
  <2>5. CASE MainStep
    BY <1>1, <2>2, <2>5, MainKeepsAlarm
  <2>6. CASE HandlerStep
    BY <1>1, <2>2, <2>6, HandlerKeepsAlarm
  <2>7. CASE \E thr \in HandlerThreads : Deliver(thr)
    BY <2>2, <2>7, DeliverKeepsAlarm
  <2> QED BY <2>3, <2>4, <2>5, <2>6, <2>7 DEF Next
<1> QED BY <1>2, <1>3

LEMMA AlarmHolds == HandlerThreads \subseteq {"main"} => (Spec => []AlarmInv)
<1> SUFFICES ASSUME HandlerThreads \subseteq {"main"} PROVE Spec => []AlarmInv
  OBVIOUS
<1>1. Spec => []Tested
  BY TestedHolds
<1>2. Spec => []SoloInv
  BY SoloAlwaysHolds
<1>3. Init => AlarmInv
  BY DEF Init, AlarmInv
<1>4. Data /\ Control /\ Locking /\ Tested /\ SoloInv /\ SoloInv' /\ AlarmInv /\ [Next]_vars
         => AlarmInv'
  BY AlarmStep
<1> QED BY <1>1, <1>2, <1>3, <1>4, TypesHold, MutexHolds, PTL DEF Spec

(***************************************************************************)
(* The host that the daemon shows                                          *)
(***************************************************************************)

\* its fields while the process runs
Shown(v) ==
    /\ HostOf(v).id = VridOf[v] /\ HostOf(v).up
    /\ HostOf(v).open <=> v \in used
    /\ HostOf(v).made <=> v \in live
    /\ HostOf(v).st = state[v] /\ HostOf(v).pri = pri[v]
    /\ HostOf(v).heard = {i \in Vrid : flag[i]}
    /\ HostOf(v).armed <=> ArmedSoon
    /\ HostOf(v).had <=> pid[v] # 0
    /\ HostOf(v).todo = Rest(prog["main"], at["main"])

\* The operations that Rest can list are those of the host.
LEMMA RestType == ASSUME NEW f, NEW n PROVE Rest(f, n) \in Seq(Host!Todo) /\ Len(Rest(f, n)) <= 4
<1>1. <<>> \in Seq(Host!Todo) /\ Len(<<>>) = 0
  OBVIOUS
<1>2. \A a \in Host!Todo : <<a>> \in Seq(Host!Todo) /\ Len(<<a>>) = 1
  OBVIOUS
<1>3. \A a, b \in Host!Todo : <<a, b>> \in Seq(Host!Todo) /\ Len(<<a, b>>) = 2
  OBVIOUS
<1>4. \A a, b, c \in Host!Todo : <<a, b, c>> \in Seq(Host!Todo) /\ Len(<<a, b, c>>) = 3
  OBVIOUS
<1>5. \A a, b, c, d \in Host!Todo :
         <<a, b, c, d>> \in Seq(Host!Todo) /\ Len(<<a, b, c, d>>) = 4
  OBVIOUS
<1>6. \A a \in {"mast", "back", "init", "stop", "kill", "sleep", "unlink"} : a \in Host!Todo
  BY DEF Host!Todo
<1>7. CASE f \in {"i2m", "i2b", "b2i", "b2m"}
  BY <1>1, <1>2, <1>3, <1>6, <1>7 DEF Rest
<1>8. CASE f \in {"m2i", "m2b"}
  BY <1>1, <1>2, <1>3, <1>4, <1>5, <1>6, <1>8 DEF Rest
<1>9. CASE f \in {"kill_mast", "kill_mast_wild"}
  BY <1>1, <1>2, <1>3, <1>4, <1>5, <1>6, <1>9 DEF Rest
<1>10. CASE f \in {"kill_other", "kill_other_wild"}
  BY <1>1, <1>2, <1>3, <1>4, <1>6, <1>10 DEF Rest
<1>11. CASE f \notin {"i2m", "i2b", "b2i", "b2m", "m2i", "m2b", "kill_mast", "kill_mast_wild",
                      "kill_other", "kill_other_wild"}
  BY <1>1, <1>11 DEF Rest
<1> QED BY <1>7, <1>8, <1>9, <1>10, <1>11

\* The refinement mapping gives a host.
LEMMA HostType ==
    ASSUME NEW v \in Vr
    PROVE  /\ up = "up" => Shown(v)
           /\ up # "up" => HostOf(v) = Host!Down(VridOf[v])
           /\ Data => HostOf(v) \in Host!HostState
<1>1. ASSUME up = "up"
      PROVE  Shown(v) /\ (Data => HostOf(v) \in Host!HostState)
  <2>1. PICK open \in BOOLEAN : open <=> v \in used
    OBVIOUS
  <2>2. PICK made \in BOOLEAN : made <=> v \in live
    OBVIOUS
  <2>3. PICK soon \in BOOLEAN : soon <=> ArmedSoon
    OBVIOUS
  <2>4. PICK had \in BOOLEAN : had <=> pid[v] # 0
    OBVIOUS
  <2>5. /\ open = (v \in used) /\ made = (v \in live)
        /\ soon = ArmedSoon /\ had = (pid[v] # 0)
    BY <2>1, <2>2, <2>3, <2>4
  <2>6. HostOf(v) = [id |-> VridOf[v], up |-> TRUE, open |-> open, made |-> made,
                     st |-> state[v], pri |-> pri[v], heard |-> {i \in Vrid : flag[i]},
                     armed |-> soon, had |-> had, todo |-> Rest(prog["main"], at["main"])]
    BY <1>1, <2>5 DEF HostOf
  <2>7. Shown(v)
    BY <2>6, <2>1, <2>2, <2>3, <2>4 DEF Shown
  <2>8. ASSUME Data
        PROVE  HostOf(v) \in Host!HostState
    <3>1. VridOf[v] \in Vrid /\ state[v] \in {"INIT", "MAST", "BACK"} /\ pri[v] \in 0 .. 255
      BY <2>8, DaemonAssumption DEF Data, States
    <3>2. {i \in Vrid : flag[i]} \in SUBSET Vrid
      OBVIOUS
    <3>3. /\ Rest(prog["main"], at["main"]) \in Seq(Host!Todo)
          /\ Len(Rest(prog["main"], at["main"])) <= 4
      BY RestType
    <3> QED BY <2>6, <3>1, <3>2, <3>3 DEF Host!HostState
  <2> QED BY <2>7, <2>8
<1>2. ASSUME up # "up"
      PROVE  HostOf(v) = Host!Down(VridOf[v])
  BY <1>2 DEF HostOf
<1>3. Host!Down(VridOf[v]) \in Host!HostState
  <2>1. VridOf[v] \in Vrid /\ Len(<<>>) = 0 /\ <<>> \in Seq(Host!Todo)
    BY DaemonAssumption
  <2> QED BY <2>1 DEF Host!HostState, Host!Down
<1> QED BY <1>1, <1>2, <1>3

LEMMA NextHostType ==
    ASSUME NEW v \in Vr
    PROVE  /\ up' = "up" => Shown(v)'
           /\ up' # "up" => HostOf(v)' = Host!Down(VridOf[v])
           /\ Data' => HostOf(v)' \in Host!HostState
<1> DEFINE Typed(w) ==
      /\ up = "up" => Shown(w)
      /\ up # "up" => HostOf(w) = Host!Down(VridOf[w])
      /\ Data => HostOf(w) \in Host!HostState
<1>1. \A w \in Vr : Typed(w)
  BY HostType
<1>2. (\A w \in Vr : Typed(w))'
  BY <1>1, PTL
<1> QED BY <1>2

\* A host is what its fields are.
LEMMA SameHost ==
    ASSUME NEW h \in Host!HostState, NEW k \in Host!HostState,
           h.id = k.id, h.up <=> k.up, h.open <=> k.open, h.made <=> k.made, h.st = k.st,
           h.pri = k.pri, h.heard = k.heard, h.armed <=> k.armed, h.had <=> k.had, h.todo = k.todo
    PROVE  h = k
<1>1. \A x \in Host!HostState :
         /\ x.up \in BOOLEAN /\ x.open \in BOOLEAN /\ x.made \in BOOLEAN
         /\ x.armed \in BOOLEAN /\ x.had \in BOOLEAN
         /\ x = [id |-> x.id, up |-> x.up, open |-> x.open, made |-> x.made, st |-> x.st,
                 pri |-> x.pri, heard |-> x.heard, armed |-> x.armed, had |-> x.had,
                 todo |-> x.todo]
  BY DEF Host!HostState
<1>2. /\ h.up = k.up /\ h.open = k.open /\ h.made = k.made /\ h.armed = k.armed /\ h.had = k.had
  BY <1>1
<1> QED BY <1>1, <1>2

(***************************************************************************)
(* What a host can do, told by what becomes of its fields                  *)
(***************************************************************************)

\* Hosts h and k differ at most in the fields of S.
Alike(h, k, S) ==
    /\ h.id = k.id
    /\ h.up <=> k.up
    /\ "open" \notin S => (h.open <=> k.open)
    /\ "made" \notin S => (h.made <=> k.made)
    /\ "st" \notin S => h.st = k.st
    /\ "pri" \notin S => h.pri = k.pri
    /\ "heard" \notin S => h.heard = k.heard
    /\ "armed" \notin S => (h.armed <=> k.armed)
    /\ "had" \notin S => (h.had <=> k.had)
    /\ "todo" \notin S => h.todo = k.todo

\* A host that differs from another in some fields is it with these replaced.
LEMMA Changed ==
    ASSUME NEW h \in Host!HostState, NEW k \in Host!HostState
    PROVE  /\ Alike(h, k, {"todo"}) =>
                 k = [h EXCEPT !.todo = k.todo]
           /\ (Alike(h, k, {"st", "armed", "todo"}) /\ k.st = "MAST" /\ k.armed) =>
                 k = [h EXCEPT !.st = "MAST", !.armed = TRUE, !.todo = k.todo]
           /\ Alike(h, k, {"st", "todo"}) =>
                 k = [h EXCEPT !.st = k.st, !.todo = k.todo]
           /\ (Alike(h, k, {"made", "todo"}) /\ ~k.made) =>
                 k = [h EXCEPT !.made = FALSE, !.todo = k.todo]
           /\ (Alike(h, k, {"open", "made", "pri", "todo"}) /\ k.open /\ k.made) =>
                 k = [h EXCEPT !.open = TRUE, !.made = TRUE, !.pri = k.pri, !.todo = k.todo]
           /\ Alike(h, k, {"pri"}) =>
                 k = [h EXCEPT !.pri = k.pri]
           /\ Alike(h, k, {"heard", "todo"}) =>
                 k = [h EXCEPT !.heard = k.heard, !.todo = k.todo]
           /\ (Alike(h, k, {"st"}) /\ k.st = "MAST") =>
                 k = [h EXCEPT !.st = "MAST"]
           /\ (Alike(h, k, {"armed"}) /\ ~k.armed) =>
                 k = [h EXCEPT !.armed = FALSE]
           /\ (Alike(h, k, {"armed"}) /\ k.armed) =>
                 k = [h EXCEPT !.armed = TRUE]
           /\ (Alike(h, k, {"had"}) /\ k.had) =>
                 k = [h EXCEPT !.had = TRUE]
<1>1. ASSUME Alike(h, k, {"todo"})
      PROVE  k = [h EXCEPT !.todo = k.todo]
  <2> DEFINE r == [h EXCEPT !.todo = k.todo]
  <2>1. /\ r \in Host!HostState
        /\ r.id = h.id /\ r.up = h.up /\ r.open = h.open /\ r.made = h.made /\ r.st = h.st
        /\ r.pri = h.pri /\ r.heard = h.heard /\ r.armed = h.armed /\ r.had = h.had /\ r.todo = k.todo
    BY DEF Host!HostState
  <2> HIDE DEF r
  <2>2. r = k
    BY <1>1, <2>1, SameHost DEF Alike
  <2> QED BY <2>2 DEF r
<1>2. ASSUME (Alike(h, k, {"st", "armed", "todo"}) /\ k.st = "MAST" /\ k.armed)
      PROVE  k = [h EXCEPT !.st = "MAST", !.armed = TRUE, !.todo = k.todo]
  <2> DEFINE r == [h EXCEPT !.st = "MAST", !.armed = TRUE, !.todo = k.todo]
  <2>1. /\ r \in Host!HostState
        /\ r.id = h.id /\ r.up = h.up /\ r.open = h.open /\ r.made = h.made /\ r.st = "MAST"
        /\ r.pri = h.pri /\ r.heard = h.heard /\ r.armed = TRUE /\ r.had = h.had /\ r.todo = k.todo
    BY DEF Host!HostState
  <2> HIDE DEF r
  <2>2. r = k
    BY <1>2, <2>1, SameHost DEF Alike
  <2> QED BY <2>2 DEF r
<1>3. ASSUME Alike(h, k, {"st", "todo"})
      PROVE  k = [h EXCEPT !.st = k.st, !.todo = k.todo]
  <2> DEFINE r == [h EXCEPT !.st = k.st, !.todo = k.todo]
  <2>1. /\ r \in Host!HostState
        /\ r.id = h.id /\ r.up = h.up /\ r.open = h.open /\ r.made = h.made /\ r.st = k.st
        /\ r.pri = h.pri /\ r.heard = h.heard /\ r.armed = h.armed /\ r.had = h.had /\ r.todo = k.todo
    BY DEF Host!HostState
  <2> HIDE DEF r
  <2>2. r = k
    BY <1>3, <2>1, SameHost DEF Alike
  <2> QED BY <2>2 DEF r
<1>4. ASSUME (Alike(h, k, {"made", "todo"}) /\ ~k.made)
      PROVE  k = [h EXCEPT !.made = FALSE, !.todo = k.todo]
  <2> DEFINE r == [h EXCEPT !.made = FALSE, !.todo = k.todo]
  <2>1. /\ r \in Host!HostState
        /\ r.id = h.id /\ r.up = h.up /\ r.open = h.open /\ r.made = FALSE /\ r.st = h.st
        /\ r.pri = h.pri /\ r.heard = h.heard /\ r.armed = h.armed /\ r.had = h.had /\ r.todo = k.todo
    BY DEF Host!HostState
  <2> HIDE DEF r
  <2>2. r = k
    BY <1>4, <2>1, SameHost DEF Alike
  <2> QED BY <2>2 DEF r
<1>5. ASSUME (Alike(h, k, {"open", "made", "pri", "todo"}) /\ k.open /\ k.made)
      PROVE  k = [h EXCEPT !.open = TRUE, !.made = TRUE, !.pri = k.pri, !.todo = k.todo]
  <2> DEFINE r == [h EXCEPT !.open = TRUE, !.made = TRUE, !.pri = k.pri, !.todo = k.todo]
  <2>1. /\ r \in Host!HostState
        /\ r.id = h.id /\ r.up = h.up /\ r.open = TRUE /\ r.made = TRUE /\ r.st = h.st
        /\ r.pri = k.pri /\ r.heard = h.heard /\ r.armed = h.armed /\ r.had = h.had /\ r.todo = k.todo
    BY DEF Host!HostState
  <2> HIDE DEF r
  <2>2. r = k
    BY <1>5, <2>1, SameHost DEF Alike
  <2> QED BY <2>2 DEF r
<1>6. ASSUME Alike(h, k, {"pri"})
      PROVE  k = [h EXCEPT !.pri = k.pri]
  <2> DEFINE r == [h EXCEPT !.pri = k.pri]
  <2>1. /\ r \in Host!HostState
        /\ r.id = h.id /\ r.up = h.up /\ r.open = h.open /\ r.made = h.made /\ r.st = h.st
        /\ r.pri = k.pri /\ r.heard = h.heard /\ r.armed = h.armed /\ r.had = h.had /\ r.todo = h.todo
    BY DEF Host!HostState
  <2> HIDE DEF r
  <2>2. r = k
    BY <1>6, <2>1, SameHost DEF Alike
  <2> QED BY <2>2 DEF r
<1>7. ASSUME Alike(h, k, {"heard", "todo"})
      PROVE  k = [h EXCEPT !.heard = k.heard, !.todo = k.todo]
  <2> DEFINE r == [h EXCEPT !.heard = k.heard, !.todo = k.todo]
  <2>1. /\ r \in Host!HostState
        /\ r.id = h.id /\ r.up = h.up /\ r.open = h.open /\ r.made = h.made /\ r.st = h.st
        /\ r.pri = h.pri /\ r.heard = k.heard /\ r.armed = h.armed /\ r.had = h.had /\ r.todo = k.todo
    BY DEF Host!HostState
  <2> HIDE DEF r
  <2>2. r = k
    BY <1>7, <2>1, SameHost DEF Alike
  <2> QED BY <2>2 DEF r
<1>8. ASSUME (Alike(h, k, {"st"}) /\ k.st = "MAST")
      PROVE  k = [h EXCEPT !.st = "MAST"]
  <2> DEFINE r == [h EXCEPT !.st = "MAST"]
  <2>1. /\ r \in Host!HostState
        /\ r.id = h.id /\ r.up = h.up /\ r.open = h.open /\ r.made = h.made /\ r.st = "MAST"
        /\ r.pri = h.pri /\ r.heard = h.heard /\ r.armed = h.armed /\ r.had = h.had /\ r.todo = h.todo
    BY DEF Host!HostState
  <2> HIDE DEF r
  <2>2. r = k
    BY <1>8, <2>1, SameHost DEF Alike
  <2> QED BY <2>2 DEF r
<1>9. ASSUME (Alike(h, k, {"armed"}) /\ ~k.armed)
      PROVE  k = [h EXCEPT !.armed = FALSE]
  <2> DEFINE r == [h EXCEPT !.armed = FALSE]
  <2>1. /\ r \in Host!HostState
        /\ r.id = h.id /\ r.up = h.up /\ r.open = h.open /\ r.made = h.made /\ r.st = h.st
        /\ r.pri = h.pri /\ r.heard = h.heard /\ r.armed = FALSE /\ r.had = h.had /\ r.todo = h.todo
    BY DEF Host!HostState
  <2> HIDE DEF r
  <2>2. r = k
    BY <1>9, <2>1, SameHost DEF Alike
  <2> QED BY <2>2 DEF r
<1>10. ASSUME (Alike(h, k, {"had"}) /\ k.had)
      PROVE  k = [h EXCEPT !.had = TRUE]
  <2> DEFINE r == [h EXCEPT !.had = TRUE]
  <2>1. /\ r \in Host!HostState
        /\ r.id = h.id /\ r.up = h.up /\ r.open = h.open /\ r.made = h.made /\ r.st = h.st
        /\ r.pri = h.pri /\ r.heard = h.heard /\ r.armed = h.armed /\ r.had = TRUE /\ r.todo = h.todo
    BY DEF Host!HostState
  <2> HIDE DEF r
  <2>2. r = k
    BY <1>10, <2>1, SameHost DEF Alike
  <2> QED BY <2>2 DEF r
<1>11. ASSUME (Alike(h, k, {"armed"}) /\ k.armed)
      PROVE  k = [h EXCEPT !.armed = TRUE]
  <2> DEFINE r == [h EXCEPT !.armed = TRUE]
  <2>1. /\ r \in Host!HostState
        /\ r.id = h.id /\ r.up = h.up /\ r.open = h.open /\ r.made = h.made /\ r.st = h.st
        /\ r.pri = h.pri /\ r.heard = h.heard /\ r.armed = TRUE /\ r.had = h.had /\ r.todo = h.todo
    BY DEF Host!HostState
  <2> HIDE DEF r
  <2>2. r = k
    BY <1>11, <2>1, SameHost DEF Alike
  <2> QED BY <2>2 DEF r
<1> QED BY <1>1, <1>2, <1>3, <1>4, <1>5, <1>6, <1>7, <1>8, <1>9, <1>10, <1>11

\* What the main thread has to do next.
LEMMA HostDoes ==
    ASSUME NEW h \in Host!HostState, NEW k \in Host!HostState, h.up, h.todo # <<>>
    PROVE  /\ (/\ Head(h.todo) = "mast" /\ k.todo = Tail(h.todo)
               /\ Alike(h, k, {"st", "armed", "todo"}) /\ k.st = "MAST" /\ k.armed)
                 => Host!Outcome(k, Host!NoAdv) \in Host!Step(h)
           /\ (/\ Head(h.todo) = "back" /\ k.todo = Tail(h.todo)
               /\ Alike(h, k, {"st", "todo"}) /\ k.st = "BACK")
                 => Host!Outcome(k, Host!NoAdv) \in Host!Step(h)
           /\ (/\ Head(h.todo) = "init" /\ k.todo = Tail(h.todo)
               /\ Alike(h, k, {"st", "todo"}) /\ k.st = "INIT")
                 => Host!Outcome(k, Host!NoAdv) \in Host!Step(h)
           /\ (/\ Head(h.todo) = "stop" /\ k.todo = Tail(h.todo)
               /\ Alike(h, k, {"todo"}))
                 => Host!Outcome(k, 0) \in Host!Step(h)
           /\ (/\ Head(h.todo) = "kill" /\ k.todo = Tail(h.todo) /\ h.had
               /\ Alike(h, k, {"todo"}))
                 => Host!Outcome(k, Host!NoAdv) \in Host!Step(h)
           /\ (Head(h.todo) = "kill" /\ ~h.had)
                 => Host!Outcome(Host!Down(h.id), Host!NoAdv) \in Host!Step(h)
           /\ (/\ Head(h.todo) = "sleep" /\ Alike(h, k, {"todo"})
               /\ k.todo = IF h.heard = {} THEN <<"mast">> ELSE Tail(h.todo))
                 => Host!Outcome(k, Host!NoAdv) \in Host!Step(h)
           /\ (/\ Head(h.todo) = "unlink" /\ k.todo = Tail(h.todo) /\ ~k.made
               /\ Alike(h, k, {"made", "todo"}))
                 => Host!Outcome(k, Host!NoAdv) \in Host!Step(h)
<1> DEFINE Does(r, a) == Host!Outcome(r, a) \in Host!Do(h)
<1>0. \A r, a : Does(r, a) => Host!Outcome(r, a) \in Host!Step(h)
  BY DEF Host!Step
<1>1. /\ Head(h.todo) = "mast" => Does(Host!BecomeMaster(h), Host!NoAdv)
      /\ Head(h.todo) = "back" => Does(Host!Become(h, "BACK"), Host!NoAdv)
      /\ Head(h.todo) = "init" => Does(Host!Become(h, "INIT"), Host!NoAdv)
      /\ Head(h.todo) = "stop" => Does([h EXCEPT !.todo = Tail(h.todo)], 0)
      /\ Head(h.todo) = "kill" => Does(Host!Kill(h), Host!NoAdv)
      /\ Head(h.todo) = "sleep" => Does(Host!Sleep(h), Host!NoAdv)
      /\ Head(h.todo) = "unlink" => Does(Host!Unlink(h), Host!NoAdv)
  BY Zenon DEF Host!Do, Host!When, Host!Silent
<1> HIDE DEF Does
<1>2. (Alike(h, k, {"st", "armed", "todo"}) /\ k.st = "MAST" /\ k.armed /\ k.todo = Tail(h.todo))
         => k = Host!BecomeMaster(h)
  BY Changed, Zenon DEF Host!BecomeMaster
<1>3. (Alike(h, k, {"st", "todo"}) /\ k.todo = Tail(h.todo)) => k = Host!Become(h, k.st)
  BY Changed, Zenon DEF Host!Become
<1>4. (Alike(h, k, {"todo"}) /\ k.todo = Tail(h.todo)) => k = [h EXCEPT !.todo = Tail(h.todo)]
  BY Changed, Zenon
<1>5. /\ (Alike(h, k, {"todo"}) /\ k.todo = Tail(h.todo) /\ h.had) => k = Host!Kill(h)
      /\ ~h.had => Host!Down(h.id) = Host!Kill(h)
  BY <1>4, Zenon DEF Host!Kill
<1>6. (Alike(h, k, {"todo"}) /\ k.todo = IF h.heard = {} THEN <<"mast">> ELSE Tail(h.todo))
         => k = Host!Sleep(h)
  BY Changed, Zenon DEF Host!Sleep
<1>7. (Alike(h, k, {"made", "todo"}) /\ ~k.made /\ k.todo = Tail(h.todo)) => k = Host!Unlink(h)
  BY Changed, Zenon DEF Host!Unlink
<1> QED BY <1>0, <1>1, <1>2, <1>3, <1>4, <1>5, <1>6, <1>7

\* The alarm, and the router that a new master starts.
LEMMA HostAlarms ==
    ASSUME NEW h \in Host!HostState, NEW k \in Host!HostState, h.up
    PROVE  /\ (h.armed /\ h.st = "MAST" /\ k = h) => Host!Outcome(k, h.pri) \in Host!Step(h)
           /\ (h.armed /\ h.st = "BACK" /\ Alike(h, k, {"st"}) /\ k.st = "MAST")
                 => Host!Outcome(k, Host!NoAdv) \in Host!Step(h)
           /\ (/\ h.armed /\ Alike(h, k, {"armed"}) /\ ~k.armed
               /\ h.st = "INIT" \/ (h.todo # <<>> /\ Head(h.todo) \in {"mast", "init"}))
                 => Host!Outcome(k, Host!NoAdv) \in Host!Step(h)
           /\ (h.st = "MAST" /\ ~h.had /\ k.had /\ Alike(h, k, {"had"}))
                 => Host!Outcome(k, Host!NoAdv) \in Host!Step(h)
<1> DEFINE Rings(r, a) == Host!Outcome(r, a) \in Host!Alarm(h)
<1>0. /\ \A r, a : Rings(r, a) => Host!Outcome(r, a) \in Host!Step(h)
      /\ \A r, a : Host!Outcome(r, a) \in Host!StartRouter(h) => Host!Outcome(r, a) \in Host!Step(h)
  BY DEF Host!Step
<1>1. h.armed =>
      /\ h.st = "MAST" => Rings(h, h.pri)
      /\ h.st = "BACK" => Rings([h EXCEPT !.st = "MAST"], Host!NoAdv)
      /\ h.st = "INIT" => Rings([h EXCEPT !.armed = FALSE], Host!NoAdv)
      /\ (h.todo # <<>> /\ Head(h.todo) \in {"mast", "init"})
            => Rings([h EXCEPT !.armed = FALSE], Host!NoAdv)
  BY Zenon DEF Host!Alarm, Host!When, Host!Silent
<1>2. (h.st = "MAST" /\ ~h.had)
         => Host!Outcome([h EXCEPT !.had = TRUE], Host!NoAdv) \in Host!StartRouter(h)
  BY Zenon DEF Host!StartRouter, Host!When, Host!Silent
<1> HIDE DEF Rings
<1>3. /\ (Alike(h, k, {"st"}) /\ k.st = "MAST") => k = [h EXCEPT !.st = "MAST"]
      /\ (Alike(h, k, {"armed"}) /\ ~k.armed) => k = [h EXCEPT !.armed = FALSE]
      /\ (Alike(h, k, {"had"}) /\ k.had) => k = [h EXCEPT !.had = TRUE]
  BY Changed, Zenon
<1> QED BY <1>0, <1>1, <1>2, <1>3

\* A command can make k of host h.
Obeys(h, k) == Host!Outcome(k, Host!NoAdv) \in Host!Command(h)

LEMMA HostObeys ==
    ASSUME NEW h \in Host!HostState, NEW k \in Host!HostState, h.up, h.todo = <<>>
    PROVE  /\ (/\ ~h.open /\ k.open /\ k.made /\ k.pri \in CreatePri
               /\ Alike(h, k, {"open", "made", "pri", "todo"})
               /\ k.todo = IF k.pri = OWNER THEN <<"mast">> ELSE <<>>)
                 => Obeys(h, k)
           /\ (h.made /\ h.st = "INIT" /\ Alike(h, k, {"todo"}) /\ k.todo = <<"back", "sleep">>)
                 => Obeys(h, k)
           /\ (/\ h.made /\ h.st # "INIT" /\ Alike(h, k, {"todo"})
               /\ k.todo = IF h.st = "MAST" THEN <<"init", "stop", "kill">> ELSE <<"init">>)
                 => Obeys(h, k)
           /\ (/\ h.made /\ Alike(h, k, {"todo"})
               /\ k.todo \in IF h.st = "MAST" THEN {<<"init", "stop", "kill", "unlink">>, <<"unlink">>}
                             ELSE {<<"stop", "kill", "unlink">>})
                 => Obeys(h, k)
           /\ Obeys(h, Host!Down(h.id))
           /\ \A p \in ModPri : (h.made /\ Alike(h, k, {"pri"}) /\ k.pri = p % 256)
                 => Obeys(h, k)
           /\ (h.made /\ h.st = "INIT" /\ Alike(h, k, {"armed"}) /\ k.armed) => Obeys(h, k)
<1>1. \A p \in CreatePri : ~h.open =>
        Obeys(h, [h EXCEPT !.open = TRUE, !.made = TRUE, !.pri = p,
                        !.todo = IF p = Host!OWNER THEN <<"mast">> ELSE <<>>])
  BY Zenon DEF Obeys, Host!Command, Host!Create, Host!When, Host!Silent, Host!Polls
<1>2. (h.made /\ h.st = "INIT") => Obeys(h, [h EXCEPT !.todo = <<"back", "sleep">>])
  BY Zenon DEF Obeys, Host!Command, Host!Startup, Host!When, Host!Silent, Host!Polls
<1>3. (h.made /\ h.st # "INIT") =>
        Obeys(h, [h EXCEPT !.todo = IF h.st = "MAST" THEN <<"init", "stop", "kill">> ELSE <<"init">>])
  BY Zenon DEF Obeys, Host!Command, Host!Shutdown, Host!When, Host!Silent, Host!Polls
<1>4. h.made => \A w \in BOOLEAN : Obeys(h, [h EXCEPT !.todo =
                   CASE h.st # "MAST" -> <<"stop", "kill", "unlink">>
                     [] h.st = "MAST" /\ ~w -> <<"init", "stop", "kill", "unlink">>
                     [] h.st = "MAST" /\ w -> <<"unlink">>])
  BY Zenon DEF Obeys, Host!Command, Host!Destroy, Host!When, Host!Silent, Host!Polls
<1>5. Obeys(h, Host!Down(h.id))
  BY Zenon DEF Obeys, Host!Command, Host!DestroyMissing, Host!When, Host!Silent, Host!Polls
<1>6. \A p \in ModPri : h.made => Obeys(h, [h EXCEPT !.pri = p % 256])
  <2> SUFFICES ASSUME NEW p \in ModPri, h.made PROVE Obeys(h, [h EXCEPT !.pri = p % 256])
    OBVIOUS
  <2>1. Host!SetProp(h, p) \subseteq Host!Command(h)
    BY Zenon DEF Host!Command
  <2>2. Host!Outcome([h EXCEPT !.pri = p % 256], Host!NoAdv) \in Host!SetProp(h, p)
    BY Zenon DEF Host!SetProp, Host!When, Host!Silent, Host!Polls
  <2> QED BY <2>1, <2>2, Zenon DEF Obeys
<1>7. /\ (Alike(h, k, {"open", "made", "pri", "todo"}) /\ k.open /\ k.made)
            => k = [h EXCEPT !.open = TRUE, !.made = TRUE, !.pri = k.pri, !.todo = k.todo]
      /\ Alike(h, k, {"todo"}) => k = [h EXCEPT !.todo = k.todo]
      /\ Alike(h, k, {"pri"}) => k = [h EXCEPT !.pri = k.pri]
  BY Changed, Zenon
<1>8. (/\ ~h.open /\ k.open /\ k.made /\ k.pri \in CreatePri
       /\ Alike(h, k, {"open", "made", "pri", "todo"})
       /\ k.todo = IF k.pri = OWNER THEN <<"mast">> ELSE <<>>) => Obeys(h, k)
  <2>1. Host!OWNER = OWNER
    BY DEF Host!OWNER, OWNER
  <2> QED BY <1>1, <1>7, <2>1, Zenon
<1>9. (h.made /\ h.st = "INIT" /\ Alike(h, k, {"todo"}) /\ k.todo = <<"back", "sleep">>) => Obeys(h, k)
  BY <1>2, <1>7, Zenon
<1>10. (/\ h.made /\ h.st # "INIT" /\ Alike(h, k, {"todo"})
        /\ k.todo = IF h.st = "MAST" THEN <<"init", "stop", "kill">> ELSE <<"init">>) => Obeys(h, k)
  BY <1>3, <1>7, Zenon
<1>11. (/\ h.made /\ Alike(h, k, {"todo"})
        /\ k.todo \in IF h.st = "MAST" THEN {<<"init", "stop", "kill", "unlink">>, <<"unlink">>}
                      ELSE {<<"stop", "kill", "unlink">>}) => Obeys(h, k)
  <2> SUFFICES ASSUME h.made, Alike(h, k, {"todo"}),
                      k.todo \in IF h.st = "MAST"
                                 THEN {<<"init", "stop", "kill", "unlink">>, <<"unlink">>}
                                 ELSE {<<"stop", "kill", "unlink">>}
               PROVE  Obeys(h, k)
    OBVIOUS
  <2> DEFINE todo(w) == CASE h.st # "MAST" -> <<"stop", "kill", "unlink">>
                          [] h.st = "MAST" /\ ~w -> <<"init", "stop", "kill", "unlink">>
                          [] h.st = "MAST" /\ w -> <<"unlink">>
  <2>1. PICK w \in BOOLEAN : k.todo = todo(w)
    <3>1. CASE h.st = "MAST"
      <4>1. todo(TRUE) = <<"unlink">> /\ todo(FALSE) = <<"init", "stop", "kill", "unlink">>
        BY <3>1
      <4> QED BY <3>1, <4>1
    <3>2. CASE h.st # "MAST"
      <4>1. todo(TRUE) = <<"stop", "kill", "unlink">>
        BY <3>2
      <4> QED BY <3>2, <4>1
    <3> QED BY <3>1, <3>2
  <2>2. Obeys(h, [h EXCEPT !.todo = todo(w)])
    BY <1>4, Zenon
  <2> HIDE DEF todo
  <2> QED BY <1>7, <2>1, <2>2, Zenon
<1>12. \A p \in ModPri : (h.made /\ Alike(h, k, {"pri"}) /\ k.pri = p % 256) => Obeys(h, k)
  <2> SUFFICES ASSUME NEW p \in ModPri, h.made, Alike(h, k, {"pri"}), k.pri = p % 256
               PROVE  Obeys(h, k)
    BY Zenon
  <2>1. k = [h EXCEPT !.pri = k.pri]
    BY <1>7, Zenon
  <2> QED BY <1>6, <2>1, Zenon
<1>13. (h.made /\ h.st = "INIT" /\ Alike(h, k, {"armed"}) /\ k.armed) => Obeys(h, k)
  <2>1. Alike(h, k, {"armed"}) /\ k.armed => k = [h EXCEPT !.armed = TRUE]
    BY Changed, Zenon
  <2>2. (h.made /\ h.st = "INIT") => Obeys(h, [h EXCEPT !.armed = TRUE])
    BY Zenon DEF Obeys, Host!Command, Host!SetDelay, Host!When, Host!Silent, Host!Polls
  <2> QED BY <2>1, <2>2, Zenon
<1> QED BY <1>5, <1>8, <1>9, <1>10, <1>11, <1>12, <1>13

\* The advertisements.
LEMMA HostHears ==
    ASSUME NEW h \in Host!HostState, NEW k \in Host!HostState, h.up, h.todo = <<>>, NEW i \in Vrid
    PROVE  /\ ~h.made => Host!Outcome(Host!Down(h.id), Host!NoAdv) \in Received(h)
           /\ (/\ h.made /\ Alike(h, k, {"heard", "todo"}) /\ k.heard = h.heard \ {i}
               /\ k.todo = IF h.st = "BACK" THEN <<"mast">> ELSE <<>>)
                 => Host!Outcome(k, Host!NoAdv) \in Received(h)
           /\ \A p \in AdvPri :
                 (/\ Alike(h, k, {"heard", "todo"}) /\ k.heard = h.heard \cup {i}
                  /\ k.todo = IF h.made /\ i = h.id /\ h.st = "MAST" /\ p > h.pri
                              THEN <<"back", "stop", "kill", "sleep">> ELSE <<>>)
                 => Host!Outcome(k, Host!NoAdv) \in Received(h)
<1> DEFINE Hears(r) == Host!Outcome(r, Host!NoAdv) \in Received(h)
<1>0. /\ \A o : o \in Host!ReceiveStop(h, i) => o \in Received(h)
      /\ \A p \in AdvPri : \A o : o \in Host!ReceiveAdv(h, i, p) => o \in Received(h)
  BY DEF Received
<1>1. /\ ~h.made => Hears(Host!Down(h.id))
      /\ h.made => Hears([h EXCEPT !.heard = @ \ {i},
                                   !.todo = IF h.st = "BACK" THEN <<"mast">> ELSE <<>>])
  BY <1>0, Zenon DEF Host!ReceiveStop, Host!When, Host!Silent, Host!Polls
<1>2. \A p \in AdvPri : Hears([h EXCEPT !.heard = @ \cup {i},
                          !.todo = IF Host!yields(h, i, p)
                                   THEN <<"back", "stop", "kill", "sleep">> ELSE <<>>])
  BY <1>0, Zenon DEF Host!ReceiveAdv, Host!When, Host!Silent, Host!Polls
<1> HIDE DEF Hears
<1>3. Alike(h, k, {"heard", "todo"}) => k = [h EXCEPT !.heard = k.heard, !.todo = k.todo]
  BY Changed, Zenon
<1>4. (/\ h.made /\ Alike(h, k, {"heard", "todo"}) /\ k.heard = h.heard \ {i}
       /\ k.todo = IF h.st = "BACK" THEN <<"mast">> ELSE <<>>) => Hears(k)
  BY <1>1, <1>3, Zenon
<1>5. \A p \in AdvPri :
        (/\ Alike(h, k, {"heard", "todo"}) /\ k.heard = h.heard \cup {i}
         /\ k.todo = IF h.made /\ i = h.id /\ h.st = "MAST" /\ p > h.pri
                     THEN <<"back", "stop", "kill", "sleep">> ELSE <<>>) => Hears(k)
  <2> SUFFICES ASSUME NEW p \in AdvPri, Alike(h, k, {"heard", "todo"}), k.heard = h.heard \cup {i},
                      k.todo = IF h.made /\ i = h.id /\ h.st = "MAST" /\ p > h.pri
                               THEN <<"back", "stop", "kill", "sleep">> ELSE <<>>
               PROVE  Hears(k)
    BY Zenon
  <2>1. k.todo = IF Host!yields(h, i, p) THEN <<"back", "stop", "kill", "sleep">> ELSE <<>>
    BY Zenon DEF Host!yields
  <2>2. k = [h EXCEPT !.heard = @ \cup {i},
                      !.todo = IF Host!yields(h, i, p)
                               THEN <<"back", "stop", "kill", "sleep">> ELSE <<>>]
    BY <1>3, <2>1, Zenon
  <2> QED BY <1>2, <2>2, Zenon
<1> QED BY <1>1, <1>4, <1>5, Zenon DEF Hears

(***************************************************************************)
(* Steps of the daemon as steps of the host                                *)
(***************************************************************************)
HostMoves(v) == \/ HostStep(v, HostOf(v), HostOf(v)')
                \/ HostOf(v)' = HostOf(v) /\ wire' = wire

\* An outcome of an operation, as the wire shows it.
LEMMA HostStepIs ==
    ASSUME NEW v, NEW h, NEW k, NEW a,
           Host!Outcome(k, a) \in Host!Command(h) \cup Received(h) \cup Host!Step(h),
           wire' = IF a = Host!NoAdv THEN wire ELSE [wire EXCEPT ![VridOf[v]] = a]
    PROVE  HostStep(v, h, k)
<1>1. Host!Outcome(k, a).to = k /\ Host!Outcome(k, a).adv = a
  BY DEF Host!Outcome
<1> HIDE DEF Host!Outcome
<1> QED BY <1>1 DEF HostStep

\* A step that says nothing.
LEMMA HostStepSilent ==
    ASSUME NEW v, NEW h, NEW k, wire' = wire,
           Host!Outcome(k, Host!NoAdv) \in Host!Command(h) \cup Received(h) \cup Host!Step(h)
    PROVE  HostStep(v, h, k)
BY HostStepIs, Zenon

\* A pointer that the code follows is NULL.
LEMMA CrashIsCrash ==
    ASSUME NEW v \in Vr, up = "up", up' = "queue", wire' = wire
    PROVE  HostMoves(v)
<1>1. HostOf(v)' = Host!Down(VridOf[v]) /\ Shown(v)
  BY HostType, NextHostType
<1>2. HostOf(v).up /\ HostOf(v).id = VridOf[v]
  BY <1>1 DEF Shown
<1>3. Host!Outcome(HostOf(v)', Host!NoAdv) \in Host!Crash(HostOf(v))
  BY <1>1, <1>2, Zenon DEF Host!Crash, Host!When, Host!Silent
<1>4. /\ Host!Outcome(HostOf(v)', Host!NoAdv).to = HostOf(v)'
      /\ Host!Outcome(HostOf(v)', Host!NoAdv).adv = Host!NoAdv
  BY DEF Host!Outcome
<1> HIDE DEF Host!Outcome
<1> QED BY <1>3, <1>4, Zenon DEF HostStep, HostMoves

\* The process has ended: nothing happens.
LEMMA DeadIsStill ==
    ASSUME NEW v \in Vr, up # "up", [Next]_vars
    PROVE  HostMoves(v)
<1>1. up' = up /\ wire' = wire
  <2>1. CASE UNCHANGED vars
    BY <2>1 DEF vars
  <2>2. ~Command /\ ~Advert
    BY DEF Command, Advert, vrrp_create_inst, vrrp_startup_inst, vrrp_shutdown_inst,
       vrrp_destroy_inst, vrrp_set_inst_prop, destroy_missing, receive_stop,
       receive_stop_no_instance, receive_adv, MainIdle, Runs
  <2>3. ASSUME NEW t, NEW op, At(t, op) PROVE FALSE
    BY <2>3 DEF At, Runs
  <2>4. \A t : ~Step(t)
    BY <2>3 DEF Step, DoLock, DoUnlock, DoState, SetState, DoFork, DoAlarm, DoSend, DoRmqueueStep,
       DoReadHead, DoJoin, DoEnqueueStep, QueueStep
  <2>5. ~MainStep
    BY <2>3, <2>4 DEF MainStep, DoRmqueue, DoEnqueue, MainEnqueue, DoRequeue, DoKill, DoSleep,
       DoUnlink, QueueStep
  <2>6. ~HandlerStep
    BY <2>3, <2>4 DEF HandlerStep, DoDequeue, DoMore, DoTest, DoAgain
  <2>7. \A thr : ~Deliver(thr)
    BY DEF Deliver
  <2> QED BY <2>1, <2>2, <2>5, <2>6, <2>7 DEF Next
<1>2. /\ HostOf(v) = Host!Down(VridOf[v])
      /\ HostOf(v)' = Host!Down(VridOf[v])
  BY <1>1, HostType, NextHostType
<1> QED BY <1>1, <1>2, Zenon DEF HostMoves

\* A change of interval is made for an instance of the list.
Present == prog["main"] = "modify" => ent["main"] \in live

\* What a command or an advertisement leaves of it.
LEMMA InputKeepsPresent ==
    ASSUME Data, Control, Command \/ Advert
    PROVE  Present'
<1>1. prog["main"] = "idle" /\ prog \in [Thread -> Functions] /\ ent \in [Thread -> Ptr]
  BY InputEffect DEF MainIdle, Control, Places
<1>2. "main" \in Thread
  BY DEF Thread
<1>3. ASSUME UNCHANGED threads PROVE Present'
  BY <1>1, <1>3 DEF threads, Present
<1>4. ASSUME NEW v \in Vr, NEW f, f # "modify", Call(f, v) PROVE Present'
  BY <1>1, <1>2, <1>4 DEF Call, Jump, Present
<1>5. ASSUME NEW v \in live, live' = live, Call("modify", v) PROVE Present'
  BY <1>1, <1>2, <1>5 DEF Call, Jump, Present
<1>6. ASSUME NEW v \in Vr, NEW p, NEW d, NEW m, vrrp_create_inst(v, p, d, m) PROVE Present'
  BY <1>3, <1>4, <1>6 DEF vrrp_create_inst
<1>7. ASSUME NEW v \in Vr, vrrp_startup_inst(v) PROVE Present'
  BY <1>4, <1>7 DEF vrrp_startup_inst
<1>8. ASSUME NEW v \in Vr, vrrp_shutdown_inst(v) PROVE Present'
  BY <1>4, <1>8 DEF vrrp_shutdown_inst
<1>9. ASSUME NEW v \in Vr, NEW wild, vrrp_destroy_inst(v, wild) PROVE Present'
  BY <1>4, <1>9 DEF vrrp_destroy_inst
<1>10. ASSUME NEW v \in Vr, NEW wild, NEW p, NEW d, NEW m, vrrp_set_inst_prop(v, wild, p, d, m)
       PROVE  Present'
  <2>1. v \in live /\ live' = live
    BY <1>10 DEF vrrp_set_inst_prop, FoundById, FoundByWildcard, list
  <2>2. UNCHANGED threads \/ Call("modify", v) \/ Call("modify_wild", v)
    BY <1>10 DEF vrrp_set_inst_prop
  <2> QED BY <1>3, <1>4, <1>5, <2>1, <2>2
<1>11. CASE destroy_missing
  BY <1>3, <1>11 DEF destroy_missing, Segv
<1>12. CASE Command
  BY <1>6, <1>7, <1>8, <1>9, <1>10, <1>11, <1>12 DEF Command
<1>13. ASSUME NEW i \in Vrid, receive_stop(i) PROVE Present'
  BY <1>3, <1>4, <1>13 DEF receive_stop, Data
<1>14. ASSUME NEW i \in Vrid, receive_stop_no_instance(i) PROVE Present'
  BY <1>3, <1>14 DEF receive_stop_no_instance, Segv
<1>15. ASSUME NEW i \in Vrid, NEW p \in AdvPri, receive_adv(i, p) PROVE Present'
  BY <1>3, <1>4, <1>15 DEF receive_adv, Data
<1> QED BY <1>12, <1>13, <1>14, <1>15 DEF Advert

\* Only the last instruction of a removal takes an instance off the list.
LEMMA WhoUnlinks ==
    ASSUME MainStep \/ HandlerStep
    PROVE  live' = live \/ Op("main") = "unlink"
<1>1. ASSUME NEW t, Step(t) PROVE live' = live
  BY <1>1 DEF Step, DoLock, DoUnlock, DoState, SetState, DoFork, DoAlarm, DoSend, DoRmqueueStep,
     DoReadHead, DoJoin, DoEnqueueStep, QueueStep, Segv, list
<1>2. CASE DoRequeue
  BY <1>2, RequeueCases DEF MainEnqueue, Segv, list
<1>3. CASE MainStep
  BY <1>1, <1>2, <1>3 DEF MainStep, DoRmqueue, DoEnqueue, MainEnqueue, DoKill, DoSleep, DoUnlink,
     QueueStep, Segv, At, Op, list
<1>4. CASE HandlerStep
  BY <1>1, <1>4 DEF HandlerStep, DoDequeue, DoMore, DoTest, DoAgain, list
<1> QED BY <1>3, <1>4

LEMMA PresentStep ==
    ASSUME Data, Control, Present, [Next]_vars
    PROVE  Present'
<1>0. "main" \in Thread /\ "alrm" \in Thread /\ "main" # "alrm"
  BY DEF Thread
<1>1. CASE UNCHANGED vars
  BY <1>1 DEF vars, list, threads, Present
<1>2. ASSUME prog["main"] = "modify", MainStep \/ HandlerStep PROVE live' = live
  <2>1. Op("main") # "unlink"
    <3>1. at["main"] \in 1 .. 3
      <4>1. Len(Code["modify"]) = 3
        BY DEF Code
      <4> QED BY <1>0, <1>2, <4>1 DEF Control, Places
    <3>2. Code["modify"] = <<"lock", "requeue", "unlock">>
      BY DEF Code
    <3> QED BY <1>2, <3>1, <3>2 DEF Op
  <2> QED BY <1>2, <2>1, WhoUnlinks
<1>3. ASSUME prog'["main"] = "modify" => prog["main"] = "modify" /\ ent'["main"] = ent["main"],
             MainStep \/ HandlerStep
      PROVE  Present'
  BY <1>2, <1>3 DEF Present
<1>4. CASE MainStep
  <2>1. CASE UNCHANGED threads
    BY <1>3, <1>4, <2>1 DEF threads
  <2>2. CASE Advance("main")
    BY <1>0, <1>3, <1>4, <2>2, AdvanceEffect
  <2>3. CASE Jump("main", "b2m")
    <3>1. prog'["main"] = "b2m"
      BY <1>0, <2>3 DEF Jump, Control, Places
    <3> QED BY <1>3, <1>4, <3>1
  <2> QED BY <1>4, <2>1, <2>2, <2>3, MainStepEffect DEF MainEffect
<1>5. CASE HandlerStep
  <2>1. CASE UNCHANGED threads
    BY <1>3, <1>5, <2>1 DEF threads
  <2>2. CASE Advance("alrm")
    BY <1>0, <1>3, <1>5, <2>2, AdvanceEffect
  <2>3. CASE ent'["main"] = ent["main"] /\ \E f \in HandlerCode : HandlerJump(f)
    <3>1. prog'["main"] = prog["main"]
      BY <1>0, <2>3 DEF HandlerJump, Jump, Control, Places
    <3> QED BY <1>3, <1>5, <2>3, <3>1
  <2> QED BY <1>5, <2>1, <2>2, <2>3, HandlerStepEffect DEF HandlerEffect
<1>6. CASE \E thr \in HandlerThreads : Deliver(thr)
  BY <1>0, <1>6 DEF Deliver, Control, Places, list, Present
<1> QED BY <1>1, <1>4, <1>5, <1>6, InputKeepsPresent DEF Next

LEMMA PresentHolds == Spec => []Present
<1>1. Init => Present
  BY DEF Init, Present, Thread
<1>2. Data /\ Control /\ Present /\ [Next]_vars => Present'
  BY PresentStep
<1> QED BY <1>1, <1>2, TypesHold, PTL DEF Spec

\* The main thread takes its next instruction.
LEMMA MainIsHost ==
    ASSUME NEW v \in Vr, Ready(v), AlarmOk(v), Present, Data', MainStep, up' = up
    PROVE  HostMoves(v)
<1> DEFINE h == HostOf(v)
           k == HostOf(v)'
           f == prog["main"]
           n == at["main"]
           g == prog'["main"]
           m == at'["main"]
           op == Op("main")
<1>1. /\ h \in Host!HostState /\ k \in Host!HostState
      /\ Shown(v) /\ Shown(v)'
  BY HostType, NextHostType DEF Ready
<1>2. Shows("main", v) /\ (op = "kill" => pid[v] # 0)
  BY MainShows
<1>3. /\ prog["alrm"] = "idle" /\ prog'["alrm"] = "idle"
      /\ f \in Functions \ HandlerCode /\ n \in 1 .. Len(Code[f])
      /\ op = Code[f][n]
  BY MainGoes, MainEntry DEF Op
<1>4. op # "sleep" => After(f, n, g, m)
  <2>1. op # "sleep" => Advance("main")
    BY MainGoes
  <2> QED BY <2>1, MainMoves
<1>5. /\ ArmedSoon <=> armed \/ Setting(f, n)
      /\ ArmedSoon' <=> armed' \/ Setting(g, m)
  BY <1>3 DEF ArmedSoon
<1>6. /\ op = "alarm" => armed' = TRUE
      /\ op \notin {"alarm", "requeue"} => armed' = armed
      /\ op = "requeue" => armed' = armed \/ state[v] = "INIT"
  BY MainServes
<1>7. /\ h.id = VridOf[v] /\ k.id = VridOf[v] /\ h.up /\ k.up
      /\ h.open <=> v \in used
      /\ k.open <=> v \in used'
      /\ h.made <=> v \in live
      /\ k.made <=> v \in live'
      /\ h.st = state[v] /\ k.st = state'[v] /\ h.pri = pri[v] /\ k.pri = pri'[v]
      /\ h.heard = {i \in Vrid : flag[i]} /\ k.heard = {i \in Vrid : flag'[i]}
      /\ h.armed <=> armed \/ Setting(f, n)
      /\ k.armed <=> armed' \/ Setting(g, m)
      /\ h.had <=> pid[v] # 0
      /\ k.had <=> pid'[v] # 0
      /\ h.todo = Rest(f, n) /\ k.todo = Rest(g, m)
  BY <1>1, <1>5 DEF Shown
<1>8. op # "sleep" =>
         /\ op \in Host!Todo => h.todo # <<>> /\ Head(h.todo) = op /\ k.todo = Tail(h.todo)
         /\ op \notin Host!Todo => k.todo = h.todo
  BY <1>3, <1>4, <1>7, RestPlaces
<1>9. op # "sleep" =>
         /\ op = "mast" => Setting(g, m)
         /\ op = "alarm" => Setting(f, n)
         /\ op \notin {"mast", "alarm"} => (Setting(g, m) <=> Setting(f, n))
         /\ op \in {"back", "init"} => ~Setting(f, n)
         /\ op = "fork" => Setting(f, n)
  BY <1>3, <1>4, SettingPlaces
<1>10. Setting(f, n) => state[v] = "MAST"
  BY DEF AlarmOk, SettingOk
<1>11. op \in {"alarm", "mast", "back", "init", "sleep",
               "rmqueue", "bypass", "relink", "clrnext", "clrprev", "head",
               "join", "linkback", "inherit", "publish",
               "enqueue", "enqueue3", "requeue", "rmlinked",
               "lock", "unlock", "fork", "stop", "kill", "unlink"}
  <2>1. \E g1, m1 : After(f, n, g1, m1)
    <3>1. After(f, n, "idle", 1) \/ After(f, n, f, n + 1)
      BY DEF After
    <3> QED BY <3>1
  <2>2. op \notin {"send", "alarmnext"}
    BY <1>3, <2>1, MainPlaces
  <2> QED BY <2>2, MainOps
<1> HIDE DEF h, k, f, n, g, m, op
<1>13. Shows("main", v) =>
        /\ pri' = pri /\ flag' = flag /\ used' = used
        /\ op # "unlink" => live' = live
        /\ op = "unlink" => v \notin live'
        /\ op \notin {"mast", "back", "init"} => state' = state
        /\ op = "mast" => state'[v] = "MAST"
        /\ op = "back" => state'[v] = "BACK"
        /\ op = "init" => state'[v] = "INIT"
        /\ op # "fork" => pid' = pid
        /\ op = "fork" => pid'[v] = pid[v] \/ pid'[v] # 0
        /\ op \notin {"send", "stop"} => wire' = wire
        /\ op = "stop" => wire' = [wire EXCEPT ![VridOf[v]] = 0]
  BY DEF Shows, op
<1>14. /\ Alike(h, k, {"made", "st", "armed", "had", "todo"})
       /\ op # "unlink" => (h.made <=> k.made)
       /\ op \notin {"mast", "back", "init"} => h.st = k.st
       /\ op # "fork" => (h.had <=> k.had)
       /\ op # "stop" => wire' = wire
  BY <1>2, <1>7, <1>11, <1>13 DEF Alike
<1>15. /\ (k = h /\ wire' = wire) => HostMoves(v)
       /\ (Host!Outcome(k, Host!NoAdv) \in Host!Step(h) /\ wire' = wire) => HostMoves(v)
  <2>1. Host!Outcome(k, Host!NoAdv) \in Host!Step(h)
          => Host!Outcome(k, Host!NoAdv) \in Host!Command(h) \cup Received(h) \cup Host!Step(h)
    OBVIOUS
  <2> QED BY <2>1, HostStepSilent, Zenon DEF HostMoves, h, k
<1>16. (/\ op \notin {"stop", "unlink", "mast", "back", "init"}
        /\ h.had <=> k.had
        /\ h.armed <=> k.armed
        /\ h.todo = k.todo) => HostMoves(v)
  <2> SUFFICES ASSUME op \notin {"stop", "unlink", "mast", "back", "init"},
                      h.had <=> k.had, h.armed <=> k.armed, h.todo = k.todo
               PROVE  k = h /\ wire' = wire
    BY <1>15
  <2>1. wire' = wire /\ (h.made <=> k.made) /\ h.st = k.st
    BY <1>14
  <2> QED BY <1>1, <1>14, <2>1, SameHost DEF Alike
<1>17. CASE op = "mast"
  <2>1. h.todo # <<>> /\ Head(h.todo) = "mast" /\ k.todo = Tail(h.todo)
    BY <1>8, <1>17 DEF Host!Todo
  <2>2. k.st = "MAST" /\ k.armed /\ wire' = wire
    BY <1>2, <1>7, <1>9, <1>13, <1>17
  <2>3. Alike(h, k, {"st", "armed", "todo"})
    BY <1>14, <1>17 DEF Alike
  <2>4. Host!Outcome(k, Host!NoAdv) \in Host!Step(h)
    BY <1>1, <1>7, <2>1, <2>2, <2>3, HostDoes
  <2> QED BY <1>15, <2>2, <2>4
<1>18. CASE op \in {"back", "init"}
  <2>1. h.todo # <<>> /\ Head(h.todo) = op /\ k.todo = Tail(h.todo)
    BY <1>8, <1>18 DEF Host!Todo
  <2>2. k.st = (IF op = "back" THEN "BACK" ELSE "INIT") /\ wire' = wire
    BY <1>2, <1>7, <1>13, <1>18
  <2>3. h.armed <=> k.armed
    BY <1>6, <1>7, <1>9, <1>18
  <2>4. Alike(h, k, {"st", "todo"})
    BY <1>14, <1>18, <2>3 DEF Alike
  <2>5. Host!Outcome(k, Host!NoAdv) \in Host!Step(h)
    BY <1>1, <1>7, <1>18, <2>1, <2>2, <2>4, HostDoes
  <2> QED BY <1>15, <2>2, <2>5
<1>19. CASE op \in {"stop", "kill", "unlink"}
  <2>1. h.todo # <<>> /\ Head(h.todo) = op /\ k.todo = Tail(h.todo)
    BY <1>8, <1>19 DEF Host!Todo
  <2>2. h.armed <=> k.armed
    BY <1>6, <1>7, <1>9, <1>19
  <2>3. Alike(h, k, {"made", "todo"}) /\ (op # "unlink" => Alike(h, k, {"todo"}))
    BY <1>14, <1>19, <2>2 DEF Alike
  <2>4. CASE op = "stop"
    <3>1. Host!Outcome(k, 0) \in Host!Step(h)
      BY <1>1, <1>7, <2>1, <2>3, <2>4, HostDoes
    <3>2. wire' = [wire EXCEPT ![VridOf[v]] = 0] /\ 0 # Host!NoAdv
      BY <1>2, <1>13, <2>4 DEF Host!NoAdv
    <3>3. HostStep(v, h, k)
      BY <3>1, <3>2, HostStepIs
    <3> QED BY <3>3 DEF HostMoves, h, k
  <2>5. CASE op = "kill"
    <3>1. Host!Outcome(k, Host!NoAdv) \in Host!Step(h)
      BY <1>1, <1>2, <1>7, <2>1, <2>3, <2>5, HostDoes
    <3> QED BY <1>14, <1>15, <2>5, <3>1
  <2>6. CASE op = "unlink"
    <3>1. ~k.made
      BY <1>2, <1>7, <1>13, <2>6
    <3>2. Host!Outcome(k, Host!NoAdv) \in Host!Step(h)
      BY <1>1, <1>7, <2>1, <2>3, <2>6, <3>1, HostDoes
    <3> QED BY <1>14, <1>15, <2>6, <3>2
  <2> QED BY <1>19, <2>4, <2>5, <2>6
<1>20. CASE op = "sleep"
  <2>1. (f = "i2b" /\ n = 5) \/ (f = "m2b" /\ n = 8)
    <3>1. \E g1, m1 : After(f, n, g1, m1)
      <4>1. After(f, n, "idle", 1) \/ After(f, n, f, n + 1)
        BY DEF After
      <4> QED BY <4>1
    <3> QED BY <1>3, <1>20, <3>1, MainPlaces DEF f, n, op
  <2>2. ~Setting(f, n) /\ Rest(f, n) = <<"sleep">>
    BY <2>1 DEF Setting, Rest
  <2>3. IF \E i \in Vrid : flag[i] THEN g = "idle" /\ m = 1 ELSE g = "b2m" /\ m = 1
    <3>1. (\E i \in Vrid : flag[i]) => Advance("main")
      BY <1>20, MainGoes DEF op
    <3>2. Advance("main") => After(f, n, g, m)
      BY MainMoves DEF f, n, g, m
    <3>3. After(f, n, g, m) => g = "idle" /\ m = 1
      <4>1. Len(Code["i2b"]) = 5 /\ Len(Code["m2b"]) = 8
        BY DEF Code
      <4> QED BY <2>1, <4>1 DEF After
    <3>4. (~\E i \in Vrid : flag[i]) => g = "b2m" /\ m = 1
      BY <1>20, MainGoes DEF op, g, m
    <3> QED BY <3>1, <3>2, <3>3, <3>4
  <2>4. ~Setting(g, m) /\ armed' = armed
    BY <1>6, <1>20, <2>3 DEF Setting
  <2>5. Rest("idle", 1) = <<>> /\ Rest("b2m", 1) = <<"mast">>
    BY DEF Rest
  <2>6. h.heard = {} <=> ~\E i \in Vrid : flag[i]
    BY <1>7
  <2>7. k.todo = IF h.heard = {} THEN <<"mast">> ELSE Tail(h.todo)
    BY <1>7, <2>2, <2>3, <2>5, <2>6, Tails
  <2>8. h.todo # <<>> /\ Head(h.todo) = "sleep"
    BY <1>7, <2>2, Tails
  <2>9. Alike(h, k, {"todo"})
    BY <1>7, <1>14, <1>20, <2>2, <2>4 DEF Alike
  <2>10. Host!Outcome(k, Host!NoAdv) \in Host!Step(h)
    BY <1>1, <1>7, <2>7, <2>8, <2>9, HostDoes
  <2> QED BY <1>14, <1>15, <1>20, <2>10
<1>21. CASE op = "fork"
  <2>1. h.todo = k.todo
    BY <1>8, <1>21 DEF Host!Todo
  <2>2. h.armed <=> k.armed
    BY <1>6, <1>7, <1>9, <1>21
  <2>3. CASE h.had <=> k.had
    BY <1>16, <1>21, <2>1, <2>2, <2>3
  <2>4. CASE ~(h.had <=> k.had)
    <3>1. ~h.had /\ k.had
      BY <1>2, <1>7, <1>13, <1>21, <2>4
    <3>2. h.st = "MAST"
      BY <1>7, <1>9, <1>10, <1>21
    <3>3. Alike(h, k, {"had"})
      BY <1>14, <1>21, <2>1, <2>2 DEF Alike
    <3>4. Host!Outcome(k, Host!NoAdv) \in Host!Step(h)
      BY <1>1, <1>7, <3>1, <3>2, <3>3, HostAlarms
    <3> QED BY <1>14, <1>15, <1>21, <3>4
  <2> QED BY <2>3, <2>4
<1>22. CASE op = "requeue"
  <2>1. h.todo = k.todo /\ (Setting(g, m) <=> Setting(f, n))
    BY <1>8, <1>9, <1>22 DEF Host!Todo
  <2>2. CASE h.armed <=> k.armed
    BY <1>14, <1>16, <1>22, <2>1, <2>2
  <2>3. CASE ~(h.armed <=> k.armed)
    <3>1. h.st = "INIT" /\ ((h.armed /\ ~k.armed) \/ (~h.armed /\ k.armed))
      BY <1>6, <1>7, <1>22, <2>1, <2>3
    <3>2. Alike(h, k, {"armed"})
      BY <1>14, <1>22, <2>1 DEF Alike
    <3>3. CASE h.armed /\ ~k.armed
      <4>1. Host!Outcome(k, Host!NoAdv) \in Host!Step(h)
        BY <1>1, <1>7, <3>1, <3>2, <3>3, HostAlarms
      <4> QED BY <1>14, <1>15, <1>22, <4>1
    <3>4. CASE ~h.armed /\ k.armed
      <4>1. f = "modify" /\ n = 2
        <5>1. After(f, n, g, m) /\ Code[f][n] = "requeue"
          BY <1>3, <1>4, <1>22
        <5> QED BY <1>3, <5>1, MainPlaces
      <4>2. h.made
        BY <1>7, <4>1, MainEntry DEF Ready, Present, f
      <4>3. h.todo = <<>>
        BY <1>7, <4>1 DEF Rest
      <4>4. Host!Outcome(k, Host!NoAdv) \in Host!Command(h)
        BY <1>1, <1>7, <3>1, <3>2, <3>4, <4>2, <4>3, HostObeys DEF Obeys
      <4>5. wire' = wire
        BY <1>14, <1>22
      <4>6. HostStep(v, h, k)
        BY <4>4, <4>5, HostStepSilent
      <4> QED BY <4>6 DEF HostMoves, h, k
    <3> QED BY <3>1, <3>3, <3>4
  <2> QED BY <2>2, <2>3
<1>23. CASE op \notin {"mast", "back", "init", "stop", "kill", "unlink", "sleep", "fork", "requeue"}
  <2>1. h.todo = k.todo /\ (h.had <=> k.had)
    BY <1>8, <1>14, <1>23 DEF Host!Todo
  <2>2. h.armed <=> k.armed
    BY <1>6, <1>7, <1>9, <1>23
  <2> QED BY <1>16, <1>23, <2>1, <2>2
<1> QED BY <1>17, <1>18, <1>19, <1>20, <1>21, <1>22, <1>23

\* kill(0, SIGINT) ends the daemon itself.
LEMMA MainEndsHost ==
    ASSUME NEW v \in Vr, Ready(v), Data', MainStep, up' # up
    PROVE  HostMoves(v)
<1>1. \/ Op("main") = "kill" /\ pid[v] = 0
      \/ up' = "queue" /\ Op("main") # "kill"
  BY MainShows DEF Ready
<1>2. CASE up' = "queue" /\ Op("main") # "kill"
  <2>1. wire' = wire
    <3>1. Op("main") = "stop" \/ Op("main") = "send" => up' = up
      <4>1. \A op : MainStep /\ op \in {"stop", "send"} /\ Op("main") = op => DoSend("main")
        BY DEF MainStep, Step, DoLock, DoUnlock, DoState, SetState, DoFork, DoAlarm, DoSend,
           DoRmqueueStep, DoReadHead, DoJoin, DoEnqueueStep, QueueStep, DoRmqueue, DoEnqueue,
           MainEnqueue, DoRequeue, DoKill, DoSleep, DoUnlink, At, Op
      <4> QED BY <4>1 DEF DoSend
    <3> QED BY <3>1, MainShows DEF Shows
  <2> QED BY <1>2, <2>1, CrashIsCrash DEF Ready
<1>3. CASE Op("main") = "kill" /\ pid[v] = 0
  <2> DEFINE h == HostOf(v)
             f == prog["main"]
             n == at["main"]
  <2>1. Shown(v) /\ h \in Host!HostState /\ HostOf(v)' = Host!Down(VridOf[v]) /\ wire' = wire
    <3>1. wire' = wire
      BY <1>3, MainShows DEF Shows
    <3> QED BY <3>1, HostType, NextHostType DEF Ready
  <2>2. \E g1, m1 : After(f, n, g1, m1)
    <3>1. After(f, n, "idle", 1) \/ After(f, n, f, n + 1)
      BY DEF After
    <3> QED BY <3>1
  <2>3. h.todo # <<>> /\ Head(h.todo) = "kill"
    BY <1>3, <2>1, <2>2, MainEntry, RestPlaces DEF Op, Shown, Host!Todo
  <2>4. ~h.had /\ h.up /\ h.id = VridOf[v]
    BY <1>3, <2>1 DEF Shown
  <2>5. Host!Outcome(Host!Down(h.id), Host!NoAdv) \in Host!Step(h)
    BY <2>1, <2>3, <2>4, HostDoes
  <2>6. HostStep(v, h, HostOf(v)')
    BY <2>1, <2>4, <2>5, HostStepSilent
  <2> QED BY <2>6 DEF HostMoves
<1> QED BY <1>1, <1>2, <1>3

\* The host while the daemon is in poll() and after the handler of an input has begun.
LEMMA InputShown ==
    ASSUME NEW v \in Vr, Data, Data', Control, MainIdle, prog["alrm"] = "idle", armed' = armed,
           up' = "up"
    PROVE  /\ HostOf(v) \in Host!HostState /\ HostOf(v)' \in Host!HostState
           /\ Shown(v) /\ Shown(v)'
           /\ HostOf(v).up /\ HostOf(v).todo = <<>>
           /\ UNCHANGED threads => /\ HostOf(v)'.todo = <<>>
                                   /\ HostOf(v)'.armed <=> HostOf(v).armed
           /\ \A f \in Functions : Call(f, v) => /\ HostOf(v)'.todo = Rest(f, 1)
                                                 /\ HostOf(v)'.armed <=> HostOf(v).armed
<1>1. up = "up" /\ prog["main"] = "idle"
  BY DEF MainIdle, Runs
<1>2. /\ HostOf(v) \in Host!HostState /\ HostOf(v)' \in Host!HostState
      /\ Shown(v) /\ Shown(v)'
  BY <1>1, HostType, NextHostType
<1>3. \A n : Rest("idle", n) = <<>> /\ ~Setting("idle", n)
  BY DEF Rest, Setting
<1>4. HostOf(v).todo = <<>> /\ (HostOf(v).armed <=> armed) /\ HostOf(v).up
  BY <1>1, <1>2, <1>3 DEF Shown, ArmedSoon
<1>5. /\ HostOf(v)'.todo = Rest(prog'["main"], at'["main"])
      /\ HostOf(v)'.armed <=> ArmedSoon'
  BY <1>2 DEF Shown
<1>6. prog'["alrm"] = "idle" => (ArmedSoon' <=> armed \/ Setting(prog'["main"], at'["main"]))
  BY DEF ArmedSoon
<1>7. ASSUME UNCHANGED threads
      PROVE  HostOf(v)'.todo = <<>> /\ (HostOf(v)'.armed <=> HostOf(v).armed)
  <2>1. prog' = prog
    BY <1>7 DEF threads
  <2> QED BY <1>1, <1>3, <1>4, <1>5, <1>6, <2>1
<1>8. ASSUME NEW f \in Functions, Call(f, v)
      PROVE  HostOf(v)'.todo = Rest(f, 1) /\ (HostOf(v)'.armed <=> HostOf(v).armed)
  <2>1. prog'["main"] = f /\ at'["main"] = 1 /\ prog'["alrm"] = "idle"
    BY <1>8 DEF Call, Jump, Control, Places, Thread
  <2>2. ~Setting(f, 1)
    BY DEF Setting
  <2> QED BY <1>4, <1>5, <1>6, <2>1, <2>2
<1> QED BY <1>2, <1>4, <1>7, <1>8

\* Where the functions begin.
LEMMA RestStarts ==
    /\ Rest("i2m", 1) = <<"mast">> /\ Rest("b2m", 1) = <<"mast">>
    /\ Rest("i2b", 1) = <<"back", "sleep">> /\ Rest("m2i", 1) = <<"init", "stop", "kill">>
    /\ Rest("b2i", 1) = <<"init">> /\ Rest("m2b", 1) = <<"back", "stop", "kill", "sleep">>
    /\ Rest("kill_mast", 1) = <<"init", "stop", "kill", "unlink">>
    /\ Rest("kill_mast_wild", 1) = <<"unlink">>
    /\ Rest("kill_other", 1) = <<"stop", "kill", "unlink">>
    /\ Rest("kill_other_wild", 1) = <<"stop", "kill", "unlink">>
    /\ Rest("modify", 1) = <<>> /\ Rest("modify_wild", 1) = <<>> /\ Rest("adv_back", 1) = <<>>
BY DEF Rest

\* A command.
LEMMA CommandIsHost ==
    ASSUME NEW v \in Vr, Data, Data', Control, used \subseteq {v}, used' \subseteq {v},
           MainIdle => prog["alrm"] = "idle", Command
    PROVE  HostMoves(v)
<1> DEFINE h == HostOf(v)
           k == HostOf(v)'
<1>0. MainIdle /\ up = "up" /\ prog["alrm"] = "idle" /\ live \subseteq {v} /\ live' \subseteq {v}
  <2>1. MainIdle
    BY DEF Command, vrrp_create_inst, vrrp_startup_inst, vrrp_shutdown_inst, vrrp_destroy_inst,
       vrrp_set_inst_prop, destroy_missing
  <2> QED BY <2>1 DEF MainIdle, Runs, Data
<1>1. wire' = wire /\ (up' = "up" => armed' = armed)
  BY <1>0 DEF Command, vrrp_create_inst, vrrp_startup_inst, vrrp_shutdown_inst, vrrp_destroy_inst,
     vrrp_set_inst_prop, destroy_missing, Segv
<1>2. \/ \E p \in CreatePri, d \in ModDelay, m \in BOOLEAN : vrrp_create_inst(v, p, d, m)
      \/ vrrp_startup_inst(v)
      \/ vrrp_shutdown_inst(v)
      \/ \E wild \in BOOLEAN : vrrp_destroy_inst(v, wild)
      \/ \E wild \in BOOLEAN, p \in ModPri \cup {UNCHANGE}, d \in ModDelay \cup {UNCHANGE},
            m \in {UNCHANGE, 0, 1} : vrrp_set_inst_prop(v, wild, p, d, m)
      \/ destroy_missing
  <2>1. ASSUME NEW w \in Vr
        PROVE  /\ \A p, d, m : vrrp_create_inst(w, p, d, m) => w = v
               /\ vrrp_startup_inst(w) => w = v
               /\ vrrp_shutdown_inst(w) => w = v
               /\ \A wild : vrrp_destroy_inst(w, wild) => w = v
               /\ \A wild, p, d, m : vrrp_set_inst_prop(w, wild, p, d, m) => w = v
    BY <1>0 DEF vrrp_create_inst, vrrp_startup_inst, vrrp_shutdown_inst, vrrp_destroy_inst,
       vrrp_set_inst_prop, FoundById, FoundByWildcard
  <2> QED BY <2>1 DEF Command
<1>3. up' = "up" =>
        /\ h \in Host!HostState /\ k \in Host!HostState /\ Shown(v) /\ Shown(v)'
        /\ h.up /\ h.todo = <<>>
        /\ UNCHANGED threads => k.todo = <<>> /\ (k.armed <=> h.armed)
        /\ \A f \in Functions : Call(f, v) => k.todo = Rest(f, 1) /\ (k.armed <=> h.armed)
  BY <1>0, <1>1, InputShown
<1>4. Obeys(h, k) => HostMoves(v)
  <2>1. Obeys(h, k) => Host!Outcome(k, Host!NoAdv) \in Host!Command(h) \cup Received(h) \cup Host!Step(h)
    BY DEF Obeys
  <2> QED BY <1>1, <2>1, HostStepSilent, Zenon DEF HostMoves
<1>5. Shown(v) => /\ h.id = VridOf[v] /\ (h.open <=> v \in used) /\ (h.made <=> v \in live)
                  /\ h.st = state[v] /\ h.pri = pri[v] /\ h.heard = {i \in Vrid : flag[i]}
                  /\ h.had <=> pid[v] # 0
  BY DEF Shown
<1>6. Shown(v)' => /\ k.id = VridOf[v] /\ k.up /\ (k.open <=> v \in used') /\ (k.made <=> v \in live')
                   /\ k.st = state'[v] /\ k.pri = pri'[v] /\ k.heard = {i \in Vrid : flag'[i]}
                   /\ k.had <=> pid'[v] # 0
  BY DEF Shown
<1> HIDE DEF h, k
<1>7. CASE \E p \in CreatePri, d \in ModDelay, m \in BOOLEAN : vrrp_create_inst(v, p, d, m)
  <2>1. PICK p \in CreatePri, d \in ModDelay, m \in BOOLEAN : vrrp_create_inst(v, p, d, m)
    BY <1>7
  <2>2. /\ up' = "up" /\ state' = state /\ pid' = pid /\ flag' = flag
        /\ pri'[v] = p /\ v \in live' /\ v \in used' /\ v \notin used
    BY <1>0, <2>1 DEF vrrp_create_inst, procs, Data
  <2>3. k.todo = (IF p = OWNER THEN <<"mast">> ELSE <<>>) /\ (k.armed <=> h.armed)
    BY <1>3, <2>1, <2>2, RestStarts, FunctionNames DEF vrrp_create_inst
  <2>4. k.pri = p /\ ~h.open /\ k.open /\ k.made
    BY <1>3, <1>5, <1>6, <2>2
  <2>5. Alike(h, k, {"open", "made", "pri", "todo"})
    BY <1>3, <1>5, <1>6, <2>2, <2>3 DEF Alike
  <2>6. Obeys(h, k)
    BY <1>3, <2>2, <2>3, <2>4, <2>5, HostObeys
  <2> QED BY <1>4, <2>6
<1>8. CASE vrrp_startup_inst(v) \/ vrrp_shutdown_inst(v)
           \/ \E wild \in BOOLEAN : vrrp_destroy_inst(v, wild)
  <2>1. /\ up' = "up" /\ UNCHANGED <<list, attrs, state, procs, flag>>
        /\ v \in live
    BY <1>0, <1>8 DEF vrrp_startup_inst, vrrp_shutdown_inst, vrrp_destroy_inst, FoundById,
       FoundByWildcard
  <2>2. PICK f \in Functions : Call(f, v) /\
           \/ state[v] = "INIT" /\ f = "i2b"
           \/ state[v] = "MAST" /\ f = "m2i"
           \/ state[v] = "BACK" /\ f = "b2i"
           \/ state[v] = "MAST" /\ f \in {"kill_mast", "kill_mast_wild"}
           \/ state[v] # "MAST" /\ f \in {"kill_other", "kill_other_wild"}
    BY <1>8, FunctionNames DEF vrrp_startup_inst, vrrp_shutdown_inst, vrrp_destroy_inst
  <2>3. k.todo = Rest(f, 1) /\ (k.armed <=> h.armed)
    BY <1>3, <2>1, <2>2
  <2>4. h.made /\ h.st = state[v]
    BY <1>3, <1>5, <2>1
  <2>5. Alike(h, k, {"todo"})
    BY <1>3, <1>5, <1>6, <2>1, <2>3 DEF Alike, list, attrs, procs
  <2>6. Obeys(h, k)
    <3>1. /\ k.todo = Rest(f, 1) /\ h \in Host!HostState /\ k \in Host!HostState /\ h.up /\ h.todo = <<>>
      BY <1>3, <2>1, <2>3
    <3>2. CASE state[v] = "INIT" /\ f = "i2b"
      BY <2>4, <2>5, <3>1, <3>2, RestStarts, HostObeys
    <3>3. CASE (state[v] = "MAST" /\ f = "m2i") \/ (state[v] = "BACK" /\ f = "b2i")
      BY <2>4, <2>5, <3>1, <3>3, RestStarts, HostObeys
    <3>4. CASE state[v] = "MAST" /\ f \in {"kill_mast", "kill_mast_wild"}
      BY <2>4, <2>5, <3>1, <3>4, RestStarts, HostObeys
    <3>5. CASE state[v] # "MAST" /\ f \in {"kill_other", "kill_other_wild"}
      BY <2>4, <2>5, <3>1, <3>5, RestStarts, HostObeys
    <3> QED BY <2>2, <3>2, <3>3, <3>4, <3>5
  <2> QED BY <1>4, <2>6
<1>9. CASE \E wild \in BOOLEAN, p \in ModPri \cup {UNCHANGE}, d \in ModDelay \cup {UNCHANGE},
              m \in {UNCHANGE, 0, 1} : vrrp_set_inst_prop(v, wild, p, d, m)
  <2>1. PICK wild \in BOOLEAN, p \in ModPri \cup {UNCHANGE}, d \in ModDelay \cup {UNCHANGE},
             m \in {UNCHANGE, 0, 1} : vrrp_set_inst_prop(v, wild, p, d, m)
    BY <1>9
  <2>2. /\ up' = "up" /\ UNCHANGED <<list, state, procs, flag>>
        /\ v \in live /\ pri'[v] = priority(pri[v], p)
    BY <1>0, <2>1 DEF vrrp_set_inst_prop, FoundById, FoundByWildcard, Data
  <2>3. k.todo = <<>> /\ (k.armed <=> h.armed)
    BY <1>3, <2>1, <2>2, RestStarts, FunctionNames DEF vrrp_set_inst_prop
  <2>4. h.made /\ h.pri = pri[v] /\ k.pri = priority(pri[v], p)
    BY <1>3, <1>5, <1>6, <2>2
  <2>5. Alike(h, k, {"pri"})
    BY <1>3, <1>5, <1>6, <2>2, <2>3 DEF Alike, list, procs
  <2>6. CASE p = UNCHANGE
    <3>1. h.pri = k.pri
      BY <2>4, <2>6 DEF priority
    <3>2. h = k
      BY <1>3, <2>2, <2>5, <3>1, SameHost DEF Alike
    <3> QED BY <1>1, <3>2 DEF HostMoves, h, k
  <2>7. CASE p # UNCHANGE
    <3>1. p \in ModPri /\ k.pri = p % 256
      BY <2>4, <2>7 DEF priority
    <3>2. Obeys(h, k)
      BY <1>3, <2>2, <2>4, <2>5, <3>1, HostObeys
    <3> QED BY <1>4, <3>2
  <2> QED BY <2>6, <2>7
<1>10. CASE destroy_missing
  <2>1. up' = "destroy"
    BY <1>10 DEF destroy_missing, Segv
  <2>2. h \in Host!HostState /\ Shown(v) /\ k = Host!Down(VridOf[v])
    BY <1>0, <2>1, HostType, NextHostType DEF h, k
  <2>3. h.up /\ h.todo = <<>> /\ h.id = VridOf[v]
    BY <1>0, <2>2 DEF Shown, Rest, MainIdle, h
  <2>4. Obeys(h, k)
    BY <2>2, <2>3, HostObeys
  <2> QED BY <1>4, <2>4
<1> QED BY <1>2, <1>7, <1>8, <1>9, <1>10

\* An advertisement from another daemon.
LEMMA AdvertIsHost ==
    ASSUME NEW v \in Vr, Data, Data', Control, used \subseteq {v},
           MainIdle => prog["alrm"] = "idle", Advert
    PROVE  HostMoves(v)
<1> DEFINE h == HostOf(v)
           k == HostOf(v)'
<1>0. MainIdle /\ up = "up" /\ prog["alrm"] = "idle" /\ live \subseteq {v}
  <2>1. MainIdle
    BY DEF Advert, receive_stop, receive_stop_no_instance, receive_adv
  <2> QED BY <2>1 DEF MainIdle, Runs, Data
<1>1. wire' = wire /\ (up' = "up" => armed' = armed)
  BY <1>0 DEF Advert, receive_stop, receive_stop_no_instance, receive_adv, Segv
<1>2. PICK i \in Vrid : \/ receive_stop(i)
                        \/ receive_stop_no_instance(i)
                        \/ \E p \in AdvPri : receive_adv(i, p)
  BY DEF Advert
<1>3. up' = "up" =>
        /\ h \in Host!HostState /\ k \in Host!HostState /\ Shown(v) /\ Shown(v)'
        /\ h.up /\ h.todo = <<>>
        /\ UNCHANGED threads => k.todo = <<>> /\ (k.armed <=> h.armed)
        /\ \A f \in Functions : Call(f, v) => k.todo = Rest(f, 1) /\ (k.armed <=> h.armed)
  BY <1>0, <1>1, InputShown
<1>4. Host!Outcome(k, Host!NoAdv) \in Received(h) => HostMoves(v)
  <2>1. Host!Outcome(k, Host!NoAdv) \in Received(h)
          => Host!Outcome(k, Host!NoAdv) \in Host!Command(h) \cup Received(h) \cup Host!Step(h)
    OBVIOUS
  <2> QED BY <1>1, <2>1, HostStepSilent, Zenon DEF HostMoves
<1>5. Shown(v) => /\ h.id = VridOf[v] /\ (h.open <=> v \in used) /\ (h.made <=> v \in live)
                  /\ h.st = state[v] /\ h.pri = pri[v] /\ h.heard = {j \in Vrid : flag[j]}
                  /\ h.had <=> pid[v] # 0
  BY DEF Shown
<1>6. Shown(v)' => /\ k.id = VridOf[v] /\ k.up /\ (k.open <=> v \in used') /\ (k.made <=> v \in live')
                   /\ k.st = state'[v] /\ k.pri = pri'[v] /\ k.heard = {j \in Vrid : flag'[j]}
                   /\ k.had <=> pid'[v] # 0
  BY DEF Shown
<1> HIDE DEF h, k
<1>7. CASE receive_stop_no_instance(i)
  <2>1. up' = "first" /\ live = {}
    BY <1>7 DEF receive_stop_no_instance, Segv
  <2>2. h \in Host!HostState /\ Shown(v) /\ k = Host!Down(VridOf[v])
    BY <1>0, <2>1, HostType, NextHostType DEF h, k
  <2>3. h.up /\ h.todo = <<>> /\ h.id = VridOf[v] /\ ~h.made
    BY <1>0, <2>1, <2>2 DEF Shown, Rest, MainIdle, h
  <2>4. Host!Outcome(k, Host!NoAdv) \in Received(h)
    BY <2>2, <2>3, HostHears
  <2> QED BY <1>4, <2>4
<1>8. CASE receive_stop(i)
  <2>1. /\ up' = "up" /\ UNCHANGED <<list, attrs, state, procs>> /\ live = {v}
        /\ flag' = [flag EXCEPT ![i] = FALSE]
        /\ IF state[v] = "BACK" THEN Call("b2m", v) ELSE UNCHANGED threads
    BY <1>0, <1>8 DEF receive_stop
  <2>2. /\ k.todo = (IF state[v] = "BACK" THEN <<"mast">> ELSE <<>>)
        /\ k.armed <=> h.armed
    BY <1>3, <2>1, RestStarts, FunctionNames
  <2>3. {j \in Vrid : flag'[j]} = {j \in Vrid : flag[j]} \ {i}
    BY <2>1 DEF Data
  <2>4. h.made /\ h.st = state[v] /\ k.heard = h.heard \ {i}
    BY <1>3, <1>5, <1>6, <2>1, <2>3
  <2>5. Alike(h, k, {"heard", "todo"})
    BY <1>3, <1>5, <1>6, <2>1, <2>2 DEF Alike, list, attrs, procs
  <2>6. k.todo = IF h.st = "BACK" THEN <<"mast">> ELSE <<>>
    BY <2>2, <2>4
  <2>7. Host!Outcome(k, Host!NoAdv) \in Received(h)
    BY <1>3, <2>1, <2>4, <2>5, <2>6, HostHears
  <2> QED BY <1>4, <2>7
<1>9. CASE \E p \in AdvPri : receive_adv(i, p)
  <2>1. PICK p \in AdvPri : receive_adv(i, p)
    BY <1>9
  <2>2. /\ up' = "up" /\ UNCHANGED <<list, attrs, state, procs>>
        /\ flag' = [flag EXCEPT ![i] = TRUE]
    BY <1>0, <2>1 DEF receive_adv
  <2>3. /\ k.todo = (IF v \in live /\ i = VridOf[v] /\ state[v] = "MAST" /\ p > pri[v]
                     THEN <<"back", "stop", "kill", "sleep">> ELSE <<>>)
        /\ k.armed <=> h.armed
    <3>1. IF v \in live /\ VridOf[v] = i
          THEN CASE state[v] = "BACK" /\ (~pree[v] \/ p >= pri[v]) -> Call("adv_back", v)
                 [] state[v] = "MAST" /\ p > pri[v] -> Call("m2b", v)
                 [] OTHER -> UNCHANGED threads
          ELSE UNCHANGED threads
      BY <1>0, <2>1 DEF receive_adv, yields
    <3>2. {"adv_back", "m2b"} \subseteq Functions
      BY FunctionNames
    <3>3. CASE v \in live /\ VridOf[v] = i /\ state[v] = "BACK" /\ (~pree[v] \/ p >= pri[v])
      <4>1. Call("adv_back", v)
        BY <3>1, <3>3
      <4> QED BY <1>3, <2>2, <3>2, <3>3, <4>1, RestStarts
    <3>4. CASE v \in live /\ VridOf[v] = i /\ state[v] = "MAST" /\ p > pri[v]
      <4>1. Call("m2b", v)
        BY <3>1, <3>4
      <4> QED BY <1>3, <2>2, <3>2, <3>4, <4>1, RestStarts
    <3>5. CASE ~(v \in live /\ VridOf[v] = i /\ state[v] = "BACK" /\ (~pree[v] \/ p >= pri[v]))
               /\ ~(v \in live /\ VridOf[v] = i /\ state[v] = "MAST" /\ p > pri[v])
      <4>1. UNCHANGED threads
        BY <3>1, <3>5
      <4> QED BY <1>3, <2>2, <3>5, <4>1
    <3> QED BY <3>3, <3>4, <3>5
  <2>4. {j \in Vrid : flag'[j]} = {j \in Vrid : flag[j]} \cup {i}
    BY <2>2 DEF Data
  <2>5. /\ h.made <=> v \in live
        /\ h.st = state[v] /\ h.pri = pri[v] /\ h.id = VridOf[v] /\ k.heard = h.heard \cup {i}
    BY <1>3, <1>5, <1>6, <2>2, <2>4
  <2>6. Alike(h, k, {"heard", "todo"})
    BY <1>3, <1>5, <1>6, <2>2, <2>3 DEF Alike, list, attrs, procs
  <2>7. k.todo = IF h.made /\ i = h.id /\ h.st = "MAST" /\ p > h.pri
                 THEN <<"back", "stop", "kill", "sleep">> ELSE <<>>
    BY <2>3, <2>5
  <2>8. Host!Outcome(k, Host!NoAdv) \in Received(h)
    BY <1>3, <2>2, <2>5, <2>6, <2>7, HostHears
  <2> QED BY <1>4, <2>8
<1> QED BY <1>2, <1>7, <1>8, <1>9

\* The signal handler takes its next instruction.
LEMMA HandlerIsHost ==
    ASSUME NEW v \in Vr, Ready(v), AlarmOk(v), Data', HandlerStep, up' = up
    PROVE  HostMoves(v)
<1> DEFINE h == HostOf(v)
           k == HostOf(v)'
           f == prog["alrm"]
           n == at["alrm"]
           g == prog'["alrm"]
           m == at'["alrm"]
           op == Op("alrm")
           mf == prog["main"]
           mn == at["main"]
           Called(x) == x \in {"expire", "x_loop", "x_entry", "x_mast", "x_back"}
<1>1. \/ f = "expire" /\ n = 1 /\ g = "expire" /\ op = "lock"
      \/ f = "expire" /\ n = 2 /\ q.head = v /\ g = "x_entry" /\ m = 1
      \/ f = "expire" /\ n = 2 /\ q.head = NULL /\ g = "x_done"
      \/ f = "x_entry" /\ n <= 5 /\ g = "x_entry"
      \/ f = "x_entry" /\ n = 6 /\ state[v] # "MAST" /\ g = "x_entry"
      \/ f = "x_entry" /\ n = 6 /\ state[v] = "MAST" /\ g = "x_mast" /\ m = 1
      \/ f = "x_entry" /\ n = 7 /\ state[v] = "BACK" /\ g = "x_back" /\ m = 1
      \/ f = "x_entry" /\ n = 7 /\ state[v] = "INIT" /\ g = "x_none"
      \/ f = "x_mast" /\ n <= 7 /\ g = "x_mast" /\ m = n + 1
      \/ f = "x_back" /\ n <= 18 /\ g = "x_back" /\ m = n + 1
      \/ f = "x_mast" /\ n = 8 /\ g = "x_done" /\ op = "again"
      \/ f = "x_back" /\ n = 19 /\ g = "x_done" /\ op = "again"
      \/ f = "x_none" /\ g = "x_done" /\ op = "again"
      \/ f = "x_done" /\ g = "idle" /\ op = "unlock"
  BY HandlerGoes
<1>2. /\ Shows("alrm", v) /\ op \notin {"stop", "back", "init", "unlink"}
      /\ prog'["main"] = mf /\ at'["main"] = mn
      /\ op \in {"alarm", "alarmnext"} => armed' = TRUE
      /\ op \notin {"alarm", "alarmnext"} => armed' = armed
  BY HandlerShows
<1>3. f # "idle" /\ n \in Nat
  <2>1. prog["alrm"] # "idle"
    BY StepsWorkSomewhere, CodeOrder DEF Ready, Control, Places, Thread, Op
  <2> QED BY <2>1, HandlerFacts
<1>4. /\ (f = "x_mast" => state[v] = "MAST")
      /\ f = "x_back" => state[v] = IF n <= 10 THEN "BACK" ELSE "MAST"
      /\ Spent(f, n) => ~armed
      /\ Rearmed(f, n) => armed
      /\ (q.head = NULL /\ f = "expire") => Dormant(v)
      /\ Setting(mf, mn) => state[v] = "MAST"
  BY DEF Ready, SoloOk, HandlerOk, AlarmOk, SpentOk, RearmedOk, EmptyOk, SettingOk
<1>5. /\ op = "alarm" => f = "x_back" /\ n = 12
      /\ op = "alarmnext" => (f = "x_mast" /\ n = 7) \/ (f = "x_back" /\ n = 18)
      /\ op = "mast" => f = "x_back" /\ n = 10
      /\ op = "fork" => f = "x_back" /\ n = 11
      /\ op = "send" => f = "x_mast" /\ n = 1
  <2>1. f \in HandlerCode /\ f # "x_loop" /\ n \in 1 .. Len(Code[f])
    BY <1>3, HandlerFacts
  <2> QED BY <2>1, HandlerPlaces DEF Op
<1>6. /\ h \in Host!HostState /\ k \in Host!HostState
      /\ Shown(v) /\ Shown(v)'
  BY HostType, NextHostType DEF Ready
<1>7. /\ ArmedSoon <=> armed \/ Called(f) \/ Setting(mf, mn)
      /\ ArmedSoon' <=> armed' \/ Called(g) \/ Setting(mf, mn)
  BY <1>2 DEF ArmedSoon
<1>8. /\ h.id = VridOf[v] /\ k.id = VridOf[v] /\ h.up /\ k.up
      /\ h.open <=> v \in used
      /\ k.open <=> v \in used'
      /\ h.made <=> v \in live
      /\ k.made <=> v \in live'
      /\ h.st = state[v] /\ k.st = state'[v] /\ h.pri = pri[v] /\ k.pri = pri'[v]
      /\ h.heard = {i \in Vrid : flag[i]} /\ k.heard = {i \in Vrid : flag'[i]}
      /\ h.armed <=> armed \/ Called(f) \/ Setting(mf, mn)
      /\ k.armed <=> armed' \/ Called(g) \/ Setting(mf, mn)
      /\ h.had <=> pid[v] # 0
      /\ k.had <=> pid'[v] # 0
      /\ h.todo = Rest(mf, mn) /\ k.todo = Rest(mf, mn)
  BY <1>2, <1>6, <1>7 DEF Shown
<1>9. /\ pri' = pri /\ flag' = flag /\ used' = used /\ live' = live
      /\ op # "mast" => state' = state
      /\ op = "mast" => state'[v] = "MAST"
      /\ op # "fork" => pid' = pid
      /\ op = "fork" => pid'[v] = pid[v] \/ pid'[v] # 0
      /\ op # "send" => wire' = wire
      /\ op = "send" => wire' = [wire EXCEPT ![VridOf[v]] = pri[v]]
  BY <1>2 DEF Shows
<1>10. q.head = NULL /\ f = "expire" /\ n = 2 =>
          state[v] = "INIT" \/ (Rest(mf, mn) # <<>> /\ Head(Rest(mf, mn)) \in {"mast", "init"})
  <2> SUFFICES ASSUME q.head = NULL, f = "expire", n = 2, state[v] # "INIT"
               PROVE  Rest(mf, mn) # <<>> /\ Head(Rest(mf, mn)) \in {"mast", "init"}
    OBVIOUS
  <2>1. Emptied(mf, mn)
    BY <1>4 DEF Dormant
  <2>2. ~Held(mf, mn)
    <3>1. Held("expire", 2)
      <4>1. Code["expire"][1] = "lock"
        BY DEF Code
      <4> QED BY <4>1 DEF Held
    <3>2. lock = "alrm" /\ "main" \in Thread /\ "alrm" \in Thread
      BY <3>1 DEF Ready, Locking, Thread
    <3> QED BY <3>2 DEF Ready, Locking
  <2>3. /\ Held("m2b", 3) /\ Held("adv_back", 3)
    <3>1. /\ Code["m2b"][1] = "lock" /\ Code["m2b"][2] = "rmqueue"
          /\ Code["adv_back"][1] = "lock" /\ Code["adv_back"][2] = "rmqueue"
      BY DEF Code
    <3> QED BY <3>1 DEF Held
  <2>4. \/ mf \in {"m2i", "b2i", "kill_mast"} /\ mn \in {3, 4}
        \/ mf = "b2m" /\ mn \in 2 .. 6
    BY <2>1, <2>2, <2>3 DEF Emptied, Out
  <2> HIDE DEF mf, mn
  <2>5. Rest(mf, mn) \in {<<"init", "stop", "kill">>, <<"init">>,
                          <<"init", "stop", "kill", "unlink">>, <<"mast">>}
    BY <2>4 DEF Rest
  <2> QED BY <2>5, Tails
<1> HIDE DEF h, k, f, n, g, m, op, mf, mn
<1>11. /\ Alike(h, k, {"st", "armed", "had"})
       /\ op # "mast" => h.st = k.st
       /\ op # "fork" => (h.had <=> k.had)
  BY <1>8, <1>9 DEF Alike
<1>12. /\ (k = h /\ wire' = wire) => HostMoves(v)
       /\ (Host!Outcome(k, Host!NoAdv) \in Host!Step(h) /\ wire' = wire) => HostMoves(v)
  <2>1. Host!Outcome(k, Host!NoAdv) \in Host!Step(h)
          => Host!Outcome(k, Host!NoAdv) \in Host!Command(h) \cup Received(h) \cup Host!Step(h)
    OBVIOUS
  <2> QED BY <2>1, HostStepSilent, Zenon DEF HostMoves, h, k
<1>13. CASE op = "mast"
  <2>1. h.armed /\ k.armed /\ h.st = "BACK" /\ k.st = "MAST" /\ wire' = wire
    BY <1>1, <1>4, <1>5, <1>8, <1>9, <1>13
  <2>2. Alike(h, k, {"st"})
    BY <1>11, <1>13, <2>1 DEF Alike
  <2>3. Host!Outcome(k, Host!NoAdv) \in Host!Step(h)
    BY <1>6, <1>8, <2>1, <2>2, HostAlarms
  <2> QED BY <1>12, <2>1, <2>3
<1>14. CASE op = "fork"
  <2>1. h.armed /\ k.armed /\ h.st = "MAST" /\ wire' = wire
    BY <1>1, <1>3, <1>4, <1>5, <1>8, <1>9, <1>14
  <2>2. CASE h.had <=> k.had
    <3>1. h = k
      BY <1>6, <1>11, <1>14, <2>1, <2>2, SameHost DEF Alike
    <3> QED BY <1>12, <2>1, <3>1
  <2>3. CASE ~(h.had <=> k.had)
    <3>1. ~h.had /\ k.had
      BY <1>8, <1>9, <1>14, <2>3
    <3>2. Alike(h, k, {"had"})
      BY <1>11, <1>14, <2>1 DEF Alike
    <3>3. Host!Outcome(k, Host!NoAdv) \in Host!Step(h)
      BY <1>6, <1>8, <2>1, <3>1, <3>2, HostAlarms
    <3> QED BY <1>12, <2>1, <3>3
  <2> QED BY <2>2, <2>3
<1>15. CASE op = "send"
  <2>1. h.armed /\ k.armed /\ h.st = "MAST"
    BY <1>1, <1>4, <1>5, <1>8, <1>15
  <2>2. h = k
    BY <1>6, <1>11, <1>15, <2>1, SameHost DEF Alike
  <2>3. Host!Outcome(k, h.pri) \in Host!Step(h)
    BY <1>6, <1>8, <2>1, <2>2, HostAlarms
  <2>4. wire' = [wire EXCEPT ![VridOf[v]] = h.pri] /\ h.pri # Host!NoAdv
    <3>1. h.pri = pri[v] /\ pri[v] \in 0 .. 255
      BY <1>8 DEF Ready, Data
    <3> QED BY <1>9, <1>15, <3>1 DEF Host!NoAdv
  <2>5. HostStep(v, h, k)
    BY <2>3, <2>4, HostStepIs
  <2> QED BY <2>5 DEF HostMoves, h, k
<1>16. CASE op \notin {"mast", "fork", "send"}
  <2>1. Alike(h, k, {"armed"}) /\ wire' = wire
    BY <1>9, <1>11, <1>16 DEF Alike
  <2>2. CASE h.armed <=> k.armed
    <3>1. h = k
      BY <1>6, <2>1, <2>2, SameHost DEF Alike
    <3> QED BY <1>12, <2>1, <3>1
  <2>3. CASE ~(h.armed <=> k.armed)
    <3>1. armed => armed'
      BY <1>2
    <3>2. Called(f) /\ ~Called(g) /\ ~armed' /\ ~Setting(mf, mn)
      <4>1. Called(g) => Called(f)
        BY <1>1
      <4>2. ~Called(f) => op \notin {"alarm", "alarmnext"}
        BY <1>5
      <4>3. ~Called(f) => armed' = armed
        BY <1>2, <4>2
      <4>4. Called(f)
        BY <1>8, <2>3, <4>1, <4>3
      <4> QED BY <1>8, <2>3, <4>4
    <3>3. \/ f = "expire" /\ n = 2 /\ q.head = NULL
          \/ f = "x_entry" /\ n = 7 /\ state[v] = "INIT"
      <4>1. Rearmed(f, n) => armed'
        BY <1>4, <3>1
      <4>2. (f = "x_mast" /\ n = 8) \/ (f = "x_back" /\ n = 19) => Rearmed(f, n)
        BY DEF Rearmed
      <4> QED BY <1>1, <3>2, <4>1, <4>2
    <3>4. h.armed /\ ~k.armed
      BY <1>8, <3>2
    <3>5. h.st = "INIT" \/ (h.todo # <<>> /\ Head(h.todo) \in {"mast", "init"})
      BY <1>8, <1>10, <3>3
    <3>6. Host!Outcome(k, Host!NoAdv) \in Host!Step(h)
      BY <1>6, <1>8, <2>1, <3>4, <3>5, HostAlarms
    <3> QED BY <1>12, <2>1, <3>6
  <2> QED BY <2>2, <2>3
<1> QED BY <1>13, <1>14, <1>15, <1>16

\* An alarm that the handler takes up still counts as pending.
LEMMA DeliverIsHost ==
    ASSUME NEW v \in Vr, Ready(v), Data', NEW thr, Deliver(thr)
    PROVE  HostMoves(v)
<1>1. /\ up' = "up" /\ wire' = wire /\ armed
      /\ prog'["alrm"] = "expire" /\ prog'["main"] = prog["main"] /\ at'["main"] = at["main"]
      /\ UNCHANGED <<list, attrs, state, procs, flag>>
  BY DEF Deliver, Ready, Control, Places, Thread
<1>2. /\ HostOf(v) \in Host!HostState /\ HostOf(v)' \in Host!HostState
      /\ Shown(v) /\ Shown(v)'
  BY <1>1, HostType, NextHostType DEF Ready
<1>3. ArmedSoon /\ ArmedSoon'
  BY <1>1 DEF ArmedSoon
<1>4. HostOf(v) = HostOf(v)'
  <2> DEFINE h == HostOf(v)
             k == HostOf(v)'
  <2>1. /\ h.id = k.id /\ h.up /\ k.up /\ (h.open <=> k.open) /\ (h.made <=> k.made)
        /\ h.st = k.st /\ h.pri = k.pri /\ h.heard = k.heard /\ (h.armed <=> k.armed)
        /\ (h.had <=> k.had) /\ h.todo = k.todo
    BY <1>1, <1>2, <1>3 DEF Shown, list, attrs, procs
  <2> HIDE DEF h, k
  <2>2. h = k
    BY <1>2, <2>1, SameHost DEF h, k
  <2> QED BY <2>2 DEF h, k
<1> QED BY <1>1, <1>4 DEF HostMoves

LEMMA StepIsHost ==
    ASSUME Data, Control, Locking, Tested, SoloInv, AlarmInv, Present, Data', [Next]_vars,
           0 \notin ModDelay, NEW v \in Vr, used' \subseteq {v}
    PROVE  HostMoves(v)
<1>1. CASE up # "up"
  BY <1>1, DeadIsStill
<1>2. CASE up = "up" /\ UNCHANGED vars
  <2>1. HostOf(v)' = HostOf(v)
    <3>1. /\ live' = live /\ used' = used /\ pri' = pri /\ state' = state /\ pid' = pid /\ flag' = flag
          /\ armed' = armed /\ prog' = prog /\ at' = at /\ up' = up
      BY <1>2 DEF vars, list, attrs, procs, threads
    <3> QED BY <3>1 DEF HostOf, ArmedSoon
  <2> QED BY <1>2, <2>1 DEF HostMoves, vars
<1>3. CASE up = "up" /\ Next
  <2>1. used \subseteq {v}
    BY UsedOnlyGrows
  <2>2. MainIdle => prog["alrm"] = "idle"
    BY MainAlone DEF MainIdle
  <2>3. CASE Command
    BY <2>1, <2>2, <2>3, CommandIsHost
  <2>4. CASE Advert
    BY <2>1, <2>2, <2>4, AdvertIsHost
  <2>5. CASE used = {} /\ ~Command /\ ~Advert
    <3>1. Fresh
      BY <1>3, <2>5 DEF SoloInv
    <3>2. ~MainStep /\ ~HandlerStep
      BY <3>1, StepsWorkSomewhere, CodeOrder DEF Fresh, Control, Places, Thread, Op
    <3>3. \A thr : ~Deliver(thr)
      BY <3>1 DEF Deliver, Fresh
    <3> QED BY <1>3, <2>5, <3>2, <3>3 DEF Next
  <2>6. CASE used = {v} /\ ~Command /\ ~Advert
    <3>1. Ready(v) /\ AlarmOk(v)
      BY <1>3, <2>6 DEF SoloInv, AlarmInv, Ready
    <3>2. CASE MainStep
      BY <3>1, <3>2, MainIsHost, MainEndsHost
    <3>3. CASE HandlerStep /\ up' = up
      BY <3>1, <3>3, HandlerIsHost
    <3>4. CASE HandlerStep /\ up' # up
      <4>1. up' = "queue" /\ Shows("alrm", v)
        BY <3>1, <3>4, HandlerShows
      <4>2. Op("alrm") # "send"
        <5>1. HandlerStep /\ Op("alrm") = "send" => DoSend("alrm")
          BY DEF HandlerStep, Step, DoLock, DoUnlock, DoState, SetState, DoFork, DoAlarm, DoSend,
             DoRmqueueStep, DoReadHead, DoJoin, DoEnqueueStep, QueueStep, DoDequeue, DoMore,
             DoTest, DoAgain, At, Op
        <5> QED BY <3>4, <5>1 DEF DoSend
      <4>3. wire' = wire
        BY <3>1, <3>4, <4>1, <4>2, HandlerShows DEF Shows
      <4> QED BY <1>3, <4>1, <4>3, CrashIsCrash
    <3>5. CASE \E thr \in HandlerThreads : Deliver(thr)
      BY <3>1, <3>5, DeliverIsHost
    <3> QED BY <1>3, <2>6, <3>2, <3>3, <3>4, <3>5 DEF Next
  <2> QED BY <2>1, <2>3, <2>4, <2>5, <2>6
<1> QED BY <1>1, <1>2, <1>3

\* What the daemon shows to the LAN is a host of VrrpHost, whatever command, advertisement or
\* alarm meets another on the main thread: with one VR and no interval of 0, each of its
\* instructions is an operation of the host or nothing that the LAN can see.
THEOREM DaemonImplementsHost == HandlerThreads \subseteq {"main"} => (Spec => ImplementsHost)
<1> SUFFICES ASSUME HandlerThreads \subseteq {"main"} PROVE Spec => ImplementsHost
  OBVIOUS
<1> DEFINE Moves == [\A v \in Vr : (used' \subseteq {v} /\ 0 \notin ModDelay) =>
                        \/ HostStep(v, HostOf(v), HostOf(v)')
                        \/ HostOf(v)' = HostOf(v) /\ wire' = wire]_vars
<1>1. Spec => [](Data /\ Control)
  BY TypesHold
<1>2. Spec => []Locking /\ []Tested
  BY MutexHolds, TestedHolds
<1>3. Spec => []SoloInv
  BY SoloAlwaysHolds
<1>4. Spec => []AlarmInv
  BY AlarmHolds
<1>5. Data /\ Control /\ Locking /\ Tested /\ SoloInv /\ AlarmInv /\ Present /\ Data' /\ [Next]_vars
         => Moves
  BY StepIsHost DEF HostMoves
<1> QED BY <1>1, <1>2, <1>3, <1>4, <1>5, PresentHolds, PTL DEF Spec, ImplementsHost
=============================================================================
