----------------------------- MODULE DaemonHost -----------------------------
(***************************************************************************)
(* VrrpDaemon implements VrrpHost: what the daemon of VrrpDaemon, queue,   *)
(* mutex and interrupted instructions included, shows to the LAN is what a *)
(* host of VrrpHost may show.                                              *)
(***************************************************************************)
EXTENDS VrrpDaemon

Host == INSTANCE VrrpHost WITH Id <- Vrid

\* What the main thread has still to do for the LAN to see at place n of function f:
\* the operations of Host!Todo in the rest of Code[f].
Rest(f, n) ==
    CASE f = "i2m" /\ n <= 4 -> <<"mast">>
      [] f = "i2b" /\ n <= 4 -> <<"back", "sleep">>
      [] f = "i2b" /\ n = 5 -> <<"sleep">>
      [] f = "m2i" /\ n <= 4 -> <<"init", "stop", "kill">>
      [] f = "m2i" /\ n = 5 -> <<"stop", "kill">>
      [] f = "m2i" /\ n = 6 -> <<"kill">>
      [] f = "b2i" /\ n <= 4 -> <<"init">>
      [] f = "b2m" /\ n <= 10 -> <<"mast">>
      [] f = "m2b" /\ n <= 5 -> <<"back", "stop", "kill", "sleep">>
      [] f = "m2b" /\ n = 6 -> <<"stop", "kill", "sleep">>
      [] f = "m2b" /\ n = 7 -> <<"kill", "sleep">>
      [] f = "m2b" /\ n = 8 -> <<"sleep">>
      [] f = "kill_mast" /\ n <= 4 -> <<"init", "stop", "kill", "unlink">>
      [] f = "kill_mast" /\ n = 5 -> <<"stop", "kill", "unlink">>
      [] f = "kill_mast" /\ n = 6 -> <<"kill", "unlink">>
      [] f = "kill_mast" /\ n >= 7 -> <<"unlink">>
      [] f = "kill_mast_wild" -> <<"unlink">>
      [] f = "kill_other" /\ n <= 4 -> <<"stop", "kill", "unlink">>
      [] f = "kill_other" /\ n = 5 -> <<"kill", "unlink">>
      [] f = "kill_other" /\ n = 6 -> <<"unlink">>
      [] f = "kill_other_wild" /\ n <= 3 -> <<"stop", "kill", "unlink">>
      [] f = "kill_other_wild" /\ n = 4 -> <<"kill", "unlink">>
      [] f = "kill_other_wild" /\ n = 5 -> <<"unlink">>
      [] OTHER -> <<>>

\* The main thread has made a master and not yet set its alarm.
Setting(f, n) == (f = "i2m" /\ n >= 5) \/ (f = "b2m" /\ n >= 11)

\* An alarm counts as pending while the handler has not acted on it, and from the
\* change to MASTER that will set it.
ArmedSoon ==
    \/ armed
    \/ prog["alrm"] \in {"expire", "x_loop", "x_entry", "x_mast", "x_back"}
    \/ Setting(prog["main"], at["main"])

\* the refinement mapping, with v the only VR allocated so far
HostOf(v) ==
    IF up # "up" THEN Host!Down(VridOf[v])
    ELSE [id |-> VridOf[v], up |-> TRUE, open |-> v \in used, made |-> v \in live,
          st |-> state[v], pri |-> pri[v], heard |-> {i \in Vrid : flag[i]},
          armed |-> ArmedSoon, had |-> pid[v] # 0,
          todo |-> Rest(prog["main"], at["main"])]

\* what the LAN can do to the host
Received(h) ==
    UNION {Host!ReceiveStop(h, i) \cup UNION {Host!ReceiveAdv(h, i, p) : p \in AdvPri}
           : i \in Vrid}

\* a step from host h to h2 that advertises as the wire shows
HostStep(v, h, h2) ==
    \E o \in Host!Command(h) \cup Received(h) \cup Host!Step(h)
              \cup (IF up' = "queue" THEN Host!Crash(h) ELSE {}) :
        /\ o.to = h2
        /\ wire' = IF o.adv = Host!NoAdv THEN wire
                   ELSE [wire EXCEPT ![VridOf[v]] = o.adv]

\* While the daemon has allocated one VR, each of its steps is a step of the host or
\* changes nothing the LAN can see: whatever the alarm interrupts, a master
\* advertises, yields, stops and ends its own process as VrrpHost says, and a torn or
\* overrun queue is all else that ends it.
ImplementsHost ==
    [][\A v \in Vr : (used' \subseteq {v} /\ 0 \notin ModDelay) =>
          \/ HostStep(v, HostOf(v), HostOf(v)')
          \/ HostOf(v)' = HostOf(v) /\ wire' = wire]_vars
=============================================================================
