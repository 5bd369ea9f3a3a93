--------------------------- MODULE VrrpLanProofs ---------------------------
(***************************************************************************)
(* Proofs about daemons on one LAN, for any number of machines, ids and    *)
(* priorities, any size of the sockets and any number of commands, packet  *)
(* losses and crashes.                                                     *)
(***************************************************************************)
EXTENDS VrrpLan, SequenceTheorems, TLAPS

(***************************************************************************)
(* The inductive invariant                                                 *)
(***************************************************************************)

\* What the main thread can have left to do: an end of one of the sequences that
\* commands and advertisements start.
Plans == { <<>>, <<"mast">>, <<"sleep">>, <<"back", "sleep">>,
           <<"back", "stop", "kill", "sleep">>, <<"stop", "kill", "sleep">>,
           <<"kill", "sleep">>, <<"init">>,
           <<"init", "stop", "kill">>, <<"stop", "kill">>, <<"kill">>,
           <<"init", "stop", "kill", "unlink">>, <<"stop", "kill", "unlink">>,
           <<"kill", "unlink">>, <<"unlink">> }

\* What is left to a daemon whose instance is in INIT: it has not begun to start up, or
\* is the end of a shutdown.
InInit == {<<"back", "sleep">>, <<"stop", "kill">>, <<"kill">>}

\* A daemon between two operations: one that does not run is as new, one without
\* an instance has heard nobody and does nothing, one that starts up or has been shut
\* down is in INIT, and a backup that polls has heard a master.
HostOk(h) ==
    /\ h.todo \in Plans
    /\ ~h.up => h = Down(h.id)
    /\ ~h.open => h.heard = {} /\ h.st = "INIT" /\ ~h.made /\ h.todo = <<>>
    /\ h.todo \in InInit => h.st = "INIT"
    /\ (h.made /\ h.st = "BACK" /\ h.todo = <<>>) => h.heard # {}

HostsOk ==
    \A x \in Host : /\ HostOk(host[x])
                    /\ host[x].id = IdOf[x]
                    /\ ~host[x].open => inbox[x] = <<>>
                    /\ Overtaken(host[x]) => fault

\* flag[i] of host x once it has read what is in its socket.
WillHold(heard, in, i) ==
    \/ i \in heard /\ \A k \in DOMAIN in : in[k].id # i
    \/ \E k \in DOMAIN in : /\ in[k].id = i /\ in[k].pri # 0
                            /\ \A j \in DOMAIN in : j > k => in[j].id # i

\* FlagIsTrue for hosts that have packets to read, too.
FlagsWillBeTrue ==
    ~fault => \A x \in Host : \A i \in Id : WillHold(host[x].heard, inbox[x], i) =>
                  \E y \in Host \ {x} : IdOf[y] = i /\ Owes(host[y])

IInv == TypeOK /\ HostsOk /\ FlagsWillBeTrue

(***************************************************************************)
(* Plans                                                                   *)
(***************************************************************************)
Stopping == { <<"back", "stop", "kill", "sleep">>, <<"stop", "kill", "sleep">>,
              <<"init", "stop", "kill">>, <<"stop", "kill">>,
              <<"init", "stop", "kill", "unlink">>, <<"stop", "kill", "unlink">> }

\* The plans that still hold a stop advertisement.
LEMMA PlanStops ==
    ASSUME NEW p \in Plans
    PROVE  (\E k \in DOMAIN p : p[k] = "stop") <=> p \in Stopping
<1>1. CASE p \notin Stopping
  <2>1. CASE p = <<>>
    BY <2>1 DEF Stopping
  <2>2. CASE p \in {<<"mast">>, <<"sleep">>, <<"init">>, <<"kill">>, <<"unlink">>}
    BY <2>2, <1>1 DEF Stopping
  <2>3. CASE p \in {<<"back", "sleep">>, <<"kill", "sleep">>, <<"kill", "unlink">>}
    BY <2>3, <1>1 DEF Stopping
  <2> QED BY <1>1, <2>1, <2>2, <2>3 DEF Plans, Stopping
<1>2. CASE p \in Stopping
  <2>1. 1 \in DOMAIN p /\ 2 \in DOMAIN p /\ (p[1] = "stop" \/ p[2] = "stop")
    BY <1>2 DEF Stopping
  <2> QED BY <1>2, <2>1
<1> QED BY <1>1, <1>2

\* A plan's steps, and what is left after its first.
LEMMA PlanParts ==
    ASSUME NEW p \in Plans, p # <<>>
    PROVE  /\ Tail(p) \in Plans
           /\ Head(p) \in Todo
           /\ Head(p) = "mast" => p = <<"mast">> /\ Tail(p) = <<>>
           /\ Head(p) = "sleep" => p = <<"sleep">> /\ Tail(p) = <<>>
           /\ Head(p) = "unlink" => p = <<"unlink">> /\ Tail(p) = <<>>
           /\ Head(p) = "back" => \/ p = <<"back", "sleep">> /\ Tail(p) = <<"sleep">>
                                  \/ Tail(p) = <<"stop", "kill", "sleep">>
           /\ Head(p) = "init" => \/ p = <<"init">> /\ Tail(p) = <<>>
                                  \/ Tail(p) = <<"stop", "kill">>
                                  \/ Tail(p) = <<"stop", "kill", "unlink">>
           /\ Head(p) = "stop" => \/ Tail(p) = <<"kill", "sleep">>
                                  \/ Tail(p) = <<"kill", "unlink">>
                                  \/ p = <<"stop", "kill">> /\ Tail(p) = <<"kill">>
           /\ Head(p) = "kill" => \/ Tail(p) = <<"sleep">>
                                  \/ Tail(p) = <<"unlink">>
                                  \/ p = <<"kill">> /\ Tail(p) = <<>>
<1>1. CASE p = <<"mast">>
  <2>1. Head(p) = "mast" /\ Tail(p) = <<>>
    BY <1>1
  <2> QED BY <1>1, <2>1 DEF Plans, Todo
<1>2. CASE p = <<"sleep">>
  <2>1. Head(p) = "sleep" /\ Tail(p) = <<>>
    BY <1>2
  <2> QED BY <1>2, <2>1 DEF Plans, Todo
<1>3. CASE p = <<"back", "sleep">>
  <2>1. Head(p) = "back" /\ Tail(p) = <<"sleep">>
    BY <1>3
  <2> QED BY <1>3, <2>1 DEF Plans, Todo
<1>4. CASE p = <<"back", "stop", "kill", "sleep">>
  <2>1. Head(p) = "back" /\ Tail(p) = <<"stop", "kill", "sleep">>
    BY <1>4
  <2> QED BY <1>4, <2>1 DEF Plans, Todo
<1>5. CASE p = <<"stop", "kill", "sleep">>
  <2>1. Head(p) = "stop" /\ Tail(p) = <<"kill", "sleep">>
    BY <1>5
  <2> QED BY <1>5, <2>1 DEF Plans, Todo
<1>6. CASE p = <<"kill", "sleep">>
  <2>1. Head(p) = "kill" /\ Tail(p) = <<"sleep">>
    BY <1>6
  <2> QED BY <1>6, <2>1 DEF Plans, Todo
<1>7. CASE p = <<"init">>
  <2>1. Head(p) = "init" /\ Tail(p) = <<>>
    BY <1>7
  <2> QED BY <1>7, <2>1 DEF Plans, Todo
<1>8. CASE p = <<"init", "stop", "kill">>
  <2>1. Head(p) = "init" /\ Tail(p) = <<"stop", "kill">>
    BY <1>8
  <2> QED BY <1>8, <2>1 DEF Plans, Todo
<1>9. CASE p = <<"stop", "kill">>
  <2>1. Head(p) = "stop" /\ Tail(p) = <<"kill">>
    BY <1>9
  <2> QED BY <1>9, <2>1 DEF Plans, Todo
<1>10. CASE p = <<"kill">>
  <2>1. Head(p) = "kill" /\ Tail(p) = <<>>
    BY <1>10
  <2> QED BY <1>10, <2>1 DEF Plans, Todo
<1>11. CASE p = <<"init", "stop", "kill", "unlink">>
  <2>1. Head(p) = "init" /\ Tail(p) = <<"stop", "kill", "unlink">>
    BY <1>11
  <2> QED BY <1>11, <2>1 DEF Plans, Todo
<1>12. CASE p = <<"stop", "kill", "unlink">>
  <2>1. Head(p) = "stop" /\ Tail(p) = <<"kill", "unlink">>
    BY <1>12
  <2> QED BY <1>12, <2>1 DEF Plans, Todo
<1>13. CASE p = <<"kill", "unlink">>
  <2>1. Head(p) = "kill" /\ Tail(p) = <<"unlink">>
    BY <1>13
  <2> QED BY <1>13, <2>1 DEF Plans, Todo
<1>14. CASE p = <<"unlink">>
  <2>1. Head(p) = "unlink" /\ Tail(p) = <<>>
    BY <1>14
  <2> QED BY <1>14, <2>1 DEF Plans, Todo
<1> QED BY <1>1, <1>2, <1>3, <1>4, <1>5, <1>6, <1>7, <1>8, <1>9, <1>10, <1>11, <1>12, <1>13, <1>14 DEF Plans

\* A plan is a sequence of at most four steps.
LEMMA PlanType == ASSUME NEW p \in Plans PROVE p \in Seq(Todo) /\ Len(p) <= 4
<1> USE DEF Todo
<1>1. CASE p = <<>>
  BY <1>1
<1>2. CASE p = <<"mast">>
  BY <1>2
<1>3. CASE p = <<"sleep">>
  BY <1>3
<1>4. CASE p = <<"back", "sleep">>
  BY <1>4
<1>5. CASE p = <<"back", "stop", "kill", "sleep">>
  BY <1>5
<1>6. CASE p = <<"stop", "kill", "sleep">>
  BY <1>6
<1>7. CASE p = <<"kill", "sleep">>
  BY <1>7
<1>8. CASE p = <<"init">>
  BY <1>8
<1>9. CASE p = <<"init", "stop", "kill">>
  BY <1>9
<1>10. CASE p = <<"stop", "kill">>
  BY <1>10
<1>11. CASE p = <<"kill">>
  BY <1>11
<1>12. CASE p = <<"init", "stop", "kill", "unlink">>
  BY <1>12
<1>13. CASE p = <<"stop", "kill", "unlink">>
  BY <1>13
<1>14. CASE p = <<"kill", "unlink">>
  BY <1>14
<1>15. CASE p = <<"unlink">>
  BY <1>15
<1> QED BY <1>1, <1>2, <1>3, <1>4, <1>5, <1>6, <1>7, <1>8, <1>9, <1>10, <1>11, <1>12, <1>13, <1>14, <1>15 DEF Plans

(***************************************************************************)
(* What an operation of a host may do                                      *)
(***************************************************************************)

\* Outcome o of an operation of h: a host as it may be, which advertises a priority
\* only as a master, and which does not cease to owe its stop advertisement except
\* by sending it or where an alarm has overtaken a shutdown.
Sound(h, o) ==
    /\ o.to \in HostState /\ o.adv \in {NoAdv} \cup 0 .. 255
    /\ HostOk(o.to) /\ o.to.id = h.id
    /\ (o.adv # NoAdv /\ o.adv # 0) => Owes(o.to)
    /\ (Owes(h) /\ o.to.up) => (Owes(o.to) \/ o.adv = 0 \/ Overtaken(h))
    /\ (h.open /\ o.to.up) => o.to.open

\* ... and it hears nothing.
SoundAndDeaf(h, o) == Sound(h, o) /\ (o.to.up => o.to.heard = h.heard)

LEMMA OwesByPlan ==
    ASSUME NEW h \in HostState, h.todo \in Plans
    PROVE  Owes(h) <=> (h.st = "MAST" \/ h.todo \in Stopping)
  BY PlanStops DEF Owes

\* The end of the process.
LEMMA DownSound ==
    ASSUME NEW h \in HostState, NEW a \in {NoAdv, 0}
    PROVE  SoundAndDeaf(h, Outcome(Down(h.id), a))
<1> DEFINE d == Down(h.id)
<1>1. d \in HostState /\ d.id = h.id /\ d.up = FALSE
  <2>1. <<>> \in Seq(Todo) /\ Len(<<>>) = 0
    OBVIOUS
  <2> QED BY <2>1 DEF Down, HostState
<1>2. HostOk(d)
  <2>1. d.todo = <<>> /\ d.st = "INIT" /\ d.heard = {} /\ ~d.made
    BY DEF Down
  <2>2. <<>> \in Plans
    BY DEF Plans
  <2>3. <<>> \notin InInit
    BY DEF InInit
  <2> QED BY <1>1, <2>1, <2>2, <2>3 DEF HostOk
<1> HIDE DEF d
<1> QED BY <1>1, <1>2 DEF SoundAndDeaf, Sound, Outcome, NoAdv, d

\* What has to be seen of an outcome that leaves the process running.
LEMMA UpSound ==
    ASSUME NEW h \in HostState, HostOk(h),
           NEW g \in HostState, NEW a \in {NoAdv} \cup 0 .. 255,
           g.up, g.id = h.id, g.todo \in Plans, h.open => g.open,
           ~g.open => g.heard = {} /\ g.st = "INIT" /\ ~g.made /\ g.todo = <<>>,
           g.todo \in InInit => g.st = "INIT",
           (g.made /\ g.st = "BACK" /\ g.todo = <<>>) => g.heard # {},
           (a # NoAdv /\ a # 0) => g.st = "MAST",
           (h.st = "MAST" \/ h.todo \in Stopping) =>
               (g.st = "MAST" \/ g.todo \in Stopping \/ a = 0 \/ Overtaken(h))
    PROVE  Sound(h, Outcome(g, a))
<1>1. Owes(h) <=> (h.st = "MAST" \/ h.todo \in Stopping)
  BY OwesByPlan DEF HostOk
<1>2. Owes(g) <=> (g.st = "MAST" \/ g.todo \in Stopping)
  BY OwesByPlan
<1>3. HostOk(g)
  BY DEF HostOk
<1>4. Outcome(g, a).to = g /\ Outcome(g, a).adv = a
  BY DEF Outcome
<1> QED BY <1>1, <1>2, <1>3, <1>4 DEF Sound

LEMMA CreateSound ==
    ASSUME NEW h \in HostState, HostOk(h), NEW p \in 0 .. 255, NEW o \in Create(h, p)
    PROVE  SoundAndDeaf(h, o)
<1> DEFINE t == IF p = OWNER THEN <<"mast">> ELSE <<>>
           g == [h EXCEPT !.open = TRUE, !.made = TRUE, !.pri = p, !.todo = t]
<1>1. o = Outcome(g, NoAdv) /\ h.up /\ h.todo = <<>> /\ ~h.open
  BY DEF Create, When, Silent, Polls
<1>2. t \in Plans /\ t \in Seq(Todo) /\ Len(t) <= 4 /\ t \notin Stopping
  BY PlanType DEF Plans, Stopping
<1>3. t \notin InInit
  BY DEF InInit
<1>4. <<>> \notin Stopping /\ h.st = "INIT"
  BY <1>1 DEF Stopping, HostOk
<1> HIDE DEF t
<1>5. g \in HostState /\ g.up /\ g.id = h.id /\ g.todo = t /\ g.open /\ g.st = h.st /\ g.heard = h.heard
  BY <1>1, <1>2 DEF HostState
<1> HIDE DEF g
<1>6. Sound(h, Outcome(g, NoAdv))
  BY <1>1, <1>2, <1>3, <1>4, <1>5, UpSound DEF NoAdv
<1> QED BY <1>1, <1>5, <1>6 DEF SoundAndDeaf, Outcome

LEMMA StartupSound ==
    ASSUME NEW h \in HostState, HostOk(h), NEW o \in Startup(h)
    PROVE  SoundAndDeaf(h, o)
<1> DEFINE t == <<"back", "sleep">>
           g == [h EXCEPT !.todo = t]
<1>1. o = Outcome(g, NoAdv) /\ h.up /\ h.todo = <<>> /\ h.made /\ h.st = "INIT"
  BY DEF Startup, When, Silent, Polls
<1>2. t \in Plans /\ t \in Seq(Todo) /\ Len(t) <= 4 /\ t # <<>>
  BY PlanType DEF Plans
<1>3. <<>> \notin Stopping
  BY DEF Stopping
<1> HIDE DEF t
<1>4. /\ g \in HostState /\ g.up /\ g.id = h.id /\ g.todo = t /\ g.open = h.open /\ h.open
      /\ g.st = "INIT" /\ g.heard = h.heard
  BY <1>1, <1>2 DEF HostState, HostOk
<1> HIDE DEF g
<1>5. Sound(h, Outcome(g, NoAdv))
  BY <1>1, <1>2, <1>3, <1>4, UpSound DEF NoAdv
<1> QED BY <1>1, <1>4, <1>5 DEF SoundAndDeaf, Outcome

LEMMA ShutdownSound ==
    ASSUME NEW h \in HostState, HostOk(h), NEW o \in Shutdown(h)
    PROVE  SoundAndDeaf(h, o)
<1> DEFINE t == IF h.st = "MAST" THEN <<"init", "stop", "kill">> ELSE <<"init">>
           g == [h EXCEPT !.todo = t]
<1>1. o = Outcome(g, NoAdv) /\ h.up /\ h.todo = <<>> /\ h.made
  BY DEF Shutdown, When, Silent, Polls
<1>2. t \in Plans /\ t \in Seq(Todo) /\ Len(t) <= 4
  BY PlanType DEF Plans
<1>3. t # <<>> /\ t \notin InInit
  BY DEF InInit
<1>4. <<>> \notin Stopping
  BY DEF Stopping
<1> HIDE DEF t
<1>5. /\ g \in HostState /\ g.up /\ g.id = h.id /\ g.todo = t /\ g.open = h.open /\ h.open
      /\ g.st = h.st /\ g.heard = h.heard
  BY <1>1, <1>2 DEF HostState, HostOk
<1> HIDE DEF g
<1>6. Sound(h, Outcome(g, NoAdv))
  BY <1>1, <1>2, <1>3, <1>4, <1>5, UpSound DEF NoAdv
<1> QED BY <1>1, <1>5, <1>6 DEF SoundAndDeaf, Outcome

LEMMA DestroySound ==
    ASSUME NEW h \in HostState, HostOk(h), NEW w \in BOOLEAN, NEW o \in Destroy(h, w)
    PROVE  SoundAndDeaf(h, o)
<1>1. PICK t \in {<<"stop", "kill", "unlink">>, <<"init", "stop", "kill", "unlink">>, <<"unlink">>} :
          o = Outcome([h EXCEPT !.todo = t], NoAdv) /\ h.up /\ h.todo = <<>> /\ h.made
  <2>1. h.up /\ h.todo = <<>> /\ h.made
    BY DEF Destroy, When, Polls
  <2>2. CASE h.st # "MAST"
    BY <2>1, <2>2 DEF Destroy, When, Polls, Silent
  <2>3. CASE h.st = "MAST" /\ w
    BY <2>1, <2>3 DEF Destroy, When, Polls, Silent
  <2>4. CASE h.st = "MAST" /\ ~w
    BY <2>1, <2>4 DEF Destroy, When, Polls, Silent
  <2> QED BY <2>2, <2>3, <2>4
<1> DEFINE g == [h EXCEPT !.todo = t]
<1>2. t \in Plans /\ t \in Seq(Todo) /\ Len(t) <= 4
  BY PlanType DEF Plans
<1>3. t # <<>> /\ t \notin InInit
  BY DEF InInit
<1>4. <<>> \notin Stopping
  BY DEF Stopping
<1>5. /\ g \in HostState /\ g.up /\ g.id = h.id /\ g.todo = t /\ g.open = h.open /\ h.open
      /\ g.st = h.st /\ g.heard = h.heard
  BY <1>1, <1>2 DEF HostState, HostOk
<1> HIDE DEF g
<1>6. Sound(h, Outcome(g, NoAdv))
  BY <1>1, <1>2, <1>3, <1>4, <1>5, UpSound DEF NoAdv
<1> QED BY <1>1, <1>5, <1>6 DEF SoundAndDeaf, Outcome, g

LEMMA SetPropSound ==
    ASSUME NEW h \in HostState, HostOk(h), NEW p \in Nat, NEW o \in SetProp(h, p)
    PROVE  SoundAndDeaf(h, o)
<1>1. PICK g \in HostState :
          /\ o = Outcome(g, NoAdv) /\ h.up /\ h.todo = <<>> /\ h.made
          /\ g.up /\ g.id = h.id /\ g.todo = h.todo /\ g.open = h.open
          /\ g.st = h.st /\ g.heard = h.heard /\ g.made = h.made
  <2>1. PICK q \in 0 .. 255 : q = p % 256
    OBVIOUS
  <2> DEFINE g == [h EXCEPT !.pri = q]
  <2>2. o = Outcome(g, NoAdv) /\ h.up /\ h.todo = <<>> /\ h.made
    BY <2>1 DEF SetProp, When, Silent, Polls
  <2>3. /\ g \in HostState /\ g.up /\ g.id = h.id /\ g.todo = h.todo /\ g.open = h.open
        /\ g.st = h.st /\ g.heard = h.heard /\ g.made = h.made
    BY <2>2 DEF HostState
  <2> HIDE DEF g
  <2> QED BY <2>2, <2>3
<1>2. h.open /\ h.todo \in Plans /\ (h.st = "BACK" => h.heard # {})
  BY <1>1 DEF HostOk
<1>3. <<>> \notin InInit
  BY DEF InInit
<1>4. Sound(h, Outcome(g, NoAdv))
  BY <1>1, <1>2, <1>3, UpSound DEF NoAdv
<1> QED BY <1>1, <1>4 DEF SoundAndDeaf, Outcome

LEMMA SetDelaySound ==
    ASSUME NEW h \in HostState, HostOk(h), NEW o \in SetDelay(h)
    PROVE  SoundAndDeaf(h, o)
<1> DEFINE g == [h EXCEPT !.armed = TRUE]
<1>1. o = Outcome(g, NoAdv) /\ h.up /\ h.todo = <<>> /\ h.made /\ h.st = "INIT"
  BY DEF SetDelay, When, Silent, Polls
<1>2. h.open /\ h.todo \in Plans
  BY <1>1 DEF HostOk
<1>3. <<>> \notin InInit
  BY DEF InInit
<1>4. /\ g \in HostState /\ g.up /\ g.id = h.id /\ g.todo = h.todo /\ g.open
      /\ g.st = "INIT" /\ g.heard = h.heard
  BY <1>1, <1>2 DEF HostState
<1> HIDE DEF g
<1>5. Sound(h, Outcome(g, NoAdv))
  BY <1>1, <1>2, <1>3, <1>4, UpSound DEF NoAdv
<1> QED BY <1>1, <1>4, <1>5 DEF SoundAndDeaf, Outcome

\* The commands.
LEMMA CommandSound ==
    ASSUME NEW h \in HostState, HostOk(h), NEW o \in Command(h)
    PROVE  SoundAndDeaf(h, o)
<1>1. ASSUME NEW p \in CreatePri, o \in Create(h, p) PROVE SoundAndDeaf(h, o)
  BY <1>1, CreateSound, HostAssumption
<1>2. ASSUME NEW p \in ModPri, o \in SetProp(h, p) PROVE SoundAndDeaf(h, o)
  BY <1>2, SetPropSound, HostAssumption
<1>3. ASSUME NEW w \in BOOLEAN, o \in Destroy(h, w) PROVE SoundAndDeaf(h, o)
  BY <1>3, DestroySound
<1>4. CASE o \in DestroyMissing(h)
  BY <1>4, DownSound DEF DestroyMissing, When, Silent
<1> QED BY <1>1, <1>2, <1>3, <1>4, StartupSound, ShutdownSound, SetDelaySound DEF Command

\* The main thread's next step, one case for each kind.
LEMMA DoSound ==
    ASSUME NEW h \in HostState, HostOk(h), NEW o \in Do(h)
    PROVE  SoundAndDeaf(h, o)
<1> DEFINE hd == Head(h.todo)
           tl == Tail(h.todo)
           next == [h EXCEPT !.todo = tl]
<1>1. h.up /\ h.todo # <<>> /\ h.todo \in Plans
  BY DEF Do, When, HostOk
<1>2. /\ tl \in Plans /\ tl \in Seq(Todo) /\ Len(tl) <= 4 /\ hd \in Todo
  BY <1>1, PlanParts, PlanType
<1>3. h.open /\ (h.todo \in InInit => h.st = "INIT")
  BY <1>1 DEF HostOk
<1>4. /\ next \in HostState /\ next.up /\ next.id = h.id /\ next.todo = tl /\ next.open
      /\ next.st = h.st /\ next.heard = h.heard /\ next.made = h.made
  BY <1>1, <1>2, <1>3 DEF HostState
<1>5. CASE hd = "mast"
  <2> DEFINE g == BecomeMaster(h)
  <2>1. o = Outcome(g, NoAdv)
    BY <1>1, <1>5 DEF Do, When, Silent
  <2>2. /\ g \in HostState /\ g.up /\ g.id = h.id /\ g.todo = tl /\ g.open
        /\ g.st = "MAST" /\ g.heard = h.heard
    BY <1>1, <1>2, <1>3 DEF HostState, BecomeMaster
  <2>3. tl = <<>>
    BY <1>1, <1>5, PlanParts
  <2> HIDE DEF g, tl
  <2>4. tl \notin InInit
    BY <2>3 DEF InInit
  <2>5. Sound(h, Outcome(g, NoAdv))
    BY <1>1, <1>2, <2>2, <2>3, <2>4, UpSound DEF NoAdv
  <2> QED BY <2>1, <2>2, <2>5 DEF SoundAndDeaf, Outcome
<1>6. CASE hd = "back"
  <2> DEFINE g == Become(h, "BACK")
  <2>1. o = Outcome(g, NoAdv)
    BY <1>1, <1>6 DEF Do, When, Silent
  <2>2. /\ g \in HostState /\ g.up /\ g.id = h.id /\ g.todo = tl /\ g.open
        /\ g.st = "BACK" /\ g.heard = h.heard
    BY <1>1, <1>2, <1>3 DEF HostState, Become
  <2>3. CASE h.todo = <<"back", "sleep">> /\ tl = <<"sleep">>
    <3>1. tl # <<>> /\ tl \notin InInit /\ h.todo \notin Stopping /\ h.st = "INIT"
      BY <2>3, <1>3 DEF Stopping, InInit
    <3> HIDE DEF g, tl
    <3>2. Sound(h, Outcome(g, NoAdv))
      BY <1>1, <1>2, <2>2, <3>1, UpSound DEF NoAdv
    <3> QED BY <2>1, <2>2, <3>2 DEF SoundAndDeaf, Outcome
  <2>4. CASE tl = <<"stop", "kill", "sleep">>
    <3> HIDE DEF g, tl
    <3>1. tl # <<>> /\ tl \notin InInit /\ tl \in Stopping
      BY <2>4 DEF Stopping, InInit
    <3>2. Sound(h, Outcome(g, NoAdv))
      BY <1>1, <1>2, <2>2, <3>1, UpSound DEF NoAdv
    <3> QED BY <2>1, <2>2, <3>2 DEF SoundAndDeaf, Outcome
  <2> QED BY <1>1, <1>6, <2>3, <2>4, PlanParts
<1>7. CASE hd = "init"
  <2> DEFINE g == Become(h, "INIT")
  <2>1. o = Outcome(g, NoAdv)
    BY <1>1, <1>7 DEF Do, When, Silent
  <2>2. /\ g \in HostState /\ g.up /\ g.id = h.id /\ g.todo = tl /\ g.open
        /\ g.st = "INIT" /\ g.heard = h.heard
    BY <1>1, <1>2, <1>3 DEF HostState, Become
  <2>3. CASE h.todo = <<"init">> /\ tl = <<>>
    <3>1. h.todo \notin Stopping /\ (h.st = "MAST" => Overtaken(h))
      BY <2>3 DEF Stopping, Overtaken
    <3> HIDE DEF g, tl
    <3>2. Sound(h, Outcome(g, NoAdv))
      BY <1>1, <1>2, <2>2, <3>1, UpSound DEF NoAdv
    <3> QED BY <2>1, <2>2, <3>2 DEF SoundAndDeaf, Outcome
  <2>4. CASE tl \in {<<"stop", "kill">>, <<"stop", "kill", "unlink">>}
    <3>1. tl \in Stopping
      BY <2>4 DEF Stopping
    <3> HIDE DEF g, tl
    <3>2. Sound(h, Outcome(g, NoAdv))
      BY <1>1, <1>2, <2>2, <3>1, UpSound DEF NoAdv
    <3> QED BY <2>1, <2>2, <3>2 DEF SoundAndDeaf, Outcome
  <2> QED BY <1>1, <1>7, <2>3, <2>4, PlanParts
<1>8. CASE hd = "stop"
  <2>1. o = Outcome(next, 0) /\ 0 \in {NoAdv} \cup 0 .. 255
    BY <1>1, <1>8 DEF Do, When
  <2>2. CASE h.todo = <<"stop", "kill">> /\ tl = <<"kill">>
    <3>1. tl # <<>> /\ h.st = "INIT"
      BY <2>2, <1>3 DEF InInit
    <3> HIDE DEF next, tl
    <3>2. Sound(h, Outcome(next, 0))
      BY <1>1, <1>2, <1>4, <2>1, <3>1, UpSound
    <3> QED BY <2>1, <1>4, <3>2 DEF SoundAndDeaf, Outcome
  <2>3. CASE tl \in {<<"kill", "sleep">>, <<"kill", "unlink">>}
    <3>1. tl # <<>> /\ tl \notin InInit
      BY <2>3 DEF InInit
    <3> HIDE DEF next, tl
    <3>2. Sound(h, Outcome(next, 0))
      BY <1>1, <1>2, <1>4, <2>1, <3>1, UpSound
    <3> QED BY <2>1, <1>4, <3>2 DEF SoundAndDeaf, Outcome
  <2> QED BY <1>1, <1>8, <2>2, <2>3, PlanParts
<1>9. CASE hd = "kill"
  <2>1. CASE ~h.had
    BY <1>1, <1>9, <2>1, DownSound DEF Do, When, Silent, Kill
  <2>2. CASE h.had
    <3>1. o = Outcome(next, NoAdv)
      BY <1>1, <1>9, <2>2 DEF Do, When, Silent, Kill
    <3>2. CASE h.todo = <<"kill">> /\ tl = <<>>
      <4>1. h.st = "INIT" /\ h.todo \notin Stopping
        BY <3>2, <1>3 DEF Stopping, InInit
      <4> HIDE DEF next, tl
      <4>2. Sound(h, Outcome(next, NoAdv))
        BY <1>1, <1>2, <1>4, <4>1, UpSound DEF NoAdv
      <4> QED BY <3>1, <1>4, <4>2 DEF SoundAndDeaf, Outcome
    <3>3. CASE tl \in {<<"sleep">>, <<"unlink">>}
      <4>1. h.todo \notin Stopping
        BY <1>9 DEF Stopping
      <4> HIDE DEF next, tl
      <4>2. tl # <<>> /\ tl \notin InInit
        BY <3>3 DEF InInit
      <4>3. Sound(h, Outcome(next, NoAdv))
        BY <1>1, <1>2, <1>4, <4>1, <4>2, UpSound DEF NoAdv
      <4> QED BY <3>1, <1>4, <4>3 DEF SoundAndDeaf, Outcome
    <3> QED BY <1>1, <1>9, <3>2, <3>3, PlanParts
  <2> QED BY <2>1, <2>2
<1>10. CASE hd = "sleep"
  <2> DEFINE t == IF h.heard = {} THEN <<"mast">> ELSE <<>>
             g == [h EXCEPT !.todo = t]
  <2>1. tl = <<>> /\ h.todo = <<"sleep">> /\ h.todo \notin Stopping
    BY <1>1, <1>10, PlanParts DEF Stopping
  <2>2. o = Outcome(g, NoAdv)
    BY <1>1, <1>10, <2>1 DEF Do, When, Silent, Sleep
  <2>3. t \in Plans /\ t \in Seq(Todo) /\ Len(t) <= 4 /\ t \notin InInit
    BY PlanType DEF Plans, InInit
  <2>4. t = <<>> => h.heard # {}
    OBVIOUS
  <2> HIDE DEF t
  <2>5. /\ g \in HostState /\ g.up /\ g.id = h.id /\ g.todo = t /\ g.open
        /\ g.st = h.st /\ g.heard = h.heard
    BY <1>1, <1>3, <2>3 DEF HostState
  <2> HIDE DEF g
  <2>6. Sound(h, Outcome(g, NoAdv))
    BY <1>1, <2>1, <2>3, <2>4, <2>5, UpSound DEF NoAdv
  <2> QED BY <2>2, <2>5, <2>6 DEF SoundAndDeaf, Outcome
<1>11. CASE hd = "unlink"
  <2> DEFINE g == Unlink(h)
  <2>1. tl = <<>> /\ h.todo = <<"unlink">> /\ h.todo \notin Stopping /\ tl \notin InInit
    BY <1>1, <1>11, PlanParts DEF Stopping, InInit
  <2>2. o = Outcome(g, NoAdv)
    BY <1>1, <1>11 DEF Do, When, Silent
  <2>3. /\ g \in HostState /\ g.up /\ g.id = h.id /\ g.todo = tl /\ g.open
        /\ g.st = h.st /\ g.heard = h.heard /\ ~g.made
    BY <1>1, <1>2, <1>3 DEF HostState, Unlink
  <2> HIDE DEF g, tl
  <2>4. Sound(h, Outcome(g, NoAdv))
    BY <1>1, <1>2, <2>1, <2>3, UpSound DEF NoAdv
  <2> QED BY <2>2, <2>3, <2>4 DEF SoundAndDeaf, Outcome
<1> QED BY <1>2, <1>5, <1>6, <1>7, <1>8, <1>9, <1>10, <1>11 DEF Todo

\* The alarm.
LEMMA AlarmSound ==
    ASSUME NEW h \in HostState, HostOk(h), NEW o \in Alarm(h)
    PROVE  SoundAndDeaf(h, o)
<1> DEFINE off == [h EXCEPT !.armed = FALSE]
           on == [h EXCEPT !.st = "MAST"]
<1>1. /\ h.todo \in Plans /\ h.pri \in 0 .. 255 /\ h.heard \subseteq Id
      /\ ~h.open => h.heard = {} /\ h.st = "INIT" /\ ~h.made /\ h.todo = <<>>
      /\ h.todo \in InInit => h.st = "INIT"
      /\ (h.made /\ h.st = "BACK" /\ h.todo = <<>>) => h.heard # {}
  BY DEF HostOk, HostState
<1>2. h.up
  BY DEF Alarm, When
<1>3. \/ o = Outcome(h, h.pri) /\ h.st = "MAST"
      \/ o = Outcome(on, NoAdv) /\ h.st = "BACK"
      \/ o = Outcome(off, NoAdv)
  <2>1. h.st \in {"INIT", "MAST", "BACK"}
    BY DEF HostState
  <2> QED BY <1>2, <2>1 DEF Alarm, When, Silent
<1>4. /\ off \in HostState /\ off.up = h.up /\ off.id = h.id /\ off.todo = h.todo
      /\ off.open = h.open /\ off.st = h.st /\ off.heard = h.heard /\ off.made = h.made
  BY DEF HostState
<1>5. /\ on \in HostState /\ on.up = h.up /\ on.id = h.id /\ on.todo = h.todo
      /\ on.open = h.open /\ on.st = "MAST" /\ on.heard = h.heard
  BY DEF HostState
<1> HIDE DEF on, off
<1>6. CASE o = Outcome(h, h.pri) /\ h.st = "MAST"
  <2>1. Sound(h, Outcome(h, h.pri))
    BY <1>1, <1>2, <1>6, UpSound DEF NoAdv
  <2> QED BY <1>6, <2>1 DEF SoundAndDeaf, Outcome
<1>7. CASE o = Outcome(on, NoAdv) /\ h.st = "BACK"
  <2>1. Sound(h, Outcome(on, NoAdv))
    BY <1>1, <1>2, <1>5, <1>7, UpSound DEF NoAdv
  <2> QED BY <1>5, <1>7, <2>1 DEF SoundAndDeaf, Outcome
<1>8. CASE o = Outcome(off, NoAdv)
  <2>1. /\ ~off.open => off.heard = {} /\ off.st = "INIT" /\ ~off.made /\ off.todo = <<>>
        /\ off.todo \in InInit => off.st = "INIT"
        /\ (off.made /\ off.st = "BACK" /\ off.todo = <<>>) => off.heard # {}
        /\ off.todo \in Plans /\ off.up /\ (h.open => off.open)
    BY <1>1, <1>2, <1>4, Zenon
  <2>2. Sound(h, Outcome(off, NoAdv))
    BY <1>4, <2>1, UpSound DEF NoAdv
  <2> QED BY <1>4, <1>8, <2>2 DEF SoundAndDeaf, Outcome
<1> QED BY <1>3, <1>6, <1>7, <1>8

LEMMA StartRouterSound ==
    ASSUME NEW h \in HostState, HostOk(h), NEW o \in StartRouter(h)
    PROVE  SoundAndDeaf(h, o)
<1> DEFINE g == [h EXCEPT !.had = TRUE]
<1>1. o = Outcome(g, NoAdv) /\ h.up /\ h.st = "MAST"
  BY DEF StartRouter, When, Silent
<1>2. h.todo \in Plans /\ h.open
      /\ (h.todo \in InInit => h.st = "INIT")
  BY <1>1 DEF HostOk
<1>3. /\ g \in HostState /\ g.up /\ g.id = h.id /\ g.todo = h.todo
      /\ g.open = h.open /\ g.st = "MAST" /\ g.heard = h.heard
  BY <1>1 DEF HostState
<1> HIDE DEF g
<1>4. Sound(h, Outcome(g, NoAdv))
  BY <1>1, <1>2, <1>3, UpSound DEF NoAdv
<1> QED BY <1>1, <1>3, <1>4 DEF SoundAndDeaf, Outcome

LEMMA CrashSound ==
    ASSUME NEW h \in HostState, HostOk(h), NEW o \in Crash(h)
    PROVE  SoundAndDeaf(h, o)
  BY DownSound DEF Crash, When, Silent

LEMMA BootSound ==
    ASSUME NEW h \in HostState, HostOk(h), NEW o \in Boot(h)
    PROVE  SoundAndDeaf(h, o)
<1> DEFINE g == [h EXCEPT !.up = TRUE]
<1>1. o = Outcome(g, NoAdv) /\ ~h.up
  BY DEF Boot, When, Silent
<1>2. /\ h.todo = <<>> /\ h.st = "INIT" /\ ~h.open /\ h.heard = {} /\ ~h.made
  BY <1>1 DEF HostOk, Down
<1>3. <<>> \in Plans /\ <<>> \notin Stopping
      /\ <<>> \notin InInit
  BY DEF Plans, Stopping, InInit
<1>4. /\ g \in HostState /\ g.up /\ g.id = h.id /\ g.todo = h.todo
      /\ g.open = h.open /\ g.st = h.st /\ g.heard = h.heard /\ g.made = h.made
  BY DEF HostState
<1> HIDE DEF g
<1>5. Sound(h, Outcome(g, NoAdv))
  BY <1>1, <1>2, <1>3, <1>4, UpSound DEF NoAdv
<1> QED BY <1>1, <1>4, <1>5 DEF SoundAndDeaf, Outcome

\* An advertisement sets the flag of its id.
LEMMA ReceiveAdvSound ==
    ASSUME NEW h \in HostState, HostOk(h), h.open, NEW i \in Id, NEW p,
           NEW o \in ReceiveAdv(h, i, p)
    PROVE  Sound(h, o) /\ (o.to.up => o.to.heard = h.heard \cup {i})
<1> DEFINE t == IF yields(h, i, p) THEN <<"back", "stop", "kill", "sleep">> ELSE <<>>
           g == [h EXCEPT !.heard = @ \cup {i}, !.todo = t]
<1>1. o = Outcome(g, NoAdv) /\ h.up /\ h.todo = <<>>
  BY DEF ReceiveAdv, When, Silent, Polls
<1>2. t \in Plans /\ t \in Seq(Todo) /\ Len(t) <= 4
  BY PlanType DEF Plans
<1>3. t \notin InInit
  BY DEF InInit
<1>4. <<>> \notin Stopping
  BY DEF Stopping
<1> HIDE DEF t
<1>5. /\ g \in HostState /\ g.up /\ g.id = h.id /\ g.todo = t
      /\ g.open = h.open /\ g.st = h.st /\ g.heard = h.heard \cup {i} /\ g.made = h.made
  BY <1>1, <1>2 DEF HostState
<1> HIDE DEF g
<1>6. Sound(h, Outcome(g, NoAdv))
  BY <1>1, <1>2, <1>3, <1>4, <1>5, UpSound DEF NoAdv
<1> QED BY <1>1, <1>5, <1>6 DEF Outcome

\* A stop advertisement clears it.
LEMMA ReceiveStopSound ==
    ASSUME NEW h \in HostState, HostOk(h), h.open, NEW i \in Id, NEW o \in ReceiveStop(h, i)
    PROVE  Sound(h, o) /\ (o.to.up => o.to.heard = h.heard \ {i})
<1> DEFINE t == IF h.st = "BACK" THEN <<"mast">> ELSE <<>>
           g == [h EXCEPT !.heard = @ \ {i}, !.todo = t]
<1>1. h.up /\ h.todo = <<>>
  BY DEF ReceiveStop, When, Polls
<1>2. CASE ~h.made
  <2>1. o = Outcome(Down(h.id), NoAdv)
    BY <1>1, <1>2 DEF ReceiveStop, When, Silent, Polls
  <2>2. SoundAndDeaf(h, o) /\ ~o.to.up
    BY <2>1, DownSound DEF Outcome, Down
  <2> QED BY <2>2 DEF SoundAndDeaf
<1>3. CASE h.made
  <2>1. o = Outcome(g, NoAdv)
    BY <1>1, <1>3 DEF ReceiveStop, When, Silent, Polls
  <2>2. t \in Plans /\ t \in Seq(Todo) /\ Len(t) <= 4
    BY PlanType DEF Plans
  <2>3. t \notin InInit /\ (t = <<>> => h.st # "BACK")
    BY DEF InInit
  <2>4. <<>> \notin Stopping
    BY DEF Stopping
  <2> HIDE DEF t
  <2>5. /\ g \in HostState /\ g.up /\ g.id = h.id /\ g.todo = t
        /\ g.open = h.open /\ g.st = h.st /\ g.heard = h.heard \ {i}
    BY <1>1, <2>2 DEF HostState
  <2> HIDE DEF g
  <2>6. Sound(h, Outcome(g, NoAdv))
    BY <1>1, <2>2, <2>3, <2>4, <2>5, UpSound DEF NoAdv
  <2> QED BY <2>1, <2>5, <2>6 DEF Outcome
<1> QED BY <1>2, <1>3 DEF HostState

(***************************************************************************)
(* What the packets in a socket make of a flag                             *)
(***************************************************************************)
LEMMA EmptyHold ==
    ASSUME NEW i PROVE ~WillHold({}, <<>>, i)
  BY DEF WillHold

\* A packet that arrives decides the flag of its id and no other.
LEMMA AppendHold ==
    ASSUME NEW heard, NEW q \in Seq(Adv), NEW m \in Adv, NEW i,
           WillHold(heard, Append(q, m), i)
    PROVE  /\ m.id # i => WillHold(heard, q, i)
           /\ m.id = i => m.pri # 0
<1> DEFINE r == Append(q, m)
<1>1. /\ DOMAIN q = 1 .. Len(q) /\ DOMAIN r = 1 .. Len(q) + 1 /\ Len(q) \in Nat
      /\ \A k \in 1 .. Len(q) : r[k] = q[k]
      /\ r[Len(q) + 1] = m
  OBVIOUS
<1> HIDE DEF r
<1>2. ASSUME m.id = i, m.pri = 0 PROVE FALSE
  <2>1. Len(q) + 1 \in DOMAIN r /\ r[Len(q) + 1].id = i
    BY <1>1, <1>2
  <2>2. PICK k \in DOMAIN r : /\ r[k].id = i /\ r[k].pri # 0
                              /\ \A j \in DOMAIN r : j > k => r[j].id # i
    BY <2>1 DEF WillHold, r
  <2>3. k # Len(q) + 1
    BY <1>1, <1>2, <2>2
  <2>4. k < Len(q) + 1
    BY <1>1, <2>2, <2>3
  <2> QED BY <2>1, <2>2, <2>4
<1>3. ASSUME m.id # i PROVE WillHold(heard, q, i)
  <2>1. CASE i \in heard /\ \A k \in DOMAIN r : r[k].id # i
    <3>1. \A k \in DOMAIN q : q[k].id # i
      BY <1>1, <2>1
    <3> QED BY <2>1, <3>1 DEF WillHold
  <2>2. CASE \E k \in DOMAIN r : /\ r[k].id = i /\ r[k].pri # 0
                                 /\ \A j \in DOMAIN r : j > k => r[j].id # i
    <3>1. PICK k \in DOMAIN r : /\ r[k].id = i /\ r[k].pri # 0
                                /\ \A j \in DOMAIN r : j > k => r[j].id # i
      BY <2>2
    <3>2. k \in DOMAIN q
      BY <1>1, <1>3, <3>1
    <3>3. q[k].id = i /\ q[k].pri # 0 /\ \A j \in DOMAIN q : j > k => q[j].id # i
      BY <1>1, <3>1, <3>2
    <3> QED BY <3>2, <3>3 DEF WillHold
  <2> QED BY <2>1, <2>2 DEF WillHold, r
<1> QED BY <1>2, <1>3

\* Reading or losing the oldest packet sets no flag that it would not set.
LEMMA TailHold ==
    ASSUME NEW h1, NEW h2, NEW q \in Seq(Adv), q # <<>>, NEW i,
           h2 \subseteq h1 \cup {Head(q).id}, Head(q).pri = 0 => Head(q).id \notin h2,
           WillHold(h2, Tail(q), i)
    PROVE  WillHold(h1, q, i)
<1> DEFINE r == Tail(q)
           m == Head(q)
<1>1. /\ DOMAIN q = 1 .. Len(q) /\ DOMAIN r = 1 .. Len(q) - 1 /\ Len(q) \in Nat \ {0}
      /\ \A k \in 1 .. Len(q) - 1 : r[k] = q[k + 1]
      /\ m = q[1]
  OBVIOUS
<1> HIDE DEF r, m
<1>2. CASE i \in h2 /\ \A k \in DOMAIN r : r[k].id # i
  <2>1. \A k \in DOMAIN q : k # 1 => q[k].id # i
    <3> SUFFICES ASSUME NEW k \in DOMAIN q, k # 1 PROVE q[k].id # i
      OBVIOUS
    <3>1. k - 1 \in DOMAIN r /\ r[k - 1] = q[k]
      BY <1>1
    <3> QED BY <1>2, <3>1
  <2>2. CASE m.id = i
    <3>1. 1 \in DOMAIN q /\ q[1].id = i /\ q[1].pri # 0
      BY <1>1, <1>2, <2>2 DEF m
    <3>2. \A j \in DOMAIN q : j > 1 => q[j].id # i
      BY <1>1, <2>1
    <3> QED BY <3>1, <3>2 DEF WillHold
  <2>3. CASE m.id # i
    <3>1. i \in h1
      BY <1>2, <2>3 DEF m
    <3>2. \A k \in DOMAIN q : q[k].id # i
      BY <1>1, <2>1, <2>3
    <3> QED BY <3>1, <3>2 DEF WillHold
  <2> QED BY <2>2, <2>3
<1>3. CASE \E k \in DOMAIN r : /\ r[k].id = i /\ r[k].pri # 0
                               /\ \A j \in DOMAIN r : j > k => r[j].id # i
  <2>1. PICK k \in DOMAIN r : /\ r[k].id = i /\ r[k].pri # 0
                              /\ \A j \in DOMAIN r : j > k => r[j].id # i
    BY <1>3
  <2>2. k + 1 \in DOMAIN q /\ q[k + 1] = r[k]
    BY <1>1
  <2>3. \A j \in DOMAIN q : j > k + 1 => q[j].id # i
    <3> SUFFICES ASSUME NEW j \in DOMAIN q, j > k + 1 PROVE q[j].id # i
      OBVIOUS
    <3>1. j - 1 \in DOMAIN r /\ r[j - 1] = q[j] /\ j - 1 > k
      BY <1>1
    <3> QED BY <2>1, <3>1
  <2> QED BY <2>1, <2>2, <2>3 DEF WillHold
<1> QED BY <1>2, <1>3 DEF WillHold, r

(***************************************************************************)
(* One operation of one host                                               *)
(***************************************************************************)

\* An operation with a sound outcome, after which the host's own flags will hold
\* no more than before, keeps the invariant.
LEMMA ApplyKeeps ==
    ASSUME IInv, NEW x \in Host, NEW o, NEW in \in Seq(Adv), Len(in) <= MaxQ,
           Sound(host[x], o), Apply(x, o, in), cmds' \in 0 .. MaxCmd,
           (o.to.up /\ ~o.to.open) => in = <<>>,
           \A i \in Id : (o.to.up /\ WillHold(o.to.heard, in, i)) =>
                             WillHold(host[x].heard, inbox[x], i)
    PROVE  IInv'
<1> DEFINE adv == [id |-> IdOf[x], pri |-> o.adv]
           to == {y \in Host : o.adv # NoAdv /\ Reaches(x, y)}
<1>1. /\ host \in [Host -> HostState] /\ inbox \in [Host -> Seq(Adv)]
      /\ \A y \in Host : Len(inbox[y]) <= MaxQ
      /\ cmds \in 0 .. MaxCmd /\ fault \in BOOLEAN /\ hung \subseteq Host
  BY DEF IInv, TypeOK
<1>2. /\ o.to \in HostState /\ o.adv \in {NoAdv} \cup 0 .. 255
      /\ HostOk(o.to) /\ o.to.id = host[x].id
      /\ (o.adv # NoAdv /\ o.adv # 0) => Owes(o.to)
      /\ (Owes(host[x]) /\ o.to.up) => (Owes(o.to) \/ o.adv = 0 \/ Overtaken(host[x]))
  BY DEF Sound
<1>3. /\ host' = [host EXCEPT ![x] = o.to]
      /\ inbox' = [y \in Host |->
                     IF y = x THEN IF o.to.up THEN in ELSE <<>>
                     ELSE IF y \in to /\ Fits(y) THEN Append(inbox[y], adv)
                     ELSE inbox[y]]
      /\ hung' = IF o.to.up THEN hung ELSE hung \ {x}
      /\ fault' = \/ fault
                  \/ o.adv = 0 /\ \E y \in to : ~Fits(y)
                  \/ ~o.to.up /\ Owes(host[x])
                  \/ Overtaken(o.to)
  BY DEF Apply
<1>4. o.adv # NoAdv => adv \in Adv
  BY <1>2, LanAssumption DEF Adv
<1>5. adv.id = IdOf[x] /\ adv.pri = o.adv
  OBVIOUS
<1>6. /\ host'[x] = o.to
      /\ \A y \in Host \ {x} : host'[y] = host[y]
      /\ inbox'[x] = (IF o.to.up THEN in ELSE <<>>)
      /\ \A y \in Host \ {x} :
            \/ inbox'[y] = inbox[y] /\ ~(y \in to /\ Fits(y))
            \/ inbox'[y] = Append(inbox[y], adv) /\ y \in to /\ Fits(y)
  BY <1>1, <1>3
<1>7. \A y \in to : y # x /\ host[y].up /\ host[y].open /\ o.adv # NoAdv
  BY DEF Reaches
<1>8. \A y \in Host : y # x /\ host[y].up /\ host[y].open /\ o.adv # NoAdv => y \in to
  BY DEF Reaches
<1> HIDE DEF to, adv
<1>9. TypeOK'
  <2>1. host' \in [Host -> HostState]
    BY <1>1, <1>2, <1>3
  <2>2. \A y \in Host : inbox'[y] \in Seq(Adv) /\ Len(inbox'[y]) <= MaxQ
    <3> SUFFICES ASSUME NEW y \in Host PROVE inbox'[y] \in Seq(Adv) /\ Len(inbox'[y]) <= MaxQ
      OBVIOUS
    <3>1. CASE y = x
      <4>1. <<>> \in Seq(Adv) /\ Len(<<>>) = 0
        OBVIOUS
      <4>2. inbox'[y] = in \/ inbox'[y] = <<>>
        BY <1>6, <3>1
      <4>3. 0 <= MaxQ
        BY LanAssumption
      <4> QED BY <4>1, <4>2, <4>3
    <3>2. CASE y # x /\ inbox'[y] = inbox[y]
      BY <1>1, <3>2
    <3>3. CASE y # x /\ inbox'[y] = Append(inbox[y], adv) /\ y \in to /\ Fits(y)
      <4>1. adv \in Adv /\ inbox[y] \in Seq(Adv) /\ Len(inbox[y]) < MaxQ
        BY <1>1, <1>4, <1>7, <3>3 DEF Fits
      <4>2. Append(inbox[y], adv) \in Seq(Adv) /\ Len(Append(inbox[y], adv)) = Len(inbox[y]) + 1
        BY <4>1
      <4> QED BY <3>3, <4>1, <4>2, LanAssumption
    <3> QED BY <1>6, <3>1, <3>2, <3>3
  <2>3. inbox' \in [Host -> Seq(Adv)]
    <3>1. inbox' = [y \in Host |-> inbox'[y]]
      BY <1>3
    <3> QED BY <2>2, <3>1
  <2>4. fault' \in BOOLEAN /\ hung' \subseteq Host
    BY <1>1, <1>3
  <2> QED BY <2>1, <2>2, <2>3, <2>4 DEF TypeOK
<1>10. fault => fault'
  BY <1>3
<1>11. HostsOk'
  <2> SUFFICES ASSUME NEW y \in Host
               PROVE  /\ HostOk(host'[y]) /\ host'[y].id = IdOf[y]
                      /\ ~host'[y].open => inbox'[y] = <<>>
                      /\ Overtaken(host'[y]) => fault'
    BY DEF HostsOk, HostOk, Overtaken
  <2>1. HostOk(host[y]) /\ host[y].id = IdOf[y] /\ (~host[y].open => inbox[y] = <<>>)
        /\ (Overtaken(host[y]) => fault)
    BY DEF IInv, HostsOk
  <2>2. CASE y = x
    BY <1>2, <1>3, <1>6, <2>1, <2>2
  <2>3. CASE y # x
    BY <1>6, <1>7, <1>10, <2>1, <2>3
  <2> QED BY <2>2, <2>3
<1>12. FlagsWillBeTrue'
  <2> SUFFICES ASSUME ~fault', NEW y \in Host, NEW i \in Id,
                      WillHold(host'[y].heard, inbox'[y], i)
               PROVE  \E z \in Host \ {y} : IdOf[z] = i /\ Owes(host'[z])
    BY DEF FlagsWillBeTrue, WillHold, Owes
  <2>1. ~fault /\ ~Overtaken(host[x])
    BY <1>10 DEF IInv, HostsOk
  <2>2. ASSUME NEW w \in Host, WillHold(host[w].heard, inbox[w], i)
        PROVE  \E z \in Host \ {w} : IdOf[z] = i /\ Owes(host[z])
    BY <2>1, <2>2 DEF IInv, FlagsWillBeTrue
  <2>3. CASE y = x
    <3>1. CASE ~o.to.up
      <4>1. host'[x].heard = {} /\ inbox'[x] = <<>>
        BY <1>2, <1>6, <3>1 DEF HostOk, Down
      <4> QED BY <2>3, <4>1, EmptyHold
    <3>2. CASE o.to.up
      <4>1. WillHold(host[x].heard, inbox[x], i)
        BY <1>6, <2>3, <3>2
      <4> QED BY <1>6, <2>2, <2>3, <4>1
    <3> QED BY <3>1, <3>2
  <2>4. CASE y # x /\ inbox'[y] = inbox[y] /\ ~(y \in to /\ Fits(y))
    <3>1. WillHold(host[y].heard, inbox[y], i)
      BY <1>6, <2>4
    <3>2. PICK z \in Host \ {y} : IdOf[z] = i /\ Owes(host[z])
      BY <2>2, <3>1
    <3>3. CASE z # x
      BY <1>6, <3>2, <3>3
    <3>4. CASE z = x
      <4>1. o.to.up
        BY <1>3, <3>2, <3>4
      <4>2. CASE Owes(o.to)
        BY <1>6, <3>2, <3>4, <4>2
      <4>3. CASE o.adv = 0
        <5>1. y \notin to
          BY <1>3, <2>4, <4>3
        <5>2. ~host[y].up \/ ~host[y].open
          BY <1>8, <2>4, <4>3, <5>1 DEF NoAdv
        <5>3. HostOk(host[y]) /\ (~host[y].open => inbox[y] = <<>>)
          BY DEF IInv, HostsOk
        <5>4. ~host[y].open
          BY <5>2, <5>3 DEF HostOk, Down
        <5>5. host[y].heard = {} /\ inbox[y] = <<>>
          BY <5>3, <5>4 DEF HostOk
        <5> QED BY <3>1, <5>5, EmptyHold
      <4> QED BY <1>2, <2>1, <3>2, <3>4, <4>1, <4>2, <4>3
    <3> QED BY <3>3, <3>4
  <2>5. CASE y # x /\ inbox'[y] = Append(inbox[y], adv) /\ y \in to /\ Fits(y)
    <3>1. /\ adv \in Adv /\ inbox[y] \in Seq(Adv)
          /\ WillHold(host[y].heard, Append(inbox[y], adv), i)
      BY <1>1, <1>4, <1>6, <1>7, <2>5
    <3>2. CASE adv.id = i
      <4>1. o.adv # 0 /\ o.adv # NoAdv
        BY <1>5, <1>7, <2>5, <3>1, <3>2, AppendHold
      <4> QED BY <1>2, <1>5, <1>6, <2>5, <3>2, <4>1
    <3>3. CASE adv.id # i
      <4>1. WillHold(host[y].heard, inbox[y], i)
        BY <3>1, <3>3, AppendHold
      <4>2. PICK z \in Host \ {y} : IdOf[z] = i /\ Owes(host[z])
        BY <2>2, <4>1
      <4> QED BY <1>5, <1>6, <3>3, <4>2
    <3> QED BY <3>2, <3>3
  <2> QED BY <1>6, <2>3, <2>4, <2>5
<1> QED BY <1>9, <1>11, <1>12 DEF IInv

\* An operation that reads nothing.
LEMMA DeafKeeps ==
    ASSUME IInv, NEW x \in Host, NEW o, SoundAndDeaf(host[x], o), Apply(x, o, inbox[x]),
           cmds' \in 0 .. MaxCmd
    PROVE  IInv'
<1>1. inbox[x] \in Seq(Adv) /\ Len(inbox[x]) <= MaxQ
  BY DEF IInv, TypeOK
<1>2. Sound(host[x], o) /\ (o.to.up => o.to.heard = host[x].heard)
  BY DEF SoundAndDeaf
<1>3. (o.to.up /\ ~o.to.open) => inbox[x] = <<>>
  BY <1>2 DEF Sound, IInv, HostsOk
<1>4. \A i \in Id : (o.to.up /\ WillHold(o.to.heard, inbox[x], i)) =>
                        WillHold(host[x].heard, inbox[x], i)
  BY <1>2
<1> QED BY <1>1, <1>2, <1>3, <1>4, ApplyKeeps

(***************************************************************************)
(* The steps                                                               *)
(***************************************************************************)
LEMMA InitOk == Init => IInv
<1> SUFFICES ASSUME Init PROVE IInv
  OBVIOUS
<1>1. <<>> \in Seq(Adv) /\ <<>> \in Seq(Todo) /\ Len(<<>>) = 0
  OBVIOUS
<1>2. \A x \in Host : host[x] = Down(IdOf[x]) /\ inbox[x] = <<>> /\ IdOf[x] \in Id
  BY LanAssumption DEF Init
<1>3. \A i \in Id : Down(i) \in HostState /\ HostOk(Down(i)) /\ Down(i).id = i
                    /\ Down(i).heard = {} /\ ~Overtaken(Down(i))
  <2> SUFFICES ASSUME NEW i \in Id
               PROVE  Down(i) \in HostState /\ HostOk(Down(i)) /\ Down(i).id = i
                      /\ Down(i).heard = {} /\ ~Overtaken(Down(i))
    OBVIOUS
  <2>1. Down(i) \in HostState /\ Down(i).id = i /\ Down(i).heard = {} /\ ~Overtaken(Down(i))
    BY <1>1 DEF HostState, Down, Overtaken
  <2>2. NoAdv \in {NoAdv, 0}
    OBVIOUS
  <2>3. SoundAndDeaf(Down(i), Outcome(Down(i), NoAdv))
    BY <2>1, <2>2, DownSound
  <2>4. HostOk(Down(i))
    BY <2>3 DEF SoundAndDeaf, Sound, Outcome
  <2> QED BY <2>1, <2>4
<1>4. TypeOK
  <2>1. host \in [Host -> HostState]
    BY <1>2, <1>3, LanAssumption DEF Init
  <2>2. inbox \in [Host -> Seq(Adv)]
    BY <1>1 DEF Init
  <2>3. \A x \in Host : Len(inbox[x]) <= MaxQ
    <3>1. 0 <= MaxQ /\ \A x \in Host : Len(inbox[x]) = 0
      BY <1>1, <1>2, LanAssumption
    <3> QED BY <3>1
  <2>4. cmds \in 0 .. MaxCmd
    BY LanAssumption DEF Init
  <2>5. fault \in BOOLEAN /\ hung \subseteq Host
    BY DEF Init
  <2> QED BY <2>1, <2>2, <2>3, <2>4, <2>5 DEF TypeOK
<1>5. HostsOk
  BY <1>2, <1>3 DEF HostsOk
<1>6. FlagsWillBeTrue
  <2>1. \A x \in Host : host[x].heard = {} /\ inbox[x] = <<>>
    BY <1>2, <1>3
  <2>2. \A x \in Host : \A i \in Id : ~WillHold(host[x].heard, inbox[x], i)
    BY <2>1, EmptyHold
  <2> QED BY <2>2 DEF FlagsWillBeTrue
<1> QED BY <1>4, <1>5, <1>6 DEF IInv

LEMMA ReceivesOk ==
    ASSUME IInv, NEW x \in Host, Receives(x) PROVE IInv'
<1> DEFINE m == Head(inbox[x])
<1>1. /\ inbox[x] # <<>> /\ inbox[x] \in Seq(Adv) /\ Len(inbox[x]) <= MaxQ
      /\ host[x] \in HostState /\ cmds' \in 0 .. MaxCmd
  BY DEF IInv, TypeOK, Receives
<1>2. Tail(inbox[x]) \in Seq(Adv) /\ Len(Tail(inbox[x])) <= MaxQ /\ m \in Adv
  BY <1>1, LanAssumption
<1>3. m.id \in Id /\ m.pri \in 0 .. 255
  BY <1>2 DEF Adv
<1>4. HostOk(host[x]) /\ host[x].open
  BY <1>1 DEF IInv, HostsOk
<1> HIDE DEF m
<1>5. CASE m.pri = 0
  <2>1. PICK o \in ReceiveStop(host[x], m.id) : Apply(x, o, Tail(inbox[x]))
    BY <1>5 DEF Receives, m
  <2>2. Sound(host[x], o) /\ (o.to.up => o.to.heard = host[x].heard \ {m.id})
    BY <1>1, <1>3, <1>4, <2>1, ReceiveStopSound
  <2>3. o.to.up => o.to.open
    BY <1>4, <2>2 DEF Sound
  <2>4. \A i \in Id : (o.to.up /\ WillHold(o.to.heard, Tail(inbox[x]), i)) =>
                          WillHold(host[x].heard, inbox[x], i)
    BY <1>1, <2>2, TailHold DEF m
  <2> QED BY <1>1, <1>2, <2>1, <2>2, <2>3, <2>4, ApplyKeeps
<1>6. CASE m.pri # 0
  <2>1. PICK o \in ReceiveAdv(host[x], m.id, m.pri) : Apply(x, o, Tail(inbox[x]))
    BY <1>6 DEF Receives, m
  <2>2. Sound(host[x], o) /\ (o.to.up => o.to.heard = host[x].heard \cup {m.id})
    BY <1>1, <1>3, <1>4, <2>1, ReceiveAdvSound
  <2>3. o.to.up => o.to.open
    BY <1>4, <2>2 DEF Sound
  <2>4. \A i \in Id : (o.to.up /\ WillHold(o.to.heard, Tail(inbox[x]), i)) =>
                          WillHold(host[x].heard, inbox[x], i)
    BY <1>1, <1>6, <2>2, TailHold DEF m
  <2> QED BY <1>1, <1>2, <2>1, <2>2, <2>3, <2>4, ApplyKeeps
<1> QED BY <1>5, <1>6

LEMMA CrashesOk ==
    ASSUME IInv, NEW x \in Host, Crashes(x) PROVE IInv'
<1>1. host[x] \in HostState /\ HostOk(host[x]) /\ cmds' \in 0 .. MaxCmd
  BY DEF IInv, TypeOK, HostsOk, Crashes
<1>2. PICK o \in Crash(host[x]) : Apply(x, o, <<>>)
  BY DEF Crashes
<1>3. Sound(host[x], o) /\ ~o.to.up
  BY <1>1, CrashSound DEF SoundAndDeaf, Crash, When, Silent, Outcome, Down
<1>4. <<>> \in Seq(Adv) /\ Len(<<>>) <= MaxQ
  BY LanAssumption
<1> QED BY <1>1, <1>2, <1>3, <1>4, ApplyKeeps

LEMMA LosesOk ==
    ASSUME IInv, NEW x \in Host, Loses(x) PROVE IInv'
<1> DEFINE m == Head(inbox[x])
<1>1. /\ inbox \in [Host -> Seq(Adv)] /\ fault \in BOOLEAN
      /\ inbox[x] # <<>> /\ \A y \in Host : Len(inbox[y]) <= MaxQ
      /\ inbox' = [inbox EXCEPT ![x] = Tail(@)] /\ fault' = (fault \/ m.pri = 0)
      /\ host' = host /\ cmds' = cmds /\ hung' = hung
  BY DEF IInv, TypeOK, Loses
<1>2. Tail(inbox[x]) \in Seq(Adv) /\ Len(Tail(inbox[x])) <= MaxQ
  BY <1>1, LanAssumption
<1>3. inbox'[x] = Tail(inbox[x]) /\ \A y \in Host \ {x} : inbox'[y] = inbox[y]
  BY <1>1
<1>4. TypeOK'
  <2>1. inbox' \in [Host -> Seq(Adv)]
    BY <1>1, <1>2
  <2>2. \A y \in Host : Len(inbox'[y]) <= MaxQ
    BY <1>1, <1>2, <1>3
  <2> QED BY <1>1, <2>1, <2>2 DEF IInv, TypeOK
<1>5. HostsOk'
  <2> SUFFICES ASSUME NEW y \in Host
               PROVE  /\ HostOk(host[y]) /\ host[y].id = IdOf[y]
                      /\ ~host[y].open => inbox'[y] = <<>>
                      /\ Overtaken(host[y]) => fault'
    BY <1>1 DEF HostsOk, HostOk, Overtaken
  <2>1. HostOk(host[y]) /\ host[y].id = IdOf[y] /\ (~host[y].open => inbox[y] = <<>>)
        /\ (Overtaken(host[y]) => fault)
    BY DEF IInv, HostsOk
  <2> QED BY <1>1, <1>3, <2>1
<1>6. FlagsWillBeTrue'
  <2> SUFFICES ASSUME ~fault', NEW y \in Host, NEW i \in Id,
                      WillHold(host[y].heard, inbox'[y], i)
               PROVE  \E z \in Host \ {y} : IdOf[z] = i /\ Owes(host[z])
    BY <1>1 DEF FlagsWillBeTrue, WillHold, Owes
  <2>1. ~fault /\ m.pri # 0
    BY <1>1
  <2>2. WillHold(host[y].heard, inbox[y], i)
    <3>1. CASE y = x
      BY <1>1, <1>3, <2>1, <3>1, TailHold
    <3>2. CASE y # x
      BY <1>3, <3>2
    <3> QED BY <3>1, <3>2
  <2> QED BY <2>1, <2>2 DEF IInv, FlagsWillBeTrue
<1> QED BY <1>4, <1>5, <1>6 DEF IInv

\* A daemon that hangs leaves all else as it is.
LEMMA HangsOk ==
    ASSUME IInv, NEW x \in Host, Hangs(x) PROVE IInv'
<1>1. /\ hung' \subseteq Host
      /\ host' = host /\ inbox' = inbox /\ cmds' = cmds /\ fault' = fault
  BY DEF Hangs, IInv, TypeOK
<1>2. TypeOK'
  BY <1>1 DEF IInv, TypeOK
<1>3. HostsOk' /\ FlagsWillBeTrue'
  BY <1>1 DEF IInv, HostsOk, FlagsWillBeTrue, WillHold, HostOk, Owes, Overtaken
<1> QED BY <1>2, <1>3 DEF IInv

LEMMA NextOk == IInv /\ [Next]_vars => IInv'
<1> SUFFICES ASSUME IInv, [Next]_vars PROVE IInv'
  OBVIOUS
<1>1. CASE UNCHANGED vars
  BY <1>1 DEF vars, IInv, TypeOK, HostsOk, FlagsWillBeTrue, WillHold, HostOk, Owes, Overtaken
<1>2. ASSUME NEW x \in Host,
             \/ Commands(x) \/ Works(x) \/ Expires(x) \/ Forks(x)
             \/ Receives(x) \/ Hangs(x) \/ Crashes(x) \/ Boots(x) \/ Loses(x)
      PROVE  IInv'
  <2>1. host[x] \in HostState /\ HostOk(host[x]) /\ cmds \in 0 .. MaxCmd
    BY DEF IInv, TypeOK, HostsOk
  <2>2. CASE Commands(x)
    <3>1. PICK o \in Command(host[x]) : Apply(x, o, inbox[x])
      BY <2>2 DEF Commands
    <3>2. cmds' \in 0 .. MaxCmd
      BY <2>1, <2>2, LanAssumption DEF Commands
    <3> QED BY <2>1, <3>1, <3>2, CommandSound, DeafKeeps
  <2>3. CASE Works(x)
    BY <2>1, <2>3, DoSound, DeafKeeps DEF Works
  <2>4. CASE Expires(x)
    BY <2>1, <2>4, AlarmSound, DeafKeeps DEF Expires
  <2>5. CASE Forks(x)
    BY <2>1, <2>5, StartRouterSound, DeafKeeps DEF Forks
  <2>6. CASE Boots(x)
    BY <2>1, <2>6, BootSound, DeafKeeps DEF Boots
  <2> QED BY <1>2, <2>2, <2>3, <2>4, <2>5, <2>6, ReceivesOk, HangsOk, CrashesOk,
            LosesOk
<1> QED BY <1>1, <1>2 DEF Next

THEOREM InductiveInvariant == Spec => []IInv
  BY InitOk, NextOk, PTL DEF Spec

\* Type correctness: priorities stay a byte whatever modify is given, a socket holds at
\* most MaxQ packets, and a daemon owes at most four steps before it polls again.
THEOREM TypeCorrect == Spec => []TypeOK
<1>1. IInv => TypeOK
  BY DEF IInv
<1> QED BY <1>1, InductiveInvariant, PTL

\* flag[] tells the truth on any LAN: as long as no stop advertisement is lost or left
\* out, a host that has read its socket has the flag of an id set only if another
\* host is still master of that id or is about to tell that it is not.
THEOREM FlagsTellTheTruth == Spec => []FlagIsTrue
<1>1. IInv => FlagIsTrue
  <2> SUFFICES ASSUME IInv, ~fault, NEW x \in Host, inbox[x] = <<>>, NEW i \in host[x].heard
               PROVE  \E y \in Host \ {x} : IdOf[y] = i /\ Owes(host[y])
    BY DEF FlagIsTrue
  <2>1. i \in Id
    BY DEF IInv, TypeOK, HostState
  <2>2. WillHold(host[x].heard, inbox[x], i)
    BY DEF WillHold
  <2> QED BY <2>1, <2>2 DEF IInv, FlagsWillBeTrue
<1> QED BY <1>1, InductiveInvariant, PTL

\* No backup waits for nobody: as long as no stop advertisement is lost or left out, a
\* LAN at rest that has a backup (vrrp_state_i2b and m2b, any_master_up) has a master.
THEOREM NoBackupIsOrphan == Spec => []NoOrphan
<1>1. IInv => NoOrphan
  <2> SUFFICES ASSUME IInv, ~fault, Quiet, NEW x \in Host, Backup(x)
               PROVE  \E i \in Id : Masters(i) # {}
    BY DEF NoOrphan
  <2>1. PICK i \in host[x].heard : TRUE
    BY DEF Quiet, Backup, IInv, HostsOk, HostOk
  <2>2. i \in Id /\ inbox[x] = <<>>
    BY DEF IInv, TypeOK, HostState, Quiet
  <2>3. WillHold(host[x].heard, inbox[x], i)
    BY <2>2 DEF WillHold
  <2>4. PICK y \in Host : IdOf[y] = i /\ Owes(host[y])
    BY <2>2, <2>3 DEF IInv, FlagsWillBeTrue
  <2>5. host[y].st = "MAST"
    BY <2>4 DEF Owes, Quiet
  <2> QED BY <2>2, <2>4, <2>5 DEF Masters
<1> QED BY <1>1, InductiveInvariant, PTL
=============================================================================
