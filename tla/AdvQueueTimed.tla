--------------------------- MODULE AdvQueueTimed ---------------------------
(***************************************************************************)
(* The advertisement queue with its timeouts, in microseconds: the delta   *)
(* list that vrrp_enqueue_impl means to keep, and the interval timer that  *)
(* alarm() and ualarm() share.  Arithmetic is that of useconds_t.          *)
(***************************************************************************)
EXTENDS AdvQueueOps, Naturals, FiniteSets

CONSTANTS USEC,      \* microseconds in a second (VRRP_SEC2USEC)
          WORD,      \* useconds_t counts modulo WORD
          MaxDelay   \* the longest advertisement interval, in seconds

\* 3 * MaxDelay seconds, plus the second that VRRP_SEC2USEC((256-pri)/256) is
\* for pri = 0, plus one more, fit in useconds_t.
ASSUME TimeAssumption ==
    /\ USEC \in Nat \ {0} /\ WORD \in Nat /\ MaxDelay \in Nat
    /\ (3 * MaxDelay + 2) * USEC < WORD

ASSUME VrAssumption == IsFiniteSet(Vr)

VARIABLES q,        \* adv_q and the links of every VR
          timeout,  \* the field timeout of every VR
          timer,    \* microseconds until the pending alarm, 0 if none
          up        \* FALSE once a NULL pointer was written through, or once
                    \* the search loop goes round for ever

vars == <<q, timeout, timer, up>>

\* useconds_t
Usec == 0 .. WORD - 1

\* What vrrp_enqueue stores in entry->timeout in the states MAST and BACK: delay,
\* or 3 * delay plus skew.  In INIT it stores nothing: Requeue.
Timeouts == {d * USEC : d \in 0 .. MaxDelay}
            \cup {(3 * d + s) * USEC : d \in 0 .. MaxDelay, s \in 0 .. 1}

Init == /\ q = EmptyQueue
        /\ timeout = [v \in Vr |-> 0]
        /\ timer = 0
        /\ up = TRUE

\* ualarm(t, 0): a second or more is EINVAL, which leaves the timer alone and
\* reads as the largest useconds_t; otherwise the time that was left.
ualarm(left, t) == IF t >= USEC THEN [ret |-> WORD - 1, left |-> left]
                               ELSE [ret |-> left, left |-> t]

\* mutant: the loop also passes an entry whose time is reached exactly
walkStrict(qq, to, sum0, t) ==
    IF sum0 > t THEN [curr |-> qq.head, sum |-> sum0]
    ELSE [curr |-> qq.next[qq.head], sum |-> (sum0 + to[qq.head]) % WORD]

\* A loop that has not ended after this many rounds, as many as curr and sum have
\* values, repeats itself and never ends.
Rounds == Cardinality(Vr) * WORD

\* curr and sum after n rounds of the search loop: curr moves on while the sum of
\* the timeouts passed is still below the entry's.
search(qq, to, sum0, t) ==
    LET step[n \in 0 .. Rounds] ==
            IF n = 0 THEN [curr |-> qq.head, sum |-> sum0]
            ELSE LET w == step[n - 1]
                 IN IF w.curr = NULL \/ w.sum >= t THEN w
                    ELSE [curr |-> qq.next[w.curr],
                          sum |-> (w.sum + to[w.curr]) % WORD]
    IN step

walk(qq, to, sum0, t) == search(qq, to, sum0, t)[Rounds]

\* Linking before curr; the timeouts follow the links.
insertBefore(qq, to, e, t, w, left) ==
    LET mine == (w.sum + (WORD - t)) % WORD
        to1 == [to EXCEPT ![e] = mine]
        to2 == IF w.curr = qq.head THEN to1
               ELSE [to1 EXCEPT ![e] = (@ + (WORD - mine)) % WORD]
    IN /\ q' = enqueueBefore(qq, e, w.curr)
       /\ timeout' = to2
       /\ timer' = ualarm(left, to2[q'.head]).left
       /\ UNCHANGED up

\* vrrp_enqueue_impl(entry) with entry->timeout = t.  Where curr has run off
\* the end of the queue, both branches write through it.
enqueueFrom(qq, to, e, t) ==
    LET first == ualarm(timer, t)
        w == walk(qq, to, first.ret, t)
    IN IF qq.head = NULL
       THEN /\ q' = clearPrev(setHead(qq, e), e)
            /\ timeout' = [to EXCEPT ![e] = 0]
            /\ timer' = first.left
            /\ UNCHANGED up
       ELSE IF w.curr = NULL \/ w.sum < t
            THEN up' = FALSE /\ UNCHANGED <<q, timeout, timer>>
            ELSE insertBefore(qq, to, e, t, w, first.left)

Enqueue(e, t) == up /\ enqueueFrom(q, timeout, e, t)

\* mutant: the sum of two timeouts is kept in a wider type
RmqueueWide(e) ==
    /\ up
    /\ ~RmqueueCrashes(q, e)
    /\ q' = vrrp_rmqueue_impl(q, e)
    /\ timeout' = IF q.next[e] = NULL THEN timeout
                  ELSE [timeout EXCEPT ![q.prev[e]] = @ + timeout[e]]
    /\ UNCHANGED <<timer, up>>

\* the predecessor inherits the removed entry's timeout; the head linked to itself
\* is its own predecessor
bequeath(e) == IF q.next[e] = NULL THEN timeout
               ELSE [timeout EXCEPT ![q.prev[e]] = (@ + timeout[e]) % WORD]

\* mutant: a successor without a predecessor is passed over
RmqueueImplTolerant(e) ==
    /\ up
    /\ q' = vrrp_rmqueue_impl(q, e)
    /\ timeout' = IF RmqueueCrashes(q, e) THEN timeout ELSE bequeath(e)
    /\ UNCHANGED <<timer, up>>

\* vrrp_rmqueue_impl
RmqueueImpl(e) ==
    /\ up
    /\ IF RmqueueCrashes(q, e)
       THEN up' = FALSE /\ UNCHANGED <<q, timeout>>
       ELSE q' = vrrp_rmqueue_impl(q, e) /\ timeout' = bequeath(e) /\ UNCHANGED up
    /\ UNCHANGED timer

Rmqueue(e) == Linked(q, e) /\ RmqueueImpl(e)

\* vrrp_set_inst_prop with a new interval: vrrp_rmqueue and, if it found the entry
\* linked, vrrp_enqueue.  In INIT that assigns no timeout, and the one left in the
\* entry is used again, whatever the removals and insertions have made of it.
Requeue(e) ==
    /\ up
    /\ Linked(q, e)
    /\ IF RmqueueCrashes(q, e)
       THEN up' = FALSE /\ UNCHANGED <<q, timeout, timer>>
       ELSE enqueueFrom(vrrp_rmqueue_impl(q, e), bequeath(e), e, bequeath(e)[e])

Dequeue == q.head # NULL /\ RmqueueImpl(q.head)

Alarm(d) == up /\ timer' = d * USEC /\ UNCHANGED <<q, timeout, up>>

Elapse == up /\ timer' \in 1 .. timer - 1 /\ UNCHANGED <<q, timeout, up>>

Fire == up /\ timer # 0 /\ timer' = 0 /\ UNCHANGED <<q, timeout, up>>

Next == \/ \E e \in Vr, t \in Timeouts : Enqueue(e, t)
        \/ \E e \in Vr : RmqueueImpl(e) \/ Rmqueue(e) \/ Requeue(e)
        \/ Dequeue
        \/ \E d \in 0 .. MaxDelay : Alarm(d)
        \/ Elapse
        \/ Fire

Spec == Init /\ [][Next]_vars

-----------------------------------------------------------------------------
\* useconds_t holds every timeout and the time left on the clock.  ualarm() sets it
\* to less than a second, alarm() to an interval.
TypeOK == /\ q \in Queues
          /\ timeout \in [Vr -> Usec]
          /\ timer \in 0 .. (MaxDelay + 1) * USEC
          /\ up \in BOOLEAN

Untimed == INSTANCE AdvQueue WITH armed <- (timer # 0)

\* The delays that vrrp_enqueue assigns never decide the place of an entry: ualarm()
\* rejects a second or more, so that vrrp_enqueue_impl always links at the head and
\* never crashes, whatever timeouts the queue holds by then, those that a leftover
\* one has brought in included.
LinksAtTheHead ==
    [][\A e \in Vr, t \in Timeouts :
          Enqueue(e, t) => Untimed!Enqueue(e) \/ Untimed!EnqueueNow(e)]_vars

\* The queue with timeouts behaves as the queue without them; with a timeout left
\* in INIT the search stays on the queue, runs off its end or never ends.
ImplementsUntimed == Untimed!Spec

\* With a single VR the two links always agree, and no sequence of queue calls and
\* alarms writes through a NULL pointer, but for a requeue with a timeout left in
\* INIT (vrrpd_impl.c:410): the removed VR is then still the head, and the search
\* runs off it.
SoloSafe ==
    /\ []Untimed!SoloShape
    /\ [][\A e \in Vr : Vr = {e} /\ ~up' => Requeue(e)]_vars
=============================================================================
