------------------------------ MODULE AdvQueue ------------------------------
(***************************************************************************)
(* The advertisement queue as its callers see it: the calls of             *)
(* vrrp_enqueue_impl, vrrp_rmqueue_impl, vrrp_rmqueue and vrrp_dequeue in  *)
(* any order, together with the one alarm clock of the process, reduced to *)
(* whether an alarm is pending.                                            *)
(***************************************************************************)
EXTENDS AdvQueueOps

VARIABLES q,      \* adv_q and the links of every VR
          armed,  \* an alarm is pending
          up      \* FALSE once a NULL pointer was written through, or once a
                  \* search of the queue goes round for ever

vars == <<q, armed, up>>

Init == q = EmptyQueue /\ armed = FALSE /\ up = TRUE

\* A timeout of a second or more: ualarm() rejects it, the clock is untouched.
Enqueue(e) ==
    /\ up
    /\ q' = vrrp_enqueue_impl(q, e)
    /\ UNCHANGED <<armed, up>>

\* A zero timeout: ualarm(0) stops the clock, and the closing ualarm() starts
\* it again only if less than a second was left and the queue was not empty.
EnqueueNow(e) ==
    /\ up
    /\ q' = vrrp_enqueue_impl(q, e)
    /\ armed' \in {FALSE, armed}
    /\ q.head = NULL => armed' = FALSE
    /\ UNCHANGED up

\* vrrp_rmqueue, and vrrp_enqueue with the timeout left in the entry (INIT).  Any
\* value may be left: a search for it may end at any place of the queue, at a
\* NULL pointer, or never; any alarm may be pending afterwards.
Requeue(e) ==
    /\ up
    /\ Linked(q, e)
    /\ LET q0 == vrrp_rmqueue_impl(q, e)
       IN \/ /\ ~RmqueueCrashes(q, e)
             /\ \/ q0.head = NULL /\ q' = vrrp_enqueue_impl(q0, e)
                \/ \E c \in Chain(q0) : q' = enqueueBefore(q0, e, c)
             /\ armed' \in BOOLEAN
             /\ UNCHANGED up
          \/ /\ RmqueueCrashes(q, e) \/ q0.head # NULL
             /\ up' = FALSE
             /\ UNCHANGED <<q, armed>>

RmqueueImpl(e) ==
    /\ up
    /\ IF RmqueueCrashes(q, e)
       THEN up' = FALSE /\ UNCHANGED q
       ELSE q' = vrrp_rmqueue_impl(q, e) /\ UNCHANGED up
    /\ UNCHANGED armed

\* vrrp_rmqueue: the same call, unless the entry has no link
Rmqueue(e) == Linked(q, e) /\ RmqueueImpl(e)

Dequeue == q.head # NULL /\ RmqueueImpl(q.head)

\* alarm(delay), with delay = 0 it cancels
Alarm(on) == up /\ armed' = on /\ UNCHANGED <<q, up>>

Fire == up /\ armed /\ armed' = FALSE /\ UNCHANGED <<q, up>>

Next == \/ \E e \in Vr : Enqueue(e) \/ EnqueueNow(e) \/ Requeue(e)
        \/ \E e \in Vr : RmqueueImpl(e) \/ Rmqueue(e)
        \/ Dequeue
        \/ \E on \in BOOLEAN : Alarm(on)
        \/ Fire

Spec == Init /\ [][Next]_vars

-----------------------------------------------------------------------------
\* The links are pointers to VRs or NULL.
TypeOK == q \in Queues /\ armed \in BOOLEAN /\ up \in BOOLEAN

\* With a single VR its two links agree, and a VR linked to itself (what a
\* second vrrp_enqueue_impl of the queued VR makes of it) is the head.
SoloShape ==
    \A e \in Vr : Vr = {e} =>
        /\ q.next[e] = q.prev[e]
        /\ q.next[e] = e => q.head = e
=============================================================================
