---------------------------- MODULE AdvQueueOps ----------------------------
(***************************************************************************)
(* The advertisement queue of vrrpd_impl.c as a data structure: the global *)
(* head adv_q and, in every VR, the links qnext and qprev.  A queue is a   *)
(* record [head, next, prev].  The operators are the pointer assignments   *)
(* of vrrp_enqueue_impl and vrrp_rmqueue_impl, one operator per            *)
(* assignment, in the order of the code; the two functions are their       *)
(* compositions.  An assignment through a NULL pointer is a crash and has  *)
(* a predicate of its own.                                                 *)
(*                                                                         *)
(* The timeouts do not appear here.  AdvQueueTimed shows that the delays   *)
(* the callers ask for never influence the place at which an entry is      *)
(* linked; what may is a timeout left in a VR, which vrrp_enqueue passes   *)
(* on in INIT: enqueueBefore is for both.                                  *)
(***************************************************************************)
CONSTANTS Vr,     \* the VR objects the daemon ever allocates
          NULL    \* the null pointer

ASSUME NullAssumption == NULL \notin Vr

Ptr == Vr \cup {NULL}

Queues == [head : Ptr, next : [Vr -> Ptr], prev : [Vr -> Ptr]]

\* Nothing is linked: adv_q is a zeroed global, every VR is bzero'ed.
EmptyQueue == [head |-> NULL,
               next |-> [v \in Vr |-> NULL],
               prev |-> [v \in Vr |-> NULL]]

(***************************************************************************)
(* vrrp_rmqueue_impl                                                       *)
(***************************************************************************)

\* "is entry first node ?": the predecessor, or adv_q, skips the entry
bypassEntry(q, e) ==
    IF q.prev[e] = NULL
    THEN [q EXCEPT !.head = q.next[e]]
    ELSE [q EXCEPT !.next[q.prev[e]] = q.next[e]]

\* the successor's back link; the next statement adds to the predecessor's
\* timeout without asking whether there is a predecessor
relinkSuccessor(q, e) ==
    IF q.next[e] = NULL THEN q ELSE [q EXCEPT !.prev[q.next[e]] = q.prev[e]]

clearNext(q, e) == [q EXCEPT !.next[e] = NULL]
clearPrev(q, e) == [q EXCEPT !.prev[e] = NULL]

\* entry->qprev->timeout is written with qprev = NULL
RelinkCrashes(q, e) == q.next[e] # NULL /\ q.prev[e] = NULL

vrrp_rmqueue_impl(q, e) ==
    clearPrev(clearNext(relinkSuccessor(bypassEntry(q, e), e), e), e)

\* The whole call crashes exactly when it starts with a successor and
\* without a predecessor: bypassing the entry changes neither of its links.
RmqueueCrashes(q, e) == RelinkCrashes(q, e)

(***************************************************************************)
(* vrrp_enqueue_impl: the empty queue, and linking before a place found    *)
(***************************************************************************)

setHead(q, e) == [q EXCEPT !.head = e]

linkBefore(q, e, curr) == [q EXCEPT !.next[e] = curr]
linkBack(q, e, curr) == [q EXCEPT !.prev[curr] = e]

\* curr->qprev is read after linkBack has overwritten it
inheritPrev(q, e, curr) == [q EXCEPT !.prev[e] = q.prev[curr]]

\* adv_q = entry when curr is still the head, entry->qprev->qnext otherwise
publish(q, e, curr) ==
    IF curr = q.head
    THEN setHead(q, e)
    ELSE [q EXCEPT !.next[q.prev[e]] = e]

\* The back link is curr's, and that is the entry by now: before any place but
\* the head the entry ends linked to itself, and nothing leads to it.
enqueueBefore(q, e, curr) ==
    publish(inheritPrev(linkBack(linkBefore(q, e, curr), e, curr), e, curr),
            e, curr)

\* with a search that ends before its first round
vrrp_enqueue_impl(q, e) ==
    IF q.head = NULL
    THEN clearPrev(setHead(q, e), e)
    ELSE enqueueBefore(q, e, q.head)

\* The VRs that following qnext from adv_q meets: those of every set that holds
\* the head and the successors of its members.
Chain(q) ==
    {v \in Vr : \A S \in SUBSET Vr :
                   (q.head \in S \cup {NULL} /\ \A u \in S : q.next[u] \in S \cup {NULL})
                      => v \in S}

(***************************************************************************)
(* vrrp_rmqueue: the entry counts as queued when it has a link             *)
(***************************************************************************)
Linked(q, e) == q.next[e] # NULL \/ q.prev[e] # NULL

=============================================================================
