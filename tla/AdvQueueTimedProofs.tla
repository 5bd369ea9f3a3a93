------------------------ MODULE AdvQueueTimedProofs ------------------------
(***************************************************************************)
(* Proofs about the advertisement queue, for every set of VRs and every    *)
(* bound on the advertisement interval that useconds_t can hold.           *)
(***************************************************************************)
EXTENDS AdvQueueTimed, FiniteSetTheorems, WellFoundedInduction, TLAPS

(***************************************************************************)
(* Arithmetic                                                              *)
(***************************************************************************)

\* A timeout of the daemon is zero or at least a second, and fits in useconds_t
\* with a second to spare.
LEMMA TimeoutRange ==
    ASSUME NEW t \in Timeouts
    PROVE  t \in Nat /\ (t = 0 \/ t >= USEC) /\ t + USEC < WORD
<1>1. \A k \in 0 .. 3 * MaxDelay + 1 :
        k * USEC \in Nat /\ (k * USEC = 0 \/ k * USEC >= USEC) /\ k * USEC + USEC < WORD
  <2> SUFFICES ASSUME NEW k \in 0 .. 3 * MaxDelay + 1
               PROVE  /\ k * USEC \in Nat
                      /\ k * USEC = 0 \/ k * USEC >= USEC
                      /\ k * USEC + USEC < WORD
    OBVIOUS
  <2>1. k \in Nat /\ USEC \in Nat \ {0} /\ MaxDelay \in Nat /\ WORD \in Nat
    BY TimeAssumption
  <2>2. k * USEC \in Nat
    BY <2>1
  <2>3. k * USEC = 0 \/ k * USEC >= USEC
    <3>1. CASE k = 0
      BY <2>1, <3>1
    <3>2. CASE k >= 1
      <4>1. PICK j \in Nat : k = j + 1
        BY <2>1, <3>2
      <4>2. k * USEC = j * USEC + USEC /\ j * USEC \in Nat
        BY <2>1, <4>1
      <4> QED BY <2>1, <4>2
    <3> QED BY <2>1, <3>1, <3>2
  <2>4. k * USEC + USEC < WORD
    <3> DEFINE j == 3 * MaxDelay + 1 - k
    <3>1. j \in Nat /\ 3 * MaxDelay + 2 = k + 1 + j
      BY <2>1
    <3> HIDE DEF j
    <3>2. (3 * MaxDelay + 2) * USEC = k * USEC + USEC + j * USEC /\ j * USEC \in Nat
      BY <2>1, <3>1
    <3> QED BY <2>1, <2>2, <3>2, TimeAssumption
  <2> QED BY <2>2, <2>3, <2>4
<1>2. \E k \in 0 .. 3 * MaxDelay + 1 : t = k * USEC
  <2>1. MaxDelay \in Nat /\ USEC \in Nat
    BY TimeAssumption
  <2>2. CASE \E d \in 0 .. MaxDelay : t = d * USEC
    BY <2>1, <2>2
  <2>3. CASE \E d \in 0 .. MaxDelay, s \in 0 .. 1 : t = (3 * d + s) * USEC
    <3>1. PICK d \in 0 .. MaxDelay, s \in 0 .. 1 : t = (3 * d + s) * USEC
      BY <2>3
    <3>2. 3 * d + s \in 0 .. 3 * MaxDelay + 1
      BY <2>1
    <3> QED BY <3>1, <3>2
  <2> QED BY <2>2, <2>3 DEF Timeouts
<1> QED BY <1>1, <1>2

\* The timer's range: an interval of alarm(), or less than a second.
LEMMA AlarmRange ==
    /\ \A d \in 0 .. MaxDelay : d * USEC \in 0 .. (MaxDelay + 1) * USEC
    /\ \A x \in 0 .. USEC - 1 : x \in 0 .. (MaxDelay + 1) * USEC
<1>1. USEC \in Nat /\ MaxDelay \in Nat
  BY TimeAssumption
<1>2. ASSUME NEW d \in 0 .. MaxDelay + 1
      PROVE  d * USEC \in 0 .. (MaxDelay + 1) * USEC
  <2> DEFINE j == MaxDelay + 1 - d
  <2>1. d \in Nat /\ j \in Nat /\ MaxDelay + 1 = d + j
    BY <1>1
  <2> HIDE DEF j
  <2>2. (MaxDelay + 1) * USEC = d * USEC + j * USEC /\ j * USEC \in Nat /\ d * USEC \in Nat
    BY <1>1, <2>1
  <2> QED BY <2>2
<1>3. USEC \in 0 .. (MaxDelay + 1) * USEC
  <2>1. 1 \in 0 .. MaxDelay + 1 /\ 1 * USEC = USEC
    BY <1>1
  <2> QED BY <1>2, <2>1
<1>4. (MaxDelay + 1) * USEC \in Nat
  BY <1>1
<1>5. \A d \in 0 .. MaxDelay : d * USEC \in 0 .. (MaxDelay + 1) * USEC
  BY <1>1, <1>2
<1>6. \A x \in 0 .. USEC - 1 : x \in 0 .. (MaxDelay + 1) * USEC
  BY <1>1, <1>3, <1>4
<1> QED BY <1>5, <1>6

LEMMA ZeroRange == 0 \in 0 .. (MaxDelay + 1) * USEC
<1>1. 0 \in 0 .. USEC - 1
  BY TimeAssumption
<1> QED BY <1>1, AlarmRange

\* The time left on the clock fits in useconds_t with a second to spare.
LEMMA TimerRange ==
    ASSUME NEW x \in 0 .. (MaxDelay + 1) * USEC
    PROVE  x \in Nat /\ x + USEC < WORD
<1>1. USEC \in Nat /\ MaxDelay \in Nat /\ WORD \in Nat
  BY TimeAssumption
<1>2. (3 * MaxDelay + 2) * USEC = (MaxDelay + 1) * USEC + USEC + MaxDelay * USEC + MaxDelay * USEC
  BY <1>1
<1>3. MaxDelay * USEC \in Nat /\ (MaxDelay + 1) * USEC \in Nat
  BY <1>1
<1>4. (MaxDelay + 1) * USEC + USEC < WORD
  <2>1. (3 * MaxDelay + 2) * USEC < WORD
    BY TimeAssumption
  <2> QED BY <1>1, <1>2, <1>3, <2>1
<1> QED BY <1>1, <1>3, <1>4

\* useconds_t arithmetic: a sum that exceeds WORD once wraps to what is left.
LEMMA WrapOnce ==
    ASSUME NEW x \in Nat, x < WORD
    PROVE  (x + WORD) % WORD = x
<1>1. WORD \in Nat /\ WORD > 0
  BY TimeAssumption
<1> QED BY <1>1

LEMMA ModRange ==
    ASSUME NEW x \in Nat
    PROVE  x % WORD \in Usec
<1>1. WORD \in Nat /\ WORD > 0
  <2>1. (3 * MaxDelay + 2) * USEC \in Nat
    BY TimeAssumption
  <2> QED BY <2>1, TimeAssumption
<1> QED BY <1>1 DEF Usec

(***************************************************************************)
(* What vrrp_enqueue_impl does with a timeout of the daemon                *)
(***************************************************************************)

\* Induction, for sets of naturals.
LEMMA Induct ==
    ASSUME NEW T, 0 \in T, \A n \in Nat : n \in T => n + 1 \in T
    PROVE  \A n \in Nat : n \in T
<1> SUFFICES ASSUME NEW m \in Nat, m \notin T PROVE FALSE
  OBVIOUS
<1> DEFINE R == {p \in Nat \X Nat : p[1] < p[2]}
           U == {n \in Nat : n \notin T}
<1>1. IsWellFoundedOn(R, Nat)
  BY NatLessThanWellFounded DEF OpToRel
<1>2. U \in SUBSET Nat /\ U # {}
  OBVIOUS
<1>3. \A n \in Nat : n \in U => n - 1 \in U /\ n - 1 \in Nat /\ <<n - 1, n>> \in R
  <2> SUFFICES ASSUME NEW n \in Nat, n \notin T
               PROVE  n - 1 \in Nat /\ n - 1 \notin T /\ <<n - 1, n>> \in R
    OBVIOUS
  <2>1. n # 0
    OBVIOUS
  <2>2. n - 1 \in Nat /\ n - 1 < n /\ (n - 1) + 1 = n
    BY <2>1
  <2> QED BY <2>2
<1> HIDE DEF R, U
<1>4. PICK n \in U : \A k \in U : <<k, n>> \notin R
  BY <1>1, <1>2, WFMin, Zenon
<1> QED BY <1>2, <1>3, <1>4

\* one round of the search loop
Round(qq, to, t, w) ==
    IF w.curr = NULL \/ w.sum >= t THEN w
    ELSE [curr |-> qq.next[w.curr], sum |-> (w.sum + to[w.curr]) % WORD]

LEMMA RoundsType == Rounds \in Nat
BY VrAssumption, FS_CardinalityType, TimeAssumption DEF Rounds

\* The recursion of the search loop has a solution: the rounds one by one.
LEMMA SearchDef ==
    ASSUME NEW qq, NEW to, NEW sum0, NEW t
    PROVE  LET f == search(qq, to, sum0, t)
           IN /\ f[0] = [curr |-> qq.head, sum |-> sum0]
              /\ \A n \in 1 .. Rounds : f[n] = Round(qq, to, t, f[n - 1])
<1> DEFINE w0 == [curr |-> qq.head, sum |-> sum0]
           Trace(s, n) == s = [i \in 0 .. n |-> IF i = 0 THEN w0 ELSE Round(qq, to, t, s[i - 1])]
           T == {n \in Nat : \E s : Trace(s, n)}
<1> HIDE DEF w0
<1>1. 0 \in T
  <2>1. Trace([i \in 0 .. 0 |-> w0], 0)
    OBVIOUS
  <2> QED BY <2>1
<1>2. \A n \in Nat : n \in T => n + 1 \in T
  <2> SUFFICES ASSUME NEW n \in Nat, NEW s, Trace(s, n)
               PROVE  \E r : Trace(r, n + 1)
    OBVIOUS
  <2> DEFINE r == [i \in 0 .. n + 1 |-> IF i = n + 1 THEN Round(qq, to, t, s[n]) ELSE s[i]]
  <2>1. \A i \in 0 .. n : s[i] = IF i = 0 THEN w0 ELSE Round(qq, to, t, s[i - 1])
    OBVIOUS
  <2>2. \A i \in 0 .. n + 1 :
          r[i] = IF i = 0 THEN w0 ELSE Round(qq, to, t, r[i - 1])
    <3> SUFFICES ASSUME NEW i \in 0 .. n + 1
                 PROVE  r[i] = IF i = 0 THEN w0 ELSE Round(qq, to, t, r[i - 1])
      OBVIOUS
    <3>1. CASE i = n + 1
      <4>1. i # 0 /\ r[i - 1] = s[n] /\ r[i] = Round(qq, to, t, s[n])
        BY <3>1
      <4> QED BY <4>1
    <3>2. CASE i # n + 1
      <4>1. i \in 0 .. n /\ r[i] = s[i]
        BY <3>2
      <4>2. i # 0 => r[i - 1] = s[i - 1]
        BY <4>1
      <4> QED BY <2>1, <4>1, <4>2
    <3> QED BY <3>1, <3>2
  <2>3. r = [i \in 0 .. n + 1 |-> IF i = 0 THEN w0 ELSE Round(qq, to, t, r[i - 1])]
    BY <2>2
  <2> HIDE DEF r
  <2> QED BY <2>3
<1>3. Rounds \in T
  <2> HIDE DEF T
  <2> QED BY <1>1, <1>2, Induct, RoundsType
<1>4. PICK s : Trace(s, Rounds)
  BY <1>3
<1> DEFINE f == search(qq, to, sum0, t)
<1>5. f = [i \in 0 .. Rounds |-> IF i = 0 THEN w0 ELSE Round(qq, to, t, f[i - 1])]
  BY <1>4 DEF search, Round, w0
<1> HIDE DEF f
<1> QED BY <1>5, RoundsType DEF w0, f

\* A search that starts with a sum of at least the timeout ends before its first
\* round.
LEMMA SearchEndsAtOnce ==
    ASSUME NEW qq, NEW to, NEW sum0 \in Nat, NEW t \in Nat, sum0 >= t
    PROVE  walk(qq, to, sum0, t) = [curr |-> qq.head, sum |-> sum0]
<1> DEFINE f == search(qq, to, sum0, t)
           w0 == [curr |-> qq.head, sum |-> sum0]
           T == {n \in Nat : n <= Rounds => f[n] = w0}
<1>1. f[0] = w0 /\ \A n \in 1 .. Rounds : f[n] = Round(qq, to, t, f[n - 1])
  BY SearchDef
<1>2. Round(qq, to, t, w0) = w0
  BY DEF Round
<1> HIDE DEF f, w0
<1>3. 0 \in T
  BY <1>1
<1>4. \A n \in Nat : n \in T => n + 1 \in T
  <2> SUFFICES ASSUME NEW n \in Nat, n \in T, n + 1 <= Rounds
               PROVE  f[n + 1] = w0
    OBVIOUS
  <2>1. f[n] = w0 /\ n + 1 \in 1 .. Rounds /\ (n + 1) - 1 = n
    BY RoundsType
  <2> QED BY <1>1, <1>2, <2>1
<1>5. Rounds \in T
  <2> HIDE DEF T
  <2> QED BY <1>3, <1>4, Induct, RoundsType
<1> QED BY <1>5, RoundsType DEF walk, f, w0

\* The chain holds the head and, with a VR, its successor.
LEMMA ChainClosed ==
    ASSUME NEW qq \in Queues
    PROVE  /\ qq.head \in Chain(qq) \cup {NULL}
           /\ \A v \in Chain(qq) : v \in Vr /\ qq.next[v] \in Chain(qq) \cup {NULL}
<1>1. qq.head \in Ptr /\ \A v \in Vr : qq.next[v] \in Ptr
  BY DEF Queues
<1>2. qq.head \in Chain(qq) \cup {NULL}
  BY <1>1 DEF Chain, Ptr
<1>3. \A v \in Chain(qq) : v \in Vr /\ qq.next[v] \in Chain(qq) \cup {NULL}
  BY <1>1 DEF Chain, Ptr
<1> QED BY <1>2, <1>3

\* The search loop stays on the queue until it runs off its end.
LEMMA SearchStays ==
    ASSUME NEW qq \in Queues, NEW to \in [Vr -> Usec], NEW sum0 \in Usec, NEW t
    PROVE  /\ walk(qq, to, sum0, t).curr \in Chain(qq) \cup {NULL}
           /\ walk(qq, to, sum0, t).sum \in Usec
<1> DEFINE f == search(qq, to, sum0, t)
           W == [curr : Chain(qq) \cup {NULL}, sum : Usec]
           T == {n \in Nat : n <= Rounds => f[n] \in W}
<1>1. /\ f[0] = [curr |-> qq.head, sum |-> sum0]
      /\ \A n \in 1 .. Rounds : f[n] = Round(qq, to, t, f[n - 1])
  BY SearchDef
<1>2. ASSUME NEW w \in W PROVE Round(qq, to, t, w) \in W
  <2>1. CASE w.curr = NULL \/ w.sum >= t
    BY <2>1 DEF Round
  <2>2. CASE ~(w.curr = NULL \/ w.sum >= t)
    <3>1. w.curr \in Chain(qq)
      BY <2>2
    <3>2. w.curr \in Vr /\ qq.next[w.curr] \in Chain(qq) \cup {NULL}
      BY <3>1, ChainClosed
    <3>3. (w.sum + to[w.curr]) % WORD \in Usec
      <4>1. w.sum \in Nat /\ to[w.curr] \in Nat
        BY <3>2, TimeAssumption DEF Usec
      <4>2. w.sum + to[w.curr] \in Nat
        BY <4>1
      <4> QED BY <4>2, ModRange
    <3> QED BY <2>2, <3>2, <3>3 DEF Round
  <2> QED BY <2>1, <2>2
<1>3. f[0] \in W
  BY <1>1, ChainClosed
<1> HIDE DEF f, W
<1>4. 0 \in T
  BY <1>3
<1>5. \A n \in Nat : n \in T => n + 1 \in T
  <2> SUFFICES ASSUME NEW n \in Nat, n \in T, n + 1 <= Rounds
               PROVE  f[n + 1] \in W
    OBVIOUS
  <2>1. f[n] \in W /\ n + 1 \in 1 .. Rounds /\ (n + 1) - 1 = n
    BY RoundsType
  <2> QED BY <1>1, <1>2, <2>1
<1>6. Rounds \in T
  <2> HIDE DEF T
  <2> QED BY <1>4, <1>5, Induct, RoundsType
<1>7. walk(qq, to, sum0, t) \in W
  BY <1>6, RoundsType DEF walk, f
<1> QED BY <1>7 DEF W

\* What ualarm() returns is never below a timeout of the daemon, so the search
\* loop of vrrp_enqueue_impl ends before its first round.
LEMMA SearchEndsAtHead ==
    ASSUME TypeOK, NEW t \in Timeouts
    PROVE  walk(q, timeout, ualarm(timer, t).ret, t)
           = [curr |-> q.head, sum |-> ualarm(timer, t).ret]
<1>1. timer \in Nat /\ t \in Nat /\ WORD \in Nat /\ USEC \in Nat \ {0}
  BY TimeoutRange, TimerRange, TimeAssumption DEF TypeOK
<1>2. ualarm(timer, t).ret >= t /\ ualarm(timer, t).ret \in Nat
  BY <1>1, TimeoutRange DEF ualarm
<1> QED BY <1>1, <1>2, SearchEndsAtOnce

\* Linking before a VR keeps every pointer a pointer.
LEMMA EnqueueBeforeType ==
    ASSUME NEW qq \in Queues, NEW e \in Vr, NEW c \in Vr
    PROVE  /\ enqueueBefore(qq, e, c) \in Queues
           /\ enqueueBefore(qq, e, c).head \in Vr \cup {qq.head}
           /\ c = qq.head => enqueueBefore(qq, e, c).head = e
<1> DEFINE q1 == linkBefore(qq, e, c)
           q2 == linkBack(q1, e, c)
           q3 == inheritPrev(q2, e, c)
<1>1. q1 \in Queues /\ q1.head = qq.head
  BY DEF linkBefore, Queues, Ptr
<1>2. q2 \in Queues /\ q2.head = qq.head /\ q2.prev[c] = e
  <2> HIDE DEF q1
  <2> QED BY <1>1 DEF linkBack, Queues, Ptr
<1>3. q3 \in Queues /\ q3.head = qq.head /\ q3.prev[e] = e
  <2> HIDE DEF q2
  <2> QED BY <1>2 DEF inheritPrev, Queues, Ptr
<1>4. enqueueBefore(qq, e, c) = publish(q3, e, c)
  BY DEF enqueueBefore
<1> HIDE DEF q3
<1>5. CASE c = qq.head
  BY <1>3, <1>4, <1>5 DEF publish, setHead, Queues, Ptr
<1>6. CASE c # qq.head
  BY <1>3, <1>4, <1>6 DEF publish, Queues, Ptr
<1> QED BY <1>5, <1>6

LEMMA EnqueueImplType ==
    ASSUME NEW qq \in Queues, NEW e \in Vr
    PROVE  /\ vrrp_enqueue_impl(qq, e) \in Queues
           /\ vrrp_enqueue_impl(qq, e).head = e
<1>1. CASE qq.head = NULL
  BY <1>1 DEF vrrp_enqueue_impl, clearPrev, setHead, Queues, Ptr
<1>2. CASE qq.head # NULL
  <2>1. qq.head \in Vr
    BY <1>2 DEF Queues, Ptr
  <2> QED BY <1>2, <2>1, EnqueueBeforeType DEF vrrp_enqueue_impl
<1> QED BY <1>1, <1>2


LEMMA RmqueueImplType ==
    ASSUME NEW qq \in Queues, NEW e \in Vr
    PROVE  vrrp_rmqueue_impl(qq, e) \in Queues
<1> DEFINE q1 == bypassEntry(qq, e)
           q2 == relinkSuccessor(q1, e)
           q3 == clearNext(q2, e)
<1>1. q1 \in Queues
  BY DEF bypassEntry, Queues, Ptr
<1>2. q2 \in Queues
  <2> HIDE DEF q1
  <2> QED BY <1>1 DEF relinkSuccessor, Queues, Ptr
<1>3. q3 \in Queues
  <2> HIDE DEF q2
  <2> QED BY <1>2 DEF clearNext, Queues, Ptr
<1> HIDE DEF q3
<1>4. clearPrev(q3, e) \in Queues
  BY <1>3 DEF clearPrev, Queues, Ptr
<1> QED BY <1>4 DEF vrrp_rmqueue_impl, q3

\* A zero timeout: the clock stops, or keeps what was left of a second; on an
\* empty queue it stops.
LEMMA EnqueueZero ==
    ASSUME TypeOK, NEW e \in Vr, Enqueue(e, 0), 0 \in Timeouts
    PROVE  /\ q' = vrrp_enqueue_impl(q, e)
           /\ timer' \in {0, timer}
           /\ q.head = NULL => timer' = 0
           /\ timeout' \in [Vr -> Usec]
           /\ up' = up
<1>1. timer \in Nat /\ timer < WORD /\ WORD \in Nat /\ USEC \in Nat \ {0}
  BY TimerRange, TimeAssumption DEF TypeOK
<1>2. ualarm(timer, 0) = [ret |-> timer, left |-> 0]
  BY <1>1 DEF ualarm
<1>3. 0 \in Usec /\ timer \in Usec
  BY <1>1 DEF Usec
<1>4. CASE q.head = NULL
  BY <1>2, <1>3, <1>4 DEF Enqueue, enqueueFrom, TypeOK, vrrp_enqueue_impl
<1>5. CASE q.head # NULL
  <2> DEFINE w == [curr |-> q.head, sum |-> timer]
  <2>0. /\ walk(q, timeout, timer, 0) = w /\ w.curr # NULL /\ ~(w.sum < 0)
        /\ ualarm(timer, 0).ret = timer /\ ualarm(timer, 0).left = 0
    <3>1. ualarm(timer, 0).ret = timer /\ ualarm(timer, 0).left = 0
      BY <1>2
    <3>2. walk(q, timeout, ualarm(timer, 0).ret, 0)
          = [curr |-> q.head, sum |-> ualarm(timer, 0).ret]
      BY SearchEndsAtHead, Zenon
    <3> QED BY <1>1, <1>5, <3>1, <3>2
  <2>1. insertBefore(q, timeout, e, 0, w, 0)
    <3> HIDE DEF w
    <3> QED BY <1>2, <1>5, <2>0 DEF Enqueue, enqueueFrom
  <2>2. (timer + (WORD - 0)) % WORD = timer
    BY <1>1, WrapOnce
  <2>3. /\ q' = vrrp_enqueue_impl(q, e)
        /\ timeout' = [timeout EXCEPT ![e] = timer]
        /\ timer' = ualarm(0, timeout'[q'.head]).left
        /\ up' = up
    BY <2>1, <2>2, <1>5, EnqueueImplType DEF insertBefore, vrrp_enqueue_impl
  <2>4. timeout'[q'.head] = timer
    BY <2>3, EnqueueImplType DEF TypeOK
  <2>5. timer' \in {0, timer}
    BY <2>3, <2>4, <1>1 DEF ualarm
  <2> QED BY <2>3, <2>5, <1>3, <1>5 DEF TypeOK
<1> QED BY <1>4, <1>5

\* Any other timeout: both calls of ualarm() are rejected and the clock runs on.
LEMMA EnqueueLater ==
    ASSUME TypeOK, NEW e \in Vr, NEW t \in Timeouts, t # 0, Enqueue(e, t)
    PROVE  /\ q' = vrrp_enqueue_impl(q, e)
           /\ timer' = timer
           /\ timeout' \in [Vr -> Usec]
           /\ up' = up
<1>1. /\ timer \in Nat /\ WORD \in Nat /\ USEC \in Nat \ {0}
      /\ t \in Nat /\ t >= USEC /\ t + USEC < WORD
  BY TimerRange, TimeoutRange, TimeAssumption DEF TypeOK
<1>2. ualarm(timer, t) = [ret |-> WORD - 1, left |-> timer]
  BY <1>1 DEF ualarm
<1>3. 0 \in Usec
  BY <1>1 DEF Usec
<1>4. CASE q.head = NULL
  BY <1>2, <1>3, <1>4 DEF Enqueue, enqueueFrom, TypeOK, vrrp_enqueue_impl
<1>5. CASE q.head # NULL
  <2> DEFINE w == [curr |-> q.head, sum |-> WORD - 1]
             m == WORD - 1 - t
  <2>0. walk(q, timeout, WORD - 1, t) = w /\ w.curr # NULL /\ ~(w.sum < t)
    BY <1>1, <1>2, <1>5, SearchEndsAtHead
  <2>1. insertBefore(q, timeout, e, t, w, timer)
    <3> HIDE DEF w
    <3> QED BY <1>2, <1>5, <2>0 DEF Enqueue, enqueueFrom
  <2>2. (WORD - 1 + (WORD - t)) % WORD = m /\ m \in Usec /\ m >= USEC
    <3>1. m \in Nat /\ m < WORD /\ m >= USEC /\ WORD - 1 + (WORD - t) = m + WORD
      BY <1>1
    <3> HIDE DEF m
    <3>2. (m + WORD) % WORD = m
      BY <3>1, WrapOnce
    <3> QED BY <1>1, <3>1, <3>2 DEF Usec
  <2> HIDE DEF m
  <2>3. /\ q' = vrrp_enqueue_impl(q, e)
        /\ timeout' = [timeout EXCEPT ![e] = m]
        /\ timer' = ualarm(timer, timeout'[q'.head]).left
        /\ up' = up
    BY <2>1, <2>2, <1>5, EnqueueImplType DEF insertBefore, vrrp_enqueue_impl
  <2>4. timeout'[q'.head] = m
    BY <2>3, EnqueueImplType DEF TypeOK
  <2> QED BY <2>2, <2>3, <2>4 DEF ualarm, TypeOK
<1> QED BY <1>4, <1>5

(***************************************************************************)
(* Types                                                                   *)
(***************************************************************************)
LEMMA InitType == Init => TypeOK
<1> SUFFICES ASSUME Init PROVE TypeOK
  OBVIOUS
<1>1. q \in Queues
  BY DEF Init, EmptyQueue, Queues, Ptr
<1>2. 0 \in Usec
  BY ModRange, TimeAssumption, TimeoutRange DEF Usec, Timeouts
<1>3. 0 \in 0 .. (MaxDelay + 1) * USEC
  BY ZeroRange
<1> QED BY <1>1, <1>2, <1>3 DEF Init, TypeOK

LEMMA BequeathType ==
    ASSUME TypeOK, NEW e \in Vr, ~RmqueueCrashes(q, e)
    PROVE  bequeath(e) \in [Vr -> Usec]
<1>1. CASE q.next[e] = NULL
  BY <1>1 DEF bequeath, TypeOK
<1>2. CASE q.next[e] # NULL
  <2>1. q.prev[e] \in Vr
    BY <1>2 DEF RmqueueCrashes, RelinkCrashes, TypeOK, Queues, Ptr
  <2>2. (timeout[q.prev[e]] + timeout[e]) % WORD \in Usec
    <3>1. timeout[q.prev[e]] \in Nat /\ timeout[e] \in Nat
      BY <2>1, TimeAssumption DEF TypeOK, Usec
    <3>2. timeout[q.prev[e]] + timeout[e] \in Nat
      BY <3>1
    <3> QED BY <3>2, ModRange
  <2> QED BY <1>2, <2>1, <2>2 DEF bequeath, TypeOK
<1> QED BY <1>1, <1>2

LEMMA RmqueueImplKeepsType ==
    ASSUME TypeOK, NEW e \in Vr, RmqueueImpl(e)
    PROVE  TypeOK'
<1>1. CASE RmqueueCrashes(q, e)
  BY <1>1 DEF RmqueueImpl, TypeOK
<1>2. CASE ~RmqueueCrashes(q, e)
  BY <1>2, RmqueueImplType, BequeathType DEF RmqueueImpl, TypeOK
<1> QED BY <1>1, <1>2

\* The timer after ualarm() is the timer before it or below a second.
LEMMA UalarmType ==
    ASSUME NEW left \in 0 .. (MaxDelay + 1) * USEC, NEW t \in Usec
    PROVE  /\ ualarm(left, t).ret \in Usec
           /\ ualarm(left, t).left \in 0 .. (MaxDelay + 1) * USEC
<1>1. left \in Nat /\ left < WORD /\ WORD \in Nat /\ USEC \in Nat \ {0}
  BY TimerRange, TimeAssumption
<1>2. t \in Nat /\ left \in Usec /\ WORD - 1 \in Usec
  BY <1>1 DEF Usec
<1>3. CASE t >= USEC
  BY <1>2, <1>3 DEF ualarm
<1>4. CASE t < USEC
  <2>1. t \in 0 .. USEC - 1
    BY <1>1, <1>2, <1>4
  <2>2. t \in 0 .. (MaxDelay + 1) * USEC /\ ~(t >= USEC)
    BY <2>1, AlarmRange, <1>1, <1>2, <1>4
  <2> QED BY <2>2, <1>2 DEF ualarm
<1> QED BY <1>1, <1>2, <1>3, <1>4

\* vrrp_enqueue_impl with any timeout at all: the entry becomes the queue, is
\* linked before a VR of the queue, or the process ends there.
LEMMA EnqueueAny ==
    ASSUME TypeOK, NEW e \in Vr, NEW qq \in Queues, NEW to \in [Vr -> Usec],
           NEW t \in Usec, enqueueFrom(qq, to, e, t)
    PROVE  \/ /\ \/ qq.head = NULL /\ q' = vrrp_enqueue_impl(qq, e)
                 \/ qq.head # NULL /\ \E c \in Chain(qq) : q' = enqueueBefore(qq, e, c)
              /\ up' = up
              /\ q' \in Queues /\ timeout' \in [Vr -> Usec]
              /\ timer' \in 0 .. (MaxDelay + 1) * USEC
           \/ qq.head # NULL /\ up' = FALSE /\ UNCHANGED <<q, timeout, timer>>
<1> DEFINE first == ualarm(timer, t)
           w == walk(qq, to, first.ret, t)
<1>1. first.ret \in Usec /\ first.left \in 0 .. (MaxDelay + 1) * USEC
  BY UalarmType DEF TypeOK
<1>2. w.curr \in Chain(qq) \cup {NULL} /\ w.sum \in Usec
  <2> HIDE DEF first
  <2> QED BY <1>1, SearchStays
<1>3. CASE qq.head = NULL
  <2>1. /\ q' = clearPrev(setHead(qq, e), e)
        /\ timeout' = [to EXCEPT ![e] = 0]
        /\ timer' = first.left
        /\ up' = up
    BY <1>3 DEF enqueueFrom
  <2>2. 0 \in Usec
    BY TimeAssumption, ModRange DEF Usec
  <2>3. q' = vrrp_enqueue_impl(qq, e)
    BY <1>3, <2>1 DEF vrrp_enqueue_impl
  <2> HIDE DEF first, w
  <2> QED BY <1>1, <1>3, <2>1, <2>2, <2>3, EnqueueImplType
<1>4. CASE qq.head # NULL /\ (w.curr = NULL \/ w.sum < t)
  BY <1>4 DEF enqueueFrom
<1>5. CASE qq.head # NULL /\ ~(w.curr = NULL \/ w.sum < t)
  <2>1. insertBefore(qq, to, e, t, w, first.left)
    BY <1>5 DEF enqueueFrom
  <2> HIDE DEF first, w
  <2>2. w.curr \in Chain(qq) /\ w.curr \in Vr
    BY <1>2, <1>5, ChainClosed
  <2> DEFINE mine == (w.sum + (WORD - t)) % WORD
             to1 == [to EXCEPT ![e] = mine]
             less == (mine + (WORD - mine)) % WORD
             to2 == IF w.curr = qq.head THEN to1
                    ELSE [to1 EXCEPT ![e] = less]
  <2>3. mine \in Usec
    <3>1. w.sum \in Nat /\ t \in Nat /\ t < WORD /\ WORD \in Nat
      BY <1>2, TimeAssumption DEF Usec
    <3>2. w.sum + (WORD - t) \in Nat
      BY <3>1
    <3> QED BY <3>2, ModRange
  <2> HIDE DEF mine
  <2>4. less \in Usec
    <3>1. mine \in Nat /\ mine < WORD /\ WORD \in Nat
      BY <2>3, TimeAssumption DEF Usec
    <3>2. mine + (WORD - mine) \in Nat
      BY <3>1
    <3> QED BY <3>2, ModRange
  <2> HIDE DEF less
  <2>5. to1 \in [Vr -> Usec] /\ to1[e] = mine
    BY <2>3
  <2>6. to2 \in [Vr -> Usec]
    BY <2>4, <2>5
  <2>7. /\ q' = enqueueBefore(qq, e, w.curr)
        /\ timeout' = to2
        /\ timer' = ualarm(first.left, to2[q'.head]).left
        /\ up' = up
    <3>1. [to1 EXCEPT ![e] = (@ + (WORD - mine)) % WORD] = [to1 EXCEPT ![e] = less]
      BY <2>5 DEF less
    <3> QED BY <2>1, <3>1 DEF insertBefore, mine, less
  <2>8. q' \in Queues /\ q'.head \in Vr
    BY <2>2, <2>7, <1>5, EnqueueBeforeType DEF Queues, Ptr
  <2> HIDE DEF to2
  <2>9. to2[q'.head] \in Usec
    BY <2>6, <2>8
  <2>10. timer' \in 0 .. (MaxDelay + 1) * USEC
    BY <2>7, <2>9, <1>1, UalarmType
  <2> QED BY <2>2, <2>6, <2>7, <2>8, <2>10, <1>5
<1> QED BY <1>3, <1>4, <1>5

\* A requeue with the timeout left in the entry.
LEMMA RequeueAny ==
    ASSUME TypeOK, NEW e \in Vr, Requeue(e)
    PROVE  LET q0 == vrrp_rmqueue_impl(q, e)
           IN /\ Linked(q, e) /\ up
              /\ \/ /\ ~RmqueueCrashes(q, e)
                    /\ \/ q0.head = NULL /\ q' = vrrp_enqueue_impl(q0, e)
                       \/ q0.head # NULL /\ \E c \in Chain(q0) : q' = enqueueBefore(q0, e, c)
                    /\ up' = up
                    /\ q' \in Queues /\ timeout' \in [Vr -> Usec]
                    /\ timer' \in 0 .. (MaxDelay + 1) * USEC
                 \/ /\ RmqueueCrashes(q, e) \/ q0.head # NULL
                    /\ up' = FALSE
                    /\ UNCHANGED <<q, timeout, timer>>
<1>1. CASE RmqueueCrashes(q, e)
  BY <1>1 DEF Requeue
<1>2. CASE ~RmqueueCrashes(q, e)
  <2> DEFINE q0 == vrrp_rmqueue_impl(q, e)
             to == bequeath(e)
  <2>1. q0 \in Queues /\ to \in [Vr -> Usec] /\ to[e] \in Usec
    BY <1>2, RmqueueImplType, BequeathType DEF TypeOK
  <2>2. enqueueFrom(q0, to, e, to[e]) /\ Linked(q, e) /\ up
    BY <1>2 DEF Requeue
  <2> HIDE DEF q0, to
  <2>3. \/ /\ \/ q0.head = NULL /\ q' = vrrp_enqueue_impl(q0, e)
              \/ q0.head # NULL /\ \E c \in Chain(q0) : q' = enqueueBefore(q0, e, c)
           /\ up' = up
           /\ q' \in Queues /\ timeout' \in [Vr -> Usec]
           /\ timer' \in 0 .. (MaxDelay + 1) * USEC
        \/ q0.head # NULL /\ up' = FALSE /\ UNCHANGED <<q, timeout, timer>>
    BY <2>1, <2>2, EnqueueAny
  <2> QED BY <1>2, <2>2, <2>3 DEF q0
<1> QED BY <1>1, <1>2

LEMMA NextType == TypeOK /\ [Next]_vars => TypeOK'
<1> SUFFICES ASSUME TypeOK, [Next]_vars PROVE TypeOK'
  OBVIOUS
<1>1. ASSUME NEW e \in Vr, NEW t \in Timeouts, Enqueue(e, t) PROVE TypeOK'
  <2>1. vrrp_enqueue_impl(q, e) \in Queues
    BY EnqueueImplType DEF TypeOK
  <2>2. CASE t = 0
    <3>1. 0 \in 0 .. (MaxDelay + 1) * USEC
      BY ZeroRange
    <3>2. timer' \in {0, timer} /\ q' \in Queues /\ timeout' \in [Vr -> Usec] /\ up' = up
      BY <1>1, <2>1, <2>2, EnqueueZero
    <3> QED BY <3>1, <3>2 DEF TypeOK
  <2>3. CASE t # 0
    BY <1>1, <2>1, <2>3, EnqueueLater DEF TypeOK
  <2> QED BY <2>2, <2>3
<1>2. ASSUME NEW e \in Vr, RmqueueImpl(e) PROVE TypeOK'
  BY <1>2, RmqueueImplKeepsType
<1>3. ASSUME NEW e \in Vr, Rmqueue(e) PROVE TypeOK'
  BY <1>3, RmqueueImplKeepsType DEF Rmqueue
<1>9. ASSUME NEW e \in Vr, Requeue(e) PROVE TypeOK'
  BY <1>9, RequeueAny DEF TypeOK
<1>4. ASSUME Dequeue PROVE TypeOK'
  <2>1. q.head \in Vr
    BY <1>4 DEF Dequeue, TypeOK, Queues, Ptr
  <2> QED BY <1>4, <2>1, RmqueueImplKeepsType DEF Dequeue
<1>5. ASSUME NEW d \in 0 .. MaxDelay, Alarm(d) PROVE TypeOK'
  BY <1>5, AlarmRange DEF Alarm, TypeOK
<1>6. ASSUME Elapse PROVE TypeOK'
  <2>1. (MaxDelay + 1) * USEC \in Nat
    BY TimeAssumption
  <2>2. timer' \in 0 .. (MaxDelay + 1) * USEC
    BY <1>6, <2>1 DEF Elapse, TypeOK
  <2> QED BY <1>6, <2>2 DEF Elapse, TypeOK
<1>7. ASSUME Fire PROVE TypeOK'
  <2>1. 0 \in 0 .. (MaxDelay + 1) * USEC
    BY ZeroRange
  <2> QED BY <1>7, <2>1 DEF Fire, TypeOK
<1>8. ASSUME UNCHANGED vars PROVE TypeOK'
  BY <1>8 DEF vars, TypeOK
<1> QED BY <1>1, <1>2, <1>3, <1>4, <1>5, <1>6, <1>7, <1>8, <1>9 DEF Next

\* For every set of VRs and every advertisement interval that fits, the queue
\* links hold pointers and useconds_t never has to hold more than it can.
THEOREM TypeCorrect == Spec => []TypeOK
<1> QED BY InitType, NextType, PTL DEF Spec

(***************************************************************************)
(* The timeouts do not decide the place of an entry                        *)
(***************************************************************************)
\* The two modules take the pointer assignments from the same definitions.
LEMMA SameOperators ==
    ASSUME NEW qq, NEW e
    PROVE  /\ Untimed!vrrp_enqueue_impl(qq, e) = vrrp_enqueue_impl(qq, e)
           /\ Untimed!vrrp_rmqueue_impl(qq, e) = vrrp_rmqueue_impl(qq, e)
           /\ Untimed!RmqueueCrashes(qq, e) = RmqueueCrashes(qq, e)
           /\ Untimed!Linked(qq, e) = Linked(qq, e)
           /\ Untimed!EmptyQueue = EmptyQueue
           /\ Untimed!Chain(qq) = Chain(qq)
           /\ \A c : Untimed!enqueueBefore(qq, e, c) = enqueueBefore(qq, e, c)
<1>6. ASSUME NEW c
      PROVE  Untimed!enqueueBefore(qq, e, c) = enqueueBefore(qq, e, c)
  BY Zenon DEF Untimed!enqueueBefore, Untimed!setHead, Untimed!publish,
     Untimed!inheritPrev, Untimed!linkBack, Untimed!linkBefore,
     enqueueBefore, setHead, publish, inheritPrev, linkBack, linkBefore
<1>1. Untimed!vrrp_enqueue_impl(qq, e) = vrrp_enqueue_impl(qq, e)
  BY Zenon, <1>6 DEF Untimed!vrrp_enqueue_impl, Untimed!clearPrev, Untimed!setHead,
     vrrp_enqueue_impl, clearPrev, setHead
<1>7. Untimed!Chain(qq) = Chain(qq)
  BY Zenon DEF Untimed!Chain, Chain
<1>2. Untimed!vrrp_rmqueue_impl(qq, e) = vrrp_rmqueue_impl(qq, e)
  BY Zenon DEF Untimed!vrrp_rmqueue_impl, Untimed!clearPrev, Untimed!clearNext,
     Untimed!relinkSuccessor, Untimed!bypassEntry,
     vrrp_rmqueue_impl, clearPrev, clearNext, relinkSuccessor, bypassEntry
<1>3. Untimed!RmqueueCrashes(qq, e) = RmqueueCrashes(qq, e)
  BY Zenon DEF Untimed!RmqueueCrashes, Untimed!RelinkCrashes, RmqueueCrashes, RelinkCrashes
<1>4. Untimed!Linked(qq, e) = Linked(qq, e)
  BY Zenon DEF Untimed!Linked, Linked
<1>5. Untimed!EmptyQueue = EmptyQueue
  BY Zenon DEF Untimed!EmptyQueue, EmptyQueue
<1> QED BY <1>1, <1>2, <1>3, <1>4, <1>5, <1>6, <1>7

LEMMA EnqueueAtHead ==
    ASSUME TypeOK, NEW e \in Vr, NEW t \in Timeouts, Enqueue(e, t)
    PROVE  Untimed!Enqueue(e) \/ Untimed!EnqueueNow(e)
<1>1. up
  BY DEF Enqueue
<1>2. CASE t = 0
  BY <1>1, <1>2, EnqueueZero, SameOperators DEF Untimed!EnqueueNow
<1>3. CASE t # 0
  BY <1>1, <1>3, EnqueueLater, SameOperators DEF Untimed!Enqueue
<1> QED BY <1>2, <1>3

LEMMA StepIsUntimed ==
    TypeOK /\ [Next]_vars => [Untimed!Next]_(Untimed!vars)
<1> SUFFICES ASSUME TypeOK, [Next]_vars
             PROVE  Untimed!Next \/ UNCHANGED Untimed!vars
  BY DEF Untimed!vars
<1>1. ASSUME NEW e \in Vr, NEW t \in Timeouts, Enqueue(e, t)
      PROVE  Untimed!Enqueue(e) \/ Untimed!EnqueueNow(e)
  BY <1>1, EnqueueAtHead
<1>2. ASSUME NEW e \in Vr, RmqueueImpl(e) PROVE Untimed!RmqueueImpl(e)
  BY <1>2, SameOperators DEF RmqueueImpl, Untimed!RmqueueImpl
<1>3. ASSUME NEW e \in Vr, Rmqueue(e) PROVE Untimed!Rmqueue(e)
  BY <1>2, <1>3, SameOperators DEF Rmqueue, Untimed!Rmqueue
<1>9. ASSUME NEW e \in Vr, Requeue(e) PROVE Untimed!Requeue(e)
  <2> DEFINE q0 == vrrp_rmqueue_impl(q, e)
  <2>1. Linked(q, e) /\ up
    BY <1>9, RequeueAny
  <2>2. CASE /\ ~RmqueueCrashes(q, e)
             /\ \/ q0.head = NULL /\ q' = vrrp_enqueue_impl(q0, e)
                \/ \E c \in Chain(q0) : q' = enqueueBefore(q0, e, c)
             /\ up' = up
    BY <2>1, <2>2, SameOperators DEF Untimed!Requeue
  <2>3. CASE /\ RmqueueCrashes(q, e) \/ q0.head # NULL
             /\ up' = FALSE
             /\ UNCHANGED <<q, timeout, timer>>
    BY <2>1, <2>3, SameOperators DEF Untimed!Requeue
  <2> QED BY <1>9, <2>2, <2>3, RequeueAny
<1>4. ASSUME Dequeue PROVE Untimed!Dequeue
  <2>1. q.head \in Vr
    BY <1>4 DEF Dequeue, TypeOK, Queues, Ptr
  <2> QED BY <1>2, <1>4, <2>1 DEF Dequeue, Untimed!Dequeue
<1>5. ASSUME NEW d \in 0 .. MaxDelay, Alarm(d)
      PROVE  \E on \in BOOLEAN : Untimed!Alarm(on)
  BY <1>5 DEF Alarm, Untimed!Alarm
<1>6. ASSUME Elapse PROVE UNCHANGED Untimed!vars
  <2>1. timer \in Nat
    BY TimerRange DEF TypeOK
  <2>2. timer # 0 /\ timer' # 0
    BY <1>6, <2>1 DEF Elapse
  <2> QED BY <1>6, <2>2 DEF Elapse, Untimed!vars
<1>7. ASSUME Fire PROVE Untimed!Fire
  BY <1>7 DEF Fire, Untimed!Fire
<1>8. ASSUME UNCHANGED vars PROVE UNCHANGED Untimed!vars
  BY <1>8 DEF vars, Untimed!vars
<1> QED BY <1>1, <1>2, <1>3, <1>4, <1>5, <1>6, <1>7, <1>8, <1>9 DEF Next, Untimed!Next

\* A delay that vrrp_enqueue assigns always links its entry at the head, in every
\* queue that calls with such delays and requeues with leftover ones can make.
THEOREM DelaysLinkAtTheHead == Spec => LinksAtTheHead
<1>1. TypeOK /\ [Next]_vars =>
        [\A e \in Vr, t \in Timeouts :
            Enqueue(e, t) => Untimed!Enqueue(e) \/ Untimed!EnqueueNow(e)]_vars
  BY EnqueueAtHead
<1> QED BY <1>1, TypeCorrect, PTL DEF Spec, LinksAtTheHead

\* The queue with its timeouts implements the queue without them, whatever the
\* timeouts: for a leftover one the search stays on the queue, runs off its end or
\* never ends.
THEOREM TimedImplementsUntimed == Spec => ImplementsUntimed
<1>1. Init => Untimed!Init
  BY SameOperators DEF Init, Untimed!Init
<1> QED BY <1>1, TypeCorrect, StepIsUntimed, PTL DEF Spec, ImplementsUntimed, Untimed!Spec

(***************************************************************************)
(* A single VR                                                             *)
(***************************************************************************)
\* what the shape says when v is the only VR
SoloLinks(qq, v) == qq.next[v] = qq.prev[v] /\ (qq.next[v] = v => qq.head = v)

\* Removing the only VR neither crashes nor leaves it a link.
LEMMA RmqueueSolo ==
    ASSUME NEW v \in Vr, Vr = {v}, NEW qq \in Queues, SoloLinks(qq, v)
    PROVE  /\ ~RmqueueCrashes(qq, v)
           /\ vrrp_rmqueue_impl(qq, v).next[v] = NULL
           /\ vrrp_rmqueue_impl(qq, v).prev[v] = NULL
<1>1. ~RmqueueCrashes(qq, v)
  BY DEF RmqueueCrashes, RelinkCrashes, SoloLinks
<1>2. /\ vrrp_rmqueue_impl(qq, v).next[v] = NULL
      /\ vrrp_rmqueue_impl(qq, v).prev[v] = NULL
  BY DEF vrrp_rmqueue_impl, bypassEntry, relinkSuccessor, clearNext, clearPrev, Queues
<1> QED BY <1>1, <1>2

\* Linking the only VR, on the empty queue or before itself.
LEMMA EnqueueSolo ==
    ASSUME NEW v \in Vr, Vr = {v}, NEW qq \in Queues, SoloLinks(qq, v)
    PROVE  SoloLinks(vrrp_enqueue_impl(qq, v), v)
<1>1. vrrp_enqueue_impl(qq, v).head = v
  BY EnqueueImplType
<1>2. CASE qq.head = NULL
  <2>1. vrrp_enqueue_impl(qq, v) = clearPrev(setHead(qq, v), v)
    BY <1>2 DEF vrrp_enqueue_impl
  <2>2. qq.next[v] = NULL
    BY <1>2, NullAssumption DEF SoloLinks, Queues, Ptr
  <2>3. clearPrev(setHead(qq, v), v).next[v] = NULL /\ clearPrev(setHead(qq, v), v).prev[v] = NULL
    BY <2>2 DEF clearPrev, setHead, Queues
  <2> QED BY <1>1, <2>1, <2>3 DEF SoloLinks
<1>3. CASE qq.head = v
  <2> DEFINE q1 == linkBefore(qq, v, v)
             q2 == linkBack(q1, v, v)
             q3 == inheritPrev(q2, v, v)
  <2>1. q1.next[v] = v /\ q1 \in Queues /\ q1.head = v
    BY <1>3 DEF linkBefore, Queues, Ptr
  <2>2. q2.next[v] = v /\ q2.prev[v] = v /\ q2 \in Queues /\ q2.head = v
    <3> HIDE DEF q1
    <3> QED BY <2>1 DEF linkBack, Queues, Ptr
  <2>3. q3.next[v] = v /\ q3.prev[v] = v /\ q3 \in Queues /\ q3.head = v
    <3> HIDE DEF q2
    <3> QED BY <2>2 DEF inheritPrev, Queues, Ptr
  <2>4. vrrp_enqueue_impl(qq, v) = publish(q3, v, v)
    BY <1>3, NullAssumption DEF vrrp_enqueue_impl, enqueueBefore
  <2> HIDE DEF q3
  <2>5. publish(q3, v, v).next[v] = v /\ publish(q3, v, v).prev[v] = v
    BY <2>3 DEF publish, setHead, Queues
  <2> QED BY <1>1, <2>4, <2>5 DEF SoloLinks
<1> QED BY <1>2, <1>3 DEF Queues, Ptr

LEMMA NextSolo ==
    ASSUME TypeOK, Untimed!SoloShape, [Next]_vars
    PROVE  /\ Untimed!SoloShape'
           /\ [\A e \in Vr : Vr = {e} /\ ~up' => Requeue(e)]_vars
<1> SUFFICES ASSUME NEW v \in Vr, Vr = {v}
             PROVE  /\ SoloLinks(q, v)'
                    /\ [~up' => Requeue(v)]_vars
  BY DEF Untimed!SoloShape, SoloLinks
<1>0. SoloLinks(q, v) /\ q \in Queues /\ v # NULL
  BY NullAssumption DEF Untimed!SoloShape, SoloLinks, TypeOK
<1>1. ASSUME NEW e \in Vr, NEW t \in Timeouts, Enqueue(e, t)
      PROVE  SoloLinks(q, v)' /\ up'
  <2>1. e = v /\ up /\ up' = up /\ q' = vrrp_enqueue_impl(q, v)
    BY <1>1, EnqueueZero, EnqueueLater DEF Enqueue
  <2>2. SoloLinks(q', v)
    BY <1>0, <2>1, EnqueueSolo
  <2> QED BY <2>1, <2>2 DEF SoloLinks
<1>2. ASSUME RmqueueImpl(v) PROVE SoloLinks(q, v)' /\ up'
  <2>1. up /\ up' = up /\ q' = vrrp_rmqueue_impl(q, v)
    BY <1>0, <1>2, RmqueueSolo DEF RmqueueImpl
  <2>2. q'.next[v] = NULL /\ q'.prev[v] = NULL
    BY <1>0, <2>1, RmqueueSolo
  <2> QED BY <1>0, <2>1, <2>2 DEF SoloLinks
<1>3. ASSUME NEW e \in Vr, RmqueueImpl(e) \/ Rmqueue(e) PROVE SoloLinks(q, v)' /\ up'
  BY <1>2, <1>3 DEF Rmqueue
<1>4. ASSUME Requeue(v) PROVE SoloLinks(q, v)'
  <2> DEFINE q0 == vrrp_rmqueue_impl(q, v)
  <2>1. /\ ~RmqueueCrashes(q, v)
        /\ q0.next[v] = NULL /\ q0.prev[v] = NULL /\ q0 \in Queues
    BY <1>0, RmqueueSolo, RmqueueImplType
  <2>2. SoloLinks(q0, v)
    BY <1>0, <2>1 DEF SoloLinks
  <2>3. \/ q' = vrrp_enqueue_impl(q0, v)
        \/ q0.head # NULL /\ \E c \in Chain(q0) : q' = enqueueBefore(q0, v, c)
        \/ q' = q
    BY <1>4, <2>1, RequeueAny
  <2> HIDE DEF q0
  <2>4. CASE q0.head # NULL /\ \E c \in Chain(q0) : q' = enqueueBefore(q0, v, c)
    <3>1. q0.head = v /\ \A c \in Chain(q0) : c = v
      BY <2>1, <2>4, ChainClosed DEF Queues, Ptr
    <3>2. q' = enqueueBefore(q0, v, v)
      BY <2>4, <3>1
    <3>3. q' = vrrp_enqueue_impl(q0, v)
      BY <1>0, <3>1, <3>2 DEF vrrp_enqueue_impl
    <3>4. SoloLinks(q', v)
      BY <2>1, <2>2, <3>3, EnqueueSolo
    <3> QED BY <3>4 DEF SoloLinks
  <2>5. CASE q' = vrrp_enqueue_impl(q0, v)
    <3>1. SoloLinks(q', v)
      BY <2>1, <2>2, <2>5, EnqueueSolo
    <3> QED BY <3>1 DEF SoloLinks
  <2>6. CASE q' = q
    BY <1>0, <2>6 DEF SoloLinks
  <2> QED BY <2>3, <2>4, <2>5, <2>6
<1>5. ASSUME Dequeue PROVE SoloLinks(q, v)' /\ up'
  <2>1. q.head = v
    BY <1>5 DEF Dequeue, TypeOK, Queues, Ptr
  <2> QED BY <1>2, <1>5, <2>1 DEF Dequeue
<1>6. ASSUME \/ \E d \in 0 .. MaxDelay : Alarm(d)
             \/ Elapse
             \/ Fire
      PROVE  SoloLinks(q, v)' /\ up'
  BY <1>0, <1>6 DEF Alarm, Elapse, Fire, SoloLinks
<1>7. CASE UNCHANGED vars
  BY <1>0, <1>7 DEF vars, SoloLinks
<1>8. ASSUME NEW e \in Vr, Requeue(e) PROVE SoloLinks(q, v)' /\ Requeue(v)
  BY <1>4, <1>8
<1> QED BY <1>1, <1>3, <1>5, <1>6, <1>7, <1>8 DEF Next

\* With a single VR no sequence of queue calls writes through a NULL pointer, but
\* for a requeue with a leftover timeout.  The shape of its two links is what makes
\* that inductive: a successor without a predecessor, on which vrrp_rmqueue_impl
\* would crash, cannot arise, not even from such a requeue.
THEOREM SoloQueueIsSafe == Spec => SoloSafe
<1>1. Init => Untimed!SoloShape
  BY NullAssumption DEF Init, EmptyQueue, Untimed!SoloShape
<1>2. TypeOK /\ Untimed!SoloShape /\ [Next]_vars =>
        /\ Untimed!SoloShape'
        /\ [\A e \in Vr : Vr = {e} /\ ~up' => Requeue(e)]_vars
  BY NextSolo
<1> QED BY <1>1, <1>2, TypeCorrect, PTL DEF Spec, SoloSafe
=============================================================================
