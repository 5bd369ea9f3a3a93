-------------------------- MODULE AdmOptionsProofs --------------------------
(***************************************************************************)
(* Proofs about the command line, for any values typed and lines of any    *)
(* length.                                                                 *)
(***************************************************************************)
EXTENDS AdmOptions, SequenceTheorems, WellFoundedInduction, TLAPS

(***************************************************************************)
(* Induction by the least counterexample, and folds                        *)
(***************************************************************************)

\* Every set of numbers that is not empty has a least one.
LEMMA Least ==
    ASSUME NEW S \in SUBSET Nat, S # {}
    PROVE  \E x \in S : \A y \in S : x <= y
<1>1. PICK x \in S : \A y \in S : ~(<<y, x>> \in OpToRel(<, Nat))
  BY NatLessThanWellFounded, WFMin
<1>2. ASSUME NEW y \in S PROVE x <= y
  <2>1. ~(y < x)
    BY <1>1 DEF OpToRel
  <2> QED BY <2>1
<1> QED BY <1>2

\* A set of places has a last one.
LEMMA Greatest ==
    ASSUME NEW n \in Nat, NEW S \in SUBSET (1 .. n), S # {}
    PROVE  Max(S) \in S /\ \A y \in S : y <= Max(S)
<1> DEFINE T == {n - x : x \in S}
<1>1. T \in SUBSET Nat /\ T # {}
  <2>1. \A x \in S : n - x \in Nat
    OBVIOUS
  <2> QED BY <2>1
<1>2. PICK t \in T : \A u \in T : t <= u
  <2> HIDE DEF T
  <2> QED BY <1>1, Least
<1>3. PICK x \in S : t = n - x
  OBVIOUS
<1>4. ASSUME NEW y \in S PROVE x >= y
  <2>1. n - y \in T
    OBVIOUS
  <2>2. n - x <= n - y
    BY <1>2, <1>3, <2>1
  <2> QED BY <2>2
<1>5. /\ Max(S) \in S
      /\ \A y \in S : Max(S) >= y
  BY <1>4 DEF Max
<1> QED BY <1>5

LEMMA GreatestIs ==
    ASSUME NEW n \in Nat, NEW S \in SUBSET (1 .. n), NEW b \in S, \A y \in S : y <= b
    PROVE  Max(S) = b
<1>1. Max(S) \in S /\ \A y \in S : y <= Max(S)
  BY Greatest
<1>2. b \in 1 .. n /\ b <= Max(S) /\ Max(S) <= b
  BY <1>1
<1>3. Max(S) \in 1 .. n
  BY <1>1
<1> QED
  <2> HIDE DEF Max
  <2> QED BY <1>2, <1>3

\* The words read one after the other: h holds what getopt has after each of them.
ReadRun(h, words, n, letters) ==
    /\ h[0] = NothingRead /\ ReadAll(words, letters) = h[n]
    /\ \A m \in 0 .. n - 1 : h[m + 1] = Takes(letters, h[m], words[m + 1])

LEMMA ReadAllSteps ==
    ASSUME NEW words, NEW n \in Nat, DOMAIN words = 1 .. n, NEW letters
    PROVE  \E h : ReadRun(h, words, n, letters)
<1> DEFINE Runs(f, m) ==
             f = [s \in SUBSET (1 .. m) |->
                    IF s = {} THEN NothingRead
                    ELSE Takes(letters, f[s \ {Max(s)}], words[Max(s)])]
           Bad == {m \in Nat : ~(\E f : Runs(f, m))}
<1>1. ReadAll(words, letters) = (CHOOSE f : Runs(f, n))[1 .. n]
  BY DEF ReadAll, FoldLeft, MapThenFoldSet
<1>2. Bad = {}
  <2> SUFFICES ASSUME Bad # {} PROVE FALSE
    OBVIOUS
  <2>1. PICK b \in Bad : \A c \in Bad : b <= c
    <3>1. Bad \in SUBSET Nat
      OBVIOUS
    <3> HIDE DEF Bad
    <3> QED BY <3>1, Least
  <2>2. b \in Nat /\ ~(\E f : Runs(f, b))
    BY <2>1
  <2>3. ASSUME b = 0 PROVE FALSE
    <3> DEFINE f == [s \in SUBSET (1 .. b) |-> NothingRead]
    <3>1. \A s \in SUBSET (1 .. b) : s = {}
      BY <2>3
    <3>2. Runs(f, b)
      BY <3>1
    <3> QED BY <2>2, <3>2
  <2>4. ASSUME b # 0 PROVE FALSE
    <3>1. b - 1 \in Nat /\ b - 1 \notin Bad
      <4>1. b - 1 \in Nat /\ ~(b <= b - 1)
        BY <2>2, <2>4
      <4> HIDE DEF Bad
      <4> QED BY <2>1, <4>1
    <3>2. PICK f : Runs(f, b - 1)
      BY <3>1
    <3> DEFINE g == [s \in SUBSET (1 .. b) |->
                       IF b \in s THEN Takes(letters, f[s \ {b}], words[b]) ELSE f[s]]
    <3>3. ASSUME NEW s \in SUBSET (1 .. b)
          PROVE  g[s] = IF s = {} THEN NothingRead
                        ELSE Takes(letters, g[s \ {Max(s)}], words[Max(s)])
      <4>1. CASE s = {}
        BY <2>2, <3>2, <4>1
      <4>2. CASE b \in s
        <5>1. Max(s) = b
          <6>1. \A y \in s : y <= b
            BY <2>2
          <6> QED BY <2>2, <4>2, <6>1, GreatestIs
        <5>2. s \ {b} \in SUBSET (1 .. b) /\ b \notin s \ {b}
          OBVIOUS
        <5>3. g[s \ {b}] = f[s \ {b}]
          BY <5>2
        <5> HIDE DEF g
        <5>4. g[s] = Takes(letters, f[s \ {b}], words[b])
          BY <4>2 DEF g
        <5> QED BY <4>2, <5>1, <5>3, <5>4
      <4>3. CASE s # {} /\ b \notin s
        <5>1. s \in SUBSET (1 .. b - 1)
          BY <2>2, <4>3
        <5>2. s \ {Max(s)} \in SUBSET (1 .. b) /\ b \notin s \ {Max(s)}
          BY <4>3
        <5>3. g[s \ {Max(s)}] = f[s \ {Max(s)}] /\ g[s] = f[s]
          BY <4>3, <5>2
        <5>4. f[s] = Takes(letters, f[s \ {Max(s)}], words[Max(s)])
          BY <3>2, <4>3, <5>1
        <5> QED BY <4>3, <5>3, <5>4
      <4> QED BY <4>1, <4>2, <4>3
    <3>4. Runs(g, b)
      <4> DEFINE G == [s \in SUBSET (1 .. b) |->
                         IF s = {} THEN NothingRead
                         ELSE Takes(letters, g[s \ {Max(s)}], words[Max(s)])]
      <4>1. \A s \in SUBSET (1 .. b) : g[s] = G[s]
        BY <3>3
      <4>2. g = [s \in SUBSET (1 .. b) |-> g[s]] /\ G = [s \in SUBSET (1 .. b) |-> G[s]]
        OBVIOUS
      <4>3. g = G
        <5> HIDE DEF g, G
        <5> QED BY <4>1, <4>2
      <4> QED BY <4>3
    <3> QED BY <2>2, <3>4
  <2> QED BY <2>3, <2>4
<1> DEFINE F == CHOOSE f : Runs(f, n)
           h == [m \in 0 .. n |-> F[1 .. m]]
<1>3. Runs(F, n)
  <2>1. \E f : Runs(f, n)
    BY <1>2
  <2> HIDE DEF Runs
  <2> QED BY <2>1
<1> HIDE DEF F
<1>4. h[0] = NothingRead
  <2>1. 1 .. 0 = {} /\ h[0] = F[1 .. 0]
    OBVIOUS
  <2>2. F[{}] = NothingRead
    BY <1>3
  <2> QED BY <2>1, <2>2
<1>5. ASSUME NEW m \in 0 .. n - 1
      PROVE  h[m + 1] = Takes(letters, h[m], words[m + 1])
  <2>1. /\ 1 .. m + 1 \in SUBSET (1 .. n) /\ 1 .. m + 1 # {} /\ m + 1 \in 0 .. n
        /\ m + 1 \in 1 .. m + 1 /\ \A y \in 1 .. m + 1 : y <= m + 1
    <3>1. m \in Nat /\ m + 1 <= n
      OBVIOUS
    <3>2. \A y \in 1 .. m + 1 : y \in 1 .. n /\ y <= m + 1
      BY <3>1
    <3>3. m + 1 \in 1 .. m + 1 /\ m + 1 \in 0 .. n
      BY <3>1
    <3> QED BY <3>2, <3>3
  <2>2. Max(1 .. m + 1) = m + 1
    BY <2>1, GreatestIs
  <2>3. (1 .. m + 1) \ {m + 1} = 1 .. m
    OBVIOUS
  <2>4. F[1 .. m + 1] = Takes(letters, F[(1 .. m + 1) \ {Max(1 .. m + 1)}], words[Max(1 .. m + 1)])
    BY <1>3, <2>1
  <2>5. F[1 .. m + 1] = Takes(letters, F[1 .. m], words[m + 1])
    BY <2>2, <2>3, <2>4
  <2> QED BY <2>1, <2>5
<1>6. ReadAll(words, letters) = h[n]
  BY <1>1 DEF F
<1> QED
  <2> HIDE DEF h
  <2>1. ReadRun(h, words, n, letters)
    BY <1>4, <1>5, <1>6 DEF ReadRun
  <2> QED BY <2>1

\* The options found read one after the other: h holds what create has after each.
CreateRun(h, words, n, base) ==
    /\ h[0] = base /\ FoldLeft(Reads, base, words) = h[n]
    /\ \A m \in 0 .. n - 1 : h[m + 1] = Reads(h[m], words[m + 1])

LEMMA ReadsSteps ==
    ASSUME NEW words, NEW n \in Nat, DOMAIN words = 1 .. n, NEW base
    PROVE  \E h : CreateRun(h, words, n, base)
<1> DEFINE Runs(f, m) ==
             f = [s \in SUBSET (1 .. m) |->
                    IF s = {} THEN base
                    ELSE Reads(f[s \ {Max(s)}], words[Max(s)])]
           Bad == {m \in Nat : ~(\E f : Runs(f, m))}
<1>1. FoldLeft(Reads, base, words) = (CHOOSE f : Runs(f, n))[1 .. n]
  BY DEF FoldLeft, MapThenFoldSet
<1>2. Bad = {}
  <2> SUFFICES ASSUME Bad # {} PROVE FALSE
    OBVIOUS
  <2>1. PICK b \in Bad : \A c \in Bad : b <= c
    <3>1. Bad \in SUBSET Nat
      OBVIOUS
    <3> HIDE DEF Bad
    <3> QED BY <3>1, Least
  <2>2. b \in Nat /\ ~(\E f : Runs(f, b))
    BY <2>1
  <2>3. ASSUME b = 0 PROVE FALSE
    <3> DEFINE f == [s \in SUBSET (1 .. b) |-> base]
    <3>1. \A s \in SUBSET (1 .. b) : s = {}
      BY <2>3
    <3>2. Runs(f, b)
      BY <3>1
    <3> QED BY <2>2, <3>2
  <2>4. ASSUME b # 0 PROVE FALSE
    <3>1. b - 1 \in Nat /\ b - 1 \notin Bad
      <4>1. b - 1 \in Nat /\ ~(b <= b - 1)
        BY <2>2, <2>4
      <4> HIDE DEF Bad
      <4> QED BY <2>1, <4>1
    <3>2. PICK f : Runs(f, b - 1)
      BY <3>1
    <3> DEFINE g == [s \in SUBSET (1 .. b) |->
                       IF b \in s THEN Reads(f[s \ {b}], words[b]) ELSE f[s]]
    <3>3. ASSUME NEW s \in SUBSET (1 .. b)
          PROVE  g[s] = IF s = {} THEN base
                        ELSE Reads(g[s \ {Max(s)}], words[Max(s)])
      <4>1. CASE s = {}
        BY <2>2, <3>2, <4>1
      <4>2. CASE b \in s
        <5>1. Max(s) = b
          <6>1. \A y \in s : y <= b
            BY <2>2
          <6> QED BY <2>2, <4>2, <6>1, GreatestIs
        <5>2. s \ {b} \in SUBSET (1 .. b) /\ b \notin s \ {b}
          OBVIOUS
        <5>3. g[s \ {b}] = f[s \ {b}]
          BY <5>2
        <5> HIDE DEF g
        <5>4. g[s] = Reads(f[s \ {b}], words[b])
          BY <4>2 DEF g
        <5> QED BY <4>2, <5>1, <5>3, <5>4
      <4>3. CASE s # {} /\ b \notin s
        <5>1. s \in SUBSET (1 .. b - 1)
          BY <2>2, <4>3
        <5>2. s \ {Max(s)} \in SUBSET (1 .. b) /\ b \notin s \ {Max(s)}
          BY <4>3
        <5>3. g[s \ {Max(s)}] = f[s \ {Max(s)}] /\ g[s] = f[s]
          BY <4>3, <5>2
        <5>4. f[s] = Reads(f[s \ {Max(s)}], words[Max(s)])
          BY <3>2, <4>3, <5>1
        <5> QED BY <4>3, <5>3, <5>4
      <4> QED BY <4>1, <4>2, <4>3
    <3>4. Runs(g, b)
      <4> DEFINE G == [s \in SUBSET (1 .. b) |->
                         IF s = {} THEN base
                         ELSE Reads(g[s \ {Max(s)}], words[Max(s)])]
      <4>1. \A s \in SUBSET (1 .. b) : g[s] = G[s]
        BY <3>3
      <4>2. g = [s \in SUBSET (1 .. b) |-> g[s]] /\ G = [s \in SUBSET (1 .. b) |-> G[s]]
        OBVIOUS
      <4>3. g = G
        <5> HIDE DEF g, G
        <5> QED BY <4>1, <4>2
      <4> QED BY <4>3
    <3> QED BY <2>2, <3>4
  <2> QED BY <2>3, <2>4
<1> DEFINE F == CHOOSE f : Runs(f, n)
           h == [m \in 0 .. n |-> F[1 .. m]]
<1>3. Runs(F, n)
  <2>1. \E f : Runs(f, n)
    BY <1>2
  <2> HIDE DEF Runs
  <2> QED BY <2>1
<1> HIDE DEF F
<1>4. h[0] = base
  <2>1. 1 .. 0 = {} /\ h[0] = F[1 .. 0]
    OBVIOUS
  <2>2. F[{}] = base
    BY <1>3
  <2> QED BY <2>1, <2>2
<1>5. ASSUME NEW m \in 0 .. n - 1
      PROVE  h[m + 1] = Reads(h[m], words[m + 1])
  <2>1. /\ 1 .. m + 1 \in SUBSET (1 .. n) /\ 1 .. m + 1 # {} /\ m + 1 \in 0 .. n
        /\ m + 1 \in 1 .. m + 1 /\ \A y \in 1 .. m + 1 : y <= m + 1
    <3>1. m \in Nat /\ m + 1 <= n
      OBVIOUS
    <3>2. \A y \in 1 .. m + 1 : y \in 1 .. n /\ y <= m + 1
      BY <3>1
    <3>3. m + 1 \in 1 .. m + 1 /\ m + 1 \in 0 .. n
      BY <3>1
    <3> QED BY <3>2, <3>3
  <2>2. Max(1 .. m + 1) = m + 1
    BY <2>1, GreatestIs
  <2>3. (1 .. m + 1) \ {m + 1} = 1 .. m
    OBVIOUS
  <2>4. F[1 .. m + 1] = Reads(F[(1 .. m + 1) \ {Max(1 .. m + 1)}], words[Max(1 .. m + 1)])
    BY <1>3, <2>1
  <2>5. F[1 .. m + 1] = Reads(F[1 .. m], words[m + 1])
    BY <2>2, <2>3, <2>4
  <2> QED BY <2>1, <2>5
<1>6. FoldLeft(Reads, base, words) = h[n]
  BY <1>1 DEF F
<1> QED
  <2> HIDE DEF h
  <2>1. CreateRun(h, words, n, base)
    BY <1>4, <1>5, <1>6 DEF CreateRun
  <2> QED BY <2>1

\* What holds at 0 and is kept by every step up to n holds at n.
LEMMA Climb ==
    ASSUME NEW n \in Nat, NEW S, 0 \in S, \A m \in 0 .. n - 1 : m \in S => m + 1 \in S
    PROVE  \A m \in 0 .. n : m \in S
<1> DEFINE Bad == {m \in Nat : m <= n /\ m \notin S}
<1> SUFFICES ASSUME Bad # {} PROVE FALSE
  OBVIOUS
<1>1. PICK b \in Bad : \A c \in Bad : b <= c
  <2>1. Bad \in SUBSET Nat
    OBVIOUS
  <2> HIDE DEF Bad
  <2> QED BY <2>1, Least
<1>2. b \in Nat /\ b <= n /\ b \notin S /\ b # 0
  OBVIOUS
<1>3. b - 1 \in 0 .. n - 1 /\ ~(b <= b - 1)
  BY <1>2
<1>4. b - 1 \in S
  BY <1>1, <1>3
<1> QED BY <1>2, <1>3, <1>4

(***************************************************************************)
(* What getopt keeps and returns                                           *)
(***************************************************************************)

\* A word with an option and its value has both in it.
Typed == {w \in Word : w.joined => w.len >= 2}

Reading(letters, m) ==
    {a \in [want : letters \cup {""}, opts : Seq(Typed), rest : Seq(Typed),
            found : Seq([opt : letters, arg : Word]), unknown : Nat] :
        Len(a.opts) + Len(a.rest) = m /\ a.unknown <= Len(a.opts)}

LEMMA Appended ==
    ASSUME NEW S, NEW q \in Seq(S), NEW e \in S
    PROVE  /\ Append(q, e) \in Seq(S) /\ Len(Append(q, e)) = Len(q) + 1 /\ Len(q) \in Nat
           /\ DOMAIN Append(q, e) = 1 .. Len(q) + 1 /\ DOMAIN q = 1 .. Len(q)
           /\ \A k \in 1 .. Len(q) : Append(q, e)[k] = q[k]
           /\ Append(q, e)[Len(q) + 1] = e
  OBVIOUS

LEMMA Longer ==
    ASSUME NEW S, NEW q \in Seq(S), NEW e \in S
    PROVE  Append(q, e) \in Seq(S) /\ Len(Append(q, e)) = Len(q) + 1 /\ Len(q) \in Nat
  OBVIOUS

\* The argument in a word of its option is a word.
LEMMA JoinedValue ==
    ASSUME NEW w \in Typed, w.joined
    PROVE  Text(w.val, w.len - 2) \in Word
<1>1. w \in Word /\ w.len >= 2
  BY DEF Typed
<1>2. w.val \in Nat /\ w.len \in Nat
  BY <1>1 DEF Word
<1>3. w.len - 2 \in Nat
  BY <1>1, <1>2
<1> QED BY <1>2, <1>3 DEF Text, Word

LEMMA InReading ==
    ASSUME NEW letters, NEW m,
           NEW b \in [want : letters \cup {""}, opts : Seq(Typed), rest : Seq(Typed),
                     found : Seq([opt : letters, arg : Word]), unknown : Nat],
           NEW x, NEW y, Len(b.opts) = x, Len(b.rest) = y, x + y = m, b.unknown <= x
    PROVE  b \in Reading(letters, m)
<1>1. Len(b.opts) + Len(b.rest) = m
  OBVIOUS
<1>2. b.unknown <= Len(b.opts)
  OBVIOUS
<1> QED BY <1>1, <1>2 DEF Reading

LEMMA TakesTyped ==
    ASSUME NEW letters \in SUBSET Letter, NEW m \in Nat, NEW a \in Reading(letters, m),
           NEW w \in Typed
    PROVE  Takes(letters, a, w) \in Reading(letters, m + 1)
<1> DEFINE o == Append(a.opts, w)
           b == Takes(letters, a, w)
           x == Len(a.opts)
           y == Len(a.rest)
<1>1. /\ a \in [want : letters \cup {""}, opts : Seq(Typed), rest : Seq(Typed),
                found : Seq([opt : letters, arg : Word]), unknown : Nat]
      /\ x + y = m /\ a.unknown <= x
  BY DEF Reading
<1>2. /\ a.opts \in Seq(Typed) /\ a.rest \in Seq(Typed) /\ a.unknown \in Nat
      /\ a.found \in Seq([opt : letters, arg : Word]) /\ a.want \in letters \cup {""}
      /\ x + y = m /\ a.unknown <= x
  BY <1>1
<1>3. o \in Seq(Typed) /\ Len(o) = x + 1 /\ x \in Nat /\ y \in Nat
  <2>1. o \in Seq(Typed) /\ Len(o) = x + 1 /\ x \in Nat
    BY <1>2, Longer
  <2>2. y \in Nat
    <3>1. a.rest \in Seq(Typed)
      BY <1>2
    <3> QED BY <3>1
  <2> QED BY <2>1, <2>2
<1>a. x + y = m /\ a.unknown <= x /\ a.unknown \in Nat /\ x \in Nat /\ y \in Nat
  BY <1>2, <1>3
<1>4. w \in Word
  BY DEF Typed
<1>5. ASSUME a.want # "" PROVE b \in Reading(letters, m + 1)
  <2>1. [opt |-> a.want, arg |-> w] \in [opt : letters, arg : Word]
    BY <1>2, <1>4, <1>5
  <2>2. Append(a.found, [opt |-> a.want, arg |-> w]) \in Seq([opt : letters, arg : Word])
    BY <1>2, <2>1, Longer
  <2> DEFINE f == Append(a.found, [opt |-> a.want, arg |-> w])
  <2>3. b = [a EXCEPT !.want = "", !.opts = o, !.found = f]
    BY <1>1, <1>5 DEF Takes
  <2> HIDE DEF o, f, b
  <2>4. /\ b \in [want : letters \cup {""}, opts : Seq(Typed), rest : Seq(Typed),
                  found : Seq([opt : letters, arg : Word]), unknown : Nat]
        /\ b.opts = o /\ b.rest = a.rest /\ b.unknown = a.unknown
    BY <1>1, <1>3, <2>2, <2>3 DEF f
  <2>7. b.unknown = a.unknown
    BY <2>4
  <2> HIDE DEF x, y
  <2>5. (x + 1) + y = m + 1 /\ b.unknown <= x + 1
    BY <1>a, <2>7
  <2>6. Len(b.opts) = x + 1 /\ Len(b.rest) = y
    BY <1>3, <2>4 DEF x, y
  <2> QED BY <2>4, <2>5, <2>6, InReading
<1>6. ASSUME a.want = "", w.opt = "" PROVE b \in Reading(letters, m + 1)
  <2> DEFINE r == Append(a.rest, w)
  <2>1. r \in Seq(Typed) /\ Len(r) = y + 1
    BY <1>2, Longer
  <2>2. b = [a EXCEPT !.rest = r]
    BY <1>1, <1>6 DEF Takes
  <2> HIDE DEF r, b
  <2>4. /\ b \in [want : letters \cup {""}, opts : Seq(Typed), rest : Seq(Typed),
                  found : Seq([opt : letters, arg : Word]), unknown : Nat]
        /\ b.opts = a.opts /\ b.rest = r /\ b.unknown = a.unknown
    BY <1>1, <2>1, <2>2
  <2>7. b.unknown = a.unknown
    BY <2>4
  <2> HIDE DEF x, y
  <2>5. x + (y + 1) = m + 1 /\ b.unknown <= x
    BY <1>a, <2>7
  <2>6. Len(b.opts) = x /\ Len(b.rest) = y + 1
    BY <1>3, <2>1, <2>4 DEF x, y
  <2> QED BY <2>4, <2>5, <2>6, InReading
<1>7. ASSUME a.want = "", w.opt # "", w.opt \notin letters PROVE b \in Reading(letters, m + 1)
  <2>2. b = [a EXCEPT !.opts = o, !.unknown = Len(a.opts) + 1]
    BY <1>1, <1>7 DEF Takes
  <2> HIDE DEF o, b
  <2>4. /\ b \in [want : letters \cup {""}, opts : Seq(Typed), rest : Seq(Typed),
                  found : Seq([opt : letters, arg : Word]), unknown : Nat]
        /\ b.opts = o /\ b.rest = a.rest /\ b.unknown = x + 1
    <3>1. x + 1 \in Nat
      BY <1>3
    <3> QED BY <1>1, <1>3, <2>2, <3>1
  <2>7. b.unknown = x + 1
    BY <2>4
  <2> HIDE DEF x, y
  <2>5. (x + 1) + y = m + 1 /\ b.unknown <= x + 1
    BY <1>a, <2>7
  <2>6. Len(b.opts) = x + 1 /\ Len(b.rest) = y
    BY <1>3, <2>4 DEF x, y
  <2> QED BY <2>4, <2>5, <2>6, InReading
<1>8. ASSUME a.want = "", w.opt # "", w.opt \in letters, w.joined
      PROVE  b \in Reading(letters, m + 1)
  <2> DEFINE e == [opt |-> w.opt, arg |-> Text(w.val, w.len - 2)]
             f == Append(a.found, e)
  <2>1. e \in [opt : letters, arg : Word]
    BY <1>8, JoinedValue
  <2>2. f \in Seq([opt : letters, arg : Word])
    <3> HIDE DEF e
    <3> QED BY <1>2, <2>1, Longer
  <2>3. b = [a EXCEPT !.opts = o, !.unknown = 0, !.found = f]
    BY <1>1, <1>8 DEF Takes
  <2> HIDE DEF o, f, b
  <2>4. /\ b \in [want : letters \cup {""}, opts : Seq(Typed), rest : Seq(Typed),
                  found : Seq([opt : letters, arg : Word]), unknown : Nat]
        /\ b.opts = o /\ b.rest = a.rest /\ b.unknown = 0
    BY <1>1, <1>3, <2>2, <2>3
  <2>7. b.unknown = 0
    BY <2>4
  <2> HIDE DEF x, y
  <2>5. (x + 1) + y = m + 1 /\ b.unknown <= x + 1
    BY <1>a, <2>7
  <2>6. Len(b.opts) = x + 1 /\ Len(b.rest) = y
    BY <1>3, <2>4 DEF x, y
  <2> QED BY <2>4, <2>5, <2>6, InReading
<1>9. ASSUME a.want = "", w.opt # "", w.opt \in letters, ~w.joined
      PROVE  b \in Reading(letters, m + 1)
  <2>2. b = [a EXCEPT !.opts = o, !.unknown = 0, !.want = w.opt]
    BY <1>1, <1>9 DEF Takes
  <2> HIDE DEF o, b
  <2>4. /\ b \in [want : letters \cup {""}, opts : Seq(Typed), rest : Seq(Typed),
                  found : Seq([opt : letters, arg : Word]), unknown : Nat]
        /\ b.opts = o /\ b.rest = a.rest /\ b.unknown = 0
    BY <1>1, <1>3, <1>9, <2>2
  <2>7. b.unknown = 0
    BY <2>4
  <2> HIDE DEF x, y
  <2>5. (x + 1) + y = m + 1 /\ b.unknown <= x + 1
    BY <1>a, <2>7
  <2>6. Len(b.opts) = x + 1 /\ Len(b.rest) = y
    BY <1>3, <2>4 DEF x, y
  <2> QED BY <2>4, <2>5, <2>6, InReading
<1> QED BY <1>5, <1>6, <1>7, <1>8, <1>9

LEMMA ReadAllTyped ==
    ASSUME NEW letters \in SUBSET Letter, NEW words \in Seq(Typed)
    PROVE  ReadAll(words, letters) \in Reading(letters, Len(words))
<1> DEFINE n == Len(words)
<1>1. n \in Nat /\ DOMAIN words = 1 .. n /\ \A k \in 1 .. n : words[k] \in Typed
  OBVIOUS
<1>2. PICK h : ReadRun(h, words, n, letters)
  <2>1. n \in Nat /\ DOMAIN words = 1 .. n
    BY <1>1
  <2> HIDE DEF n
  <2> QED BY <2>1, ReadAllSteps
<1> DEFINE S == {m \in 0 .. n : h[m] \in Reading(letters, m)}
<1>3. 0 \in S
  <2>1. NothingRead \in Reading(letters, 0)
    <3>1. <<>> \in Seq(Typed) /\ <<>> \in Seq([opt : letters, arg : Word]) /\ Len(<<>>) = 0
      OBVIOUS
    <3>2. /\ NothingRead \in [want : letters \cup {""}, opts : Seq(Typed), rest : Seq(Typed),
                             found : Seq([opt : letters, arg : Word]), unknown : Nat]
          /\ NothingRead.opts = <<>> /\ NothingRead.rest = <<>> /\ NothingRead.unknown = 0
      BY <3>1 DEF NothingRead
    <3>3. /\ Len(NothingRead.opts) = 0 /\ Len(NothingRead.rest) = 0
          /\ NothingRead.unknown <= 0
      <4> DEFINE e == <<>>
      <4>1. Len(e) = 0
        OBVIOUS
      <4>2. NothingRead.opts = e /\ NothingRead.rest = e /\ NothingRead.unknown = 0
        BY DEF NothingRead
      <4> HIDE DEF e
      <4> QED BY <4>1, <4>2
    <3>4. 0 + 0 = 0
      OBVIOUS
    <3> QED BY <3>2, <3>3, <3>4, InReading
  <2> QED BY <1>1, <1>2, <2>1 DEF ReadRun
<1>4. ASSUME NEW m \in 0 .. n - 1, m \in S PROVE m + 1 \in S
  <2>1. m \in Nat /\ m + 1 \in 1 .. n /\ m + 1 \in 0 .. n
    BY <1>1
  <2>2. h[m + 1] \in Reading(letters, m + 1)
    BY <1>1, <1>2, <1>4, <2>1, TakesTyped DEF ReadRun
  <2> QED BY <2>1, <2>2
<1>5. n \in S
  <2> HIDE DEF S, n
  <2>1. \A m \in 0 .. n : m \in S
    BY <1>1, <1>3, <1>4, Climb
  <2> QED BY <1>1, <2>1
<1> QED BY <1>2, <1>5 DEF ReadRun

Scan == [slot : Nat, len : Nat, left : Nat, plain : BOOLEAN]

LEMMA Joins ==
    ASSUME NEW S, NEW p \in Seq(S), NEW q \in Seq(S)
    PROVE  p \o q \in Seq(S) /\ Len(p \o q) = Len(p) + Len(q) /\ Len(p) \in Nat /\ Len(q) \in Nat
  OBVIOUS

LEMMA EndsNat ==
    ASSUME NEW words \in Seq(Typed), NEW s \in Scan
    PROVE  Ends(words, s) \in Nat
<1>1. CASE s.slot \in DOMAIN words /\ words[s.slot].len >= s.len
  <2>1. words[s.slot] \in Typed
    BY <1>1
  <2> QED BY <1>1, <2>1 DEF Ends, Typed, Word
<1>2. CASE ~(s.slot \in DOMAIN words /\ words[s.slot].len >= s.len)
  BY <1>2 DEF Ends, Scan
<1> QED BY <1>1, <1>2

LEMMA GetoptTyped ==
    ASSUME NEW letters \in SUBSET Letter, NEW words \in Seq(Typed), NEW s \in Scan
    PROVE  /\ getopt(words, letters, s).found \in Seq([opt : letters, arg : Word])
           /\ getopt(words, letters, s).argv \in Seq(Typed)
           /\ Len(getopt(words, letters, s).argv) = Len(words)
           /\ getopt(words, letters, s).scan \in Scan
           /\ \/ getopt(words, letters, s).scan.slot = s.slot
              \/ getopt(words, letters, s).scan.slot <= Len(words)
<1> DEFINE skips == Skips(words, s)
           first == IF skips THEN <<words[1]>> ELSE <<>>
           left == IF skips THEN Tail(words) ELSE words
           end == ReadAll(left, letters)
           front == IF s.plain THEN <<>> ELSE first
           back == IF s.plain THEN first ELSE <<>>
           slot == IF end.opts = <<>> THEN s.slot
                   ELSE IF end.unknown = 0 THEN 0 ELSE Len(front) + end.unknown
           len == IF end.opts = <<>> THEN IF skips THEN Ends(words, s) ELSE s.len
                  ELSE IF end.unknown = 0 THEN 0 ELSE end.opts[end.unknown].len
           plain == end.opts = <<>> /\ front = <<>> /\ words # <<>>
           g == getopt(words, letters, s)
<1>1. /\ g.found = end.found /\ g.argv = front \o end.opts \o back \o end.rest
      /\ g.scan = [slot |-> slot, len |-> len, left |-> len, plain |-> plain]
  BY DEF getopt
<1>2. /\ first \in Seq(Typed) /\ left \in Seq(Typed) /\ Len(first) \in Nat /\ Len(left) \in Nat
      /\ Len(first) + Len(left) = Len(words)
  <2>1. CASE skips
    <3>1. words # <<>>
      BY <2>1 DEF Skips
    <3>2. words[1] \in Typed /\ Tail(words) \in Seq(Typed) /\ Len(Tail(words)) = Len(words) - 1
      BY <3>1
    <3>3. first = <<words[1]>> /\ left = Tail(words)
      BY <2>1
    <3> HIDE DEF first, left, skips
    <3>4. first \in Seq(Typed) /\ Len(first) = 1
      BY <3>2, <3>3
    <3> QED BY <3>2, <3>3, <3>4
  <2>2. CASE ~skips
    <3>1. first = <<>> /\ left = words
      BY <2>2
    <3> HIDE DEF first, left, skips
    <3> QED BY <3>1
  <2> QED BY <2>1, <2>2
<1>3. end \in Reading(letters, Len(left))
  <2> HIDE DEF left
  <2> QED BY <1>2, ReadAllTyped
<1> HIDE DEF end, first, left, skips, g
<1>4. /\ end.opts \in Seq(Typed) /\ end.rest \in Seq(Typed) /\ end.unknown \in Nat
      /\ end.found \in Seq([opt : letters, arg : Word])
      /\ Len(end.opts) + Len(end.rest) = Len(left) /\ end.unknown <= Len(end.opts)
  BY <1>3 DEF Reading
<1>5. /\ front \in Seq(Typed) /\ back \in Seq(Typed) /\ Len(front) \in Nat /\ Len(back) \in Nat
      /\ Len(front) + Len(back) = Len(first)
  <2>1. <<>> \in Seq(Typed) /\ Len(<<>>) = 0
    OBVIOUS
  <2>2. CASE s.plain
    BY <1>2, <2>1, <2>2
  <2>3. CASE ~s.plain
    BY <1>2, <2>1, <2>3
  <2> QED BY <2>2, <2>3
<1> HIDE DEF front, back
<1> DEFINE x == Len(end.opts)
           y == Len(end.rest)
           fr == Len(front)
           ba == Len(back)
           o == end.opts
           r == end.rest
<1>6. /\ x \in Nat /\ y \in Nat /\ fr \in Nat /\ ba \in Nat /\ o \in Seq(Typed) /\ r \in Seq(Typed)
      /\ x = Len(o) /\ y = Len(r)
  <2>1. o \in Seq(Typed) /\ r \in Seq(Typed)
    BY <1>4
  <2> HIDE DEF o, r
  <2> QED BY <1>5, <2>1 DEF o, r
<1>7. fr + ba + x + y = Len(words)
  <2> DEFINE fi == Len(first)
             le == Len(left)
  <2>1. x + y = le /\ fr + ba = fi /\ fi + le = Len(words)
    BY <1>2, <1>4, <1>5
  <2>2. x \in Nat /\ y \in Nat /\ fr \in Nat /\ ba \in Nat
    BY <1>6
  <2> HIDE DEF x, y, fr, ba, fi, le
  <2> QED BY <2>1, <2>2
<1>8. /\ front \o o \o back \o r \in Seq(Typed)
      /\ Len(front \o o \o back \o r) = ((fr + x) + ba) + y
  <2> HIDE DEF o, r, x, y
  <2>1. front \o o \in Seq(Typed) /\ Len(front \o o) = fr + x
    BY <1>5, <1>6, Joins
  <2>2. front \o o \o back \in Seq(Typed) /\ Len(front \o o \o back) = (fr + x) + ba
    BY <1>5, <2>1, Joins
  <2> QED BY <1>6, <2>2, Joins
<1>9. slot \in Nat /\ (slot = s.slot \/ slot <= Len(words))
  <2> DEFINE u == end.unknown
  <2>1. s.slot \in Nat
    BY DEF Scan
  <2>2. u \in Nat /\ u <= x
    BY <1>4
  <2>3. CASE o = <<>>
    BY <2>1, <2>3
  <2>4. CASE o # <<>> /\ u = 0
    BY <1>2, <2>4
  <2>5. CASE o # <<>> /\ u # 0
    <3>1. slot = fr + u
      BY <2>5
    <3>2. x \in Nat /\ y \in Nat /\ fr \in Nat /\ ba \in Nat
      BY <1>6
    <3> HIDE DEF u, x, y, fr, ba, slot
    <3> QED BY <1>7, <2>2, <3>1, <3>2
  <2> QED BY <2>3, <2>4, <2>5
<1>10. len \in Nat
  <2> DEFINE u == end.unknown
  <2>1. s.slot \in Nat /\ s.len \in Nat
    BY DEF Scan
  <2>2. u \in Nat /\ u <= x
    BY <1>4
  <2>3. \A w \in Typed : w.len \in Nat
    BY DEF Typed, Word
  <2>4. CASE o = <<>> /\ skips
    <3>1. len = Ends(words, s)
      BY <2>4
    <3> HIDE DEF len
    <3> QED BY <3>1, EndsNat
  <2>5. CASE o = <<>> /\ ~skips
    BY <2>1, <2>5
  <2>6. CASE o # <<>> /\ u = 0
    BY <2>6
  <2>7. CASE o # <<>> /\ u # 0
    <3>1. len = o[u].len
      BY <2>7
    <3>2. o[u] \in Typed
      <4> HIDE DEF o, u
      <4>1. u \in 1 .. Len(o)
        BY <1>6, <2>2, <2>7
      <4> QED BY <1>6, <4>1, ElementOfSeq
    <3> HIDE DEF len, o, u
    <3> QED BY <2>3, <3>1, <3>2
  <2> QED BY <2>4, <2>5, <2>6, <2>7
<1>11. plain \in BOOLEAN
  OBVIOUS
<1>13. g.scan \in Scan /\ g.scan.slot = slot
  <2> HIDE DEF slot, len, plain, g
  <2> QED BY <1>9, <1>10, <1>11, <1>1 DEF Scan
<1>14. Len(g.argv) = Len(words) /\ g.argv \in Seq(Typed)
  <2>1. ((fr + x) + ba) + y = Len(words)
    <3>1. x \in Nat /\ y \in Nat /\ fr \in Nat /\ ba \in Nat
      BY <1>6
    <3> HIDE DEF x, y, fr, ba
    <3> QED BY <1>7, <3>1
  <2>2. Len(g.argv) = Len(words)
    BY <1>8, <1>1, <2>1
  <2>3. g.argv \in Seq(Typed)
    BY <1>8, <1>1
  <2> QED BY <2>2, <2>3
<1> QED
  <2>1. g.found \in Seq([opt : letters, arg : Word])
    BY <1>4, <1>1
  <2>2. g.scan.slot = s.slot \/ g.scan.slot <= Len(words)
    BY <1>9, <1>13
  <2> QED BY <1>13, <1>14, <2>1, <2>2 DEF g

(***************************************************************************)
(* The arguments found                                                     *)
(***************************************************************************)

LEMMA LastArgNone == \A c, d : LastArg(<<>>, c, d) = d
<1> SUFFICES ASSUME NEW c, NEW d PROVE LastArg(<<>>, c, d) = d
  OBVIOUS
<1>1. {i \in 1 .. Len(<<>>) : <<>>[i].opt = c} = {}
  OBVIOUS
<1> QED BY <1>1 DEF LastArg, SelectLastInSeq

\* The argument found last is that of the last entry of its option.
LEMMA LastArgAppended ==
    ASSUME NEW S, NEW found \in Seq(S), NEW e \in S, NEW c, NEW d
    PROVE  LastArg(Append(found, e), c, d) = IF e.opt = c THEN e.arg ELSE LastArg(found, c, d)
<1> DEFINE f == Append(found, e)
           n == Len(found)
           P == {i \in 1 .. n : found[i].opt = c}
           Q == {i \in 1 .. n + 1 : f[i].opt = c}
<1>1. /\ n \in Nat /\ Len(f) = n + 1 /\ f[n + 1] = e
      /\ \A i \in 1 .. n : f[i] = found[i]
  BY Appended
<1>2. SelectLastInSeq(found, LAMBDA x : x.opt = c) = IF P # {} THEN Max(P) ELSE 0
  BY DEF SelectLastInSeq
<1>3. SelectLastInSeq(f, LAMBDA x : x.opt = c) = IF Q # {} THEN Max(Q) ELSE 0
  <2> HIDE DEF f
  <2> QED BY <1>1 DEF SelectLastInSeq
<1> HIDE DEF f, n
<1>4. CASE e.opt = c
  <2>1. n + 1 \in Q /\ Q \in SUBSET (1 .. n + 1) /\ n + 1 \in Nat /\ \A i \in Q : i <= n + 1
    BY <1>1, <1>4
  <2>2. Max(Q) = n + 1
    <3> HIDE DEF Q
    <3> QED BY <2>1, GreatestIs
  <2>3. n + 1 # 0
    BY <1>1
  <2>4. LastArg(f, c, d) = f[n + 1].arg
    <3> HIDE DEF Q
    <3> QED BY <1>3, <2>1, <2>2, <2>3 DEF LastArg
  <2> QED BY <1>1, <1>4, <2>4 DEF f
<1>5. CASE e.opt # c
  <2>1. P = Q
    <3>1. \A i \in 1 .. n + 1 : i = n + 1 \/ i \in 1 .. n
      BY <1>1
    <3>2. \A i \in 1 .. n : i \in 1 .. n + 1
      BY <1>1
    <3> QED BY <1>1, <1>5, <3>1, <3>2
  <2>2. CASE P = {}
    <3> HIDE DEF P, Q
    <3> QED BY <1>2, <1>3, <1>5, <2>1, <2>2 DEF LastArg, f
  <2>3. CASE P # {}
    <3>1. Max(P) \in P
      <4>1. P \in SUBSET (1 .. n)
        OBVIOUS
      <4> HIDE DEF P
      <4> QED BY <1>1, <2>3, <4>1, Greatest
    <3>2. Max(P) \in 1 .. n /\ Max(P) # 0
      BY <3>1
    <3>3. f[Max(P)] = found[Max(P)]
      BY <1>1, <3>2
    <3> HIDE DEF P, Q
    <3> QED BY <1>2, <1>3, <1>5, <2>1, <2>3, <3>2, <3>3 DEF LastArg, f
  <2> QED BY <2>2, <2>3
<1> QED BY <1>4, <1>5

LEMMA LastArgTyped ==
    ASSUME NEW letters, NEW found \in Seq([opt : letters, arg : Word]), NEW c, NEW d
    PROVE  LastArg(found, c, d) \in Word \cup {d}
<1> DEFINE n == Len(found)
           P == {i \in 1 .. n : found[i].opt = c}
<1>1. SelectLastInSeq(found, LAMBDA x : x.opt = c) = IF P # {} THEN Max(P) ELSE 0
  BY DEF SelectLastInSeq
<1>2. CASE P = {}
  BY <1>1, <1>2 DEF LastArg
<1>3. CASE P # {}
  <2>1. Max(P) \in P
    <3>1. P \in SUBSET (1 .. n) /\ n \in Nat
      OBVIOUS
    <3> HIDE DEF P
    <3> QED BY <1>3, <3>1, Greatest
  <2>2. Max(P) \in 1 .. n /\ Max(P) # 0
    BY <2>1
  <2>3. found[Max(P)] \in [opt : letters, arg : Word]
    <3> DEFINE k == Max(P)
    <3>1. k \in 1 .. Len(found)
      BY <2>2
    <3> HIDE DEF k
    <3>2. found[k] \in [opt : letters, arg : Word]
      BY <3>1, ElementOfSeq
    <3> QED BY <3>2 DEF k
  <2>4. found[Max(P)].arg \in Word
    <3> HIDE DEF P
    <3> QED BY <2>3
  <2> HIDE DEF P
  <2> QED BY <1>1, <1>3, <2>2, <2>4 DEF LastArg
<1> QED BY <1>2, <1>3

LEMMA strtolTyped == \A w \in Word : strtol(w) \in Nat
  BY DEF strtol, Word

LEMMA ByteOf == \A k \in Nat : k % 256 \in 0 .. 255
  OBVIOUS

LEMMA IdsTyped ==
    ASSUME NEW words \in Seq(Typed), NEW s \in Scan
    PROVE  /\ parse_opt_ids(words, s).vid \in 0 .. 255
           /\ parse_opt_ids(words, s).argv \in Seq(Typed)
           /\ Len(parse_opt_ids(words, s).argv) = Len(words)
           /\ parse_opt_ids(words, s).scan \in Scan
           /\ \/ parse_opt_ids(words, s).scan.slot = s.slot
              \/ parse_opt_ids(words, s).scan.slot <= Len(words)
<1> DEFINE g == getopt(words, {"v", "a", "i"}, s)
<1>1. {"v", "a", "i"} \in SUBSET Letter
  BY DEF Letter
<1>2. /\ g.found \in Seq([opt : {"v", "a", "i"}, arg : Word])
      /\ g.argv \in Seq(Typed) /\ Len(g.argv) = Len(words) /\ g.scan \in Scan
      /\ g.scan.slot = s.slot \/ g.scan.slot <= Len(words)
  <2> DEFINE l == {"v", "a", "i"}
  <2> HIDE DEF l
  <2> QED BY <1>1, GetoptTyped DEF l
<1>3. Value(0) \in Word
  BY DEF Value, Text, Word
<1>4. LastArg(g.found, "v", Value(0)) \in Word
  <2> HIDE DEF g
  <2> QED BY <1>2, <1>3, LastArgTyped
<1>5. strtol(LastArg(g.found, "v", Value(0))) % 256 \in 0 .. 255
  <2> HIDE DEF g
  <2> QED BY <1>4, strtolTyped, ByteOf
<1> HIDE DEF g
<1> QED BY <1>2, <1>5 DEF parse_opt_ids, g

(***************************************************************************)
(* What create makes of the options found                                  *)
(***************************************************************************)

CreateLetters == {"A", "d", "i", "j", "o", "p", "v"}
Entry == [opt : CreateLetters, arg : Word]
Inst == [cv : BOOLEAN, lost : BOOLEAN, vr_id : Nat \cup {UNDEF}, vr_ifname : Word \cup {UNDEF},
         vr_ip : Word \cup {UNDEF}, vr_af : {AF_INET, UNDEF}, pip : Word \cup {UNDEF},
         pri : 0 .. 255, delay : Nat, scan : Scan]

\* What one option changes.
LEMMA ReadsWhat ==
    ASSUME NEW r \in Inst, NEW f \in Entry
    PROVE  /\ Reads(r, f) \in Inst
           /\ Reads(r, f).lost => r.lost \/ f.opt = "o" \/ (f.opt \in {"i", "A", "j"} /\ ~r.cv)
           /\ r.cv \/ f.opt = "v" => Reads(r, f).cv
           /\ Reads(r, f).vr_id = IF f.opt = "v" THEN strtol(f.arg) % 256 ELSE r.vr_id
           /\ Reads(r, f).pri = IF f.opt = "p" THEN strtol(f.arg) % 256 ELSE r.pri
           /\ Reads(r, f).delay = IF f.opt = "d" THEN strtol(f.arg) ELSE r.delay
           /\ f.opt = "i" /\ r.cv => Reads(r, f).vr_ifname = f.arg
           /\ f.opt # "i" => Reads(r, f).vr_ifname = r.vr_ifname
           /\ f.opt = "j" /\ r.cv => Reads(r, f).pip = f.arg
           /\ f.opt # "j" => Reads(r, f).pip = r.pip
           /\ f.opt = "A" /\ r.cv /\ strtol(f.arg) > 0 => Reads(r, f).vr_ip = f.arg
           /\ f.opt \notin {"A", "j"} => Reads(r, f).vr_ip = r.vr_ip
<1>1. f.opt \in CreateLetters /\ f.arg \in Word
  BY DEF Entry
<1>2. strtol(f.arg) \in Nat /\ strtol(f.arg) % 256 \in 0 .. 255 /\ strtol(f.arg) % 256 \in Nat
  BY <1>1, strtolTyped, ByteOf
<1> DEFINE p == parse_vrip(f.arg, r)
           q == Reads(r, f)
           k == strtol(f.arg)
           b == strtol(f.arg) % 256
<1>3. /\ p \in Inst
      /\ k > 0 => p.vr_ip = f.arg
      /\ p.vr_id = r.vr_id /\ p.pri = r.pri /\ p.delay = r.delay /\ p.pip = r.pip
      /\ p.vr_ifname = r.vr_ifname
      /\ p.cv = r.cv /\ p.lost = r.lost
  <2>1. CASE k > 0
    <3>1. p = [r EXCEPT !.vr_ip = f.arg, !.vr_af = AF_INET]
      BY <2>1 DEF parse_vrip
    <3> HIDE DEF p, k
    <3>2. p \in Inst
      BY <1>1, <3>1 DEF Inst
    <3>3. /\ p.vr_ip = f.arg /\ p.vr_id = r.vr_id /\ p.pri = r.pri /\ p.delay = r.delay
          /\ p.pip = r.pip /\ p.vr_ifname = r.vr_ifname
      BY <3>1 DEF Inst
    <3>4. p.cv = r.cv /\ p.lost = r.lost
      BY <3>1, Zenon DEF Inst
    <3> QED BY <3>2, <3>3, <3>4
  <2>2. CASE ~(k > 0)
    <3>1. p = r
      BY <2>2 DEF parse_vrip
    <3> HIDE DEF p, k
    <3> QED BY <2>2, <3>1
  <2> QED BY <2>1, <2>2
<1> HIDE DEF p
<1>4. CASE f.opt = "v"
  <2>1. q = [r EXCEPT !.cv = TRUE, !.vr_id = b]
    BY <1>4 DEF Reads
  <2> HIDE DEF q, b
  <2>2. q \in Inst
    <3> DEFINE t == [r EXCEPT !.cv = TRUE]
    <3>1. t \in Inst
      BY Zenon DEF Inst
    <3>2. q = [t EXCEPT !.vr_id = b]
      BY <2>1 DEF Inst
    <3>3. b \in Nat
      BY <1>2 DEF b
    <3> HIDE DEF t
    <3> QED BY <3>1, <3>2, <3>3 DEF Inst
  <2>3. /\ q.vr_id = b /\ q.pri = r.pri /\ q.delay = r.delay /\ q.vr_ip = r.vr_ip
        /\ q.pip = r.pip /\ q.vr_ifname = r.vr_ifname
    BY <2>1 DEF Inst
  <2>4. q.cv /\ q.lost = r.lost
    BY <2>1, Zenon DEF Inst
  <2> QED BY <1>4, <2>2, <2>3, <2>4 DEF q, b
<1>5. CASE f.opt = "p"
  <2>1. q = [r EXCEPT !.pri = b]
    BY <1>5 DEF Reads
  <2> HIDE DEF q, b
  <2>2. q \in Inst
    BY <1>2, <2>1 DEF Inst, b
  <2>3. /\ q.vr_id = r.vr_id /\ q.pri = b /\ q.delay = r.delay /\ q.vr_ip = r.vr_ip
        /\ q.pip = r.pip /\ q.vr_ifname = r.vr_ifname
    BY <2>1 DEF Inst
  <2>4. q.cv = r.cv /\ q.lost = r.lost
    BY <2>1, Zenon DEF Inst
  <2> QED BY <1>5, <2>2, <2>3, <2>4 DEF q, b
<1>6. CASE f.opt = "d"
  <2>1. q = [r EXCEPT !.delay = k]
    BY <1>6 DEF Reads
  <2> HIDE DEF q, k
  <2>2. q \in Inst
    BY <1>2, <2>1 DEF Inst, k
  <2>3. /\ q.vr_id = r.vr_id /\ q.pri = r.pri /\ q.delay = k /\ q.vr_ip = r.vr_ip
        /\ q.pip = r.pip /\ q.vr_ifname = r.vr_ifname
    BY <2>1 DEF Inst
  <2>4. q.cv = r.cv /\ q.lost = r.lost
    BY <2>1, Zenon DEF Inst
  <2> QED BY <1>6, <2>2, <2>3, <2>4 DEF q, k
<1>7. CASE f.opt = "o" \/ (f.opt \in {"i", "A", "j"} /\ ~r.cv)
  <2>1. q = [r EXCEPT !.lost = TRUE]
    BY <1>7 DEF Reads
  <2> HIDE DEF q
  <2>2. q \in Inst
    BY <2>1 DEF Inst
  <2>3. /\ q.vr_id = r.vr_id /\ q.pri = r.pri /\ q.delay = r.delay /\ q.vr_ip = r.vr_ip
        /\ q.pip = r.pip /\ q.vr_ifname = r.vr_ifname
    BY <2>1 DEF Inst
  <2>4. q.cv = r.cv
    BY <2>1, Zenon DEF Inst
  <2> QED BY <1>7, <2>2, <2>3, <2>4 DEF q
<1>8. CASE f.opt = "i" /\ r.cv
  <2>1. q = [r EXCEPT !.vr_ifname = f.arg]
    BY <1>8 DEF Reads
  <2> HIDE DEF q
  <2>2. q \in Inst
    BY <1>1, <2>1 DEF Inst
  <2>3. /\ q.vr_id = r.vr_id /\ q.pri = r.pri /\ q.delay = r.delay /\ q.vr_ip = r.vr_ip
        /\ q.pip = r.pip /\ q.vr_ifname = f.arg
    BY <2>1 DEF Inst
  <2>4. q.cv = r.cv /\ q.lost = r.lost
    BY <2>1, Zenon DEF Inst
  <2> QED BY <1>8, <2>2, <2>3, <2>4 DEF q
<1>9. CASE f.opt = "A" /\ r.cv
  <2>1. q = p
    BY <1>9 DEF Reads, p
  <2> HIDE DEF q, k
  <2> QED BY <1>3, <1>9, <2>1 DEF q, k
<1>10. CASE f.opt = "j" /\ r.cv
  <2>1. q = [p EXCEPT !.pip = f.arg]
    BY <1>10 DEF Reads, p
  <2> HIDE DEF q, k
  <2>2. q \in Inst
    BY <1>1, <1>3, <2>1 DEF Inst
  <2>3. /\ q.vr_id = r.vr_id /\ q.pri = r.pri /\ q.delay = r.delay
        /\ q.pip = f.arg /\ q.vr_ifname = r.vr_ifname
    BY <1>3, <2>1 DEF Inst
  <2>4. q.cv = r.cv /\ q.lost = r.lost
    BY <1>3, <2>1, Zenon DEF Inst
  <2> QED BY <1>10, <2>2, <2>3, <2>4 DEF q
<1> QED
  <2>1. \/ f.opt = "v" \/ f.opt = "p" \/ f.opt = "d" \/ f.opt = "o"
        \/ (f.opt \in {"i", "A", "j"} /\ ~r.cv) \/ (f.opt = "i" /\ r.cv)
        \/ (f.opt = "A" /\ r.cv) \/ (f.opt = "j" /\ r.cv)
    BY <1>1 DEF CreateLetters
  <2> QED BY <2>1, <1>4, <1>5, <1>6, <1>7, <1>8, <1>9, <1>10, Zenon

\* A run of create over one more option is a run over those before it and one more step.
LEMMA ReadsAppended ==
    ASSUME NEW S, NEW found \in Seq(S), NEW e \in S, NEW base
    PROVE  FoldLeft(Reads, base, Append(found, e)) = Reads(FoldLeft(Reads, base, found), e)
<1> DEFINE f == Append(found, e)
           n == Len(found)
<1>1. /\ n \in Nat /\ n + 1 \in Nat /\ DOMAIN found = 1 .. n /\ DOMAIN f = 1 .. n + 1
      /\ f[n + 1] = e /\ \A i \in 1 .. n : f[i] = found[i]
  <2>1. n \in Nat
    OBVIOUS
  <2>2. n + 1 \in Nat
    BY <2>1
  <2> QED BY <2>1, <2>2, Appended
<1>2. PICK h : CreateRun(h, found, n, base)
  <2>1. n \in Nat /\ DOMAIN found = 1 .. n
    BY <1>1
  <2> HIDE DEF n
  <2> QED BY <2>1, ReadsSteps
<1>3. PICK k : CreateRun(k, f, n + 1, base)
  <2>1. n + 1 \in Nat /\ DOMAIN f = 1 .. n + 1
    BY <1>1
  <2> HIDE DEF n, f
  <2> QED BY <2>1, ReadsSteps
<1> HIDE DEF n, f
<1> DEFINE T == {m \in 0 .. n : h[m] = k[m]}
<1>4. n \in T
  <2>1. 0 \in T
    BY <1>1, <1>2, <1>3 DEF CreateRun
  <2>2. ASSUME NEW m \in 0 .. n - 1, m \in T PROVE m + 1 \in T
    <3>1. m + 1 \in 1 .. n /\ m \in 0 .. (n + 1) - 1 /\ m + 1 \in 0 .. n
      BY <1>1
    <3>2. h[m + 1] = Reads(h[m], found[m + 1]) /\ k[m + 1] = Reads(k[m], f[m + 1])
      BY <1>2, <1>3, <3>1 DEF CreateRun
    <3> QED BY <1>1, <2>2, <3>1, <3>2
  <2>3. \A m \in 0 .. n : m \in T
    <3> HIDE DEF T
    <3> QED BY <1>1, <2>1, <2>2, Climb
  <2> QED BY <1>1, <2>3
<1>5. k[n + 1] = Reads(k[n], f[n + 1])
  <2>1. n \in 0 .. (n + 1) - 1
    BY <1>1
  <2> QED BY <1>3, <2>1 DEF CreateRun
<1>6. FoldLeft(Reads, base, found) = h[n] /\ FoldLeft(Reads, base, f) = k[n + 1]
  BY <1>2, <1>3 DEF CreateRun
<1> QED BY <1>1, <1>4, <1>5, <1>6 DEF f

LEMMA ReadsNothing == \A base : FoldLeft(Reads, base, <<>>) = base
<1> SUFFICES ASSUME NEW base PROVE FoldLeft(Reads, base, <<>>) = base
  OBVIOUS
<1> DEFINE e == <<>>
<1>1. DOMAIN e = 1 .. 0 /\ 0 \in Nat
  OBVIOUS
<1> HIDE DEF e
<1>2. \E h : CreateRun(h, e, 0, base)
  BY <1>1, ReadsSteps
<1> QED BY <1>2 DEF CreateRun, e

LEMMA BlankTyped == \A s \in Scan : Blank(s) \in Inst
  BY DEF Blank, Inst

\* What create makes of any options is a VR as Inst describes it.
LEMMA ReadsTyped ==
    ASSUME NEW found \in Seq(Entry), NEW s \in Scan
    PROVE  FoldLeft(Reads, Blank(s), found) \in Inst
<1> DEFINE n == Len(found)
           base == Blank(s)
<1>1. n \in Nat /\ DOMAIN found = 1 .. n /\ \A m \in 1 .. n : found[m] \in Entry
  OBVIOUS
<1>2. PICK h : CreateRun(h, found, n, base)
  <2>1. n \in Nat /\ DOMAIN found = 1 .. n
    BY <1>1
  <2> HIDE DEF n, base
  <2> QED BY <2>1, ReadsSteps
<1> HIDE DEF n
<1> DEFINE T == {m \in 0 .. n : h[m] \in Inst}
<1>3. 0 \in T
  BY <1>1, <1>2, BlankTyped DEF CreateRun
<1>4. ASSUME NEW m \in 0 .. n - 1, m \in T PROVE m + 1 \in T
  <2>1. m + 1 \in 1 .. n /\ m + 1 \in 0 .. n
    BY <1>1
  <2>2. h[m + 1] = Reads(h[m], found[m + 1])
    BY <1>2 DEF CreateRun
  <2>3. h[m] \in Inst /\ found[m + 1] \in Entry
    BY <1>1, <1>4, <2>1
  <2>4. ASSUME NEW r \in Inst, NEW e \in Entry PROVE Reads(r, e) \in Inst
    BY ReadsWhat
  <2> QED BY <2>1, <2>2, <2>3, <2>4
<1>5. n \in T
  <2> HIDE DEF T
  <2>1. \A m \in 0 .. n : m \in T
    BY <1>1, <1>3, <1>4, Climb
  <2> QED BY <1>1, <2>1
<1> QED BY <1>2, <1>5 DEF CreateRun

LEMMA CreateTyped ==
    ASSUME NEW words \in Seq(Typed), NEW s \in Scan
    PROVE  /\ cmd_create(words, s).pri \in 0 .. 255
           /\ cmd_create(words, s).scan \in Scan
           /\ \/ cmd_create(words, s).scan.slot = s.slot
              \/ cmd_create(words, s).scan.slot <= Len(words)
<1> DEFINE l == {"A", "d", "i", "j", "o", "p", "v"}
           g == getopt(words, l, s)
           inst == FoldLeft(Reads, Blank(s), g.found)
           c == cmd_create(words, s)
<1>1. /\ g.found \in Seq(Entry) /\ g.scan \in Scan
      /\ g.scan.slot = s.slot \/ g.scan.slot <= Len(words)
  <2>1. l \in SUBSET Letter /\ l = CreateLetters
    BY DEF Letter, CreateLetters
  <2> HIDE DEF l
  <2> QED BY <2>1, GetoptTyped DEF Entry
<1>2. c = [inst EXCEPT !.lost = @ \/ inst.pip = UNDEF, !.scan = g.scan]
  BY DEF cmd_create
<1> HIDE DEF l, g, c
<1>3. inst \in Inst
  BY <1>1, ReadsTyped
<1> HIDE DEF inst
<1>4. c.pri \in 0 .. 255 /\ c.scan = g.scan
  BY <1>2, <1>3 DEF Inst
<1> QED BY <1>1, <1>4 DEF c

LEMMA ModifyTyped ==
    ASSUME NEW words \in Seq(Typed), NEW s \in Scan
    PROVE  /\ cmd_modify(words, s).scan \in Scan
           /\ \/ cmd_modify(words, s).scan.slot = s.slot
              \/ cmd_modify(words, s).scan.slot <= Len(words)
<1> DEFINE ids == parse_opt_ids(words, s)
           l == {"d", "p", "A"}
           g == getopt(ids.argv, l, ids.scan)
           c == cmd_modify(words, s)
<1>1. /\ ids.argv \in Seq(Typed) /\ Len(ids.argv) = Len(words) /\ ids.scan \in Scan
      /\ ids.scan.slot = s.slot \/ ids.scan.slot <= Len(words)
  BY IdsTyped
<1>2. c.scan = g.scan
  BY DEF cmd_modify
<1> HIDE DEF c, ids
<1>3. /\ g.scan \in Scan
      /\ g.scan.slot = ids.scan.slot \/ g.scan.slot <= Len(words)
  <2>1. l \in SUBSET Letter
    BY DEF Letter
  <2> HIDE DEF l
  <2> QED BY <1>1, <2>1, GetoptTyped
<1> HIDE DEF g
<1> QED BY <1>1, <1>2, <1>3 DEF c

(***************************************************************************)
(* Types                                                                   *)
(***************************************************************************)

\* A line holds at most two words for each time something was typed, and every word
\* with an option and its value has both in it.
IInv == TypeOK /\ line \in Seq(Typed) /\ Len(line) <= 2 * nopts

LEMMA InvTypes ==
    ASSUME IInv
    PROVE  line \in Seq(Typed) /\ scan \in Scan /\ DOMAIN line = 1 .. Len(line)
<1>1. scan \in [slot : 0 .. 2 * MaxOpts, len : Nat, left : Nat, plain : BOOLEAN]
  BY DEF IInv, TypeOK
<1>2. 0 .. 2 * MaxOpts \subseteq Nat
  BY OptionsAssumption
<1>3. line \in Seq(Typed)
  BY DEF IInv
<1>4. DOMAIN line = 1 .. Len(line)
  BY <1>3
<1> QED BY <1>1, <1>2, <1>3, <1>4 DEF Scan

\* What TypeOK says of the two parsers follows from the rest of it.
LEMMA KeepsTypes ==
    ASSUME line' \in Seq(Typed), nopts' \in 0 .. MaxOpts, Len(line') <= 2 * nopts',
           scan' \in Scan, scan'.slot <= 2 * MaxOpts
    PROVE  IInv'
<1>1. scan' \in [slot : 0 .. 2 * MaxOpts, len : Nat, left : Nat, plain : BOOLEAN]
  <2>1. scan'.slot \in Nat /\ 2 * MaxOpts \in Nat
    BY OptionsAssumption DEF Scan
  <2>2. scan'.slot \in 0 .. 2 * MaxOpts
    BY <2>1
  <2> QED BY <2>2 DEF Scan
<1>2. line' \in Seq(Word)
  <2>1. Typed \subseteq Word
    BY DEF Typed
  <2> QED BY <2>1
<1>3. parse_opt_ids(line', scan').vid \in 0 .. 255 /\ cmd_create(line', scan').pri \in 0 .. 255
  BY IdsTyped, CreateTyped
<1> QED BY <1>1, <1>2, <1>3 DEF IInv, TypeOK

LEMMA InitIInv == Init => IInv
<1> SUFFICES ASSUME Init PROVE IInv
  OBVIOUS
<1>1. line \in Seq(Typed) /\ Len(line) = 0 /\ nopts = 0 /\ line \in Seq(Word)
  BY DEF Init
<1>2. scan \in Scan /\ scan.slot = 0 /\ scan.len = 0 /\ scan.plain \in BOOLEAN
  BY DEF Init, NoScan, Scan
<1>3. scan \in [slot : 0 .. 2 * MaxOpts, len : Nat, left : Nat, plain : BOOLEAN]
  <2>1. 0 \in 0 .. 2 * MaxOpts
    BY OptionsAssumption
  <2> QED BY <2>1 DEF Init, NoScan
<1>4. parse_opt_ids(line, scan).vid \in 0 .. 255 /\ cmd_create(line, scan).pri \in 0 .. 255
  BY <1>1, <1>2, IdsTyped, CreateTyped
<1>5. nopts \in 0 .. MaxOpts /\ Len(line) <= 2 * nopts
  BY <1>1, OptionsAssumption
<1> QED BY <1>1, <1>3, <1>4, <1>5 DEF IInv, TypeOK

LEMMA GivenWords ==
    ASSUME NEW g \in Given
    PROVE  Alone(g.opt) \in Typed /\ Joined(g) \in Typed /\ Text(g.val, g.len) \in Typed
<1>1. g.opt \in Letter /\ g.val \in Nat /\ g.len \in Nat /\ g.len > 0 /\ 2 + g.len \in Nat
      /\ 2 + g.len >= 2
  <2>1. g \in [opt : Letter, val : Nat, len : Nat \ {0}]
    BY OptionsAssumption
  <2>2. g.len \in Nat \ {0} /\ g.opt \in Letter /\ g.val \in Nat
    BY <2>1
  <2> DEFINE n == g.len
  <2>3. n \in Nat \ {0}
    BY <2>2
  <2> HIDE DEF n
  <2>4. n > 0 /\ 2 + n \in Nat /\ 2 + n >= 2
    BY <2>3
  <2> QED BY <2>2, <2>4 DEF n
<1>2. Alone(g.opt) \in Word /\ Alone(g.opt).joined = FALSE
  BY <1>1 DEF Alone, Word
<1>3. Joined(g) \in Word /\ Joined(g).len >= 2
  BY <1>1 DEF Joined, Word
<1>4. Text(g.val, g.len) \in Word /\ Text(g.val, g.len).joined = FALSE
  BY <1>1 DEF Text, Word
<1> QED BY <1>2, <1>3, <1>4 DEF Typed

LEMMA AddsKeeps ==
    ASSUME IInv, NEW words \in Seq(Typed), Len(words) <= 2, Adds(words)
    PROVE  IInv'
<1>1. /\ line \in Seq(Typed) /\ nopts \in 0 .. MaxOpts /\ Len(line) <= 2 * nopts
      /\ scan \in Scan /\ scan.slot <= 2 * MaxOpts
  <2>1. scan \in [slot : 0 .. 2 * MaxOpts, len : Nat, left : Nat, plain : BOOLEAN]
    BY DEF IInv, TypeOK
  <2>2. scan.slot \in 0 .. 2 * MaxOpts
    BY <2>1
  <2>3. scan.slot \in Nat /\ scan.slot <= 2 * MaxOpts
    BY <2>2, OptionsAssumption
  <2>4. scan \in Scan
    BY <2>1, <2>3 DEF Scan
  <2> QED BY <2>3, <2>4 DEF IInv, TypeOK
<1>2. nopts < MaxOpts /\ nopts' = nopts + 1 /\ line' = line \o words /\ scan' = scan
  BY DEF Adds
<1>3. line' \in Seq(Typed) /\ Len(line') = Len(line) + Len(words)
      /\ Len(line) \in Nat /\ Len(words) \in Nat
  BY <1>1, <1>2, Joins
<1>4. nopts' \in 0 .. MaxOpts /\ Len(line') <= 2 * nopts'
  BY <1>1, <1>2, <1>3, OptionsAssumption
<1> QED BY <1>1, <1>2, <1>3, <1>4, KeepsTypes

LEMMA EntersKeeps ==
    ASSUME IInv, NEW s \in Scan, s.slot = scan.slot \/ s.slot <= Len(line), Enters(s)
    PROVE  IInv'
<1>1. /\ line \in Seq(Typed) /\ nopts \in 0 .. MaxOpts /\ Len(line) <= 2 * nopts
      /\ scan.slot \in 0 .. 2 * MaxOpts
  BY DEF IInv, TypeOK
<1>2. line' = <<>> /\ nopts' = 0 /\ scan' = s
  BY DEF Enters
<1>3. s.slot <= 2 * MaxOpts
  <2>1. s.slot \in Nat /\ Len(line) \in Nat
    BY <1>1 DEF Scan
  <2> QED BY <1>1, <2>1, OptionsAssumption
<1>4. line' \in Seq(Typed) /\ Len(line') = 0
  BY <1>2
<1>5. nopts' \in 0 .. MaxOpts /\ Len(line') <= 2 * nopts'
  BY <1>2, <1>4, OptionsAssumption
<1> QED BY <1>2, <1>3, <1>4, <1>5, KeepsTypes

LEMMA StepIInv == IInv /\ [Next]_vars => IInv'
<1> SUFFICES ASSUME IInv, [Next]_vars PROVE IInv'
  OBVIOUS
<1>1. /\ line \in Seq(Typed) /\ scan \in Scan
  BY InvTypes
<1>2. ASSUME TypesPair PROVE IInv'
  <2>1. PICK g \in Given : Adds(<<Alone(g.opt), Text(g.val, g.len)>>)
    BY <1>2 DEF TypesPair
  <2> DEFINE a == Alone(g.opt)
             b == Text(g.val, g.len)
             w == <<a, b>>
  <2>2. a \in Typed /\ b \in Typed
    BY GivenWords
  <2>3. w \in Seq(Typed) /\ Len(w) <= 2
    <3> HIDE DEF a, b
    <3> QED BY <2>2
  <2> HIDE DEF w
  <2> QED BY <2>1, <2>3, AddsKeeps DEF w
<1>3. ASSUME TypesJoined \/ TypesLetter \/ TypesValue PROVE IInv'
  <2>1. PICK g \in Given : \E a \in {Joined(g), Alone(g.opt), Text(g.val, g.len)} : Adds(<<a>>)
    BY <1>3 DEF TypesJoined, TypesLetter, TypesValue
  <2>a. PICK a \in {Joined(g), Alone(g.opt), Text(g.val, g.len)} : Adds(<<a>>)
    BY <2>1
  <2>2. a \in Typed
    BY GivenWords
  <2>3. <<a>> \in Seq(Typed) /\ Len(<<a>>) <= 2
    BY <2>2
  <2> QED BY <2>a, <2>3, AddsKeeps
<1>a. NoScan \in Scan /\ NoScan.slot <= Len(line)
  BY <1>1 DEF NoScan, Scan
<1>b. ASSUME NEW s \in Scan, s.slot = scan.slot \/ s.slot <= Len(line), Enters(Reached(s))
      PROVE  IInv'
  <2> DEFINE r == Reached(s)
  <2>1. r \in Scan /\ (r.slot = scan.slot \/ r.slot <= Len(line))
    BY <1>a, <1>b DEF Reached
  <2> HIDE DEF r
  <2> QED BY <1>b, <2>1, EntersKeeps DEF r
<1>4. ASSUME EntersIds PROVE IInv'
  BY <1>1, <1>4, <1>b, IdsTyped DEF EntersIds
<1>5. ASSUME EntersModify PROVE IInv'
  BY <1>1, <1>5, <1>b, ModifyTyped DEF EntersModify
<1>6. ASSUME EntersCreate PROVE IInv'
  <2> DEFINE s == IF cmd_create(line, scan).lost THEN NoScan ELSE cmd_create(line, scan).scan
  <2>2. Enters(Reached(s))
    BY <1>6 DEF EntersCreate
  <2>3. s \in Scan /\ (s.slot = scan.slot \/ s.slot <= Len(line))
    BY <1>1, <1>a, CreateTyped
  <2> HIDE DEF s
  <2> QED BY <1>b, <2>2, <2>3
<1>8. ASSUME EntersOther PROVE IInv'
  <2> DEFINE e == Ends(line, scan)
             s == [scan EXCEPT !.left = e]
  <2>1. Enters(s)
    BY <1>8 DEF EntersOther
  <2>2. e \in Nat
    BY <1>1, EndsNat
  <2> HIDE DEF e
  <2>3. s \in Scan /\ s.slot = scan.slot
    BY <1>1, <2>2 DEF Scan
  <2> HIDE DEF s
  <2> QED BY <2>1, <2>3, EntersKeeps
<1>9. ASSUME EntersExit PROVE IInv'
  BY <1>9, <1>a, EntersKeeps DEF EntersExit
<1>7. ASSUME UNCHANGED vars PROVE IInv'
  <2>1. line' = line /\ nopts' = nopts /\ scan' = scan
    BY <1>7 DEF vars
  <2> QED BY <2>1 DEF IInv, TypeOK
<1> QED BY <1>2, <1>3, <1>4, <1>5, <1>6, <1>7, <1>8, <1>9 DEF Next

\* TypeOK: whatever is typed, ids and priorities fit the byte they are kept in, and
\* getopt's pointer is in one of the buffers (uint8_t vid, vr_id and priority;
\* vrrpadm.c:54, 86-181, 398-450).
THEOREM TypeCorrect == Spec => []TypeOK
<1>1. IInv => TypeOK
  BY DEF IInv
<1> QED BY <1>1, InitIInv, StepIInv, PTL DEF Spec

(***************************************************************************)
(* A well-formed line, read from its beginning                             *)
(***************************************************************************)

\* The options that have been read with their values after m words.
Done(letters, m) ==
    {k \in 1 .. m : line[k].opt \in letters /\ (line[k].joined \/ k < m)}

\* getopt looks for a value after m words iff the last of them is an option alone.
Wants(letters, m, a) ==
    a.want = IF m > 0 /\ IsAlone(line[m]) /\ line[m].opt \in letters THEN line[m].opt ELSE ""

\* One word more: either no option is complete that was not, or one is, and it is
\* found with the value that the line gives it.
Grown(letters, m, a, b) ==
    \/ b.found = a.found /\ Done(letters, m + 1) = Done(letters, m)
    \/ \E k \in 1 .. m + 1 :
          /\ line[k].opt \in letters /\ k \notin Done(letters, m)
          /\ Done(letters, m + 1) = Done(letters, m) \cup {k}
          /\ b.found = Append(a.found, [opt |-> line[k].opt, arg |-> ValueAt(k)])

LEMMA Grows ==
    ASSUME NEW letters \in SUBSET Letter, WellFormed, NEW n \in Nat, n = Len(line),
           line \in Seq(Typed), NEW m \in 0 .. n - 1, NEW a \in Reading(letters, m),
           Wants(letters, m, a), NEW b, b = Takes(letters, a, line[m + 1])
    PROVE  /\ Wants(letters, m + 1, b)
           /\ Grown(letters, m, a, b)
<1> USE DEF Grown
<1> DEFINE w == line[m + 1]
<1>1. /\ m \in Nat /\ m + 1 \in 1 .. n /\ m + 1 > 0 /\ m \in 0 .. n /\ ~(m + 1 < m + 1)
      /\ DOMAIN line = 1 .. n /\ m + 1 - 1 = m /\ m < m + 1
      /\ \A j \in 1 .. m + 1 : j = m + 1 \/ (j \in 1 .. m /\ j < m + 1)
      /\ \A j \in 1 .. m : j \in 1 .. m + 1 /\ j < m + 1 /\ (j = m \/ j < m) /\ j # m + 1
  OBVIOUS
<1>2. /\ a.want \in letters \cup {""}
      /\ a \in [want : letters \cup {""}, opts : Seq(Typed), rest : Seq(Typed),
                found : Seq([opt : letters, arg : Word]), unknown : Nat]
  BY DEF Reading
<1>3. "" \notin letters
  BY DEF Letter
<1>4. CASE m > 0 /\ IsAlone(line[m]) /\ line[m].opt \in letters
  <2>1. a.want = line[m].opt /\ a.want # "" /\ m \in 1 .. n /\ ~line[m].joined
    <3>1. a.want = line[m].opt /\ a.want # ""
      BY <1>3, <1>4 DEF Wants
    <3>2. m \in 1 .. n
      BY <1>1, <1>4
    <3>3. ~line[m].joined
      BY <1>4, Zenon DEF IsAlone
    <3> QED BY <3>1, <3>2, <3>3
  <2>2. w.opt = ""
    BY <1>1, <1>4, <2>1 DEF WellFormed
  <2>3. /\ b.want = ""
        /\ b.found = Append(a.found, [opt |-> a.want, arg |-> w])
    BY <1>2, <2>1 DEF Takes
  <2>4. Wants(letters, m + 1, b)
    BY <1>3, <2>2, <2>3 DEF Wants
  <2>5. ValueAt(m) = w
    BY <2>1 DEF ValueAt
  <2>6. m \notin Done(letters, m) /\ m \in 1 .. m + 1
    <3>1. m \in Done(letters, m) => line[m].joined \/ m < m
      BY Zenon DEF Done
    <3>2. ~(m < m) /\ m \in 1 .. m + 1
      BY <1>1, <1>4
    <3> QED BY <2>1, <3>1, <3>2
  <2>7. Done(letters, m + 1) = Done(letters, m) \cup {m}
    <3>1. Done(letters, m) \subseteq 1 .. m /\ Done(letters, m + 1) \subseteq 1 .. m + 1
      BY DEF Done
    <3>2. m + 1 \notin Done(letters, m + 1)
      BY <1>3, <2>2, Zenon DEF Done
    <3>3. \A j \in 1 .. m : j \in Done(letters, m + 1) <=> line[j].opt \in letters
      BY <1>1 DEF Done
    <3>4. \A j \in 1 .. m : j # m => (j \in Done(letters, m) <=> line[j].opt \in letters)
      BY <1>1 DEF Done
    <3>5. m \in Done(letters, m + 1)
      <4>1. m \in 1 .. m
        BY <1>1, <1>4
      <4> QED BY <1>4, <3>3, <4>1
    <3> QED BY <1>1, <3>1, <3>2, <3>3, <3>4, <3>5
  <2> QED BY <1>4, <2>1, <2>3, <2>4, <2>5, <2>6, <2>7
<1>5. CASE ~(m > 0 /\ IsAlone(line[m]) /\ line[m].opt \in letters)
  <2>1. a.want = ""
    BY <1>5 DEF Wants
  <2>2. \A j \in 1 .. m : line[j].opt \in letters <=> j \in Done(letters, m)
    <3>1. ASSUME NEW j \in 1 .. m, line[j].opt \in letters PROVE j \in Done(letters, m)
      <4>1. CASE j < m
        BY <3>1, <4>1, Zenon DEF Done
      <4>2. CASE j = m
        <5>1. m > 0
          BY <1>1
        <5>2. line[m].opt # ""
          BY <1>3, <3>1, <4>2
        <5>3. line[m].joined
          BY <1>5, <3>1, <4>2, <5>1, <5>2, Zenon DEF IsAlone
        <5> QED BY <3>1, <4>2, <5>3, Zenon DEF Done
      <4> QED BY <1>1, <4>1, <4>2
    <3>2. ASSUME NEW j \in Done(letters, m) PROVE line[j].opt \in letters
      BY Zenon DEF Done
    <3> QED BY <3>1, <3>2
  <2>3. ASSUME w.opt \notin letters \/ ~w.joined
        PROVE  Done(letters, m + 1) = Done(letters, m)
    <3>1. Done(letters, m) \subseteq 1 .. m
      BY DEF Done
    <3>2. m + 1 \notin Done(letters, m + 1)
      BY <1>1, <2>3 DEF Done
    <3>3. \A j \in 1 .. m : j \in Done(letters, m + 1) <=> line[j].opt \in letters
      BY <1>1 DEF Done
    <3>4. Done(letters, m + 1) \subseteq 1 .. m + 1
      BY DEF Done
    <3> QED BY <1>1, <2>2, <3>1, <3>2, <3>3, <3>4
  <2>4. CASE w.opt = ""
    <3>1. b.want = "" /\ b.found = a.found
      BY <1>2, <2>1, <2>4 DEF Takes
    <3>2. Wants(letters, m + 1, b)
      BY <1>3, <2>4, <3>1 DEF Wants
    <3> QED BY <1>3, <2>3, <2>4, <3>1, <3>2
  <2>5. CASE w.opt # "" /\ w.opt \notin letters
    <3>1. b.want = "" /\ b.found = a.found
      BY <1>2, <2>1, <2>5 DEF Takes
    <3>2. Wants(letters, m + 1, b)
      BY <2>5, <3>1 DEF Wants
    <3> QED BY <2>3, <2>5, <3>1, <3>2
  <2>6. CASE w.opt \in letters /\ ~w.joined
    <3>1. b.want = w.opt /\ b.found = a.found
      BY <1>2, <1>3, <2>1, <2>6 DEF Takes
    <3>2. Wants(letters, m + 1, b)
      BY <1>1, <1>3, <2>6, <3>1 DEF Wants, IsAlone
    <3> QED BY <2>3, <2>6, <3>1, <3>2
  <2>7. CASE w.opt \in letters /\ w.joined
    <3>1. /\ b.want = ""
          /\ b.found = Append(a.found, [opt |-> w.opt, arg |-> Text(w.val, w.len - 2)])
      BY <1>2, <1>3, <2>1, <2>7 DEF Takes
    <3>2. Wants(letters, m + 1, b)
      BY <2>7, <3>1 DEF Wants, IsAlone
    <3>3. ValueAt(m + 1) = Text(w.val, w.len - 2)
      BY <2>7 DEF ValueAt
    <3>4. m + 1 \notin Done(letters, m) /\ m + 1 \in 1 .. m + 1
      BY <1>1 DEF Done
    <3>5. Done(letters, m + 1) = Done(letters, m) \cup {m + 1}
      <4>1. Done(letters, m) \subseteq 1 .. m
        BY DEF Done
      <4>2. m + 1 \in Done(letters, m + 1)
        BY <1>1, <2>7, <3>4 DEF Done
      <4>3. \A j \in 1 .. m : j \in Done(letters, m + 1) <=> line[j].opt \in letters
        BY <1>1 DEF Done
      <4>4. Done(letters, m + 1) \subseteq 1 .. m + 1
        BY DEF Done
      <4> QED BY <1>1, <2>2, <4>1, <4>2, <4>3, <4>4
    <3> QED BY <2>7, <3>1, <3>2, <3>3, <3>4, <3>5
  <2> QED BY <2>4, <2>5, <2>6, <2>7
<1> QED BY <1>4, <1>5

LEMMA LastAtIs ==
    ASSUME NEW n \in Nat, n = Len(line), NEW c
    PROVE  \/ LastAt(c) = 0 /\ \A k \in 1 .. n : line[k].opt # c
           \/ /\ LastAt(c) \in 1 .. n /\ line[LastAt(c)].opt = c
              /\ \A k \in 1 .. n : line[k].opt = c => k <= LastAt(c)
<1> DEFINE P == {i \in 1 .. n : line[i].opt = c}
<1>1. LastAt(c) = IF P # {} THEN Max(P) ELSE 0
  BY DEF LastAt, SelectLastInSeq
<1>2. CASE P = {}
  BY <1>1, <1>2
<1>3. CASE P # {}
  <2>1. Max(P) \in P /\ \A k \in P : k <= Max(P)
    <3>1. P \in SUBSET (1 .. n)
      OBVIOUS
    <3> HIDE DEF P
    <3> QED BY <1>3, <3>1, Greatest
  <2>2. LastAt(c) = Max(P)
    <3> HIDE DEF P
    <3> QED BY <1>1, <1>3
  <2>3. LastAt(c) \in P /\ \A k \in P : k <= LastAt(c)
    BY <2>1, <2>2
  <2> QED BY <2>3
<1> QED BY <1>2, <1>3

LEMMA FirstAtIs ==
    ASSUME NEW n \in Nat, n = Len(line), NEW c, NEW j \in 1 .. n, line[j].opt = c
    PROVE  FirstAt(c) \in 1 .. n /\ line[FirstAt(c)].opt = c /\ FirstAt(c) <= j
<1> DEFINE P == {i \in 1 .. n : line[i].opt = c}
<1>1. FirstAt(c) = IF P # {} THEN Min(P) ELSE 0
  BY DEF FirstAt, SelectInSeq
<1>2. P # {} /\ P \in SUBSET Nat /\ j \in P
  OBVIOUS
<1>3. PICK x \in P : \A y \in P : x <= y
  <2> HIDE DEF P
  <2> QED BY <1>2, Least
<1>4. Min(P) \in P /\ \A y \in P : Min(P) <= y
  <2> HIDE DEF P
  <2> QED BY <1>3 DEF Min
<1>5. FirstAt(c) = Min(P)
  <2> HIDE DEF P
  <2> QED BY <1>1, <1>2
<1>6. FirstAt(c) \in P /\ FirstAt(c) <= j
  BY <1>2, <1>4, <1>5
<1> QED BY <1>6

\* What the line gives to an option is a value.
LEMMA ValueSaid ==
    ASSUME WellFormed, line \in Seq(Typed), NEW n \in Nat, n = Len(line), NEW k \in 1 .. n,
           line[k].opt \in Letter
    PROVE  ValueAt(k) \in Word /\ ValueAt(k).opt = "" /\ strtol(ValueAt(k)) = ValueAt(k).val
<1>1. line[k] \in Typed /\ line[k].opt # ""
  <2>1. "" \notin Letter
    BY DEF Letter
  <2>2. line[k] \in Typed
    BY ElementOfSeq
  <2> QED BY <2>1, <2>2
<1>2. ValueAt(k) \in Word /\ ValueAt(k).opt = ""
  <2>1. CASE line[k].joined
    <3>1. ValueAt(k) = Text(line[k].val, line[k].len - 2)
      BY <2>1 DEF ValueAt
    <3>2. ValueAt(k) \in Word
      BY <1>1, <2>1, <3>1, JoinedValue
    <3>3. Text(line[k].val, line[k].len - 2).opt = ""
      BY Zenon DEF Text
    <3>4. ValueAt(k).opt = ""
      BY <3>1, <3>3, Zenon
    <3> QED BY <3>2, <3>4
  <2>2. CASE ~line[k].joined
    <3>1. ValueAt(k) = line[k + 1]
      BY <2>2 DEF ValueAt
    <3>2. IsAlone(line[k])
      BY <1>1, <2>2, Zenon DEF IsAlone
    <3>3. k \in DOMAIN line
      OBVIOUS
    <3>4. k < n /\ line[k + 1].opt = ""
      BY <3>2, <3>3 DEF WellFormed
    <3>5. k + 1 \in 1 .. n
      <4>1. k < n
        BY <3>4
      <4> QED BY <4>1
    <3>6. line[k + 1] \in Word
      <4>1. line[k + 1] \in Typed
        BY <3>5
      <4> QED BY <4>1 DEF Typed
    <3> QED BY <3>1, <3>4, <3>6
  <2> QED BY <2>1, <2>2
<1> QED BY <1>2 DEF strtol

LEMMA DoneAll ==
    ASSUME WellFormed, line \in Seq(Typed), NEW n \in Nat, n = Len(line),
           NEW letters \in SUBSET Letter, NEW k \in 1 .. n, line[k].opt \in letters
    PROVE  k \in Done(letters, n)
<1>1. line[k].opt # "" /\ k \in DOMAIN line
  <2>1. "" \notin Letter
    BY DEF Letter
  <2>2. line[k].opt \in Letter
    OBVIOUS
  <2>3. k \in DOMAIN line
    OBVIOUS
  <2> QED BY <2>1, <2>2, <2>3
<1>2. CASE line[k].joined
  BY <1>2, Zenon DEF Done
<1>3. CASE ~line[k].joined
  <2>1. IsAlone(line[k])
    BY <1>1, <1>3, Zenon DEF IsAlone
  <2>2. k < n
    BY <1>1, <2>1 DEF WellFormed
  <2> QED BY <2>2, Zenon DEF Done
<1> QED BY <1>2, <1>3

\* Options are complete in the order they are typed.
LEMMA DoneBefore ==
    ASSUME NEW letters, NEW m \in Nat, NEW k \in Done(letters, m), NEW j \in Nat \ {0},
           j < k, line[j].opt \in letters
    PROVE  j \in Done(letters, m)
<1>1. k \in 1 .. m
  BY DEF Done
<1>2. j < m /\ j \in 1 .. m
  BY <1>1
<1> QED BY <1>2, Zenon DEF Done

\* The last option c is complete after one more only if it is that one, or one of
\* another name.
LEMMA LastDone ==
    ASSUME NEW letters, NEW n \in Nat, n = Len(line), NEW m \in 0 .. n - 1,
           NEW k \in 1 .. m + 1, line[k].opt \in letters, k \notin Done(letters, m),
           Done(letters, m + 1) = Done(letters, m) \cup {k},
           NEW c, LastAt(c) \in Done(letters, m + 1)
    PROVE  IF line[k].opt = c THEN LastAt(c) = k ELSE LastAt(c) \in Done(letters, m)
<1>1. k \in 1 .. n /\ m \in Nat /\ m + 1 \in Nat
  OBVIOUS
<1>2. LastAt(c) \in 1 .. m + 1
  BY DEF Done
<1>3. LastAt(c) # 0
  BY <1>1, <1>2
<1>4. line[LastAt(c)].opt = c /\ \A j \in 1 .. n : line[j].opt = c => j <= LastAt(c)
  BY <1>3, LastAtIs
<1>5. CASE line[k].opt = c
  <2>1. k <= LastAt(c)
    BY <1>1, <1>4, <1>5
  <2>2. ASSUME LastAt(c) \in Done(letters, m) PROVE FALSE
    <3>1. k # LastAt(c)
      BY <2>2
    <3>2. k < LastAt(c) /\ k \in Nat \ {0}
      BY <1>1, <1>2, <2>1, <3>1
    <3> QED BY <1>1, <2>2, <3>2, DoneBefore
  <2> QED BY <1>5, <2>2
<1>6. CASE line[k].opt # c
  <2>1. LastAt(c) # k
    BY <1>4, <1>6
  <2> QED BY <1>6, <2>1
<1> QED BY <1>5, <1>6

LEMMA LineRead ==
    ASSUME WellFormed, line \in Seq(Typed), NEW n \in Nat, n = Len(line),
           NEW letters \in SUBSET Letter, NEW h, ReadRun(h, line, n, letters)
    PROVE  \A m \in 0 .. n : h[m] \in Reading(letters, m) /\ Wants(letters, m, h[m])
<1> DEFINE S == {m \in 0 .. n : h[m] \in Reading(letters, m) /\ Wants(letters, m, h[m])}
<1>1. 0 \in S
  <2>1. NothingRead \in Reading(letters, 0)
    <3> DEFINE e == <<>>
    <3>1. e \in Seq(Typed) /\ e \in Seq([opt : letters, arg : Word]) /\ Len(e) = 0
      OBVIOUS
    <3>2. /\ NothingRead.opts = e /\ NothingRead.rest = e /\ NothingRead.unknown = 0
          /\ NothingRead.found = e /\ NothingRead.want = ""
          /\ NothingRead = [want |-> "", opts |-> e, rest |-> e, found |-> e, unknown |-> 0]
      BY DEF NothingRead
    <3> HIDE DEF e
    <3>3. NothingRead \in [want : letters \cup {""}, opts : Seq(Typed), rest : Seq(Typed),
                           found : Seq([opt : letters, arg : Word]), unknown : Nat]
      BY <3>1, <3>2
    <3>4. Len(NothingRead.opts) = 0 /\ Len(NothingRead.rest) = 0
      BY <3>1, <3>2
    <3>5. NothingRead.unknown <= 0
      <4>1. NothingRead.unknown = 0
        BY <3>2
      <4> QED BY <4>1
    <3>6. 0 + 0 = 0
      OBVIOUS
    <3> QED BY <3>3, <3>4, <3>5, <3>6, InReading
  <2>2. Wants(letters, 0, NothingRead)
    BY DEF Wants, NothingRead
  <2>3. h[0] = NothingRead
    BY DEF ReadRun
  <2> QED BY <2>1, <2>2, <2>3
<1>2. ASSUME NEW m \in 0 .. n - 1, m \in S PROVE m + 1 \in S
  <2>1. m \in Nat /\ m + 1 \in 1 .. n /\ m + 1 \in 0 .. n
    OBVIOUS
  <2>2. line[m + 1] \in Typed
    <3> DEFINE k == m + 1
    <3>1. k \in 1 .. Len(line)
      BY <2>1
    <3> HIDE DEF k
    <3>2. line[k] \in Typed
      BY <3>1, ElementOfSeq
    <3> QED BY <3>2 DEF k
  <2>3. h[m] \in Reading(letters, m) /\ Wants(letters, m, h[m])
    BY <1>2
  <2>4. h[m + 1] = Takes(letters, h[m], line[m + 1])
    BY DEF ReadRun
  <2>5. h[m + 1] \in Reading(letters, m + 1)
    BY <2>1, <2>2, <2>3, <2>4, TakesTyped
  <2>6. Wants(letters, m + 1, h[m + 1])
    <3> HIDE DEF S
    <3> QED BY <2>3, <2>4, Grows
  <2> QED BY <2>1, <2>5, <2>6
<1>3. \A m \in 0 .. n : m \in S
  <2> HIDE DEF S
  <2> QED BY <1>1, <1>2, Climb
<1> QED BY <1>3

\* The last argument that getopt finds for an option is the last one on the line.
LEMMA ArgIsSaid ==
    ASSUME WellFormed, line \in Seq(Typed), NEW letters \in SUBSET Letter, NEW c \in letters,
           NEW d
    PROVE  LastArg(ReadAll(line, letters).found, c, d) = Says(c, d)
<1> DEFINE n == Len(line)
<1>1. n \in Nat /\ DOMAIN line = 1 .. n
  OBVIOUS
<1>2. PICK h : ReadRun(h, line, n, letters)
  <2> HIDE DEF n
  <2> QED BY <1>1, ReadAllSteps
<1> HIDE DEF n
<1>3. n = Len(line)
  BY DEF n
<1>4. \A m \in 0 .. n : h[m] \in Reading(letters, m) /\ Wants(letters, m, h[m])
  BY <1>1, <1>2, <1>3, LineRead
<1> DEFINE k == LastAt(c)
           S == {m \in 0 .. n :
                   /\ k \in Done(letters, m) => LastArg(h[m].found, c, d) = ValueAt(k)
                   /\ k = 0 => LastArg(h[m].found, c, d) = d}
<1>5. \/ k = 0 /\ \A j \in 1 .. n : line[j].opt # c
      \/ /\ k \in 1 .. n /\ line[k].opt = c
         /\ \A j \in 1 .. n : line[j].opt = c => j <= k
  BY <1>1, <1>3, LastAtIs
<1>6. 0 \in S
  <2>1. h[0].found = <<>>
    <3>1. h[0] = NothingRead
      BY <1>2 DEF ReadRun
    <3>2. NothingRead.found = <<>>
      BY Zenon DEF NothingRead
    <3> QED BY <3>1, <3>2, Zenon
  <2>2. LastArg(h[0].found, c, d) = d
    BY <2>1, LastArgNone
  <2>3. k \notin Done(letters, 0)
    BY DEF Done
  <2> QED BY <1>1, <2>2, <2>3
<1>7. ASSUME NEW m \in 0 .. n - 1, m \in S PROVE m + 1 \in S
  <2> DEFINE a == h[m]
             b == h[m + 1]
  <2>1. m \in 0 .. n /\ m + 1 \in 0 .. n /\ m \in Nat
    BY <1>1
  <2>2. a \in Reading(letters, m) /\ Wants(letters, m, a) /\ b = Takes(letters, a, line[m + 1])
    BY <1>2, <1>4, <2>1 DEF ReadRun
  <2>3. /\ k \in Done(letters, m) => LastArg(a.found, c, d) = ValueAt(k)
        /\ k = 0 => LastArg(a.found, c, d) = d
    BY <1>7
  <2> HIDE DEF a, b, S, k
  <2>4. Grown(letters, m, a, b)
    BY <1>1, <1>3, <2>2, Grows
  <2>5. /\ k \in Done(letters, m + 1) => LastArg(b.found, c, d) = ValueAt(k)
        /\ k = 0 => LastArg(b.found, c, d) = d
    <3>1. CASE b.found = a.found /\ Done(letters, m + 1) = Done(letters, m)
      BY <2>3, <3>1
    <3>2. ASSUME NEW j \in 1 .. m + 1,
                 line[j].opt \in letters, j \notin Done(letters, m),
                 Done(letters, m + 1) = Done(letters, m) \cup {j},
                 b.found = Append(a.found, [opt |-> line[j].opt, arg |-> ValueAt(j)])
          PROVE  /\ k \in Done(letters, m + 1) => LastArg(b.found, c, d) = ValueAt(k)
                 /\ k = 0 => LastArg(b.found, c, d) = d
      <4> DEFINE e == [opt |-> line[j].opt, arg |-> ValueAt(j)]
      <4>1. j \in 1 .. n
        BY <1>1, <2>1
      <4>2. e \in [opt : letters, arg : Word]
        <5>1. line[j].opt \in Letter
          BY <3>2
        <5>2. ValueAt(j) \in Word
          BY <1>1, <1>3, <4>1, <5>1, ValueSaid
        <5> QED BY <3>2, <5>2
      <4>3. a.found \in Seq([opt : letters, arg : Word])
        BY <2>2 DEF Reading
      <4>4. e.opt = line[j].opt /\ e.arg = ValueAt(j)
        OBVIOUS
      <4> HIDE DEF e
      <4>5. LastArg(b.found, c, d) = IF e.opt = c THEN e.arg ELSE LastArg(a.found, c, d)
        <5> DEFINE f == a.found
                   E == [opt : letters, arg : Word]
        <5>1. b.found = Append(f, e)
          BY <3>2 DEF e
        <5>2. f \in Seq(E) /\ e \in E
          BY <4>2, <4>3
        <5> HIDE DEF f, E
        <5>3. LastArg(Append(f, e), c, d) = IF e.opt = c THEN e.arg ELSE LastArg(f, c, d)
          BY <5>2, LastArgAppended
        <5> QED BY <5>1, <5>3 DEF f
      <4>6. ASSUME k \in Done(letters, m + 1)
            PROVE  IF line[j].opt = c THEN k = j ELSE k \in Done(letters, m)
        BY <1>1, <1>3, <3>2, <4>6, LastDone DEF k
      <4>7. k = 0 => line[j].opt # c
        BY <1>5, <4>1
      <4> QED BY <2>3, <4>4, <4>5, <4>6, <4>7
    <3> QED BY <2>4, <3>1, <3>2 DEF Grown
  <2> QED BY <2>1, <2>5 DEF S, b
<1>8. n \in S
  <2> HIDE DEF S
  <2>1. \A m \in 0 .. n : m \in S
    BY <1>1, <1>6, <1>7, Climb
  <2> QED BY <1>1, <2>1
<1>9. ReadAll(line, letters) = h[n]
  BY <1>2 DEF ReadRun
<1>10. CASE k = 0
  BY <1>8, <1>9, <1>10 DEF Says
<1>11. CASE k # 0
  <2>1. k \in 1 .. n /\ line[k].opt \in letters
    BY <1>5, <1>11
  <2>2. k \in Done(letters, n)
    <3> HIDE DEF k
    <3> QED BY <1>1, <1>3, <2>1, DoneAll
  <2> QED BY <1>8, <1>9, <1>11, <2>2 DEF Says
<1> QED BY <1>10, <1>11

LEMMA GetoptFromStart ==
    ASSUME NEW letters, NEW words, NEW s, ~Skips(words, s)
    PROVE  getopt(words, letters, s).found = ReadAll(words, letters).found
<1> DEFINE g == getopt(words, letters, s)
<1>1. g.found = ReadAll(IF Skips(words, s) THEN Tail(words) ELSE words, letters).found
  BY DEF getopt
<1> QED BY <1>1

\* A number that the line gives to an option is the number strtol reads.
LEMMA SaidNumber ==
    ASSUME WellFormed, line \in Seq(Typed), NEW c \in Letter, NEW k
    PROVE  strtol(Says(c, Value(k))) = Says(c, Value(k)).val
<1> DEFINE n == Len(line)
<1>1. n \in Nat
  OBVIOUS
<1> HIDE DEF n
<1>2. CASE LastAt(c) = 0
  <2>1. Says(c, Value(k)) = Value(k)
    BY <1>2 DEF Says
  <2>2. Value(k).opt = ""
    BY Zenon DEF Value, Text
  <2> QED BY <2>1, <2>2 DEF strtol
<1>3. CASE LastAt(c) # 0
  <2>1. Says(c, Value(k)) = ValueAt(LastAt(c))
    BY <1>3 DEF Says
  <2>2. LastAt(c) \in 1 .. n /\ line[LastAt(c)].opt \in Letter
    <3>1. LastAt(c) \in 1 .. n /\ line[LastAt(c)].opt = c
      BY <1>1, <1>3, LastAtIs DEF n
    <3> QED BY <3>1
  <2> QED BY <1>1, <2>1, <2>2, ValueSaid DEF n
<1> QED BY <1>2, <1>3

LEMMA AllNamed == IInv => NamesInstance
<1> SUFFICES ASSUME IInv, WellFormed, ReadFromStart PROVE IdsAsTyped
  BY DEF NamesInstance
<1> DEFINE l == {"v", "a", "i"}
           g == getopt(line, l, scan)
           ids == parse_opt_ids(line, scan)
<1>1. line \in Seq(Typed) /\ ~Skips(line, scan)
  BY DEF IInv, ReadFromStart
<1>2. l \in SUBSET Letter /\ "v" \in l /\ "i" \in l
  BY DEF Letter
<1>3. /\ ids.vid = strtol(LastArg(g.found, "v", Value(0))) % 256
      /\ ids.ifname = LastArg(g.found, "i", Value(0))
  BY DEF parse_opt_ids
<1> HIDE DEF l, ids
<1>4. g.found = ReadAll(line, l).found
  BY <1>1, GetoptFromStart
<1>5. /\ LastArg(g.found, "v", Value(0)) = Says("v", Value(0))
      /\ LastArg(g.found, "i", Value(0)) = Says("i", Value(0))
  BY <1>1, <1>2, <1>4, ArgIsSaid
<1>6. strtol(Says("v", Value(0))) = Says("v", Value(0)).val
  <2>1. "v" \in Letter
    BY DEF Letter
  <2> QED BY <1>1, <2>1, SaidNumber
<1> HIDE DEF g
<1> QED BY <1>3, <1>5, <1>6 DEF IdsAsTyped, ids

\* NamesInstance: on a well-formed line that getopt reads from its beginning, the last
\* -v and the last -i name the instance, wherever they stand (parse_opt_ids;
\* vrrpadm.c:398-450).
THEOREM InstanceAlwaysNamed == Spec => []NamesInstance
<1> QED BY InitIInv, StepIInv, AllNamed, PTL DEF Spec

\* What stands where after m words, if an option alone that is unknown is the last one:
\* the words in front are those of the line, and only its last word can be behind them.
InPlace(n, m, a) ==
    /\ m < n => Len(a.rest) = 0
    /\ \A i \in 1 .. Len(a.opts) : a.opts[i] = line[i]
    /\ \A i \in 1 .. Len(a.rest) : a.rest[i] = line[Len(a.opts) + i]

UnknownIsLast(letters, n) ==
    \A k \in 1 .. n : line[k].opt \notin letters \cup {""} /\ ~line[k].joined =>
        \A j \in 1 .. n : j > k => line[j].opt = ""

LEMMA StaysInPlace ==
    ASSUME NEW letters \in SUBSET Letter, WellFormed, NEW n \in Nat, n = Len(line),
           line \in Seq(Typed), UnknownIsLast(letters, n), NEW m \in 0 .. n - 1,
           NEW a \in Reading(letters, m), Wants(letters, m, a), InPlace(n, m, a),
           NEW b, b = Takes(letters, a, line[m + 1])
    PROVE  InPlace(n, m + 1, b)
<1> DEFINE w == line[m + 1]
           o == a.opts
           r == a.rest
<1>1. /\ m \in Nat /\ m + 1 \in 1 .. n /\ m < n /\ DOMAIN line = 1 .. n
  OBVIOUS
<1>2. /\ a \in [want : letters \cup {""}, opts : Seq(Typed), rest : Seq(Typed),
                found : Seq([opt : letters, arg : Word]), unknown : Nat]
      /\ o \in Seq(Typed) /\ r \in Seq(Typed) /\ w \in Typed
  <2>1. w \in Typed
    <3> DEFINE k == m + 1
    <3>1. k \in 1 .. Len(line)
      BY <1>1
    <3> HIDE DEF k
    <3>2. line[k] \in Typed
      BY <3>1, ElementOfSeq
    <3> QED BY <3>2 DEF k
  <2> QED BY <2>1 DEF Reading
<1>a. o \in Seq(Typed) /\ r \in Seq(Typed) /\ w \in Typed
  BY <1>2
<1>3. Len(r) = 0 /\ Len(o) = m /\ \A i \in 1 .. m : o[i] = line[i]
  <2> DEFINE x == Len(o)
             y == Len(r)
  <2>1. x + y = m /\ y = 0
    BY <1>1 DEF Reading, InPlace
  <2>2. x \in Nat
    <3>1. o \in Seq(Typed)
      BY <1>2
    <3> HIDE DEF o
    <3> QED BY <3>1
  <2>3. x = m
    <3> HIDE DEF x, y
    <3> QED BY <1>1, <2>1, <2>2
  <2> QED BY <2>1, <2>3 DEF InPlace
<1>4. ASSUME b.opts = Append(o, w), b.rest = r PROVE InPlace(n, m + 1, b)
  <2> DEFINE q == Append(o, w)
  <2> HIDE DEF o, r, w
  <2>1. Len(q) = m + 1 /\ q[m + 1] = w /\ \A i \in 1 .. m : q[i] = o[i]
    BY <1>a, <1>3, Appended
  <2>2. \A i \in 1 .. m + 1 : q[i] = line[i]
    <3> SUFFICES ASSUME NEW i \in 1 .. m + 1 PROVE q[i] = line[i]
      OBVIOUS
    <3>1. CASE i = m + 1
      BY <2>1, <3>1 DEF w
    <3>2. CASE i # m + 1
      <4>1. i \in 1 .. m
        BY <1>1, <3>2
      <4> QED BY <1>3, <2>1, <4>1
    <3> QED BY <3>1, <3>2
  <2>3. /\ b.opts = q /\ Len(b.rest) = 0
    BY <1>3, <1>4
  <2> HIDE DEF q
  <2>4. \A i \in 1 .. Len(b.rest) : FALSE
    BY <2>3
  <2> QED BY <2>1, <2>2, <2>3, <2>4 DEF InPlace
<1>5. ASSUME a.want = "", w.opt = "" PROVE InPlace(n, m + 1, b)
  <2>1. m + 1 > 1 /\ IsAlone(line[m])
    <3> DEFINE k == m + 1
    <3>1. k \in DOMAIN line /\ k - 1 = m /\ line[k].opt = ""
      <4>1. k \in 1 .. n /\ k - 1 = m
        BY <1>1
      <4>2. line[k].opt = ""
        BY <1>5
      <4> QED BY <1>1, <4>1, <4>2
    <3> HIDE DEF k
    <3>2. k > 1 /\ IsAlone(line[k - 1])
      BY <3>1 DEF WellFormed
    <3> QED BY <3>1, <3>2 DEF k
  <2>2. m \in 1 .. n /\ m > 0
    BY <1>1, <2>1
  <2>3. line[m].opt # "" /\ ~line[m].joined
    BY <2>1, Zenon DEF IsAlone
  <2>4. line[m].opt \notin letters
    <3>1. "" \notin letters
      BY DEF Letter
    <3> QED BY <1>5, <2>1, <2>2, <2>3, <3>1 DEF Wants
  <2>5. \A j \in 1 .. n : j > m => line[j].opt = ""
    BY <2>2, <2>3, <2>4 DEF UnknownIsLast
  <2>6. m + 1 = n
    <3> SUFFICES ASSUME m + 1 # n PROVE FALSE
      OBVIOUS
    <3> DEFINE j == m + 2
    <3>1. j \in 1 .. n /\ j > m /\ j - 1 = m + 1
      BY <1>1
    <3> HIDE DEF j
    <3>2. line[j].opt = ""
      BY <2>5, <3>1
    <3>3. IsAlone(line[j - 1])
      BY <1>1, <3>1, <3>2 DEF WellFormed
    <3>4. w.opt # ""
      BY <3>1, <3>3, Zenon DEF IsAlone
    <3> QED BY <1>5, <3>4
  <2> DEFINE q == Append(r, w)
  <2>7. b.opts = o /\ b.rest = q
    BY <1>2, <1>5 DEF Takes
  <2> HIDE DEF o, r, w
  <2>8. Len(q) = 0 + 1 /\ q[0 + 1] = w
    BY <1>a, <1>3, Appended
  <2>9. Len(q) = 1 /\ q[1] = w
    BY <2>8
  <2> HIDE DEF q
  <2>10. \A i \in 1 .. Len(q) : q[i] = line[m + i]
    BY <2>9 DEF w
  <2>11. ~(m + 1 < n)
    BY <1>1, <2>6
  <2>12. \A i \in 1 .. Len(b.opts) : b.opts[i] = line[i]
    BY <1>3, <2>7
  <2>13. \A i \in 1 .. Len(b.rest) : b.rest[i] = line[Len(b.opts) + i]
    BY <1>3, <2>7, <2>10
  <2> QED BY <2>11, <2>12, <2>13 DEF InPlace
<1>6. CASE a.want # ""
  BY <1>2, <1>4, <1>6 DEF Takes
<1>7. CASE a.want = "" /\ w.opt # ""
  <2>1. b.opts = Append(o, w) /\ b.rest = r
    BY <1>2, <1>7 DEF Takes
  <2> QED BY <1>4, <2>1
<1> QED BY <1>5, <1>6, <1>7

\* The first pass of modify leaves such a line as it is, and the second one reads it from
\* its beginning.
LEMMA FirstPassKeeps ==
    ASSUME WellFormed, line \in Seq(Typed), NEW letters \in SUBSET Letter, NEW s \in Scan,
           ~Skips(line, s), UnknownIsLast(letters, Len(line))
    PROVE  /\ getopt(line, letters, s).argv = line
           /\ ~Skips(line, getopt(line, letters, s).scan)
<1> DEFINE n == Len(line)
           end == ReadAll(line, letters)
           o == end.opts
           r == end.rest
           u == end.unknown
           g == getopt(line, letters, s)
<1>1. n \in Nat /\ DOMAIN line = 1 .. n
  OBVIOUS
<1>2. PICK h : ReadRun(h, line, n, letters)
  <2> HIDE DEF n
  <2> QED BY <1>1, ReadAllSteps
<1>3. \A m \in 0 .. n : h[m] \in Reading(letters, m) /\ Wants(letters, m, h[m])
  <2> HIDE DEF n
  <2> QED BY <1>1, <1>2, LineRead DEF n
<1> HIDE DEF n
<1>4. n = Len(line)
  BY DEF n
<1> DEFINE S == {m \in 0 .. n : InPlace(n, m, h[m])}
<1>5. 0 \in S
  <2>1. h[0] = NothingRead
    BY <1>2 DEF ReadRun
  <2> DEFINE e == <<>>
  <2>2. Len(e) = 0
    OBVIOUS
  <2>3. NothingRead.opts = e /\ NothingRead.rest = e
    BY DEF NothingRead
  <2> HIDE DEF e
  <2>4. InPlace(n, 0, NothingRead)
    <3>1. \A i \in 1 .. 0 : FALSE
      OBVIOUS
    <3> QED BY <2>2, <2>3, <3>1 DEF InPlace
  <2> QED BY <1>1, <2>1, <2>4
<1>6. ASSUME NEW m \in 0 .. n - 1, m \in S PROVE m + 1 \in S
  <2>1. m \in 0 .. n /\ m + 1 \in 0 .. n
    BY <1>1
  <2>2. /\ h[m] \in Reading(letters, m) /\ Wants(letters, m, h[m])
        /\ h[m + 1] = Takes(letters, h[m], line[m + 1])
    BY <1>2, <1>3, <2>1 DEF ReadRun
  <2>3. InPlace(n, m, h[m])
    BY <1>6
  <2>4. InPlace(n, m + 1, h[m + 1])
    <3> HIDE DEF S
    <3> QED BY <1>1, <1>4, <2>2, <2>3, StaysInPlace
  <2> QED BY <2>1, <2>4
<1>7. InPlace(n, n, end) /\ end \in Reading(letters, n)
  <2>1. n \in S
    <3> HIDE DEF S
    <3>1. \A m \in 0 .. n : m \in S
      BY <1>1, <1>5, <1>6, Climb
    <3> QED BY <1>1, <3>1
  <2>2. end = h[n] /\ n \in 0 .. n
    BY <1>1, <1>2 DEF ReadRun
  <2> QED BY <1>3, <2>1, <2>2
<1>8. ~Skips(line, s) /\ g.argv = (<<>> \o o) \o <<>> \o r
  BY DEF getopt
<1>9. g.scan.slot = (IF o = <<>> THEN s.slot ELSE IF u = 0 THEN 0 ELSE Len(<<>>) + u)
      /\ g.scan.len = (IF o = <<>> THEN s.len ELSE IF u = 0 THEN 0 ELSE o[u].len)
      /\ g.scan.left = g.scan.len
  BY DEF getopt
<1> HIDE DEF end, g
<1>10. o \in Seq(Typed) /\ r \in Seq(Typed) /\ u \in Nat /\ u <= Len(o) /\ Len(o) + Len(r) = n
  BY <1>7 DEF Reading
<1>11. /\ \A i \in 1 .. Len(o) : o[i] = line[i]
       /\ \A i \in 1 .. Len(r) : r[i] = line[Len(o) + i]
  BY <1>7 DEF InPlace
<1> HIDE DEF o, r, u
<1>12. g.argv = o \o r
  BY <1>8, <1>10, ConcatEmptySeq
<1>13. o \o r = line
  <2> DEFINE q == o \o r
             x == Len(o)
             y == Len(r)
  <2>1. q \in Seq(Typed) /\ Len(q) = x + y
    BY <1>10, ConcatProperties
  <2>2. x \in Nat /\ y \in Nat /\ x + y = n
    BY <1>10
  <2>3. \A i \in 1 .. x + y : q[i] = IF i <= x THEN o[i] ELSE r[i - x]
    BY <1>10, ConcatProperties
  <2> HIDE DEF q, x, y
  <2>4. ASSUME NEW i \in 1 .. n PROVE q[i] = line[i]
    <3>1. CASE i <= x
      <4>1. i \in 1 .. x
        BY <2>2, <3>1
      <4> QED BY <1>11, <2>2, <2>3, <3>1, <4>1 DEF x
    <3>2. CASE ~(i <= x)
      <4>1. i - x \in 1 .. y /\ x + (i - x) = i
        BY <2>2, <3>2
      <4>2. q[i] = r[i - x]
        BY <2>2, <2>3, <3>2
      <4>3. r[i - x] = line[x + (i - x)]
        BY <1>11, <4>1 DEF x, y
      <4> QED BY <4>1, <4>2, <4>3
    <3> QED BY <3>1, <3>2
  <2>5. Len(q) = Len(line)
    BY <1>4, <2>1, <2>2
  <2>6. q = line
    BY <1>4, <2>1, <2>4, <2>5, SeqEqual
  <2> QED BY <2>6 DEF q
<1>14. ASSUME Skips(line, g.scan) PROVE FALSE
  <2>0. g.scan \in Scan /\ line # <<>>
    BY <1>14, GetoptTyped DEF Skips, g
  <2>1. g.scan.slot \in 1 .. n /\ line[g.scan.slot].len > g.scan.len
    <3>1. Ends(line, g.scan) > g.scan.len /\ g.scan.len \in Nat
      BY <1>14, <2>0 DEF Skips, Scan
    <3>2. Ends(line, g.scan) # g.scan.left
      BY <1>9, <3>1
    <3>3. g.scan.slot \in DOMAIN line /\ Ends(line, g.scan) = line[g.scan.slot].len
      BY <3>2 DEF Ends
    <3> QED BY <1>1, <3>1, <3>3
  <2>2. CASE o = <<>>
    <3>1. g.scan.slot = s.slot /\ g.scan.len = s.len /\ s.len \in Nat
      BY <1>9, <2>2 DEF Scan
    <3>2. s.slot \in 1 .. n /\ line[s.slot].len > s.len /\ line[s.slot] \in Typed
      BY <1>1, <2>1, <3>1
    <3>3. line[s.slot].len \in Nat /\ line[s.slot].len >= s.len
      <4> DEFINE w == line[s.slot]
                 l == w.len
      <4>1. w \in Typed /\ l > s.len
        BY <3>2
      <4> HIDE DEF w
      <4>2. l \in Nat
        BY <4>1 DEF Typed, Word
      <4> HIDE DEF l
      <4>3. l >= s.len
        BY <3>1, <4>1, <4>2
      <4> QED BY <4>2, <4>3 DEF l, w
    <3>4. Ends(line, s) = line[s.slot].len
      BY <1>1, <3>2, <3>3 DEF Ends
    <3> QED BY <1>8, <2>0, <3>2, <3>4 DEF Skips
  <2>3. CASE o # <<>> /\ u = 0
    <3>1. g.scan.slot = 0
      BY <1>9, <2>3
    <3> QED BY <2>1, <3>1
  <2>4. CASE o # <<>> /\ u # 0
    <3>1. g.scan.slot = u /\ g.scan.len = o[u].len
      <4>1. Len(<<>>) + u = u
        BY <1>10
      <4> QED BY <1>9, <2>4, <4>1
    <3>2. u \in 1 .. Len(o)
      BY <1>10, <2>4
    <3>3. o[u] = line[u] /\ o[u] \in Typed
      BY <1>10, <1>11, <3>2, ElementOfSeq
    <3>4. o[u].len \in Nat
      BY <3>3 DEF Typed, Word
    <3>5. o[u].len > o[u].len
      BY <2>1, <3>1, <3>3
    <3> QED BY <3>4, <3>5
  <2> QED BY <2>2, <2>3, <2>4
<1> QED BY <1>12, <1>13, <1>14 DEF g

LEMMA AllModified == IInv => ModifyAsTyped
<1> DEFINE Apart(k) == line[k].opt \notin {"", "v", "a", "i"} /\ ~line[k].joined
           LastOption(k) == \A j \in DOMAIN line : j > k => line[j].opt = ""
           got == parse_vrrp_cmd(build_vrrp_cmd(cmd_modify(line, scan)))
<1> SUFFICES ASSUME IInv, WellFormed, ReadFromStart,
                    \A k \in DOMAIN line : Apart(k) => LastOption(k)
             PROVE  /\ got.pri = Says("p", Value(VR_PROP_UNCHANGE)).val
                    /\ got.delay = Says("d", Value(VR_PROP_UNCHANGE)).val
  BY DEF ModifyAsTyped
<1> DEFINE l == {"v", "a", "i"}
           k == {"d", "p", "A"}
           ids == parse_opt_ids(line, scan)
           first == getopt(line, l, scan)
           second == getopt(ids.argv, k, ids.scan)
           d == Value(VR_PROP_UNCHANGE)
<1>1. line \in Seq(Typed) /\ ~Skips(line, scan) /\ scan \in Scan
  BY InvTypes DEF ReadFromStart
<1>2. /\ l \in SUBSET Letter /\ k \in SUBSET Letter /\ "p" \in k /\ "d" \in k
      /\ "p" \in Letter /\ "d" \in Letter
  BY DEF Letter
<1>3. UnknownIsLast(l, Len(line))
  <2>1. DOMAIN line = 1 .. Len(line)
    BY InvTypes
  <2>2. ASSUME NEW j \in 1 .. Len(line), line[j].opt \notin l \cup {""}, ~line[j].joined
        PROVE  Apart(j)
    BY <2>2, Zenon
  <2> QED BY <2>1, <2>2 DEF UnknownIsLast
<1>4. /\ got.pri = strtol(LastArg(second.found, "p", d))
      /\ got.delay = strtol(LastArg(second.found, "d", d))
  BY DEF parse_vrrp_cmd, build_vrrp_cmd, cmd_modify
<1>5. ids.argv = first.argv /\ ids.scan = first.scan
  BY DEF parse_opt_ids
<1> HIDE DEF l, k, ids, first, got
<1>6. first.argv = line /\ ~Skips(line, first.scan)
  BY <1>1, <1>2, <1>3, FirstPassKeeps DEF first
<1>7. second.found = ReadAll(line, k).found
  BY <1>5, <1>6, GetoptFromStart
<1> HIDE DEF second, d
<1>8. /\ LastArg(second.found, "p", d) = Says("p", d)
      /\ LastArg(second.found, "d", d) = Says("d", d)
  <2>1. ASSUME NEW c \in k PROVE LastArg(second.found, c, d) = Says(c, d)
    <3>1. LastArg(ReadAll(line, k).found, c, d) = Says(c, d)
      BY <1>1, <1>2, ArgIsSaid
    <3> QED BY <1>7, <3>1
  <2> QED BY <1>2, <2>1
<1>9. strtol(Says("p", d)) = Says("p", d).val /\ strtol(Says("d", d)) = Says("d", d).val
  BY <1>1, <1>2, SaidNumber DEF d
<1> QED BY <1>4, <1>8, <1>9 DEF d

\* ModifyAsTyped: where the first pass leaves every value behind its option, the daemon
\* gets the priority and the interval that were typed (cmd_modify, vrrpadm.c:207-275;
\* build_vrrp_cmd and parse_vrrp_cmd, vrrp_common.c).
THEOREM ModifyAlwaysAsTyped == Spec => []ModifyAsTyped
<1> QED BY InitIInv, StepIInv, AllModified, PTL DEF Spec

(***************************************************************************)
(* Create                                                                  *)
(***************************************************************************)

\* The line that create can carry out.
Creatable ==
    /\ Has("v") /\ Has("j") /\ ~Has("o")
    /\ \A c \in {"i", "A", "j"} : Has(c) => FirstAt("v") < FirstAt(c)
    /\ LastAt("A") > LastAt("j") /\ Says("A", Value(0)).val > 0

\* The VR after m words: what has been complete is in it as typed, and nothing is lost.
Made(m, r) ==
    LET done == Done(CreateLetters, m)
    IN /\ r \in Inst /\ ~r.lost
       /\ FirstAt("v") \in done => r.cv
       /\ LastAt("v") \in done => r.vr_id = strtol(ValueAt(LastAt("v"))) % 256
       /\ LastAt("i") \in done => r.vr_ifname = ValueAt(LastAt("i"))
       /\ LastAt("j") \in done => r.pip = ValueAt(LastAt("j"))
       /\ LastAt("A") \in done => r.vr_ip = ValueAt(LastAt("A"))
       /\ LastAt("p") \in done => r.pri = strtol(ValueAt(LastAt("p"))) % 256
       /\ LastAt("p") = 0 => r.pri = 100
       /\ LastAt("d") \in done => r.delay = strtol(ValueAt(LastAt("d")))
       /\ LastAt("d") = 0 => r.delay = 1

LEMMA MakesOne ==
    ASSUME WellFormed, line \in Seq(Typed), NEW n \in Nat, n = Len(line), Creatable,
           NEW m \in 0 .. n - 1, NEW r, Made(m, r),
           NEW k \in 1 .. m + 1, line[k].opt \in CreateLetters,
           k \notin Done(CreateLetters, m),
           Done(CreateLetters, m + 1) = Done(CreateLetters, m) \cup {k},
           NEW e \in Entry, e.opt = line[k].opt, e.arg = ValueAt(k)
    PROVE  Made(m + 1, Reads(r, e))
<1> DEFINE L == CreateLetters
           q == Reads(r, e)
           o == e.opt
<1>1. k \in 1 .. n /\ m \in Nat /\ m + 1 \in Nat /\ k \in Nat
  OBVIOUS
<1>2. k \in Done(L, m + 1) /\ L \in SUBSET Letter /\ o \in L
  BY DEF CreateLetters, Letter
<1>3. ASSUME NEW c, LastAt(c) \in Done(L, m + 1)
      PROVE  IF o = c THEN LastAt(c) = k ELSE LastAt(c) \in Done(L, m)
  <2>1. IF line[k].opt = c THEN LastAt(c) = k ELSE LastAt(c) \in Done(L, m)
    <3> HIDE DEF L, q, o
    <3> QED BY <1>3, LastDone DEF L
  <2> QED BY <2>1
<1>4. ASSUME NEW c, LastAt(c) = 0 PROVE o # c
  <2>1. \A j \in 1 .. n : line[j].opt # c
    <3>1. LastAt(c) \notin 1 .. n
      BY <1>4
    <3> HIDE DEF L, q, o
    <3> QED BY <3>1, LastAtIs
  <2> QED BY <1>1, <2>1
<1>5. ASSUME NEW j \in Nat \ {0}, j < k, line[j].opt \in L PROVE j \in Done(L, m)
  <2>1. j \in Done(L, m + 1)
    <3> HIDE DEF L
    <3> QED BY <1>1, <1>2, <1>5, DoneBefore
  <2>2. j # k
    BY <1>1, <1>5
  <2> QED BY <2>1, <2>2
<1>6. /\ FirstAt("v") \in 1 .. n /\ line[FirstAt("v")].opt = "v"
  <2>1. DOMAIN line = 1 .. n
    OBVIOUS
  <2>2. PICK j \in 1 .. n : line[j].opt = "v"
    BY <2>1 DEF Creatable, Has
  <2> HIDE DEF L, q, o
  <2> QED BY <2>2, FirstAtIs
<1>7. ASSUME o \in {"i", "A", "j"} PROVE r.cv
  <2>1. FirstAt(o) <= k /\ FirstAt(o) \in 1 .. n
    <3> HIDE DEF L, q
    <3>1. line[k].opt = o
      OBVIOUS
    <3> HIDE DEF o
    <3> QED BY <1>1, <3>1, FirstAtIs
  <2>2. Has(o)
    <3>1. k \in DOMAIN line
      BY <1>1
    <3> QED BY <3>1 DEF Has
  <2>3. FirstAt("v") < FirstAt(o)
    BY <1>7, <2>2 DEF Creatable
  <2>4. FirstAt("v") < k /\ FirstAt("v") \in Nat \ {0}
    BY <1>1, <1>6, <2>1, <2>3
  <2>5. FirstAt("v") \in Done(L, m)
    <3>1. "v" \in L
      BY DEF CreateLetters
    <3> QED BY <1>5, <1>6, <2>4, <3>1
  <2> QED BY <2>5 DEF Made
<1>8. o # "o"
  <2>1. ~(k \in DOMAIN line /\ line[k].opt = "o")
    BY DEF Creatable, Has
  <2>2. k \in DOMAIN line
    BY <1>1
  <2> QED BY <2>1, <2>2
<1>9. ASSUME o = "A", LastAt("A") = k PROVE strtol(e.arg) > 0
  <2>1. Says("A", Value(0)) = ValueAt(k)
    BY <1>1, <1>9 DEF Says
  <2>2. strtol(ValueAt(k)) = ValueAt(k).val
    <3>1. line[k].opt \in Letter
      BY <1>2
    <3> HIDE DEF L, q, o
    <3> QED BY <1>1, <3>1, ValueSaid
  <2> QED BY <2>1, <2>2 DEF Creatable
<1>10. ASSUME o = "j" PROVE LastAt("A") \notin Done(L, m + 1)
  <2> SUFFICES ASSUME LastAt("A") \in Done(L, m + 1) PROVE FALSE
    OBVIOUS
  <2>1. LastAt("A") \in Done(L, m)
    BY <1>3, <1>10
  <2>2. LastAt("j") \in 1 .. n /\ k <= LastAt("j")
    <3>1. line[k].opt = "j"
      BY <1>10
    <3> HIDE DEF L, q, o
    <3> QED BY <1>1, <3>1, LastAtIs
  <2>3. LastAt("A") \in 1 .. m
    BY <2>1 DEF Done
  <2>4. k < LastAt("A") /\ k \in Nat \ {0}
    BY <1>1, <2>2, <2>3 DEF Creatable
  <2>5. k \in Done(L, m)
    <3> HIDE DEF L
    <3> QED BY <1>1, <1>2, <2>1, <2>4, DoneBefore DEF L
  <2> QED BY <2>5
<1>11. r \in Inst
  BY DEF Made
<1>12. q \in Inst /\ ~q.lost
  <2>1. q \in Inst /\ (q.lost => r.lost \/ o = "o" \/ (o \in {"i", "A", "j"} /\ ~r.cv))
    BY <1>11, ReadsWhat
  <2>2. ~r.lost
    BY Zenon DEF Made
  <2> QED BY <1>7, <1>8, <2>1, <2>2
<1>13. FirstAt("v") \in Done(L, m + 1) => q.cv
  <2>1. r.cv \/ o = "v" => q.cv
    BY <1>11, ReadsWhat
  <2>2. FirstAt("v") \in Done(L, m) => r.cv
    BY Zenon DEF Made
  <2>3. FirstAt("v") = k => o = "v"
    BY <1>6
  <2> QED BY <2>1, <2>2, <2>3
<1>14. LastAt("v") \in Done(L, m + 1) => q.vr_id = strtol(ValueAt(LastAt("v"))) % 256
  <2>1. q.vr_id = IF o = "v" THEN strtol(e.arg) % 256 ELSE r.vr_id
    BY <1>11, ReadsWhat
  <2>2. LastAt("v") \in Done(L, m) => r.vr_id = strtol(ValueAt(LastAt("v"))) % 256
    BY DEF Made
  <2> HIDE DEF L, q, o
  <2> QED BY <1>3, <2>1, <2>2
<1>15. /\ LastAt("p") \in Done(L, m + 1) => q.pri = strtol(ValueAt(LastAt("p"))) % 256
       /\ LastAt("p") = 0 => q.pri = 100
  <2>1. q.pri = IF o = "p" THEN strtol(e.arg) % 256 ELSE r.pri
    BY <1>11, ReadsWhat
  <2>2. /\ LastAt("p") \in Done(L, m) => r.pri = strtol(ValueAt(LastAt("p"))) % 256
        /\ LastAt("p") = 0 => r.pri = 100
    BY DEF Made
  <2> HIDE DEF L, q, o
  <2> QED BY <1>3, <1>4, <2>1, <2>2
<1>16. /\ LastAt("d") \in Done(L, m + 1) => q.delay = strtol(ValueAt(LastAt("d")))
       /\ LastAt("d") = 0 => q.delay = 1
  <2>1. q.delay = IF o = "d" THEN strtol(e.arg) ELSE r.delay
    BY <1>11, ReadsWhat
  <2>2. /\ LastAt("d") \in Done(L, m) => r.delay = strtol(ValueAt(LastAt("d")))
        /\ LastAt("d") = 0 => r.delay = 1
    BY DEF Made
  <2> HIDE DEF L, q, o
  <2> QED BY <1>3, <1>4, <2>1, <2>2
<1>17. LastAt("i") \in Done(L, m + 1) => q.vr_ifname = ValueAt(LastAt("i"))
  <2>1. /\ o = "i" /\ r.cv => q.vr_ifname = e.arg
        /\ o # "i" => q.vr_ifname = r.vr_ifname
    BY <1>11, ReadsWhat
  <2>2. LastAt("i") \in Done(L, m) => r.vr_ifname = ValueAt(LastAt("i"))
    BY DEF Made
  <2> HIDE DEF L, q, o
  <2> QED BY <1>3, <1>7, <2>1, <2>2
<1>18. LastAt("j") \in Done(L, m + 1) => q.pip = ValueAt(LastAt("j"))
  <2>1. /\ o = "j" /\ r.cv => q.pip = e.arg
        /\ o # "j" => q.pip = r.pip
    BY <1>11, ReadsWhat
  <2>2. LastAt("j") \in Done(L, m) => r.pip = ValueAt(LastAt("j"))
    BY DEF Made
  <2> HIDE DEF L, q, o
  <2> QED BY <1>3, <1>7, <2>1, <2>2
<1>19. LastAt("A") \in Done(L, m + 1) => q.vr_ip = ValueAt(LastAt("A"))
  <2>1. /\ o = "A" /\ r.cv /\ strtol(e.arg) > 0 => q.vr_ip = e.arg
        /\ o \notin {"A", "j"} => q.vr_ip = r.vr_ip
    BY <1>11, ReadsWhat
  <2>2. LastAt("A") \in Done(L, m) => r.vr_ip = ValueAt(LastAt("A"))
    BY DEF Made
  <2> HIDE DEF L, q, o
  <2> QED BY <1>3, <1>7, <1>9, <1>10, <2>1, <2>2
<1> HIDE DEF q
<1> QED BY <1>12, <1>13, <1>14, <1>15, <1>16, <1>17, <1>18, <1>19 DEF Made, q

LEMMA AllMade ==
    ASSUME WellFormed, line \in Seq(Typed), Creatable, NEW n \in Nat, n = Len(line),
           NEW s \in Scan
    PROVE  Made(n, FoldLeft(Reads, Blank(s), ReadAll(line, CreateLetters).found))
<1> DEFINE L == CreateLetters
           B == Blank(s)
<1>1. DOMAIN line = 1 .. n /\ L \in SUBSET Letter
  BY DEF CreateLetters, Letter
<1>2. PICK h : ReadRun(h, line, n, L)
  <2> HIDE DEF L
  <2> QED BY <1>1, ReadAllSteps
<1>3. \A m \in 0 .. n : h[m] \in Reading(L, m) /\ Wants(L, m, h[m])
  <2> HIDE DEF L
  <2> QED BY <1>1, <1>2, LineRead
<1> DEFINE r(m) == FoldLeft(Reads, B, h[m].found)
           S == {m \in 0 .. n : Made(m, r(m))}
<1>4. 0 \in S
  <2>1. h[0].found = <<>>
    <3>1. h[0] = NothingRead
      BY <1>2 DEF ReadRun
    <3>2. NothingRead.found = <<>>
      BY Zenon DEF NothingRead
    <3> QED BY <3>1, <3>2, Zenon
  <2>2. r(0) = B
    <3> HIDE DEF B
    <3> QED BY <2>1, ReadsNothing
  <2>3. \A k : k \notin Done(CreateLetters, 0)
    BY DEF Done
  <2>4. B \in Inst
    BY BlankTyped
  <2>5. ~B.lost
    BY Zenon DEF Blank
  <2>6. B.pri = 100 /\ B.delay = 1
    BY DEF Blank
  <2>7. Made(0, B)
    <3> HIDE DEF B
    <3> QED BY <2>3, <2>4, <2>5, <2>6 DEF Made
  <2> QED BY <2>2, <2>7
<1>5. ASSUME NEW m \in 0 .. n - 1, m \in S PROVE m + 1 \in S
  <2> DEFINE a == h[m]
             b == h[m + 1]
  <2>1. m \in 0 .. n /\ m + 1 \in 0 .. n
    OBVIOUS
  <2>2. a \in Reading(L, m) /\ Wants(L, m, a) /\ b = Takes(L, a, line[m + 1])
    BY <1>2, <1>3, <2>1 DEF ReadRun
  <2>3. Made(m, r(m))
    BY <1>5
  <2>4. Grown(L, m, a, b)
    <3> HIDE DEF L, a, b, S, B
    <3> QED BY <1>1, <2>2, Grows
  <2> HIDE DEF S, B, r
  <2>5. CASE b.found = a.found /\ Done(L, m + 1) = Done(L, m)
    <3>1. r(m + 1) = r(m)
      BY <2>5 DEF r
    <3>2. Made(m + 1, r(m))
      BY <2>3, <2>5 DEF Made
    <3> QED BY <2>1, <3>1, <3>2 DEF S
  <2>6. ASSUME NEW k \in 1 .. m + 1, line[k].opt \in L, k \notin Done(L, m),
               Done(L, m + 1) = Done(L, m) \cup {k},
               b.found = Append(a.found, [opt |-> line[k].opt, arg |-> ValueAt(k)])
        PROVE  m + 1 \in S
    <3> DEFINE e == [opt |-> line[k].opt, arg |-> ValueAt(k)]
               f == a.found
    <3>1. k \in 1 .. n /\ line[k].opt \in Letter
      BY <1>1, <2>6
    <3>2. ValueAt(k) \in Word
      <4> HIDE DEF L
      <4> QED BY <3>1, ValueSaid
    <3>3. e \in Entry /\ e.opt = line[k].opt /\ e.arg = ValueAt(k)
      BY <2>6, <3>2 DEF Entry
    <3>4. f \in Seq([opt : L, arg : Word])
      BY <2>2 DEF Reading
    <3>5. f \in Seq(Entry)
      BY <3>4 DEF Entry
    <3>6. b.found = Append(f, e)
      BY <2>6
    <3> HIDE DEF e, f
    <3>7. FoldLeft(Reads, B, Append(f, e)) = Reads(FoldLeft(Reads, B, f), e)
      BY <3>3, <3>5, ReadsAppended
    <3>8. r(m + 1) = Reads(r(m), e)
      BY <3>6, <3>7 DEF r, f
    <3>9. Made(m + 1, Reads(r(m), e))
      <4> HIDE DEF a, b
      <4> QED BY <2>3, <2>6, <3>3, MakesOne
    <3> QED BY <2>1, <3>8, <3>9 DEF S
  <2> QED BY <2>4, <2>5, <2>6 DEF Grown
<1>6. n \in S
  <2> HIDE DEF S
  <2>1. \A m \in 0 .. n : m \in S
    BY <1>4, <1>5, Climb
  <2> QED BY <2>1
<1>7. ReadAll(line, L) = h[n]
  BY <1>2 DEF ReadRun
<1> HIDE DEF L
<1> QED BY <1>6, <1>7 DEF L

LEMMA AllCreated == IInv => CreateAsTyped
<1> DEFINE inst == cmd_create(line, scan)
<1> SUFFICES ASSUME IInv, WellFormed, ReadFromStart, Creatable
             PROVE  /\ ~inst.lost
                    /\ inst.vr_id = Says("v", Value(0)).val % 256
                    /\ inst.vr_ip = Says("A", Value(0)) /\ inst.pip = Says("j", Value(0))
                    /\ Has("i") => inst.vr_ifname = Says("i", Value(0))
                    /\ inst.pri = Says("p", Value(100)).val % 256
                    /\ inst.delay = Says("d", Value(1)).val
  BY DEF CreateAsTyped, Creatable
<1> DEFINE n == Len(line)
           L == CreateLetters
           g == getopt(line, L, scan)
           r == FoldLeft(Reads, Blank(scan), g.found)
<1>1. /\ line \in Seq(Typed) /\ ~Skips(line, scan) /\ scan \in Scan /\ n \in Nat
      /\ DOMAIN line = 1 .. n
  BY InvTypes DEF ReadFromStart
<1>2. inst = [r EXCEPT !.lost = @ \/ r.pip = UNDEF, !.scan = g.scan]
  BY DEF cmd_create, CreateLetters
<1> HIDE DEF inst, n, L
<1>3. g.found = ReadAll(line, L).found
  BY <1>1, GetoptFromStart
<1> HIDE DEF g
<1>4. Made(n, r)
  BY <1>1, <1>3, AllMade DEF n, L
<1> HIDE DEF r
<1>5. ASSUME NEW c \in L, LastAt(c) # 0
      PROVE  /\ LastAt(c) \in Done(L, n) /\ ValueAt(LastAt(c)) \in Word
             /\ \A d : Says(c, d) = ValueAt(LastAt(c))
             /\ strtol(ValueAt(LastAt(c))) = ValueAt(LastAt(c)).val
  <2>1. L \in SUBSET Letter
    BY DEF L, CreateLetters, Letter
  <2>2. LastAt(c) \in 1 .. n /\ line[LastAt(c)].opt = c /\ c \in Letter
    BY <1>1, <1>5, <2>1, LastAtIs DEF n
  <2>3. LastAt(c) \in Done(L, n)
    BY <1>1, <1>5, <2>1, <2>2, DoneAll DEF n
  <2>4. /\ ValueAt(LastAt(c)) \in Word
        /\ strtol(ValueAt(LastAt(c))) = ValueAt(LastAt(c)).val
    BY <1>1, <2>2, ValueSaid DEF n
  <2> QED BY <1>5, <2>3, <2>4 DEF Says
<1>6. ASSUME NEW c, Has(c) PROVE LastAt(c) # 0
  <2>1. PICK k \in 1 .. n : line[k].opt = c
    BY <1>1, <1>6 DEF Has
  <2>2. LastAt(c) = 0 => \A j \in 1 .. n : line[j].opt # c
    <3>1. 0 \notin 1 .. n
      BY <1>1
    <3> QED BY <1>1, <3>1, LastAtIs DEF n
  <2> QED BY <2>1, <2>2
<1>7. LastAt("v") # 0 /\ LastAt("j") # 0 /\ LastAt("A") # 0
  <2>1. LastAt("v") # 0 /\ LastAt("j") # 0
    BY <1>6 DEF Creatable
  <2>2. LastAt("A") # 0
    <3> SUFFICES ASSUME LastAt("A") = 0 PROVE FALSE
      OBVIOUS
    <3>1. LastAt("j") \in 1 .. n
      BY <1>1, <2>1, LastAtIs DEF n
    <3> QED BY <1>1, <3>1 DEF Creatable
  <2> QED BY <2>1, <2>2
<1>8. "v" \in L /\ "j" \in L /\ "A" \in L /\ "i" \in L /\ "p" \in L /\ "d" \in L
  BY DEF L, CreateLetters
<1>9. r \in Inst /\ ~r.lost
  BY <1>4, Zenon DEF Made
<1>10. /\ inst.vr_id = r.vr_id /\ inst.vr_ip = r.vr_ip /\ inst.pip = r.pip
       /\ inst.vr_ifname = r.vr_ifname /\ inst.pri = r.pri /\ inst.delay = r.delay
  BY <1>2, <1>9 DEF Inst
<1>11. r.pip = ValueAt(LastAt("j")) /\ r.pip # UNDEF
  <2>1. r.pip = ValueAt(LastAt("j"))
    BY <1>4, <1>5, <1>7, <1>8 DEF Made, L
  <2>2. r.pip \in Word
    BY <1>5, <1>7, <1>8, <2>1
  <2> QED BY <2>1, <2>2, OptionsAssumption
<1>12. ~inst.lost
  <2>1. inst.lost = (r.lost \/ r.pip = UNDEF)
    BY <1>2, <1>9, Zenon DEF Inst
  <2> QED BY <1>9, <1>11, <2>1
<1>13. r.vr_id = Says("v", Value(0)).val % 256
  BY <1>4, <1>5, <1>7, <1>8 DEF Made, L
<1>14. r.vr_ip = Says("A", Value(0)) /\ r.pip = Says("j", Value(0))
  BY <1>4, <1>5, <1>7, <1>8 DEF Made, L
<1>15. Has("i") => r.vr_ifname = Says("i", Value(0))
  BY <1>4, <1>5, <1>6, <1>8 DEF Made, L
<1>16. r.pri = Says("p", Value(100)).val % 256
  <2>1. CASE LastAt("p") # 0
    BY <1>4, <1>5, <1>8, <2>1 DEF Made, L
  <2>2. CASE LastAt("p") = 0
    <3>1. Says("p", Value(100)).val = 100
      BY <2>2 DEF Says, Value, Text
    <3> QED BY <1>4, <2>2, <3>1 DEF Made
  <2> QED BY <2>1, <2>2
<1>17. r.delay = Says("d", Value(1)).val
  <2>1. CASE LastAt("d") # 0
    BY <1>4, <1>5, <1>8, <2>1 DEF Made, L
  <2>2. CASE LastAt("d") = 0
    <3>1. Says("d", Value(1)).val = 1
      BY <2>2 DEF Says, Value, Text
    <3> QED BY <1>4, <2>2, <3>1 DEF Made
  <2> QED BY <2>1, <2>2
<1> QED BY <1>10, <1>12, <1>13, <1>14, <1>15, <1>16, <1>17

\* CreateAsTyped: where -v comes first and a valid -A last, create makes the VR that was
\* typed, and neither ends nor reads through NULL (cmd_create, vrrpadm.c:86-181).
THEOREM CreateAlwaysAsTyped == Spec => []CreateAsTyped
<1> QED BY InitIInv, StepIInv, AllCreated, PTL DEF Spec
=============================================================================
