-------------------------- MODULE InstListProofs --------------------------
(***************************************************************************)
(* Proofs about inst_runtime_list, for any number of instances and ids:    *)
(* what InstLinks promises, and that the walks and searches of InstList    *)
(* keep it.                                                                *)
(***************************************************************************)
EXTENDS InstList, FiniteSetTheorems, WellFoundedInduction, TLAPS

\* LinksMatch and Sorted together are inductive, given the types.
IInv == LinksTypeOK /\ LinksMatch /\ Sorted

LEMMA InitIInv == LinksInit => IInv
<1> SUFFICES ASSUME LinksInit PROVE IInv
  OBVIOUS
<1>1. LinksTypeOK
  BY NodeAssumption DEF LinksInit, LinksTypeOK, Node
<1>2. LinksMatch
  BY NodeAssumption DEF LinksInit, LinksMatch, Node
<1>3. Sorted
  BY DEF LinksInit, Sorted
<1> QED BY <1>1, <1>2, <1>3 DEF IInv

\* What an instance's neighbours look like before a step.
LEMMA Neighbours ==
    ASSUME IInv, NEW i \in live
    PROVE  /\ prev[i] \in live \cup {ROOT} /\ next[prev[i]] = i
           /\ next[i] = NULL \/ (next[i] \in live /\ prev[next[i]] = i /\ id[i] <= id[next[i]])
  BY DEF IInv, LinksMatch, Sorted

\* "list empty" and "append new instance": nothing follows c, the new last node.
LEMMA AppendKeeps ==
    ASSUME IInv, NEW i \in Inst \ live, NEW k \in Ids, NEW c \in live \cup {ROOT},
           next[c] = NULL, c \in live => id[c] <= k,
           live' = live \cup {i}, id' = [id EXCEPT ![i] = k],
           next' = [next EXCEPT ![c] = i, ![i] = NULL],
           prev' = [prev EXCEPT ![i] = c]
    PROVE  IInv'
<1> USE NodeAssumption DEF Node
<1>1. LinksTypeOK'
  BY IdAssumption DEF IInv, LinksTypeOK
<1>2. /\ next'[c] = i /\ next'[i] = NULL /\ prev'[i] = c /\ i # c /\ id'[i] = k
      /\ \A n \in live \cup {ROOT} : n # c => next'[n] = next[n]
      /\ \A j \in live : prev'[j] = prev[j] /\ id'[j] = id[j] /\ prev[j] # c /\ j # NULL
  BY DEF IInv, LinksTypeOK, LinksMatch
<1>3. LinksMatch'
  BY <1>2 DEF IInv, LinksTypeOK, LinksMatch
<1>4. Sorted'
  BY <1>2 DEF IInv, LinksTypeOK, LinksMatch, Sorted
<1> QED BY <1>1, <1>3, <1>4 DEF IInv

\* Insertion before c.
LEMMA InsertBeforeKeeps ==
    ASSUME IInv, NEW i \in Inst \ live, NEW k \in Ids, NEW c \in live,
           k <= id[c], prev[c] # ROOT => id[prev[c]] < k,
           live' = live \cup {i}, id' = [id EXCEPT ![i] = k],
           linkBefore(i, c)
    PROVE  IInv'
<1> USE NodeAssumption DEF Node
<1> DEFINE p == prev[c]
<1>1. /\ p \in live \cup {ROOT} /\ next[p] = c /\ i # p /\ i # c
      /\ c \in Node /\ p \in Node /\ i \in Node
  BY Neighbours DEF IInv, LinksTypeOK
<1>2. LinksTypeOK'
  BY <1>1, IdAssumption DEF IInv, LinksTypeOK, linkBefore
<1>3. /\ next'[i] = c /\ next'[p] = i /\ prev'[i] = p /\ prev'[c] = i /\ id'[i] = k
      /\ \A n \in live \cup {ROOT} : n # p => next'[n] = next[n]
      /\ \A j \in live : j # c => prev'[j] = prev[j] /\ prev[j] # p
      /\ \A j \in live : id'[j] = id[j] /\ j # NULL
  BY <1>1 DEF IInv, LinksTypeOK, LinksMatch, linkBefore
<1>4. LinksMatch'
  <2>1. \A j \in live' : prev'[j] \in live' \cup {ROOT} /\ next'[prev'[j]] = j
    BY <1>1, <1>3 DEF IInv, LinksMatch
  <2>2. \A n \in live' \cup {ROOT} :
            next'[n] # NULL => next'[n] \in live' /\ prev'[next'[n]] = n
    BY <1>1, <1>3 DEF IInv, LinksMatch
  <2> QED BY <2>1, <2>2 DEF LinksMatch
<1>5. Sorted'
  <2>1. id[c] \in Nat /\ k \in Nat /\ \A j \in live : id[j] \in Nat
    BY IdAssumption DEF IInv, LinksTypeOK
  <2>2. ASSUME NEW j \in live', next'[j] # NULL PROVE id'[j] <= id'[next'[j]]
    <3>1. CASE j = i
      BY <1>3, <3>1
    <3>2. CASE j # i /\ j = p
      <4>1. j \in live /\ p # ROOT
        BY <3>2 DEF IInv, LinksTypeOK
      <4>2. id'[j] = id[p] /\ id'[next'[j]] = k /\ id[p] < k
        BY <1>3, <3>2, <4>1
      <4> QED BY <2>1, <3>2, <4>1, <4>2
    <3>3. CASE j # i /\ j # p
      <4>1. j \in live /\ next'[j] = next[j]
        BY <1>3, <3>3
      <4>2. next[j] \in live /\ id[j] <= id[next[j]]
        BY <2>2, <4>1, Neighbours
      <4> QED BY <1>3, <4>1, <4>2
    <3> QED BY <3>1, <3>2, <3>3
  <2> QED BY <2>2 DEF Sorted
<1> QED BY <1>2, <1>4, <1>5 DEF IInv

LEMMA InsertKeeps ==
    ASSUME IInv, NEW i \in Inst, NEW k \in Ids, Insert(i, k)
    PROVE  IInv'
<1>1. i \in Inst \ live /\ live' = live \cup {i} /\ id' = [id EXCEPT ![i] = k]
  BY DEF Insert
<1>2. CASE linkOnly(i)
  <2>1. ROOT \notin live
    BY NodeAssumption DEF IInv, LinksTypeOK
  <2> QED BY <1>1, <1>2, <2>1, AppendKeeps DEF linkOnly
<1>3. ASSUME NEW c \in live, StopsAt(c, k),
             IF id[c] < k THEN linkAfter(i, c) ELSE linkBefore(i, c)
      PROVE  IInv'
  <2>1. id[c] \in Nat /\ k \in Nat
    BY IdAssumption DEF IInv, LinksTypeOK
  <2>2. CASE id[c] < k
    <3>1. next[c] = NULL /\ id[c] <= k /\ linkAfter(i, c)
      BY <1>3, <2>1, <2>2 DEF StopsAt
    <3> QED BY <1>1, <3>1, AppendKeeps DEF linkAfter
  <2>3. CASE ~(id[c] < k)
    <3>1. k <= id[c] /\ (prev[c] # ROOT => id[prev[c]] < k) /\ linkBefore(i, c)
      BY <1>3, <2>1, <2>3 DEF StopsAt
    <3> QED BY <1>1, <3>1, InsertBeforeKeeps
  <2> QED BY <2>2, <2>3
<1> QED BY <1>2, <1>3 DEF Insert

LEMMA RemoveKeeps ==
    ASSUME IInv, NEW i \in Inst, Remove(i)
    PROVE  IInv'
<1> USE NodeAssumption DEF Node
<1> DEFINE p == prev[i]
           n == next[i]
<1>1. /\ i \in live /\ live' = live \ {i} /\ id' = id
      /\ p \in live \cup {ROOT} /\ next[p] = i
      /\ n = NULL \/ (n \in live /\ prev[n] = i /\ id[i] <= id[n])
  BY Neighbours DEF Remove
<1>2. /\ next'[p] = n
      /\ \A m \in live \cup {ROOT} : m # p => next'[m] = next[m]
      /\ n # NULL => prev'[n] = p
      /\ \A j \in live : j # n => prev'[j] = prev[j]
      /\ \A j \in live : j # NULL
  BY <1>1 DEF Remove, unlink, IInv, LinksTypeOK
<1>3. LinksTypeOK'
  BY <1>1 DEF Remove, unlink, IInv, LinksTypeOK
<1>4. LinksMatch'
  <2>1. \A j \in live' : prev'[j] \in live' \cup {ROOT} /\ next'[prev'[j]] = j
    BY <1>1, <1>2 DEF IInv, LinksMatch
  <2>2. \A m \in live' \cup {ROOT} :
            next'[m] # NULL => next'[m] \in live' /\ prev'[next'[m]] = m
    BY <1>1, <1>2 DEF IInv, LinksMatch
  <2> QED BY <2>1, <2>2 DEF LinksMatch
<1>5. Sorted'
  <2>1. \A j \in live : id[j] \in Nat
    BY DEF IInv, LinksTypeOK
  <2>2. \A j \in live' : next'[j] # NULL => id'[j] <= id'[next'[j]]
    BY <1>1, <1>2, <2>1 DEF IInv, LinksMatch, Sorted
  <2> QED BY <2>2 DEF Sorted
<1> QED BY <1>3, <1>4, <1>5 DEF IInv

LEMMA NextIInv == IInv /\ [LinksNext]_links => IInv'
<1>1. ASSUME IInv, UNCHANGED links PROVE IInv'
  BY <1>1 DEF IInv, LinksTypeOK, LinksMatch, Sorted, links
<1> QED BY <1>1, InsertKeeps, RemoveKeeps DEF LinksNext

\* For any number of instances, in whatever order they are created and removed,
\* the links of inst_runtime_list run both ways and never leave the list.
THEOREM LinksAlwaysMatch == LinksSpec => []LinksMatch
<1>1. IInv => LinksMatch
  BY DEF IInv
<1> QED BY <1>1, InitIInv, NextIInv, PTL DEF LinksSpec

\* And the ids never descend along the list.
THEOREM AlwaysSorted == LinksSpec => []Sorted
<1>1. IInv => Sorted
  BY DEF IInv
<1> QED BY <1>1, InitIInv, NextIInv, PTL DEF LinksSpec

(***************************************************************************)
(* The list as a function                                                  *)
(***************************************************************************)

\* c[0], the root, and c[1] .. c[n], every live instance once, in the order of the links
IsList(c, n) ==
    /\ n \in Nat
    /\ c \in [0 .. n -> live \cup {ROOT}]
    /\ c[0] = ROOT
    /\ \A m \in 1 .. n : c[m] \in live
    /\ \A i \in live : \E m \in 1 .. n : c[m] = i
    /\ \A l, m \in 0 .. n : c[l] = c[m] => l = m
    /\ \A m \in 0 .. n : next[c[m]] = IF m < n THEN c[m + 1] ELSE NULL

Listed == \E n \in Nat : \E c : IsList(c, n)

\* A non-empty set of numbers has a least element.
LEMMA Least ==
    ASSUME NEW T \in SUBSET Nat, T # {}
    PROVE  \E n \in T : \A m \in T : n <= m
<1> DEFINE R == {p \in Nat \X Nat : p[1] < p[2]}
<1>1. IsWellFoundedOn(R, Nat)
  BY NatLessThanWellFounded DEF OpToRel
<1> HIDE DEF R
<1>2. PICK n \in T : \A m \in T : <<m, n>> \notin R
  BY <1>1, WFMin, Zenon
<1>3. ASSUME NEW m \in T PROVE n <= m
  <2>1. m \in Nat /\ n \in Nat /\ <<m, n>> \notin R
    BY <1>2
  <2>2. ~(m < n)
    BY <2>1 DEF R
  <2> QED BY <2>1, <2>2
<1> QED BY <1>3

LEMMA InitListed == LinksInit => Listed
<1> SUFFICES ASSUME LinksInit PROVE Listed
  OBVIOUS
<1> DEFINE c == [m \in 0 .. 0 |-> ROOT]
<1>1. IsList(c, 0)
  BY DEF LinksInit, Node, IsList
<1> QED BY <1>1 DEF Listed

\* The neighbours of the instance at place p.
LEMMA Places ==
    ASSUME IInv, NEW n, NEW c, IsList(c, n), NEW p \in 1 .. n
    PROVE  /\ c[p] \in live /\ c[p] # ROOT /\ c[p] # NULL
           /\ prev[c[p]] = c[p - 1] /\ next[c[p - 1]] = c[p] /\ c[p - 1] \in live \cup {ROOT}
           /\ next[c[p]] = IF p < n THEN c[p + 1] ELSE NULL
<1>1. n \in Nat /\ p \in 0 .. n /\ p - 1 \in 0 .. n /\ p - 1 < n /\ p - 1 + 1 = p
  BY DEF IsList
<1>2. c[p] \in live /\ c[p - 1] \in live \cup {ROOT}
  BY <1>1 DEF IsList
<1>3. c[p] # ROOT /\ c[p] # NULL
  BY <1>2, NodeAssumption DEF IInv, LinksTypeOK
<1>4. next[c[p - 1]] = c[p]
  BY <1>1 DEF IsList
<1>5. prev[c[p]] = c[p - 1]
  BY <1>2, <1>3, <1>4 DEF IInv, LinksMatch
<1>6. next[c[p]] = IF p < n THEN c[p + 1] ELSE NULL
  BY <1>1 DEF IsList
<1> QED BY <1>2, <1>3, <1>4, <1>5, <1>6

\* An insertion at place p.
LEMMA InsertListed ==
    ASSUME IInv, NEW n, NEW c, IsList(c, n), NEW p \in 1 .. n + 1, NEW i \in Inst \ live,
           live' = live \cup {i},
           next' \in [Node -> Inst \cup {NULL}],
           next'[c[p - 1]] = i,
           next'[i] = IF p <= n THEN c[p] ELSE NULL,
           \A x \in live \cup {ROOT} : x # c[p - 1] => next'[x] = next[x]
    PROVE  Listed'
<1> DEFINE d == [m \in 0 .. n + 1 |-> IF m < p THEN c[m] ELSE IF m = p THEN i ELSE c[m - 1]]
<1>1. /\ n \in Nat /\ n + 1 \in Nat /\ c[0] = ROOT
      /\ \A m \in 0 .. n : c[m] \in live \cup {ROOT}
      /\ \A m \in 1 .. n : c[m] \in live
      /\ \A l, m \in 0 .. n : c[l] = c[m] => l = m
      /\ \A m \in 0 .. n : next[c[m]] = IF m < n THEN c[m + 1] ELSE NULL
  BY DEF IsList
<1>2. i \notin live /\ i # ROOT
  BY NodeAssumption
<1>3. d \in [0 .. n + 1 -> live' \cup {ROOT}]
  BY <1>1
<1>4. d[0] = ROOT /\ \A m \in 1 .. n + 1 : d[m] \in live'
  BY <1>1
<1>5. ASSUME NEW j \in live' PROVE \E m \in 1 .. n + 1 : d[m] = j
  <2>1. CASE j = i
    BY <1>1, <2>1
  <2>2. CASE j \in live
    <3>1. PICK m \in 1 .. n : c[m] = j
      BY <2>2 DEF IsList
    <3>2. CASE m < p
      BY <1>1, <3>1, <3>2
    <3>3. CASE ~(m < p)
      <4>1. m + 1 \in 1 .. n + 1 /\ ~(m + 1 < p) /\ m + 1 # p /\ m + 1 - 1 = m
        BY <1>1, <3>3
      <4> QED BY <1>1, <3>1, <4>1
    <3> QED BY <3>2, <3>3
  <2> QED BY <2>1, <2>2
<1>6. ASSUME NEW l \in 0 .. n + 1, NEW m \in 0 .. n + 1, d[l] = d[m] PROVE l = m
  <2> DEFINE back(k) == IF k < p THEN k ELSE k - 1
  <2>1. \A k \in 0 .. n + 1 : k # p => back(k) \in 0 .. n /\ d[k] = c[back(k)] /\ d[k] # i
    BY <1>1, <1>2
  <2>2. d[p] = i
    BY <1>1
  <2>3. CASE l = p \/ m = p
    BY <1>6, <2>1, <2>2, <2>3
  <2>4. CASE l # p /\ m # p
    <3>1. back(l) = back(m)
      BY <1>1, <1>6, <2>1, <2>4
    <3> QED BY <1>1, <2>4, <3>1
  <2> QED BY <2>3, <2>4
<1>7. ASSUME NEW m \in 0 .. n + 1
      PROVE  next'[d[m]] = IF m < n + 1 THEN d[m + 1] ELSE NULL
  <2>1. CASE m < p - 1
    <3>1. m \in 0 .. n /\ m < n /\ m + 1 < p /\ d[m] = c[m] /\ d[m + 1] = c[m + 1]
      BY <1>1, <2>1
    <3>2. c[m] # c[p - 1]
      BY <1>1, <2>1, <3>1
    <3> QED BY <1>1, <3>1, <3>2
  <2>2. CASE m = p - 1
    BY <1>1, <2>2
  <2>3. CASE m = p
    <3>1. d[m] = i
      BY <1>1, <2>3
    <3>2. p <= n => d[m + 1] = c[p]
      BY <1>1, <2>3
    <3> QED BY <1>1, <2>3, <3>1, <3>2
  <2>4. CASE m > p
    <3>1. m - 1 \in 0 .. n /\ d[m] = c[m - 1] /\ (m < n + 1 => d[m + 1] = c[m])
      BY <1>1, <2>4
    <3>2. c[m - 1] # c[p - 1]
      BY <1>1, <2>4, <3>1
    <3>3. next'[c[m - 1]] = next[c[m - 1]]
      BY <1>1, <3>1, <3>2
    <3>4. next[c[m - 1]] = IF m - 1 < n THEN c[m - 1 + 1] ELSE NULL
      BY <1>1, <3>1
    <3>5. m - 1 + 1 = m /\ (m - 1 < n <=> m < n + 1)
      BY <1>1
    <3> QED BY <3>1, <3>3, <3>4, <3>5
  <2> QED BY <1>1, <2>1, <2>2, <2>3, <2>4
<1> HIDE DEF d
<1>8. IsList(d, n + 1)'
  BY <1>1, <1>3, <1>4, <1>5, <1>6, <1>7 DEF IsList
<1> QED BY <1>1, <1>8 DEF Listed

\* The removal of the instance at place p.
LEMMA RemoveListed ==
    ASSUME IInv, NEW n, NEW c, IsList(c, n), NEW p \in 1 .. n,
           live' = live \ {c[p]},
           next'[c[p - 1]] = next[c[p]],
           \A x \in live \cup {ROOT} : x # c[p - 1] => next'[x] = next[x]
    PROVE  Listed'
<1> DEFINE d == [m \in 0 .. n - 1 |-> IF m < p THEN c[m] ELSE c[m + 1]]
           fore(k) == IF k < p THEN k ELSE k + 1
<1>1. /\ n \in Nat /\ n - 1 \in Nat /\ c[0] = ROOT
      /\ \A m \in 0 .. n : c[m] \in live \cup {ROOT}
      /\ \A m \in 1 .. n : c[m] \in live
      /\ \A l, m \in 0 .. n : c[l] = c[m] => l = m
      /\ \A m \in 0 .. n : next[c[m]] = IF m < n THEN c[m + 1] ELSE NULL
  BY DEF IsList
<1>2. \A k \in 0 .. n - 1 : fore(k) \in 0 .. n /\ d[k] = c[fore(k)] /\ fore(k) # p
  BY <1>1
<1>3. \A k \in 0 .. n - 1 : d[k] # c[p]
  BY <1>1, <1>2
<1>4. ROOT # c[p]
  BY <1>1, NodeAssumption DEF IInv, LinksTypeOK
<1>5. d \in [0 .. n - 1 -> live' \cup {ROOT}]
  BY <1>1, <1>2, <1>3
<1>6. d[0] = ROOT /\ \A m \in 1 .. n - 1 : d[m] \in live'
  <2>1. \A m \in 1 .. n - 1 : fore(m) \in 1 .. n
    BY <1>1
  <2> QED BY <1>1, <1>2, <1>3, <2>1
<1>7. ASSUME NEW j \in live' PROVE \E m \in 1 .. n - 1 : d[m] = j
  <2>1. PICK m \in 1 .. n : c[m] = j
    BY <1>7 DEF IsList
  <2>2. m # p
    BY <1>7, <2>1
  <2>3. CASE m < p
    BY <1>1, <2>1, <2>3
  <2>4. CASE m > p
    <3>1. m - 1 \in 1 .. n - 1 /\ d[m - 1] = c[m - 1 + 1] /\ m - 1 + 1 = m
      BY <1>1, <2>4
    <3> QED BY <2>1, <3>1
  <2>5. m < p \/ m > p
    BY <1>1, <2>2
  <2> QED BY <2>3, <2>4, <2>5
<1>8. ASSUME NEW l \in 0 .. n - 1, NEW m \in 0 .. n - 1, d[l] = d[m] PROVE l = m
  <2>1. fore(l) = fore(m)
    BY <1>1, <1>2, <1>8
  <2> QED BY <1>1, <2>1
<1>9. ASSUME NEW m \in 0 .. n - 1
      PROVE  next'[d[m]] = IF m < n - 1 THEN d[m + 1] ELSE NULL
  <2>1. CASE m = p - 1
    <3>1. d[m] = c[p - 1] /\ (m < n - 1 => d[m + 1] = c[p + 1])
      BY <1>1, <2>1
    <3> QED BY <1>1, <2>1, <3>1
  <2>2. CASE m < p - 1
    <3>1. m \in 0 .. n /\ d[m] = c[m] /\ d[m + 1] = c[m + 1] /\ m < n - 1 /\ m < n
      BY <1>1, <2>2
    <3>2. c[m] # c[p - 1]
      BY <1>1, <2>2, <3>1
    <3> QED BY <1>1, <3>1, <3>2
  <2>3. CASE m > p - 1
    <3>1. m + 1 \in 0 .. n /\ d[m] = c[m + 1] /\ (m < n - 1 => d[m + 1] = c[m + 1 + 1])
      BY <1>1, <2>3
    <3>2. c[m + 1] # c[p - 1]
      BY <1>1, <2>3, <3>1
    <3>3. m < n - 1 <=> m + 1 < n
      BY <1>1
    <3> QED BY <1>1, <3>1, <3>2, <3>3
  <2> QED BY <1>1, <2>1, <2>2, <2>3
<1> HIDE DEF d
<1>10. IsList(d, n - 1)'
  BY <1>1, <1>5, <1>6, <1>7, <1>8, <1>9 DEF IsList
<1> QED BY <1>1, <1>10 DEF Listed

LEMMA NextListed == IInv /\ Listed /\ [LinksNext]_links => Listed'
<1> SUFFICES ASSUME IInv, Listed, [LinksNext]_links PROVE Listed'
  OBVIOUS
<1> USE NodeAssumption DEF Node
<1>1. PICK n \in Nat : \E c : IsList(c, n)
  BY DEF Listed
<1>2. PICK c : IsList(c, n)
  BY <1>1
<1>3. c[0] = ROOT /\ \A m \in 0 .. n : next[c[m]] = IF m < n THEN c[m + 1] ELSE NULL
  BY <1>2 DEF IsList
<1>4. CASE UNCHANGED links
  BY <1>4 DEF Listed, IsList, links
<1>5. ASSUME NEW i \in Inst, Remove(i) PROVE Listed'
  <2>1. PICK p \in 1 .. n : c[p] = i
    BY <1>2, <1>5 DEF IsList, Remove
  <2>2. prev[i] = c[p - 1] /\ c[p - 1] \in live \cup {ROOT}
    BY <1>2, <2>1, Places
  <2>3. live' = live \ {i} /\ next' = [next EXCEPT ![c[p - 1]] = next[i]]
    BY <1>5, <2>2 DEF Remove, unlink
  <2>4. next'[c[p - 1]] = next[i] /\ \A x \in live \cup {ROOT} : x # c[p - 1] => next'[x] = next[x]
    BY <2>2, <2>3 DEF IInv, LinksTypeOK
  <2> QED BY <1>2, <2>1, <2>3, <2>4, RemoveListed
<1>6. ASSUME NEW i \in Inst, NEW k \in Ids, Insert(i, k) PROVE Listed'
  <2>1. i \in Inst \ live /\ live' = live \cup {i}
    BY <1>6 DEF Insert
  <2>2. next' \in [Node -> Inst \cup {NULL}]
    BY <1>6, InsertKeeps DEF IInv, LinksTypeOK
  <2>3. CASE linkOnly(i)
    <3>1. n = 0
      <4>1. CASE n > 0
        <5>1. 1 \in 1 .. n /\ 1 - 1 = 0
          BY <4>1
        <5>2. next[ROOT] # NULL
          BY <1>2, <1>3, <5>1, Places
        <5> QED BY <2>3, <5>2 DEF linkOnly
      <4> QED BY <4>1
    <3>2. /\ 1 \in 1 .. n + 1 /\ c[1 - 1] = ROOT /\ ~(1 <= n)
          /\ next'[c[1 - 1]] = i /\ next'[i] = NULL
          /\ \A x \in live \cup {ROOT} : x # c[1 - 1] => next'[x] = next[x]
      BY <1>3, <2>1, <2>3, <3>1 DEF linkOnly, IInv, LinksTypeOK
    <3> QED BY <1>2, <2>1, <2>2, <3>2, InsertListed
  <2>4. ASSUME NEW x \in live, linkAfter(i, x), next[x] = NULL PROVE Listed'
    <3>1. PICK p \in 1 .. n : c[p] = x
      BY <1>2 DEF IsList
    <3>2. CASE p < n
      <4>1. p + 1 \in 1 .. n /\ p + 1 - 1 = p
        BY <3>2
      <4>2. next[x] # NULL
        BY <1>2, <3>1, <4>1, Places
      <4> QED BY <2>4, <4>2
    <3>3. CASE p = n
      <4>1. /\ n + 1 \in 1 .. n + 1 /\ c[n + 1 - 1] = x /\ ~(n + 1 <= n)
            /\ next'[x] = i /\ next'[i] = NULL
            /\ \A y \in live \cup {ROOT} : y # x => next'[y] = next[y]
        BY <2>1, <2>4, <3>1, <3>3 DEF linkAfter, IInv, LinksTypeOK
      <4> QED BY <1>2, <2>1, <2>2, <4>1, InsertListed
    <3> QED BY <3>2, <3>3
  <2>5. ASSUME NEW x \in live, linkBefore(i, x) PROVE Listed'
    <3>1. PICK p \in 1 .. n : c[p] = x
      BY <1>2 DEF IsList
    <3>2. prev[x] = c[p - 1] /\ c[p - 1] \in live \cup {ROOT}
      BY <1>2, <3>1, Places
    <3>3. next' = [next EXCEPT ![i] = x, ![c[p - 1]] = i]
      BY <2>5, <3>2 DEF linkBefore
    <3>4. /\ p \in 1 .. n + 1 /\ p <= n
          /\ next'[c[p - 1]] = i /\ next'[i] = c[p]
          /\ \A y \in live \cup {ROOT} : y # c[p - 1] => next'[y] = next[y]
      BY <2>1, <3>1, <3>2, <3>3 DEF IInv, LinksTypeOK
    <3> QED BY <1>2, <2>1, <2>2, <3>4, InsertListed
  <2>6. ASSUME NEW x \in live, StopsAt(x, k),
               IF id[x] < k THEN linkAfter(i, x) ELSE linkBefore(i, x)
        PROVE  Listed'
    <3>1. id[x] \in Nat /\ k \in Nat
      BY IdAssumption DEF IInv, LinksTypeOK
    <3>2. CASE id[x] < k
      <4>1. next[x] = NULL
        BY <2>6, <3>1, <3>2 DEF StopsAt
      <4> QED BY <2>4, <2>6, <3>2, <4>1
    <3>3. CASE ~(id[x] < k)
      BY <2>5, <2>6, <3>3
    <3> QED BY <3>2, <3>3
  <2> QED BY <1>6, <2>3, <2>6 DEF Insert
<1> QED BY <1>4, <1>5, <1>6 DEF LinksNext

(***************************************************************************)
(* The walks                                                               *)
(***************************************************************************)

\* f is what curr = curr->next meets in K steps from the root.
Follows(f, K) == f = [m \in 0 .. K |-> IF m = 0 THEN ROOT
                                       ELSE IF f[m - 1] = NULL THEN NULL ELSE next[f[m - 1]]]

\* There is such an f: the list, and then NULL.
LEMMA FollowsList ==
    ASSUME IInv, NEW n, NEW c, IsList(c, n), NEW K \in Nat
    PROVE  Follows([m \in 0 .. K |-> IF m <= n THEN c[m] ELSE NULL], K)
<1> DEFINE g == [m \in 0 .. K |-> IF m <= n THEN c[m] ELSE NULL]
<1>1. n \in Nat /\ c[0] = ROOT /\ ROOT # NULL
  BY NodeAssumption DEF IsList
<1>2. ASSUME NEW m \in 1 .. K
      PROVE  g[m] = IF g[m - 1] = NULL THEN NULL ELSE next[g[m - 1]]
  <2>1. m - 1 \in 0 .. K /\ m \in 0 .. K /\ m - 1 + 1 = m /\ (m <= n => m - 1 <= n)
    BY <1>1
  <2>2. CASE m <= n + 1
    <3>1. m - 1 \in 0 .. n /\ g[m - 1] = c[m - 1]
      BY <1>1, <2>1, <2>2
    <3>2. c[m - 1] # NULL
      BY <3>1, NodeAssumption DEF IsList, IInv, LinksTypeOK
    <3>3. next[c[m - 1]] = IF m - 1 < n THEN c[m] ELSE NULL
      BY <2>1, <3>1 DEF IsList
    <3>4. m - 1 < n <=> m <= n
      BY <1>1
    <3> QED BY <2>1, <3>1, <3>2, <3>3, <3>4
  <2>3. CASE m > n + 1
    <3>1. ~(m <= n) /\ ~(m - 1 <= n)
      BY <1>1, <2>3
    <3> QED BY <2>1, <3>1
  <2> QED BY <1>1, <2>2, <2>3
<1>3. g[0] = ROOT /\ 0 \in 0 .. K
  BY <1>1
<1>4. \A m \in 0 .. K : g[m] = IF m = 0 THEN ROOT
                               ELSE IF g[m - 1] = NULL THEN NULL ELSE next[g[m - 1]]
  <2> HIDE DEF g
  <2> QED BY <1>2, <1>3
<1> QED BY <1>4 DEF Follows

\* And there is only one.
LEMMA FollowsOnce ==
    ASSUME NEW K \in Nat, NEW f, NEW g, Follows(f, K), Follows(g, K), NEW x \in 0 .. K
    PROVE  f[x] = g[x]
<1> SUFFICES ASSUME f[x] # g[x] PROVE FALSE
  OBVIOUS
<1> DEFINE T == {m \in 0 .. K : f[m] # g[m]}
<1>1. T \in SUBSET Nat /\ T # {}
  OBVIOUS
<1>2. PICK m \in T : \A l \in T : m <= l
  BY <1>1, Least
<1>3. CASE m = 0
  BY <1>3 DEF Follows
<1>4. CASE m # 0
  <2>1. m \in 0 .. K /\ m - 1 \in 0 .. K /\ m - 1 < m
    BY <1>4
  <2>2. f[m - 1] = g[m - 1]
    BY <1>2, <2>1
  <2>3. f[m] = IF f[m - 1] = NULL THEN NULL ELSE next[f[m - 1]]
    BY <1>4, <2>1 DEF Follows
  <2>4. g[m] = IF g[m - 1] = NULL THEN NULL ELSE next[g[m - 1]]
    BY <1>4, <2>1 DEF Follows
  <2> QED BY <2>2, <2>3, <2>4
<1> QED BY <1>3, <1>4

LEMMA ListSize ==
    ASSUME IInv, NEW n, NEW c, IsList(c, n)
    PROVE  IsFiniteSet(live) /\ Cardinality(live) = n /\ Cardinality(Inst) \in Nat
           /\ n <= Cardinality(Inst)
<1>1. IsFiniteSet(Inst) /\ Cardinality(Inst) \in Nat
  BY FiniteAssumption, FS_CardinalityType
<1>2. live \in SUBSET Inst /\ n \in Nat
  BY DEF IInv, LinksTypeOK, IsList
<1>3. IsFiniteSet(live) /\ Cardinality(live) <= Cardinality(Inst)
  BY <1>1, <1>2, FS_Subset
<1> DEFINE d == [m \in 1 .. n |-> c[m]]
<1>4. d \in Bijection(1 .. n, live)
  <2>1. d \in [1 .. n -> live] /\ \A l, m \in 1 .. n : d[l] = d[m] => l = m
    BY <1>2 DEF IsList
  <2>2. \A i \in live : \E m \in 1 .. n : d[m] = i
    BY DEF IsList
  <2> QED BY <2>1, <2>2 DEF Bijection, Injection, Surjection, IsInjective
<1>5. IsFiniteSet(1 .. n) /\ Cardinality(1 .. n) = n
  BY <1>2, FS_Interval
<1>6. Cardinality(live) = n
  BY <1>4, <1>5, FS_Bijection DEF ExistsBijection
<1> QED BY <1>1, <1>3, <1>6

\* Every walk along the links sees the live instances, once and in order.
LEMMA ChainIs ==
    ASSUME IInv, NEW n, NEW c, IsList(c, n)
    PROVE  Chain = [m \in 1 .. n |-> c[m]] /\ Len(Chain) = n /\ Chain \in Seq(live)
<1> DEFINE K == Cardinality(Inst)
           hop == CHOOSE f : Follows(f, K + 1)
           Ends(m) == hop[m] # NULL /\ hop[m + 1] = NULL
           size == CHOOSE m \in 0 .. K : Ends(m)
<1>1. n \in 0 .. K /\ n \in Nat /\ K \in Nat /\ K + 1 \in Nat
  <2>1. n \in Nat
    BY DEF IsList
  <2>2. K \in Nat /\ n <= K
    BY ListSize
  <2> HIDE DEF K
  <2> QED BY <2>1, <2>2
<1>2. Chain = [m \in 1 .. size |-> hop[m]]
  BY DEF Chain, Follows
<1> HIDE DEF K
<1>3. \A m \in 0 .. K + 1 : hop[m] = IF m <= n THEN c[m] ELSE NULL
  <2> DEFINE g == [m \in 0 .. K + 1 |-> IF m <= n THEN c[m] ELSE NULL]
  <2>1. Follows(g, K + 1)
    BY <1>1, FollowsList
  <2>2. Follows(hop, K + 1)
    BY <2>1
  <2>3. \A m \in 0 .. K + 1 : hop[m] = g[m]
    <3> HIDE DEF g, hop
    <3> QED BY <1>1, <2>1, <2>2, FollowsOnce
  <2> QED BY <2>3
<1> HIDE DEF hop
<1>4. \A m \in 0 .. n : c[m] # NULL
  BY NodeAssumption DEF IsList, IInv, LinksTypeOK
<1>5. Ends(n)
  BY <1>1, <1>3, <1>4
<1>6. ASSUME NEW m \in 0 .. K, Ends(m) PROVE m = n
  <2>1. m \in 0 .. K + 1 /\ m + 1 \in 0 .. K + 1
    BY <1>1
  <2>2. m <= n
    BY <1>3, <1>6, <2>1
  <2>3. ~(m + 1 <= n)
    BY <1>1, <1>3, <1>4, <1>6, <2>1
  <2> QED BY <1>1, <2>2, <2>3
<1> HIDE DEF Ends
<1>7. size = n
  BY <1>1, <1>5, <1>6
<1> HIDE DEF size
<1>8. Chain = [m \in 1 .. n |-> c[m]]
  BY <1>1, <1>2, <1>3, <1>7
<1>9. \A m \in 1 .. n : c[m] \in live
  BY DEF IsList
<1> QED BY <1>1, <1>8, <1>9

\* "traverse the curr pointer to correct loc based on vrid" ends where StopsAt says.
LEMMA WalkStops ==
    ASSUME IInv, NEW n, NEW c, IsList(c, n), n > 0, NEW k \in Ids
    PROVE  WalkTo(k) \in live /\ StopsAt(WalkTo(k), k)
<1> DEFINE e == Chain
           Stop(m) == id[e[m]] >= k \/ m = Len(e)
           Here(m) == Stop(m) /\ \A l \in 1 .. m - 1 : id[e[l]] < k
           T == {m \in 1 .. n : Stop(m)}
           p == CHOOSE m \in DOMAIN e : Here(m)
<1>1. WalkTo(k) = e[p]
  BY DEF WalkTo
<1>2. n \in Nat /\ k \in Nat /\ DOMAIN e = 1 .. n /\ Len(e) = n /\ \A m \in 1 .. n : e[m] = c[m]
  <2>1. n \in Nat /\ k \in Nat
    BY IdAssumption DEF IsList
  <2> QED BY <2>1, ChainIs
<1> HIDE DEF e
<1>3. \A m \in 1 .. n : e[m] \in live /\ id[e[m]] \in Nat
  <2>1. \A m \in 1 .. n : e[m] \in live
    BY <1>2 DEF IsList
  <2>2. \A i \in live : id[i] \in Nat
    BY DEF IInv, LinksTypeOK
  <2> QED BY <2>1, <2>2
<1>4. \E m \in 1 .. n : Here(m)
  <2>1. T \in SUBSET Nat /\ T # {}
    BY <1>2
  <2>2. PICK m \in T : \A l \in T : m <= l
    BY <2>1, Least
  <2>3. \A l \in 1 .. m - 1 : id[e[l]] < k
    BY <1>2, <1>3, <2>2
  <2> QED BY <2>2, <2>3
<1> HIDE DEF Here
<1>5. p \in 1 .. n /\ Here(p)
  BY <1>2, <1>4
<1> HIDE DEF p
<1>6. /\ e[p] \in live /\ prev[e[p]] = c[p - 1]
      /\ next[e[p]] = IF p < n THEN c[p + 1] ELSE NULL
  BY <1>2, <1>5, Places
<1>7. id[e[p]] >= k \/ next[e[p]] = NULL
  BY <1>2, <1>5, <1>6 DEF Here
<1>8. prev[e[p]] # ROOT => id[prev[e[p]]] < k
  <2>1. c[0] = ROOT
    BY DEF IsList
  <2>2. CASE p = 1
    BY <1>6, <2>1, <2>2
  <2>3. CASE p # 1
    <3>1. p - 1 \in 1 .. p - 1 /\ p - 1 \in 1 .. n
      BY <1>2, <1>5, <2>3
    <3> QED BY <1>2, <1>5, <1>6, <3>1 DEF Here
  <2> QED BY <2>2, <2>3
<1> QED BY <1>1, <1>6, <1>7, <1>8 DEF StopsAt

(***************************************************************************)
(* The searches                                                            *)
(***************************************************************************)

LEMMA ChainShape ==
    ASSUME IInv, Listed
    PROVE  \E n \in Nat : DOMAIN Chain = 1 .. n /\ \A m \in 1 .. n : Chain[m] \in live
<1>1. PICK n \in Nat : \E c : IsList(c, n)
  BY DEF Listed
<1>2. PICK c : IsList(c, n)
  BY <1>1
<1>3. \A m \in 1 .. n : c[m] \in live
  BY <1>2 DEF IsList
<1> QED BY <1>2, <1>3, ChainIs

LEMMA ChainMeets ==
    ASSUME IInv, Listed, NEW i \in live
    PROVE  \E m \in DOMAIN Chain : Chain[m] = i
<1>1. PICK n \in Nat : \E c : IsList(c, n)
  BY DEF Listed
<1>2. PICK c : IsList(c, n)
  BY <1>1
<1>3. PICK m \in 1 .. n : c[m] = i
  BY <1>2 DEF IsList
<1> QED BY <1>2, <1>3, ChainIs

\* vrrp_search_inst_full finds an instance with these attributes if there is one.
LEMMA FullFinds ==
    ASSUME IInv, Listed, NEW k, NEW f,
           NEW r, r = vrrp_search_inst_full(k, f, AF_INET)
    PROVE  \/ r = NULL /\ \A i \in live : ~(id[i] = k /\ ifname[i] = f)
           \/ r \in live /\ id[r] = k /\ ifname[r] = f
<1> DEFINE e == Chain
           hits == {m \in DOMAIN e : id[e[m]] = k /\ AF_INET = AF_INET /\ ifname[e[m]] = f}
           p == CHOOSE m \in hits : \A l \in hits : m <= l
<1>1. r = IF hits = {} THEN NULL ELSE e[p]
  BY DEF vrrp_search_inst_full
<1>2. PICK n \in Nat : DOMAIN e = 1 .. n /\ \A m \in 1 .. n : e[m] \in live
  BY ChainShape
<1>3. \A i \in live : \E m \in DOMAIN e : e[m] = i
  BY ChainMeets
<1> HIDE DEF e
<1>4. CASE hits = {}
  BY <1>1, <1>3, <1>4
<1>5. CASE hits # {}
  <2>1. hits \in SUBSET Nat
    BY <1>2
  <2>2. p \in hits
    <3> HIDE DEF hits
    <3> QED BY <1>5, <2>1, Least
  <2> HIDE DEF p
  <2> QED BY <1>1, <1>2, <1>5, <2>2
<1> QED BY <1>4, <1>5

LEMMA PartFinds ==
    ASSUME IInv, Listed, NEW k, NEW f, NEW af
    PROVE  vrrp_search_inst_part(k, f, af) \in live \cup {NULL}
<1> DEFINE e == Chain
           hits == {m \in DOMAIN e : /\ k \in {0, id[e[m]]}
                                     /\ af \in {AF_UNSPEC, AF_INET}
                                     /\ f \in {ANY, ifname[e[m]]}}
           p == CHOOSE m \in hits : TRUE
<1>1. vrrp_search_inst_part(k, f, af) = IF Cardinality(hits) = 1 THEN e[p] ELSE NULL
  BY DEF vrrp_search_inst_part
<1>2. PICK n \in Nat : DOMAIN e = 1 .. n /\ \A m \in 1 .. n : e[m] \in live
  BY ChainShape
<1> HIDE DEF e
<1>3. IsFiniteSet(hits)
  <2>1. IsFiniteSet(1 .. n) /\ hits \in SUBSET (1 .. n)
    BY <1>2, FS_Interval
  <2> HIDE DEF hits
  <2> QED BY <2>1, FS_Subset
<1>4. Cardinality(hits) = 1 => p \in hits
  <2>1. Cardinality(hits) = 1 => \E m : hits = {m}
    <3> HIDE DEF hits
    <3> QED BY <1>3, FS_Singleton
  <2> HIDE DEF hits
  <2> QED BY <2>1
<1>5. Cardinality(hits) = 1 => e[p] \in live
  <2> HIDE DEF p
  <2> QED BY <1>2, <1>4
<1> QED BY <1>1, <1>5

LEMMA SearchFinds ==
    ASSUME IInv, Listed, NEW k, NEW f, NEW af \in {AF_UNSPEC, AF_INET}
    PROVE  vrrp_search_inst(k, f, af) \in live \cup {NULL}
  BY FullFinds, PartFinds DEF vrrp_search_inst

(***************************************************************************)
(* The invariant of InstList                                               *)
(***************************************************************************)

\* Two instances with the same attributes are one, unless their id is the wildcard.
Named ==
    /\ ifname \in [Inst -> Ifname \cup {ANY}]
    /\ \A i \in live : ifname[i] \in Ifname
    /\ \A i, j \in live : id[i] # 0 /\ id[i] = id[j] /\ ifname[i] = ifname[j] => i = j

ListInv == IInv /\ Listed /\ Named

LEMMA InitListInv == Init => ListInv
  BY InitIInv, InitListed DEF Init, LinksInit, ListInv, Named

\* Every step on the pointers is one that InstLinks promises.
LEMMA StepIsPromised ==
    ASSUME ListInv, [Next]_vars
    PROVE  [LinksNext]_links
<1> USE DEF ListInv
<1>1. CASE UNCHANGED vars
  BY <1>1 DEF vars
<1>2. ASSUME NEW i \in Inst, NEW k \in Ids, NEW f \in Ifname, vrrp_create_inst(i, k, f)
      PROVE  LinksNext
  <2>1. CASE next[ROOT] = NULL
    <3>1. Insert(i, k)
      BY <1>2, <2>1 DEF vrrp_create_inst, Insert
    <3> QED BY <3>1 DEF LinksNext
  <2>2. CASE next[ROOT] # NULL
    <3>1. PICK n \in Nat : \E c : IsList(c, n)
      BY DEF Listed
    <3>2. PICK c : IsList(c, n)
      BY <3>1
    <3>3. n > 0
      BY <2>2, <3>2 DEF IsList
    <3>4. WalkTo(k) \in live /\ StopsAt(WalkTo(k), k)
      BY <3>2, <3>3, WalkStops
    <3>5. IF id[WalkTo(k)] < k THEN linkAfter(i, WalkTo(k)) ELSE linkBefore(i, WalkTo(k))
      BY <1>2, <2>2 DEF vrrp_create_inst
    <3>6. i \notin live /\ live' = live \cup {i} /\ id' = [id EXCEPT ![i] = k]
      BY <1>2 DEF vrrp_create_inst
    <3>7. Insert(i, k)
      BY <3>4, <3>5, <3>6 DEF Insert
    <3> QED BY <3>7 DEF LinksNext
  <2> QED BY <2>1, <2>2
<1>3. ASSUME NEW k, NEW f, vrrp_destroy_inst(k, f) PROVE LinksNext
  <2> DEFINE i == vrrp_search_inst(k, f, AF_INET)
  <2>1. i \in live
    BY <1>3, SearchFinds DEF vrrp_destroy_inst
  <2>2. i \in Inst
    BY <2>1 DEF IInv, LinksTypeOK
  <2>3. Remove(i)
    BY <1>3, <2>1 DEF vrrp_destroy_inst, Remove
  <2> HIDE DEF i
  <2> QED BY <2>2, <2>3 DEF LinksNext
<1> QED BY <1>1, <1>2, <1>3 DEF Next

LEMMA NextListInv == ListInv /\ [Next]_vars => ListInv'
<1> SUFFICES ASSUME ListInv, [Next]_vars PROVE ListInv'
  OBVIOUS
<1>1. IInv' /\ Listed'
  BY StepIsPromised, NextIInv, NextListed DEF ListInv
<1>2. Named'
  <2>1. CASE UNCHANGED vars
    BY <2>1 DEF vars, links, ListInv, Named
  <2>2. ASSUME NEW i \in Inst, NEW k \in Ids, NEW f \in Ifname, vrrp_create_inst(i, k, f)
        PROVE  Named'
    <3>1. /\ i \notin live /\ live' = live \cup {i} /\ id' = [id EXCEPT ![i] = k]
          /\ ifname' = [ifname EXCEPT ![i] = f] /\ vrrp_search_inst(k, f, AF_INET) = NULL
      BY <2>2 DEF vrrp_create_inst, vrrp_check_conflict
    <3>2. /\ id'[i] = k /\ ifname'[i] = f
          /\ \A j \in live : j # i /\ id'[j] = id[j] /\ ifname'[j] = ifname[j]
      BY <3>1 DEF ListInv, IInv, LinksTypeOK, Named
    <3>3. k # 0 => \A j \in live : ~(id[j] = k /\ ifname[j] = f)
      <4>1. k # 0 => vrrp_search_inst_full(k, f, AF_INET) = NULL
        BY <3>1, NameAssumption DEF vrrp_search_inst, AF_INET, AF_UNSPEC
      <4>2. NULL \notin live
        BY NodeAssumption DEF ListInv, IInv, LinksTypeOK
      <4> QED BY <4>1, <4>2, FullFinds DEF ListInv
    <3>4. ifname' \in [Inst -> Ifname \cup {ANY}]
      BY <3>1 DEF ListInv, Named
    <3>5. \A j \in live' : ifname'[j] \in Ifname
      BY <3>1, <3>2 DEF ListInv, Named
    <3>6. \A j, l \in live' : id'[j] # 0 /\ id'[j] = id'[l] /\ ifname'[j] = ifname'[l] => j = l
      BY <3>1, <3>2, <3>3 DEF ListInv, Named
    <3> QED BY <3>4, <3>5, <3>6 DEF Named
  <2>3. ASSUME NEW k, NEW f, vrrp_destroy_inst(k, f) PROVE Named'
    BY <2>3 DEF vrrp_destroy_inst, ListInv, Named
  <2> QED BY <2>1, <2>2, <2>3 DEF Next
<1> QED BY <1>1, <1>2 DEF ListInv

LEMMA ListHolds == Spec => []ListInv
  BY InitListInv, NextListInv, PTL DEF Spec

\* Whatever is created and removed, ids stay bytes and links stay links.
THEOREM TypeCorrect == Spec => []TypeOK
<1>1. ListInv => TypeOK
  BY DEF ListInv, IInv, Named, TypeOK
<1> QED BY <1>1, ListHolds, PTL

\* The walk of vrrp_create_inst and the search of vrrp_destroy_inst change the links only
\* as InstLinks promises, so the links match and the ids do not descend.
THEOREM WalksKeepPromise == Spec => KeepsPromise
<1>1. Init => LinksInit
  BY DEF Init
<1>2. ListInv /\ [Next]_vars => [LinksNext]_links
  BY StepIsPromised
<1> QED BY <1>1, <1>2, ListHolds, PTL DEF Spec, KeepsPromise, LinksSpec

\* The loops that follow next from the root meet every instance that was created and not
\* destroyed once, and nothing else.
THEOREM ChainAlwaysLive == Spec => []ChainIsLive
<1>1. ASSUME ListInv PROVE ChainIsLive
  <2>1. PICK n \in Nat : \E c : IsList(c, n)
    BY <1>1 DEF ListInv, Listed
  <2>2. PICK c : IsList(c, n)
    BY <2>1
  <2>3. Chain = [m \in 1 .. n |-> c[m]] /\ Len(Chain) = n /\ Cardinality(live) = n
    BY <1>1, <2>2, ChainIs, ListSize DEF ListInv
  <2>4. Elements(Chain) = live
    <3>1. \A i \in live : i \in Elements(Chain)
      BY <2>2, <2>3 DEF Elements, IsList
    <3>2. \A i \in Elements(Chain) : i \in live
      BY <2>2, <2>3 DEF Elements, IsList
    <3> QED BY <3>1, <3>2
  <2> QED BY <2>3, <2>4 DEF ChainIsLive
<1> QED BY <1>1, ListHolds, PTL

\* A search for the attributes of an instance with an id other than 0 finds that instance.
LEMMA SearchByOwnKey ==
    ASSUME ListInv, NEW i \in live, id[i] # 0
    PROVE  vrrp_search_inst(id[i], ifname[i], AF_INET) = i
<1> DEFINE r == vrrp_search_inst_full(id[i], ifname[i], AF_INET)
<1>1. vrrp_search_inst(id[i], ifname[i], AF_INET) = r
  BY NameAssumption DEF vrrp_search_inst, AF_INET, AF_UNSPEC, ListInv, Named
<1>2. r \in live /\ id[r] = id[i] /\ ifname[r] = ifname[i]
  BY FullFinds DEF ListInv
<1> HIDE DEF r
<1> QED BY <1>1, <1>2 DEF ListInv, Named

\* However the list came about, the attributes of an instance lead to it.
THEOREM AlwaysFoundByOwnKey == Spec => []FoundByOwnKey
<1>1. ListInv => FoundByOwnKey
  BY SearchByOwnKey DEF FoundByOwnKey
<1> QED BY <1>1, ListHolds, PTL

(***************************************************************************)
(* The cursor of vrrp_get_instx                                            *)
(***************************************************************************)

Wild == <<0, ANY, AF_UNSPEC>>

\* what vrrp_get_instx answers at place p of the list
Answer(c, n, p) ==
    [inst |-> c[p],
     key  |-> IF p < n THEN <<id[c[p + 1]], ifname[c[p + 1]], AF_INET>> ELSE Wild]

\* f is what a client gets that asks K times with the key returned last.
Asks(f, K) == f = [m \in 1 .. K |-> vrrp_get_instx(IF m = 1 THEN Wild ELSE f[m - 1].key)]

LEMMA FirstAnswer ==
    ASSUME IInv, NEW n, NEW c, IsList(c, n), n > 0
    PROVE  vrrp_get_instx(Wild) = Answer(c, n, 1)
<1>1. n \in Nat /\ 1 \in 1 .. n /\ 1 - 1 = 0 /\ c[0] = ROOT
  BY DEF IsList
<1>2. next[ROOT] = c[1] /\ c[1] # NULL
  BY <1>1, Places
<1>3. next[c[1]] = IF 1 < n THEN c[1 + 1] ELSE NULL
  BY <1>1, Places
<1>4. 1 < n => c[1 + 1] # NULL
  <2>1. 1 < n => 1 + 1 \in 1 .. n
    BY <1>1
  <2> QED BY <2>1, Places
<1> QED BY <1>2, <1>3, <1>4 DEF vrrp_get_instx, Answer, Wild

LEMMA NextAnswer ==
    ASSUME ListInv, \A i \in live : id[i] # 0, NEW n, NEW c, IsList(c, n), NEW p \in 1 .. n
    PROVE  vrrp_get_instx(<<id[c[p]], ifname[c[p]], AF_INET>>) = Answer(c, n, p)
<1> DEFINE key == <<id[c[p]], ifname[c[p]], AF_INET>>
<1>1. /\ n \in Nat /\ IInv /\ c[p] \in live /\ c[p] # NULL
      /\ next[c[p]] = IF p < n THEN c[p + 1] ELSE NULL
  <2>1. n \in Nat /\ IInv
    BY DEF ListInv, IsList
  <2> QED BY <2>1, Places
<1>2. key # Wild
  BY <1>1 DEF Wild
<1>3. vrrp_search_inst(key[1], key[2], key[3]) = c[p]
  BY <1>1, SearchByOwnKey
<1>4. p < n => c[p + 1] # NULL
  <2>1. p < n => p + 1 \in 1 .. n
    BY <1>1
  <2> QED BY <2>1, Places DEF ListInv
<1> HIDE DEF key
<1>5. vrrp_get_instx(key) = Answer(c, n, p)
  BY <1>1, <1>2, <1>3, <1>4 DEF vrrp_get_instx, Answer, Wild
<1> QED BY <1>5 DEF key

\* A client can ask any number of times.
LEMMA AsksExist == \A K \in Nat : \E f : Asks(f, K)
<1> SUFFICES ASSUME NEW L \in Nat, ~\E f : Asks(f, L) PROVE FALSE
  OBVIOUS
<1> DEFINE T == {K \in Nat : ~\E f : Asks(f, K)}
<1>1. PICK K \in T : \A J \in T : K <= J
  <2>1. T \in SUBSET Nat /\ T # {}
    OBVIOUS
  <2> HIDE DEF T
  <2> QED BY <2>1, Least
<1>2. K \in Nat /\ ~\E f : Asks(f, K)
  BY <1>1
<1>3. CASE K = 0
  <2>1. Asks([m \in 1 .. 0 |-> 0], 0)
    BY DEF Asks
  <2> QED BY <1>2, <1>3, <2>1
<1>4. CASE K # 0
  <2>1. K - 1 \in Nat /\ ~(K <= K - 1)
    BY <1>2, <1>4
  <2>2. PICK f : Asks(f, K - 1)
    BY <1>1, <2>1
  <2> DEFINE g == [m \in 1 .. K |-> IF m < K THEN f[m]
                                    ELSE vrrp_get_instx(IF m = 1 THEN Wild ELSE f[m - 1].key)]
  <2>3. ASSUME NEW m \in 1 .. K
        PROVE  g[m] = vrrp_get_instx(IF m = 1 THEN Wild ELSE g[m - 1].key)
    <3>1. m # 1 => m - 1 \in 1 .. K /\ m - 1 < K /\ g[m - 1] = f[m - 1]
      BY <1>2, <1>4
    <3>2. m < K => m \in 1 .. K - 1
      BY <1>2, <1>4
    <3>3. m < K => f[m] = vrrp_get_instx(IF m = 1 THEN Wild ELSE f[m - 1].key)
      BY <2>2, <3>2 DEF Asks
    <3> QED BY <3>1, <3>3
  <2>4. g = [m \in 1 .. K |-> g[m]]
    OBVIOUS
  <2> HIDE DEF g
  <2>5. Asks(g, K)
    BY <2>3, <2>4 DEF Asks
  <2> QED BY <1>2, <2>5
<1> QED BY <1>3, <1>4

\* The answers go through the list.
LEMMA AsksList ==
    ASSUME ListInv, \A i \in live : id[i] # 0, NEW n, NEW c, IsList(c, n),
           NEW K \in Nat, n <= K, NEW f, Asks(f, K), NEW p \in 1 .. n
    PROVE  f[p] = Answer(c, n, p)
<1> SUFFICES ASSUME f[p] # Answer(c, n, p) PROVE FALSE
  OBVIOUS
<1> DEFINE T == {m \in 1 .. n : f[m] # Answer(c, n, m)}
<1>1. n \in Nat /\ IInv
  BY DEF IsList, ListInv
<1>2. PICK m \in T : \A l \in T : m <= l
  <2>1. T \in SUBSET Nat /\ T # {}
    OBVIOUS
  <2> HIDE DEF T
  <2> QED BY <2>1, Least
<1>3. m \in 1 .. n /\ m \in 1 .. K
  BY <1>1, <1>2
<1>4. f[m] = vrrp_get_instx(IF m = 1 THEN Wild ELSE f[m - 1].key)
  BY <1>3 DEF Asks
<1>5. CASE m = 1
  BY <1>1, <1>2, <1>3, <1>4, <1>5, FirstAnswer
<1>6. CASE m # 1
  <2>1. m - 1 \in 1 .. n /\ m - 1 < n /\ m - 1 + 1 = m /\ ~(m <= m - 1)
    BY <1>1, <1>3, <1>6
  <2>2. f[m - 1] = Answer(c, n, m - 1)
    BY <1>2, <2>1
  <2>3. f[m - 1].key = <<id[c[m]], ifname[c[m]], AF_INET>>
    BY <2>1, <2>2 DEF Answer
  <2> QED BY <1>2, <1>3, <1>4, <1>6, <2>3, NextAnswer
<1> QED BY <1>5, <1>6

\* Without an instance with the id 0, the keys lead through the whole list, in order.
THEOREM CursorShowsAll == Spec => []ShowsAll
<1>1. ASSUME ListInv, live # {}, \A i \in live : id[i] # 0 PROVE Shown = Chain
  <2>1. PICK n \in Nat : \E c : IsList(c, n)
    BY <1>1 DEF ListInv, Listed
  <2>2. PICK c : IsList(c, n)
    BY <2>1
  <2> DEFINE K == Cardinality(Inst) + 1
             ask == CHOOSE f : Asks(f, K)
             Ends(m) == /\ ask[m].key = <<0, ANY, AF_UNSPEC>> \/ m = K
                        /\ \A l \in 1 .. m - 1 : ask[l].key # <<0, ANY, AF_UNSPEC>>
             last == CHOOSE m \in DOMAIN ask : Ends(m)
  <2>3. n \in 1 .. K /\ K \in Nat /\ n <= K
    <3>1. Cardinality(Inst) \in Nat /\ n <= Cardinality(Inst)
      BY <1>1, <2>2, ListSize DEF ListInv
    <3>2. n # 0
      BY <1>1, <2>2 DEF IsList
    <3> HIDE DEF K
    <3>3. K = Cardinality(Inst) + 1
      BY DEF K
    <3> QED BY <3>1, <3>2, <3>3
  <2>4. Shown = [m \in 1 .. last |-> ask[m].inst]
    BY DEF Shown, Asks, Wild
  <2> HIDE DEF K
  <2>5. Asks(ask, K)
    BY <2>3, AsksExist
  <2>6. DOMAIN ask = 1 .. K
    BY <2>5 DEF Asks
  <2>7. \A m \in 1 .. n : ask[m] = Answer(c, n, m)
    BY <1>1, <2>2, <2>3, <2>5, AsksList
  <2> HIDE DEF ask
  <2>8. \A m : /\ Answer(c, n, m).inst = c[m]
               /\ Answer(c, n, m).key = IF m < n THEN <<id[c[m + 1]], ifname[c[m + 1]], AF_INET>>
                                        ELSE <<0, ANY, AF_UNSPEC>>
    BY DEF Answer, Wild
  <2>9. ask[n].key = <<0, ANY, AF_UNSPEC>>
    <3>1. n \in 1 .. n /\ ~(n < n)
      BY <2>3
    <3>2. ask[n] = Answer(c, n, n)
      BY <2>7, <3>1
    <3> QED BY <2>8, <3>1, <3>2
  <2>10. ASSUME NEW m \in 1 .. n, m < n PROVE ask[m].key # <<0, ANY, AF_UNSPEC>>
    <3>1. m + 1 \in 1 .. n
      BY <2>10
    <3>2. id[c[m + 1]] # 0
      BY <1>1, <2>2, <3>1 DEF IsList
    <3>3. ask[m].key = <<id[c[m + 1]], ifname[c[m + 1]], AF_INET>>
      BY <2>7, <2>10, <2>8
    <3> QED BY <3>2, <3>3
  <2>11. Ends(n)
    <3>1. \A l \in 1 .. n - 1 : l \in 1 .. n /\ l < n
      OBVIOUS
    <3> QED BY <2>9, <2>10, <3>1
  <2>12. ASSUME NEW m \in 1 .. K, Ends(m) PROVE m = n
    <3>1. CASE m < n
      <4>1. m \in 1 .. n /\ m # K
        BY <2>3, <3>1
      <4> QED BY <2>10, <2>12, <3>1, <4>1
    <3>2. CASE m > n
      <4>1. n \in 1 .. m - 1
        BY <2>3, <3>2
      <4> QED BY <2>9, <2>12, <4>1
    <3> QED BY <2>3, <3>1, <3>2
  <2> HIDE DEF Ends
  <2>13. last = n
    BY <2>3, <2>6, <2>11, <2>12
  <2> HIDE DEF last
  <2>14. Shown = [m \in 1 .. n |-> c[m]]
    BY <2>4, <2>7, <2>13, <2>8
  <2>15. Chain = [m \in 1 .. n |-> c[m]]
    BY <1>1, <2>2, ChainIs DEF ListInv
  <2> QED BY <2>14, <2>15
<1>2. ListInv => ShowsAll
  BY <1>1 DEF ShowsAll
<1> QED BY <1>2, ListHolds, PTL
=============================================================================
