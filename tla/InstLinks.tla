----------------------------- MODULE InstLinks -----------------------------
(***************************************************************************)
(* What inst_runtime_list promises: a doubly linked list of instances,     *)
(* behind a root node, in ascending order of their ids.  The place of a    *)
(* new instance is described by its neighbours; InstList finds it by       *)
(* walking the list, as vrrp_create_inst does.                             *)
(***************************************************************************)
EXTENDS Naturals

CONSTANTS Inst,   \* the instance objects
          ROOT,   \* inst_runtime_list itself
          NULL,   \* the null pointer
          Ids     \* the ids instances are created with

ASSUME NodeAssumption == ROOT \notin Inst /\ NULL \notin Inst /\ ROOT # NULL
ASSUME IdAssumption == Ids \subseteq 0 .. 255

VARIABLES live,   \* the instances in the list
          id,     \* their ids
          next,   \* the links, the root's included
          prev

links == <<live, id, next, prev>>

Node == Inst \cup {ROOT}

LinksInit == /\ live = {}
        /\ id = [i \in Inst |-> 0]
        /\ next = [n \in Node |-> NULL]
        /\ prev = [n \in Node |-> NULL]

\* list empty
linkOnly(i) ==
    /\ next[ROOT] = NULL
    /\ next' = [next EXCEPT ![ROOT] = i, ![i] = NULL]
    /\ prev' = [prev EXCEPT ![i] = ROOT]

\* append new instance
linkAfter(i, c) ==
    /\ next' = [next EXCEPT ![c] = i, ![i] = NULL]
    /\ prev' = [prev EXCEPT ![i] = c]

\* mutant: the back link of the successor is forgotten
linkOneWay(i, c) ==
    /\ next' = [next EXCEPT ![i] = c, ![prev[c]] = i]
    /\ prev' = [prev EXCEPT ![i] = prev[c]]

linkBefore(i, c) ==
    /\ next' = [next EXCEPT ![i] = c, ![prev[c]] = i]
    /\ prev' = [prev EXCEPT ![i] = prev[c], ![c] = i]

\* c is where "traverse the curr pointer to correct loc based on vrid" ends
StopsAt(c, k) ==
    /\ id[c] >= k \/ next[c] = NULL
    /\ prev[c] # ROOT => id[prev[c]] < k

Insert(i, k) ==
    /\ i \notin live
    /\ live' = live \cup {i}
    /\ id' = [id EXCEPT ![i] = k]
    /\ \/ linkOnly(i)
       \/ \E c \in live : /\ StopsAt(c, k)
                          /\ IF id[c] < k THEN linkAfter(i, c) ELSE linkBefore(i, c)

\* mutant: next and prev exchanged
unlinkSwapped(i) ==
    /\ next' = [next EXCEPT ![prev[i]] = prev[i]]
    /\ prev' = IF next[i] = NULL THEN prev ELSE [prev EXCEPT ![next[i]] = next[i]]

\* mutant: the back link of the successor is forgotten
unlinkOneWay(i) ==
    /\ next' = [next EXCEPT ![prev[i]] = next[i]]
    /\ UNCHANGED prev

\* curr->prev->next = curr->next, and back
unlink(i) ==
    /\ next' = [next EXCEPT ![prev[i]] = next[i]]
    /\ prev' = IF next[i] = NULL THEN prev ELSE [prev EXCEPT ![next[i]] = prev[i]]

Remove(i) ==
    /\ i \in live
    /\ live' = live \ {i}
    /\ unlink(i)
    /\ UNCHANGED id

LinksNext == \E i \in Inst : Remove(i) \/ \E k \in Ids : Insert(i, k)

LinksSpec == LinksInit /\ [][LinksNext]_links

-----------------------------------------------------------------------------
LinksTypeOK == /\ live \subseteq Inst
          /\ id \in [Inst -> 0 .. 255]
          /\ next \in [Node -> Inst \cup {NULL}]
          /\ prev \in [Node -> Node \cup {NULL}]

\* The links of the list run both ways and stay within it: an instance that was
\* removed is out of reach of every one that is left, and none has lost its
\* neighbours.
LinksMatch ==
    /\ \A i \in live : prev[i] \in live \cup {ROOT} /\ next[prev[i]] = i
    /\ \A n \in live \cup {ROOT} : next[n] # NULL => next[n] \in live /\ prev[next[n]] = n

\* From one instance to the next the ids do not descend.
Sorted == \A i \in live : next[i] # NULL => id[i] <= id[next[i]]
=============================================================================
