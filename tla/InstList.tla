------------------------------ MODULE InstList ------------------------------
(***************************************************************************)
(* inst_runtime_list as the code works on it: vrrp_create_inst with its    *)
(* conflict check and its walk to the place of insertion, the two searches *)
(* of vrrp_search_inst, the unlinking of vrrp_destroy_inst and the cursor  *)
(* of vrrp_get_instx.                                                      *)
(***************************************************************************)
EXTENDS InstLinks, Sequences, FiniteSets

CONSTANTS Ifname    \* the interfaces of the host

AF_UNSPEC == 0
AF_INET == 2        \* every instance has this family
ANY == ""           \* no interface name: any interface

ASSUME NameAssumption == ANY \notin Ifname
ASSUME FiniteAssumption == IsFiniteSet(Inst)

VARIABLES ifname    \* the interface of every instance

vars == <<links, ifname>>

Init == LinksInit /\ ifname = [i \in Inst |-> ANY]

\* The instances in the order in which curr = curr->next meets them.
Chain ==
    LET hop[n \in 0 .. Cardinality(Inst) + 1] ==
            IF n = 0 THEN ROOT
            ELSE IF hop[n - 1] = NULL THEN NULL ELSE next[hop[n - 1]]
        size == CHOOSE n \in 0 .. Cardinality(Inst) : hop[n] # NULL /\ hop[n + 1] = NULL
    IN [n \in 1 .. size |-> hop[n]]

Elements(s) == {s[n] : n \in DOMAIN s}

(***************************************************************************)
(* Searches                                                                *)
(***************************************************************************)

\* the first instance with exactly these attributes
vrrp_search_inst_full(k, f, af) ==
    LET c == Chain
        hits == {n \in DOMAIN c : id[c[n]] = k /\ af = AF_INET /\ ifname[c[n]] = f}
    IN IF hits = {} THEN NULL ELSE c[CHOOSE n \in hits : \A m \in hits : n <= m]

\* 0, no name and AF_UNSPEC match everything; two matches count as none
vrrp_search_inst_part(k, f, af) ==
    LET c == Chain
        hits == {n \in DOMAIN c : /\ k \in {0, id[c[n]]}
                                  /\ af \in {AF_UNSPEC, AF_INET}
                                  /\ f \in {ANY, ifname[c[n]]}}
    IN IF Cardinality(hits) = 1 THEN c[CHOOSE n \in hits : TRUE] ELSE NULL

vrrp_search_inst(k, f, af) ==
    IF k # 0 /\ f # ANY /\ af # AF_UNSPEC
    THEN vrrp_search_inst_full(k, f, af)
    ELSE vrrp_search_inst_part(k, f, af)

\* mutant: the search is not made
noCheck(k, f, af) == TRUE

\* VRRP_SUCCESS when the search comes back with nothing
vrrp_check_conflict(k, f, af) == vrrp_search_inst(k, f, af) = NULL

(***************************************************************************)
(* Operations                                                              *)
(***************************************************************************)

\* mutant: <= for <
WalkPast(k) ==
    LET c == Chain
        n == CHOOSE n \in DOMAIN c :
                /\ id[c[n]] > k \/ n = Len(c)
                /\ \A m \in 1 .. n - 1 : id[c[m]] <= k
    IN c[n]

\* mutant: the walk always goes to the end
WalkToLast(k) == Chain[Len(Chain)]

\* while (curr->id < new->id && curr->next != NULL) curr = curr->next
WalkTo(k) ==
    LET c == Chain
        n == CHOOSE n \in DOMAIN c :
                /\ id[c[n]] >= k \/ n = Len(c)
                /\ \A m \in 1 .. n - 1 : id[c[m]] < k
    IN c[n]

vrrp_create_inst(i, k, f) ==
    /\ i \notin live
    /\ vrrp_check_conflict(k, f, AF_INET)
    /\ live' = live \cup {i}
    /\ id' = [id EXCEPT ![i] = k]
    /\ ifname' = [ifname EXCEPT ![i] = f]
    /\ IF next[ROOT] = NULL THEN linkOnly(i)
       ELSE LET c == WalkTo(k)
            IN IF id[c] < k THEN linkAfter(i, c) ELSE linkBefore(i, c)

vrrp_destroy_inst(k, f) ==
    LET i == vrrp_search_inst(k, f, AF_INET)
    IN /\ i # NULL
       /\ live' = live \ {i}
       /\ unlink(i)
       /\ UNCHANGED <<id, ifname>>

Next == \/ \E i \in Inst, k \in Ids, f \in Ifname : vrrp_create_inst(i, k, f)
        \/ \E k \in Ids \cup {0}, f \in Ifname \cup {ANY} : vrrp_destroy_inst(k, f)

Spec == Init /\ [][Next]_vars

\* mutant: the key returned is that of the instance itself
getOwnKey(key) ==
    LET i == IF key = <<0, ANY, AF_UNSPEC>> THEN next[ROOT]
             ELSE vrrp_search_inst(key[1], key[2], key[3])
    IN [inst |-> i,
        key  |-> IF i = NULL \/ next[i] = NULL THEN <<0, ANY, AF_UNSPEC>>
                 ELSE <<id[i], ifname[i], AF_INET>>]

\* vrrp_get_instx: the instance asked for, and the key of the one after it (all
\* wildcards after the last)
vrrp_get_instx(key) ==
    LET i == IF key = <<0, ANY, AF_UNSPEC>> THEN next[ROOT]
             ELSE vrrp_search_inst(key[1], key[2], key[3])
    IN [inst |-> i,
        key  |-> IF i = NULL \/ next[i] = NULL THEN <<0, ANY, AF_UNSPEC>>
                 ELSE <<id[next[i]], ifname[next[i]], AF_INET>>]

-----------------------------------------------------------------------------
\* ids are those of Ids, links point to instances, the root or nowhere.
TypeOK == /\ LinksTypeOK
          /\ ifname \in [Inst -> Ifname \cup {ANY}]

\* The walk of vrrp_create_inst finds the place that keeps the order, and every
\* step on the pointers is one the list promises.
KeepsPromise == LinksSpec

\* Every instance that was created and not destroyed is met exactly once by the
\* loops that follow next from the root, and nothing else is.
ChainIsLive == /\ Elements(Chain) = live
               /\ Len(Chain) = Cardinality(live)

\* An instance with an id other than 0 is found by its own attributes, and only
\* it: no later create has put another with the same attributes beside it.
FoundByOwnKey ==
    \A i \in live : id[i] # 0 => vrrp_search_inst(id[i], ifname[i], AF_INET) = i

\* what asking again and again with the key returned last brings, until it is all
\* wildcards
Shown ==
    LET ask[n \in 1 .. Cardinality(Inst) + 1] ==
            vrrp_get_instx(IF n = 1 THEN <<0, ANY, AF_UNSPEC>> ELSE ask[n - 1].key)
        last == CHOOSE n \in DOMAIN ask :
                   /\ ask[n].key = <<0, ANY, AF_UNSPEC>> \/ n = Cardinality(Inst) + 1
                   /\ \A m \in 1 .. n - 1 : ask[m].key # <<0, ANY, AF_UNSPEC>>
    IN [n \in 1 .. last |-> ask[n].inst]

\* A client that follows the keys of vrrp_get_instx sees every instance once and
\* in order, as long as no instance has the id 0, which reads as a wildcard.
ShowsAll == (live # {} /\ \A i \in live : id[i] # 0) => Shown = Chain
=============================================================================
