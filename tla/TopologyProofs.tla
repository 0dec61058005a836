--------------------------- MODULE TopologyProofs ---------------------------
(***************************************************************************)
(* Graph and tables of the topology.                                       *)
(*                                                                         *)
(* For every set of routers, every graph and every limit: a drawn graph has*)
(* exactly the routers within the limit, each with its distance from the   *)
(* center (HopsShortest), and the response draws every router and every    *)
(* linked pair once and in order (EachDrawnOnce).                          *)
(*                                                                         *)
(* Inv says what holds while the queue is worked off: its routers are in   *)
(* the order of their hops and at most one hop farther than the router at  *)
(* hand, and a link that has not been followed starts at a router in the   *)
(* queue or is in rest.  That makes the hops tight (HopsAreTight), and     *)
(* tight hops are distances by induction on the distance.  Drawing says    *)
(* what the edges are while the routers are drawn one by one.              *)
(*                                                                         *)
(* The last section carries the theorems of TopologyImportProofs over to   *)
(* the scenario of TopologyMC.                                             *)
(***************************************************************************)
EXTENDS TopologyMC, FiniteSetTheorems, WellFoundedInduction, TLAPS

\* Every router but the center was reached over a link of a router one hop nearer.
Reached ==
    /\ center \in reachable /\ hop[center] = 0
    /\ \A r \in reachable \ {center} :
          \E q \in reachable : <<q, r>> \in links /\ hop[r] = hop[q] + 1

\* The link leads at most one hop farther.
Followed(l) == l[2] \in reachable /\ hop[l[2]] <= hop[l[1]] + 1

InQueue(r) == \E i \in 1 .. Len(queue) : queue[i] = r

\* The order of the queue.
QueueInOrder ==
    /\ \A i \in 1 .. Len(queue) : queue[i] \in reachable /\ hop[cur] <= hop[queue[i]]
    /\ \A i, j \in 1 .. Len(queue) : i <= j => hop[queue[i]] <= hop[queue[j]]
    /\ cur \in reachable
    /\ \A r \in reachable : hop[r] <= hop[cur] + 1

\* What is left to follow.
RestOfCur ==
    /\ rest # {} => hop[cur] < MaxHops
    /\ \A r \in rest : <<cur, r>> \in links

LinksFollowed ==
    \A l \in links : (l[1] \in reachable /\ hop[l[1]] < MaxHops) =>
        Followed(l) \/ InQueue(l[1]) \/ (l[1] = cur /\ l[2] \in rest)

\* The search proper.
Types ==
    /\ center \in Routers /\ cur \in Routers
    /\ links \subseteq Routers \X Routers
    /\ queue \in Seq(Routers)
    /\ rest \subseteq Routers
    /\ reachable \subseteq Routers
    /\ hop \in [Routers -> 0 .. MaxHops]

\* What makes hops distances: the center has hop 0, every other router is one hop farther
\* than a router that links to it, and a link leads at most one hop farther, except from
\* the routers at the limit.
HopsAreTight ==
    (pc \in {"draw", "done"} /\ found) =>
        /\ center \in reachable /\ hop[center] = 0
        /\ \A r \in reachable \ {center} :
              \E q \in reachable : <<q, r>> \in links /\ hop[r] = hop[q] + 1
        /\ \A l \in links : (l[1] \in reachable /\ hop[l[1]] < MaxHops) =>
              l[2] \in reachable /\ hop[l[2]] <= hop[l[1]] + 1

Inv ==
    /\ Types
    /\ pc = "lookup" => hop[center] = 0 /\ cur = center /\ rest = {}
    /\ pc = "search" => Reached /\ QueueInOrder /\ RestOfCur /\ LinksFollowed
    /\ HopsAreTight

LEMMA InitInv == Init => Inv
<1> SUFFICES ASSUME Init PROVE Inv
    OBVIOUS
<1> USE GraphAssumption
<1>1. Types
    BY DEF Init, Types
<1> QED
    BY <1>1 DEF Init, Inv, HopsAreTight

LEMMA LookupInv == Inv /\ Lookup => Inv'
<1> SUFFICES ASSUME Inv, Lookup PROVE Inv'
    OBVIOUS
<1>1. Types'
    BY DEF Inv, Types, Lookup, request, drawing
<1>2. /\ queue' = <<center>> /\ reachable' = {center} /\ cur' = center /\ rest' = {}
      /\ hop' = hop /\ hop[center] = 0 /\ center' = center /\ links' = links
      /\ pc' = "search"
    BY DEF Inv, Lookup, request, drawing
<1>3. Len(queue') = 1 /\ queue'[1] = center
    BY <1>2
<1>4. Reached'
    BY <1>2 DEF Reached
<1>5. QueueInOrder'
    BY <1>2, <1>3, GraphAssumption DEF QueueInOrder
<1>6. RestOfCur'
    BY <1>2 DEF RestOfCur
<1>7. LinksFollowed'
    BY <1>2, <1>3 DEF LinksFollowed, InQueue
<1> QED
    BY <1>1, <1>2, <1>4, <1>5, <1>6, <1>7 DEF Inv, HopsAreTight

LEMMA FallbackInv == Inv /\ Fallback => Inv'
    BY GraphAssumption DEF Inv, Types, Fallback, search, drawing, HopsAreTight

LEMMA NotFoundInv == Inv /\ NotFound => Inv'
    BY DEF Inv, Types, NotFound, request, search, drawing, HopsAreTight

LEMMA DequeueInv == Inv /\ Dequeue => Inv'
<1> SUFFICES ASSUME Inv, Dequeue PROVE Inv'
    OBVIOUS
<1> DEFINE h == Head(queue)
<1>1. /\ pc = "search" /\ pc' = "search" /\ rest = {} /\ queue # <<>>
      /\ cur' = h /\ queue' = Tail(queue)
      /\ rest' = IF hop[h] >= MaxHops THEN {} ELSE Adj(h)
      /\ reachable' = reachable /\ hop' = hop /\ links' = links /\ center' = center
    BY DEF Dequeue, AtLimit, request, drawing
<1>2. Types /\ Reached /\ QueueInOrder /\ LinksFollowed
    BY <1>1 DEF Inv
<1>3. /\ queue \in Seq(Routers) /\ Len(queue) \in Nat \ {0} /\ h = queue[1]
      /\ h \in Routers /\ Tail(queue) \in Seq(Routers) /\ Len(Tail(queue)) = Len(queue) - 1
      /\ \A i \in 1 .. Len(Tail(queue)) : Tail(queue)[i] = queue[i + 1]
    BY <1>1, <1>2 DEF Types
<1>4. Adj(h) \subseteq Routers /\ \A r \in Adj(h) : <<h, r>> \in links
  <2> SUFFICES ASSUME NEW r \in Adj(h) PROVE r \in Routers /\ <<h, r>> \in links
      OBVIOUS
  <2>1. PICK l \in links : l[1] = h /\ r = l[2]
      BY DEF Adj
  <2>2. l \in Routers \X Routers
      BY <1>2 DEF Types
  <2>3. l = <<h, r>>
      BY <2>1, <2>2
  <2> QED
      BY <2>1, <2>2, <2>3
<1>5. Types'
    BY <1>1, <1>2, <1>3, <1>4 DEF Types
<1>6. \A i \in 1 .. Len(queue) : queue[i] \in reachable /\ queue[i] \in Routers
    BY <1>2, <1>3 DEF QueueInOrder
<1>7. QueueInOrder'
  <2> USE <1>1, <1>2, <1>3, <1>6
  <2>1. \A r \in reachable : hop[r] \in Nat
      BY GraphAssumption DEF Types
  <2>2. hop[cur] <= hop[h] /\ h \in reachable /\ cur \in reachable
      BY DEF QueueInOrder
  <2>3. \A i \in 1 .. Len(queue') : queue'[i] \in reachable' /\ hop'[cur'] <= hop'[queue'[i]]
      BY DEF QueueInOrder
  <2>4. \A i, j \in 1 .. Len(queue') : i <= j => hop'[queue'[i]] <= hop'[queue'[j]]
      BY DEF QueueInOrder
  <2>5. \A r \in reachable' : hop'[r] <= hop'[cur'] + 1
      BY <2>1, <2>2 DEF QueueInOrder
  <2> QED
      BY <2>2, <2>3, <2>4, <2>5 DEF QueueInOrder
<1>8. RestOfCur'
  <2>1. hop[h] \in Nat /\ MaxHops \in Nat
      BY <1>2, <1>3, GraphAssumption DEF Types
  <2>2. CASE hop[h] >= MaxHops
      BY <2>2, <1>1 DEF RestOfCur
  <2>3. CASE ~(hop[h] >= MaxHops)
    <3>1. rest' = Adj(h) /\ cur' = h /\ hop' = hop /\ links' = links
        BY <1>1, <2>3
    <3>2. hop[h] < MaxHops
        BY <2>1, <2>3
    <3> QED
        BY <3>1, <3>2, <1>4 DEF RestOfCur
  <2> QED
      BY <2>2, <2>3
<1>9. LinksFollowed'
  <2> SUFFICES ASSUME NEW l \in links, l[1] \in reachable, hop[l[1]] < MaxHops
               PROVE  Followed(l) \/ InQueue(l[1])' \/ (l[1] = h /\ l[2] \in rest')
      BY <1>1 DEF LinksFollowed, Followed
  <2>1. CASE l[1] = h
    <3>1. ~(hop[h] >= MaxHops)
      <4>1. hop[h] \in Nat /\ MaxHops \in Nat /\ hop[h] < MaxHops
          BY <2>1, <1>2, <1>3, GraphAssumption DEF Types
      <4> HIDE DEF h
      <4> QED
          BY <4>1
    <3>2. l[2] \in Adj(h)
        BY <2>1 DEF Adj
    <3> QED
        BY <1>1, <2>1, <3>1, <3>2
  <2>2. CASE l[1] # h
    <3>1. Followed(l) \/ InQueue(l[1])
        BY <1>1, <1>2 DEF LinksFollowed
    <3>2. CASE InQueue(l[1])
      <4>1. PICK i \in 1 .. Len(queue) : queue[i] = l[1]
          BY <3>2 DEF InQueue
      <4>2. i # 1
          BY <4>1, <2>2, <1>3
      <4>3. i - 1 \in 1 .. Len(Tail(queue)) /\ Tail(queue)[i - 1] = l[1]
          BY <4>1, <4>2, <1>3
      <4> QED
          BY <4>3, <1>1 DEF InQueue
    <3> QED
        BY <3>1, <3>2
  <2> QED
      BY <2>1, <2>2
<1>10. Reached'
    BY <1>1, <1>2 DEF Reached
<1> QED
    BY <1>1, <1>5, <1>7, <1>8, <1>9, <1>10 DEF Inv, HopsAreTight

LEMMA FollowInv == ASSUME Inv, NEW r \in Routers, Follow(r) PROVE Inv'
<1>1. /\ pc = "search" /\ pc' = "search" /\ r \in rest /\ rest' = rest \ {r}
      /\ cur' = cur /\ links' = links /\ center' = center
    BY DEF Follow, request, drawing
<1>2. Types /\ Reached /\ QueueInOrder /\ RestOfCur /\ LinksFollowed
    BY <1>1 DEF Inv
<1>3. hop[cur] < MaxHops /\ <<cur, r>> \in links /\ hop[cur] \in Nat /\ MaxHops \in Nat
    BY <1>1, <1>2, GraphAssumption DEF RestOfCur, Types
<1>4. CASE r \in reachable
  <2>1. reachable' = reachable /\ hop' = hop /\ queue' = queue
      BY <1>4 DEF Follow
  <2> USE <1>1, <1>2, <2>1
  <2>2. Types'
      BY DEF Types
  <2>3. Reached' /\ QueueInOrder' /\ RestOfCur'
      BY DEF Reached, QueueInOrder, RestOfCur
  <2>4. LinksFollowed'
    <3> SUFFICES ASSUME NEW l \in links, l[1] \in reachable, hop[l[1]] < MaxHops
                 PROVE  Followed(l) \/ InQueue(l[1]) \/ (l[1] = cur /\ l[2] \in rest \ {r})
        BY DEF LinksFollowed, Followed, InQueue
    <3>1. CASE l[1] = cur /\ l[2] = r
        BY <3>1, <1>4 DEF QueueInOrder, Followed
    <3> QED
        BY <3>1 DEF LinksFollowed
  <2> QED
      BY <2>2, <2>3, <2>4 DEF Inv, HopsAreTight
<1>5. CASE r \notin reachable
  <2>1. /\ reachable' = reachable \cup {r} /\ queue' = Append(queue, r)
        /\ hop' = [hop EXCEPT ![r] = hop[cur] + 1]
      BY <1>5 DEF Follow, Enqueue
  <2>2. /\ hop'[r] = hop[cur] + 1
        /\ \A q \in reachable : hop'[q] = hop[q] /\ hop[q] \in Nat /\ q # r
      BY <2>1, <1>5, <1>2, GraphAssumption DEF Types
  <2>3. /\ Len(queue) \in Nat /\ Len(queue') = Len(queue) + 1
        /\ \A i \in 1 .. Len(queue) : queue'[i] = queue[i]
        /\ queue'[Len(queue) + 1] = r
      BY <2>1, <1>2 DEF Types
  <2>4. Types'
      BY <1>1, <1>2, <1>3, <2>1 DEF Types
  <2>5. Reached'
    <3>1. center \in reachable' /\ hop'[center] = 0
        BY <1>2, <2>1, <2>2 DEF Reached
    <3>2. cur \in reachable /\ hop'[r] = hop'[cur] + 1
        BY <1>2, <2>2 DEF QueueInOrder
    <3>3. ASSUME NEW q \in reachable', q # center
          PROVE  \E p \in reachable' : <<p, q>> \in links /\ hop'[q] = hop'[p] + 1
      <4>1. CASE q = r
          BY <4>1, <3>2, <1>3, <2>1
      <4>2. CASE q \in reachable
        <5>1. PICK p \in reachable : <<p, q>> \in links /\ hop[q] = hop[p] + 1
            BY <4>2, <3>3, <1>2 DEF Reached
        <5> QED
            BY <5>1, <4>2, <2>1, <2>2
      <4> QED
          BY <4>1, <4>2, <2>1
    <3> QED
        BY <3>1, <3>3, <1>1 DEF Reached
  <2>6. QueueInOrder'
    <3> USE <1>1, <1>2, <2>1, <2>2, <2>3
    <3>1. \A i \in 1 .. Len(queue) : /\ queue[i] \in reachable
                                     /\ hop[cur] <= hop[queue[i]]
                                     /\ hop[queue[i]] <= hop[cur] + 1
        BY DEF QueueInOrder
    <3>2. cur \in reachable /\ hop'[cur'] = hop[cur]
        BY DEF QueueInOrder
    <3>3. ASSUME NEW i \in 1 .. Len(queue')
          PROVE  queue'[i] \in reachable' /\ hop'[cur'] <= hop'[queue'[i]]
        BY <3>1, <3>2, <1>3
    <3>4. ASSUME NEW i \in 1 .. Len(queue'), NEW j \in 1 .. Len(queue'), i <= j
          PROVE  hop'[queue'[i]] <= hop'[queue'[j]]
      <4>1. CASE j = Len(queue) + 1
          BY <4>1, <3>1, <1>3
      <4>2. CASE j # Len(queue) + 1
        <5>1. i \in 1 .. Len(queue) /\ j \in 1 .. Len(queue)
            BY <4>2, <3>4
        <5> QED
            BY <5>1, <3>1, <3>4 DEF QueueInOrder
      <4> QED
          BY <4>1, <4>2
    <3>5. \A q \in reachable' : hop'[q] <= hop'[cur'] + 1
        BY <3>2, <1>3 DEF QueueInOrder
    <3> QED
        BY <3>2, <3>3, <3>4, <3>5 DEF QueueInOrder
  <2>7. RestOfCur'
      BY <1>1, <1>2, <1>3, <2>2 DEF RestOfCur, QueueInOrder
  <2>8. LinksFollowed'
    <3> SUFFICES ASSUME NEW l \in links, l[1] \in reachable', hop'[l[1]] < MaxHops
                 PROVE  Followed(l)' \/ InQueue(l[1])' \/ (l[1] = cur /\ l[2] \in rest \ {r})
        BY <1>1 DEF LinksFollowed, Followed
    <3>1. CASE l[1] = r
      <4>1. Len(queue) + 1 \in 1 .. Len(queue')
          BY <2>3
      <4> QED
          BY <4>1, <2>3, <3>1 DEF InQueue
    <3>2. CASE l[1] = cur /\ l[2] = r
        BY <3>2, <1>2, <2>1, <2>2, <1>3 DEF Followed, QueueInOrder
    <3>3. CASE l[1] \in reachable /\ ~(l[1] = cur /\ l[2] = r)
      <4>1. hop[l[1]] < MaxHops
          BY <2>2, <3>3
      <4>2. Followed(l) \/ InQueue(l[1]) \/ (l[1] = cur /\ l[2] \in rest)
          BY <4>1, <3>3, <1>2 DEF LinksFollowed
      <4>3. CASE Followed(l)
          BY <4>3, <2>1, <2>2, <3>3 DEF Followed
      <4>4. CASE InQueue(l[1])
        <5>1. PICK i \in 1 .. Len(queue) : queue[i] = l[1]
            BY <4>4 DEF InQueue
        <5>2. i \in 1 .. Len(queue') /\ queue'[i] = l[1]
            BY <5>1, <2>3
        <5> QED
            BY <5>2 DEF InQueue
      <4> QED
          BY <4>2, <4>3, <4>4, <3>3
    <3> QED
        BY <3>1, <3>2, <3>3, <2>1
  <2> QED
      BY <1>1, <2>4, <2>5, <2>6, <2>7, <2>8 DEF Inv, HopsAreTight
<1> QED
    BY <1>4, <1>5

LEMMA SearchedInv == Inv /\ Searched => Inv'
<1> SUFFICES ASSUME Inv, Searched PROVE Inv'
    OBVIOUS
<1>1. /\ pc = "search" /\ rest = {} /\ queue = <<>> /\ pc' = "draw"
      /\ UNCHANGED <<request, search>>
    BY DEF Searched
<1>2. Types /\ Reached /\ LinksFollowed
    BY <1>1 DEF Inv
<1>3. \A l \in links : (l[1] \in reachable /\ hop[l[1]] < MaxHops) => Followed(l)
    BY <1>1, <1>2 DEF LinksFollowed, InQueue
<1>4. HopsAreTight'
    BY <1>1, <1>2, <1>3 DEF HopsAreTight, Reached, Followed, request, search
<1> QED
    BY <1>1, <1>2, <1>4 DEF Inv, Types, request, search

LEMMA DrawInv == ASSUME Inv, NEW r \in Routers, Draw(r) PROVE Inv'
    BY DEF Inv, Types, Draw, request, search, HopsAreTight

LEMMA RespondInv == Inv /\ Respond => Inv'
    BY DEF Inv, Types, Respond, request, search, HopsAreTight

LEMMA StutterInv == Inv /\ UNCHANGED vars => Inv'
<1> SUFFICES ASSUME Inv, UNCHANGED vars PROVE Inv'
    OBVIOUS
<1>1. UNCHANGED <<center, links, pc, queue, cur, rest, reachable, hop, found>>
    BY DEF vars, request, search
<1>2. Types'
    BY <1>1 DEF Inv, Types
<1>3. (pc = "search" => Reached)' /\ HopsAreTight'
    BY <1>1 DEF Inv, Reached, HopsAreTight
<1>4. (pc = "search" => QueueInOrder /\ RestOfCur)'
    BY <1>1 DEF Inv, QueueInOrder, RestOfCur
<1>5. (pc = "search" => LinksFollowed)'
    BY <1>1 DEF Inv, LinksFollowed, Followed, InQueue
<1> QED
    BY <1>1, <1>2, <1>3, <1>4, <1>5 DEF Inv

LEMMA InvStep == Inv /\ [Next]_vars => Inv'
    BY LookupInv, FallbackInv, NotFoundInv, DequeueInv, FollowInv, SearchedInv, DrawInv,
       RespondInv, StutterInv
    DEF Next

-----------------------------------------------------------------------------
(* Distances.                                                              *)

\* Induction, for a set of natural numbers.
LEMMA SetInduction ==
    ASSUME NEW T, 0 \in T, \A n \in Nat : n \in T => n + 1 \in T
    PROVE  \A n \in Nat : n \in T
<1> DEFINE S == Nat \ T
           R == {ss \in Nat \X Nat : ss[1] < ss[2]}
<1>1. SUFFICES ASSUME S # {} PROVE FALSE
    OBVIOUS
<1>2. IsWellFoundedOn(R, Nat)
    BY NatLessThanWellFounded DEF OpToRel
<1>3. \E x \in S : \A y \in S : ~ (<<y, x>> \in R)
    <2> HIDE DEF R
    <2> QED
        BY <1>1, <1>2, WFMin
<1>4. PICK x \in S : \A y \in S : ~(y < x)
    BY <1>3
<1>5. x # 0 /\ x - 1 \in Nat /\ x - 1 < x /\ (x - 1) + 1 = x
    BY <1>4
<1>6. x - 1 \in T
    BY <1>4, <1>5
<1> QED
    BY <1>4, <1>5, <1>6

\* The definition of Within, for a limit of n.
Extends(w, n) ==
    w = [k \in 0 .. n |->
           IF k = 0 THEN {center} ELSE w[k - 1] \cup UNION {Adj(r) : r \in w[k - 1]}]

LEMMA WithinExists == \A n \in Nat : \E w : Extends(w, n)
<1> DEFINE T == {n \in Nat : \E w : Extends(w, n)}
<1>1. 0 \in T
    <2> DEFINE w == [k \in 0 .. 0 |-> {center}]
    <2>1. Extends(w, 0)
        BY DEF Extends
    <2> QED
        BY <2>1
<1>2. ASSUME NEW n \in Nat, n \in T PROVE n + 1 \in T
    <2>1. PICK w : Extends(w, n)
        BY <1>2
    <2> DEFINE v == [k \in 0 .. n + 1 |->
                       IF k = n + 1 THEN w[n] \cup UNION {Adj(r) : r \in w[n]} ELSE w[k]]
    <2>2. \A k \in 0 .. n : v[k] = w[k]
        OBVIOUS
    <2>3. ASSUME NEW k \in 0 .. n + 1
          PROVE  v[k] = IF k = 0 THEN {center} ELSE v[k - 1] \cup UNION {Adj(r) : r \in v[k - 1]}
        <3>1. CASE k = n + 1
            BY <2>2, <3>1
        <3>2. CASE k # n + 1
            <4>1. k \in 0 .. n /\ (k # 0 => k - 1 \in 0 .. n)
                BY <3>2
            <4>2. w[k] = IF k = 0 THEN {center} ELSE w[k - 1] \cup UNION {Adj(r) : r \in w[k - 1]}
                BY <2>1, <4>1 DEF Extends
            <4> HIDE DEF v
            <4> QED
                BY <2>2, <4>1, <4>2
        <3> QED
            BY <3>1, <3>2
    <2>4. DOMAIN v = 0 .. n + 1 /\ v = [k \in DOMAIN v |-> v[k]]
        OBVIOUS
    <2> HIDE DEF v
    <2>5. Extends(v, n + 1)
        BY <2>3, <2>4 DEF Extends
    <2> QED
        BY <2>5
<1> HIDE DEF T
<1>3. \A n \in Nat : n \in T
    BY <1>1, <1>2, SetInduction
<1> QED
    BY <1>3 DEF T

LEMMA WithinDef ==
    /\ Within[0] = {center}
    /\ \A k \in 1 .. MaxHops : Within[k] = Within[k - 1] \cup UNION {Adj(r) : r \in Within[k - 1]}
<1>1. Within = CHOOSE w : Extends(w, MaxHops)
    BY DEF Within, Extends
<1>2. \E w : Extends(w, MaxHops)
    BY WithinExists, GraphAssumption
<1>3. Extends(Within, MaxHops)
    BY <1>1, <1>2
<1>4. 0 \in 0 .. MaxHops /\ \A k \in 1 .. MaxHops : k \in 0 .. MaxHops /\ k # 0
    BY GraphAssumption
<1>5. \A k \in 0 .. MaxHops :
         Within[k] = IF k = 0 THEN {center} ELSE Within[k - 1] \cup UNION {Adj(r) : r \in Within[k - 1]}
    BY <1>3 DEF Extends
<1> QED
    BY <1>4, <1>5

\* What is within k links has been reached over at most k hops.
LEMMA WithinIsReached ==
    ASSUME Types, HopsAreTight, pc \in {"draw", "done"}, found
    PROVE  \A k \in 0 .. MaxHops : \A r \in Within[k] : r \in reachable /\ hop[r] <= k
<1> DEFINE T == {k \in Nat : k <= MaxHops => \A r \in Within[k] : r \in reachable /\ hop[r] <= k}
<1>0. MaxHops \in Nat /\ \A r \in reachable : hop[r] \in Nat /\ hop[r] <= MaxHops
    BY GraphAssumption DEF Types
<1>1. 0 \in T
    BY WithinDef DEF HopsAreTight
<1>2. ASSUME NEW k \in Nat, k \in T PROVE k + 1 \in T
    <2> SUFFICES ASSUME k + 1 <= MaxHops, NEW r \in Within[k + 1]
                 PROVE  r \in reachable /\ hop[r] <= k + 1
        OBVIOUS
    <2>1. k + 1 \in 1 .. MaxHops /\ (k + 1) - 1 = k /\ k < MaxHops /\ k <= MaxHops
        BY <1>0
    <2>2. Within[k + 1] = Within[k] \cup UNION {Adj(q) : q \in Within[k]}
        BY <2>1, WithinDef
    <2>3. \A q \in Within[k] : q \in reachable /\ hop[q] <= k
        BY <1>2, <2>1
    <2>4. CASE r \in Within[k]
        BY <1>0, <2>3, <2>4
    <2>5. CASE r \notin Within[k]
        <3>1. PICK q \in Within[k] : r \in Adj(q)
            BY <2>2, <2>5
        <3>2. PICK l \in links : l[1] = q /\ r = l[2]
            BY <3>1 DEF Adj
        <3>3. hop[q] < MaxHops /\ q \in reachable
            BY <1>0, <2>1, <2>3, <3>1
        <3>4. r \in reachable /\ hop[r] <= hop[q] + 1
            BY <3>2, <3>3 DEF HopsAreTight
        <3> QED
            BY <1>0, <2>3, <3>1, <3>4
    <2> QED
        BY <2>4, <2>5
<1> HIDE DEF T
<1>3. \A k \in Nat : k \in T
    BY <1>1, <1>2, SetInduction
<1> QED
    BY <1>0, <1>3 DEF T

\* What has been reached over k hops is within k links, and so within more.
LEMMA ReachedIsWithin ==
    ASSUME Types, HopsAreTight, pc \in {"draw", "done"}, found
    PROVE  \A k \in 0 .. MaxHops : \A r \in reachable : hop[r] <= k => r \in Within[k]
<1> DEFINE T == {k \in Nat : k <= MaxHops => \A r \in reachable : hop[r] <= k => r \in Within[k]}
<1>0. MaxHops \in Nat /\ \A r \in reachable : hop[r] \in Nat /\ hop[r] <= MaxHops
    BY GraphAssumption DEF Types
<1>1. 0 \in T
    <2> SUFFICES ASSUME NEW r \in reachable, hop[r] <= 0 PROVE r \in Within[0]
        OBVIOUS
    <2>1. CASE r # center
        <3>1. PICK q \in reachable : hop[r] = hop[q] + 1
            BY <2>1 DEF HopsAreTight
        <3> QED
            BY <1>0, <3>1
    <2> QED
        BY <2>1, WithinDef
<1>2. ASSUME NEW k \in Nat, k \in T PROVE k + 1 \in T
    <2> SUFFICES ASSUME k + 1 <= MaxHops, NEW r \in reachable, hop[r] <= k + 1
                 PROVE  r \in Within[k + 1]
        OBVIOUS
    <2>1. k + 1 \in 1 .. MaxHops /\ (k + 1) - 1 = k /\ k <= MaxHops
        BY <1>0
    <2>2. Within[k + 1] = Within[k] \cup UNION {Adj(q) : q \in Within[k]}
        BY <2>1, WithinDef
    <2>3. \A q \in reachable : hop[q] <= k => q \in Within[k]
        BY <1>2, <2>1
    <2>4. CASE hop[r] <= k
        BY <2>2, <2>3, <2>4
    <2>5. CASE ~(hop[r] <= k)
        <3>1. r # center
            BY <1>0, <2>5 DEF HopsAreTight
        <3>2. PICK q \in reachable : <<q, r>> \in links /\ hop[r] = hop[q] + 1
            BY <3>1 DEF HopsAreTight
        <3>3. q \in Within[k]
            BY <1>0, <2>3, <3>2
        <3>4. r \in Adj(q)
            BY <3>2 DEF Adj
        <3> QED
            BY <2>2, <3>3, <3>4
    <2> QED
        BY <2>4, <2>5
<1> HIDE DEF T
<1>3. \A k \in Nat : k \in T
    BY <1>1, <1>2, SetInduction
<1> QED
    BY <1>0, <1>3 DEF T

LEMMA TightIsShortest == Inv => HopsAreDistances
<1> SUFFICES ASSUME Inv, pc \in {"draw", "done"}, found PROVE HopsAreDistances
    BY DEF HopsAreDistances
<1>1. Types /\ HopsAreTight
    BY DEF Inv
<1>2. MaxHops \in Nat /\ \A r \in reachable : hop[r] \in 0 .. MaxHops
    BY <1>1, GraphAssumption DEF Types
<1>3. \A k \in 0 .. MaxHops : \A r \in Within[k] : r \in reachable /\ hop[r] <= k
    BY <1>1, WithinIsReached
<1>4. \A k \in 0 .. MaxHops : \A r \in reachable : hop[r] <= k => r \in Within[k]
    BY <1>1, ReachedIsWithin
<1>5. reachable = Within[MaxHops]
    BY <1>2, <1>3, <1>4
<1>6. ASSUME NEW r \in reachable
      PROVE  r \in Within[hop[r]] /\ (hop[r] > 0 => r \notin Within[hop[r] - 1])
    BY <1>2, <1>3, <1>4
<1> QED
    BY <1>5, <1>6 DEF HopsAreDistances

\* buildRouterGraph: a drawn graph has the routers at most MaxHops links away from the
\* center, each with the length of a shortest way to it.
THEOREM HopsShortest == Spec => []HopsAreDistances
    BY InitInv, InvStep, TightIsShortest, PTL DEF Spec

-----------------------------------------------------------------------------
(* The drawing.                                                            *)

Drawn == reachable \ undrawn

\* An edge stands for a link of a router that has been drawn, a pair has one edge, and the
\* links of the routers that have been drawn have theirs.
EdgesOfLinks ==
    \A e \in edges : <<e.source, e.target>> \in links /\ e.source \in Drawn /\ e.target \in reachable
OnePerPair ==
    \A e, f \in edges : {e.source, e.target} = {f.source, f.target} => e = f
LinksDrawn ==
    \A l \in links : l[1] \in Drawn /\ l[2] \in reachable => Added(l[1], l[2])

Edge == [source : Routers, target : Routers, crossOrbit : BOOLEAN]

Drawing ==
    /\ source \in {"db", "csv"} /\ found \in BOOLEAN
    /\ pc \in {"lookup", "search", "draw", "done"}
    /\ IsFiniteSet(reachable)
    /\ undrawn \subseteq reachable
    /\ edges \subseteq Edge
    /\ EdgesOfLinks /\ OnePerPair
    /\ DOMAIN layout \subseteq reachable
    /\ pc \in {"lookup", "search"} => edges = {} /\ undrawn = {}
    /\ pc = "lookup" => reachable = {}
    /\ (pc \in {"draw", "done"} /\ found) => LinksDrawn
    /\ (pc = "done" /\ found) => undrawn = {} /\ layout = LayoutRouterGraphByOrbit(reachable)

LEMMA InitDrawing == Init => Drawing
<1> SUFFICES ASSUME Init PROVE Drawing
    OBVIOUS
<1>1. DOMAIN layout = {}
    BY DEF Init
<1>2. IsFiniteSet(reachable)
    BY FS_EmptySet DEF Init
<1> QED
    BY <1>1, <1>2 DEF Init, Drawing, EdgesOfLinks, OnePerPair

\* A router is drawn.
LEMMA DrawDrawing ==
    ASSUME Inv, Drawing, NEW src \in Routers, Draw(src)
    PROVE  Drawing'
<1> DEFINE new == {[source |-> src, target |-> tgt, crossOrbit |-> Orbit[src] # Orbit[tgt]] :
                     tgt \in {t \in Adj(src) \cap reachable : ~Added(src, t)}}
<1>1. /\ pc = "draw" /\ src \in undrawn /\ undrawn' = undrawn \ {src}
      /\ edges' = edges \cup new
      /\ UNCHANGED <<center, source, found, links, pc, reachable, layout>>
    BY DEF Draw, request, search
<1>2. links \subseteq Routers \X Routers /\ reachable \subseteq Routers
    BY DEF Inv, Types
<1>3. Drawn' = Drawn \cup {src}
    BY <1>1 DEF Drawing, Drawn
<1>4. \A t \in Adj(src) : <<src, t>> \in links
    <2> SUFFICES ASSUME NEW t \in Adj(src) PROVE <<src, t>> \in links
        OBVIOUS
    <2>1. PICK l \in links : l[1] = src /\ t = l[2]
        BY DEF Adj
    <2>2. l = <<src, t>>
        BY <1>2, <2>1
    <2> QED
        BY <2>1, <2>2
<1>5. \A e \in new : /\ e.source = src /\ e.target \in Adj(src) \cap reachable
                     /\ ~Added(src, e.target)
                     /\ e \in Edge
                     /\ e = [source |-> src, target |-> e.target,
                             crossOrbit |-> Orbit[src] # Orbit[e.target]]
    <2> SUFFICES ASSUME NEW tgt \in Adj(src) \cap reachable, ~Added(src, tgt), NEW e,
                        e = [source |-> src, target |-> tgt, crossOrbit |-> Orbit[src] # Orbit[tgt]]
                 PROVE  /\ e.source = src /\ e.target = tgt /\ e \in Edge
        BY <1>2
    <2>1. tgt \in Routers /\ (Orbit[src] # Orbit[tgt]) \in BOOLEAN
        BY <1>2
    <2> QED
        BY <2>1 DEF Edge
<1>6. \A t \in Adj(src) \cap reachable : Added(src, t) \/ \E e \in new : e.source = src /\ e.target = t
    <2> SUFFICES ASSUME NEW t \in Adj(src) \cap reachable, ~Added(src, t)
                 PROVE  \E e \in new : e.source = src /\ e.target = t
        OBVIOUS
    <2>1. [source |-> src, target |-> t, crossOrbit |-> Orbit[src] # Orbit[t]] \in new
        OBVIOUS
    <2> QED
        BY <2>1
<1> HIDE DEF new
<1>7. EdgesOfLinks'
    BY <1>1, <1>3, <1>4, <1>5 DEF Drawing, EdgesOfLinks
<1>8. OnePerPair'
    <2> SUFFICES ASSUME NEW e \in edges', NEW f \in edges',
                        {e.source, e.target} = {f.source, f.target}
                 PROVE  e = f
        BY DEF OnePerPair
    <2>1. CASE e \in edges /\ f \in edges
        BY <2>1 DEF Drawing, OnePerPair
    <2>2. CASE e \in new /\ f \in edges
        BY <1>5, <2>2 DEF Added
    <2>3. CASE e \in edges /\ f \in new
        BY <1>5, <2>3 DEF Added
    <2>4. CASE e \in new /\ f \in new
        <3>1. e.target = f.target
            BY <1>5, <2>4
        <3> QED
            BY <1>5, <2>4, <3>1
    <2> QED
        BY <1>1, <2>1, <2>2, <2>3, <2>4
<1>9. found => LinksDrawn'
    <2> SUFFICES ASSUME found, NEW l \in links, l[1] \in Drawn', l[2] \in reachable
                 PROVE  Added(l[1], l[2])'
        BY <1>1 DEF LinksDrawn
    <2>1. CASE l[1] = src
        <3>1. l[2] \in Adj(src)
            BY <2>1 DEF Adj
        <3> QED
            BY <1>1, <1>6, <2>1, <3>1 DEF Added
    <2>2. CASE l[1] # src
        <3>1. Added(l[1], l[2])
            BY <1>1, <1>3, <2>2 DEF Drawing, LinksDrawn
        <3> QED
            BY <1>1, <3>1 DEF Added
    <2> QED
        BY <2>1, <2>2
<1>10. edges' \subseteq Edge
    BY <1>1, <1>5 DEF Drawing
<1> QED
    BY <1>1, <1>7, <1>8, <1>9, <1>10 DEF Drawing

LEMMA DrawingStep == Inv /\ Drawing /\ [Next]_vars => Drawing'
<1> SUFFICES ASSUME Inv, Drawing, [Next]_vars PROVE Drawing'
    OBVIOUS
<1> USE DEF request, search, drawing
<1>1. CASE Lookup
    <2>1. IsFiniteSet({center})
        BY FS_Singleton
    <2>2. /\ reachable' = {center} /\ edges' = {} /\ undrawn' = {} /\ layout' = layout
          /\ DOMAIN layout = {} /\ pc' = "search" /\ UNCHANGED <<source, found>>
        BY <1>1 DEF Lookup, Drawing
    <2> QED
        BY <2>1, <2>2 DEF Drawing, EdgesOfLinks, OnePerPair
<1>2. CASE Fallback
    <2>1. /\ pc = "lookup" /\ UNCHANGED <<pc, reachable, edges, undrawn, layout>>
          /\ source' \in {"db", "csv"} /\ found' \in BOOLEAN
        BY <1>2 DEF Fallback
    <2> QED
        BY <2>1 DEF Drawing, EdgesOfLinks, OnePerPair
<1>3. CASE NotFound
    BY <1>3 DEF NotFound, Drawing, EdgesOfLinks, OnePerPair, Drawn
<1>4. CASE Dequeue
    BY <1>4 DEF Dequeue, Drawing, EdgesOfLinks, OnePerPair, Drawn
<1>5. ASSUME NEW r \in Routers, Follow(r) PROVE Drawing'
    <2>1. /\ pc = "search" /\ UNCHANGED <<pc, source, found, edges, undrawn, layout>>
          /\ reachable' = reachable \/ reachable' = reachable \cup {r}
        BY <1>5 DEF Follow
    <2>2. IsFiniteSet(reachable')
        BY <2>1, FS_AddElement DEF Drawing
    <2> QED
        BY <2>1, <2>2 DEF Drawing, EdgesOfLinks, OnePerPair
<1>6. CASE Searched
    <2>1. /\ pc = "search" /\ pc' = "draw" /\ undrawn' = reachable
          /\ UNCHANGED <<source, found, links, reachable, edges, layout>>
        BY <1>6 DEF Searched
    <2>2. edges = {}
        BY <2>1 DEF Drawing
    <2>3. LinksDrawn' /\ EdgesOfLinks' /\ OnePerPair'
        BY <2>1, <2>2 DEF LinksDrawn, Drawn, EdgesOfLinks, OnePerPair
    <2> QED
        BY <2>1, <2>2, <2>3 DEF Drawing
<1>7. ASSUME NEW r \in Routers, Draw(r) PROVE Drawing'
    BY <1>7, DrawDrawing
<1>8. CASE Respond
    <2>1. /\ pc = "draw" /\ undrawn = {} /\ layout' = LayoutRouterGraphByOrbit(reachable)
          /\ pc' = "done" /\ UNCHANGED <<source, found, links, reachable, edges, undrawn>>
        BY <1>8 DEF Respond
    <2>2. DOMAIN layout' = reachable
        BY <2>1 DEF LayoutRouterGraphByOrbit
    <2>3. EdgesOfLinks' /\ OnePerPair' /\ (found => LinksDrawn')
        BY <2>1 DEF Drawing, LinksDrawn, Drawn, EdgesOfLinks, OnePerPair, Added
    <2>4. LayoutRouterGraphByOrbit(reachable)' = LayoutRouterGraphByOrbit(reachable)
        BY <2>1 DEF LayoutRouterGraphByOrbit
    <2> QED
        BY <2>1, <2>2, <2>3, <2>4 DEF Drawing
<1>9. CASE UNCHANGED vars
    <2>1. UNCHANGED <<source, found, links, pc, reachable, edges, undrawn, layout>>
        BY <1>9 DEF vars
    <2>2. LayoutRouterGraphByOrbit(reachable)' = LayoutRouterGraphByOrbit(reachable)
        BY <2>1 DEF LayoutRouterGraphByOrbit
    <2> QED
        BY <2>1, <2>2 DEF Drawing, LinksDrawn, Drawn, EdgesOfLinks, OnePerPair, Added
<1> QED
    BY <1>1, <1>2, <1>3, <1>4, <1>5, <1>6, <1>7, <1>8, <1>9 DEF Next

\* A router of a lower rank is farther to the left in its orbit, and lower orbits are
\* farther up.
LEMMA LayoutInOrder ==
    ASSUME NEW R \in SUBSET Routers, IsFiniteSet(R), NEW p \in R, NEW q \in R
    PROVE  LET at == LayoutRouterGraphByOrbit(R)
           IN  /\ Orbit[p] = Orbit[q] /\ Rank[p] < Rank[q] =>
                     at[p][2] = at[q][2] /\ at[p][1] < at[q][1]
               /\ Orbit[p] < Orbit[q] => at[p][2] < at[q][2]
<1> DEFINE orbits == {Orbit[r] : r \in R}
           row(o) == {r \in R : Orbit[r] = o}
           left(r) == {x \in row(Orbit[r]) : Rank[x] < Rank[r]}
           above(r) == {o \in orbits : o < Orbit[r]}
           at == LayoutRouterGraphByOrbit(R)
<1>1. /\ at[p] = << 2 * Cardinality(left(p)) - (Cardinality(row(Orbit[p])) - 1),
                    2 * Cardinality(above(p)) - (Cardinality(orbits) - 1) >>
      /\ at[q] = << 2 * Cardinality(left(q)) - (Cardinality(row(Orbit[q])) - 1),
                    2 * Cardinality(above(q)) - (Cardinality(orbits) - 1) >>
    BY DEF LayoutRouterGraphByOrbit
<1>2. \A r \in R : Orbit[r] \in Nat /\ Rank[r] \in Nat
    BY GraphAssumption
<1>3. IsFiniteSet(orbits)
    <2> DEFINE f == [r \in R |-> Orbit[r]]
    <2>1. f \in Surjection(R, orbits)
        BY DEF Surjection
    <2> HIDE DEF f, orbits
    <2> QED
        BY <2>1, FS_Surjection
<1>4. /\ Cardinality(orbits) \in Nat
      /\ Cardinality(row(Orbit[p])) \in Nat /\ Cardinality(row(Orbit[q])) \in Nat
      /\ IsFiniteSet(left(p)) /\ IsFiniteSet(left(q))
      /\ Cardinality(left(p)) \in Nat /\ Cardinality(left(q)) \in Nat
      /\ IsFiniteSet(above(p)) /\ IsFiniteSet(above(q))
      /\ Cardinality(above(p)) \in Nat /\ Cardinality(above(q)) \in Nat
    <2>1. /\ row(Orbit[p]) \in SUBSET R /\ row(Orbit[q]) \in SUBSET R
          /\ left(p) \in SUBSET R /\ left(q) \in SUBSET R
          /\ above(p) \in SUBSET orbits /\ above(q) \in SUBSET orbits
        OBVIOUS
    <2> HIDE DEF orbits, row, left, above
    <2> QED
        BY <1>3, <2>1, FS_Subset, FS_CardinalityType
<1>5. ASSUME Orbit[p] = Orbit[q], Rank[p] < Rank[q]
      PROVE  at[p][2] = at[q][2] /\ at[p][1] < at[q][1]
    <2>1. left(p) \in SUBSET left(q) /\ p \in left(q) /\ p \notin left(p)
        BY <1>2, <1>5
    <2>2. above(p) = above(q) /\ row(Orbit[p]) = row(Orbit[q])
        BY <1>5
    <2> HIDE DEF orbits, row, left, above, at
    <2>3. Cardinality(left(p)) <= Cardinality(left(q)) /\ Cardinality(left(p)) # Cardinality(left(q))
        BY <1>4, <2>1, FS_Subset
    <2> QED
        BY <1>1, <1>4, <2>2, <2>3
<1>6. ASSUME Orbit[p] < Orbit[q] PROVE at[p][2] < at[q][2]
    <2>1. above(p) \in SUBSET above(q) /\ Orbit[p] \in above(q) /\ Orbit[p] \notin above(p)
        BY <1>2, <1>6
    <2> HIDE DEF orbits, row, left, above, at
    <2>2. Cardinality(above(p)) <= Cardinality(above(q)) /\ Cardinality(above(p)) # Cardinality(above(q))
        BY <1>4, <2>1, FS_Subset
    <2> QED
        BY <1>1, <1>4, <2>2
<1> QED
    BY <1>5, <1>6

\* A pair of routers has one edge if links join them and none otherwise.
LEMMA EdgesOfPair ==
    ASSUME Inv, Drawing, pc = "done", found, NEW p \in reachable, NEW q \in reachable
    PROVE  Cardinality({e \in edges : {e.source, e.target} = {p, q}}) =
               IF <<p, q>> \in links \/ <<q, p>> \in links THEN 1 ELSE 0
<1> DEFINE E == {e \in edges : {e.source, e.target} = {p, q}}
<1>1. Drawn = reachable /\ LinksDrawn
    BY DEF Drawing, Drawn
<1>2. CASE <<p, q>> \in links \/ <<q, p>> \in links
    <2>1. Added(p, q) \/ Added(q, p)
        BY <1>1, <1>2 DEF LinksDrawn
    <2>2. PICK e \in edges : {e.source, e.target} = {p, q}
        BY <2>1 DEF Added
    <2>3. E = {e}
        BY <2>2 DEF Drawing, OnePerPair
    <2> HIDE DEF E
    <2>4. Cardinality(E) = 1
        BY <2>3, FS_Singleton
    <2> QED
        BY <1>2, <2>4 DEF E
<1>3. CASE ~(<<p, q>> \in links \/ <<q, p>> \in links)
    <2>1. E = {}
        <3> SUFFICES ASSUME NEW e \in edges, {e.source, e.target} = {p, q} PROVE FALSE
            OBVIOUS
        <3>1. (e.source = p /\ e.target = q) \/ (e.source = q /\ e.target = p)
            OBVIOUS
        <3> QED
            BY <1>3, <3>1 DEF Drawing, EdgesOfLinks
    <2> HIDE DEF E
    <2>2. Cardinality(E) = 0
        BY <2>1, FS_EmptySet
    <2> QED
        BY <1>3, <2>2 DEF E
<1> QED
    BY <1>2, <1>3

\* The response has a place for every router, in rows in the order of the orbits, and one
\* edge for each linked pair.
THEOREM EachDrawnOnce == Spec => []DrawnOnce
<1>1. Inv /\ Drawing => DrawnOnce
    <2> SUFFICES ASSUME Inv, Drawing, pc = "done", found PROVE DrawnOnce
        BY DEF DrawnOnce
    <2>1. layout = LayoutRouterGraphByOrbit(reachable) /\ IsFiniteSet(reachable)
        BY DEF Drawing
    <2>2. DOMAIN layout = reachable /\ reachable \in SUBSET Routers
        BY <2>1 DEF LayoutRouterGraphByOrbit, Inv, Types
    <2>3. ASSUME NEW p \in reachable, NEW q \in reachable
          PROVE  /\ Orbit[p] = Orbit[q] /\ Rank[p] < Rank[q] =>
                       layout[p][2] = layout[q][2] /\ layout[p][1] < layout[q][1]
                 /\ Orbit[p] < Orbit[q] => layout[p][2] < layout[q][2]
        BY <2>1, <2>2, LayoutInOrder
    <2> QED
        BY <2>2, <2>3, EdgesOfPair DEF DrawnOnce
<1> QED
    BY <1>1, InitInv, InvStep, InitDrawing, DrawingStep, PTL DEF Spec

\* Every variable of the search and the drawing keeps its type.
THEOREM GraphTypeCorrect == Spec => []TypeOK
<1>1. Inv /\ Drawing => TypeOK
    <2> SUFFICES ASSUME Inv, Drawing PROVE TypeOK
        OBVIOUS
    <2>1. edges \subseteq [source : reachable, target : reachable, crossOrbit : BOOLEAN]
        BY DEF Drawing, Edge, EdgesOfLinks, Drawn
    <2> QED
        BY <2>1 DEF Inv, Types, Drawing, TypeOK
<1> QED
    BY <1>1, InitInv, InvStep, InitDrawing, DrawingStep, PTL DEF Spec

-----------------------------------------------------------------------------
(* The scenario of TopologyMC.  Its TopologyImport and the one that the    *)
(* theorems of TopologyImportProofs are about are two instances of the     *)
(* same definitions.                                                       *)

ImportProofs == INSTANCE TopologyImportProofs WITH pc <- ipc

LEMMA SameAssumption == ImportProofs!ImportAssumption
BY FilesAssumption
DEF Import!ImportAssumption, ImportProofs!ImportAssumption, Import!Procs,
    ImportProofs!Procs, Import!Tables, ImportProofs!Tables, Import!Versions,
    ImportProofs!Versions

LEMMA SameInit == Import!Init => ImportProofs!Init
BY DEF Import!Init, ImportProofs!Init, Import!Procs, ImportProofs!Procs, Import!Tables,
       ImportProofs!Tables, Import!Versions, ImportProofs!Versions, Import!NoRows,
       ImportProofs!NoRows, Import!Rows, ImportProofs!Rows, Import!Content,
       ImportProofs!Content, Import!MayMiss, ImportProofs!MayMiss

LEMMA SameNext == Import!Next => ImportProofs!Next
BY DEF Import!Procs, ImportProofs!Procs, Import!Tables, ImportProofs!Tables,
       Import!Versions, ImportProofs!Versions, Import!txn, ImportProofs!txn, Import!vars,
       ImportProofs!vars, Import!NoRows, ImportProofs!NoRows, Import!Rows,
       ImportProofs!Rows, Import!Goto, ImportProofs!Goto, Import!ReadOrder,
       ImportProofs!ReadOrder, Import!What, ImportProofs!What,
       Import!EnsureRouterImported, ImportProofs!EnsureRouterImported, Import!Parsed,
       ImportProofs!Parsed, Import!ParseRouters, ImportProofs!ParseRouters,
       Import!ParseEdges, ImportProofs!ParseEdges, Import!Find, ImportProofs!Find,
       Import!Delete, ImportProofs!Delete, Import!PickNode, ImportProofs!PickNode,
       Import!Holders, ImportProofs!Holders, Import!Clash, ImportProofs!Clash,
       Import!InsertNode, ImportProofs!InsertNode, Import!InsertRest,
       ImportProofs!InsertRest, Import!Ends, ImportProofs!Ends, Import!Commit,
       ImportProofs!Commit, Import!Deadlocked, ImportProofs!Deadlocked, Import!Rollback,
       ImportProofs!Rollback, Import!DuplicateKey, ImportProofs!DuplicateKey,
       Import!BreakDeadlock, ImportProofs!BreakDeadlock, Import!Fail, ImportProofs!Fail,
       Import!ReadTable, ImportProofs!ReadTable, Import!CollectRouterDirectLinks,
       ImportProofs!CollectRouterDirectLinks, Import!CsvLinks, ImportProofs!CsvLinks,
       Import!Content, ImportProofs!Content, Import!MayMiss, ImportProofs!MayMiss,
       Import!Unopened, ImportProofs!Unopened, Import!Answer, ImportProofs!Answer,
       Import!FromDB, ImportProofs!FromDB, Import!FromCSV, ImportProofs!FromCSV,
       Import!FromNothing, ImportProofs!FromNothing,
       Import!Respond, ImportProofs!Respond, Import!SyncFiles, ImportProofs!SyncFiles,
       Import!Step, ImportProofs!Step, Import!Next, ImportProofs!Next

LEMMA ImportOfScenario == EitherSpec => ImportProofs!Spec
<1>1. EitherInit => ImportProofs!Init
    BY SameInit DEF EitherInit
<1>2. [EitherNext]_<<vars, importVars, chosen>> => [ImportProofs!Next]_(ImportProofs!vars)
    BY SameNext DEF EitherNext, importVars, ImportProofs!vars, ImportProofs!txn
<1> QED
    BY <1>1, <1>2, PTL DEF EitherSpec, ImportProofs!Spec

LEMMA GraphOfScenario == EitherSpec => Spec
<1>1. EitherInit => Init
    BY DEF EitherInit
<1>2. [EitherNext]_<<vars, importVars, chosen>> => [Next]_vars
    BY DEF EitherNext
<1> QED
    BY <1>1, <1>2, PTL DEF EitherSpec, Spec

\* Every variable of the graph and of the tables keeps its type.
THEOREM TypesCorrect == EitherSpec => []TypesOK
<1>1. ImportProofs!TypeOK => Import!TypeOK
    BY DEF Import!TypeOK, ImportProofs!TypeOK, Import!Procs, ImportProofs!Procs,
           Import!Tables, ImportProofs!Tables, Import!Versions, ImportProofs!Versions
<1> QED
    BY <1>1, GraphOfScenario, GraphTypeCorrect, ImportOfScenario, SameAssumption,
       ImportProofs!ImportTypeCorrect, PTL
    DEF TypesOK

\* ImportRouterFromCSV, ImportDelayFromCSV, ImportSatStatesFromCSV: however imports overlap,
\* fail and are undone, the nodes are those of one import with its links, and of no import
\* there is a part of a table.
THEOREM ImportsWhole == EitherSpec => []ImportsAreWhole
<1>1. ImportProofs!ImportsAreWhole => ImportsAreWhole
    BY DEF ImportsAreWhole, Import!ImportsAreWhole, ImportProofs!ImportsAreWhole, Import!Procs,
           ImportProofs!Procs, Import!Tables, ImportProofs!Tables, Import!Rows,
           ImportProofs!Rows, Import!Content, ImportProofs!Content
<1> QED
    BY <1>1, ImportOfScenario, SameAssumption, ImportProofs!ImportsStayWhole, PTL

\* TopologyRouterLinksHandler: while the files are of one version, a request shows only links
\* in them, and all of them but for files that an import or the request itself could not
\* read, though it reads nodes and links in two statements and imports may replace both in
\* between.
THEOREM FilesLinksShown == EitherSpec => []OneVersionShown
<1>1. ImportProofs!OneVersionShown => OneVersionShown
    BY DEF OneVersionShown,
           Import!OneVersionShown, ImportProofs!OneVersionShown, Import!CsvLinks,
           ImportProofs!CsvLinks, Import!CollectRouterDirectLinks,
           ImportProofs!CollectRouterDirectLinks, Import!Content, ImportProofs!Content,
           Import!Unread, ImportProofs!Unread, Import!Procs, ImportProofs!Procs
<1> QED
    BY <1>1, ImportOfScenario, SameAssumption, ImportProofs!FilesShown, PTL
=============================================================================
