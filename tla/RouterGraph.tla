----------------------------- MODULE RouterGraph -----------------------------
(***************************************************************************)
(* GET /topology/router: the routers around a center, breadth first and at *)
(* most MaxHops hops away, the edges between them and where they are drawn *)
(* (TopologyRouterHandler, buildRouterGraph and layoutRouterGraphByOrbit in*)
(* internal/api/handlers/topology.go).                                     *)
(*                                                                         *)
(* The links come from the database or, if it has no graph for the center, *)
(* from the CSV files; they may lead to routers without a row or a file,   *)
(* and come in any order.  TopologyImport has the reading of the tables.   *)
(***************************************************************************)
EXTENDS Integers, FiniteSets, Sequences

CONSTANTS
    Routers,   \* the ends of links
    Centers,   \* those that are asked for, by their names or their satellites'
    Graphs,    \* the links there may be: sets of pairs of routers
    Orbit,     \* orbitFromRouterID
    Rank,      \* the order in an orbit: by slotFromRouterID, then by name
    MaxHops    \* 16

ASSUME GraphAssumption ==
    /\ Centers \subseteq Routers
    /\ Graphs \subseteq SUBSET (Routers \X Routers)
    /\ Orbit \in [Routers -> Nat]
    /\ Rank \in [Routers -> Nat] /\ \A q, r \in Routers : Rank[q] = Rank[r] => q = r
    /\ MaxHops \in Nat

VARIABLES
    center,     \* the router that was asked for
    source,     \* "db" or "csv"
    found,      \* routerToSat has the center
    links,      \* adj
    pc,
    queue,
    cur,        \* the router whose links are followed
    rest,       \* the ends of its links that are still to be looked at
    reachable,
    hop,        \* hopByRouter
    undrawn,    \* the reachable routers whose links are still to be drawn
    edges,      \* edges of the response
    layout      \* places of the routers, in halves of a column and of a row

request == <<center, source, found, links>>
search  == <<queue, cur, rest, reachable, hop>>
drawing == <<undrawn, edges, layout>>
vars    == <<request, pc, search, drawing>>

Adj(r) == {l[2] : l \in {x \in links : x[1] = r}}

Init ==
    /\ center \in Centers
    /\ source = "db"
    /\ found \in BOOLEAN
    /\ links \in Graphs
    /\ pc = "lookup"
    /\ queue = <<>>
    /\ cur = center
    /\ rest = {}
    /\ reachable = {}
    /\ hop = [r \in Routers |-> 0]
    /\ undrawn = {}
    /\ edges = {}
    /\ layout = [r \in {} |-> <<0, 0>>]

\* buildRouterGraph begins with the center.
Lookup ==
    /\ pc = "lookup"
    /\ found
    /\ pc' = "search"
    /\ queue' = <<center>>
    /\ reachable' = {center}
    /\ UNCHANGED <<request, cur, rest, hop, drawing>>

\* The graph of a center without a row is empty, as without any row: the CSV files are
\* read.
Fallback ==
    /\ pc = "lookup"
    /\ ~found /\ source = "db"
    /\ source' = "csv"
    /\ found' \in BOOLEAN
    /\ links' \in Graphs
    /\ UNCHANGED <<center, pc, search, drawing>>

\* They do not have it either, or cannot be read.
NotFound ==
    /\ pc = "lookup"
    /\ ~found /\ source = "csv"
    /\ pc' = "done"
    /\ UNCHANGED <<request, search, drawing>>

\* Mutant: a hop too many.
PastLimit(r) == hop[r] > MaxHops

\* The links of a router at the limit are not followed.
AtLimit(r) == hop[r] >= MaxHops

Dequeue ==
    /\ pc = "search"
    /\ rest = {} /\ queue # <<>>
    /\ cur' = Head(queue)
    /\ queue' = Tail(queue)
    /\ rest' = IF AtLimit(Head(queue)) THEN {} ELSE Adj(Head(queue))
    /\ UNCHANGED <<request, pc, reachable, hop, drawing>>

\* Mutant: a stack.
Push(r) == <<r>> \o queue

Enqueue(r) == Append(queue, r)

\* An end of a link of cur, in any order.
Follow(r) ==
    /\ pc = "search"
    /\ r \in rest
    /\ rest' = rest \ {r}
    /\ IF r \in reachable
       THEN UNCHANGED <<reachable, hop, queue>>
       ELSE /\ reachable' = reachable \cup {r}
            /\ hop' = [hop EXCEPT ![r] = hop[cur] + 1]
            /\ queue' = Enqueue(r)
    /\ UNCHANGED <<request, pc, cur, drawing>>

Searched ==
    /\ pc = "search"
    /\ rest = {} /\ queue = <<>>
    /\ pc' = "draw"
    /\ undrawn' = reachable
    /\ UNCHANGED <<request, search, edges, layout>>

\* Mutant: the key of a pair depends on the direction.
AddedThisWay(p, q) == \E e \in edges : e.source = p /\ e.target = q

\* The pair's key is in added.
Added(p, q) == \E e \in edges : {e.source, e.target} = {p, q}

\* The links of a reachable router, in any order of the routers: one edge for each pair,
\* whichever way the link goes.
Draw(src) ==
    /\ pc = "draw"
    /\ src \in undrawn
    /\ undrawn' = undrawn \ {src}
    /\ edges' = edges \cup
         {[source |-> src, target |-> tgt, crossOrbit |-> Orbit[src] # Orbit[tgt]] :
            tgt \in {t \in Adj(src) \cap reachable : ~Added(src, t)}}
    /\ UNCHANGED <<request, pc, search, layout>>

\* layoutRouterGraphByOrbit: a row for each orbit, in it the routers by slot, centered.
LayoutRouterGraphByOrbit(R) ==
    LET orbits == {Orbit[r] : r \in R}
        row(o) == {r \in R : Orbit[r] = o}
        left(r) == {q \in row(Orbit[r]) : Rank[q] < Rank[r]}
    IN  [r \in R |-> << 2 * Cardinality(left(r)) - (Cardinality(row(Orbit[r])) - 1),
                        2 * Cardinality({o \in orbits : o < Orbit[r]}) - (Cardinality(orbits) - 1) >>]

Respond ==
    /\ pc = "draw"
    /\ undrawn = {}
    /\ layout' = LayoutRouterGraphByOrbit(reachable)
    /\ pc' = "done"
    /\ UNCHANGED <<request, search, undrawn, edges>>

Next ==
    \/ Lookup \/ Fallback \/ NotFound \/ Dequeue \/ Searched \/ Respond
    \/ \E r \in Routers : Follow(r) \/ Draw(r)

Spec == Init /\ [][Next]_vars

-----------------------------------------------------------------------------
(* Properties.                                                             *)

TypeOK ==
    /\ center \in Routers
    /\ source \in {"db", "csv"} /\ found \in BOOLEAN
    /\ links \subseteq Routers \X Routers
    /\ pc \in {"lookup", "search", "draw", "done"}
    /\ queue \in Seq(Routers)
    /\ cur \in Routers
    /\ rest \subseteq Routers
    /\ reachable \subseteq Routers
    /\ hop \in [Routers -> 0 .. MaxHops]
    /\ undrawn \subseteq reachable
    /\ edges \subseteq [source : reachable, target : reachable, crossOrbit : BOOLEAN]
    /\ DOMAIN layout \subseteq reachable

\* The routers at most k links away from the center.
Within ==
    LET W[k \in 0 .. MaxHops] ==
          IF k = 0 THEN {center} ELSE W[k - 1] \cup UNION {Adj(r) : r \in W[k - 1]}
    IN  W

\* When a graph is drawn it has the routers at most MaxHops links away, each with the
\* length of a shortest way from the center (the search of buildRouterGraph).
HopsAreDistances ==
    (pc \in {"draw", "done"} /\ found) =>
        /\ reachable = Within[MaxHops]
        /\ \A r \in reachable : r \in Within[hop[r]] /\ (hop[r] > 0 => r \notin Within[hop[r] - 1])

\* The response draws every router in a place of its own, those of an orbit in one row in
\* their order, and one edge between two routers if links join them, in whatever direction
\* and however many (added in buildRouterGraph, layoutRouterGraphByOrbit).
DrawnOnce ==
    (pc = "done" /\ found) =>
        /\ DOMAIN layout = reachable
        /\ \A p, q \in reachable :
              /\ Cardinality({e \in edges : {e.source, e.target} = {p, q}}) =
                    IF <<p, q>> \in links \/ <<q, p>> \in links THEN 1 ELSE 0
              /\ Orbit[p] = Orbit[q] /\ Rank[p] < Rank[q] =>
                    layout[p][2] = layout[q][2] /\ layout[p][1] < layout[q][1]
              /\ Orbit[p] < Orbit[q] => layout[p][2] < layout[q][2]
=============================================================================
