----------------------------- MODULE TopologyMC -----------------------------
(* The topology in one run: the graph around a router (RouterGraph) and the*)
(* tables it is read from, with their imports (TopologyImport).  A request *)
(* reads the tables before it searches; the first state chooses one of the *)
(* two, with any graph, and the other takes no step.                       *)
EXTENDS RouterGraph, FiniteSetsExt, TLC

CONSTANTS r1, r2, r3, r4, r5, Imports, Requests, Before, NoRouter, Csv, Fragile, MaxErrors

VARIABLES
    chosen,
    db, dir, kind, ipc, ver, missing, todo, snap, dead, fresh, key, got, shown, hidden, errors

importVars ==
    <<db, dir, kind, ipc, ver, missing, todo, snap, dead, fresh, key, got, shown, hidden, errors>>

\* Up to three links between four routers in two orbits; a chain that is longer than the
\* limit; a router that has a way of two hops and one of three.
FiveRouters == {r1, r2, r3, r4, r5}
FourRouters == FiveRouters \ {r5}
Chain       == {<<r1, r2>>, <<r2, r3>>, <<r3, r4>>, <<r4, r5>>}
TwoWays     == {<<r1, r2>>, <<r1, r3>>, <<r2, r4>>, <<r4, r5>>, <<r3, r5>>}
SomeGraphs  == {Chain, TwoWays} \cup
               UNION {kSubset(k, {l \in FourRouters \X FourRouters : l[1] # l[2]}) : k \in 0 .. 3}
TwoOrbits   == r1 :> 1 @@ r2 :> 1 @@ r3 :> 2 @@ r4 :> 2 @@ r5 :> 2
SomeRank    == r1 :> 1 @@ r2 :> 2 @@ r3 :> 3 @@ r4 :> 4 @@ r5 :> 5

\* Two versions of the files that have a router in common; one of the first may not open.
TwoVersions ==
    << [nodes |-> {r1, r2}, links |-> {<<r1, r2>>}, edges |-> {"e1", "e2"}],
       [nodes |-> {r2, r3}, links |-> {<<r2, r3>>, <<r3, r2>>}, edges |-> {"e2", "e3"}] >>

Import == INSTANCE TopologyImport WITH pc <- ipc

ASSUME FilesAssumption == Import!ImportAssumption

EitherInit ==
    /\ chosen \in {"graph", "import"}
    /\ Init /\ Import!Init
    /\ chosen = "import" => links = {} /\ found
    /\ chosen = "graph" => dir = 1 /\ db = Import!NoRows /\ \A p \in Import!Procs : kind[p] = "router"

EitherNext ==
    /\ \/ chosen = "graph" /\ Next /\ UNCHANGED importVars
       \/ chosen = "import" /\ Import!Next /\ UNCHANGED vars
    /\ UNCHANGED chosen

\* The fairness of TopologyImport.
EitherSpec ==
    /\ EitherInit /\ [][EitherNext]_<<vars, importVars, chosen>>
    /\ \A p \in Import!Procs : WF_importVars(chosen = "import" /\ Import!Step(p))

\* The types of both.
TypesOK == TypeOK /\ Import!TypeOK

\* HopsAreDistances and DrawnOnce are properties of RouterGraph; these are of
\* TopologyImport.

\* The nodes are those of one import, with its links, and no import is there in part.
ImportsAreWhole == Import!ImportsAreWhole

\* A request shows the links of the files while these do not change, but for files that
\* could not be read.
OneVersionShown == Import!OneVersionShown

\* Every import and every request ends.
EverybodyEnds == \A p \in Import!Procs : <>(chosen = "graph" \/ ipc[p] = "done")
=============================================================================
