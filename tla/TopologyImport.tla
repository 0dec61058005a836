--------------------------- MODULE TopologyImport ---------------------------
(***************************************************************************)
(* The tables of the topology of a scenario: their imports from CSV files  *)
(* (internal/topology/importer.go), by an import job or a server with      *)
(* SATELLITE_TOPOLOGY_AUTO_IMPORT and, for the routers, by a GET or a      *)
(* starting server that finds no nodes; and what GET /topology/router-links*)
(* reads (internal/api/handlers/topology.go).  A starting server is a GET  *)
(* that reads nothing here.                                                *)
(*                                                                         *)
(* Every import is a PostgreSQL transaction with the default isolation,    *)
(* READ COMMITTED: a statement sees what was committed when it began, a    *)
(* DELETE waits for transactions that have deleted one of its rows and     *)
(* then passes over it, and an INSERT waits for transactions that have     *)
(* inserted or deleted its key.  router_nodes has a unique index; the other*)
(* tables have none.                                                       *)
(***************************************************************************)
EXTENDS FiniteSets, Naturals, Sequences

CONSTANTS
    Imports,    \* import jobs and servers with AUTO_IMPORT
    Requests,   \* GETs of the router links
    Before,     \* the import that had filled the tables, if they were filled
    Routers,
    NoRouter,
    Csv,        \* the contents of the CSV files, in each version
    Fragile,    \* the routers whose files may fail to be opened or read
    MaxErrors   \* statements and files that fail

Procs    == Imports \cup Requests
Tables   == {"nodes", "links", "edges"}
Versions == 1 .. Len(Csv)

\* Of the constants.  nodes: the routers that have a file.  links: those in the files.
\* edges: the entries of the delay matrix or the satellites' states.
ImportAssumption ==
    /\ Imports \cap Requests = {} /\ Before \notin Procs /\ NoRouter \notin Routers
    /\ \A v \in Versions :
          /\ DOMAIN Csv[v] = Tables
          /\ Csv[v].nodes \subseteq Routers
          /\ \A l \in Csv[v].links : l[1] \in Csv[v].nodes /\ l[2] \in Routers \ {l[1]}
    /\ \A v, w \in Versions : Csv[v].nodes \cap Csv[w].nodes # {}
    /\ MaxErrors \in Nat

VARIABLES
    db,      \* the rows of each table: what they hold, and the import that inserted them
    dir,     \* the version of the files in the directory
    kind,    \* what each process imports
    pc,
    ver,     \* the version that an import has read
    missing, \* the routers whose files it could not open
    todo,    \* the tables whose rows it has still to delete, or to read
    snap,    \* the rows that its DELETE statement has found
    dead,    \* the rows that its transaction has deleted
    fresh,   \* the rows that it has inserted
    key,     \* the router whose row it inserts
    got,     \* what a request has read of nodes and links
    shown,   \* the links in its response
    hidden,  \* the routers whose files it could not open for it
    errors

txn  == <<ver, missing, todo, snap, dead, fresh, key>>
vars == <<db, dir, kind, pc, txn, got, shown, hidden, errors>>

NoRows == [t \in Tables |-> {}]

\* What is in the files of version v without those of the routers S.
Content(v, t, S) == IF t = "links" THEN {l \in Csv[v].links : l[1] \notin S} ELSE Csv[v][t]

\* The files of version v that one reading may miss.
MayMiss(v) == SUBSET (Csv[v].nodes \cap Fragile)

\* The rows that an import of version v by p inserts: a router's row is made from the name of
\* its file, its links from what is in it.
Rows(v, t, p) == Content(v, t, missing[p]) \X {p}

Init ==
    /\ dir \in Versions
    /\ \E v \in 1 .. dir : \E S \in MayMiss(v) :
          /\ missing = [p \in Procs \cup {Before} |-> IF p = Before THEN S ELSE {}]
          /\ errors = (IF S = {} THEN 0 ELSE 1) /\ errors <= MaxErrors
          /\ \/ S = {} /\ db = NoRows
             \/ db = [t \in Tables |-> Rows(v, t, Before)]
    /\ kind \in {k \in [Procs -> {"router", "edges"}] : \A p \in Requests : k[p] = "router"}
    /\ pc = [p \in Procs |-> IF p \in Requests THEN "ensure" ELSE "parse"]
    /\ ver = [p \in Procs |-> dir]
    /\ todo = [p \in Procs |-> <<>>]
    /\ snap = [p \in Procs |-> {}]
    /\ dead = [p \in Procs |-> NoRows]
    /\ fresh = [p \in Procs |-> NoRows]
    /\ key = [p \in Procs |-> NoRouter]
    /\ got = [p \in Procs |-> [nodes |-> {}, links |-> {}]]
    /\ shown = [p \in Procs |-> {}]
    /\ hidden = [p \in Procs |-> {}]

Goto(p, s) == pc' = [pc EXCEPT ![p] = s]

\* Mutant: the links first.
LinksFirst == <<"links", "nodes">>

\* The SELECTs of loadRouterAdjacencyFromDB.
ReadOrder == <<"nodes", "links">>

What(rows) == {row[1] : row \in rows}

\* The files of the routers S cannot be opened or read.
Unopened(S) ==
    IF S = {} THEN UNCHANGED errors ELSE errors < MaxErrors /\ errors' = errors + 1

-----------------------------------------------------------------------------
(* An import.                                                              *)

\* EnsureRouterImported: RouterNodeCount, and an import if it is zero.
EnsureRouterImported(p) ==
    /\ pc[p] = "ensure"
    /\ IF db.nodes = {} THEN Goto(p, "parse") /\ UNCHANGED todo
       ELSE Goto(p, "read") /\ todo' = [todo EXCEPT ![p] = ReadOrder]
    /\ UNCHANGED <<db, dir, kind, ver, missing, snap, dead, fresh, key, got, shown, hidden, errors>>

\* The files are read and the transaction begins.
Parsed(p, tables, S) ==
    /\ pc[p] = "parse"
    /\ ver' = [ver EXCEPT ![p] = dir]
    /\ missing' = [missing EXCEPT ![p] = S]
    /\ todo' = [todo EXCEPT ![p] = tables]
    /\ Goto(p, "delete")
    /\ Unopened(S)
    /\ UNCHANGED <<db, dir, kind, snap, dead, fresh, key, got, shown, hidden>>

\* ImportRouterFromCSV, which goes on when it cannot open a router's file;
\* ImportSatStatesFromCSV and, alike, ImportDelayFromCSV.
ParseRouters(p) ==
    kind[p] = "router" /\ \E S \in MayMiss(dir) : Parsed(p, <<"links", "nodes">>, S)
ParseEdges(p) == kind[p] = "edges" /\ Parsed(p, <<"edges">>, {})

\* A DELETE statement finds its rows ...
Find(p) ==
    /\ pc[p] = "delete"
    /\ snap' = [snap EXCEPT ![p] = db[Head(todo[p])]]
    /\ Goto(p, "deleting")
    /\ UNCHANGED <<db, dir, kind, ver, missing, todo, dead, fresh, key, got, shown, hidden, errors>>

\* ... and deletes those that are still there when no other transaction has one.
Delete(p) ==
    LET t == Head(todo[p])
    IN  /\ pc[p] = "deleting"
        /\ \A q \in Procs \ {p} : dead[q][t] \cap snap[p] = {}
        /\ dead' = [dead EXCEPT ![p][t] = snap[p] \cap db[t]]
        /\ snap' = [snap EXCEPT ![p] = {}]
        /\ todo' = [todo EXCEPT ![p] = Tail(@)]
        /\ Goto(p, IF Len(todo[p]) > 1 THEN "delete" ELSE "insert")
        /\ UNCHANGED <<db, dir, kind, ver, missing, fresh, key, got, shown, hidden, errors>>

\* The next router of nodesMap, in any order.
PickNode(p) ==
    /\ pc[p] = "insert" /\ kind[p] = "router"
    /\ \E r \in Csv[ver[p]].nodes \ What(fresh[p].nodes) : key' = [key EXCEPT ![p] = r]
    /\ Goto(p, "inserting")
    /\ UNCHANGED <<db, dir, kind, ver, missing, todo, snap, dead, fresh, got, shown, hidden, errors>>

\* The transactions that have changed the key which p inserts, and committed rows with it.
Holders(p) ==
    {q \in Procs \ {p} : pc[p] = "inserting" /\ key[p] \in What(fresh[q].nodes \cup dead[q].nodes)}

\* Mutant: a table without the unique index.
NoClash(p) == {}

Clash(p) == {row \in db.nodes \ dead[p].nodes : row[1] = key[p]}

InsertNode(p) ==
    /\ pc[p] = "inserting"
    /\ Holders(p) = {} /\ Clash(p) = {}
    /\ fresh' = [fresh EXCEPT ![p].nodes = @ \cup {<<key[p], p>>}]
    /\ key' = [key EXCEPT ![p] = NoRouter]
    /\ Goto(p, "insert")
    /\ UNCHANGED <<db, dir, kind, ver, missing, todo, snap, dead, got, shown, hidden, errors>>

\* Links follow the nodes; nobody waits for rows of a table without a unique index.
InsertRest(p) ==
    LET t == IF kind[p] = "router" THEN "links" ELSE "edges"
    IN  /\ pc[p] = "insert"
        /\ kind[p] = "router" => What(fresh[p].nodes) = Csv[ver[p]].nodes
        /\ fresh' = [fresh EXCEPT ![p][t] = Rows(ver[p], t, p)]
        /\ Goto(p, "commit")
        /\ UNCHANGED <<db, dir, kind, ver, missing, todo, snap, dead, key, got, shown, hidden, errors>>

Ends(p) ==
    /\ todo' = [todo EXCEPT ![p] = IF p \in Requests THEN ReadOrder ELSE <<>>]
    /\ snap' = [snap EXCEPT ![p] = {}]
    /\ dead' = [dead EXCEPT ![p] = NoRows]
    /\ fresh' = [fresh EXCEPT ![p] = NoRows]
    /\ key' = [key EXCEPT ![p] = NoRouter]
    /\ Goto(p, IF p \in Requests THEN "read" ELSE "done")

Commit(p) ==
    /\ pc[p] = "commit"
    /\ db' = [t \in Tables |-> (db[t] \ dead[p][t]) \cup fresh[p][t]]
    /\ Ends(p)
    /\ UNCHANGED <<dir, kind, ver, missing, got, shown, hidden, errors>>

\* p waits in a circle of transactions; PostgreSQL ends one of them.
Deadlocked(p) ==
    \E S \in SUBSET Procs :
        /\ p \in S
        /\ \A x \in S : Holders(x) \cap S # {}
        /\ \A x \in S : \E y \in S : x \in Holders(y)

\* Nothing is left of the import.
Rollback(p) ==
    /\ Ends(p)
    /\ missing' = [missing EXCEPT ![p] = {}]
    /\ UNCHANGED <<db, dir, kind, ver, got, shown, hidden>>

\* Mutant: the import goes on with another router.
DuplicateKeyRetried(p) ==
    /\ pc[p] = "inserting"
    /\ Holders(p) = {} /\ Clash(p) # {}
    /\ key' = [key EXCEPT ![p] = NoRouter]
    /\ Goto(p, "insert")
    /\ UNCHANGED <<db, dir, kind, ver, missing, todo, snap, dead, fresh, got, shown, hidden, errors>>

\* INSERT of a router that another import has committed.
DuplicateKey(p) ==
    /\ pc[p] = "inserting"
    /\ Holders(p) = {} /\ Clash(p) # {}
    /\ Rollback(p) /\ UNCHANGED errors

BreakDeadlock(p) == Deadlocked(p) /\ Rollback(p) /\ UNCHANGED errors

\* The directory cannot be read, or a statement fails.
Fail(p) ==
    /\ pc[p] \in {"parse", "delete", "deleting", "insert", "inserting", "commit"}
    /\ errors < MaxErrors /\ errors' = errors + 1
    /\ Rollback(p)

-----------------------------------------------------------------------------
(* A request, after EnsureRouterImported, whose error is only logged.      *)

\* loadRouterAdjacencyFromDB, a SELECT for each table.
ReadTable(p) ==
    /\ pc[p] = "read"
    /\ got' = [got EXCEPT ![p][Head(todo[p])] = What(db[Head(todo[p])])]
    /\ todo' = [todo EXCEPT ![p] = Tail(@)]
    /\ Goto(p, IF Len(todo[p]) > 1 THEN "read" ELSE "respond")
    /\ UNCHANGED <<db, dir, kind, ver, missing, snap, dead, fresh, key, shown, hidden, errors>>

\* collectRouterDirectLinks: each pair of linked satellites once.
CollectRouterDirectLinks(ns, ls) == {{l[1], l[2]} : l \in {x \in ls : x[1] \in ns /\ x[2] \in ns}}

\* What the files of a version stand for, without those of the routers S.
CsvLinks(v, S) == CollectRouterDirectLinks(Csv[v].nodes, Content(v, "links", S))

Answer(p, ls, S) ==
    /\ pc[p] = "respond"
    /\ shown' = [shown EXCEPT ![p] = ls]
    /\ hidden' = [hidden EXCEPT ![p] = S]
    /\ Goto(p, "done")
    /\ UNCHANGED <<db, dir, kind, txn, got>>

\* The response has what is in the tables; without nodes in them, what is in the files,
\* which may be less than there should be; and if the directory cannot be read, no links:
\* the error is only logged.
FromDB(p) ==
    /\ got[p].nodes # {}
    /\ Answer(p, CollectRouterDirectLinks(got[p].nodes, got[p].links), {})
    /\ UNCHANGED errors

FromCSV(p) ==
    /\ got[p].nodes = {}
    /\ \E S \in MayMiss(dir) : Answer(p, CsvLinks(dir, S), S) /\ Unopened(S)

FromNothing(p) ==
    /\ got[p].nodes = {}
    /\ errors < MaxErrors /\ errors' = errors + 1
    /\ Answer(p, {}, Csv[dir].nodes)

Respond(p) == FromDB(p) \/ FromCSV(p) \/ FromNothing(p)

\* The next version of the files is copied to the directory.
SyncFiles ==
    /\ dir < Len(Csv)
    /\ dir' = dir + 1
    /\ UNCHANGED <<db, kind, pc, txn, got, shown, hidden, errors>>

Step(p) ==
    \/ EnsureRouterImported(p) \/ ParseRouters(p) \/ ParseEdges(p) \/ Find(p) \/ Delete(p)
    \/ PickNode(p) \/ InsertNode(p) \/ InsertRest(p) \/ Commit(p)
    \/ DuplicateKey(p) \/ BreakDeadlock(p)
    \/ ReadTable(p) \/ Respond(p)

Next == (\E p \in Procs : Step(p) \/ Fail(p)) \/ SyncFiles

Spec == Init /\ [][Next]_vars

\* A process goes on, and PostgreSQL grants locks and breaks deadlocks.
FairSpec == Spec /\ \A p \in Procs : WF_vars(Step(p))

-----------------------------------------------------------------------------
(* Properties.                                                             *)

TypeOK ==
    /\ \A t \in Tables : \A row \in db[t] : row[2] \in Procs \cup {Before}
    /\ dir \in Versions
    /\ kind \in [Procs -> {"router", "edges"}]
    /\ pc \in [Procs -> {"ensure", "parse", "delete", "deleting", "insert", "inserting",
                         "commit", "read", "respond", "done"}]
    /\ ver \in [Procs -> Versions]
    /\ missing \in [Procs \cup {Before} -> SUBSET Routers]
    /\ hidden \in [Procs -> SUBSET Routers]
    /\ \A p \in Procs : Len(todo[p]) <= 2
    /\ key \in [Procs -> Routers \cup {NoRouter}]
    /\ errors \in 0 .. MaxErrors

\* However imports overlap, the nodes are those of one of them, as the unique index undoes
\* an import that would add to another's, and its links are there too.  What is there of
\* an import is all that it has read for that table (ImportRouterFromCSV, ImportDelayFromCSV).
ImportsAreWhole ==
    /\ \A x, y \in db.nodes : x[2] = y[2]
    /\ \A p \in Procs :
          /\ \A t \in Tables : {r \in db[t] : r[2] = p} \in {{}, Rows(ver[p], t, p)}
          /\ (\E r \in db.nodes : r[2] = p) => Rows(ver[p], "links", p) \subseteq db.links

\* The routers whose files could not be opened by an import that was committed.
Unread == UNION {missing[x] : x \in {Before} \cup {p \in Procs : pc[p] \in {"read", "respond", "done"}}}

\* While the files are of one version, a request shows only links in them, and all of them
\* but for files that a committed import, or the request itself without nodes in the tables,
\* could not open: also when imports overlap and leave rows twice, when one is undone, and
\* between the two reads (collectRouterDirectLinks, TopologyRouterLinksHandler).
OneVersionShown ==
    \A p \in Requests : (dir = 1 /\ pc[p] = "done") =>
        /\ shown[p] \subseteq CsvLinks(1, {})
        /\ CsvLinks(1, Unread \cup hidden[p]) \subseteq shown[p]

\* Every request is answered and every import ends: nobody waits for ever for the rows
\* or keys of another transaction.
EverybodyEnds == \A p \in Procs : <>(pc[p] = "done")
=============================================================================
