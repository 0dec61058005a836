------------------------ MODULE TopologyImportProofs ------------------------
(***************************************************************************)
(* For any processes, files and number of failures that ImportAssumption   *)
(* allows: the tables hold imports as a whole, the nodes those of one      *)
(* (ImportsStayWhole), and while the files are of one version a response   *)
(* shows only their links, and all of them but for files that an import or *)
(* the request could not read (FilesShown).                                *)
(*                                                                         *)
(* That a DELETE passes over what another transaction has deleted is safe  *)
(* because rows are found, deleted and committed an import at a time       *)
(* (AllWhole), and an import that has not committed is in nobody's rows    *)
(* (Unseen).  That two imports do not add up rests on the unique index: a  *)
(* key that a transaction has inserted is nobody else's (KeysHeld), and    *)
(* two versions of the files have a router in common, so what a commit     *)
(* leaves undeleted is nothing (CommitReplaces).  A request reads the      *)
(* tables at two moments; FirstVersion says what the first read still      *)
(* tells at the second.  v is the version of the rows that are there at    *)
(* first.                                                                  *)
(***************************************************************************)
EXTENDS TopologyImport, TLAPS

\* The import of p has not been committed.
Open == {"ensure", "parse", "delete", "deleting", "insert", "inserting", "commit"}

\* The tables that p imports.
OwnTables(p) == IF kind[p] = "router" THEN {"nodes", "links"} ELSE {"edges"}

Things  == UNION {Csv[v][t] : v \in Versions, t \in Tables}
AnyRows == Things \X (Procs \cup {Before})

Types ==
    /\ TypeOK
    /\ db \in [Tables -> SUBSET AnyRows]
    /\ snap \in [Procs -> SUBSET AnyRows]
    /\ dead \in [Procs -> [Tables -> SUBSET AnyRows]]
    /\ fresh \in [Procs -> [Tables -> SUBSET AnyRows]]
    /\ todo \in [Procs -> Seq(Tables)]
    /\ got \in [Procs -> [{"nodes", "links"} -> SUBSET Things]]
    /\ shown = [p \in Procs |-> shown[p]]

\* What p has still to delete or to read.
TodoShape(p) ==
    /\ (pc[p] \in {"delete", "deleting"} /\ kind[p] = "router") =>
           todo[p] \in {<<"links", "nodes">>, <<"nodes">>}
    /\ (pc[p] \in {"delete", "deleting"} /\ kind[p] = "edges") => todo[p] = <<"edges">>
    /\ pc[p] = "read" => todo[p] \in {ReadOrder, <<"links">>}
    /\ pc[p] \notin {"delete", "deleting", "read"} => todo[p] = <<>>

\* What p has found, deleted and inserted.
TxnShape(p) ==
    /\ pc[p] # "deleting" => snap[p] = {}
    /\ pc[p] \notin {"delete", "deleting", "insert", "inserting", "commit"} => dead[p] = NoRows
    /\ pc[p] \notin {"insert", "inserting", "commit"} => fresh[p] = NoRows
    /\ \A t \in Tables \ OwnTables(p) : dead[p][t] = {} /\ fresh[p][t] = {}
    /\ \A t \in Tables : fresh[p][t] \subseteq Rows(ver[p], t, p)
    /\ pc[p] = "inserting" => kind[p] = "router" /\ key[p] \in Csv[ver[p]].nodes
    /\ pc[p] = "commit" => \A t \in OwnTables(p) : fresh[p][t] = Rows(ver[p], t, p)
    /\ pc[p] # "commit" => fresh[p].links = {} /\ fresh[p].edges = {}

RequestShape(p) ==
    /\ pc[p] \in {"ensure", "read", "respond"} => p \in Requests
    /\ p \in Requests => kind[p] = "router"

Shape(p) == TodoShape(p) /\ TxnShape(p) /\ RequestShape(p)

Shapes == Types /\ \A p \in Procs : Shape(p)

-----------------------------------------------------------------------------
(* The shapes.                                                             *)

LEMMA InitShapes ==
    ASSUME ImportAssumption, Init
    PROVE  Shapes
<1>1. \A v \in Versions, t \in Tables : Csv[v][t] \subseteq Things
  <2>1. ASSUME NEW v \in Versions, NEW t \in Tables PROVE Csv[v][t] \in {Csv[w][u] : w \in Versions, u \in Tables}
      OBVIOUS
  <2> QED
      BY <2>1 DEF Things
<1>2. \A v \in Versions, t \in Tables : Rows(v, t, Before) \in SUBSET AnyRows
    BY <1>1 DEF Rows, Content, AnyRows
<1>3. db \in [Tables -> SUBSET AnyRows]
  <2>1. CASE db = NoRows
      BY <2>1 DEF NoRows
  <2>2. CASE \E v \in 1 .. dir : db = [t \in Tables |-> Rows(v, t, Before)]
      BY <1>2, <2>2 DEF Init, Versions
  <2> QED
      BY <2>1, <2>2 DEF Init
<1>a. PICK S \in SUBSET Routers :
         /\ missing = [p \in Procs \cup {Before} |-> IF p = Before THEN S ELSE {}]
         /\ errors = (IF S = {} THEN 0 ELSE 1) /\ errors <= MaxErrors
  <2>1. PICK v \in 1 .. dir : \E S \in MayMiss(v) :
           /\ missing = [p \in Procs \cup {Before} |-> IF p = Before THEN S ELSE {}]
           /\ errors = (IF S = {} THEN 0 ELSE 1) /\ errors <= MaxErrors
      BY DEF Init
  <2>2. v \in Versions
      BY <2>1 DEF Init, Versions
  <2>3. \A S \in MayMiss(v) : S \in SUBSET Routers
      BY <2>2 DEF MayMiss, ImportAssumption
  <2> QED
      BY <2>1, <2>3
<1>4. \A t \in Tables : \A row \in db[t] : row[2] \in Procs \cup {Before}
    BY <1>3 DEF AnyRows
<1>5. TypeOK
  <2>1. \A p \in Procs : Len(todo[p]) <= 2
      BY DEF Init
  <2>2. pc \in [Procs -> {"ensure", "parse"}]
      BY DEF Init
  <2>3. ver \in [Procs -> Versions] /\ key \in [Procs -> Routers \cup {NoRouter}]
      BY DEF Init
  <2>4. kind \in [Procs -> {"router", "edges"}] /\ dir \in Versions /\ errors \in 0 .. MaxErrors
    <3>1. MaxErrors \in Nat
        BY DEF ImportAssumption
    <3>2. errors \in {0, 1} /\ errors <= MaxErrors /\ dir \in Versions
        BY <1>a DEF Init
    <3>3. kind \in [Procs -> {"router", "edges"}]
        BY DEF Init
    <3> QED
        BY <3>1, <3>2, <3>3
  <2>5. missing \in [Procs \cup {Before} -> SUBSET Routers] /\ hidden \in [Procs -> SUBSET Routers]
      BY <1>a DEF Init
  <2> QED
      BY <1>4, <2>1, <2>2, <2>3, <2>4, <2>5 DEF TypeOK
<1>6. dead \in [Procs -> [Tables -> SUBSET AnyRows]] /\ fresh \in [Procs -> [Tables -> SUBSET AnyRows]]
    BY DEF Init, NoRows
<1>7. todo \in [Procs -> Seq(Tables)] /\ snap \in [Procs -> SUBSET AnyRows]
    BY DEF Init
<1>8. got \in [Procs -> [{"nodes", "links"} -> SUBSET Things]]
    BY DEF Init
<1>9. shown = [p \in Procs |-> shown[p]]
    BY DEF Init
<1>10. ASSUME NEW p \in Procs PROVE Shape(p)
  <2>1. /\ pc[p] = (IF p \in Requests THEN "ensure" ELSE "parse") /\ todo[p] = <<>> /\ snap[p] = {}
        /\ dead[p] = NoRows /\ fresh[p] = NoRows
        /\ p \in Requests => kind[p] = "router"
      BY DEF Init
  <2>2. \A t \in Tables : NoRows[t] = {}
      BY DEF NoRows
  <2>3. "links" \in Tables /\ "edges" \in Tables
      BY DEF Tables
  <2>4. TodoShape(p)
      BY <2>1 DEF TodoShape
  <2>5. TxnShape(p)
      BY <2>1, <2>2, <2>3 DEF TxnShape
  <2> QED
      BY <2>1, <2>4, <2>5 DEF Shape, RequestShape
<1> QED
    BY <1>3, <1>5, <1>6, <1>7, <1>8, <1>9, <1>10 DEF Shapes, Types

\* A process changes nothing that is another's.
Apart(q) ==
    /\ kind'[q] = kind[q] /\ pc'[q] = pc[q] /\ ver'[q] = ver[q] /\ todo'[q] = todo[q]
    /\ snap'[q] = snap[q] /\ dead'[q] = dead[q] /\ fresh'[q] = fresh[q] /\ key'[q] = key[q]
    /\ got'[q] = got[q] /\ shown'[q] = shown[q] /\ hidden'[q] = hidden[q]
    /\ missing'[q] = missing[q]

LEMMA OthersApart ==
    ASSUME Types, NEW p \in Procs, Step(p) \/ Fail(p), NEW q \in Procs \ {p}
    PROVE  Apart(q)
<1> USE DEF Types, TypeOK, Apart, Goto
<1>1. CASE EnsureRouterImported(p)
    BY <1>1 DEF EnsureRouterImported
<1>2. CASE ParseRouters(p) \/ ParseEdges(p)
    BY <1>2 DEF ParseRouters, ParseEdges, Parsed
<1>3. CASE Find(p)
    BY <1>3 DEF Find
<1>4. CASE Delete(p)
    BY <1>4 DEF Delete
<1>5. CASE PickNode(p)
    BY <1>5 DEF PickNode
<1>6. CASE InsertNode(p)
    BY <1>6 DEF InsertNode
<1>7. CASE InsertRest(p)
    BY <1>7 DEF InsertRest
<1>8. CASE /\ Ends(p) /\ UNCHANGED <<kind, ver, got, shown, hidden>>
           /\ missing' = missing \/ missing' = [missing EXCEPT ![p] = {}]
    BY <1>8 DEF Ends
<1>9. CASE ReadTable(p)
    BY <1>9 DEF ReadTable
<1>10. CASE Respond(p)
    BY <1>10 DEF Respond, FromDB, FromCSV, FromNothing, Answer, txn
<1> QED
    BY <1>1, <1>2, <1>3, <1>4, <1>5, <1>6, <1>7, <1>8, <1>9, <1>10
    DEF Step, Fail, Commit, DuplicateKey, BreakDeadlock, Rollback

LEMMA ApartShape ==
    ASSUME NEW q \in Procs, Shape(q), Apart(q)
    PROVE  Shape(q)'
<1>1. TodoShape(q)'
    BY DEF Shape, Apart, TodoShape
<1>2. TxnShape(q)'
    BY DEF Shape, Apart, TxnShape, OwnTables, Rows
<1>3. RequestShape(q)'
    BY DEF Shape, Apart, RequestShape
<1> QED
    BY <1>1, <1>2, <1>3 DEF Shape

\* The states of a process.
ImportPC == {"ensure", "parse", "delete", "deleting", "insert", "inserting", "commit", "read",
             "respond", "done"}

\* Types in the form in which the steps need them.
LEMMA TypesUsed ==
    ASSUME Types
    PROVE  /\ dir \in Versions
           /\ missing \in [Procs \cup {Before} -> SUBSET Routers]
           /\ hidden \in [Procs -> SUBSET Routers]
           /\ kind \in [Procs -> {"router", "edges"}] /\ pc \in [Procs -> ImportPC]
           /\ ver \in [Procs -> Versions] /\ key \in [Procs -> Routers \cup {NoRouter}]
           /\ snap \in [Procs -> SUBSET AnyRows] /\ todo \in [Procs -> Seq(Tables)]
           /\ dead \in [Procs -> [Tables -> SUBSET AnyRows]]
           /\ fresh \in [Procs -> [Tables -> SUBSET AnyRows]]
           /\ got \in [Procs -> [{"nodes", "links"} -> SUBSET Things]]
           /\ \A t \in Tables : db[t] \subseteq AnyRows
           /\ \A p \in Procs, t \in Tables : dead[p][t] \subseteq AnyRows /\ fresh[p][t] \subseteq AnyRows
BY DEF Types, TypeOK, ImportPC

LEMMA RowsTyped ==
    ASSUME NEW v \in Versions, NEW t \in Tables, NEW p \in Procs \cup {Before}
    PROVE  Rows(v, t, p) \subseteq AnyRows
<1>1. Csv[v][t] \in {Csv[w][u] : w \in Versions, u \in Tables}
    OBVIOUS
<1>2. Csv[v][t] \subseteq Things
    BY <1>1 DEF Things
<1> QED
    BY <1>2 DEF Rows, Content, AnyRows

\* A file that cannot be opened is one failure.
LEMMA UnopenedTyped ==
    ASSUME ImportAssumption, Types, NEW S, Unopened(S)
    PROVE  errors' \in 0 .. MaxErrors
BY DEF ImportAssumption, Types, TypeOK, Unopened

\* The first steps of an import.
LEMMA BeginShapes ==
    ASSUME ImportAssumption, Types, NEW p \in Procs, Shape(p),
           EnsureRouterImported(p) \/ ParseRouters(p) \/ ParseEdges(p)
    PROVE  Types' /\ Shape(p)'
<1> USE TypesUsed
<1>1. CASE EnsureRouterImported(p)
  <2>1. /\ pc[p] = "ensure"
        /\ \/ pc' = [pc EXCEPT ![p] = "parse"] /\ todo' = todo
           \/ pc' = [pc EXCEPT ![p] = "read"] /\ todo' = [todo EXCEPT ![p] = ReadOrder]
        /\ UNCHANGED <<db, dir, kind, ver, missing, snap, dead, fresh, key, got, shown, hidden, errors>>
      BY <1>1 DEF EnsureRouterImported, Goto
  <2>2. ReadOrder \in Seq(Tables) /\ Len(ReadOrder) = 2
      BY DEF ReadOrder, Tables
  <2>a. todo' \in [Procs -> Seq(Tables)]
      BY <2>1, <2>2
  <2>b. \A q \in Procs : Len(todo[q]) <= 2
      BY DEF Types, TypeOK
  <2>3. todo' \in [Procs -> Seq(Tables)] /\ pc' \in [Procs -> ImportPC]
      BY <2>1, <2>a DEF ImportPC
  <2>4. \A q \in Procs : todo'[q] = todo[q] \/ todo'[q] = ReadOrder
      BY <2>1
  <2>5. \A q \in Procs : Len(todo'[q]) <= 2
    <3> SUFFICES ASSUME NEW q \in Procs PROVE Len(todo'[q]) <= 2
        OBVIOUS
    <3>1. CASE todo'[q] = todo[q]
        BY <2>b, <3>1
    <3>2. CASE todo'[q] = ReadOrder
      <4>1. Len(todo'[q]) = 2
          BY <2>2, <3>2, Zenon
      <4> QED
          BY <4>1
    <3> QED
        BY <2>4, <3>1, <3>2
  <2>6. Types'
      BY <2>1, <2>3, <2>5 DEF Types, TypeOK, ImportPC
  <2>7. TodoShape(p)'
      BY <2>1 DEF Shape, TodoShape
  <2>8. TxnShape(p)'
      BY <2>1 DEF Shape, TxnShape, OwnTables, Rows
  <2>9. RequestShape(p)'
      BY <2>1 DEF Shape, RequestShape
  <2> QED
      BY <2>6, <2>7, <2>8, <2>9 DEF Shape
<1>2. CASE ParseRouters(p) \/ ParseEdges(p)
  <2>1. PICK tables \in Seq(Tables), S \in SUBSET Csv[dir].nodes :
          /\ tables = (IF kind[p] = "router" THEN <<"links", "nodes">> ELSE <<"edges">>)
          /\ Parsed(p, tables, S)
    <3>1. <<"links", "nodes">> \in Seq(Tables) /\ <<"edges">> \in Seq(Tables)
        BY DEF Tables
    <3> QED
        BY <1>2, <3>1 DEF ParseRouters, ParseEdges, MayMiss
  <2>2. /\ pc[p] = "parse" /\ pc' = [pc EXCEPT ![p] = "delete"]
        /\ ver' = [ver EXCEPT ![p] = dir] /\ todo' = [todo EXCEPT ![p] = tables]
        /\ missing' = [missing EXCEPT ![p] = S]
        /\ UNCHANGED <<db, dir, kind, snap, dead, fresh, key, got, shown, hidden>>
      BY <2>1 DEF Parsed, Goto
  <2>a. errors' \in 0 .. MaxErrors
      BY <2>1, UnopenedTyped DEF Parsed
  <2>b. missing' \in [Procs \cup {Before} -> SUBSET Routers]
      BY <2>2 DEF ImportAssumption
  <2>3. Len(tables) <= 2
      BY <2>1
  <2>4. ver' \in [Procs -> Versions] /\ todo' \in [Procs -> Seq(Tables)] /\ pc' \in [Procs -> ImportPC]
      BY <2>2 DEF ImportPC
  <2>5. \A q \in Procs : todo'[q] = todo[q] \/ todo'[q] = tables
      BY <2>2
  <2>6. \A q \in Procs : Len(todo'[q]) <= 2
      BY <2>3, <2>5 DEF Types, TypeOK
  <2>7. Types'
      BY <2>2, <2>a, <2>b, <2>4, <2>6 DEF Types, TypeOK, ImportPC
  <2>8. TodoShape(p)'
      BY <2>1, <2>2 DEF TodoShape
  <2>9. fresh[p] = NoRows
      BY <2>2 DEF Shape, TxnShape
  <2>10. \A t \in Tables : fresh'[p][t] = {}
      BY <2>2, <2>9 DEF NoRows
  <2>11. TxnShape(p)'
      BY <2>2, <2>9, <2>10 DEF Shape, TxnShape, OwnTables, Rows, Tables
  <2>12. RequestShape(p)'
      BY <2>2 DEF Shape, RequestShape
  <2> QED
      BY <2>7, <2>8, <2>11, <2>12 DEF Shape
<1> QED
    BY <1>1, <1>2

\* The DELETE statements.
LEMMA DeleteShapes ==
    ASSUME Types, NEW p \in Procs, Shape(p), Find(p) \/ Delete(p)
    PROVE  Types' /\ Shape(p)'
<1> USE TypesUsed
<1>0. PICK t \in Tables : t = Head(todo[p]) /\ t \in OwnTables(p)
  <2>1. pc[p] \in {"delete", "deleting"}
      BY DEF Find, Delete
  <2>2. kind[p] \in {"router", "edges"}
      OBVIOUS
  <2>3. CASE kind[p] = "router"
      BY <2>1, <2>3 DEF Shape, TodoShape, OwnTables, Tables
  <2>4. CASE kind[p] = "edges"
      BY <2>1, <2>4 DEF Shape, TodoShape, OwnTables, Tables
  <2> QED
      BY <2>2, <2>3, <2>4
<1>1. CASE Find(p)
  <2>1. /\ pc[p] = "delete" /\ pc' = [pc EXCEPT ![p] = "deleting"]
        /\ snap' = [snap EXCEPT ![p] = db[t]]
        /\ UNCHANGED <<db, dir, kind, ver, missing, todo, dead, fresh, key, got, shown, hidden, errors>>
      BY <1>0, <1>1 DEF Find, Goto
  <2>2. snap' \in [Procs -> SUBSET AnyRows] /\ pc' \in [Procs -> ImportPC]
      BY <2>1 DEF ImportPC
  <2>3. Types'
      BY <2>1, <2>2 DEF Types, TypeOK, ImportPC
  <2>4. TodoShape(p)'
      BY <2>1 DEF Shape, TodoShape
  <2>5. TxnShape(p)'
      BY <2>1 DEF Shape, TxnShape, OwnTables, Rows
  <2>6. RequestShape(p)'
      BY <2>1 DEF Shape, RequestShape
  <2> QED
      BY <2>3, <2>4, <2>5, <2>6 DEF Shape
<1>2. CASE Delete(p)
  <2>1. /\ pc[p] = "deleting"
        /\ pc' = [pc EXCEPT ![p] = IF Len(todo[p]) > 1 THEN "delete" ELSE "insert"]
        /\ dead' = [dead EXCEPT ![p][t] = snap[p] \cap db[t]]
        /\ snap' = [snap EXCEPT ![p] = {}]
        /\ todo' = [todo EXCEPT ![p] = Tail(todo[p])]
        /\ UNCHANGED <<db, dir, kind, ver, missing, fresh, key, got, shown, hidden, errors>>
      BY <1>0, <1>2 DEF Delete, Goto
  <2>2. todo[p] \in {<<"links", "nodes">>, <<"nodes">>, <<"edges">>}
      BY <2>1 DEF Shape, TodoShape
  <2>3. /\ todo[p] = <<"links", "nodes">> => Len(todo[p]) > 1 /\ Tail(todo[p]) = <<"nodes">>
        /\ todo[p] # <<"links", "nodes">> => ~(Len(todo[p]) > 1) /\ Tail(todo[p]) = <<>>
    <3>1. Len(<<"links", "nodes">>) = 2 /\ Tail(<<"links", "nodes">>) = <<"nodes">>
        OBVIOUS
    <3>2. Len(<<"nodes">>) = 1 /\ Tail(<<"nodes">>) = <<>>
        OBVIOUS
    <3>3. Len(<<"edges">>) = 1 /\ Tail(<<"edges">>) = <<>>
        OBVIOUS
    <3>4. CASE todo[p] = <<"links", "nodes">>
        BY <3>1, <3>4
    <3>5. CASE todo[p] = <<"nodes">>
        BY <3>2, <3>5
    <3>6. CASE todo[p] = <<"edges">>
        BY <3>3, <3>6
    <3> QED
        BY <2>2, <3>4, <3>5, <3>6
  <2>4. Tail(todo[p]) \in Seq(Tables) /\ Len(Tail(todo[p])) <= 2
    <3>1. <<"nodes">> \in Seq(Tables) /\ <<>> \in Seq(Tables)
        BY DEF Tables
    <3>2. Len(<<"nodes">>) = 1 /\ Len(<<>>) = 0
        OBVIOUS
    <3>3. Tail(todo[p]) = <<"nodes">> \/ Tail(todo[p]) = <<>>
        BY <2>3, Zenon
    <3>4. Tail(todo[p]) \in Seq(Tables) /\ (Len(Tail(todo[p])) = 1 \/ Len(Tail(todo[p])) = 0)
        BY <3>1, <3>2, <3>3, Zenon
    <3>5. 0 <= 2 /\ 1 <= 2
        OBVIOUS
    <3> QED
        BY <3>4, <3>5, Zenon
  <2>5. snap[p] \cap db[t] \subseteq AnyRows
      OBVIOUS
  <2>6. dead' \in [Procs -> [Tables -> SUBSET AnyRows]]
      BY <2>1, <2>5
  <2>7. snap' \in [Procs -> SUBSET AnyRows] /\ todo' \in [Procs -> Seq(Tables)]
      BY <2>1, <2>4
  <2>8. \A q \in Procs : todo'[q] = todo[q] \/ todo'[q] = Tail(todo[p])
      BY <2>1
  <2>9. \A q \in Procs : Len(todo'[q]) <= 2
      BY <2>4, <2>8 DEF Types, TypeOK
  <2>10. pc' \in [Procs -> ImportPC]
      BY <2>1 DEF ImportPC
  <2>11. Types'
      BY <2>1, <2>6, <2>7, <2>9, <2>10 DEF Types, TypeOK, ImportPC
  <2>12. pc'[p] \in {"delete", "insert"} /\ todo'[p] = Tail(todo[p])
         /\ (pc'[p] = "delete" <=> todo[p] = <<"links", "nodes">>)
      BY <2>1, <2>3
  <2>13. TodoShape(p)'
    <3>1. kind[p] = "edges" => todo[p] = <<"edges">>
        BY <2>1 DEF Shape, TodoShape
    <3>2. <<"links", "nodes">> # <<"edges">>
        OBVIOUS
    <3> QED
        BY <2>1, <2>3, <2>12, <3>1, <3>2 DEF TodoShape
  <2>14. \A u \in Tables \ OwnTables(p) : dead'[p][u] = dead[p][u]
      BY <1>0, <2>1
  <2>15. snap'[p] = {}
      BY <2>1
  <2>16. TxnShape(p)'
      BY <2>1, <2>12, <2>14, <2>15 DEF Shape, TxnShape, OwnTables, Rows
  <2>17. RequestShape(p)'
      BY <2>1, <2>12 DEF Shape, RequestShape
  <2> QED
      BY <2>11, <2>13, <2>16, <2>17 DEF Shape
<1> QED
    BY <1>1, <1>2
\* The INSERT statements.
LEMMA InsertShapes ==
    ASSUME ImportAssumption, Types, NEW p \in Procs, Shape(p),
           PickNode(p) \/ InsertNode(p) \/ InsertRest(p)
    PROVE  Types' /\ Shape(p)'
<1> USE TypesUsed
<1>0. "nodes" \in Tables /\ "links" \in Tables /\ "edges" \in Tables
    BY DEF Tables
<1>1. CASE PickNode(p)
  <2>1. PICK r \in Csv[ver[p]].nodes :
          /\ pc[p] = "insert" /\ pc' = [pc EXCEPT ![p] = "inserting"]
          /\ kind[p] = "router"
          /\ key' = [key EXCEPT ![p] = r]
          /\ UNCHANGED <<db, dir, kind, ver, missing, todo, snap, dead, fresh, got, shown, hidden, errors>>
      BY <1>1 DEF PickNode, Goto
  <2>2. r \in Routers
      BY <2>1 DEF ImportAssumption
  <2>3. key' \in [Procs -> Routers \cup {NoRouter}] /\ pc' \in [Procs -> ImportPC]
      BY <2>1, <2>2 DEF ImportPC
  <2>4. Types'
      BY <2>1, <2>3 DEF Types, TypeOK, ImportPC
  <2>5. TodoShape(p)'
      BY <2>1 DEF Shape, TodoShape
  <2>6. TxnShape(p)'
      BY <2>1 DEF Shape, TxnShape, OwnTables, Rows
  <2>7. RequestShape(p)'
      BY <2>1 DEF Shape, RequestShape
  <2> QED
      BY <2>4, <2>5, <2>6, <2>7 DEF Shape
<1>2. CASE InsertNode(p)
  <2>1. /\ pc[p] = "inserting" /\ pc' = [pc EXCEPT ![p] = "insert"]
        /\ fresh' = [fresh EXCEPT ![p].nodes = @ \cup {<<key[p], p>>}]
        /\ key' = [key EXCEPT ![p] = NoRouter]
        /\ UNCHANGED <<db, dir, kind, ver, missing, todo, snap, dead, got, shown, hidden, errors>>
      BY <1>2 DEF InsertNode, Goto
  <2>2. kind[p] = "router" /\ key[p] \in Csv[ver[p]].nodes
      BY <2>1 DEF Shape, TxnShape
  <2>3. <<key[p], p>> \in Rows(ver[p], "nodes", p)
      BY <2>2 DEF Rows, Content
  <2>a. Rows(ver[p], "nodes", p) \subseteq AnyRows
      BY <1>0, RowsTyped
  <2>b. fresh[p].nodes \subseteq AnyRows
      BY <1>0
  <2>4. fresh[p].nodes \cup {<<key[p], p>>} \subseteq AnyRows
      BY <2>3, <2>a, <2>b
  <2>5. fresh' \in [Procs -> [Tables -> SUBSET AnyRows]] /\ pc' \in [Procs -> ImportPC]
      BY <1>0, <2>1, <2>4 DEF ImportPC
  <2>6. key' \in [Procs -> Routers \cup {NoRouter}]
      BY <2>1
  <2>7. Types'
      BY <2>1, <2>5, <2>6 DEF Types, TypeOK, ImportPC
  <2>8. TodoShape(p)'
      BY <2>1 DEF Shape, TodoShape
  <2>9. /\ fresh'[p].nodes = fresh[p].nodes \cup {<<key[p], p>>}
        /\ \A u \in Tables \ {"nodes"} : fresh'[p][u] = fresh[p][u]
      BY <1>0, <2>1
  <2>10. \A u \in Tables : fresh'[p][u] \subseteq Rows(ver[p], u, p)
      BY <2>3, <2>9 DEF Shape, TxnShape
  <2>11. "nodes" \in OwnTables(p)
      BY <2>2 DEF OwnTables
  <2>12. TxnShape(p)'
      BY <1>0, <2>1, <2>9, <2>10, <2>11 DEF Shape, TxnShape, OwnTables, Rows
  <2>13. RequestShape(p)'
      BY <2>1 DEF Shape, RequestShape
  <2> QED
      BY <2>7, <2>8, <2>12, <2>13 DEF Shape
<1>3. CASE InsertRest(p)
  <2>1. PICK t \in Tables :
          /\ t = (IF kind[p] = "router" THEN "links" ELSE "edges")
          /\ pc[p] = "insert" /\ pc' = [pc EXCEPT ![p] = "commit"]
          /\ kind[p] = "router" => What(fresh[p].nodes) = Csv[ver[p]].nodes
          /\ fresh' = [fresh EXCEPT ![p][t] = Rows(ver[p], t, p)]
          /\ UNCHANGED <<db, dir, kind, ver, missing, todo, snap, dead, key, got, shown, hidden, errors>>
      BY <1>0, <1>3 DEF InsertRest, Goto
  <2>2. Rows(ver[p], t, p) \subseteq AnyRows
      BY RowsTyped
  <2>3. fresh' \in [Procs -> [Tables -> SUBSET AnyRows]] /\ pc' \in [Procs -> ImportPC]
      BY <2>1, <2>2 DEF ImportPC
  <2>4. Types'
      BY <2>1, <2>3 DEF Types, TypeOK, ImportPC
  <2>5. \A u \in Tables : fresh'[p][u] = IF u = t THEN Rows(ver[p], t, p) ELSE fresh[p][u]
      BY <2>1
  <2>6. TodoShape(p)'
      BY <2>1 DEF Shape, TodoShape
  <2>7. kind[p] = "router" => fresh[p].nodes = Rows(ver[p], "nodes", p)
    <3> SUFFICES ASSUME kind[p] = "router" PROVE Rows(ver[p], "nodes", p) \subseteq fresh[p].nodes
        BY <1>0 DEF Shape, TxnShape
    <3> SUFFICES ASSUME NEW row \in Rows(ver[p], "nodes", p) PROVE row \in fresh[p].nodes
        OBVIOUS
    <3>1. PICK r \in Csv[ver[p]].nodes : row = <<r, p>>
        BY DEF Rows, Content
    <3>a. r \in What(fresh[p].nodes)
        BY <2>1, <3>1
    <3>2. PICK x \in fresh[p].nodes : x[1] = r
        BY <3>a DEF What
    <3>3. x \in Rows(ver[p], "nodes", p)
        BY <1>0, <3>2 DEF Shape, TxnShape
    <3>4. x = <<r, p>>
        BY <3>2, <3>3 DEF Rows
    <3> QED
        BY <3>1, <3>2, <3>4
  <2>8. \A u \in OwnTables(p) : fresh'[p][u] = Rows(ver[p], u, p)
    <3>1. CASE kind[p] = "router"
        BY <1>0, <2>1, <2>5, <2>7, <3>1 DEF OwnTables
    <3>2. CASE kind[p] # "router"
        BY <1>0, <2>1, <2>5, <3>2 DEF OwnTables
    <3> QED
        BY <3>1, <3>2
  <2>9. \A u \in Tables \ OwnTables(p) : fresh'[p][u] = fresh[p][u]
      BY <2>1, <2>5 DEF OwnTables
  <2>10. \A u \in Tables : fresh'[p][u] \subseteq Rows(ver[p], u, p)
      BY <2>5 DEF Shape, TxnShape
  <2>11. TxnShape(p)'
      BY <2>1, <2>8, <2>9, <2>10 DEF Shape, TxnShape, OwnTables, Rows
  <2>12. RequestShape(p)'
      BY <2>1 DEF Shape, RequestShape
  <2> QED
      BY <2>4, <2>6, <2>11, <2>12 DEF Shape
<1> QED
    BY <1>1, <1>2, <1>3

\* A transaction ends.
LEMMA EndShapes ==
    ASSUME ImportAssumption, Types, NEW p \in Procs, Shape(p),
           Commit(p) \/ DuplicateKey(p) \/ BreakDeadlock(p) \/ Fail(p)
    PROVE  Types' /\ Shape(p)'
<1> USE TypesUsed
<1>1. /\ Ends(p)
      /\ db' \in [Tables -> SUBSET AnyRows]
      /\ errors' \in 0 .. MaxErrors
      /\ missing' \in [Procs \cup {Before} -> SUBSET Routers]
      /\ UNCHANGED <<dir, kind, ver, got, shown, hidden>>
  <2>1. errors \in 0 .. MaxErrors /\ MaxErrors \in Nat
      BY DEF Types, TypeOK, ImportAssumption
  <2>2. ASSUME Commit(p) PROVE db' \in [Tables -> SUBSET AnyRows]
    <3>1. db' = [t \in Tables |-> (db[t] \ dead[p][t]) \cup fresh[p][t]]
        BY <2>2 DEF Commit
    <3>2. \A t \in Tables : (db[t] \ dead[p][t]) \cup fresh[p][t] \subseteq AnyRows
        OBVIOUS
    <3> QED
        BY <3>1, <3>2
  <2>3. db \in [Tables -> SUBSET AnyRows]
      BY DEF Types
  <2>4. [missing EXCEPT ![p] = {}] \in [Procs \cup {Before} -> SUBSET Routers]
      OBVIOUS
  <2>5. CASE Commit(p)
      BY <2>1, <2>2, <2>5 DEF Commit
  <2>6. CASE Rollback(p) /\ errors' \in 0 .. MaxErrors
      BY <2>3, <2>4, <2>6 DEF Rollback
  <2> QED
      BY <2>1, <2>5, <2>6 DEF DuplicateKey, BreakDeadlock, Fail
<1>2. /\ pc' = [pc EXCEPT ![p] = IF p \in Requests THEN "read" ELSE "done"]
      /\ todo' = [todo EXCEPT ![p] = IF p \in Requests THEN ReadOrder ELSE <<>>]
      /\ snap' = [snap EXCEPT ![p] = {}]
      /\ dead' = [dead EXCEPT ![p] = NoRows]
      /\ fresh' = [fresh EXCEPT ![p] = NoRows]
      /\ key' = [key EXCEPT ![p] = NoRouter]
    BY <1>1 DEF Ends, Goto
<1>3. NoRows \in [Tables -> SUBSET AnyRows] /\ \A t \in Tables : NoRows[t] = {}
    BY DEF NoRows
<1>4. /\ pc' \in [Procs -> ImportPC] /\ snap' \in [Procs -> SUBSET AnyRows]
      /\ dead' \in [Procs -> [Tables -> SUBSET AnyRows]]
      /\ fresh' \in [Procs -> [Tables -> SUBSET AnyRows]]
      /\ key' \in [Procs -> Routers \cup {NoRouter}]
    BY <1>2, <1>3 DEF ImportPC
<1>5. ReadOrder \in Seq(Tables) /\ Len(ReadOrder) = 2 /\ <<>> \in Seq(Tables) /\ Len(<<>>) = 0
    BY DEF ReadOrder, Tables
<1>6. todo' \in [Procs -> Seq(Tables)]
    BY <1>2, <1>5
<1>7. \A q \in Procs : Len(todo'[q]) <= 2
  <2> SUFFICES ASSUME NEW q \in Procs PROVE Len(todo'[q]) <= 2
      OBVIOUS
  <2>1. todo'[q] = todo[q] \/ todo'[q] = ReadOrder \/ todo'[q] = <<>>
      BY <1>2
  <2>2. Len(todo[q]) <= 2 /\ 2 <= 2 /\ 0 <= 2
      BY DEF Types, TypeOK
  <2> QED
      BY <1>5, <2>1, <2>2, Zenon
<1>8. \A t \in Tables : \A row \in db'[t] : row[2] \in Procs \cup {Before}
    BY <1>1 DEF AnyRows
<1>9. Types'
    BY <1>1, <1>2, <1>4, <1>6, <1>7, <1>8 DEF Types, TypeOK, ImportPC
<1>10. /\ pc'[p] = (IF p \in Requests THEN "read" ELSE "done")
       /\ todo'[p] = (IF p \in Requests THEN ReadOrder ELSE <<>>)
       /\ snap'[p] = {} /\ dead'[p] = NoRows /\ fresh'[p] = NoRows
    BY <1>2
<1>11. TodoShape(p)'
    BY <1>10 DEF TodoShape
<1>12. TxnShape(p)'
  <2>1. \A t \in Tables : dead'[p][t] = {} /\ fresh'[p][t] = {}
      BY <1>3, <1>10
  <2>2. "links" \in Tables /\ "edges" \in Tables
      BY DEF Tables
  <2> QED
      BY <1>10, <2>1, <2>2 DEF TxnShape
<1>13. RequestShape(p)'
    BY <1>1, <1>10 DEF Shape, RequestShape
<1> QED
    BY <1>9, <1>11, <1>12, <1>13 DEF Shape

\* The steps of a request.
LEMMA RequestShapes ==
    ASSUME ImportAssumption, Types, NEW p \in Procs, Shape(p), ReadTable(p) \/ Respond(p)
    PROVE  Types' /\ Shape(p)'
<1> USE TypesUsed
<1>0. "nodes" \in Tables /\ "links" \in Tables /\ "edges" \in Tables
    BY DEF Tables
<1>1. CASE ReadTable(p)
  <2>1. PICK t \in {"nodes", "links"} :
          /\ t = Head(todo[p])
          /\ pc[p] = "read"
          /\ pc' = [pc EXCEPT ![p] = IF t = "nodes" THEN "read" ELSE "respond"]
          /\ got' = [got EXCEPT ![p][t] = What(db[t])]
          /\ todo' = [todo EXCEPT ![p] = IF t = "nodes" THEN <<"links">> ELSE <<>>]
          /\ UNCHANGED <<db, dir, kind, ver, missing, snap, dead, fresh, key, shown, hidden, errors>>
    <3>1. todo[p] \in {ReadOrder, <<"links">>}
        BY <1>1 DEF ReadTable, Shape, TodoShape
    <3>2. ReadOrder = <<"nodes", "links">>
        BY DEF ReadOrder
    <3>3. CASE todo[p] = <<"nodes", "links">>
      <4>1. Head(todo[p]) = "nodes" /\ Tail(todo[p]) = <<"links">> /\ Len(todo[p]) > 1
          BY <3>3
      <4> QED
          BY <1>1, <4>1 DEF ReadTable, Goto
    <3>4. CASE todo[p] = <<"links">>
      <4>1. Head(todo[p]) = "links" /\ Tail(todo[p]) = <<>> /\ ~(Len(todo[p]) > 1)
          BY <3>4
      <4> QED
          BY <1>1, <4>1 DEF ReadTable, Goto
    <3> QED
        BY <3>1, <3>2, <3>3, <3>4
  <2>2. What(db[t]) \subseteq Things
      BY <1>0 DEF What, AnyRows
  <2>3. got' \in [Procs -> [{"nodes", "links"} -> SUBSET Things]] /\ pc' \in [Procs -> ImportPC]
      BY <2>1, <2>2 DEF ImportPC
  <2>4. <<"links">> \in Seq(Tables) /\ Len(<<"links">>) = 1 /\ <<>> \in Seq(Tables) /\ Len(<<>>) = 0
      BY <1>0
  <2>5. todo' \in [Procs -> Seq(Tables)]
      BY <2>1, <2>4
  <2>6. \A q \in Procs : Len(todo'[q]) <= 2
    <3> SUFFICES ASSUME NEW q \in Procs PROVE Len(todo'[q]) <= 2
        OBVIOUS
    <3>1. todo'[q] = todo[q] \/ todo'[q] = <<"links">> \/ todo'[q] = <<>>
        BY <2>1
    <3>2. Len(todo[q]) <= 2 /\ 1 <= 2 /\ 0 <= 2
        BY DEF Types, TypeOK
    <3> QED
        BY <2>4, <3>1, <3>2, Zenon
  <2>7. Types'
      BY <2>1, <2>3, <2>5, <2>6 DEF Types, TypeOK, ImportPC
  <2>8. pc'[p] = (IF t = "nodes" THEN "read" ELSE "respond")
        /\ todo'[p] = (IF t = "nodes" THEN <<"links">> ELSE <<>>)
      BY <2>1
  <2>9. TodoShape(p)'
      BY <2>8 DEF TodoShape
  <2>10. TxnShape(p)'
      BY <2>1, <2>8 DEF Shape, TxnShape, OwnTables, Rows
  <2>11. RequestShape(p)'
      BY <2>1, <2>8 DEF Shape, RequestShape
  <2> QED
      BY <2>7, <2>9, <2>10, <2>11 DEF Shape
<1>2. CASE Respond(p)
  <2>1. /\ pc[p] = "respond" /\ pc' = [pc EXCEPT ![p] = "done"]
        /\ shown' = [shown EXCEPT ![p] = shown'[p]]
        /\ hidden' \in [Procs -> SUBSET Routers]
        /\ UNCHANGED <<db, dir, kind, ver, missing, todo, snap, dead, fresh, key, got>>
    <3>1. shown = [q \in Procs |-> shown[q]]
        BY DEF Types
    <3>2. Csv[dir].nodes \in SUBSET Routers
        BY DEF ImportAssumption
    <3>3. PICK ls, S : Answer(p, ls, S) /\ S \in SUBSET Routers
        BY <1>2, <3>2 DEF Respond, FromDB, FromCSV, FromNothing, MayMiss
    <3> QED
        BY <3>1, <3>3 DEF Answer, Goto, txn
  <2>a. errors' \in 0 .. MaxErrors
    <3>1. errors \in 0 .. MaxErrors /\ MaxErrors \in Nat
        BY DEF Types, TypeOK, ImportAssumption
    <3> QED
        BY <1>2, <3>1 DEF Respond, FromDB, FromCSV, FromNothing, Unopened
  <2>2. shown' = [q \in Procs |-> shown'[q]]
      BY <2>1 DEF Types
  <2>3. pc' \in [Procs -> ImportPC]
      BY <2>1 DEF ImportPC
  <2>4. Types'
      BY <2>1, <2>2, <2>3, <2>a DEF Types, TypeOK, ImportPC
  <2>5. TodoShape(p)'
      BY <2>1 DEF Shape, TodoShape
  <2>6. TxnShape(p)'
      BY <2>1 DEF Shape, TxnShape, OwnTables, Rows
  <2>7. RequestShape(p)'
      BY <2>1 DEF Shape, RequestShape
  <2> QED
      BY <2>4, <2>5, <2>6, <2>7 DEF Shape
<1> QED
    BY <1>1, <1>2

\* New files in the directory, or nothing.
LEMMA SyncShapes ==
    ASSUME Shapes, SyncFiles \/ UNCHANGED vars
    PROVE  Shapes'
<1>1. /\ UNCHANGED <<db, kind, pc, ver, missing, todo, snap, dead, fresh, key, got, shown, hidden, errors>>
      /\ dir' \in Versions
  <2>1. CASE SyncFiles
      BY <2>1 DEF SyncFiles, txn, Shapes, Types, TypeOK, Versions
  <2>2. CASE UNCHANGED vars
      BY <2>2 DEF vars, txn, Shapes, Types, TypeOK
  <2> QED
      BY <2>1, <2>2
<1>2. Types'
    BY <1>1 DEF Shapes, Types, TypeOK
<1>3. ASSUME NEW q \in Procs PROVE Shape(q)'
    BY <1>1, <1>3, ApartShape DEF Shapes, Apart
<1> QED
    BY <1>2, <1>3 DEF Shapes

LEMMA ShapesStep ==
    ASSUME ImportAssumption, Shapes, [Next]_vars
    PROVE  Shapes'
<1>1. ASSUME NEW p \in Procs, Step(p) \/ Fail(p) PROVE Shapes'
  <2>1. Types /\ Shape(p)
      BY DEF Shapes
  <2>2. Types' /\ Shape(p)'
      BY <1>1, <2>1, BeginShapes, DeleteShapes, InsertShapes, EndShapes, RequestShapes DEF Step
  <2>3. \A q \in Procs \ {p} : Apart(q)
      BY <1>1, <2>1, OthersApart
  <2>4. \A q \in Procs \ {p} : Shape(q)'
      BY <2>3, ApartShape DEF Shapes
  <2> QED
      BY <2>2, <2>4 DEF Shapes
<1> QED
    BY <1>1, SyncShapes DEF Next

-----------------------------------------------------------------------------
(* Imports are there as a whole.                                           *)

RowsOf(S, x) == {row \in S : row[2] = x}

\* Nothing of the import by p is to be seen.
NothingOf(p) ==
    /\ \A t \in Tables : RowsOf(db[t], p) = {}
    /\ \A q \in Procs : RowsOf(snap[q], p) = {} /\ \A t \in Tables : RowsOf(dead[q][t], p) = {}

\* What has not been committed has not been seen.
Unseen == \A p \in Procs : pc[p] \in Open => NothingOf(p)

\* A transaction that is undone, and a step that is about no row.
Undone(p) == Ends(p) /\ UNCHANGED <<db, dir, kind, ver, got, shown, hidden>>
NoRow     == UNCHANGED <<db, dir, kind, snap, dead, fresh>>

LEMMA RowSteps ==
    ASSUME NEW p \in Procs, Step(p) \/ Fail(p)
    PROVE  Find(p) \/ Delete(p) \/ InsertNode(p) \/ InsertRest(p) \/ Commit(p) \/ Undone(p) \/ NoRow
BY DEF Step, Fail, EnsureRouterImported, ParseRouters, ParseEdges, Parsed, PickNode, DuplicateKey,
       BreakDeadlock, Rollback, ReadTable, Respond, FromDB, FromCSV, FromNothing, Answer,
       Undone, NoRow, txn

\* What a step of p does to the rows.
LEMMA RowsMoved ==
    ASSUME Types, NEW p \in Procs, Step(p) \/ Fail(p)
    PROVE  /\ db' # db => Commit(p)
           /\ \/ snap'[p] = {} \/ snap'[p] = snap[p]
              \/ Find(p) /\ snap'[p] = db[Head(todo[p])]
           /\ \A t \in Tables :
                 \/ dead'[p][t] = {} \/ dead'[p][t] = dead[p][t]
                 \/ Delete(p) /\ t = Head(todo[p]) /\ dead'[p][t] = snap[p] \cap db[t]
<1> USE TypesUsed
<1>1. CASE Find(p)
    BY <1>1 DEF Find
<1>2. CASE Delete(p)
  <2>1. /\ dead' = [dead EXCEPT ![p][Head(todo[p])] = snap[p] \cap db[Head(todo[p])]]
        /\ snap' = [snap EXCEPT ![p] = {}]
        /\ db' = db
      BY <1>2 DEF Delete
  <2>2. \A t \in Tables : dead'[p][t] = IF t = Head(todo[p]) THEN snap[p] \cap db[t] ELSE dead[p][t]
      BY <2>1
  <2> QED
      BY <1>2, <2>1, <2>2
<1>3. CASE InsertNode(p) \/ InsertRest(p)
    BY <1>3 DEF InsertNode, InsertRest
<1>4. CASE Ends(p) /\ (db' = db \/ Commit(p))
    BY <1>4 DEF Ends, NoRows
<1>5. CASE NoRow
    BY <1>5 DEF NoRow
<1> QED
    BY <1>1, <1>2, <1>3, <1>4, <1>5, RowSteps DEF Commit, Undone

LEMMA UnseenStep ==
    ASSUME Shapes, Shapes', Unseen, [Next]_vars
    PROVE  Unseen'
<1> USE TypesUsed DEF Shapes
<1>1. ASSUME NEW p \in Procs, Step(p) \/ Fail(p) PROVE Unseen'
  <2>1. \A q \in Procs \ {p} : Apart(q)
      BY <1>1, OthersApart
  <2>2. pc'[p] \in Open => pc[p] \in Open
      BY <1>1
      DEF Step, Fail, Open, EnsureRouterImported, ParseRouters, ParseEdges, Parsed, Find, Delete,
          PickNode, InsertNode, InsertRest, Commit, DuplicateKey, BreakDeadlock, Rollback, Ends,
          ReadTable, Respond, FromDB, FromCSV, FromNothing, Answer, Goto
  <2>3. \A q \in Procs : pc'[q] \in Open => pc[q] \in Open
      BY <2>1, <2>2 DEF Apart
  <2> SUFFICES ASSUME NEW q \in Procs, NothingOf(q), pc'[q] \in Open PROVE NothingOf(q)'
      BY <2>3 DEF Unseen
  <2>4. \A t \in Tables : RowsOf(db'[t], q) = {}
    <3>1. CASE db' = db
        BY <3>1 DEF NothingOf
    <3>2. CASE Commit(p)
      <4>1. q # p
          BY <3>2 DEF Commit, Ends, Goto, Open
      <4>2. \A t \in Tables : \A row \in fresh[p][t] : row[2] = p
          BY DEF Shape, TxnShape, Rows
      <4>3. \A t \in Tables : db'[t] \subseteq db[t] \cup fresh[p][t]
          BY <3>2 DEF Commit
      <4> QED
          BY <4>1, <4>2, <4>3 DEF NothingOf, RowsOf
    <3> QED
        BY <1>1, <3>1, <3>2, RowsMoved
  <2>5. Find(p) => Head(todo[p]) \in Tables
    <3>1. pc[p] = "delete" => todo[p] \in {<<"links", "nodes">>, <<"nodes">>, <<"edges">>}
        BY DEF Shape, TodoShape
    <3> QED
        BY <3>1 DEF Find, Tables
  <2>6. RowsOf(snap'[p], q) = {}
    <3>1. snap'[p] = {} \/ snap'[p] = snap[p] \/ \E t \in Tables : snap'[p] = db[t]
        BY <1>1, <2>5, RowsMoved
    <3> QED
        BY <3>1 DEF NothingOf, RowsOf
  <2>7. \A t \in Tables : RowsOf(dead'[p][t], q) = {}
    <3> SUFFICES ASSUME NEW t \in Tables PROVE RowsOf(dead'[p][t], q) = {}
        OBVIOUS
    <3>1. dead'[p][t] = {} \/ dead'[p][t] = dead[p][t] \/ dead'[p][t] = snap[p] \cap db[t]
        BY <1>1, RowsMoved
    <3> QED
        BY <3>1 DEF NothingOf, RowsOf
  <2>8. \A x \in Procs \ {p} : snap'[x] = snap[x] /\ dead'[x] = dead[x]
      BY <2>1 DEF Apart
  <2>9. \A x \in Procs : RowsOf(snap'[x], q) = {} /\ \A t \in Tables : RowsOf(dead'[x][t], q) = {}
      BY <2>6, <2>7, <2>8 DEF NothingOf
  <2> QED
      BY <2>4, <2>9 DEF NothingOf, RowsOf
<1>2. CASE SyncFiles \/ UNCHANGED vars
    BY <1>2 DEF SyncFiles, vars, txn, Unseen, NothingOf
<1> QED
    BY <1>1, <1>2 DEF Next

\* The version that an import has inserted, v being that of the one before all others.
VerOf(v, x) == IF x = Before THEN v ELSE ver[x]

\* Of each import S holds all the rows of table t or none.
Whole(v, S, t) ==
    \A x \in Procs \cup {Before} : RowsOf(S, x) = {} \/ RowsOf(S, x) = Rows(VerOf(v, x), t, x)

\* Imports are there, found and deleted as a whole.
AllWhole(v) ==
    /\ \A t \in Tables : Whole(v, db[t], t)
    /\ \A q \in Procs : pc[q] = "deleting" => Whole(v, snap[q], Head(todo[q]))
    /\ \A q \in Procs, t \in Tables : Whole(v, dead[q][t], t)

LEMMA WholeCombined ==
    ASSUME NEW v, NEW t, NEW S, NEW R, Whole(v, S, t), Whole(v, R, t)
    PROVE  Whole(v, S \cap R, t) /\ Whole(v, S \ R, t)
<1> SUFFICES ASSUME NEW x \in Procs \cup {Before}
             PROVE  /\ RowsOf(S \cap R, x) \in {{}, RowsOf(S, x)}
                    /\ RowsOf(S \ R, x) \in {{}, RowsOf(S, x)}
    BY DEF Whole
<1>1. CASE RowsOf(S, x) = {}
    BY <1>1 DEF RowsOf
<1>2. CASE RowsOf(R, x) = {}
    BY <1>2 DEF RowsOf
<1>3. CASE RowsOf(S, x) = RowsOf(R, x)
    BY <1>3 DEF RowsOf
<1> QED
    BY <1>1, <1>2, <1>3 DEF Whole

\* The version of an import that is not to be seen does not matter.
LEMMA WholeKept ==
    ASSUME NEW v, NEW t, NEW S, Whole(v, S, t), Before \notin Procs,
           missing'[Before] = missing[Before],
           \A x \in Procs : (ver'[x] = ver[x] /\ missing'[x] = missing[x]) \/ RowsOf(S, x) = {}
    PROVE  Whole(v, S, t)'
<1> SUFFICES ASSUME NEW x \in Procs \cup {Before}, RowsOf(S, x) # {}
             PROVE  VerOf(v, x)' = VerOf(v, x) /\ missing'[x] = missing[x]
    BY DEF Whole, RowsOf, Rows
<1> QED
    BY DEF VerOf

\* A transaction that waits for others inserts a router.
LEMMA DeadlockedInserts ==
    ASSUME NEW p, Deadlocked(p)
    PROVE  pc[p] = "inserting"
BY DEF Deadlocked, Holders

\* Only an import that has not ended changes what it has read, or forgets it.
LEMMA ReadBeforeEnd ==
    ASSUME Types, NEW p \in Procs, Step(p) \/ Fail(p)
    PROVE  \/ /\ ver' = ver /\ missing' = missing
              /\ pc[p] \notin Open => pc'[p] \notin Open
           \/ /\ pc[p] \in Open /\ db' = db
              /\ \E S : missing' = [missing EXCEPT ![p] = S]
<1> USE TypesUsed
<1>1. CASE Rollback(p) /\ pc[p] \in Open
    BY <1>1 DEF Rollback
<1>2. CASE DuplicateKey(p) \/ BreakDeadlock(p) \/ Fail(p)
    BY <1>1, <1>2, DeadlockedInserts DEF DuplicateKey, BreakDeadlock, Fail, Open
<1>3. CASE ParseRouters(p) \/ ParseEdges(p)
    BY <1>3 DEF ParseRouters, ParseEdges, Parsed, Open
<1>4. CASE ReadTable(p) \/ Respond(p)
    BY <1>4 DEF ReadTable, Respond, FromDB, FromCSV, FromNothing, Answer, Goto, txn, Open
<1>5. CASE \/ EnsureRouterImported(p) \/ Find(p) \/ Delete(p) \/ PickNode(p)
           \/ InsertNode(p) \/ InsertRest(p) \/ Commit(p)
    BY <1>5 DEF EnsureRouterImported, Find, Delete, PickNode, InsertNode, InsertRest, Commit, Open
<1> QED
    BY <1>2, <1>3, <1>4, <1>5 DEF Step

\* What an import has read changes only before any of it is seen.
LEMMA ReadKept ==
    ASSUME ImportAssumption, Types, Unseen, NEW p \in Procs, Step(p) \/ Fail(p)
    PROVE  /\ missing'[Before] = missing[Before]
           /\ \A x \in Procs : (ver'[x] = ver[x] /\ missing'[x] = missing[x]) \/ NothingOf(x)
           /\ db' # db => ver' = ver /\ missing' = missing
<1> USE TypesUsed
<1>1. \/ ver' = ver /\ missing' = missing
      \/ /\ pc[p] \in Open /\ db' = db
         /\ \E S : missing' = [missing EXCEPT ![p] = S]
    BY ReadBeforeEnd
<1>2. \A x \in Procs \ {p} : ver'[x] = ver[x] /\ missing'[x] = missing[x]
    BY OthersApart DEF Apart
<1>3. pc[p] \in Open => NothingOf(p)
    BY DEF Unseen
<1>4. Before # p
    BY DEF ImportAssumption
<1> QED
    BY <1>1, <1>2, <1>3, <1>4

LEMMA WholeStep ==
    ASSUME ImportAssumption, Shapes, Unseen, NEW v \in Versions, AllWhole(v), [Next]_vars
    PROVE  AllWhole(v)'
<1> USE TypesUsed DEF Shapes
<1>0. Before \notin Procs
    BY DEF ImportAssumption
<1>1. ASSUME NEW p \in Procs, Step(p) \/ Fail(p) PROVE AllWhole(v)'
  <2>1. \A q \in Procs \ {p} : Apart(q)
      BY <1>1, OthersApart
  <2>3. /\ missing'[Before] = missing[Before]
        /\ \A x \in Procs : (ver'[x] = ver[x] /\ missing'[x] = missing[x]) \/ NothingOf(x)
      BY <1>1, ReadKept
  <2>4. \A t \in Tables : Whole(v, db[t], t)'
    <3> SUFFICES ASSUME NEW t \in Tables PROVE Whole(v, db[t], t)'
        OBVIOUS
    <3>1. CASE db' = db
      <4>1. \A x \in Procs : (ver'[x] = ver[x] /\ missing'[x] = missing[x]) \/ RowsOf(db[t], x) = {}
          BY <2>3 DEF NothingOf
      <4>2. PICK S : S = db[t]
          OBVIOUS
      <4>3. Whole(v, S, t)'
          BY <1>0, <2>3, <4>1, <4>2, WholeKept DEF AllWhole
      <4> QED
          BY <3>1, <4>2, <4>3 DEF Whole
    <3>2. CASE Commit(p)
      <4>1. db'[t] = (db[t] \ dead[p][t]) \cup fresh[p][t] /\ ver' = ver /\ missing' = missing
            /\ pc[p] = "commit"
          BY <3>2 DEF Commit
      <4>2. Whole(v, db[t] \ dead[p][t], t)
          BY WholeCombined DEF AllWhole
      <4>3. fresh[p][t] = {} \/ fresh[p][t] = Rows(ver[p], t, p)
          BY <4>1 DEF Shape, TxnShape
      <4>4. RowsOf(db[t], p) = {}
          BY <4>1 DEF Unseen, Open, NothingOf
      <4>5. ASSUME NEW x \in Procs \cup {Before}
            PROVE  RowsOf(db'[t], x) = {} \/ RowsOf(db'[t], x) = Rows(VerOf(v, x), t, x)
        <5>1. \A row \in Rows(ver[p], t, p) : row[2] = p
            BY DEF Rows
        <5>2. CASE x = p
          <6>1. RowsOf(db'[t], p) = fresh[p][t]
              BY <4>1, <4>3, <4>4, <5>1 DEF RowsOf
          <6> QED
              BY <1>0, <4>3, <5>2, <6>1 DEF VerOf
        <5>3. CASE x # p
          <6>1. RowsOf(db'[t], x) = RowsOf(db[t] \ dead[p][t], x)
              BY <4>1, <4>3, <5>1, <5>3 DEF RowsOf
          <6> QED
              BY <4>2, <6>1 DEF Whole
        <5> QED
            BY <5>2, <5>3
      <4> QED
          BY <4>1, <4>5 DEF Whole, VerOf, Rows
    <3> QED
        BY <1>1, <3>1, <3>2, RowsMoved
  <2>5. ASSUME NEW q \in Procs, pc'[q] = "deleting" PROVE Whole(v, snap[q], Head(todo[q]))'
    <3>1. PICK t, S : t \in Tables /\ t = Head(todo'[q]) /\ S = snap'[q] /\ Whole(v, S, t)
              /\ \A x \in Procs : NothingOf(x) => RowsOf(S, x) = {}
      <4>1. CASE q # p
        <5>1. pc[q] = "deleting" /\ snap'[q] = snap[q] /\ todo'[q] = todo[q]
            BY <2>1, <2>5, <4>1 DEF Apart
        <5>2. todo[q] \in {<<"links", "nodes">>, <<"nodes">>, <<"edges">>}
            BY <5>1 DEF Shape, TodoShape
        <5>3. Head(todo[q]) \in Tables
            BY <5>2 DEF Tables
        <5>4. PICK t \in Tables : t = Head(todo[q])
            BY <5>3
        <5>5. Whole(v, snap[q], t)
            BY <5>1, <5>4 DEF AllWhole
        <5>6. \A x \in Procs : NothingOf(x) => RowsOf(snap[q], x) = {}
            BY DEF NothingOf
        <5>7. t = Head(todo'[q]) /\ snap[q] = snap'[q]
            BY <5>1, <5>4
        <5> QED
            BY <5>4, <5>5, <5>6, <5>7
      <4>2. CASE q = p
        <5>1. Find(p)
            BY <1>1, <2>5, <4>2
            DEF Step, Fail, EnsureRouterImported, ParseRouters, ParseEdges, Parsed, Delete,
                PickNode, InsertNode, InsertRest, Commit, DuplicateKey, BreakDeadlock, Rollback,
                Ends, ReadTable, Respond, FromDB, FromCSV, FromNothing, Answer, Goto
        <5>2. pc[p] = "delete" /\ todo' = todo /\ snap'[p] = db[Head(todo[p])]
            BY <5>1 DEF Find
        <5>3. todo[p] \in {<<"links", "nodes">>, <<"nodes">>, <<"edges">>}
            BY <5>2 DEF Shape, TodoShape
        <5>4. Head(todo[p]) \in Tables
            BY <5>3 DEF Tables
        <5>5. PICK t \in Tables : t = Head(todo[p])
            BY <5>4
        <5>6. Whole(v, db[t], t)
            BY DEF AllWhole
        <5>7. \A x \in Procs : NothingOf(x) => RowsOf(db[t], x) = {}
            BY DEF NothingOf
        <5>8. t = Head(todo'[q]) /\ db[t] = snap'[q]
            BY <4>2, <5>2, <5>5
        <5> QED
            BY <5>6, <5>7, <5>8
      <4> QED
          BY <4>1, <4>2
    <3>2. Whole(v, S, t)'
        BY <1>0, <2>3, <3>1, WholeKept
    <3> QED
        BY <3>1, <3>2 DEF Whole
  <2>6. ASSUME NEW q \in Procs, NEW t \in Tables PROVE Whole(v, dead[q][t], t)'
    <3>1. PICK S : S = dead'[q][t] /\ Whole(v, S, t) /\ \A x \in Procs : NothingOf(x) => RowsOf(S, x) = {}
      <4>1. CASE dead'[q][t] = dead[q][t]
          BY <4>1 DEF AllWhole, NothingOf
      <4>2. CASE q = p /\ dead'[p][t] = {}
          BY <4>2 DEF Whole, RowsOf
      <4>3. CASE q = p /\ Delete(p) /\ t = Head(todo[p]) /\ dead'[p][t] = snap[p] \cap db[t]
        <5>1. Whole(v, snap[p], t) /\ Whole(v, db[t], t)
            BY <4>3 DEF AllWhole, Delete
        <5>2. Whole(v, snap[p] \cap db[t], t)
            BY <5>1, WholeCombined
        <5>3. \A x \in Procs : NothingOf(x) => RowsOf(snap[p] \cap db[t], x) = {}
            BY DEF NothingOf, RowsOf
        <5> QED
            BY <4>3, <5>2, <5>3
      <4>4. q # p => dead'[q][t] = dead[q][t]
          BY <2>1 DEF Apart
      <4> QED
          BY <1>1, <4>1, <4>2, <4>3, <4>4, RowsMoved
    <3>2. Whole(v, S, t)'
        BY <1>0, <2>3, <3>1, WholeKept
    <3> QED
        BY <3>1, <3>2 DEF Whole
  <2> QED
      BY <2>4, <2>5, <2>6 DEF AllWhole
<1>2. CASE SyncFiles \/ UNCHANGED vars
  <2>1. UNCHANGED <<db, pc, ver, missing, todo, snap, dead>>
      BY <1>2 DEF SyncFiles, vars, txn
  <2>2. \A t, x : Rows(VerOf(v, x), t, x)' = Rows(VerOf(v, x), t, x)
      BY <2>1 DEF VerOf, Rows
  <2>3. ASSUME NEW t \in Tables PROVE Whole(v, db[t], t)'
    <3>1. Whole(v, db[t], t)
        BY DEF AllWhole
    <3> QED
        BY <2>1, <2>2, <3>1 DEF Whole, RowsOf
  <2>4. ASSUME NEW q \in Procs, pc'[q] = "deleting" PROVE Whole(v, snap[q], Head(todo[q]))'
    <3>1. PICK t : t = Head(todo[q]) /\ t = Head(todo'[q])
        BY <2>1
    <3>2. Whole(v, snap[q], t)
        BY <2>1, <2>4, <3>1 DEF AllWhole
    <3>3. Whole(v, snap[q], t)'
        BY <2>1, <2>2, <3>2 DEF Whole, RowsOf
    <3> QED
        BY <3>1, <3>3
  <2>5. ASSUME NEW q \in Procs, NEW t \in Tables PROVE Whole(v, dead[q][t], t)'
    <3>1. Whole(v, dead[q][t], t)
        BY DEF AllWhole
    <3> QED
        BY <2>1, <2>2, <3>1 DEF Whole, RowsOf
  <2> QED
      BY <2>3, <2>4, <2>5 DEF AllWhole
<1> QED
    BY <1>1, <1>2 DEF Next

-----------------------------------------------------------------------------
(* The nodes are those of one import.                                      *)

\* The keys that p has inserted are no one else's.
KeysHeldBy(p) ==
    \A r \in What(fresh[p].nodes) :
        /\ \A row \in db.nodes \ dead[p].nodes : row[1] # r
        /\ \A q \in Procs \ {p} : r \notin What(fresh[q].nodes)

KeysHeld == \A p \in Procs : KeysHeldBy(p)

LEMMA KeysStep ==
    ASSUME Shapes, KeysHeld, [Next]_vars
    PROVE  KeysHeld'
<1> USE TypesUsed DEF Shapes
<1>0. "nodes" \in Tables /\ "links" \in Tables /\ "edges" \in Tables
    BY DEF Tables
<1>1. ASSUME NEW p \in Procs, Step(p) \/ Fail(p) PROVE KeysHeld'
  <2>1. \A q \in Procs \ {p} : fresh'[q] = fresh[q] /\ dead'[q] = dead[q]
      BY <1>1, OthersApart DEF Apart
  <2>2. CASE UNCHANGED <<db, fresh>> /\ (dead'[p] = dead[p] \/ fresh[p].nodes = {})
    <3>1. \A q \in Procs : fresh'[q] = fresh[q]
        BY <2>2
    <3>2. \A q \in Procs : dead'[q] = dead[q] \/ fresh[q].nodes = {}
        BY <2>1, <2>2
    <3>3. \A q \in Procs : fresh[q].nodes = {} => What(fresh[q].nodes) = {}
        BY DEF What
    <3> SUFFICES ASSUME NEW q \in Procs, NEW r \in What(fresh[q].nodes)
                 PROVE  /\ \A row \in db.nodes \ dead'[q].nodes : row[1] # r
                        /\ \A x \in Procs \ {q} : r \notin What(fresh[x].nodes)
        BY <2>2, <3>1 DEF KeysHeld, KeysHeldBy
    <3> QED
        BY <3>2, <3>3 DEF KeysHeld, KeysHeldBy
  <2>3. CASE InsertNode(p)
    <3>1. /\ UNCHANGED <<db, dead>>
          /\ fresh' = [fresh EXCEPT ![p].nodes = @ \cup {<<key[p], p>>}]
          /\ pc[p] = "inserting" /\ Holders(p) = {} /\ Clash(p) = {}
        BY <2>3 DEF InsertNode
    <3>2. fresh'[p].nodes = fresh[p].nodes \cup {<<key[p], p>>}
        BY <1>0, <3>1
    <3>3. \A r : r \in What(fresh'[p].nodes) <=> (r \in What(fresh[p].nodes) \/ r = key[p])
      <4>1. <<key[p], p>>[1] = key[p]
          OBVIOUS
      <4> QED
          BY <3>2, <4>1 DEF What
    <3>4. \A q \in Procs \ {p} : key[p] \notin What(fresh[q].nodes)
        BY <3>1 DEF Holders, What
    <3>5. \A row \in db.nodes \ dead[p].nodes : row[1] # key[p]
        BY <3>1 DEF Clash
    <3>6. ASSUME NEW r \in What(fresh'[p].nodes)
          PROVE  /\ \A row \in db.nodes \ dead[p].nodes : row[1] # r
                 /\ \A q \in Procs \ {p} : r \notin What(fresh[q].nodes)
      <4>1. CASE r = key[p]
          BY <3>4, <3>5, <4>1
      <4>2. CASE r \in What(fresh[p].nodes)
          BY <4>2 DEF KeysHeld, KeysHeldBy
      <4> QED
          BY <3>3, <3>6, <4>1, <4>2
    <3>7. KeysHeldBy(p)'
        BY <2>1, <3>1, <3>6 DEF KeysHeldBy
    <3>8. ASSUME NEW q \in Procs \ {p} PROVE KeysHeldBy(q)'
      <4> SUFFICES ASSUME NEW r \in What(fresh[q].nodes)
                   PROVE  /\ \A row \in db.nodes \ dead[q].nodes : row[1] # r
                          /\ \A x \in Procs \ {q} : r \notin What(fresh'[x].nodes)
          BY <2>1, <3>1 DEF KeysHeldBy
      <4>1. r \notin What(fresh'[p].nodes)
          BY <3>3, <3>4 DEF KeysHeld, KeysHeldBy
      <4> QED
          BY <2>1, <4>1 DEF KeysHeld, KeysHeldBy
    <3> QED
        BY <3>7, <3>8 DEF KeysHeld
  <2>4. CASE InsertRest(p)
    <3>1. UNCHANGED <<db, dead>> /\ fresh'[p].nodes = fresh[p].nodes
        BY <1>0, <2>4 DEF InsertRest
    <3>2. \A q \in Procs : fresh'[q].nodes = fresh[q].nodes
        BY <2>1, <3>1
    <3> QED
        BY <3>1, <3>2 DEF KeysHeld, KeysHeldBy
  <2>5. CASE Ends(p) /\ (db' = db \/ Commit(p))
    <3>1. fresh'[p].nodes = {} /\ What(fresh'[p].nodes) = {}
        BY <1>0, <2>5 DEF Ends, NoRows, What
    <3>2. db'.nodes \subseteq db.nodes \cup fresh[p].nodes
        BY <1>0, <2>5 DEF Commit
    <3>3. \A row \in fresh[p].nodes : row[1] \in What(fresh[p].nodes)
        BY DEF What
    <3>4. KeysHeldBy(p)'
        BY <3>1 DEF KeysHeldBy
    <3>5. ASSUME NEW q \in Procs \ {p} PROVE KeysHeldBy(q)'
      <4> SUFFICES ASSUME NEW r \in What(fresh[q].nodes)
                   PROVE  /\ \A row \in db'.nodes \ dead'[q].nodes : row[1] # r
                          /\ \A x \in Procs \ {q} : r \notin What(fresh'[x].nodes)
          BY <2>1 DEF KeysHeldBy
      <4>1. KeysHeldBy(q)
          BY DEF KeysHeld
      <4>2. r \notin What(fresh[p].nodes)
          BY <4>1 DEF KeysHeldBy
      <4>3. \A row \in db'.nodes \ dead'[q].nodes : row[1] # r
          BY <2>1, <3>2, <3>3, <4>1, <4>2 DEF KeysHeldBy
      <4>4. \A x \in Procs \ {q} : r \notin What(fresh'[x].nodes)
          BY <2>1, <3>1, <4>1 DEF KeysHeldBy
      <4> QED
          BY <4>3, <4>4
    <3> QED
        BY <3>4, <3>5 DEF KeysHeld
  <2>6. CASE Delete(p)
    <3>1. UNCHANGED <<db, fresh>> /\ pc[p] = "deleting"
        BY <2>6 DEF Delete
    <3>2. fresh[p].nodes = {}
        BY <1>0, <3>1 DEF Shape, TxnShape, NoRows
    <3> QED
        BY <2>2, <3>1, <3>2
  <2>7. CASE Find(p) \/ NoRow
      BY <2>2, <2>7 DEF Find, NoRow
  <2> QED
      BY <1>1, <2>3, <2>4, <2>5, <2>6, <2>7, RowSteps DEF Commit, Undone
<1>2. CASE SyncFiles \/ UNCHANGED vars
  <2>1. UNCHANGED <<db, dead, fresh>>
      BY <1>2 DEF SyncFiles, vars, txn
  <2> QED
      BY <2>1 DEF KeysHeld, KeysHeldBy
<1> QED
    BY <1>1, <1>2 DEF Next

\* An import of the routers replaces what is there: a row of another import that it has not
\* deleted would have a key of its own, for any two versions have a router in common.
LEMMA CommitReplaces ==
    ASSUME ImportAssumption, Shapes, KeysHeld, NEW v \in Versions, AllWhole(v),
           NEW p \in Procs, pc[p] = "commit", kind[p] = "router"
    PROVE  db.nodes \ dead[p].nodes = {}
<1> USE TypesUsed DEF Shapes
<1>1. SUFFICES ASSUME NEW row \in db.nodes \ dead[p].nodes PROVE FALSE
    OBVIOUS
<1>2. "nodes" \in Tables
    BY DEF Tables
<1>3. PICK x \in Procs \cup {Before} : row[2] = x
    BY <1>2 DEF AnyRows
<1>4. Whole(v, db.nodes \ dead[p].nodes, "nodes")
    BY <1>2, WholeCombined DEF AllWhole
<1>5. RowsOf(db.nodes \ dead[p].nodes, x) = Rows(VerOf(v, x), "nodes", x)
    BY <1>3, <1>4 DEF Whole, RowsOf
<1>6. VerOf(v, x) \in Versions /\ ver[p] \in Versions
    BY DEF VerOf
<1>7. PICK r : r \in Csv[VerOf(v, x)].nodes /\ r \in Csv[ver[p]].nodes
    BY <1>6 DEF ImportAssumption
<1>8. <<r, x>> \in db.nodes \ dead[p].nodes
    BY <1>5, <1>7 DEF Rows, Content, RowsOf
<1>9. <<r, p>> \in fresh[p].nodes
    BY <1>2, <1>7 DEF Shape, TxnShape, OwnTables, Rows, Content
<1>10. r \in What(fresh[p].nodes)
    BY <1>9 DEF What
<1> QED
    BY <1>8, <1>10 DEF KeysHeld, KeysHeldBy

\* The nodes are those of one import, whose links are there.
OneImport(v) ==
    /\ \A x, y \in db.nodes : x[2] = y[2]
    /\ \A x \in Procs \cup {Before} :
          RowsOf(db.nodes, x) # {} => Rows(VerOf(v, x), "links", x) \subseteq db.links

\* What a commit makes of nodes and links.
LEMMA Committed ==
    ASSUME ImportAssumption, Shapes, KeysHeld, NEW v \in Versions, AllWhole(v),
           NEW p \in Procs, Commit(p)
    PROVE  \/ kind[p] = "edges" /\ db'.nodes = db.nodes /\ db'.links = db.links
           \/ /\ kind[p] = "router"
              /\ db'.nodes = Rows(ver[p], "nodes", p)
              /\ Rows(ver[p], "links", p) \subseteq db'.links
<1> USE TypesUsed DEF Shapes
<1>1. "nodes" \in Tables /\ "links" \in Tables
    BY DEF Tables
<1>2. /\ pc[p] = "commit"
      /\ db'.nodes = (db.nodes \ dead[p].nodes) \cup fresh[p].nodes
      /\ db'.links = (db.links \ dead[p].links) \cup fresh[p].links
    BY <1>1 DEF Commit
<1>3. CASE kind[p] = "router"
  <2>1. fresh[p].nodes = Rows(ver[p], "nodes", p) /\ fresh[p].links = Rows(ver[p], "links", p)
      BY <1>2, <1>3 DEF Shape, TxnShape, OwnTables, Rows
  <2> QED
      BY <1>2, <1>3, <2>1, CommitReplaces
<1>4. CASE kind[p] = "edges"
  <2>1. dead[p].nodes = {} /\ dead[p].links = {} /\ fresh[p].nodes = {} /\ fresh[p].links = {}
      BY <1>1, <1>4 DEF Shape, TxnShape, OwnTables, Rows
  <2> QED
      BY <1>2, <1>4, <2>1
<1> QED
    BY <1>3, <1>4

LEMMA OneImportStep ==
    ASSUME ImportAssumption, Shapes, Unseen, KeysHeld,
           NEW v \in Versions, AllWhole(v), OneImport(v), [Next]_vars
    PROVE  OneImport(v)'
<1> USE TypesUsed DEF Shapes
<1>0. Before \notin Procs /\ "nodes" \in Tables
    BY DEF ImportAssumption, Tables
<1>1. ASSUME NEW p \in Procs, Step(p) \/ Fail(p) PROVE OneImport(v)'
  <2>1. CASE db' = db
    <3>1. /\ missing'[Before] = missing[Before]
          /\ \A q \in Procs :
                (ver'[q] = ver[q] /\ missing'[q] = missing[q]) \/ RowsOf(db.nodes, q) = {}
        BY <1>0, <1>1, ReadKept DEF NothingOf
    <3>2. \A x \in Procs \cup {Before} :
             RowsOf(db.nodes, x) # {} => VerOf(v, x)' = VerOf(v, x) /\ missing'[x] = missing[x]
        BY <1>0, <3>1 DEF VerOf
    <3>3. \A x \in Procs \cup {Before} :
             RowsOf(db.nodes, x) # {} => Rows(VerOf(v, x), "links", x)' = Rows(VerOf(v, x), "links", x)
        BY <3>2 DEF Rows
    <3> QED
        BY <2>1, <3>3 DEF OneImport, RowsOf
  <2>2. CASE Commit(p)
    <3>1. ver' = ver /\ missing' = missing
        BY <2>2 DEF Commit
    <3>2. CASE db'.nodes = db.nodes /\ db'.links = db.links
        BY <3>1, <3>2 DEF OneImport, RowsOf, Rows, VerOf
    <3>3. CASE db'.nodes = Rows(ver[p], "nodes", p) /\ Rows(ver[p], "links", p) \subseteq db'.links
      <4>1. \A row \in db'.nodes : row[2] = p
          BY <3>3 DEF Rows
      <4>2. \A x \in Procs \cup {Before} : RowsOf(db'.nodes, x) # {} => x = p
          BY <4>1 DEF RowsOf
      <4>3. VerOf(v, p)' = ver[p]
          BY <1>0, <3>1 DEF VerOf
      <4>4. \A x \in Procs \cup {Before} :
               RowsOf(db'.nodes, x) # {} => Rows(VerOf(v, x), "links", x)' \subseteq db'.links
          BY <3>1, <3>3, <4>2, <4>3 DEF Rows
      <4> QED
          BY <4>1, <4>4 DEF OneImport, RowsOf
    <3> QED
        BY <2>2, <3>2, <3>3, Committed
  <2> QED
      BY <1>1, <2>1, <2>2, RowsMoved
<1>2. CASE SyncFiles \/ UNCHANGED vars
  <2>1. UNCHANGED <<db, ver, missing>>
      BY <1>2 DEF SyncFiles, vars, txn
  <2> QED
      BY <2>1 DEF OneImport, RowsOf, Rows, VerOf
<1> QED
    BY <1>1, <1>2 DEF Next

-----------------------------------------------------------------------------
(* What a request shows.                                                   *)

\* Links of the first version, with all that every import could read.
Known(ls) == Content(1, "links", Unread) \subseteq ls /\ ls \subseteq Csv[1].links

\* While the files are those of the first version, a request reads what is in them but for
\* the links that an import could not read, or no nodes.
Told(p) ==
    /\ (pc[p] = "read" /\ todo[p] = <<"links">>) =>
          got[p].nodes = {} \/ (got[p].nodes = Csv[1].nodes /\ db.nodes # {})
    /\ pc[p] = "respond" =>
          got[p].nodes = {} \/ (got[p].nodes = Csv[1].nodes /\ Known(got[p].links))
    /\ (pc[p] = "done" /\ p \in Requests) =>
          /\ shown[p] \subseteq CsvLinks(1, {})
          /\ CsvLinks(1, Unread \cup hidden[p]) \subseteq shown[p]

FirstVersion(v) == dir = 1 => v = 1 /\ \A p \in Procs : ver[p] = 1 /\ Told(p)

\* What is committed stays committed, so what is unread only grows.
LEMMA UnreadGrows ==
    ASSUME ImportAssumption, Types, Types', NEW p \in Procs, Step(p) \/ Fail(p)
    PROVE  Unread \subseteq Unread'
<1> USE TypesUsed
<1>1. /\ pc[p] \notin Open => pc'[p] \notin Open /\ missing' = missing
      /\ missing' = missing \/ \E S : missing' = [missing EXCEPT ![p] = S]
    BY ReadBeforeEnd
<1>2. \A q \in Procs \ {p} : pc'[q] = pc[q] /\ missing'[q] = missing[q]
    BY OthersApart DEF Apart
<1>3. missing'[Before] = missing[Before]
    BY <1>1 DEF ImportAssumption
<1>4. \A q \in Procs : pc[q] \notin Open => pc'[q] \notin Open /\ missing'[q] = missing[q]
    BY <1>1, <1>2
<1>5. pc' \in [Procs -> ImportPC]
    BY DEF Types, TypeOK, ImportPC
<1>6. ASSUME NEW q \in Procs, pc[q] \in {"read", "respond", "done"}
      PROVE  pc'[q] \in {"read", "respond", "done"} /\ missing'[q] = missing[q]
  <2>1. pc[q] \notin Open
      BY <1>6 DEF Open
  <2>2. pc'[q] \notin Open /\ missing'[q] = missing[q]
      BY <1>4, <2>1
  <2> QED
      BY <1>5, <2>2 DEF Open, ImportPC
<1> SUFFICES ASSUME NEW r \in Unread PROVE r \in Unread'
    OBVIOUS
<1>7. PICK x \in {Before} \cup {q \in Procs : pc[q] \in {"read", "respond", "done"}} : r \in missing[x]
    BY DEF Unread
<1>8. r \in missing'[x] /\ x \in {Before} \cup {q \in Procs : pc'[q] \in {"read", "respond", "done"}}
    BY <1>3, <1>6, <1>7
<1> QED
    BY <1>8 DEF Unread

\* With more files unread there are fewer links.
LEMMA FewerLinks ==
    ASSUME NEW S, NEW R, S \subseteq R
    PROVE  /\ Content(1, "links", R) \subseteq Content(1, "links", S)
           /\ CsvLinks(1, R) \subseteq CsvLinks(1, S)
BY DEF Content, CsvLinks, CollectRouterDirectLinks

LEMMA WhatIs ==
    ASSUME NEW S, NEW C, \A row \in S : row[1] \in C, \A c \in C : \E row \in S : row[1] = c
    PROVE  What(S) = C
BY DEF What

\* What is in the tables then.
LEMMA FirstRows ==
    ASSUME Shapes, Unseen, AllWhole(1), OneImport(1), \A p \in Procs : ver[p] = 1
    PROVE  /\ db.nodes # {} => What(db.nodes) = Csv[1].nodes /\ Known(What(db.links))
           /\ db.nodes = {} => What(db.nodes) = {}
<1> USE TypesUsed DEF Shapes
<1>0. "nodes" \in Tables /\ "links" \in Tables
    BY DEF Tables
<1>1. \A x \in Procs \cup {Before} : VerOf(1, x) = 1
    BY DEF VerOf
<1>2. ASSUME NEW row \in db.nodes PROVE What(db.nodes) = Csv[1].nodes /\ Known(What(db.links))
  <2>1. PICK x \in Procs \cup {Before} : row[2] = x
      BY <1>0 DEF AnyRows
  <2>2. RowsOf(db.nodes, x) # {} /\ db.nodes = RowsOf(db.nodes, x)
      BY <2>1 DEF OneImport, RowsOf
  <2>3. db.nodes = Csv[1].nodes \X {x}
    <3>1. Whole(1, db["nodes"], "nodes")
        BY <1>0 DEF AllWhole
    <3>2. RowsOf(db.nodes, x) = Rows(1, "nodes", x)
        BY <1>1, <2>2, <3>1 DEF Whole
    <3> QED
        BY <2>2, <3>2 DEF Rows, Content
  <2>4. Content(1, "links", Unread) \X {x} \subseteq db.links
    <3>1. Content(1, "links", missing[x]) \X {x} \subseteq db.links
        BY <1>1, <2>2 DEF OneImport, Rows
    <3>a. x \in Procs => pc[x] \in {"read", "respond", "done"}
        BY <1>0, <2>2 DEF Unseen, NothingOf, Open, ImportPC
    <3>2. missing[x] \subseteq Unread
        BY <3>a DEF Unread
    <3>3. Content(1, "links", Unread) \subseteq Content(1, "links", missing[x])
        BY <3>2, FewerLinks
    <3> QED
        BY <3>1, <3>3
  <2>5. ASSUME NEW l \in db.links PROVE l[1] \in Csv[1].links
    <3>1. PICK y \in Procs \cup {Before} : l[2] = y
        BY <1>0 DEF AnyRows
    <3>2. l \in RowsOf(db.links, y)
        BY <3>1 DEF RowsOf
    <3>3. Whole(1, db["links"], "links")
        BY <1>0 DEF AllWhole
    <3>4. RowsOf(db.links, y) = Rows(1, "links", y)
        BY <1>1, <3>2, <3>3 DEF Whole
    <3>5. l \in Csv[1].links \X {y}
        BY <3>2, <3>4 DEF Rows, Content
    <3> QED
        BY <3>5
  <2>6. What(db.nodes) = Csv[1].nodes
    <3>1. \A r \in Csv[1].nodes : <<r, x>> \in db.nodes /\ <<r, x>>[1] = r
        BY <2>3
    <3>2. \A n \in db.nodes : n[1] \in Csv[1].nodes
        BY <2>3
    <3>3. \A r \in Csv[1].nodes : \E n \in db.nodes : n[1] = r
        BY <3>1
    <3> QED
        BY ONLY <3>2, <3>3, WhatIs
  <2>7. Known(What(db.links))
    <3>1. \A l \in Content(1, "links", Unread) : <<l, x>> \in db.links /\ <<l, x>>[1] = l
        BY <2>4
    <3>2. \A l \in Content(1, "links", Unread) : \E l2 \in db.links : l2[1] = l
        BY <3>1
    <3>3. Content(1, "links", Unread) \subseteq What(db.links)
        BY <3>2 DEF What
    <3>4. What(db.links) \subseteq Csv[1].links
        BY <2>5 DEF What
    <3> QED
        BY <3>3, <3>4 DEF Known
  <2> QED
      BY <2>6, <2>7
<1>3. db.nodes = {} => What(db.nodes) = {}
    BY DEF What
<1> QED
    BY <1>2, <1>3

LEMMA FirstVersionStep ==
    ASSUME ImportAssumption, Shapes, Shapes', Unseen, KeysHeld, NEW v \in Versions,
           AllWhole(v), OneImport(v), FirstVersion(v), [Next]_vars
    PROVE  FirstVersion(v)'
<1> USE TypesUsed DEF Shapes
<1>1. ASSUME NEW p \in Procs, Step(p) \/ Fail(p), dir' = 1
      PROVE  v = 1 /\ \A q \in Procs : ver'[q] = 1 /\ Told(q)'
  <2>1. dir = 1
      BY <1>1
      DEF Step, Fail, EnsureRouterImported, ParseRouters, ParseEdges, Parsed, Find, Delete,
          PickNode, InsertNode, InsertRest, Commit, DuplicateKey, BreakDeadlock, Rollback,
          ReadTable, Respond, FromDB, FromCSV, FromNothing, Answer
  <2>2. v = 1 /\ \A q \in Procs : ver[q] = 1 /\ Told(q)
      BY <2>1 DEF FirstVersion
  <2>3. \A q \in Procs \ {p} : Apart(q)
      BY <1>1, OthersApart
  <2>4. ver'[p] = 1
    <3>1. UNCHANGED ver \/ ver' = [ver EXCEPT ![p] = dir]
        BY <1>1
        DEF Step, Fail, EnsureRouterImported, ParseRouters, ParseEdges, Parsed, Find, Delete,
            PickNode, InsertNode, InsertRest, Commit, DuplicateKey, BreakDeadlock, Rollback,
            ReadTable, Respond, FromDB, FromCSV, FromNothing, Answer, txn
    <3> QED
        BY <2>1, <2>2, <3>1
  <2>5. db.nodes # {} => db'.nodes # {}
    <3>1. CASE Commit(p)
      <4>1. \A w, u \in Versions : Csv[w].nodes \cap Csv[u].nodes # {}
          BY DEF ImportAssumption
      <4>2. PICK r : r \in Csv[ver[p]].nodes
          BY <4>1
      <4>3. <<r, p>> \in Rows(ver[p], "nodes", p)
          BY <4>2 DEF Rows, Content
      <4> QED
          BY <3>1, <4>3, Committed
    <3> QED
        BY <1>1, <3>1, RowsMoved
  <2>a. Unread \subseteq Unread'
      BY <1>1, UnreadGrows
  <2>b. \A ls : Known(ls) => Known(ls)'
      BY <2>a, FewerLinks DEF Known
  <2>6. \A q \in Procs \ {p} : Told(q)'
    <3> SUFFICES ASSUME NEW q \in Procs \ {p} PROVE Told(q)'
        OBVIOUS
    <3>1. /\ pc'[q] = pc[q] /\ todo'[q] = todo[q] /\ got'[q] = got[q] /\ shown'[q] = shown[q]
          /\ hidden'[q] = hidden[q] /\ Told(q)
        BY <2>2, <2>3 DEF Apart
    <3>2. (pc'[q] = "read" /\ todo'[q] = <<"links">>) =>
              got'[q].nodes = {} \/ (got'[q].nodes = Csv[1].nodes /\ db'.nodes # {})
        BY <2>5, <3>1 DEF Told
    <3>3. pc'[q] = "respond" =>
              got'[q].nodes = {} \/ (got'[q].nodes = Csv[1].nodes /\ Known(got[q].links)')
        BY <2>b, <3>1 DEF Told
    <3>4. ASSUME pc'[q] = "done", q \in Requests
          PROVE  /\ shown'[q] \subseteq CsvLinks(1, {})
                 /\ CsvLinks(1, Unread' \cup hidden'[q]) \subseteq shown'[q]
      <4>1. shown[q] \subseteq CsvLinks(1, {}) /\ CsvLinks(1, Unread \cup hidden[q]) \subseteq shown[q]
          BY <3>1, <3>4 DEF Told
      <4>2. Unread \cup hidden[q] \subseteq Unread' \cup hidden'[q]
          BY <2>a, <3>1
      <4>3. CsvLinks(1, Unread' \cup hidden'[q]) \subseteq CsvLinks(1, Unread \cup hidden[q])
          BY <4>2, FewerLinks
      <4> QED
          BY <3>1, <4>1, <4>3
    <3> QED
        BY <3>1, <3>2, <3>3, <3>4 DEF Told, CsvLinks, Content
  <2>7. Told(p)'
    <3>1. CASE ReadTable(p)
      <4>1. PICK t \in {"nodes", "links"} :
              /\ t = Head(todo[p])
              /\ pc'[p] = IF t = "nodes" THEN "read" ELSE "respond"
              /\ got'[p] = [got[p] EXCEPT ![t] = What(db[t])]
              /\ t = "links" => todo[p] = <<"links">> /\ pc[p] = "read"
              /\ UNCHANGED db
        <5>1. todo[p] = <<"nodes", "links">> \/ todo[p] = <<"links">>
            BY <3>1 DEF ReadTable, Shape, TodoShape, ReadOrder
        <5>2. CASE todo[p] = <<"nodes", "links">>
          <6>1. Head(todo[p]) = "nodes" /\ Len(todo[p]) > 1
              BY <5>2
          <6> QED
              BY <3>1, <6>1 DEF ReadTable, Goto
        <5>3. CASE todo[p] = <<"links">>
          <6>1. Head(todo[p]) = "links" /\ ~(Len(todo[p]) > 1)
              BY <5>3
          <6> QED
              BY <3>1, <5>3, <6>1 DEF ReadTable, Goto
        <5> QED
            BY <5>1, <5>2, <5>3
      <4>2. /\ db.nodes # {} => What(db.nodes) = Csv[1].nodes /\ Known(What(db.links))
            /\ db.nodes = {} => What(db.nodes) = {}
          BY <2>2, FirstRows
      <4>3. got[p] \in [{"nodes", "links"} -> SUBSET Things]
          OBVIOUS
      <4>4. CASE t = "nodes"
        <5>1. got'[p].nodes = What(db.nodes) /\ pc'[p] = "read" /\ db' = db
            BY <4>1, <4>3, <4>4
        <5>2. got'[p].nodes = {} \/ (got'[p].nodes = Csv[1].nodes /\ db'.nodes # {})
            BY <4>2, <5>1
        <5> QED
            BY <5>1, <5>2 DEF Told
      <4>5. CASE t = "links"
        <5>1. /\ got'[p].nodes = got[p].nodes /\ got'[p].links = What(db.links)
              /\ pc'[p] = "respond"
            BY <4>1, <4>3, <4>5
        <5>2. got[p].nodes = {} \/ (got[p].nodes = Csv[1].nodes /\ db.nodes # {})
            BY <2>2, <4>1, <4>5 DEF Told
        <5>3. db.nodes # {} => Known(got'[p].links)
            BY <4>2, <5>1
        <5>4. PICK ls : ls = got'[p].links
            OBVIOUS
        <5>5. db.nodes # {} => Known(ls)'
            BY <2>b, <5>3, <5>4
        <5>6. db.nodes # {} => Known(got[p].links)'
            BY <5>4, <5>5 DEF Known
        <5> QED
            BY <5>1, <5>2, <5>6 DEF Told
      <4> QED
          BY <4>1, <4>4, <4>5
    <3>2. CASE Respond(p)
      <4>1. PICK ls, S : /\ Answer(p, ls, S)
                         /\ ls \subseteq CsvLinks(1, {})
                         /\ CsvLinks(1, Unread \cup S) \subseteq ls
        <5>1. CASE FromDB(p)
          <6>1. Answer(p, CollectRouterDirectLinks(got[p].nodes, got[p].links), {})
              BY <5>1 DEF FromDB
          <6>2. got[p].nodes = Csv[1].nodes /\ Known(got[p].links)
              BY <2>2, <5>1 DEF FromDB, Answer, Told
          <6>3. /\ CollectRouterDirectLinks(got[p].nodes, got[p].links) \subseteq CsvLinks(1, {})
                /\ CsvLinks(1, Unread) \subseteq CollectRouterDirectLinks(got[p].nodes, got[p].links)
              BY <6>2 DEF Known, CsvLinks, Content, CollectRouterDirectLinks
          <6>4. Unread \cup {} = Unread
              OBVIOUS
          <6> QED
              BY <6>1, <6>3, <6>4
        <5>2. CASE FromCSV(p)
          <6>1. PICK S : Answer(p, CsvLinks(1, S), S)
              BY <2>1, <5>2 DEF FromCSV
          <6>2. CsvLinks(1, S) \subseteq CsvLinks(1, {}) /\ CsvLinks(1, Unread \cup S) \subseteq CsvLinks(1, S)
              BY FewerLinks
          <6> QED
              BY <6>1, <6>2
        <5>3. CASE FromNothing(p)
          <6>1. Answer(p, {}, Csv[1].nodes)
              BY <2>1, <5>3 DEF FromNothing
          <6>2. CsvLinks(1, Unread \cup Csv[1].nodes) = {}
              BY DEF CsvLinks, Content, CollectRouterDirectLinks
          <6> QED
              BY <6>1, <6>2
        <5> QED
            BY <3>2, <5>1, <5>2, <5>3 DEF Respond
      <4>2. pc'[p] = "done" /\ missing' = missing /\ shown'[p] = ls /\ hidden'[p] = S
        <5>1. shown = [q \in Procs |-> shown[q]]
            BY DEF Types
        <5> QED
            BY <4>1, <5>1 DEF Answer, Goto, txn
      <4>3. CsvLinks(1, Unread' \cup S) \subseteq CsvLinks(1, Unread \cup S)
        <5>1. Unread \cup S \subseteq Unread' \cup S
            BY <2>a
        <5> QED
            BY <5>1, FewerLinks
      <4> QED
          BY <4>1, <4>2, <4>3 DEF Told, CsvLinks, Content
    <3>3. CASE pc'[p] \notin {"read", "respond", "done"}
        BY <3>3 DEF Told
    <3>4. CASE Ends(p)
      <4>1. /\ pc'[p] = (IF p \in Requests THEN "read" ELSE "done")
            /\ todo'[p] = (IF p \in Requests THEN <<"nodes", "links">> ELSE <<>>)
          BY <3>4 DEF Ends, Goto, ReadOrder
      <4>2. <<"nodes", "links">> # <<"links">>
          OBVIOUS
      <4> QED
          BY <4>1, <4>2 DEF Told
    <3>5. CASE EnsureRouterImported(p)
      <4>1. pc'[p] = "parse" \/ (pc'[p] = "read" /\ todo'[p] = <<"nodes", "links">>)
          BY <3>5 DEF EnsureRouterImported, Goto, ReadOrder
      <4>2. <<"nodes", "links">> # <<"links">>
          OBVIOUS
      <4> QED
          BY <4>1, <4>2 DEF Told
    <3> QED
        BY <1>1, <3>1, <3>2, <3>3, <3>4, <3>5
        DEF Step, Fail, ParseRouters, ParseEdges, Parsed, Find, Delete,
            PickNode, InsertNode, InsertRest, Commit, DuplicateKey, BreakDeadlock, Rollback, Goto
  <2> QED
      BY <2>2, <2>3, <2>4, <2>6, <2>7 DEF Apart
<1>2. CASE SyncFiles
    BY <1>2 DEF SyncFiles, FirstVersion, Types, TypeOK, Versions
<1>3. CASE UNCHANGED vars
  <2>1. UNCHANGED <<db, dir, pc, ver, missing, todo, got, shown, hidden>>
      BY <1>3 DEF vars, txn
  <2>2. Unread' = Unread
      BY <2>1 DEF Unread
  <2>3. \A p \in Procs : Told(p) => Told(p)'
      BY <2>1, <2>2 DEF Told, Known, CsvLinks, Content
  <2> QED
      BY <2>1, <2>3 DEF FirstVersion
<1> QED
    BY <1>1, <1>2, <1>3 DEF Next, FirstVersion

-----------------------------------------------------------------------------
(* The theorems.                                                           *)

Inv ==
    /\ ImportAssumption /\ Shapes /\ Unseen /\ KeysHeld
    /\ \E v \in Versions : AllWhole(v) /\ OneImport(v) /\ FirstVersion(v)

LEMMA InitInv == ImportAssumption /\ Init => Inv
<1> SUFFICES ASSUME ImportAssumption, Init PROVE Inv
    OBVIOUS
<1>1. Shapes
    BY InitShapes
<1>2. /\ \A q \in Procs : snap[q] = {} /\ fresh[q] = NoRows /\ \A t \in Tables : dead[q][t] = {}
      /\ \A q \in Procs : pc[q] \in {"ensure", "parse"} /\ ver[q] = dir
      /\ dir \in Versions /\ "nodes" \in Tables /\ NoRows.nodes = {}
    BY DEF Init, NoRows, Tables
<1>3. PICK v \in Versions : /\ dir = 1 => v = 1
                            /\ \/ \A t \in Tables : db[t] = {}
                               \/ \A t \in Tables : db[t] = Rows(v, t, Before)
  <2>1. CASE db = NoRows
      BY <1>2, <2>1 DEF NoRows
  <2>2. CASE \E v \in 1 .. dir : db = [t \in Tables |-> Rows(v, t, Before)]
    <3>1. PICK v \in 1 .. dir : db = [t \in Tables |-> Rows(v, t, Before)]
        BY <2>2
    <3>2. v \in Versions /\ (dir = 1 => v = 1)
        BY <1>2 DEF Versions
    <3> QED
        BY <3>1, <3>2
  <2> QED
      BY <2>1, <2>2 DEF Init
<1>4. \A t \in Tables : \A row \in db[t] : row[2] = Before
    BY <1>3 DEF Rows
<1>5. Unseen
    BY <1>2, <1>4 DEF Unseen, NothingOf, RowsOf, ImportAssumption
<1>6. KeysHeld
    BY <1>2 DEF KeysHeld, KeysHeldBy, What
<1>7. AllWhole(v)
  <2>1. \A t \in Tables : Whole(v, db[t], t)
      BY <1>3, <1>4 DEF Whole, RowsOf, VerOf
  <2>2. \A q \in Procs, t \in Tables : Whole(v, dead[q][t], t)
      BY <1>2 DEF Whole, RowsOf
  <2> QED
      BY <1>2, <2>1, <2>2 DEF AllWhole
<1>8. OneImport(v)
  <2>1. "links" \in Tables
      BY DEF Tables
  <2>2. \A x : RowsOf(db.nodes, x) # {} => x = Before /\ db.links = Rows(v, "links", Before)
      BY <1>2, <1>3, <1>4, <2>1 DEF RowsOf
  <2> QED
      BY <1>2, <1>4, <2>2 DEF OneImport, VerOf
<1>9. FirstVersion(v)
    BY <1>2, <1>3 DEF FirstVersion, Told
<1> QED
    BY <1>1, <1>5, <1>6, <1>7, <1>8, <1>9 DEF Inv

LEMMA InvStep == Inv /\ [Next]_vars => Inv'
<1> SUFFICES ASSUME Inv, [Next]_vars PROVE Inv'
    OBVIOUS
<1>1. ImportAssumption /\ Shapes /\ Unseen /\ KeysHeld
    BY DEF Inv
<1>2. PICK v \in Versions : AllWhole(v) /\ OneImport(v) /\ FirstVersion(v)
    BY DEF Inv
<1>3. Shapes'
    BY <1>1, ShapesStep
<1>4. Unseen' /\ KeysHeld'
    BY <1>1, <1>3, UnseenStep, KeysStep
<1>5. AllWhole(v)' /\ OneImport(v)' /\ FirstVersion(v)'
    BY <1>1, <1>2, <1>3, WholeStep, OneImportStep, FirstVersionStep
<1> QED
    BY <1>1, <1>3, <1>4, <1>5 DEF Inv, ImportAssumption

\* Every variable keeps its type.
THEOREM ImportTypeCorrect == ImportAssumption /\ Spec => []TypeOK
<1>1. Inv => TypeOK
    BY DEF Inv, Shapes, Types
<1> QED
    BY <1>1, InitInv, InvStep, PTL DEF Spec

\* However imports overlap, fail and are undone, the nodes are those of one import, its
\* links are there too, and of no import there is a part of a table
\* (ImportRouterFromCSV, ImportDelayFromCSV, ImportSatStatesFromCSV).
THEOREM ImportsStayWhole == ImportAssumption /\ Spec => []ImportsAreWhole
<1>1. Inv => ImportsAreWhole
  <2> SUFFICES ASSUME Inv PROVE ImportsAreWhole
      OBVIOUS
  <2>1. PICK v \in Versions : AllWhole(v) /\ OneImport(v)
      BY DEF Inv
  <2>2. \A p \in Procs : VerOf(v, p) = ver[p]
      BY DEF Inv, ImportAssumption, VerOf
  <2>3. \A x, y \in db.nodes : x[2] = y[2]
      BY <2>1 DEF OneImport
  <2>4. ASSUME NEW p \in Procs
        PROVE  /\ \A t \in Tables : {r \in db[t] : r[2] = p} \in {{}, Rows(ver[p], t, p)}
               /\ (\E r \in db.nodes : r[2] = p) => Rows(ver[p], "links", p) \subseteq db.links
    <3>1. \A t \in Tables : RowsOf(db[t], p) \in {{}, Rows(ver[p], t, p)}
        BY <2>1, <2>2 DEF AllWhole, Whole
    <3>2. RowsOf(db.nodes, p) # {} => Rows(ver[p], "links", p) \subseteq db.links
        BY <2>1, <2>2 DEF OneImport
    <3> QED
        BY <3>1, <3>2 DEF RowsOf
  <2> QED
      BY <2>3, <2>4 DEF ImportsAreWhole
<1> QED
    BY <1>1, InitInv, InvStep, PTL DEF Spec

\* While the files are of one version, a request shows only links in them, and all of them
\* but for files that some import, or the request itself without nodes in the tables, could
\* not read (TopologyRouterLinksHandler, loadRouterAdjacencyFromCSV).
THEOREM FilesShown == ImportAssumption /\ Spec => []OneVersionShown
<1>1. Inv => OneVersionShown
    BY DEF Inv, FirstVersion, Told, OneVersionShown, Procs
<1> QED
    BY <1>1, InitInv, InvStep, PTL DEF Spec
=============================================================================
