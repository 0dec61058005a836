------------------------ MODULE ParallelPartsProofs ------------------------
(***************************************************************************)
(* ParallelParts for any number of executors, parts, places and retries and*)
(* any budget of hazards:                                                  *)
(*                                                                         *)
(*   PartsSuccess            a stage that succeeds has its parts;          *)
(*   ProgramsLimited         no more programs run than there are places;   *)
(*   AttemptsFailForAReason  every failed attempt is charged to a hazard.  *)
(*                                                                         *)
(* PartsInv follows one executor through an attempt in which nothing has   *)
(* gone wrong: where each goroutine stands, what its directory holds and   *)
(* which parts it has copied.  The last theorem adds to it that an attempt *)
(* in which something has gone wrong is paid for (Charged).                *)
(***************************************************************************)
EXTENDS ParallelParts, FiniteSetTheorems, TLAPS

LEMMA SpendType ==
    ASSUME TypeOK, NEW h \in Hazards, Spend(h) \/ NoHazard
    PROVE  /\ spent' \in [Hazards -> Nat]
           /\ Alone' => Alone
BY PartsAssumption DEF Spend, NoHazard, TypeOK, Alone, Hazards

LEMMA RemoveAllType ==
    ASSUME TypeOK, NEW gs, RemoveAll(gs)
    PROVE  /\ src' \in [AllGroups -> {"absent", "empty", "torn", "full"}]
           /\ \A k \in AllGroups \ gs : src'[k] = src[k]
           /\ spent' \in [Hazards -> Nat]
           /\ Alone' => Alone
<1>1. /\ src' \in [AllGroups -> {"absent", "empty", "torn", "full"}]
      /\ \A k \in AllGroups \ gs : src'[k] = src[k]
  BY DEF RemoveAll, TypeOK
<1> QED
  BY <1>1, SpendType DEF RemoveAll, Hazards

\* The context and the attempt of an executor whose attempt failed.
LEMMA AttemptFailsType ==
    ASSUME TypeOK, NEW e \in Executors, AttemptFails(e)
    PROVE  /\ pc' = [pc EXCEPT ![e] = "clean"] \/ pc' = [pc EXCEPT ![e] = "failed"]
           /\ attempt' \in [Executors -> 1 .. (MaxRetries + 1)]
           /\ expired' \in [Executors -> BOOLEAN]
           /\ cancelled' \in [Executors -> BOOLEAN]
           /\ \A f \in Executors \ {e} : expired'[f] = expired[f] /\ cancelled'[f] = cancelled[f]
           /\ pc'[e] = "clean" => ~cancelled'[e]
<1>1. CASE attempt[e] <= MaxRetries
  <2>1. attempt' = [attempt EXCEPT ![e] = attempt[e] + 1]
    BY <1>1 DEF AttemptFails
  <2>2. attempt' \in [Executors -> 1 .. (MaxRetries + 1)]
    BY <1>1, <2>1, PartsAssumption DEF TypeOK
  <2> QED
    BY <1>1, <2>2 DEF AttemptFails, NewContext, TypeOK
<1>2. CASE ~(attempt[e] <= MaxRetries)
  BY <1>2 DEF AttemptFails, TypeOK
<1> QED
  BY <1>1, <1>2

LEMMA GoFields ==
    ASSUME NEW r \in Go
    PROVE  r.pc \in GoPC /\ r.left \in SUBSET AllParts
BY DEF Go

LEMMA GoType == ASSUME TypeOK, NEW e \in Executors, NEW g \in AllGroups PROVE go[e][g] \in Go
BY DEF TypeOK

\* What a step of one goroutine leaves alone.
LEMMA GoUpdate ==
    ASSUME TypeOK, NEW e \in Executors, NEW g \in AllGroups, NEW r \in Go,
           go' = [go EXCEPT ![e][g] = r]
    PROVE  /\ go' \in [Executors -> [AllGroups -> Go]]
           /\ go'[e][g] = r
           /\ \A f \in Executors \ {e} : go'[f] = go[f]
           /\ \A k \in AllGroups \ {g} : go'[e][k] = go[e][k]
<1>1. go \in [Executors -> [AllGroups -> Go]]
  BY DEF TypeOK
<1> QED
  BY <1>1

LEMMA CopyingType ==
    ASSUME TypeOK, NEW e \in Executors, NEW g \in AllGroups,
           NEW l \in GoPC, NEW ps \in SUBSET AllParts, NEW w \in BOOLEAN,
           Copying(e, g, l, ps, w)
    PROVE  /\ go' \in [Executors -> [AllGroups -> Go]]
           /\ go'[e][g] = [pc |-> l, left |-> ps, whole |-> w]
           /\ \A f \in Executors \ {e} : go'[f] = go[f]
           /\ \A k \in AllGroups \ {g} : go'[e][k] = go[e][k]
<1> DEFINE r == [pc |-> l, left |-> ps, whole |-> w]
<1>1. r \in Go
  BY Zenon DEF Go
<1>2. go' = [go EXCEPT ![e][g] = r]
  BY DEF Copying
<1> HIDE DEF r
<1>3. /\ go' \in [Executors -> [AllGroups -> Go]]
      /\ go'[e][g] = r
      /\ \A f \in Executors \ {e} : go'[f] = go[f]
      /\ \A k \in AllGroups \ {g} : go'[e][k] = go[e][k]
  BY <1>1, <1>2, GoUpdate
<1> QED
  BY <1>3 DEF r

LEMMA EndType ==
    ASSUME TypeOK, NEW e \in Executors, NEW g \in AllGroups, End(e, g)
    PROVE  /\ go' \in [Executors -> [AllGroups -> Go]]
           /\ go'[e][g].pc = "ended"
           /\ \A f \in Executors \ {e} : go'[f] = go[f]
           /\ \A k \in AllGroups \ {g} : go'[e][k] = go[e][k]
<1> DEFINE r == [None EXCEPT !.pc = "ended"]
<1>1. r \in Go /\ r.pc = "ended"
  BY DEF None, Go, GoPC
<1>2. go' = [go EXCEPT ![e][g] = r]
  BY DEF End
<1> HIDE DEF r
<1> QED
  BY <1>1, <1>2, GoUpdate

\* What a goroutine that ends with an error changes.
LEMMA GroupErrorType ==
    ASSUME TypeOK, NEW e \in Executors, NEW g \in AllGroups, GroupError(e, g)
    PROVE  /\ errs' \in [Executors -> Nat]
           /\ cancelled' \in [Executors -> BOOLEAN]
           /\ go' \in [Executors -> [AllGroups -> Go]]
           /\ errs'[e] > 0
           /\ go'[e][g].pc = "ended"
           /\ \A f \in Executors : errs'[f] >= errs[f]
           /\ \A f \in Executors \ {e} : go'[f] = go[f] /\ cancelled'[f] = cancelled[f]
           /\ \A k \in AllGroups \ {g} : go'[e][k] = go[e][k]
<1>3. errs' = [errs EXCEPT ![e] = errs[e] + 1] /\ cancelled' = [cancelled EXCEPT ![e] = TRUE]
  BY DEF GroupError
<1>4. /\ errs' \in [Executors -> Nat]
      /\ cancelled' \in [Executors -> BOOLEAN]
      /\ errs'[e] > 0
      /\ \A f \in Executors : errs'[f] >= errs[f]
      /\ \A f \in Executors \ {e} : cancelled'[f] = cancelled[f]
  BY <1>3 DEF TypeOK
<1> QED
  BY <1>4, EndType DEF GroupError

LEMMA GotoType ==
    ASSUME TypeOK, NEW e \in Executors, NEW g \in AllGroups, NEW l \in GoPC, Goto(e, g, l)
    PROVE  /\ go' \in [Executors -> [AllGroups -> Go]]
           /\ go'[e][g] = [go[e][g] EXCEPT !.pc = l]
           /\ go'[e][g].pc = l
           /\ \A f \in Executors \ {e} : go'[f] = go[f]
           /\ \A k \in AllGroups \ {g} : go'[e][k] = go[e][k]
<1> DEFINE r == [go[e][g] EXCEPT !.pc = l]
<1>1. r \in Go /\ r.pc = l
  BY GoType DEF Go
<1>2. go' = [go EXCEPT ![e][g] = r]
  BY DEF Goto
<1> HIDE DEF r
<1>3. /\ go' \in [Executors -> [AllGroups -> Go]]
      /\ go'[e][g] = r
      /\ \A f \in Executors \ {e} : go'[f] = go[f]
      /\ \A k \in AllGroups \ {g} : go'[e][k] = go[e][k]
  BY <1>1, <1>2, GoUpdate
<1> QED
  BY <1>1, <1>3 DEF r

LEMMA GroupsAll == TypeOK => Groups \subseteq AllGroups
BY DEF TypeOK, Groups, AllGroups

LEMMA PartsAll == TypeOK => Parts \subseteq AllParts
BY DEF TypeOK, Parts, AllParts

-----------------------------------------------------------------------------
(* The type invariant.                                                     *)

LEMMA InitType == Init => TypeOK
<1> SUFFICES ASSUME Init PROVE TypeOK
  OBVIOUS
<1>1. None \in Go
  BY DEF None, Go, GoPC
<1> QED
  BY <1>1, PartsAssumption DEF Init, TypeOK

LEMMA ExecutorType ==
    ASSUME TypeOK, NEW e \in Executors,
           Begin(e) \/ ExecutorStep(e) \/ Expire(e) \/ Crash(e)
    PROVE  TypeOK'
<1>1. CASE Begin(e)
  <2>1. spent' \in [Hazards -> Nat]
    BY <1>1, SpendType DEF Begin, Hazards
  <2>2. attempt' \in [Executors -> 1 .. (MaxRetries + 1)]
    BY <1>1, PartsAssumption DEF Begin, TypeOK
  <2> QED
    BY <1>1, <2>1, <2>2 DEF Begin, NewContext, TypeOK
<1>2. CASE StartGroups(e)
  <2>1. spent' \in [Hazards -> Nat]
    BY <1>2, SpendType, RemoveAllType DEF StartGroups, Hazards
  <2>2. CASE /\ pc' = [pc EXCEPT ![e] = "wait"]
             /\ RemoveAll(AllGroups)
             /\ go' = [go EXCEPT ![e] =
                         [g \in AllGroups |-> IF g \in Groups THEN [None EXCEPT !.pc = "select"]
                                              ELSE None]]
             /\ errs' = [errs EXCEPT ![e] = 0]
             /\ UNCHANGED <<mode, out, attempt, expired, cancelled>>
    <3> DEFINE r  == [None EXCEPT !.pc = "select"]
               gs == [g \in AllGroups |-> IF g \in Groups THEN r ELSE None]
    <3>1. None \in Go /\ r \in Go
      BY DEF None, Go, GoPC
    <3>2. go' = [go EXCEPT ![e] = gs]
      BY <2>2
    <3> HIDE DEF r
    <3>3. gs \in [AllGroups -> Go]
      BY <3>1
    <3> HIDE DEF gs
    <3>4. go' \in [Executors -> [AllGroups -> Go]]
      BY <3>2, <3>3 DEF TypeOK
    <3>5. /\ src' \in [AllGroups -> {"absent", "empty", "torn", "full"}]
          /\ errs' \in [Executors -> Nat]
          /\ UNCHANGED <<mode, out, attempt, expired, cancelled>>
      BY <2>2, RemoveAllType DEF TypeOK
    <3>6. pc' \in [Executors ->
                      {"idle", "clean", "wait", "tidy", "check", "success", "failed"}]
      BY <2>2 DEF TypeOK
    <3>7. /\ mode' \in Modes
          /\ attempt' \in [Executors -> 1 .. (MaxRetries + 1)]
          /\ expired' \in [Executors -> BOOLEAN] /\ cancelled' \in [Executors -> BOOLEAN]
          /\ out' \in [AllParts -> {"none", "torn", "full"}]
      BY <3>5 DEF TypeOK
    <3> QED
      BY <2>1, <3>4, <3>5, <3>6, <3>7 DEF TypeOK
  <2>3. CASE /\ AttemptFails(e)
             /\ src' = IF mode = "rpc" THEN src ELSE [g \in AllGroups |-> "absent"]
             /\ UNCHANGED <<go, errs, mode, out>>
    <3>1. src' \in [AllGroups -> {"absent", "empty", "torn", "full"}]
      BY <2>3 DEF TypeOK
    <3> QED
      BY <2>1, <2>3, <3>1, AttemptFailsType DEF TypeOK
  <2> QED
    BY <1>2, <2>2, <2>3 DEF StartGroups
<1>3. CASE Gather(e)
  BY <1>3, AttemptFailsType DEF Gather, TypeOK
<1>4. CASE Tidy(e)
  BY <1>4, RemoveAllType DEF Tidy, TypeOK
<1>5. CASE Conclude(e)
  BY <1>5, AttemptFailsType DEF Conclude, TypeOK
<1>6. CASE Expire(e)
  <2>1. spent' \in [Hazards -> Nat]
    BY <1>6, SpendType DEF Expire, Hazards
  <2> QED
    BY <1>6, <2>1 DEF Expire, TypeOK
<1>7. CASE Crash(e)
  <2>1. spent' \in [Hazards -> Nat]
    BY <1>7, SpendType DEF Crash, Hazards
  <2>2. None \in Go
    BY DEF None, Go, GoPC
  <2> QED
    BY <1>7, <2>1, <2>2 DEF Crash, TypeOK
<1> QED
  BY <1>1, <1>2, <1>3, <1>4, <1>5, <1>6, <1>7 DEF ExecutorStep

LEMMA GroupType ==
    ASSUME TypeOK, NEW e \in Executors, NEW g \in Groups, GroupStep(e, g)
    PROVE  TypeOK'
<1>0. g \in AllGroups
  BY GroupsAll
<1>1. CASE Acquire(e, g)
  BY <1>0, <1>1, GotoType DEF Acquire, attemptVars, GoPC, TypeOK
<1>2. CASE GiveWay(e, g)
  BY <1>0, <1>2, EndType DEF GiveWay, attemptVars, TypeOK
<1>3. CASE MakeDir(e, g)
  <2>1. spent' \in [Hazards -> Nat]
    BY <1>3, SpendType DEF MakeDir, Hazards
  <2>2. /\ go' \in [Executors -> [AllGroups -> Go]]
        /\ errs' \in [Executors -> Nat]
        /\ cancelled' \in [Executors -> BOOLEAN]
    BY <1>0, <1>3, GotoType, GroupErrorType DEF MakeDir, GoPC, TypeOK
  <2>3. src' \in [AllGroups -> {"absent", "empty", "torn", "full"}]
    BY <1>3 DEF MakeDir, TypeOK
  <2> QED
    BY <1>3, <2>1, <2>2, <2>3 DEF MakeDir, TypeOK
<1>4. CASE StartProgram(e, g)
  <2>2. /\ go' \in [Executors -> [AllGroups -> Go]]
        /\ errs' \in [Executors -> Nat]
        /\ cancelled' \in [Executors -> BOOLEAN]
    BY <1>0, <1>4, GotoType, GroupErrorType DEF StartProgram, GoPC, TypeOK
  <2>3. src' \in [AllGroups -> {"absent", "empty", "torn", "full"}]
    BY <1>4 DEF StartProgram, TypeOK
  <2> QED
    BY <1>4, <2>2, <2>3 DEF StartProgram, TypeOK
<1>5. CASE EndProgram(e, g)
  <2>1. PartsOf(g) \subseteq AllParts
    BY PartsAll DEF PartsOf
  <2>2. go' \in [Executors -> [AllGroups -> Go]]
    BY <1>0, <1>5, <2>1, CopyingType DEF EndProgram, GoPC
  <2>3. src' \in [AllGroups -> {"absent", "empty", "torn", "full"}]
    BY <1>5 DEF EndProgram, TypeOK
  <2> QED
    BY <1>5, <2>2, <2>3 DEF EndProgram, attemptVars, TypeOK
<1>6. CASE FailProgram(e, g)
  <2>1. spent' \in [Hazards -> Nat]
    BY <1>6, SpendType DEF FailProgram, Hazards
  <2> QED
    BY <1>0, <1>6, <2>1, GroupErrorType DEF FailProgram, TypeOK
<1>7. CASE OpenPart(e, g)
  <2>1. CASE GroupError(e, g) /\ UNCHANGED out
    BY <1>0, <1>7, <2>1, GroupErrorType DEF OpenPart, TypeOK
  <2>2. CASE /\ \E p \in AllParts : out' = [out EXCEPT ![p] = "torn"]
             /\ Copying(e, g, "copy", go[e][g].left, src[g] = "full")
             /\ UNCHANGED <<cancelled, errs>>
    <3>1. go' \in [Executors -> [AllGroups -> Go]]
      BY <1>0, <2>2, CopyingType, GoType, GoFields DEF GoPC
    <3>2. out' \in [AllParts -> {"none", "torn", "full"}]
      BY <2>2 DEF TypeOK
    <3> QED
      BY <1>7, <2>2, <3>1, <3>2 DEF OpenPart, TypeOK
  <2> QED
    BY <1>7, <2>1, <2>2 DEF OpenPart
<1>8. CASE CopyPart(e, g)
  <2>1. spent' \in [Hazards -> Nat]
    BY <1>8, SpendType DEF CopyPart, Hazards
  <2>2. CASE GroupError(e, g) /\ UNCHANGED out
    BY <1>0, <1>8, <2>1, <2>2, GroupErrorType DEF CopyPart, TypeOK
  <2>3. CASE /\ UNCHANGED <<cancelled, errs>>
             /\ \E p \in AllParts, v \in {"full", "torn"}, l \in {"remove", "open"} :
                   /\ out' = [out EXCEPT ![p] = v]
                   /\ Copying(e, g, l, go[e][g].left \ {p}, FALSE)
    <3>1. PICK p \in AllParts, v \in {"full", "torn"}, l \in {"remove", "open"} :
             /\ out' = [out EXCEPT ![p] = v]
             /\ Copying(e, g, l, go[e][g].left \ {p}, FALSE)
      BY <2>3
    <3>2. go' \in [Executors -> [AllGroups -> Go]]
      <4>1. go[e][g].left \ {p} \in SUBSET AllParts
        BY <1>0, GoType, GoFields
      <4> QED
        BY <1>0, <3>1, <4>1, CopyingType DEF GoPC
    <3>3. out' \in [AllParts -> {"none", "torn", "full"}]
      BY <3>1 DEF TypeOK
    <3> QED
      BY <1>8, <2>1, <2>3, <3>2, <3>3 DEF CopyPart, TypeOK
  <2>4. \/ GroupError(e, g) /\ UNCHANGED out
        \/ /\ UNCHANGED <<cancelled, errs>>
           /\ \E p \in AllParts, v \in {"full", "torn"}, l \in {"remove", "open"} :
                 /\ out' = [out EXCEPT ![p] = v]
                 /\ Copying(e, g, l, go[e][g].left \ {p}, FALSE)
    BY <1>8 DEF CopyPart
  <2> QED
    BY <2>2, <2>3, <2>4
<1>9. CASE RemoveDir(e, g)
  BY <1>0, <1>9, EndType, RemoveAllType DEF RemoveDir, attemptVars, TypeOK
<1> QED
  BY <1>1, <1>2, <1>3, <1>4, <1>5, <1>6, <1>7, <1>8, <1>9 DEF GroupStep

\* Every variable keeps its type.
THEOREM PartsTypeCorrect == Spec => []TypeOK
<1>1. TypeOK /\ [Next]_vars => TypeOK'
  <2> SUFFICES ASSUME TypeOK, [Next]_vars PROVE TypeOK'
    OBVIOUS
  <2>1. CASE UNCHANGED vars
    BY <2>1 DEF vars, TypeOK
  <2>2. CASE Next
    BY <2>2, ExecutorType, GroupType DEF Next, Step
  <2> QED
    BY <2>1, <2>2
<1> QED
  BY <1>1, InitType, PTL DEF Spec

-----------------------------------------------------------------------------
(* Success has all parts.  The invariant follows one executor through an    *)
(* attempt in which nothing has gone wrong: where each goroutine stands,    *)
(* what its directory holds and which parts it has copied.  An ended        *)
(* goroutine has copied its parts, unless the context was done (GiveWay),   *)
(* which without a timeout means that an error has been sent.               *)

Full(ps) == \A p \in ps : out[p] = "full"

\* The goroutine of group g in an attempt without error or timeout.
Piece(e, g) ==
    LET r == go[e][g] IN
    /\ r.pc # "none"
    /\ r.pc = "start" => src[g] # "absent"
    /\ r.pc = "run" => src[g] = "torn"
    /\ r.pc \in {"open", "copy"} =>
           src[g] = "full" /\ r.left \subseteq PartsOf(g) /\ Full(PartsOf(g) \ r.left)
    /\ r.pc = "copy" => r.whole
    /\ r.pc \in {"remove", "ended"} => Full(PartsOf(g))

Work(e) ==
    ~expired[e] =>
        /\ (pc[e] = "wait" /\ errs[e] = 0) => \A g \in Groups : Piece(e, g)
        /\ pc[e] \in {"tidy", "check", "success"} => Full(Parts)

\* Goroutines run only while their executor waits for them.
Quiet == \A e \in Executors, g \in Groups :
            pc[e] # "wait" => go[e][g].pc \in {"none", "ended"}

\* cancel is called only with an error.
Cancels == \A e \in Executors :
            /\ pc[e] = "clean" => ~cancelled[e]
            /\ pc[e] = "wait" /\ cancelled[e] => errs[e] > 0

Solo == Alone => \A e, f \in Executors : pc[e] # "idle" /\ pc[f] # "idle" => e = f

BandsThere ==
    \A e \in Executors : pc[e] = "success" /\ mode = "sharpen" => \A p \in Parts : out[p] # "none"

PartsInv ==
    /\ TypeOK /\ Quiet /\ Cancels /\ Solo /\ BandsThere
    /\ Alone => \A e \in Executors : Work(e)

LEMMA InitInv == Init => PartsInv
<1> SUFFICES ASSUME Init PROVE PartsInv
  OBVIOUS
<1>1. TypeOK
  BY InitType
<1>2. \A e \in Executors, g \in AllGroups : go[e][g].pc = "none"
  BY DEF Init, None
<1>3. Quiet /\ Cancels /\ Solo /\ BandsThere
  BY <1>1, <1>2, GroupsAll DEF Init, Quiet, Cancels, Solo, BandsThere
<1> QED
  BY <1>1, <1>3 DEF Init, PartsInv, Work

-----------------------------------------------------------------------------
(* Steps of the executor.                                                  *)

LEMMA BeginInv == ASSUME PartsInv, NEW e \in Executors, Begin(e) PROVE PartsInv'
<1>1. TypeOK /\ TypeOK'
  BY ExecutorType DEF PartsInv
<1>2. /\ pc' = [pc EXCEPT ![e] = "clean"]
      /\ pc[e] = "idle"
      /\ ~cancelled'[e]
      /\ \A f \in Executors \ {e} : cancelled'[f] = cancelled[f] /\ expired'[f] = expired[f]
      /\ UNCHANGED <<mode, errs, go, src, out>>
  BY <1>1 DEF Begin, NewContext, TypeOK
<1>3. Alone' => Alone /\ \A f \in Executors : pc[f] = "idle"
  <2>1. CASE \A f \in Executors : pc[f] = "idle"
    BY <1>1, <2>1, SpendType DEF Begin, Hazards
  <2>2. CASE Spend("duplicate")
    BY <1>1, <2>2 DEF Spend, Alone, TypeOK
  <2> QED
    BY <2>1, <2>2 DEF Begin
<1>4. Quiet' /\ Cancels' /\ BandsThere'
  BY <1>1, <1>2 DEF PartsInv, Quiet, Cancels, BandsThere, Groups, Parts, TypeOK
<1>5. Solo' /\ (Alone' => \A f \in Executors : Work(f)')
  BY <1>1, <1>2, <1>3 DEF Solo, Work, TypeOK
<1> QED
  BY <1>1, <1>4, <1>5 DEF PartsInv

\* An attempt that fails leaves nothing to show for it.
LEMMA AttemptFailsInv ==
    ASSUME PartsInv, NEW e \in Executors, AttemptFails(e), pc[e] # "idle", TypeOK',
           \A g \in Groups : go[e][g].pc \in {"none", "ended"},
           Alone' => Alone, UNCHANGED <<mode, errs, go, out>>
    PROVE  PartsInv'
<1>1. TypeOK
  BY DEF PartsInv
<1>2. /\ pc'[e] \in {"clean", "failed"}
      /\ pc'[e] = "clean" => ~cancelled'[e]
      /\ \A f \in Executors \ {e} : /\ pc'[f] = pc[f]
                                    /\ cancelled'[f] = cancelled[f]
                                    /\ expired'[f] = expired[f]
  BY <1>1, AttemptFailsType DEF TypeOK
<1>3. Quiet' /\ Cancels' /\ BandsThere'
  BY <1>1, <1>2 DEF PartsInv, Quiet, Cancels, BandsThere, Groups, Parts
<1>4. Solo'
  BY <1>2 DEF PartsInv, Solo
<1>5. Alone' => \A f \in Executors : Work(f)'
  <2> SUFFICES ASSUME Alone', NEW f \in Executors PROVE Work(f)'
    OBVIOUS
  <2>1. CASE f = e
    BY <1>2, <2>1 DEF Work
  <2>2. CASE f # e
    <3>1. pc'[f] = "idle"
      BY <1>2, <2>2 DEF PartsInv, Solo
    <3> QED
      BY <3>1 DEF Work
  <2> QED
    BY <2>1, <2>2
<1> QED
  BY <1>3, <1>4, <1>5 DEF PartsInv

LEMMA StartGroupsInv == ASSUME PartsInv, NEW e \in Executors, StartGroups(e) PROVE PartsInv'
<1>1. TypeOK /\ TypeOK'
  BY ExecutorType DEF PartsInv, ExecutorStep
<1>2. Alone' => Alone
  BY <1>1, SpendType, RemoveAllType DEF StartGroups, Hazards
<1>3. \A g \in Groups : go[e][g].pc \in {"none", "ended"}
  BY DEF StartGroups, PartsInv, Quiet
<1>4. CASE AttemptFails(e) /\ UNCHANGED <<go, errs>>
  BY <1>1, <1>2, <1>3, <1>4, AttemptFailsInv DEF StartGroups
<1>5. CASE /\ pc' = [pc EXCEPT ![e] = "wait"]
           /\ go' = [go EXCEPT ![e] =
                       [g \in AllGroups |-> IF g \in Groups THEN [None EXCEPT !.pc = "select"]
                                            ELSE None]]
           /\ errs' = [errs EXCEPT ![e] = 0]
           /\ UNCHANGED <<attempt, expired, cancelled>>
  <2>1. [None EXCEPT !.pc = "select"].pc = "select"
    BY DEF None
  <2> DEFINE r == [None EXCEPT !.pc = "select"]
  <2> HIDE DEF r
  <2>2. go' = [go EXCEPT ![e] = [g \in AllGroups |-> IF g \in Groups THEN r ELSE None]]
    BY <1>5 DEF r
  <2>3. r.pc = "select"
    BY <2>1 DEF r
  <2>4. /\ \A g \in Groups : go'[e][g].pc = "select"
        /\ \A f \in Executors \ {e} : go'[f] = go[f]
    BY <1>1, <2>2, <2>3, GroupsAll DEF TypeOK
  <2>5. /\ pc[e] = "clean" /\ ~cancelled[e]
        /\ UNCHANGED <<mode, out>>
        /\ Groups' = Groups
        /\ pc'[e] = "wait" /\ errs'[e] = 0
        /\ \A f \in Executors \ {e} : pc'[f] = pc[f] /\ errs'[f] = errs[f]
    BY <1>1, <1>5 DEF StartGroups, PartsInv, Cancels, Groups, TypeOK
  <2>6. Quiet' /\ Cancels' /\ BandsThere'
    BY <1>5, <2>4, <2>5 DEF PartsInv, Quiet, Cancels, BandsThere, Parts
  <2>7. Solo'
    BY <1>2, <2>5 DEF PartsInv, Solo
  <2>8. Alone' => \A f \in Executors : Work(f)'
    <3> SUFFICES ASSUME Alone', NEW f \in Executors PROVE Work(f)'
      OBVIOUS
    <3>1. CASE f = e
      BY <2>4, <2>5, <3>1 DEF Work, Piece
    <3>2. CASE f # e
      <4>1. pc'[f] = "idle"
        BY <1>2, <2>5, <3>2 DEF PartsInv, Solo
      <4> QED
        BY <4>1 DEF Work
    <3> QED
      BY <3>1, <3>2
  <2> QED
    BY <1>1, <2>6, <2>7, <2>8 DEF PartsInv
<1> QED
  BY <1>4, <1>5 DEF StartGroups

\* Every part is in a group.
LEMMA FullGroups ==
    ASSUME \A g \in Groups : Full(PartsOf(g))
    PROVE  Full(Parts)
BY DEF Full, PartsOf, Groups, GroupsIn, Parts

LEMMA FinishInv ==
    ASSUME PartsInv, NEW e \in Executors, Gather(e) \/ Tidy(e) \/ Conclude(e)
    PROVE  PartsInv'
<1>1. TypeOK /\ TypeOK'
  BY ExecutorType DEF PartsInv, ExecutorStep
<1>2. Alone' => Alone
  BY <1>1, RemoveAllType DEF Gather, Tidy, Conclude, Alone
<1>3. \A g \in Groups : go[e][g].pc \in {"none", "ended"}
  BY DEF Gather, Tidy, Conclude, At, PartsInv, Quiet
<1>4. CASE AttemptFails(e)
  <2>1. ~Tidy(e)
    BY <1>1, <1>4, AttemptFailsType DEF Tidy, TypeOK
  <2> QED
    BY <1>1, <1>2, <1>3, <1>4, <2>1, AttemptFailsInv DEF Gather, Conclude
<1>5. ASSUME NEW l \in {"tidy", "check", "success"},
             pc' = [pc EXCEPT ![e] = l],
             pc[e] # "idle",
             l = "success" => (mode = "sharpen" => \A p \in Parts : out[p] # "none"),
             (Alone /\ ~expired[e]) => Full(Parts),
             UNCHANGED <<mode, attempt, expired, cancelled, errs, go, out>>
      PROVE  PartsInv'
  <2>1. pc'[e] = l /\ \A f \in Executors \ {e} : pc'[f] = pc[f]
    BY <1>1, <1>5 DEF TypeOK
  <2>2. Groups' = Groups /\ Parts' = Parts
    BY <1>5 DEF Groups, Parts
  <2>3. Quiet' /\ Cancels' /\ BandsThere'
    BY <1>3, <1>5, <2>1, <2>2 DEF PartsInv, Quiet, Cancels, BandsThere
  <2>4. Solo'
    BY <1>2, <1>5, <2>1 DEF PartsInv, Solo
  <2>5. Alone' => \A f \in Executors : Work(f)'
    <3> SUFFICES ASSUME Alone', NEW f \in Executors PROVE Work(f)'
      OBVIOUS
    <3>1. CASE f = e
      BY <1>2, <1>5, <2>1, <2>2, <3>1 DEF Work, Full
    <3>2. CASE f # e
      <4>1. pc'[f] = "idle"
        BY <1>2, <1>5, <2>1, <3>2 DEF PartsInv, Solo
      <4> QED
        BY <4>1 DEF Work
    <3> QED
      BY <3>1, <3>2
  <2> QED
    BY <1>1, <2>3, <2>4, <2>5 DEF PartsInv
<1>6. CASE Gather(e) /\ ~AttemptFails(e)
  <2>1. errs[e] = 0 /\ pc' = [pc EXCEPT ![e] = "tidy"]
    BY <1>1, <1>6 DEF Gather, TypeOK
  <2>2. (Alone /\ ~expired[e]) => Full(Parts)
    BY <1>6, <2>1, FullGroups DEF Gather, At, PartsInv, Work, Piece
  <2>3. pc[e] # "idle" /\ UNCHANGED <<mode, attempt, expired, cancelled, errs, go, out>>
    BY <1>6, <2>1 DEF Gather
  <2> QED
    BY <1>5, <2>1, <2>2, <2>3
<1>7. CASE Tidy(e)
  <2>1. (Alone /\ ~expired[e]) => Full(Parts)
    BY <1>7 DEF Tidy, PartsInv, Work
  <2> QED
    BY <1>5, <1>7, <2>1 DEF Tidy
<1>8. CASE Conclude(e) /\ ~AttemptFails(e)
  <2>1. (Alone /\ ~expired[e]) => Full(Parts)
    BY <1>8 DEF Conclude, PartsInv, Work
  <2> QED
    BY <1>5, <1>8, <2>1 DEF Conclude, OutputsExist
<1> QED
  BY <1>4, <1>6, <1>7, <1>8

LEMMA ExpireCrashInv ==
    ASSUME PartsInv, NEW e \in Executors, Expire(e) \/ Crash(e) PROVE PartsInv'
<1>1. TypeOK /\ TypeOK'
  BY ExecutorType DEF PartsInv
<1>2. Alone' => Alone
  BY <1>1, SpendType DEF Expire, Crash, Hazards
<1>3. CASE Expire(e)
  <2>1. /\ UNCHANGED <<mode, pc, attempt, cancelled, errs, go, src, out>>
        /\ expired' = [expired EXCEPT ![e] = TRUE]
    BY <1>3 DEF Expire
  <2>2. Groups' = Groups /\ Parts' = Parts /\ \A g : PartsOf(g)' = PartsOf(g)
    BY <2>1 DEF Groups, Parts, PartsOf
  <2>3. Quiet' /\ Cancels' /\ BandsThere' /\ Solo'
    BY <1>2, <2>1, <2>2 DEF PartsInv, Quiet, Cancels, BandsThere, Solo
  <2>4. Alone' => \A f \in Executors : Work(f)'
    <3> SUFFICES ASSUME Alone', NEW f \in Executors, ~expired'[f] PROVE Work(f)'
      BY DEF Work
    <3>1. ~expired[f] /\ Work(f)
      BY <1>1, <1>2, <2>1 DEF PartsInv, TypeOK
    <3>2. \A g \in Groups : Piece(f, g) => Piece(f, g)'
      BY <2>1, <2>2 DEF Piece, Full
    <3> QED
      BY <2>1, <2>2, <3>1, <3>2 DEF Work, Full
  <2> QED
    BY <1>1, <2>3, <2>4 DEF PartsInv
<1>4. CASE Crash(e)
  <2>1. /\ pc'[e] = "idle" /\ pc[e] # "idle"
        /\ \A f \in Executors \ {e} : pc'[f] = pc[f] /\ go'[f] = go[f]
        /\ \A g \in Groups : go'[e][g].pc = "none"
        /\ UNCHANGED <<mode, expired, cancelled, errs, src, out>>
        /\ Groups' = Groups /\ Parts' = Parts
    BY <1>1, <1>4, GroupsAll DEF Crash, Active, TypeOK, None, Groups, Parts
  <2>2. Quiet' /\ Cancels' /\ BandsThere'
    BY <2>1 DEF PartsInv, Quiet, Cancels, BandsThere
  <2>3. Solo' /\ (Alone' => \A f \in Executors : Work(f)')
    BY <1>2, <2>1 DEF PartsInv, Solo, Work
  <2> QED
    BY <1>1, <2>2, <2>3 DEF PartsInv
<1> QED
  BY <1>3, <1>4

-----------------------------------------------------------------------------
(* Steps of a goroutine.                                                   *)

\* What is left to show for a step of the goroutine of g: its own piece.
LEMMA GroupInv ==
    ASSUME PartsInv, TypeOK', NEW e \in Executors, NEW g \in Groups,
           go[e][g].pc \notin {"none", "ended"},
           Alone' => Alone,
           UNCHANGED <<mode, pc, attempt, expired>>,
           \A f \in Executors \ {e} : go'[f] = go[f] /\ cancelled'[f] = cancelled[f],
           \A k \in AllGroups \ {g} : go'[e][k] = go[e][k] /\ src'[k] = src[k],
           \A f \in Executors : errs'[f] >= errs[f],
           cancelled'[e] => cancelled[e] \/ errs'[e] > 0,
           \A p \in Parts : out[p] # "none" => out'[p] # "none",
           (Alone /\ ~expired[e] /\ errs'[e] = 0 /\ Piece(e, g)) =>
               Piece(e, g)' /\ \A p \in Parts \ PartsOf(g) : out'[p] = out[p]
    PROVE  PartsInv'
<1>1. TypeOK /\ pc[e] = "wait"
  BY DEF PartsInv, Quiet
<1>2. Groups' = Groups /\ Parts' = Parts /\ \A k : PartsOf(k)' = PartsOf(k)
  BY DEF Groups, Parts, PartsOf
<1>3. Quiet'
  BY <1>1, <1>2 DEF PartsInv, Quiet
<1>4. Cancels'
  BY <1>1 DEF PartsInv, Cancels, TypeOK
<1>5. Solo' /\ BandsThere'
  BY <1>2 DEF PartsInv, Solo, BandsThere
<1>6. Alone' => \A f \in Executors : Work(f)'
  <2> SUFFICES ASSUME Alone', NEW f \in Executors PROVE Work(f)'
    OBVIOUS
  <2>1. CASE f # e
    <3>1. pc'[f] = "idle"
      BY <1>1, <2>1 DEF PartsInv, Solo
    <3> QED
      BY <3>1 DEF Work
  <2>2. CASE f = e
    <3> SUFFICES ASSUME ~expired[e], errs'[e] = 0, NEW k \in Groups PROVE Piece(e, k)'
      BY <1>1, <1>2, <2>2 DEF Work
    <3>1. errs[e] = 0
      BY <1>1 DEF TypeOK
    <3>2. Piece(e, k)
      BY <1>1, <3>1 DEF PartsInv, Work
    <3>5. Piece(e, g)' /\ \A p \in Parts \ PartsOf(g) : out'[p] = out[p]
      BY <1>1, <3>1 DEF PartsInv, Work
    <3>3. CASE k = g
      BY <3>3, <3>5
    <3>4. CASE k # g
      <4>1. go'[e][k] = go[e][k] /\ src'[k] = src[k]
        BY <1>1, <3>4, GroupsAll
      <4>2. PartsOf(k) \subseteq Parts \ PartsOf(g)
        BY <3>4 DEF PartsOf
      <4> QED
        BY <1>2, <3>2, <3>5, <4>1, <4>2 DEF Piece, Full
    <3> QED
      BY <3>3, <3>4
  <2> QED
    BY <2>1, <2>2
<1> QED
  BY <1>3, <1>4, <1>5, <1>6 DEF PartsInv

\* A goroutine that ends with an error has nothing to show.
LEMMA GroupErrorInv ==
    ASSUME PartsInv, TypeOK', NEW e \in Executors, NEW g \in Groups,
           go[e][g].pc \notin {"none", "ended"}, GroupError(e, g), Alone' => Alone,
           UNCHANGED <<mode, pc, attempt, expired, src, out>>
    PROVE  PartsInv'
<1>1. TypeOK /\ g \in AllGroups
  BY GroupsAll DEF PartsInv
<1>2. /\ \A f \in Executors \ {e} : go'[f] = go[f] /\ cancelled'[f] = cancelled[f]
      /\ \A k \in AllGroups \ {g} : go'[e][k] = go[e][k] /\ src'[k] = src[k]
      /\ \A f \in Executors : errs'[f] >= errs[f]
      /\ errs'[e] > 0
  BY <1>1, GroupErrorType
<1>3. errs'[e] # 0
  BY <1>1, <1>2 DEF TypeOK
<1> QED
  BY <1>2, <1>3, GroupInv

\* One that goes on, or ends without an error.
LEMMA GroupMoveInv ==
    ASSUME PartsInv, TypeOK', NEW e \in Executors, NEW g \in Groups,
           go[e][g].pc \notin {"none", "ended"},
           Alone' => Alone,
           UNCHANGED <<mode, pc, attempt, expired, cancelled, errs>>,
           \A f \in Executors \ {e} : go'[f] = go[f],
           \A k \in AllGroups \ {g} : go'[e][k] = go[e][k],
           \A k \in AllGroups \ {g} : src'[k] = src[k],
           \A p \in Parts : out[p] # "none" => out'[p] # "none",
           (Alone /\ ~expired[e] /\ errs[e] = 0 /\ Piece(e, g)) =>
               Piece(e, g)' /\ \A p \in Parts \ PartsOf(g) : out'[p] = out[p]
    PROVE  PartsInv'
<1>1. \A f \in Executors : errs'[f] >= errs[f]
  BY DEF PartsInv, TypeOK
<1> QED
  BY <1>1, GroupInv

\* Until the copying begins.
LEMMA EnterInv ==
    ASSUME PartsInv, TypeOK', NEW e \in Executors, NEW g \in Groups,
           Acquire(e, g) \/ GiveWay(e, g)
    PROVE  PartsInv'
<1>1. TypeOK /\ g \in AllGroups
  BY GroupsAll DEF PartsInv
<1>2. /\ go[e][g].pc = "select"
      /\ Alone' <=> Alone
      /\ UNCHANGED <<mode, pc, attempt, expired, cancelled, errs, src, out>>
  BY DEF Acquire, GiveWay, At, attemptVars, Alone
<1>3. CASE Acquire(e, g)
  <2>1. /\ go'[e][g].pc = "mkdir"
        /\ \A f \in Executors \ {e} : go'[f] = go[f]
        /\ \A k \in AllGroups \ {g} : go'[e][k] = go[e][k]
    BY <1>1, <1>3, GotoType DEF Acquire, GoPC
  <2>2. Piece(e, g)'
    BY <2>1 DEF Piece
  <2> QED
    BY <1>1, <1>2, <2>1, <2>2, GroupMoveInv
<1>4. CASE GiveWay(e, g)
  <2>1. pc[e] = "wait"
    BY <1>2 DEF PartsInv, Quiet
  <2>2. ~(~expired[e] /\ errs[e] = 0)
    BY <1>1, <1>4, <2>1 DEF GiveWay, Done, PartsInv, Cancels, TypeOK
  <2>3. /\ \A f \in Executors \ {e} : go'[f] = go[f]
        /\ \A k \in AllGroups \ {g} : go'[e][k] = go[e][k]
    BY <1>1, <1>4, EndType DEF GiveWay
  <2> QED
    BY <1>1, <1>2, <2>2, <2>3, GroupMoveInv
<1> QED
  BY <1>3, <1>4

LEMMA MakeDirInv ==
    ASSUME PartsInv, TypeOK', NEW e \in Executors, NEW g \in Groups, MakeDir(e, g)
    PROVE  PartsInv'
<1>1. TypeOK /\ g \in AllGroups
  BY GroupsAll DEF PartsInv
<1>2. /\ go[e][g].pc = "mkdir"
      /\ UNCHANGED <<mode, pc, attempt, expired, out>>
  BY DEF MakeDir, At
<1>3. Alone' => Alone
  BY <1>1, SpendType DEF MakeDir, Hazards
<1>4. CASE GroupError(e, g) /\ UNCHANGED src
  BY <1>1, <1>2, <1>3, <1>4, GroupErrorInv
<1>5. CASE /\ src' = [src EXCEPT ![g] = IF src[g] = "absent" THEN "empty" ELSE src[g]]
           /\ Goto(e, g, "start")
           /\ UNCHANGED <<cancelled, errs>>
  <2>1. /\ go'[e][g].pc = "start"
        /\ \A f \in Executors \ {e} : go'[f] = go[f]
        /\ \A k \in AllGroups \ {g} : go'[e][k] = go[e][k]
    BY <1>1, <1>5, GotoType DEF GoPC
  <2>2. src'[g] # "absent" /\ \A k \in AllGroups \ {g} : src'[k] = src[k]
    BY <1>1, <1>5 DEF TypeOK
  <2>3. Piece(e, g)'
    BY <2>1, <2>2 DEF Piece
  <2>4. UNCHANGED <<mode, pc, attempt, expired, cancelled, errs, out>>
    BY <1>2, <1>5
  <2> QED
    BY <1>1, <1>2, <1>3, <2>1, <2>2, <2>3, <2>4, GroupMoveInv
<1> QED
  BY <1>4, <1>5 DEF MakeDir

LEMMA StartProgramInv ==
    ASSUME PartsInv, TypeOK', NEW e \in Executors, NEW g \in Groups, StartProgram(e, g)
    PROVE  PartsInv'
<1>1. TypeOK /\ g \in AllGroups
  BY GroupsAll DEF PartsInv
<1>2. /\ go[e][g].pc = "start"
      /\ UNCHANGED <<mode, pc, attempt, expired, out>>
      /\ Alone' <=> Alone
  BY DEF StartProgram, At, Alone
<1>4. CASE GroupError(e, g) /\ UNCHANGED src
  BY <1>1, <1>2, <1>4, GroupErrorInv
<1>5. CASE /\ src' = [src EXCEPT ![g] = IF src[g] = "absent" THEN src[g] ELSE "torn"]
           /\ Goto(e, g, "run")
           /\ UNCHANGED <<cancelled, errs>>
  <2>1. /\ go'[e][g].pc = "run"
        /\ \A f \in Executors \ {e} : go'[f] = go[f]
        /\ \A k \in AllGroups \ {g} : go'[e][k] = go[e][k]
    BY <1>1, <1>5, GotoType DEF GoPC
  <2>2. /\ src[g] # "absent" => src'[g] = "torn"
        /\ \A k \in AllGroups \ {g} : src'[k] = src[k]
    BY <1>1, <1>5 DEF TypeOK
  <2>3. Piece(e, g) => Piece(e, g)'
    BY <1>2, <2>1, <2>2 DEF Piece
  <2>4. UNCHANGED <<mode, pc, attempt, expired, cancelled, errs, out>>
    BY <1>2, <1>5
  <2> QED
    BY <1>1, <1>2, <2>1, <2>2, <2>3, <2>4, GroupMoveInv
<1> QED
  BY <1>4, <1>5 DEF StartProgram

LEMMA EndProgramInv ==
    ASSUME PartsInv, TypeOK', NEW e \in Executors, NEW g \in Groups, EndProgram(e, g)
    PROVE  PartsInv'
<1>1. TypeOK /\ g \in AllGroups
  BY GroupsAll DEF PartsInv
<1>2. /\ go[e][g].pc = "run"
      /\ UNCHANGED <<mode, pc, attempt, expired, cancelled, errs, out>>
      /\ Alone' <=> Alone
      /\ PartsOf(g)' = PartsOf(g)
  BY DEF EndProgram, At, attemptVars, Alone, PartsOf, Parts
<1>3. PartsOf(g) \in SUBSET AllParts
  BY <1>1, PartsAll DEF PartsOf
<1>4. /\ go'[e][g] = [pc |-> "open", left |-> PartsOf(g), whole |-> FALSE]
      /\ \A f \in Executors \ {e} : go'[f] = go[f]
      /\ \A k \in AllGroups \ {g} : go'[e][k] = go[e][k]
  BY <1>1, <1>3, CopyingType DEF EndProgram, GoPC
<1>5. Alone => \A f \in Executors \ {e} : go[f][g].pc \in {"none", "ended"}
  BY <1>2 DEF PartsInv, Solo, Quiet
<1>6. /\ (Alone /\ src[g] = "torn") => src'[g] = "full"
      /\ \A k \in AllGroups \ {g} : src'[k] = src[k]
  BY <1>1, <1>5 DEF EndProgram, At, TypeOK
<1>7. (Alone /\ Piece(e, g)) => Piece(e, g)'
  BY <1>2, <1>4, <1>6 DEF Piece, Full
<1> QED
  BY <1>1, <1>2, <1>4, <1>6, <1>7, GroupMoveInv

LEMMA OpenPartInv ==
    ASSUME PartsInv, TypeOK', NEW e \in Executors, NEW g \in Groups, OpenPart(e, g)
    PROVE  PartsInv'
<1>1. TypeOK /\ g \in AllGroups
  BY GroupsAll DEF PartsInv
<1>2. /\ go[e][g].pc = "open"
      /\ UNCHANGED <<mode, pc, attempt, expired, src>>
      /\ Alone' <=> Alone
      /\ PartsOf(g)' = PartsOf(g)
  BY DEF OpenPart, At, Alone, PartsOf, Parts
<1>3. CASE GroupError(e, g) /\ UNCHANGED out
  BY <1>1, <1>2, <1>3, GroupErrorInv
<1>4. CASE /\ \E p \in AllParts : Current(e, g, p) /\ out' = [out EXCEPT ![p] = "torn"]
           /\ Copying(e, g, "copy", go[e][g].left, src[g] = "full")
           /\ UNCHANGED <<cancelled, errs>>
  <2>1. PICK p \in AllParts : p \in go[e][g].left /\ out' = [out EXCEPT ![p] = "torn"]
    BY <1>4 DEF Current
  <2> DEFINE w == src[g] = "full"
  <2>2. /\ go[e][g].left \in SUBSET AllParts /\ w \in BOOLEAN
        /\ Copying(e, g, "copy", go[e][g].left, w)
    BY <1>1, <1>4, GoType, GoFields
  <2>7. src[g] = "full" => w = TRUE
    OBVIOUS
  <2> HIDE DEF w
  <2>3. /\ go'[e][g] = [pc |-> "copy", left |-> go[e][g].left, whole |-> w]
        /\ \A f \in Executors \ {e} : go'[f] = go[f]
        /\ \A k \in AllGroups \ {g} : go'[e][k] = go[e][k]
    BY <1>1, <2>2, CopyingType DEF GoPC
  <2>4. /\ \A q \in Parts \ {p} : out'[q] = out[q]
        /\ \A q \in Parts : out[q] # "none" => out'[q] # "none"
    BY <1>1, <2>1, PartsAll DEF TypeOK
  <2>5. ASSUME Piece(e, g) PROVE Piece(e, g)' /\ \A q \in Parts \ PartsOf(g) : out'[q] = out[q]
    <3>1. src[g] = "full" /\ go[e][g].left \subseteq PartsOf(g) /\ Full(PartsOf(g) \ go[e][g].left)
      BY <1>2, <2>5 DEF Piece
    <3>2. PartsOf(g) \subseteq Parts
      BY DEF PartsOf
    <3>3. /\ go'[e][g].pc = "copy" /\ go'[e][g].whole /\ go'[e][g].left = go[e][g].left
      BY <2>3, <2>7, <3>1
    <3>4. Full(PartsOf(g) \ go[e][g].left)'
      BY <1>2, <2>1, <2>3, <2>4, <3>1, <3>2 DEF Full
    <3>5. Piece(e, g)'
      BY <1>2, <3>1, <3>3, <3>4 DEF Piece
    <3> QED
      BY <2>1, <2>4, <3>1, <3>5
  <2>6. UNCHANGED <<mode, pc, attempt, expired, cancelled, errs, src>>
    BY <1>2, <1>4
  <2> QED
    BY <1>1, <1>2, <2>3, <2>4, <2>5, <2>6, GroupMoveInv
<1> QED
  BY <1>3, <1>4 DEF OpenPart

LEMMA CopyPartInv ==
    ASSUME PartsInv, TypeOK', NEW e \in Executors, NEW g \in Groups, CopyPart(e, g)
    PROVE  PartsInv'
<1>1. TypeOK /\ g \in AllGroups
  BY GroupsAll DEF PartsInv
<1>2. /\ go[e][g].pc = "copy"
      /\ UNCHANGED <<mode, pc, attempt, expired, src>>
      /\ PartsOf(g)' = PartsOf(g)
  BY DEF CopyPart, At, PartsOf, Parts
<1>3. Alone' => Alone
  BY <1>1, SpendType DEF CopyPart, Hazards
<1>4. CASE GroupError(e, g) /\ UNCHANGED out
  BY <1>1, <1>2, <1>3, <1>4, GroupErrorInv
<1>5. ASSUME NEW p \in AllParts, NEW l \in {"remove", "open"}, NEW v \in {"full", "torn"},
             p \in go[e][g].left,
             l = "remove" => go[e][g].left = {p},
             (go[e][g].whole /\ \A f \in Executors \ {e} : ~At(f, g, "copy")) => v = "full",
             out' = [out EXCEPT ![p] = v],
             Copying(e, g, l, go[e][g].left \ {p}, FALSE),
             UNCHANGED <<cancelled, errs>>
      PROVE  PartsInv'
  <2>1. go[e][g].left \ {p} \in SUBSET AllParts /\ l \in GoPC
    BY <1>1, <1>5, GoType, GoFields DEF GoPC
  <2> DEFINE ps == go[e][g].left \ {p}
  <2> HIDE DEF ps
  <2>0. ps \in SUBSET AllParts /\ Copying(e, g, l, ps, FALSE)
    BY <1>5, <2>1 DEF ps
  <2>7. /\ go'[e][g] = [pc |-> l, left |-> ps, whole |-> FALSE]
        /\ \A f \in Executors \ {e} : go'[f] = go[f]
        /\ \A k \in AllGroups \ {g} : go'[e][k] = go[e][k]
    BY <1>1, <2>0, <2>1, CopyingType
  <2>2. /\ go'[e][g] = [pc |-> l, left |-> go[e][g].left \ {p}, whole |-> FALSE]
        /\ \A f \in Executors \ {e} : go'[f] = go[f]
        /\ \A k \in AllGroups \ {g} : go'[e][k] = go[e][k]
    BY <2>7 DEF ps
  <2>3. /\ \A q \in Parts \ {p} : out'[q] = out[q]
        /\ p \in Parts => out'[p] = v
        /\ \A q \in Parts : out[q] # "none" => out'[q] # "none"
    BY <1>1, <1>5, PartsAll DEF TypeOK
  <2>4. Alone => \A f \in Executors \ {e} : go[f][g].pc \in {"none", "ended"}
    BY <1>2 DEF PartsInv, Solo, Quiet
  <2>5. ASSUME Alone, Piece(e, g)
        PROVE  Piece(e, g)' /\ \A q \in Parts \ PartsOf(g) : out'[q] = out[q]
    <3>1. /\ src[g] = "full" /\ go[e][g].whole
          /\ go[e][g].left \subseteq PartsOf(g) /\ Full(PartsOf(g) \ go[e][g].left)
      BY <1>2, <2>5 DEF Piece
    <3>2. PartsOf(g) \subseteq Parts
      BY DEF PartsOf
    <3>3. v = "full"
      BY <1>5, <2>4, <2>5, <3>1 DEF At
    <3>4. \A q \in PartsOf(g) \ (go[e][g].left \ {p}) : out'[q] = "full"
      BY <1>5, <2>3, <3>1, <3>2, <3>3 DEF Full
    <3>5. /\ go'[e][g].pc = l /\ go'[e][g].left = go[e][g].left \ {p}
          /\ go'[e][g].left \subseteq PartsOf(g)
      BY <2>2, <3>1
    <3>6. \A q \in PartsOf(g) \ go'[e][g].left : out'[q] = "full"
      BY <3>4, <3>5
    <3>7. l = "remove" => Full(PartsOf(g))'
      BY <1>2, <1>5, <3>4 DEF Full
    <3>9. src'[g] = "full"
      BY <1>2, <3>1
    <3>10. /\ go'[e][g].pc \notin {"none", "start", "run", "copy", "ended"}
           /\ go'[e][g].pc = "remove" => Full(PartsOf(g))'
      BY <1>5, <3>5, <3>7
    <3>8. Piece(e, g)'
      BY <1>2, <3>5, <3>6, <3>9, <3>10 DEF Piece, Full
    <3> QED
      BY <1>5, <2>3, <3>1, <3>8
  <2>6. UNCHANGED <<mode, pc, attempt, expired, cancelled, errs, src>>
    BY <1>2, <1>5
  <2> QED
    BY <1>1, <1>2, <1>3, <2>2, <2>3, <2>5, <2>6, GroupMoveInv
<1>6. CASE /\ \E p \in AllParts :
                /\ Current(e, g, p)
                /\ out' = [out EXCEPT ![p] =
                              IF go[e][g].whole /\ \A f \in Executors \ {e} : ~At(f, g, "copy")
                              THEN "full" ELSE "torn"]
                /\ Copying(e, g, IF go[e][g].left = {p} THEN "remove" ELSE "open",
                           go[e][g].left \ {p}, FALSE)
           /\ UNCHANGED <<cancelled, errs>>
  <2> DEFINE V == IF go[e][g].whole /\ \A f \in Executors \ {e} : ~At(f, g, "copy")
                  THEN "full" ELSE "torn"
             L(p) == IF go[e][g].left = {p} THEN "remove" ELSE "open"
  <2>1. PICK p \in AllParts : /\ p \in go[e][g].left
                              /\ out' = [out EXCEPT ![p] = V]
                              /\ Copying(e, g, L(p), go[e][g].left \ {p}, FALSE)
    BY <1>6 DEF Current
  <2>2. /\ V \in {"full", "torn"} /\ L(p) \in {"remove", "open"}
        /\ L(p) = "remove" => go[e][g].left = {p}
        /\ (go[e][g].whole /\ \A f \in Executors \ {e} : ~At(f, g, "copy")) => V = "full"
    OBVIOUS
  <2> HIDE DEF V, L
  <2> QED
    BY <1>5, <1>6, <2>1, <2>2
<1> QED
  BY <1>4, <1>6 DEF CopyPart

LEMMA RemoveDirInv ==
    ASSUME PartsInv, TypeOK', NEW e \in Executors, NEW g \in Groups, RemoveDir(e, g)
    PROVE  PartsInv'
<1>1. TypeOK /\ g \in AllGroups
  BY GroupsAll DEF PartsInv
<1>2. /\ go[e][g].pc = "remove"
      /\ UNCHANGED <<mode, pc, attempt, expired, cancelled, errs, out>>
      /\ PartsOf(g)' = PartsOf(g)
  BY DEF RemoveDir, At, attemptVars, PartsOf, Parts
<1>3. /\ go'[e][g].pc = "ended"
      /\ \A f \in Executors \ {e} : go'[f] = go[f]
      /\ \A k \in AllGroups \ {g} : go'[e][k] = go[e][k]
  BY <1>1, EndType DEF RemoveDir
<1>4. (Alone' => Alone) /\ \A k \in AllGroups \ {g} : src'[k] = src[k]
  BY <1>1, RemoveAllType DEF RemoveDir
<1>5. Piece(e, g) => Piece(e, g)'
  BY <1>2, <1>3 DEF Piece, Full
<1> QED
  BY <1>1, <1>2, <1>3, <1>4, <1>5, GroupMoveInv

LEMMA GroupStepInv ==
    ASSUME PartsInv, NEW e \in Executors, NEW g \in Groups, GroupStep(e, g)
    PROVE  PartsInv'
<1>1. TypeOK /\ TypeOK' /\ g \in AllGroups
  BY GroupType, GroupsAll DEF PartsInv
<1>2. ASSUME FailProgram(e, g) PROVE PartsInv'
  <2>1. Alone' => Alone
    BY <1>1, <1>2, SpendType DEF FailProgram, Hazards
  <2>2. go[e][g].pc = "run" /\ UNCHANGED <<mode, pc, attempt, expired, src, out>>
    BY <1>2 DEF FailProgram, At
  <2> QED
    BY <1>1, <1>2, <2>1, <2>2, GroupErrorInv DEF FailProgram
<1> QED
  BY <1>1, <1>2, EnterInv, MakeDirInv, StartProgramInv, EndProgramInv, OpenPartInv,
     CopyPartInv, RemoveDirInv
     DEF GroupStep

LEMMA PartsInvKept == PartsInv /\ [Next]_vars => PartsInv'
<1> SUFFICES ASSUME PartsInv, [Next]_vars PROVE PartsInv'
  OBVIOUS
<1>1. CASE UNCHANGED vars
  BY <1>1 DEF vars, PartsInv, TypeOK, Quiet, Cancels, Solo, BandsThere, Work, Piece, Full,
              Alone, Groups, Parts, PartsOf
<1>2. CASE Next
  BY <1>2, BeginInv, StartGroupsInv, FinishInv, ExpireCrashInv, GroupStepInv
     DEF Next, Step, ExecutorStep
<1> QED
  BY <1>1, <1>2

\* A stage that one executor at a time has worked on and that succeeds before its
\* timeout has every part, complete, whatever the number of parts, groups and
\* places and however often programs, copies and processes failed before
\* (executePanRpc, executePansharpenParallel).
THEOREM PartsSuccess == Spec => []SuccessHasAllParts
<1>1. PartsInv => SuccessHasAllParts
  BY DEF PartsInv, BandsThere, Work, Full, SuccessHasAllParts
<1> QED
  BY <1>1, PartsInvKept, InitInv, PTL DEF Spec

-----------------------------------------------------------------------------
(* The semaphore.  What is bounded is the number of goroutines that hold a *)
(* place; a program runs in one of these.                                  *)

HoldingBounded(e) == Cardinality(Holding(e)) <= Parallelism[mode]

LEMMA GroupsFinite == TypeOK => IsFiniteSet(Groups)
<1> SUFFICES ASSUME TypeOK PROVE IsFiniteSet(Groups)
  OBVIOUS
<1> DEFINE f == [p \in Parts |-> GroupOf(mode, p)]
<1>1. NumParts[mode] \in Int
  BY PartsAssumption DEF TypeOK
<1>2. IsFiniteSet(Parts)
  BY <1>1, FS_Interval DEF Parts, PartsIn
<1>3. f \in Surjection(Parts, Groups)
  BY DEF Surjection, Groups, GroupsIn, Parts
<1> HIDE DEF f
<1> QED
  BY <1>2, <1>3, FS_Surjection

LEMMA HoldingFinite ==
    ASSUME TypeOK, NEW e \in Executors
    PROVE  IsFiniteSet(Holding(e)) /\ Cardinality(Holding(e)) \in Nat
<1>1. Holding(e) \in SUBSET Groups
  BY DEF Holding
<1> QED
  BY <1>1, GroupsFinite, FS_Subset, FS_CardinalityType

\* Giving places back keeps the bound.
LEMMA FewerHold ==
    ASSUME TypeOK, NEW e \in Executors, HoldingBounded(e), UNCHANGED mode,
           NEW T, T \subseteq Holding(e), Holding(e)' = T
    PROVE  HoldingBounded(e)'
<1>1. Cardinality(T) <= Cardinality(Holding(e)) /\ Cardinality(T) \in Nat
  BY HoldingFinite, FS_Subset, FS_CardinalityType
<1>2. Parallelism[mode] \in Nat /\ Cardinality(Holding(e)) \in Nat
  BY HoldingFinite, PartsAssumption DEF TypeOK
<1> QED
  BY <1>1, <1>2 DEF HoldingBounded

LEMMA SameHold ==
    ASSUME TypeOK, NEW e \in Executors, HoldingBounded(e), UNCHANGED mode,
           \A g \in Groups : go'[e][g].pc \in {go[e][g].pc, "none", "select", "ended"}
    PROVE  HoldingBounded(e)'
<1> DEFINE T == Holding(e)'
<1>1. T \subseteq Holding(e)
  BY DEF Holding, Groups
<1> HIDE DEF T
<1>2. Holding(e)' = T
  BY DEF T
<1> QED
  BY <1>1, <1>2, FewerHold

\* A goroutine leaves those of the other groups and executors where they are, and is
\* given a place only at the select statement.
LEMMA GroupGoes ==
    ASSUME TypeOK, NEW e \in Executors, NEW g \in Groups, GroupStep(e, g)
    PROVE  /\ UNCHANGED <<mode, pc, attempt, expired>>
           /\ \A f \in Executors \ {e} : go'[f] = go[f]
           /\ \A k \in Groups \ {g} : go'[e][k] = go[e][k]
           /\ \/ go[e][g].pc \notin {"none", "select", "ended"}
              \/ go'[e][g].pc = "ended"
              \/ Cardinality(Holding(e)) < Parallelism[mode]
<1>0. g \in AllGroups /\ Groups \subseteq AllGroups
  BY GroupsAll
<1>1. UNCHANGED <<mode, pc, attempt, expired>>
  BY DEF GroupStep, Acquire, GiveWay, MakeDir, StartProgram, EndProgram, FailProgram,
         OpenPart, CopyPart, RemoveDir, attemptVars
<1>2. /\ \A f \in Executors \ {e} : go'[f] = go[f]
      /\ \A k \in AllGroups \ {g} : go'[e][k] = go[e][k]
  <2>1. \E r : go' = [go EXCEPT ![e][g] = r]
    BY DEF GroupStep, Acquire, GiveWay, MakeDir, StartProgram, EndProgram, FailProgram,
           OpenPart, CopyPart, RemoveDir, Goto, Copying, End, GroupError
  <2> QED
    BY <1>0, <2>1 DEF TypeOK
<1>3. \/ go[e][g].pc \notin {"none", "select", "ended"}
      \/ go'[e][g].pc = "ended"
      \/ Cardinality(Holding(e)) < Parallelism[mode]
  BY <1>0, EndType
     DEF GroupStep, Acquire, GiveWay, MakeDir, StartProgram, EndProgram, FailProgram,
         OpenPart, CopyPart, RemoveDir, At
<1> QED
  BY <1>0, <1>1, <1>2, <1>3

LEMMA GroupStepBounded ==
    ASSUME TypeOK, \A x \in Executors : HoldingBounded(x),
           NEW e \in Executors, NEW g \in Groups, GroupStep(e, g), NEW f \in Executors
    PROVE  HoldingBounded(f)'
<1>1. CASE f # e
  BY <1>1, GroupGoes, SameHold
<1>2. CASE f = e /\ (go[e][g].pc \notin {"none", "select", "ended"} \/ go'[e][g].pc = "ended")
  <2> DEFINE T == Holding(e)'
  <2>1. T \subseteq Holding(e)
    BY <1>2, GroupGoes DEF Holding, Groups
  <2> HIDE DEF T
  <2>2. Holding(e)' = T
    BY DEF T
  <2> QED
    BY <1>2, <2>1, <2>2, GroupGoes, FewerHold
<1>3. CASE f = e /\ Cardinality(Holding(e)) < Parallelism[mode]
  <2> DEFINE T == Holding(e)'
             S == Holding(e) \cup {g}
  <2>1. T \in SUBSET S
    BY GroupGoes DEF Holding, Groups
  <2>2. IsFiniteSet(S) /\ Cardinality(S) \in {Cardinality(Holding(e)), Cardinality(Holding(e)) + 1}
    BY HoldingFinite, FS_AddElement
  <2> HIDE DEF S, T
  <2>3. IsFiniteSet(T) /\ Cardinality(T) <= Cardinality(S)
    BY <2>1, <2>2, FS_Subset
  <2>4. Cardinality(T) \in Nat /\ Cardinality(Holding(e)) \in Nat /\ Parallelism[mode] \in Nat
    BY <2>3, HoldingFinite, FS_CardinalityType, PartsAssumption DEF TypeOK
  <2>5. Cardinality(T) <= Parallelism[mode]
    BY <1>3, <2>2, <2>3, <2>4
  <2>6. UNCHANGED mode
    BY GroupGoes
  <2> QED
    BY <1>3, <2>5, <2>6 DEF T, HoldingBounded
<1> QED
  BY <1>1, <1>2, <1>3, GroupGoes

LEMMA ExecutorBounded ==
    ASSUME TypeOK, \A x \in Executors : HoldingBounded(x), NEW e \in Executors,
           Begin(e) \/ ExecutorStep(e) \/ Expire(e) \/ Crash(e), NEW f \in Executors
    PROVE  HoldingBounded(f)'
<1>1. UNCHANGED mode
  BY DEF Begin, ExecutorStep, StartGroups, Gather, Tidy, Conclude, Expire, Crash
<1>2. CASE UNCHANGED go
  BY <1>1, <1>2, SameHold
<1>3. CASE StartGroups(e) /\ ~UNCHANGED go
  <2>1. go' = [go EXCEPT ![e] =
                  [g \in AllGroups |-> IF g \in Groups THEN [None EXCEPT !.pc = "select"]
                                       ELSE None]]
    BY <1>3 DEF StartGroups
  <2>2. \A g \in Groups : go'[f][g].pc \in {go[f][g].pc, "select"}
    BY <2>1, GroupsAll DEF TypeOK, None
  <2> QED
    BY <1>1, <2>2, SameHold
<1>4. CASE Crash(e)
  <2>1. \A g \in Groups : go'[f][g].pc \in {go[f][g].pc, "none"}
    BY <1>4, GroupsAll DEF Crash, TypeOK, None
  <2> QED
    BY <1>1, <2>1, SameHold
<1> QED
  BY <1>2, <1>3, <1>4 DEF Begin, ExecutorStep, Gather, Tidy, Conclude, Expire

\* At most Parallelism programs of a stage run, whatever errors, timeouts and kills
\* end goroutines: each of them gives its place back (the semaphore of executePanRpc
\* and of executePansharpenParallel).
THEOREM ProgramsLimited == Spec => []ProgramsBounded
<1> DEFINE Bounded == \A e \in Executors : HoldingBounded(e)
<1>1. Init => Bounded
  <2> SUFFICES ASSUME Init, NEW e \in Executors PROVE HoldingBounded(e)
    OBVIOUS
  <2>1. TypeOK
    BY InitType
  <2>2. Holding(e) = {}
    BY <2>1, GroupsAll DEF Init, Holding, None
  <2>3. Parallelism[mode] \in Nat
    BY <2>1, PartsAssumption DEF TypeOK
  <2> QED
    BY <2>2, <2>3, FS_EmptySet DEF HoldingBounded
<1>2. TypeOK /\ Bounded /\ [Next]_vars => Bounded'
  <2> SUFFICES ASSUME TypeOK, Bounded, [Next]_vars, NEW f \in Executors
               PROVE  HoldingBounded(f)'
    OBVIOUS
  <2>1. CASE UNCHANGED vars
    BY <2>1, SameHold DEF vars
  <2>2. CASE Next
    BY <2>2, ExecutorBounded, GroupStepBounded DEF Next, Step
  <2> QED
    BY <2>1, <2>2
<1>3. TypeOK /\ Bounded => ProgramsBounded
  <2> SUFFICES ASSUME TypeOK, Bounded, NEW e \in Executors
               PROVE  Cardinality({g \in Groups : At(e, g, "run")}) <= Parallelism[mode]
    BY DEF ProgramsBounded
  <2> DEFINE R == {g \in Groups : At(e, g, "run")}
  <2>1. R \in SUBSET Holding(e)
    BY DEF Holding, At
  <2> HIDE DEF R
  <2>2. Cardinality(R) <= Cardinality(Holding(e)) /\ Cardinality(R) \in Nat
    BY <2>1, HoldingFinite, FS_Subset, FS_CardinalityType
  <2>3. Parallelism[mode] \in Nat /\ Cardinality(Holding(e)) \in Nat
    BY HoldingFinite, PartsAssumption DEF TypeOK
  <2> QED
    BY <2>2, <2>3 DEF HoldingBounded, R
<1> QED
  BY <1>1, <1>2, <1>3, PartsTypeCorrect, PTL DEF Spec

-----------------------------------------------------------------------------
(* Every failed attempt was charged to a hazard.                           *)

Cost == spent["script"] + spent["file"] + spent["timeout"]

\* The attempt in progress will not succeed, for a hazard that has struck in it.
Reason(e) ==
    \/ Active(e) /\ expired[e]
    \/ pc[e] = "wait" /\ errs[e] > 0

Charged(e) == FailedAttempts(e) + (IF Reason(e) THEN 1 ELSE 0) <= Cost

PaidInv == PartsInv /\ (Alone => \A e \in Executors : Charged(e))

LEMMA CostType == TypeOK => Cost \in Nat
BY DEF TypeOK, Cost, Hazards

LEMMA SpendCost ==
    ASSUME TypeOK
    PROVE  /\ \A h \in {"script", "file", "timeout"} : Spend(h) => Cost' = Cost + 1
           /\ \A h \in Hazards : Spend(h) => Cost' >= Cost
           /\ NoHazard => Cost' = Cost
<1>1. spent \in [Hazards -> Nat]
  BY DEF TypeOK
<1>2. ASSUME NEW h \in Hazards, Spend(h)
      PROVE  \A k \in Hazards : spent'[k] = IF k = h THEN spent[k] + 1 ELSE spent[k]
  BY <1>1, <1>2 DEF Spend
<1>3. ASSUME NEW h \in {"script", "file", "timeout"}, Spend(h)
      PROVE  Cost' = Cost + 1
  <2>1. h \in Hazards /\ \A k \in {"script", "file", "timeout"} : k \in Hazards
    BY DEF Hazards
  <2>2. \A k \in {"script", "file", "timeout"} :
            spent'[k] = IF k = h THEN spent[k] + 1 ELSE spent[k]
    BY <1>2, <1>3, <2>1
  <2>3. \A k \in {"script", "file", "timeout"} : spent[k] \in Nat
    BY <1>1, <2>1
  <2> QED
    BY <2>2, <2>3 DEF Cost
<1>4. ASSUME NEW h \in Hazards, Spend(h)
      PROVE  Cost' >= Cost
  <2>1. \A k \in {"script", "file", "timeout"} : k \in Hazards
    BY DEF Hazards
  <2>2. \A k \in {"script", "file", "timeout"} : spent[k] \in Nat /\ spent'[k] >= spent[k]
                                                 /\ spent'[k] \in Nat
    BY <1>1, <1>2, <1>4, <2>1
  <2> QED
    BY <2>2 DEF Cost
<1>5. NoHazard => Cost' = Cost
  BY DEF NoHazard, Cost
<1> QED
  BY <1>3, <1>4, <1>5

\* An attempt that goes on is charged with what it was, or with a new hazard.
LEMMA ChargedKept ==
    ASSUME TypeOK, TypeOK', NEW e \in Executors, Charged(e),
           attempt'[e] = attempt[e], pc[e] # "failed", pc'[e] # "failed",
           Cost' >= Cost, Reason(e)' => Reason(e) \/ Cost' = Cost + 1
    PROVE  Charged(e)'
<1>1. FailedAttempts(e)' = FailedAttempts(e) /\ FailedAttempts(e) \in Int
  BY DEF FailedAttempts, TypeOK
<1>2. Cost \in Nat /\ Cost' \in Nat
  BY DEF TypeOK, Cost, Hazards
<1> QED
  BY <1>1, <1>2 DEF Charged

\* So is one of another executor, whatever that did.
LEMMA OtherCharged ==
    ASSUME TypeOK, TypeOK', NEW f \in Executors, Charged(f), Cost' >= Cost,
           pc'[f] = pc[f], attempt'[f] = attempt[f], expired'[f] = expired[f],
           errs'[f] = errs[f]
    PROVE  Charged(f)'
<1>1. FailedAttempts(f)' = FailedAttempts(f) /\ FailedAttempts(f) \in Int
  BY DEF FailedAttempts, TypeOK
<1>2. Reason(f)' <=> Reason(f)
  BY DEF Reason, Active
<1>3. Cost \in Nat /\ Cost' \in Nat
  BY DEF TypeOK, Cost, Hazards
<1> QED
  BY <1>1, <1>2, <1>3 DEF Charged

LEMMA FailedCharged ==
    ASSUME TypeOK, TypeOK', NEW e \in Executors, Charged(e), AttemptFails(e),
           pc[e] # "failed", Cost' >= Cost, Reason(e) \/ Cost' = Cost + 1
    PROVE  Charged(e)'
<1>1. /\ FailedAttempts(e) = attempt[e] - 1
      /\ attempt[e] \in Int
  BY PartsAssumption DEF FailedAttempts, TypeOK
<1>2. Cost \in Nat /\ Cost' \in Nat
  BY DEF TypeOK, Cost, Hazards
<1>3. FailedAttempts(e)' = attempt[e] /\ ~Reason(e)'
  <2>1. CASE attempt[e] <= MaxRetries
    <3>1. pc'[e] = "clean" /\ attempt'[e] = attempt[e] + 1 /\ ~expired'[e]
      BY <2>1 DEF AttemptFails, NewContext, TypeOK
    <3> QED
      BY <1>1, <3>1 DEF FailedAttempts, Reason
  <2>2. CASE ~(attempt[e] <= MaxRetries)
    <3>1. pc'[e] = "failed" /\ attempt'[e] = attempt[e]
      BY <2>2 DEF AttemptFails, TypeOK
    <3> QED
      BY <3>1 DEF FailedAttempts, Reason, Active
  <2> QED
    BY <2>1, <2>2
<1> QED
  BY <1>1, <1>2, <1>3 DEF Charged

LEMMA ExecutorPaid ==
    ASSUME PaidInv, NEW e \in Executors, Begin(e) \/ ExecutorStep(e) \/ Expire(e) \/ Crash(e),
           Alone, TypeOK'
    PROVE  \A f \in Executors : Charged(f)'
<1>0. TypeOK /\ PartsInv /\ \A f \in Executors : Charged(f)
  BY DEF PaidInv, PartsInv
<1>1. Cost' >= Cost
  <2>1. \/ \E h \in Hazards : Spend(h)
        \/ NoHazard
    BY DEF Begin, ExecutorStep, StartGroups, Gather, Tidy, Conclude, Expire, Crash, RemoveAll,
           NoHazard, Hazards
  <2> QED
    BY <1>0, <2>1, SpendCost, CostType
<1>2. \A f \in Executors \ {e} : /\ pc'[f] = pc[f] /\ attempt'[f] = attempt[f]
                                 /\ expired'[f] = expired[f] /\ errs'[f] = errs[f]
  BY <1>0 DEF TypeOK, Begin, ExecutorStep, StartGroups, Gather, Tidy, Conclude, Expire, Crash,
              AttemptFails, NewContext
<1>3. Charged(e)'
  <2>1. CASE Begin(e)
    <3>1. pc'[e] = "clean" /\ attempt'[e] = 1 /\ ~expired'[e]
      BY <1>0, <2>1 DEF Begin, NewContext, TypeOK
    <3>2. FailedAttempts(e)' = 0 /\ ~Reason(e)'
      BY <3>1 DEF FailedAttempts, Reason
    <3>3. Cost' \in Nat
      BY DEF TypeOK, Cost, Hazards
    <3> QED
      BY <3>2, <3>3 DEF Charged
  <2>2. CASE StartGroups(e)
    <3>1. CASE AttemptFails(e)
      <4>1. pc[e] = "clean" /\ Spend("file")
        BY <1>0, <2>2, <3>1, AttemptFailsType DEF StartGroups, TypeOK
      <4> QED
        BY <1>0, <1>1, <3>1, <4>1, SpendCost, FailedCharged
    <3>2. CASE ~AttemptFails(e)
      <4>1. /\ pc[e] = "clean" /\ pc'[e] = "wait" /\ errs'[e] = 0
            /\ UNCHANGED <<attempt, expired>>
        BY <1>0, <2>2, <3>2 DEF StartGroups, TypeOK
      <4>2. Reason(e)' => Reason(e)
        BY <4>1 DEF Reason, Active
      <4> QED
        BY <1>0, <1>1, <4>1, <4>2, ChargedKept
    <3> QED
      BY <3>1, <3>2
  <2>3. CASE Gather(e)
    <3>1. CASE errs[e] > 0
      <4>1. AttemptFails(e) /\ pc[e] = "wait" /\ Reason(e)
        BY <2>3, <3>1 DEF Gather, Reason
      <4> QED
        BY <1>0, <1>1, <4>1, FailedCharged
    <3>2. CASE ~(errs[e] > 0)
      <4>1. pc[e] = "wait" /\ pc'[e] = "tidy" /\ UNCHANGED <<attempt, expired>>
        BY <1>0, <2>3, <3>2 DEF Gather, TypeOK
      <4>2. Reason(e)' => Reason(e)
        BY <4>1 DEF Reason, Active
      <4> QED
        BY <1>0, <1>1, <4>1, <4>2, ChargedKept
    <3> QED
      BY <3>1, <3>2
  <2>4. CASE Tidy(e)
    <3>1. pc[e] = "tidy" /\ pc'[e] = "check" /\ UNCHANGED <<attempt, expired>>
      BY <1>0, <2>4 DEF Tidy, TypeOK
    <3>2. Reason(e)' => Reason(e)
      BY <3>1 DEF Reason, Active
    <3> QED
      BY <1>0, <1>1, <3>1, <3>2, ChargedKept
  <2>5. CASE Conclude(e)
    <3>1. CASE OutputsExist
      <4>1. pc[e] = "check" /\ pc'[e] = "success" /\ UNCHANGED attempt
        BY <1>0, <2>5, <3>1 DEF Conclude, TypeOK
      <4>2. ~Reason(e)'
        BY <4>1 DEF Reason, Active
      <4> QED
        BY <1>0, <1>1, <4>1, <4>2, ChargedKept
    <3>2. CASE ~OutputsExist
      <4>1. pc[e] = "check" /\ AttemptFails(e)
        BY <2>5, <3>2 DEF Conclude
      <4>2. expired[e]
        BY <1>0, <3>2, <4>1 DEF PartsInv, Work, Full, OutputsExist, TypeOK
      <4>3. Reason(e)
        BY <4>1, <4>2 DEF Reason, Active
      <4> QED
        BY <1>0, <1>1, <4>1, <4>3, FailedCharged
    <3> QED
      BY <3>1, <3>2
  <2>6. CASE Expire(e)
    <3>1. /\ Cost' = Cost + 1 /\ UNCHANGED <<pc, attempt>> /\ pc[e] # "failed"
      BY <1>0, <2>6, SpendCost DEF Expire, Active
    <3> QED
      BY <1>0, <1>1, <3>1, ChargedKept
  <2>7. CASE Crash(e)
    <3>1. pc'[e] = "idle" /\ UNCHANGED attempt /\ pc[e] # "failed"
      BY <1>0, <2>7 DEF Crash, Active, TypeOK
    <3>2. ~Reason(e)'
      BY <3>1 DEF Reason, Active
    <3> QED
      BY <1>0, <1>1, <3>1, <3>2, ChargedKept
  <2> QED
    BY <2>1, <2>2, <2>3, <2>4, <2>5, <2>6, <2>7 DEF ExecutorStep
<1> QED
  BY <1>0, <1>1, <1>2, <1>3, OtherCharged

\* A goroutine sends an error if a hazard has struck: without one its program is
\* started and finds its directory, and its parts are there to be copied.
LEMMA ErrorHasReason ==
    ASSUME PaidInv, NEW e \in Executors, NEW g \in Groups, GroupStep(e, g), Alone
    PROVE  UNCHANGED errs \/ Reason(e) \/ Cost' = Cost + 1
<1>0. TypeOK /\ PartsInv /\ g \in AllGroups
  BY GroupsAll DEF PaidInv, PartsInv
<1>1. ASSUME go[e][g].pc \in {"start", "run", "open"}
      PROVE  pc[e] = "wait"
  BY <1>0, <1>1 DEF PartsInv, Quiet
<1>2. ASSUME Done(e), pc[e] = "wait"
      PROVE  Reason(e)
  BY <1>0, <1>2 DEF Done, Reason, Active, PartsInv, Cancels
<1>3. CASE MakeDir(e, g)
  BY <1>0, <1>3, SpendCost DEF MakeDir
<1>4. CASE StartProgram(e, g)
  <2>1. UNCHANGED errs \/ Done(e)
    BY <1>4 DEF StartProgram
  <2> QED
    BY <1>1, <1>2, <1>4, <2>1 DEF StartProgram, At
<1>5. CASE FailProgram(e, g)
  BY <1>0, <1>1, <1>2, <1>5, SpendCost DEF FailProgram, At
<1>6. CASE OpenPart(e, g)
  <2>1. CASE src[g] \in {"absent", "empty"}
    <3>1. pc[e] = "wait" /\ go[e][g].pc = "open"
      BY <1>1, <1>6 DEF OpenPart, At
    <3>2. ~Piece(e, g)
      BY <2>1, <3>1 DEF Piece
    <3>3. expired[e] \/ errs[e] # 0
      BY <1>0, <3>1, <3>2 DEF PartsInv, Work
    <3>4. errs[e] \in Nat
      BY <1>0 DEF TypeOK
    <3> QED
      BY <3>1, <3>3, <3>4 DEF Reason, Active
  <2>2. CASE src[g] \notin {"absent", "empty"}
    BY <1>6, <2>2 DEF OpenPart
  <2> QED
    BY <2>1, <2>2
<1>7. CASE CopyPart(e, g)
  BY <1>0, <1>7, SpendCost DEF CopyPart
<1> QED
  BY <1>3, <1>4, <1>5, <1>6, <1>7
     DEF GroupStep, Acquire, GiveWay, EndProgram, RemoveDir

LEMMA GroupPaid ==
    ASSUME PaidInv, NEW e \in Executors, NEW g \in Groups, GroupStep(e, g), Alone, TypeOK'
    PROVE  \A f \in Executors : Charged(f)'
<1>0. TypeOK /\ PartsInv /\ \A f \in Executors : Charged(f)
  BY DEF PaidInv, PartsInv
<1>1. Cost' >= Cost
  <2>1. \/ \E h \in Hazards : Spend(h)
        \/ NoHazard
    BY DEF GroupStep, Acquire, GiveWay, MakeDir, StartProgram, EndProgram, FailProgram,
           OpenPart, CopyPart, RemoveDir, RemoveAll, NoHazard, Hazards
  <2> QED
    BY <1>0, <2>1, SpendCost, CostType
<1>2. UNCHANGED <<pc, attempt, expired>>
  BY <1>0, GroupGoes
<1>3. \A f \in Executors \ {e} : errs'[f] = errs[f]
  BY <1>0 DEF TypeOK, GroupStep, Acquire, GiveWay, MakeDir, StartProgram, EndProgram,
              FailProgram, OpenPart, CopyPart, RemoveDir, GroupError
<1>4. pc[e] = "wait"
  <2>1. go[e][g].pc \notin {"none", "ended"}
    BY DEF GroupStep, Acquire, GiveWay, MakeDir, StartProgram, EndProgram, FailProgram,
           OpenPart, CopyPart, RemoveDir, At
  <2> QED
    BY <1>0, <2>1 DEF PartsInv, Quiet
<1>5. Reason(e)' => Reason(e) \/ Cost' = Cost + 1
  BY <1>2, <1>4, ErrorHasReason DEF Reason, Active
<1>6. Charged(e)'
  BY <1>0, <1>1, <1>2, <1>4, <1>5, ChargedKept
<1> QED
  BY <1>0, <1>1, <1>2, <1>3, <1>6, OtherCharged

\* An attempt of an executor that is alone fails only through a failed program, a file
\* error or the timeout, and each of these fails one attempt: neither the directories
\* of a killed executor nor the files and the context of a failed attempt make another
\* one fail.
THEOREM AttemptsFailForAReason == Spec => []FailsForAReason
<1>1. Init => PaidInv
  <2> SUFFICES ASSUME Init, NEW e \in Executors PROVE Charged(e)
    BY InitInv DEF PaidInv
  <2>1. TypeOK
    BY InitType
  <2>2. FailedAttempts(e) = 0 /\ ~Reason(e)
    BY DEF Init, FailedAttempts, Reason, Active
  <2> QED
    BY <2>1, <2>2, CostType DEF Charged
<1>2. PaidInv /\ [Next]_vars => PaidInv'
  <2> SUFFICES ASSUME PaidInv, [Next]_vars PROVE PaidInv'
    OBVIOUS
  <2>1. TypeOK /\ PartsInv /\ PartsInv' /\ TypeOK'
    BY PartsInvKept DEF PaidInv, PartsInv
  <2>2. CASE UNCHANGED vars
    BY <2>1, <2>2
       DEF vars, PaidInv, Alone, Charged, FailedAttempts, Reason, Active, Cost
  <2>3. CASE Next
    <3> SUFFICES ASSUME Alone' PROVE \A f \in Executors : Charged(f)'
      BY <2>1 DEF PaidInv
    <3>1. PICK e \in Executors : Begin(e) \/ Step(e) \/ Expire(e) \/ Crash(e)
      BY <2>3 DEF Next
    <3>2. Alone
      <4>1. \A h \in Hazards : spent'[h] >= spent[h]
        <5>1. \/ \E h \in Hazards : Spend(h)
              \/ NoHazard
          BY <3>1
             DEF Begin, Step, ExecutorStep, StartGroups, Gather, Tidy, Conclude, Expire, Crash,
                 GroupStep, Acquire, GiveWay, MakeDir, StartProgram, EndProgram, FailProgram,
                 OpenPart, CopyPart, RemoveDir, RemoveAll, attemptVars, NoHazard, Hazards
        <5> QED
          BY <2>1, <5>1 DEF Spend, NoHazard, TypeOK
      <4> QED
        BY <2>1, <4>1 DEF Alone, TypeOK, Hazards
    <3> QED
      BY <2>1, <3>1, <3>2, ExecutorPaid, GroupPaid DEF Step
  <2> QED
    BY <2>2, <2>3
<1>3. PaidInv => FailsForAReason
  <2> SUFFICES ASSUME PaidInv, NEW e \in Executors, Alone
               PROVE  FailedAttempts(e) <= Cost
    BY DEF FailsForAReason, Cost
  <2>1. TypeOK /\ Charged(e)
    BY DEF PaidInv, PartsInv
  <2>2. FailedAttempts(e) \in Int /\ Cost \in Nat
    BY <2>1, CostType, PartsAssumption DEF FailedAttempts, TypeOK
  <2> QED
    BY <2>1, <2>2 DEF Charged
<1> QED
  BY <1>1, <1>2, <1>3, PTL DEF Spec
=============================================================================
