----------------------------- MODULE ForgeProofs -----------------------------
(***************************************************************************)
(* Theorems about ForgeBuild, for any finite set of files and of workers,  *)
(* any import lists, cycles and self imports included, and any choice of   *)
(* clean files and failing compilations.                                   *)
(*                                                                         *)
(* The invariants of the runs are not inductive.  What makes them so:      *)
(*   FlightInv      a Running file is to be compiled or was, never both,   *)
(*                  and, until main gives up, is in exactly one place      *)
(*   RegisteredInv  a file has one id, and one register_file call at most  *)
(*   LinkInv        dependents holds g once per line of g that was linked  *)
(*   DegreeInv      in_degree is 0 while a file is scanned and the number  *)
(*                  of its open lines once the graph is complete           *)
(*   OrderInv       what is handed out or skipped has no open line         *)
(* EarlyInv, RemainInv, SkipInv and BoxInv follow the remaining counters   *)
(* and sets through the phases of main.                                    *)
(***************************************************************************)
EXTENDS ForgeBuild, FiniteSetTheorems, TLAPS

-----------------------------------------------------------------------------
(* Counting the entries of a sequence                                      *)

At(s, y) == {i \in DOMAIN s : s[i] = y}

LEMMA CountIsNat ==
    ASSUME NEW S, NEW s \in Seq(S), NEW y
    PROVE  /\ IsFiniteSet(At(s, y)) /\ Count(s, y) = Cardinality(At(s, y))
           /\ Count(s, y) \in Nat
           /\ Count(s, y) = 0 <=> \A i \in DOMAIN s : s[i] # y
<1>1. IsFiniteSet(DOMAIN s)
  BY FS_Interval
<1>2. At(s, y) \in SUBSET DOMAIN s
  BY DEF At
<1>3. IsFiniteSet(At(s, y)) /\ Cardinality(At(s, y)) \in Nat
  BY <1>1, <1>2, FS_Subset, FS_CardinalityType
<1>4. Count(s, y) = Cardinality(At(s, y))
  BY DEF Count, At
<1>5. Cardinality(At(s, y)) = 0 <=> At(s, y) = {}
  BY <1>3, FS_EmptySet
<1>. QED
  BY <1>3, <1>4, <1>5 DEF At

LEMMA CountEmpty ==
    ASSUME NEW y PROVE Count(<<>>, y) = 0
BY FS_EmptySet DEF Count

LEMMA CountAppend ==
    ASSUME NEW S, NEW s \in Seq(S), NEW x \in S, NEW y
    PROVE  Count(Append(s, x), y) = Count(s, y) + (IF x = y THEN 1 ELSE 0)
<1>. DEFINE t == Append(s, x)
            n == Len(s) + 1
<1>1. t \in Seq(S)
  OBVIOUS
<1>2. n \notin At(s, y)
  BY DEF At
<1>3. Count(t, y) = Cardinality(At(t, y)) /\ Count(s, y) = Cardinality(At(s, y))
  BY <1>1, CountIsNat
<1>4. x = y => At(t, y) = At(s, y) \cup {n}
  BY DEF At
<1>5. x # y => At(t, y) = At(s, y)
  BY DEF At
<1>6. Cardinality(At(s, y) \cup {n}) = Cardinality(At(s, y)) + 1
  BY <1>2, CountIsNat, FS_AddElement
<1>7. Count(s, y) \in Nat
  BY CountIsNat
<1>. HIDE DEF t, n
<1>8. x = y => Count(t, y) = Count(s, y) + 1
  BY <1>3, <1>4, <1>6
<1>9. x # y => Count(t, y) = Count(s, y)
  BY <1>3, <1>5
<1>. QED
  BY <1>7, <1>8, <1>9 DEF t

LEMMA CountTail ==
    ASSUME NEW S, NEW s \in Seq(S), s # <<>>, NEW y
    PROVE  Count(s, y) = Count(Tail(s), y) + (IF Head(s) = y THEN 1 ELSE 0)
<1>. DEFINE t == Tail(s)
            R == At(s, y) \ {1}
            f == [i \in At(t, y) |-> i + 1]
<1>1. /\ t \in Seq(S) /\ Len(t) = Len(s) - 1 /\ Head(s) = s[1]
      /\ \A i \in 1..Len(t) : t[i] = s[i + 1]
  OBVIOUS
<1>2. f \in Bijection(At(t, y), R)
  <2>1. f \in [At(t, y) -> R]
    BY <1>1 DEF At
  <2>2. \A i, j \in At(t, y) : f[i] = f[j] => i = j
    BY <1>1 DEF At
  <2>3. \A r \in R : \E i \in At(t, y) : f[i] = r
    <3>. TAKE r \in R
    <3>1. r - 1 \in At(t, y) /\ f[r - 1] = r
      BY <1>1 DEF At
    <3>. QED
      BY <3>1
  <2>. QED
    BY <2>1, <2>2, <2>3 DEF Bijection, Injection, Surjection, IsInjective
<1>3. Cardinality(R) = Cardinality(At(t, y))
  BY <1>1, <1>2, CountIsNat, FS_Bijection DEF ExistsBijection
<1>4. Cardinality(R) = IF 1 \in At(s, y) THEN Cardinality(At(s, y)) - 1
                                         ELSE Cardinality(At(s, y))
  BY CountIsNat, FS_RemoveElement
<1>5. 1 \in At(s, y) <=> Head(s) = y
  BY <1>1 DEF At
<1>6. /\ Count(s, y) = Cardinality(At(s, y)) /\ Count(s, y) \in Nat
      /\ Count(t, y) = Cardinality(At(t, y)) /\ Count(t, y) \in Nat
  BY <1>1, CountIsNat
<1>. HIDE DEF t, R
<1>7. Head(s) = y => Count(s, y) - 1 = Count(t, y)
  BY <1>3, <1>4, <1>5, <1>6
<1>8. Head(s) # y => Count(s, y) = Count(t, y)
  BY <1>3, <1>4, <1>5, <1>6
<1>. QED
  BY <1>6, <1>7, <1>8 DEF t

LEMMA CountHead ==
    ASSUME NEW S, NEW s \in Seq(S), s # <<>>
    PROVE  Head(s) \in S /\ Tail(s) \in Seq(S) /\ Count(s, Head(s)) > 0
BY CountTail, CountIsNat

-----------------------------------------------------------------------------
(* Types                                                                   *)

TypeInv ==
    /\ imports \in [Files -> ImportLists] /\ clean \subseteq Files
    /\ phase \in Phases
    /\ stack \in Seq(Files \X (Nat \ {0})) /\ (phase = "register" => stack # <<>>)
    /\ registered \in Seq(Files)
    /\ state \in [Files -> States]
    /\ inDegree \in [Files -> Int]
    /\ dependents \in [Files -> Seq(Files)]
    /\ ready \subseteq Files
    /\ idx \in Nat \ {0} /\ remaining \in Int
    /\ wpc \in [Workers -> {"recv", "run", "report"}]
    /\ outcome \in [Workers -> BOOLEAN]
    /\ execQ \in Seq(Files) /\ resQ \in Seq(Files \X BOOLEAN)
    /\ DOMAIN execReply = {Main} \cup Workers
    /\ \A w \in Workers : wpc[w] # "recv" => Job(w) \in Files
    /\ runs \in [Files -> Nat]
    /\ cached \subseteq Files /\ boxes \subseteq Files

LEMMA ExecSend ==
    ASSUME NEW f, Exec!Send(Main, f)
    PROVE  /\ execQ' = Append(execQ, f)
           /\ execReply' = [execReply EXCEPT ![Main] = Exec!Accepted]
BY DEF Exec!Send

LEMMA ExecRecv ==
    ASSUME NEW w, Exec!Recv(w)
    PROVE  /\ execQ # <<>> /\ execQ' = Tail(execQ)
           /\ execReply' = [execReply EXCEPT ![w] = <<"got", Head(execQ)>>]
BY DEF Exec!Recv, Exec!Got

LEMMA ResSend ==
    ASSUME NEW w, NEW r, Res!Send(w, r)
    PROVE  resQ' = Append(resQ, r)
BY DEF Res!Send

LEMMA ResRecv ==
    ASSUME Res!Recv(Main)
    PROVE  resQ # <<>> /\ resQ' = Tail(resQ)
BY DEF Res!Recv

\* The import lines of a file.
LEMMA ImportLines ==
    ASSUME TypeInv, NEW f \in Files
    PROVE  /\ imports[f] \in Seq(Files) /\ Len(imports[f]) \in 0..MaxImports
           /\ DOMAIN imports[f] = 1..Len(imports[f])
<1>0. imports[f] \in UNION {[1..n -> Files] : n \in 0..MaxImports}
  BY DEF TypeInv, ImportLists
<1>1. PICK n \in 0..MaxImports : imports[f] \in [1..n -> Files]
  BY <1>0, Zenon
<1>2. n \in Nat
  BY <1>1, MaxImportsIsNat
<1>. QED
  BY <1>1, <1>2

\* The frame at work, and the stack behind it.
LEMMA TopFrame ==
    ASSUME TypeInv, phase = "register"
    PROVE  /\ Frame = stack[1] /\ Frame[1] \in Files /\ Frame[2] \in Nat \ {0}
           /\ Frame = <<Frame[1], Frame[2]>>
           /\ Tail(stack) \in Seq(Files \X (Nat \ {0}))
           /\ Len(stack) \in Nat \ {0} /\ Len(Tail(stack)) = Len(stack) - 1
           /\ \A k \in 1..Len(Tail(stack)) : Tail(stack)[k] = stack[k + 1]
<1>1. stack \in Seq(Files \X (Nat \ {0})) /\ stack # <<>>
  BY DEF TypeInv
<1>2. Head(stack) = stack[1] /\ Head(stack) \in Files \X (Nat \ {0})
  BY <1>1
<1>3. /\ Tail(stack) \in Seq(Files \X (Nat \ {0}))
      /\ Len(stack) \in Nat \ {0} /\ Len(Tail(stack)) = Len(stack) - 1
      /\ \A k \in 1..Len(Tail(stack)) : Tail(stack)[k] = stack[k + 1]
  BY <1>1
<1>. QED
  BY <1>2, <1>3 DEF Frame

\* A stack with another frame on top.
LEMMA PushFrame ==
    ASSUME NEW rest \in Seq(Files \X (Nat \ {0})), NEW f \in Files, NEW i \in Nat \ {0}
    PROVE  LET s == << <<f, i>> >> \o rest
           IN  /\ s \in Seq(Files \X (Nat \ {0})) /\ s # <<>>
               /\ Len(s) = Len(rest) + 1 /\ s[1] = <<f, i>>
               /\ \A k \in 2..Len(s) : s[k] = rest[k - 1]
<1>. DEFINE s == << <<f, i>> >> \o rest
<1>1. << <<f, i>> >> \in Seq(Files \X (Nat \ {0})) /\ Len(<< <<f, i>> >>) = 1
  OBVIOUS
<1>2. s \in Seq(Files \X (Nat \ {0})) /\ Len(s) = Len(rest) + 1
  BY <1>1
<1>3. s[1] = <<f, i>> /\ \A k \in 2..Len(s) : s[k] = rest[k - 1]
  BY <1>1
<1>. QED
  BY <1>2, <1>3

LEMMA InitTypeInv == Init => TypeInv
<1>. SUFFICES ASSUME Init PROVE TypeInv
  OBVIOUS
<1>1. stack = << <<Root, 1>> >> /\ stack \in Seq(Files \X (Nat \ {0})) /\ stack # <<>>
  BY RootIsFile DEF Init
<1>2. registered \in Seq(Files) /\ \A f \in Files : <<>> \in Seq(Files)
  BY RootIsFile DEF Init
<1>3. execQ \in Seq(Files) /\ resQ \in Seq(Files \X BOOLEAN)
  BY DEF Init
<1>4. state \in [Files -> States] /\ phase \in Phases
  BY DEF Init, States, Phases
<1>. QED
  BY <1>1, <1>2, <1>3, <1>4 DEF Init, TypeInv

LEMMA NextTypeInv == TypeInv /\ [Next]_vars => TypeInv'
<1>. SUFFICES ASSUME TypeInv, [Next]_vars PROVE TypeInv'
  OBVIOUS
<1>. USE DEF env, graph, exec, res, pool, store
<1>1. ASSUME RegisterImport PROVE TypeInv'
  <2>. DEFINE g == imports[Frame[1]][Frame[2]]
  <2>1. g \in Files
    BY <1>1, TopFrame, ImportLines DEF RegisterImport
  <2>2. stack' \in Seq(Files \X (Nat \ {0})) /\ stack' # <<>>
    <3>1. stack' = << <<g, 1>> >> \o stack
      BY <1>1 DEF RegisterImport
    <3>2. stack \in Seq(Files \X (Nat \ {0}))
      BY DEF TypeInv
    <3>. QED  BY <2>1, <3>1, <3>2, PushFrame
  <2>3. registered' \in Seq(Files) /\ state' \in [Files -> States]
    BY <1>1, <2>1 DEF RegisterImport, TypeInv, States
  <2>. QED
    BY <1>1, <2>2, <2>3 DEF RegisterImport, TypeInv, Job
<1>2. ASSUME LinkImport PROVE TypeInv'
  <2>. DEFINE g == imports[Frame[1]][Frame[2]]
  <2>1. g \in Files /\ Frame[1] \in Files /\ Frame[2] + 1 \in Nat \ {0}
    BY <1>2, TopFrame, ImportLines DEF LinkImport
  <2>2. stack' \in Seq(Files \X (Nat \ {0})) /\ stack' # <<>>
    <3>1. stack' = << <<Frame[1], Frame[2] + 1>> >> \o Tail(stack)
      BY <1>2 DEF LinkImport
    <3>2. Tail(stack) \in Seq(Files \X (Nat \ {0}))
      BY <1>2, TopFrame DEF LinkImport
    <3>. QED  BY <2>1, <3>1, <3>2, PushFrame
  <2>3. dependents' \in [Files -> Seq(Files)]
    <3>1. dependents' = [dependents EXCEPT ![g] = Append(@, Frame[1])]
      BY <1>2 DEF LinkImport
    <3>2. dependents \in [Files -> Seq(Files)]
      BY DEF TypeInv
    <3>. HIDE DEF g
    <3>3. dependents[g] \in Seq(Files)
      BY <2>1, <3>2
    <3>4. Append(dependents[g], Frame[1]) \in Seq(Files)
      BY <2>1, <3>3
    <3>. QED  BY <3>1, <3>2, <3>4
  <2>. QED
    BY <1>2, <2>2, <2>3 DEF LinkImport, TypeInv, Job
<1>3. ASSUME FinishFile PROVE TypeInv'
  <2>1. Frame[1] \in Files /\ Frame[2] \in Nat /\ Tail(stack) \in Seq(Files \X (Nat \ {0}))
    BY <1>3, TopFrame DEF FinishFile
  <2>2. inDegree' \in [Files -> Int]
    <3>1. inDegree' = [inDegree EXCEPT ![Frame[1]] = Frame[2] - 1]
      BY <1>3 DEF FinishFile
    <3>2. inDegree \in [Files -> Int] /\ Frame[2] - 1 \in Int
      BY <2>1 DEF TypeInv
    <3>. QED  BY <3>1, <3>2
  <2>3. phase' \in Phases /\ (phase' = "register" => stack' # <<>>)
    BY <1>3 DEF FinishFile, Phases
  <2>. QED
    BY <1>3, <2>1, <2>2, <2>3 DEF FinishFile, TypeInv, Job
<1>4. ASSUME SeedClean PROVE TypeInv'
  BY <1>4 DEF SeedClean, TypeInv, Phases, Job
<1>d. \A f \in Files : Decremented(f) \in [Files -> Int]
  BY CountIsNat DEF TypeInv, Decremented
<1>5. ASSUME ResolveClean PROVE TypeInv'
  <2>1. PICK f \in ready :
           /\ state' = [state EXCEPT ![f] = "Success"]
           /\ inDegree' = Decremented(f)
           /\ ready' \subseteq ready \cup clean
    BY <1>5 DEF ResolveClean
  <2>2. f \in Files
    BY <2>1 DEF TypeInv
  <2>3. state' \in [Files -> States] /\ inDegree' \in [Files -> Int]
    BY <1>d, <2>1, <2>2 DEF TypeInv, States
  <2>4. ready' \subseteq Files
    BY <2>1 DEF TypeInv
  <2>. QED
    BY <1>5, <2>3, <2>4 DEF ResolveClean, TypeInv, Job
<1>6. ASSUME CountRemaining PROVE TypeInv'
  <2>1. remaining' \in Int
    <3>1. {f \in Files : state[f] = "Pending"} \in SUBSET Files
      OBVIOUS
    <3>. QED
      BY <1>6, <3>1, FiniteBuild, FS_Subset, FS_CardinalityType DEF CountRemaining
  <2>2. phase' \in Phases /\ phase' # "register"
    BY <1>6 DEF CountRemaining, Phases
  <2>. QED
    BY <1>6, <2>1, <2>2 DEF CountRemaining, TypeInv, Job
<1>7. ASSUME Submit PROVE TypeInv'
  <2>. DEFINE f == registered[idx]
  <2>1. f \in Files
    BY <1>7 DEF Submit, TypeInv
  <2>2. CASE ReadyToRun(f)
    <3>1. /\ state' = [state EXCEPT ![f] = "Running"] /\ boxes' = boxes \cup {f}
          /\ Exec!Send(Main, f)
      BY <1>7, <2>2 DEF Submit
    <3>2. /\ execQ' = Append(execQ, f)
          /\ execReply' = [execReply EXCEPT ![Main] = Exec!Accepted]
      BY <3>1, ExecSend
    <3>3. execQ' \in Seq(Files) /\ state' \in [Files -> States]
      BY <2>1, <3>1, <3>2 DEF TypeInv, States
    <3>4. \A w \in Workers : execReply'[w] = execReply[w]
      BY <3>2, MainIsNotWorker DEF TypeInv
    <3>5. DOMAIN execReply' = {Main} \cup Workers
      BY <3>2 DEF TypeInv
    <3>6. wpc' = wpc /\ \A w \in Workers : wpc'[w] # "recv" => Job(w)' \in Files
      BY <1>7, <3>4 DEF Submit, TypeInv, Job
    <3>7. boxes' \subseteq Files /\ idx' \in Nat \ {0}
      <4>1. boxes \subseteq Files /\ idx \in Nat \ {0}
        BY DEF TypeInv
      <4>2. idx' = idx + 1
        BY <1>7 DEF Submit
      <4>. QED  BY <2>1, <3>1, <4>1, <4>2
    <3>. QED
      BY <1>7, <3>3, <3>5, <3>6, <3>7 DEF Submit, TypeInv
  <2>3. CASE ~ReadyToRun(f)
    <3>1. /\ UNCHANGED <<state, boxes, execQ, execReply>> /\ idx' = idx + 1
          /\ UNCHANGED <<imports, clean, cached, phase, stack, registered, dependents,
                         inDegree, ready, remaining, wpc, outcome, runs, resQ>>
      BY <1>7, <2>3 DEF Submit
    <3>2. idx' \in Nat \ {0}
      BY <3>1 DEF TypeInv
    <3>. QED
      BY <3>1, <3>2 DEF TypeInv, Job
  <2>. QED
    BY <2>2, <2>3
<1>8. ASSUME SubmitEnd PROVE TypeInv'
  BY <1>8 DEF SubmitEnd, TypeInv, Phases, Job
<1>r. ASSUME Res!Recv(Main)
      PROVE  resQ' \in Seq(Files \X BOOLEAN) /\ Head(resQ)[1] \in Files
  <2>1. resQ # <<>> /\ resQ' = Tail(resQ) /\ resQ \in Seq(Files \X BOOLEAN)
    BY <1>r, ResRecv DEF TypeInv
  <2>2. Head(resQ) \in Files \X BOOLEAN /\ Tail(resQ) \in Seq(Files \X BOOLEAN)
    BY <2>1, CountHead
  <2>. QED  BY <2>1, <2>2
<1>9. ASSUME AwaitSuccess PROVE TypeInv'
  <2>. DEFINE f == Head(resQ)[1]
  <2>1. resQ' \in Seq(Files \X BOOLEAN) /\ f \in Files
    BY <1>9, <1>r DEF AwaitSuccess
  <2>2. state' \in [Files -> States] /\ inDegree' \in [Files -> Int]
    BY <1>9, <1>d, <2>1 DEF AwaitSuccess, TypeInv, States
  <2>3. phase' \in Phases /\ phase' # "register" /\ boxes' \subseteq Files
    BY <1>9 DEF AwaitSuccess, TypeInv, Phases
  <2>4. cached' \subseteq Files /\ remaining' \in Int
    BY <1>9, <2>1 DEF AwaitSuccess, TypeInv
  <2>. QED
    BY <1>9, <2>1, <2>2, <2>3, <2>4 DEF AwaitSuccess, TypeInv, Job
<1>10. ASSUME AwaitFailure PROVE TypeInv'
  <2>1. resQ' \in Seq(Files \X BOOLEAN)
    BY <1>10, <1>r DEF AwaitFailure
  <2>. QED
    BY <1>10, <2>1 DEF AwaitFailure, TypeInv, Phases, Job
<1>11. ASSUME NEW w \in Workers, WorkerTake(w) PROVE TypeInv'
  <2>1. /\ execQ # <<>> /\ execQ' = Tail(execQ)
        /\ execReply' = [execReply EXCEPT ![w] = <<"got", Head(execQ)>>]
    BY <1>11, ExecRecv DEF WorkerTake
  <2>2. execQ' \in Seq(Files) /\ Head(execQ) \in Files
    BY <2>1 DEF TypeInv
  <2>3. /\ DOMAIN execReply' = {Main} \cup Workers
        /\ \A v \in Workers : execReply'[v] =
              IF v = w THEN <<"got", Head(execQ)>> ELSE execReply[v]
    BY <2>1 DEF TypeInv
  <2>4. /\ wpc' \in [Workers -> {"recv", "run", "report"}]
        /\ \A v \in Workers : v # w => wpc'[v] = wpc[v]
    BY <1>11 DEF WorkerTake, TypeInv
  <2>5. \A v \in Workers : wpc'[v] # "recv" => execReply'[v][2] \in Files
    <3>1. ASSUME NEW v \in Workers, v # w, wpc'[v] # "recv"
          PROVE  execReply'[v][2] \in Files
      BY <2>3, <2>4, <3>1 DEF TypeInv, Job
    <3>2. execReply'[w][2] = Head(execQ)
      BY <2>3
    <3>. QED  BY <2>2, <3>1, <3>2
  <2>. QED
    BY <1>11, <2>2, <2>3, <2>4, <2>5 DEF WorkerTake, TypeInv, Job
<1>12. ASSUME NEW w \in Workers, WorkerRun(w) PROVE TypeInv'
  <2>1. Job(w) \in Files
    BY <1>12 DEF WorkerRun, TypeInv
  <2>2. runs' \in [Files -> Nat] /\ outcome' \in [Workers -> BOOLEAN]
    <3>1. /\ runs' = [runs EXCEPT ![Job(w)] = @ + 1]
          /\ \E ok \in BOOLEAN : outcome' = [outcome EXCEPT ![w] = ok]
      BY <1>12 DEF WorkerRun
    <3>2. runs \in [Files -> Nat] /\ outcome \in [Workers -> BOOLEAN]
      BY DEF TypeInv
    <3>. HIDE DEF Job
    <3>. QED
      BY <2>1, <3>1, <3>2
  <2>3. /\ wpc' \in [Workers -> {"recv", "run", "report"}]
        /\ \A v \in Workers : wpc'[v] # "recv" => wpc[v] # "recv"
    BY <1>12 DEF WorkerRun, TypeInv
  <2>. QED
    BY <1>12, <2>2, <2>3 DEF WorkerRun, TypeInv, Job
<1>13. ASSUME NEW w \in Workers, WorkerReport(w) PROVE TypeInv'
  <2>1. Job(w) \in Files /\ outcome[w] \in BOOLEAN
    BY <1>13 DEF WorkerReport, TypeInv
  <2>2. resQ' \in Seq(Files \X BOOLEAN)
    <3>1. resQ' = Append(resQ, <<Job(w), outcome[w]>>)
      BY <1>13, ResSend DEF WorkerReport
    <3>2. <<Job(w), outcome[w]>> \in Files \X BOOLEAN
      BY <2>1
    <3>3. resQ \in Seq(Files \X BOOLEAN)
      BY DEF TypeInv
    <3>. QED  BY ONLY <3>1, <3>2, <3>3
  <2>3. /\ wpc' \in [Workers -> {"recv", "run", "report"}]
        /\ \A v \in Workers : wpc'[v] # "recv" => wpc[v] # "recv"
    BY <1>13 DEF WorkerReport, TypeInv
  <2>. QED
    BY <1>13, <2>2, <2>3 DEF WorkerReport, TypeInv, Job
<1>14. ASSUME UNCHANGED vars PROVE TypeInv'
  BY <1>14 DEF vars, TypeInv, Job
<1>. QED
  BY <1>1, <1>2, <1>3, <1>4, <1>5, <1>6, <1>7, <1>8, <1>9, <1>10, <1>11, <1>12,
     <1>13, <1>14 DEF Next, MainStep, WorkerStep

-----------------------------------------------------------------------------
(* Files on their way                                                      *)

\* The workers that are to compile f, and those that have compiled it.
Takers(f)    == {w \in Workers : wpc[w] = "run" /\ Job(w) = f}
Reporters(f) == {w \in Workers : wpc[w] = "report" /\ Job(w) = f}

\* The answers about f in a queue.
Answers(q, f) == Count(q, <<f, TRUE>>) + Count(q, <<f, FALSE>>)

\* How often f is to be compiled yet, and how many answers are on their way.
ToRun(f) == Count(execQ, f) + Cardinality(Takers(f))
Done(f)  == Cardinality(Reporters(f)) + Answers(resQ, f)

LEMMA AnswersNat ==
    ASSUME NEW q \in Seq(Files \X BOOLEAN), NEW f
    PROVE  Answers(q, f) \in Nat
BY CountIsNat DEF Answers

LEMMA AnswerIsOne ==
    ASSUME NEW r \in Files \X BOOLEAN, NEW f
    PROVE  LET t == IF r = <<f, TRUE>> THEN 1 ELSE 0
               u == IF r = <<f, FALSE>> THEN 1 ELSE 0
           IN  t \in Nat /\ u \in Nat /\ t + u = IF f = r[1] THEN 1 ELSE 0
<1>. DEFINE t == IF r = <<f, TRUE>> THEN 1 ELSE 0
            u == IF r = <<f, FALSE>> THEN 1 ELSE 0
<1>1. PICK g \in Files, b \in BOOLEAN : r = <<g, b>>
  OBVIOUS
<1>2. r[1] = g
  BY <1>1
<1>. DEFINE G == t \in Nat /\ u \in Nat /\ t + u = IF f = r[1] THEN 1 ELSE 0
<1>3. ASSUME b = TRUE PROVE G
  <2>1. r = <<f, TRUE>> <=> f = g
    BY <1>1, <1>3
  <2>2. r # <<f, FALSE>>
    BY <1>1, <1>3
  <2>3. t = (IF f = r[1] THEN 1 ELSE 0) /\ u = 0
    BY <1>2, <2>1, <2>2
  <2>. HIDE DEF t, u
  <2>. QED  BY <2>3
<1>4. ASSUME b = FALSE PROVE G
  <2>1. r # <<f, TRUE>>
    BY <1>1, <1>4
  <2>2. r = <<f, FALSE>> <=> f = g
    BY <1>1, <1>4
  <2>3. u = (IF f = r[1] THEN 1 ELSE 0) /\ t = 0
    BY <1>2, <2>1, <2>2
  <2>. HIDE DEF t, u
  <2>. QED  BY <2>3
<1>5. G
  BY <1>1, <1>3, <1>4
<1>. QED
  BY <1>5

LEMMA AnswersAppend ==
    ASSUME NEW q \in Seq(Files \X BOOLEAN), NEW r \in Files \X BOOLEAN, NEW f
    PROVE  Answers(Append(q, r), f) = Answers(q, f) + (IF f = r[1] THEN 1 ELSE 0)
<1>. DEFINE a == Count(q, <<f, TRUE>>)
            b == Count(q, <<f, FALSE>>)
            t == IF r = <<f, TRUE>> THEN 1 ELSE 0
            u == IF r = <<f, FALSE>> THEN 1 ELSE 0
<1>0. \A y : Count(Append(q, r), y) = Count(q, y) + (IF r = y THEN 1 ELSE 0)
  BY CountAppend
<1>1. Count(Append(q, r), <<f, TRUE>>) = a + t
  BY <1>0
<1>2. Count(Append(q, r), <<f, FALSE>>) = b + u
  BY <1>0
<1>3. a \in Nat /\ b \in Nat
  BY CountIsNat
<1>4. t \in Nat /\ u \in Nat /\ t + u = IF f = r[1] THEN 1 ELSE 0
  BY AnswerIsOne
<1>5. /\ Answers(Append(q, r), f) = (a + t) + (b + u)
      /\ Answers(q, f) = a + b
  BY <1>1, <1>2 DEF Answers
<1>. HIDE DEF a, b, t, u
<1>6. (a + t) + (b + u) = (a + b) + (t + u)
  BY <1>3, <1>4
<1>. QED
  BY <1>4, <1>5, <1>6

LEMMA AnswersTail ==
    ASSUME NEW q \in Seq(Files \X BOOLEAN), q # <<>>, NEW f
    PROVE  Answers(q, f) = Answers(Tail(q), f) + (IF f = Head(q)[1] THEN 1 ELSE 0)
<1>. DEFINE r == Head(q)
            a == Count(Tail(q), <<f, TRUE>>)
            b == Count(Tail(q), <<f, FALSE>>)
            t == IF r = <<f, TRUE>> THEN 1 ELSE 0
            u == IF r = <<f, FALSE>> THEN 1 ELSE 0
<1>0. r \in Files \X BOOLEAN /\ Tail(q) \in Seq(Files \X BOOLEAN)
  BY CountHead
<1>1. Count(q, <<f, TRUE>>) = a + t
  BY CountTail
<1>2. Count(q, <<f, FALSE>>) = b + u
  BY CountTail
<1>3. a \in Nat /\ b \in Nat
  BY <1>0, CountIsNat
<1>4. t \in Nat /\ u \in Nat /\ t + u = IF f = r[1] THEN 1 ELSE 0
  BY <1>0, AnswerIsOne
<1>5. /\ Answers(q, f) = (a + t) + (b + u)
      /\ Answers(Tail(q), f) = a + b
  BY <1>1, <1>2 DEF Answers
<1>. HIDE DEF a, b, t, u
<1>6. (a + t) + (b + u) = (a + b) + (t + u)
  BY <1>3, <1>4
<1>. QED
  BY <1>4, <1>5, <1>6

LEMMA OnTheirWay ==
    ASSUME TypeInv, NEW f
    PROVE  /\ IsFiniteSet(Takers(f)) /\ IsFiniteSet(Reporters(f))
           /\ Cardinality(Takers(f)) \in Nat /\ Cardinality(Reporters(f)) \in Nat
           /\ Count(execQ, f) \in Nat
           /\ Answers(resQ, f) \in Nat
           /\ ToRun(f) \in Nat /\ Done(f) \in Nat
<1>1. Takers(f) \in SUBSET Workers /\ Reporters(f) \in SUBSET Workers
  BY DEF Takers, Reporters
<1>2. /\ IsFiniteSet(Takers(f)) /\ IsFiniteSet(Reporters(f))
      /\ Cardinality(Takers(f)) \in Nat /\ Cardinality(Reporters(f)) \in Nat
  BY <1>1, FiniteBuild, FS_Subset, FS_CardinalityType
<1>3. execQ \in Seq(Files) /\ resQ \in Seq(Files \X BOOLEAN)
  BY DEF TypeInv
<1>4. Count(execQ, f) \in Nat /\ Answers(resQ, f) \in Nat
  BY <1>3, CountIsNat, AnswersNat
<1>. QED
  BY <1>2, <1>4 DEF ToRun, Done

LEMMA NothingMoves ==
    ASSUME UNCHANGED <<wpc, execQ, execReply, resQ>>, NEW f
    PROVE  ToRun(f)' = ToRun(f) /\ Done(f)' = Done(f)
<1>1. Takers(f)' = Takers(f) /\ Reporters(f)' = Reporters(f)
  BY DEF Takers, Reporters, Job
<1>. QED
  BY <1>1 DEF ToRun, Done

LEMMA SubmitMoves ==
    ASSUME TypeInv, NEW g \in Files, Exec!Send(Main, g), UNCHANGED <<wpc, resQ>>,
           NEW f
    PROVE  /\ ToRun(f)' = ToRun(f) + (IF f = g THEN 1 ELSE 0)
           /\ Done(f)' = Done(f)
<1>1. /\ execQ' = Append(execQ, g)
      /\ \A w \in Workers : execReply'[w] = execReply[w]
  BY ExecSend, MainIsNotWorker DEF TypeInv
<1>2. Takers(f)' = Takers(f) /\ Reporters(f)' = Reporters(f)
  BY <1>1 DEF Takers, Reporters, Job
<1>3. Count(execQ', f) = Count(execQ, f) + (IF g = f THEN 1 ELSE 0)
  <2>1. execQ \in Seq(Files)
    BY DEF TypeInv
  <2>. QED
    BY <1>1, <2>1, CountAppend
<1>4. Count(execQ, f) \in Nat /\ Cardinality(Takers(f)) \in Nat
  BY OnTheirWay
<1>5. Done(f)' = Done(f)
  BY <1>2 DEF Done
<1>6. ToRun(f)' = Count(execQ', f) + Cardinality(Takers(f))
  BY <1>2 DEF ToRun
<1>. QED
  BY <1>3, <1>4, <1>5, <1>6 DEF ToRun

LEMMA TakeMoves ==
    ASSUME TypeInv, NEW w \in Workers, WorkerTake(w), NEW f
    PROVE  ToRun(f)' = ToRun(f) /\ Done(f)' = Done(f)
<1>. DEFINE g == Head(execQ)
<1>1. /\ execQ # <<>> /\ execQ' = Tail(execQ)
      /\ execReply' = [execReply EXCEPT ![w] = <<"got", g>>]
  BY ExecRecv DEF WorkerTake
<1>2. /\ wpc[w] = "recv" /\ wpc' = [wpc EXCEPT ![w] = "run"] /\ resQ' = resQ
  BY DEF WorkerTake, res
<1>3. Reporters(f)' = Reporters(f)
  BY <1>1, <1>2 DEF TypeInv, Reporters, Job
<1>4. Takers(f)' = IF f = g THEN Takers(f) \cup {w} ELSE Takers(f)
  BY <1>1, <1>2 DEF TypeInv, Takers, Job
<1>5. w \notin Takers(f)
  BY <1>2 DEF Takers
<1>6. Cardinality(Takers(f) \cup {w}) = Cardinality(Takers(f)) + 1
  BY <1>5, OnTheirWay, FS_AddElement
<1>7. Count(execQ, f) = Count(execQ', f) + (IF g = f THEN 1 ELSE 0)
  BY <1>1, CountTail DEF TypeInv
<1>8. /\ Count(execQ', f) \in Nat /\ Count(execQ, f) \in Nat
      /\ Cardinality(Takers(f)) \in Nat
  <2>1. execQ \in Seq(Files) /\ execQ' \in Seq(Files)
    BY <1>1 DEF TypeInv
  <2>. QED
    BY <2>1, OnTheirWay, CountIsNat
<1>9. Done(f)' = Done(f)
  BY <1>2, <1>3 DEF Done
<1>10. ToRun(f)' = Count(execQ', f) + Cardinality(Takers(f)')
  BY DEF ToRun
<1>. QED
  BY <1>4, <1>6, <1>7, <1>8, <1>9, <1>10 DEF ToRun

LEMMA RunMoves ==
    ASSUME TypeInv, NEW w \in Workers, WorkerRun(w), NEW f
    PROVE  /\ ToRun(f) = ToRun(f)' + (IF f = Job(w) THEN 1 ELSE 0)
           /\ Done(f)' = Done(f) + (IF f = Job(w) THEN 1 ELSE 0)
           /\ ToRun(f)' \in Nat
<1>. DEFINE g == Job(w)
<1>1. /\ wpc[w] = "run" /\ wpc' = [wpc EXCEPT ![w] = "report"]
      /\ execQ' = execQ /\ execReply' = execReply /\ resQ' = resQ
  BY DEF WorkerRun, exec, res
<1>2. Takers(f)' = Takers(f) \ {w}
  BY <1>1 DEF TypeInv, Takers, Job
<1>3. Reporters(f)' = IF f = g THEN Reporters(f) \cup {w} ELSE Reporters(f)
  BY <1>1 DEF TypeInv, Reporters, Job
<1>4. (w \in Takers(f) <=> f = g) /\ w \notin Reporters(f)
  BY <1>1 DEF Takers, Reporters
<1>5. /\ IsFiniteSet(Takers(f)) /\ IsFiniteSet(Reporters(f))
      /\ Cardinality(Takers(f)) \in Nat /\ Cardinality(Reporters(f)) \in Nat
      /\ Count(execQ, f) \in Nat
      /\ Answers(resQ, f) \in Nat
  BY OnTheirWay
<1>6. /\ Cardinality(Takers(f) \ {w}) = IF f = g THEN Cardinality(Takers(f)) - 1
                                                  ELSE Cardinality(Takers(f))
      /\ Cardinality(Takers(f) \ {w}) \in Nat
  BY <1>4, <1>5, FS_RemoveElement, FS_CardinalityType
<1>7. Cardinality(Reporters(f) \cup {w}) = Cardinality(Reporters(f)) + 1
  BY <1>4, <1>5, FS_AddElement
<1>8. ToRun(f)' = Count(execQ, f) + Cardinality(Takers(f) \ {w})
  BY <1>1, <1>2 DEF ToRun
<1>9. Done(f)' = Cardinality(Reporters(f)') + Answers(resQ, f)
  BY <1>1 DEF Done
<1>. HIDE DEF g
<1>10. ToRun(f) = ToRun(f)' + (IF f = g THEN 1 ELSE 0) /\ ToRun(f)' \in Nat
  BY <1>5, <1>6, <1>8 DEF ToRun
<1>11. Done(f)' = Done(f) + (IF f = g THEN 1 ELSE 0)
  BY <1>3, <1>5, <1>7, <1>9 DEF Done
<1>. QED
  BY <1>10, <1>11 DEF g

LEMMA ReportMoves ==
    ASSUME TypeInv, NEW w \in Workers, WorkerReport(w), NEW f
    PROVE  ToRun(f)' = ToRun(f) /\ Done(f)' = Done(f)
<1>. DEFINE g == Job(w)
            r == <<g, outcome[w]>>
<1>1. /\ wpc[w] = "report" /\ wpc' = [wpc EXCEPT ![w] = "recv"]
      /\ execQ' = execQ /\ execReply' = execReply
      /\ resQ' = Append(resQ, r)
  BY ResSend DEF WorkerReport, exec
<1>2. Takers(f)' = Takers(f)
  BY <1>1 DEF TypeInv, Takers, Job
<1>3. Reporters(f)' = Reporters(f) \ {w}
  BY <1>1 DEF TypeInv, Reporters, Job
<1>4. w \in Reporters(f) <=> f = g
  BY <1>1 DEF Reporters
<1>5. g \in Files /\ outcome[w] \in BOOLEAN /\ r \in Files \X BOOLEAN
  BY <1>1 DEF TypeInv
<1>6. Answers(resQ', f) = Answers(resQ, f) + (IF f = g THEN 1 ELSE 0)
  <2>1. resQ \in Seq(Files \X BOOLEAN) /\ r[1] = g
    BY DEF TypeInv
  <2>2. Answers(Append(resQ, r), f) = Answers(resQ, f) + (IF f = r[1] THEN 1 ELSE 0)
    <3>1. r \in Files \X BOOLEAN
      BY <1>5
    <3>. HIDE DEF r, g
    <3>. QED  BY <2>1, <3>1, AnswersAppend
  <2>. HIDE DEF r
  <2>. QED
    BY <1>1, <2>1, <2>2
<1>8. Cardinality(Reporters(f) \ {w}) = IF f = g THEN Cardinality(Reporters(f)) - 1
                                                 ELSE Cardinality(Reporters(f))
  BY <1>4, OnTheirWay, FS_RemoveElement
<1>9. /\ Cardinality(Reporters(f)) \in Nat
      /\ Answers(resQ, f) \in Nat
  BY OnTheirWay
<1>10. Done(f)' = Cardinality(Reporters(f) \ {w}) + Answers(resQ', f)
  BY <1>3 DEF Done
<1>11. ToRun(f)' = ToRun(f)
  BY <1>1, <1>2 DEF ToRun
<1>. HIDE DEF g
<1>12. Done(f)' = Done(f)
  BY <1>6, <1>8, <1>9, <1>10 DEF Done
<1>. QED
  BY <1>11, <1>12

\* Main takes an answer.
LEMMA CollectMoves ==
    ASSUME TypeInv, Res!Recv(Main), UNCHANGED <<wpc, execQ, execReply>>, NEW f
    PROVE  /\ ToRun(f)' = ToRun(f) /\ Done(f)' \in Nat
           /\ Done(f) = Done(f)' + (IF f = Head(resQ)[1] THEN 1 ELSE 0)
<1>. DEFINE r == Head(resQ)
<1>1. resQ # <<>> /\ resQ' = Tail(resQ) /\ resQ \in Seq(Files \X BOOLEAN)
  BY ResRecv DEF TypeInv
<1>2. resQ' \in Seq(Files \X BOOLEAN) /\ r \in Files \X BOOLEAN
  BY <1>1, CountHead
<1>3. Answers(resQ, f) = Answers(resQ', f) + (IF f = r[1] THEN 1 ELSE 0)
  BY <1>1, AnswersTail
<1>4. Answers(resQ', f) \in Nat
  BY <1>2, AnswersNat
<1>7. Takers(f)' = Takers(f) /\ Reporters(f)' = Reporters(f)
  BY DEF Takers, Reporters, Job
<1>8. Cardinality(Reporters(f)) \in Nat
  BY OnTheirWay
<1>9. ToRun(f)' = ToRun(f)
  BY <1>7 DEF ToRun
<1>10. Done(f)' = Cardinality(Reporters(f)) + Answers(resQ', f)
  BY <1>7 DEF Done
<1>. QED
  BY <1>3, <1>4, <1>8, <1>9, <1>10 DEF Done

-----------------------------------------------------------------------------
(* A file is on its way as long as it is Running, and compiled once         *)

ReadyInv == phase = "resolve" => \A f \in ready : f \in clean /\ state[f] = "Pending"

LEMMA NextReadyInv == TypeInv /\ ReadyInv /\ [Next]_vars => ReadyInv'
<1>. SUFFICES ASSUME TypeInv, ReadyInv, [Next]_vars, phase' = "resolve"
              PROVE  \A f \in ready' : f \in clean' /\ state'[f] = "Pending"
  BY DEF ReadyInv
<1>. USE DEF env, graph, exec, res, pool, store
<1>1. CASE SeedClean
  BY <1>1 DEF SeedClean
<1>2. CASE ResolveClean
  <2>1. PICK f \in ready :
           /\ state' = [state EXCEPT ![f] = "Success"]
           /\ \A g \in ready' : g \in ready \ {f} \/ (g \in clean /\ state'[g] = "Pending")
    BY <1>2 DEF ResolveClean
  <2>2. /\ phase = "resolve" /\ clean' = clean
        /\ \A g \in Files : g # f => state'[g] = state[g]
    BY <1>2, <2>1 DEF ResolveClean, TypeInv
  <2>3. ready \subseteq Files
    BY DEF TypeInv
  <2>. QED
    BY <2>1, <2>2, <2>3 DEF ReadyInv
<1>3. ASSUME NEW w \in Workers, WorkerStep(w)
      PROVE  \A f \in ready' : f \in clean' /\ state'[f] = "Pending"
  BY <1>3 DEF WorkerStep, WorkerTake, WorkerRun, WorkerReport, ReadyInv
<1>4. CASE UNCHANGED vars
  BY <1>4 DEF vars, ReadyInv
<1>5. ~(\/ RegisterImport \/ LinkImport \/ FinishFile \/ CountRemaining
        \/ Submit \/ SubmitEnd \/ AwaitSuccess \/ AwaitFailure)
  BY DEF RegisterImport, LinkImport, FinishFile, CountRemaining, Submit,
         SubmitEnd, AwaitSuccess, AwaitFailure
<1>. QED
  BY <1>1, <1>2, <1>3, <1>4, <1>5 DEF Next, MainStep

\* A file that is not handed out is nowhere, a Running one was compiled or is
\* to be, and (until main gives up) is in exactly one place.
FlightOf(f) ==
    /\ state[f] \in {"Absent", "Pending"} => runs[f] = 0 /\ ToRun(f) = 0
    /\ state[f] = "Running" => runs[f] + ToRun(f) = 1
    /\ state[f] = "Success" => runs[f] <= 1 /\ ToRun(f) = 0
    /\ phase # "failed" =>
          ToRun(f) + Done(f) = IF state[f] = "Running" THEN 1 ELSE 0
FlightInv == \A f \in Files : FlightOf(f)

LEMMA InitFlightInv == Init => FlightInv
<1>. SUFFICES ASSUME Init, NEW f \in Files PROVE FlightOf(f)
  BY DEF FlightInv
<1>1. Takers(f) = {} /\ Reporters(f) = {}
  BY DEF Init, Takers, Reporters
<1>2. ToRun(f) = 0
  BY <1>1, CountEmpty, FS_EmptySet DEF Init, ToRun
<1>3. Done(f) = 0
  BY <1>1, CountEmpty, FS_EmptySet DEF Init, Done, Answers
<1>4. runs[f] = 0 /\ state[f] \in {"Absent", "Pending"}
  BY DEF Init
<1>. QED
  BY <1>2, <1>3, <1>4 DEF FlightOf

\* What a worker compiles is Running, for the first time.
LEMMA RunIsFirst ==
    ASSUME TypeInv, FlightInv, NEW w \in Workers, WorkerRun(w)
    PROVE  /\ Job(w) \in Files /\ state[Job(w)] = "Running"
           /\ runs[Job(w)] = 0 /\ ToRun(Job(w)) = 1
<1>0. PICK g \in Files : g = Job(w)
  BY DEF WorkerRun, TypeInv
<1>1. runs[g] \in Nat /\ state[g] \in States
  BY DEF TypeInv
<1>2. ToRun(g) = ToRun(g)' + 1 /\ ToRun(g)' \in Nat
  BY <1>0, RunMoves
<1>3. FlightOf(g)
  BY DEF FlightInv
<1>. QED
  BY <1>0, <1>1, <1>2, <1>3 DEF FlightOf, States

\* The file main has an answer for is Running.
LEMMA AnswerIsRunning ==
    ASSUME TypeInv, FlightInv, phase = "await", Res!Recv(Main),
           UNCHANGED <<wpc, execQ, execReply>>
    PROVE  LET g == Head(resQ)[1]
           IN  /\ g \in Files /\ state[g] = "Running"
               /\ ToRun(g) = 0 /\ Done(g) = 1 /\ runs[g] = 1
<1>1. resQ # <<>> /\ resQ \in Seq(Files \X BOOLEAN)
  BY ResRecv DEF TypeInv
<1>2. Head(resQ) \in Files \X BOOLEAN
  BY <1>1, CountHead
<1>3. PICK g \in Files : g = Head(resQ)[1]
  BY <1>2
<1>4. runs[g] \in Nat /\ ToRun(g) \in Nat /\ Done(g) \in Nat
  BY OnTheirWay DEF TypeInv
<1>5. Done(g) = Done(g)' + 1 /\ Done(g)' \in Nat
  BY <1>3, CollectMoves
<1>6. FlightOf(g)
  BY DEF FlightInv
<1>7. state[g] = "Running" /\ ToRun(g) = 0 /\ Done(g) = 1 /\ runs[g] = 1
  BY <1>4, <1>5, <1>6 DEF FlightOf
<1>. QED
  BY <1>3, <1>7

LEMMA NextFlightInv == TypeInv /\ ReadyInv /\ FlightInv /\ [Next]_vars => FlightInv'
<1>. SUFFICES ASSUME TypeInv, ReadyInv, FlightInv, [Next]_vars, NEW f \in Files
              PROVE  FlightOf(f)'
  BY DEF FlightInv
<1>. USE DEF env, graph, exec, res, pool, store
<1>1. /\ FlightOf(f) /\ runs[f] \in Nat /\ state[f] \in States
      /\ ToRun(f) \in Nat /\ Done(f) \in Nat
  BY OnTheirWay DEF FlightInv, TypeInv
<1>2. ASSUME UNCHANGED <<wpc, execQ, execReply, resQ, runs, state>>,
             phase = "failed" => phase' = "failed"
      PROVE  FlightOf(f)'
  <2>1. ToRun(f)' = ToRun(f) /\ Done(f)' = Done(f)
    BY <1>2, NothingMoves
  <2>2. runs' = runs /\ state' = state
    BY <1>2
  <2>. QED
    BY <1>1, <1>2, <2>1, <2>2 DEF FlightOf
<1>3. CASE RegisterImport
  <2>1. /\ \/ state[f] = "Absent" /\ state'[f] = "Pending"
           \/ state'[f] = state[f]
        /\ phase' = phase /\ runs' = runs
    BY <1>3 DEF RegisterImport, Registered, TypeInv
  <2>2. ToRun(f)' = ToRun(f) /\ Done(f)' = Done(f)
    BY <1>3, NothingMoves DEF RegisterImport
  <2>. QED
    BY <1>1, <2>1, <2>2 DEF FlightOf
<1>4. CASE LinkImport \/ FinishFile \/ SeedClean \/ CountRemaining \/ SubmitEnd
  BY <1>2, <1>4 DEF LinkImport, FinishFile, SeedClean, CountRemaining, SubmitEnd
<1>5. CASE ResolveClean
  <2>1. PICK g \in ready : state' = [state EXCEPT ![g] = "Success"]
    BY <1>5 DEF ResolveClean
  <2>2. state[g] = "Pending" /\ phase' = phase /\ runs' = runs
    BY <1>5, <2>1 DEF ResolveClean, ReadyInv
  <2>3. (state[f] = "Pending" /\ state'[f] = "Success") \/ state'[f] = state[f]
    BY <2>1, <2>2 DEF TypeInv
  <2>4. ToRun(f)' = ToRun(f) /\ Done(f)' = Done(f)
    BY <1>5, NothingMoves DEF ResolveClean
  <2>. QED
    BY <1>1, <2>2, <2>3, <2>4 DEF FlightOf
<1>6. CASE Submit
  <2>. DEFINE g == registered[idx]
  <2>0. g \in Files
    BY <1>6 DEF Submit, TypeInv
  <2>1. CASE ReadyToRun(g)
    <3>1. /\ state' = [state EXCEPT ![g] = "Running"] /\ Exec!Send(Main, g)
          /\ UNCHANGED <<wpc, resQ, runs, phase>>
      BY <1>6, <2>1 DEF Submit
    <3>2. /\ ToRun(f)' = ToRun(f) + (IF f = g THEN 1 ELSE 0)
          /\ Done(f)' = Done(f)
      BY <2>0, <3>1, SubmitMoves
    <3>3. state[g] = "Pending" /\ state'[f] = IF f = g THEN "Running" ELSE state[f]
      BY <2>1, <3>1 DEF ReadyToRun, TypeInv
    <3>. QED
      BY <1>1, <3>1, <3>2, <3>3 DEF FlightOf
  <2>2. CASE ~ReadyToRun(g)
    BY <1>2, <1>6, <2>2 DEF Submit
  <2>. QED
    BY <2>1, <2>2
<1>7. CASE AwaitSuccess
  <2>. DEFINE g == Head(resQ)[1]
  <2>1. /\ phase = "await" /\ Res!Recv(Main) /\ UNCHANGED <<wpc, execQ, execReply, runs>>
        /\ state' = [state EXCEPT ![g] = "Success"] /\ phase' # "failed"
    BY <1>7 DEF AwaitSuccess
  <2>2. /\ g \in Files /\ state[g] = "Running"
        /\ ToRun(g) = 0 /\ Done(g) = 1 /\ runs[g] = 1
    BY <2>1, AnswerIsRunning
  <2>3. /\ ToRun(f)' = ToRun(f) /\ Done(f)' \in Nat
        /\ Done(f) = Done(f)' + (IF f = g THEN 1 ELSE 0)
    BY <2>1, CollectMoves
  <2>4. state'[f] = IF f = g THEN "Success" ELSE state[f]
    BY <2>1 DEF TypeInv
  <2>. HIDE DEF g
  <2>. QED
    BY <1>1, <2>1, <2>2, <2>3, <2>4 DEF FlightOf
<1>8. CASE AwaitFailure
  <2>1. /\ Res!Recv(Main) /\ UNCHANGED <<wpc, execQ, execReply, runs, state>>
        /\ phase' = "failed"
    BY <1>8 DEF AwaitFailure
  <2>2. ToRun(f)' = ToRun(f)
    BY <2>1, CollectMoves
  <2>. QED
    BY <1>1, <2>1, <2>2 DEF FlightOf
<1>9. ASSUME NEW w \in Workers, WorkerTake(w) PROVE FlightOf(f)'
  <2>1. ToRun(f)' = ToRun(f) /\ Done(f)' = Done(f)
    BY <1>9, TakeMoves
  <2>. QED
    BY <1>1, <1>9, <2>1 DEF WorkerTake, FlightOf
<1>10. ASSUME NEW w \in Workers, WorkerRun(w) PROVE FlightOf(f)'
  <2>1. /\ ToRun(f) = ToRun(f)' + (IF f = Job(w) THEN 1 ELSE 0)
        /\ Done(f)' = Done(f) + (IF f = Job(w) THEN 1 ELSE 0)
        /\ ToRun(f)' \in Nat
    BY <1>10, RunMoves
  <2>2. /\ Job(w) \in Files /\ state[Job(w)] = "Running"
        /\ runs[Job(w)] = 0 /\ ToRun(Job(w)) = 1
    BY <1>10, RunIsFirst
  <2>3. /\ runs'[f] = runs[f] + (IF f = Job(w) THEN 1 ELSE 0)
        /\ state' = state /\ phase' = phase
    <3>1. /\ runs' = [runs EXCEPT ![Job(w)] = @ + 1]
          /\ state' = state /\ phase' = phase
      BY <1>10 DEF WorkerRun
    <3>2. runs \in [Files -> Nat]
      BY DEF TypeInv
    <3>. HIDE DEF Job
    <3>. QED
      BY <2>2, <3>1, <3>2
  <2>. QED
    BY <1>1, <2>1, <2>2, <2>3 DEF FlightOf
<1>11. ASSUME NEW w \in Workers, WorkerReport(w) PROVE FlightOf(f)'
  <2>1. ToRun(f)' = ToRun(f) /\ Done(f)' = Done(f)
    BY <1>11, ReportMoves
  <2>. QED
    BY <1>1, <1>11, <2>1 DEF WorkerReport, FlightOf
<1>12. CASE UNCHANGED vars
  BY <1>2, <1>12 DEF vars
<1>. QED
  BY <1>3, <1>4, <1>5, <1>6, <1>7, <1>8, <1>9, <1>10, <1>11, <1>12
     DEF Next, MainStep, WorkerStep

-----------------------------------------------------------------------------
(* What the phases before the first submission leave alone, and which files *)
(* have an id                                                              *)

EarlyInv ==
    /\ phase \in {"register", "seed", "resolve", "clean"} =>
          cached = {} /\ \A f \in Files : state[f] # "Running" /\ runs[f] = 0
    /\ phase \in {"register", "seed"} => \A f \in Files : state[f] # "Success"

LEMMA NextEarlyInv ==
    TypeInv /\ FlightInv /\ EarlyInv /\ [Next]_vars => EarlyInv'
<1>. SUFFICES ASSUME TypeInv, FlightInv, EarlyInv, [Next]_vars PROVE EarlyInv'
  OBVIOUS
<1>. USE DEF env, graph, exec, res, pool, store
<1>1. CASE RegisterImport
  BY <1>1 DEF RegisterImport, EarlyInv, TypeInv
<1>2. CASE LinkImport \/ FinishFile \/ SeedClean \/ CountRemaining
  BY <1>2 DEF LinkImport, FinishFile, SeedClean, CountRemaining, EarlyInv, Registered
<1>3. CASE ResolveClean
  BY <1>3 DEF ResolveClean, EarlyInv, TypeInv
<1>4. CASE Submit \/ SubmitEnd \/ AwaitSuccess \/ AwaitFailure
  <2>1. phase' \notin {"register", "seed", "resolve", "clean"}
    BY <1>4 DEF Submit, SubmitEnd, AwaitSuccess, AwaitFailure
  <2>. QED
    BY <2>1 DEF EarlyInv
<1>5. ASSUME NEW w \in Workers, WorkerTake(w) \/ WorkerReport(w) PROVE EarlyInv'
  BY <1>5 DEF WorkerTake, WorkerReport, EarlyInv
<1>6. ASSUME NEW w \in Workers, WorkerRun(w) PROVE EarlyInv'
  <2>1. Job(w) \in Files /\ state[Job(w)] = "Running"
    BY <1>6, RunIsFirst
  <2>2. phase \notin {"register", "seed", "resolve", "clean"}
    BY <2>1 DEF EarlyInv
  <2>. QED
    BY <1>6, <2>2 DEF WorkerRun, EarlyInv
<1>7. CASE UNCHANGED vars
  BY <1>7 DEF vars, EarlyInv
<1>. QED
  BY <1>1, <1>2, <1>3, <1>4, <1>5, <1>6, <1>7 DEF Next, MainStep, WorkerStep

\* Only register_file gives a file an id.
LEMMA AbsentStays ==
    ASSUME TypeInv, ReadyInv, FlightInv, [Next]_vars, ~RegisterImport, NEW f \in Files
    PROVE  state'[f] = "Absent" <=> state[f] = "Absent"
<1>. USE DEF env, graph, exec, res, pool, store
<1>1. CASE ResolveClean
  <2>1. PICK g \in ready : state' = [state EXCEPT ![g] = "Success"] /\ phase = "resolve"
    BY <1>1 DEF ResolveClean
  <2>2. state[g] = "Pending"
    BY <2>1 DEF ReadyInv
  <2>. QED
    BY <2>1, <2>2 DEF TypeInv
<1>2. CASE Submit
  BY <1>2 DEF Submit, ReadyToRun, TypeInv
<1>3. CASE AwaitSuccess
  <2>. DEFINE g == Head(resQ)[1]
  <2>1. /\ phase = "await" /\ Res!Recv(Main) /\ UNCHANGED <<wpc, execQ, execReply>>
        /\ state' = [state EXCEPT ![g] = "Success"]
    BY <1>3 DEF AwaitSuccess
  <2>2. state[g] = "Running"
    BY <2>1, AnswerIsRunning
  <2>. HIDE DEF g
  <2>. QED
    BY <2>1, <2>2 DEF TypeInv
<1>4. CASE state' = state
  BY <1>4
<1>5. LinkImport \/ FinishFile \/ SeedClean \/ CountRemaining \/ SubmitEnd \/ AwaitFailure
      => state' = state
  BY DEF LinkImport, FinishFile, SeedClean, CountRemaining, SubmitEnd, AwaitFailure
<1>6. ASSUME NEW w \in Workers, WorkerStep(w) PROVE state' = state
  BY <1>6 DEF WorkerStep, WorkerTake, WorkerRun, WorkerReport
<1>7. UNCHANGED vars => state' = state
  BY DEF vars
<1>. QED
  BY <1>1, <1>2, <1>3, <1>4, <1>5, <1>6, <1>7 DEF Next, MainStep

-----------------------------------------------------------------------------
(* Registration                                                            *)

OnStack(f) == \E k \in DOMAIN stack : stack[k][1] = f

RegisteredInv ==
    /\ phase # "register" => stack = <<>>
    /\ \A k \in DOMAIN stack :
          /\ state[stack[k][1]] # "Absent"
          /\ stack[k][2] <= Len(imports[stack[k][1]]) + 1
    /\ \A j, k \in DOMAIN stack : stack[j][1] = stack[k][1] => j = k
    /\ \A k \in DOMAIN registered : state[registered[k]] # "Absent"
    /\ \A j, k \in DOMAIN registered : registered[j] = registered[k] => j = k
    /\ idx <= Len(registered) + 1

LEMMA InitRegisteredInv == Init => RegisteredInv
<1>. SUFFICES ASSUME Init PROVE RegisteredInv
  OBVIOUS
<1>1. stack = << <<Root, 1>> >> /\ registered = <<Root>> /\ state[Root] = "Pending"
  BY RootIsFile DEF Init
<1>2. imports[Root] \in ImportLists
  BY RootIsFile DEF Init
<1>3. Len(imports[Root]) \in Nat
  <2>1. imports[Root] \in UNION {[1..n -> Files] : n \in 0..MaxImports}
    BY <1>2 DEF ImportLists
  <2>2. PICK n \in 0..MaxImports : imports[Root] \in [1..n -> Files]
    BY <2>1, Zenon
  <2>. QED
    BY <2>2, MaxImportsIsNat
<1>. QED
  BY <1>1, <1>3 DEF Init, RegisteredInv

\* The stack after RegisterImport, LinkImport and FinishFile.
LEMMA StackMoves ==
    ASSUME TypeInv, RegisteredInv, phase = "register"
    PROVE  /\ RegisterImport =>
                LET g == imports[Frame[1]][Frame[2]]
                IN  /\ g \in Files /\ state[g] = "Absent"
                    /\ Len(stack') = Len(stack) + 1 /\ stack'[1] = <<g, 1>>
                    /\ \A k \in 2..Len(stack') : stack'[k] = stack[k - 1]
           /\ LinkImport =>
                /\ imports[Frame[1]][Frame[2]] \in Files
                /\ Len(stack') = Len(stack) /\ stack'[1] = <<Frame[1], Frame[2] + 1>>
                /\ \A k \in 2..Len(stack') : stack'[k] = stack[k]
           /\ FinishFile =>
                /\ Len(stack') = Len(stack) - 1
                /\ \A k \in 1..Len(stack') : stack'[k] = stack[k + 1]
                /\ Frame[2] = Len(imports[Frame[1]]) + 1
<1>0. /\ Frame = stack[1] /\ Frame[1] \in Files /\ Frame[2] \in Nat \ {0}
      /\ Tail(stack) \in Seq(Files \X (Nat \ {0}))
      /\ Len(stack) \in Nat \ {0} /\ Len(Tail(stack)) = Len(stack) - 1
      /\ \A k \in 1..Len(Tail(stack)) : Tail(stack)[k] = stack[k + 1]
  BY TopFrame
<1>1. ASSUME RegisterImport
      PROVE  LET g == imports[Frame[1]][Frame[2]]
             IN  /\ g \in Files /\ state[g] = "Absent"
                 /\ Len(stack') = Len(stack) + 1 /\ stack'[1] = <<g, 1>>
                 /\ \A k \in 2..Len(stack') : stack'[k] = stack[k - 1]
  <2>. DEFINE g == imports[Frame[1]][Frame[2]]
  <2>1. g \in Files
    BY <1>0, <1>1, ImportLines DEF RegisterImport
  <2>2. state[g] = "Absent" /\ stack' = << <<g, 1>> >> \o stack
    BY <1>1, <2>1 DEF RegisterImport, Registered
  <2>3. stack \in Seq(Files \X (Nat \ {0}))
    BY DEF TypeInv
  <2>. HIDE DEF g
  <2>4. /\ Len(stack') = Len(stack) + 1 /\ stack'[1] = <<g, 1>>
        /\ \A k \in 2..Len(stack') : stack'[k] = stack[k - 1]
    BY <2>1, <2>2, <2>3, PushFrame
  <2>. QED
    BY <2>1, <2>2, <2>4 DEF g
<1>2. ASSUME LinkImport
      PROVE  /\ imports[Frame[1]][Frame[2]] \in Files
             /\ Len(stack') = Len(stack) /\ stack'[1] = <<Frame[1], Frame[2] + 1>>
             /\ \A k \in 2..Len(stack') : stack'[k] = stack[k]
  <2>1. imports[Frame[1]][Frame[2]] \in Files
    BY <1>0, <1>2, ImportLines DEF LinkImport
  <2>2. stack' = << <<Frame[1], Frame[2] + 1>> >> \o Tail(stack)
    BY <1>2 DEF LinkImport
  <2>3. /\ Len(stack') = Len(Tail(stack)) + 1 /\ stack'[1] = <<Frame[1], Frame[2] + 1>>
        /\ \A k \in 2..Len(stack') : stack'[k] = Tail(stack)[k - 1]
    BY <1>0, <2>2, PushFrame
  <2>4. \A k \in 2..Len(stack') : Tail(stack)[k - 1] = stack[k]
    BY <1>0, <2>3
  <2>. QED
    BY <1>0, <2>1, <2>3, <2>4
<1>3. ASSUME FinishFile
      PROVE  /\ Len(stack') = Len(stack) - 1
             /\ \A k \in 1..Len(stack') : stack'[k] = stack[k + 1]
             /\ Frame[2] = Len(imports[Frame[1]]) + 1
  <2>1. stack' = Tail(stack) /\ Frame[2] > Len(imports[Frame[1]])
    BY <1>3 DEF FinishFile
  <2>2. Frame[2] <= Len(imports[Frame[1]]) + 1
    BY <1>0 DEF RegisteredInv
  <2>3. Len(imports[Frame[1]]) \in Nat
    BY <1>0, ImportLines, MaxImportsIsNat
  <2>. QED
    BY <1>0, <2>1, <2>2, <2>3
<1>. QED
  BY <1>1, <1>2, <1>3

LEMMA NextRegisteredInv ==
    TypeInv /\ ReadyInv /\ FlightInv /\ RegisteredInv /\ [Next]_vars => RegisteredInv'
<1>. SUFFICES ASSUME TypeInv, ReadyInv, FlightInv, RegisteredInv, [Next]_vars
              PROVE  RegisteredInv'
  OBVIOUS
<1>. USE DEF env, graph, exec, res, pool, store
<1>0. /\ stack \in Seq(Files \X (Nat \ {0})) /\ registered \in Seq(Files)
      /\ idx \in Nat \ {0} /\ DOMAIN stack = 1..Len(stack) /\ Len(stack) \in Nat
      /\ DOMAIN registered = 1..Len(registered) /\ Len(registered) \in Nat
      /\ \A k \in DOMAIN stack : stack[k][1] \in Files
      /\ \A k \in DOMAIN registered : registered[k] \in Files
  BY DEF TypeInv
<1>1. CASE RegisterImport
  <2>. DEFINE g == imports[Frame[1]][Frame[2]]
  <2>1. /\ g \in Files /\ state[g] = "Absent" /\ phase = "register"
        /\ Len(stack') = Len(stack) + 1 /\ stack'[1] = <<g, 1>>
        /\ \A k \in 2..Len(stack') : stack'[k] = stack[k - 1]
    BY <1>1, StackMoves DEF RegisterImport
  <2>2. /\ registered' = Append(registered, g) /\ imports' = imports
        /\ state' = [state EXCEPT ![g] = "Pending"] /\ idx' = idx /\ phase' = phase
    BY <1>1 DEF RegisterImport
  <2>3. Len(imports[g]) \in Nat
    BY <2>1, ImportLines, MaxImportsIsNat
  <2>. HIDE DEF g
  <2>4. \A f \in Files : state'[f] = IF f = g THEN "Pending" ELSE state[f]
    BY <2>2 DEF TypeInv
  <2>5. /\ DOMAIN registered' = 1..(Len(registered) + 1) /\ Len(registered') = Len(registered) + 1
        /\ registered'[Len(registered) + 1] = g
        /\ \A k \in 1..Len(registered) : registered'[k] = registered[k]
    BY <1>0, <2>1, <2>2
  <2>6. \A k \in DOMAIN registered : registered[k] # g
    BY <2>1 DEF RegisteredInv
  <2>7. /\ \A k \in DOMAIN registered' : state'[registered'[k]] # "Absent"
        /\ \A j, k \in DOMAIN registered' : registered'[j] = registered'[k] => j = k
        /\ idx' <= Len(registered') + 1
    BY <1>0, <2>1, <2>2, <2>4, <2>5, <2>6 DEF RegisteredInv
  <2>8. DOMAIN stack' = 1..Len(stack')
    BY <1>1, NextTypeInv DEF Next, MainStep, TypeInv
  <2>9. \A k \in DOMAIN stack : stack[k][1] # g
    BY <2>1 DEF RegisteredInv
  <2>10. \A k \in DOMAIN stack' :
            /\ state'[stack'[k][1]] # "Absent"
            /\ stack'[k][2] <= Len(imports'[stack'[k][1]]) + 1
    <3>. TAKE k \in DOMAIN stack'
    <3>1. CASE k = 1
      BY <2>1, <2>2, <2>3, <2>4, <3>1
    <3>2. CASE k # 1
      <4>1. k - 1 \in DOMAIN stack /\ stack'[k] = stack[k - 1]
        BY <1>0, <2>1, <2>8, <3>2
      <4>. QED
        BY <1>0, <2>2, <2>4, <4>1 DEF RegisteredInv
    <3>. QED  BY <3>1, <3>2
  <2>11. \A j, k \in DOMAIN stack' : stack'[j][1] = stack'[k][1] => j = k
    <3>1. \A k \in DOMAIN stack' : k # 1 =>
             k - 1 \in DOMAIN stack /\ stack'[k] = stack[k - 1] /\ k \in Nat
      BY <1>0, <2>1, <2>8
    <3>2. stack'[1][1] = g
      BY <2>1
    <3>. QED
      BY <2>9, <3>1, <3>2 DEF RegisteredInv
  <2>. QED
    BY <2>1, <2>2, <2>7, <2>10, <2>11 DEF RegisteredInv
<1>2. CASE LinkImport
  <2>1. /\ Len(stack') = Len(stack) /\ stack'[1] = <<Frame[1], Frame[2] + 1>>
        /\ \A k \in 2..Len(stack') : stack'[k] = stack[k]
    BY <1>2, StackMoves DEF LinkImport
  <2>2. /\ Frame = stack[1] /\ Frame[1] \in Files /\ Frame[2] \in Nat \ {0}
        /\ Len(stack) \in Nat \ {0}
    BY <1>2, TopFrame DEF LinkImport
  <2>3. /\ UNCHANGED <<imports, state, registered, idx, phase>> /\ phase = "register"
        /\ Frame[2] <= Len(imports[Frame[1]])
    BY <1>2 DEF LinkImport
  <2>4. DOMAIN stack' = DOMAIN stack
    <3>1. stack' \in Seq(Files \X (Nat \ {0}))
      BY <1>2, NextTypeInv DEF Next, MainStep, TypeInv
    <3>. QED  BY <1>0, <2>1, <3>1
  <2>5. \A k \in DOMAIN stack' : stack'[k][1] = stack[k][1]
    BY <1>0, <2>1, <2>2, <2>4
  <2>6. \A k \in DOMAIN stack' : stack'[k][2] <= Len(imports[stack'[k][1]]) + 1
    <3>. TAKE k \in DOMAIN stack'
    <3>1. CASE k = 1
      <4>1. Len(imports[Frame[1]]) \in Nat
        BY <2>2, ImportLines, MaxImportsIsNat
      <4>. QED  BY <2>1, <2>2, <2>3, <3>1, <4>1
    <3>2. CASE k # 1
      BY <1>0, <2>1, <2>4, <3>2 DEF RegisteredInv
    <3>. QED  BY <3>1, <3>2
  <2>. QED
    BY <2>3, <2>4, <2>5, <2>6 DEF RegisteredInv
<1>3. CASE FinishFile
  <2>1. /\ Len(stack') = Len(stack) - 1
        /\ \A k \in 1..Len(stack') : stack'[k] = stack[k + 1]
    BY <1>3, StackMoves DEF FinishFile
  <2>2. /\ UNCHANGED <<imports, state, registered, idx>>
        /\ phase' = IF stack' = <<>> THEN "seed" ELSE "register"
    BY <1>3 DEF FinishFile
  <2>3. DOMAIN stack' = 1..Len(stack') /\ Len(stack') \in Nat
    <3>1. stack' \in Seq(Files \X (Nat \ {0}))
      BY <1>3, NextTypeInv DEF Next, MainStep, TypeInv
    <3>. QED  BY <3>1
  <2>4. \A k \in DOMAIN stack' : k + 1 \in DOMAIN stack /\ stack'[k] = stack[k + 1] /\ k \in Nat
    BY <1>0, <2>1, <2>3
  <2>. QED
    BY <2>2, <2>4 DEF RegisteredInv
<1>4. CASE UNCHANGED <<imports, stack, registered>> /\ ~RegisterImport
           /\ (phase = "register" <=> phase' = "register")
           /\ idx' <= Len(registered) + 1
  <2>1. \A f \in Files : state'[f] = "Absent" <=> state[f] = "Absent"
    BY <1>4, AbsentStays
  <2>. QED
    BY <1>0, <1>4, <2>1 DEF RegisteredInv
<1>5. CASE SeedClean \/ ResolveClean \/ CountRemaining \/ AwaitSuccess \/ AwaitFailure
  <2>1. /\ UNCHANGED <<imports, stack, registered, idx>>
        /\ phase # "register" /\ phase' # "register"
    BY <1>5 DEF SeedClean, ResolveClean, CountRemaining, AwaitSuccess, AwaitFailure
  <2>. QED
    BY <1>4, <2>1 DEF RegisteredInv, RegisterImport
<1>6. CASE Submit
  <2>1. /\ UNCHANGED <<imports, stack, registered>> /\ phase = "submit" /\ phase' = phase
        /\ idx' = idx + 1 /\ idx <= Len(registered)
    BY <1>6 DEF Submit
  <2>. QED
    BY <1>0, <1>4, <2>1 DEF RegisterImport
<1>9. CASE SubmitEnd
  <2>1. /\ UNCHANGED <<imports, stack, registered>> /\ phase = "submit" /\ phase' = "await"
        /\ idx' = 1
    BY <1>9 DEF SubmitEnd
  <2>. QED
    BY <1>0, <1>4, <2>1 DEF RegisterImport
<1>7. ASSUME NEW w \in Workers, WorkerStep(w) PROVE RegisteredInv'
  BY <1>7 DEF WorkerStep, WorkerTake, WorkerRun, WorkerReport, RegisteredInv
<1>8. CASE UNCHANGED vars
  BY <1>8 DEF vars, RegisteredInv
<1>. QED
  BY <1>1, <1>2, <1>3, <1>5, <1>6, <1>7, <1>8, <1>9 DEF Next, MainStep

-----------------------------------------------------------------------------
(* Each import line linked so far is one entry of dependents               *)

LinesOf(l, f, n) == Cardinality({i \in 1..n : l[i] = f})

LEMMA LinesNone ==
    ASSUME NEW l, NEW f PROVE LinesOf(l, f, 0) = 0
<1>1. {i \in 1..0 : l[i] = f} = {}
  OBVIOUS
<1>. QED
  BY <1>1, FS_EmptySet DEF LinesOf

LEMMA LinesNat ==
    ASSUME NEW l, NEW f, NEW n \in Nat
    PROVE  IsFiniteSet({i \in 1..n : l[i] = f}) /\ LinesOf(l, f, n) \in Nat
<1>1. IsFiniteSet(1..n)
  BY FS_Interval
<1>. QED
  BY <1>1, FS_Subset, FS_CardinalityType DEF LinesOf

LEMMA LinesOneMore ==
    ASSUME NEW l, NEW f, NEW n \in Nat
    PROVE  LinesOf(l, f, n + 1) = LinesOf(l, f, n) + (IF l[n + 1] = f THEN 1 ELSE 0)
<1>. DEFINE A == {i \in 1..n : l[i] = f}
            B == {i \in 1..(n + 1) : l[i] = f}
<1>1. IsFiniteSet(A) /\ Cardinality(A) \in Nat
  BY LinesNat DEF LinesOf
<1>2. n + 1 \notin A
  OBVIOUS
<1>3. l[n + 1] = f => B = A \cup {n + 1}
  OBVIOUS
<1>4. l[n + 1] # f => B = A
  OBVIOUS
<1>5. Cardinality(A \cup {n + 1}) = Cardinality(A) + 1
  BY <1>1, <1>2, FS_AddElement
<1>6. LinesOf(l, f, n + 1) = Cardinality(B) /\ LinesOf(l, f, n) = Cardinality(A)
  BY DEF LinesOf
<1>. HIDE DEF A, B
<1>7. l[n + 1] = f => LinesOf(l, f, n + 1) = LinesOf(l, f, n) + 1
  BY <1>3, <1>5, <1>6
<1>8. l[n + 1] # f => LinesOf(l, f, n + 1) = LinesOf(l, f, n)
  BY <1>4, <1>6
<1>9. LinesOf(l, f, n) \in Nat
  BY LinesNat
<1>. QED
  BY <1>7, <1>8, <1>9

\* g is a dependent of f once for every line of g that imports f and was read.
LinksOf(f, g) ==
    /\ state[g] = "Absent" => Count(dependents[f], g) = 0
    /\ \A k \in DOMAIN stack : stack[k][1] = g =>
          Count(dependents[f], g) = LinesOf(imports[g], f, stack[k][2] - 1)
    /\ state[g] # "Absent" /\ ~OnStack(g) =>
          Count(dependents[f], g) = LinesOf(imports[g], f, Len(imports[g]))
LinkInv == \A f, g \in Files : LinksOf(f, g)

LEMMA InitLinkInv == Init => LinkInv
<1>. SUFFICES ASSUME Init, NEW f \in Files, NEW g \in Files PROVE LinksOf(f, g)
  BY DEF LinkInv
<1>1. /\ stack = << <<Root, 1>> >> /\ dependents[f] = <<>>
      /\ state[g] = IF g = Root THEN "Pending" ELSE "Absent"
  BY DEF Init
<1>2. Count(dependents[f], g) = 0
  BY <1>1, CountEmpty
<1>3. g = Root => OnStack(g)
  BY <1>1 DEF OnStack
<1>4. \A k \in DOMAIN stack : stack[k][2] - 1 = 0
  BY <1>1
<1>. QED
  BY <1>1, <1>2, <1>3, <1>4, LinesNone DEF LinksOf

LEMMA NextLinkInv ==
    /\ TypeInv /\ ReadyInv /\ FlightInv /\ RegisteredInv /\ LinkInv
    /\ [Next]_vars
    => LinkInv'
<1>. SUFFICES ASSUME TypeInv, ReadyInv, FlightInv, RegisteredInv, LinkInv, [Next]_vars,
                     NEW f \in Files, NEW g \in Files
              PROVE  LinksOf(f, g)'
  BY DEF LinkInv
<1>. USE DEF env, graph, exec, res, pool, store
<1>0. /\ stack \in Seq(Files \X (Nat \ {0})) /\ DOMAIN stack = 1..Len(stack)
      /\ Len(stack) \in Nat /\ LinksOf(f, g) /\ imports \in [Files -> ImportLists]
      /\ \A k \in DOMAIN stack : stack[k][1] \in Files /\ stack[k][2] \in Nat \ {0}
  <2>1. LinksOf(f, g)
    BY DEF LinkInv
  <2>2. stack \in Seq(Files \X (Nat \ {0})) /\ imports \in [Files -> ImportLists]
    BY DEF TypeInv
  <2>3. \A k \in DOMAIN stack : stack[k] \in Files \X (Nat \ {0})
    BY <2>2
  <2>. QED
    BY <2>1, <2>2, <2>3
<1>t. /\ stack' \in Seq(Files \X (Nat \ {0})) /\ DOMAIN stack' = 1..Len(stack')
      /\ Len(stack') \in Nat
  <2>1. TypeInv'
    BY NextTypeInv
  <2>2. stack' \in Seq(Files \X (Nat \ {0}))
    BY <2>1 DEF TypeInv
  <2>. QED
    BY <2>2
<1>1. CASE RegisterImport
  <2>1. PICK h \in Files : h = imports[Frame[1]][Frame[2]]
    BY <1>1, StackMoves DEF RegisterImport
  <2>2. /\ state[h] = "Absent" /\ Len(stack') = Len(stack) + 1 /\ stack'[1] = <<h, 1>>
        /\ \A k \in 2..Len(stack') : stack'[k] = stack[k - 1]
    BY <1>1, <2>1, StackMoves DEF RegisterImport
  <2>3. /\ state' = [state EXCEPT ![h] = "Pending"]
        /\ imports' = imports /\ dependents' = dependents
    BY <1>1, <2>1 DEF RegisterImport
  <2>4. CASE g = h
    <3>1. Count(dependents[f], g) = 0 /\ state'[g] # "Absent"
      BY <1>0, <2>2, <2>3, <2>4 DEF LinksOf, TypeInv
    <3>2. \A k \in DOMAIN stack : stack[k][1] # g
      BY <2>2, <2>4 DEF RegisteredInv
    <3>3. \A k \in DOMAIN stack' : stack'[k][1] = g => k = 1
      <4>. SUFFICES ASSUME NEW k \in DOMAIN stack', k # 1 PROVE stack'[k][1] # g
        OBVIOUS
      <4>1. k \in 2..Len(stack') /\ k - 1 \in DOMAIN stack
        <5>1. k \in 1..Len(stack')
          BY <1>t
        <5>. QED  BY <1>0, <2>2, <5>1
      <4>2. stack'[k] = stack[k - 1]
        BY <2>2, <4>1
      <4>. QED  BY <3>2, <4>1, <4>2
    <3>4. stack'[1][1] = g /\ stack'[1][2] - 1 = 0 /\ 1 \in DOMAIN stack'
      BY <1>0, <1>t, <2>2, <2>4
    <3>. QED
      BY <2>3, <3>1, <3>3, <3>4, LinesNone DEF LinksOf, OnStack
  <2>5. CASE g # h
    <3>1. state'[g] = state[g]
      BY <2>3, <2>5 DEF TypeInv
    <3>2. \A k \in DOMAIN stack' : stack'[k][1] = g =>
             k - 1 \in DOMAIN stack /\ stack'[k] = stack[k - 1]
      BY <1>0, <1>t, <2>2, <2>5
    <3>3. \A k \in DOMAIN stack : k + 1 \in DOMAIN stack' /\ stack'[k + 1] = stack[k]
      <4>1. \A k \in DOMAIN stack : k \in Int /\ k + 1 \in 2..Len(stack')
        BY <1>0, <2>2
      <4>2. \A k \in 2..Len(stack') : k \in DOMAIN stack' /\ stack'[k] = stack[k - 1]
        BY <1>t, <2>2
      <4>. QED  BY <4>1, <4>2
    <3>4. OnStack(g)' <=> OnStack(g)
      BY <3>2, <3>3 DEF OnStack
    <3>. QED
      BY <1>0, <2>3, <3>1, <3>2, <3>4 DEF LinksOf
  <2>. QED
    BY <2>4, <2>5
<1>2. CASE LinkImport
  <2>1. PICK h \in Files, t \in Files, i \in Nat \ {0} :
           h = Frame[1] /\ i = Frame[2] /\ t = imports[h][i]
    BY <1>2, StackMoves, TopFrame DEF LinkImport
  <2>2. /\ Len(stack') = Len(stack) /\ stack'[1] = <<h, i + 1>>
        /\ \A k \in 2..Len(stack') : stack'[k] = stack[k]
        /\ stack[1] = <<h, i>> /\ 1 \in DOMAIN stack
    BY <1>2, <2>1, StackMoves, TopFrame DEF LinkImport
  <2>3. /\ dependents' = [dependents EXCEPT ![t] = Append(@, h)]
        /\ imports' = imports /\ state' = state
    BY <1>2, <2>1 DEF LinkImport
  <2>4. DOMAIN stack' = DOMAIN stack /\ \A k \in DOMAIN stack : stack'[k][1] = stack[k][1]
    <3>1. DOMAIN stack' = DOMAIN stack
      BY <1>0, <1>t, <2>2
    <3>2. stack'[1][1] = stack[1][1]
      BY <2>2
    <3>3. \A k \in DOMAIN stack : k # 1 => k \in 2..Len(stack')
      BY <1>0, <2>2
    <3>. QED
      BY <2>2, <3>1, <3>2, <3>3
  <2>5. OnStack(g)' <=> OnStack(g)
    BY <2>4 DEF OnStack
  <2>6. Count(dependents'[f], g) =
           Count(dependents[f], g) + (IF f = t /\ g = h THEN 1 ELSE 0)
    <3>1. dependents[f] \in Seq(Files) /\ Count(dependents[f], g) \in Nat
      BY CountIsNat DEF TypeInv
    <3>2. dependents'[f] = IF f = t THEN Append(dependents[f], h) ELSE dependents[f]
      BY <2>3 DEF TypeInv
    <3>3. Count(Append(dependents[f], h), g) =
             Count(dependents[f], g) + (IF h = g THEN 1 ELSE 0)
      BY <3>1, CountAppend
    <3>. QED
      BY <3>1, <3>2, <3>3
  <2>7. Count(dependents[f], g) \in Nat
    BY CountIsNat DEF TypeInv
  <2>8. CASE g = h
    <3>1. \A k \in DOMAIN stack : stack[k][1] = g => k = 1
      BY <2>2, <2>8 DEF RegisteredInv
    <3>2. Count(dependents[f], g) = LinesOf(imports[g], f, i - 1)
      BY <1>0, <2>2, <2>8 DEF LinksOf
    <3>3. LinesOf(imports[g], f, i) =
             LinesOf(imports[g], f, i - 1) + (IF t = f THEN 1 ELSE 0)
      <4>1. i - 1 \in Nat /\ (i - 1) + 1 = i
        OBVIOUS
      <4>. QED  BY <2>1, <2>8, <4>1, LinesOneMore
    <3>4. Count(dependents'[f], g) = LinesOf(imports[g], f, i)
      BY <2>6, <2>7, <2>8, <3>2, <3>3
    <3>5. \A k \in DOMAIN stack' : stack'[k][1] = g => stack'[k][2] - 1 = i
      BY <2>2, <2>4, <3>1
    <3>6. state[g] # "Absent" /\ OnStack(g)
      BY <2>2, <2>8 DEF RegisteredInv, OnStack
    <3>. QED
      BY <2>3, <2>5, <3>4, <3>5, <3>6 DEF LinksOf
  <2>9. CASE g # h
    <3>1. Count(dependents'[f], g) = Count(dependents[f], g)
      BY <2>6, <2>7, <2>9
    <3>2. \A k \in DOMAIN stack' : stack'[k][1] = g => stack'[k] = stack[k]
      BY <1>0, <2>2, <2>4, <2>9
    <3>. QED
      BY <1>0, <2>3, <2>4, <2>5, <3>1, <3>2 DEF LinksOf
  <2>. QED
    BY <2>8, <2>9
<1>3. CASE FinishFile
  <2>1. PICK h \in Files : h = Frame[1]
    BY <1>3, TopFrame DEF FinishFile
  <2>2. /\ Len(stack') = Len(stack) - 1
        /\ \A k \in 1..Len(stack') : stack'[k] = stack[k + 1]
        /\ stack[1] = <<h, Len(imports[h]) + 1>> /\ 1 \in DOMAIN stack
    BY <1>3, <2>1, StackMoves, TopFrame DEF FinishFile
  <2>3. UNCHANGED <<imports, state, dependents>>
    BY <1>3 DEF FinishFile
  <2>4. \A k \in DOMAIN stack' : k + 1 \in DOMAIN stack /\ stack'[k] = stack[k + 1]
    <3>1. \A k \in DOMAIN stack' : k \in 1..Len(stack')
      BY <1>t
    <3>2. \A k \in 1..Len(stack') : k + 1 \in DOMAIN stack
      BY <1>0, <2>2
    <3>. QED  BY <2>2, <3>1, <3>2
  <2>5. \A k \in DOMAIN stack : k # 1 => k - 1 \in DOMAIN stack' /\ stack'[k - 1] = stack[k]
    <3>1. \A k \in DOMAIN stack : k # 1 => k \in Int /\ k - 1 \in 1..Len(stack')
      BY <1>0, <2>2
    <3>2. \A k \in 1..Len(stack') : k \in DOMAIN stack'
      BY <1>t
    <3>. QED  BY <2>2, <3>1, <3>2
  <2>6. CASE g = h
    <3>1. Len(imports[h]) \in Nat
      BY ImportLines, MaxImportsIsNat
    <3>2. Count(dependents[f], g) = LinesOf(imports[g], f, Len(imports[g]))
      <4>1. stack[1][1] = g /\ stack[1][2] - 1 = Len(imports[g])
        BY <2>2, <2>6, <3>1
      <4>2. Count(dependents[f], g) = LinesOf(imports[g], f, stack[1][2] - 1)
        BY <1>0, <2>2, <4>1 DEF LinksOf
      <4>. QED  BY <4>1, <4>2
    <3>3. state[g] # "Absent" /\ \A k \in DOMAIN stack : stack[k][1] = g => k = 1
      <4>1. stack[1][1] = g
        BY <2>2, <2>6
      <4>. QED  BY <2>2, <4>1 DEF RegisteredInv
    <3>4. \A k \in DOMAIN stack' : stack'[k][1] # g
      <4>. SUFFICES ASSUME NEW k \in DOMAIN stack', stack'[k][1] = g PROVE FALSE
        OBVIOUS
      <4>1. k + 1 \in DOMAIN stack /\ stack[k + 1][1] = g /\ k \in Nat /\ k > 0
        BY <1>t, <2>4
      <4>2. k + 1 = 1
        BY <3>3, <4>1
      <4>. QED  BY <4>1, <4>2
    <3>. QED
      BY <2>3, <3>2, <3>3, <3>4 DEF LinksOf
  <2>7. CASE g # h
    <3>1. OnStack(g)' => OnStack(g)
      BY <2>4 DEF OnStack
    <3>2. OnStack(g) => OnStack(g)'
      <4>1. ASSUME NEW k \in DOMAIN stack, stack[k][1] = g
            PROVE  \E j \in DOMAIN stack' : stack'[j][1] = g
        <5>1. k # 1
          BY <2>2, <2>7, <4>1
        <5>. QED  BY <2>5, <4>1, <5>1
      <4>. QED  BY <4>1 DEF OnStack
    <3>3. \A k \in DOMAIN stack' : stack'[k][1] = g =>
             Count(dependents[f], g) = LinesOf(imports[g], f, stack'[k][2] - 1)
      BY <1>0, <2>4 DEF LinksOf
    <3>. QED
      BY <1>0, <2>3, <3>1, <3>2, <3>3 DEF LinksOf
  <2>. QED
    BY <2>6, <2>7
<1>4. CASE UNCHANGED <<imports, stack, dependents>> /\ ~RegisterImport
  <2>1. state'[g] = "Absent" <=> state[g] = "Absent"
    BY <1>4, AbsentStays
  <2>2. OnStack(g)' <=> OnStack(g)
    BY <1>4 DEF OnStack
  <2>. QED
    BY <1>0, <1>4, <2>1, <2>2 DEF LinksOf
<1>5. SeedClean \/ ResolveClean \/ CountRemaining \/ Submit \/ SubmitEnd
      \/ AwaitSuccess \/ AwaitFailure
      => UNCHANGED <<imports, stack, dependents>> /\ ~RegisterImport
  BY DEF SeedClean, ResolveClean, CountRemaining, Submit, SubmitEnd, AwaitSuccess,
         AwaitFailure, RegisterImport
<1>6. ASSUME NEW w \in Workers, WorkerStep(w) PROVE LinksOf(f, g)'
  BY <1>0, <1>6 DEF WorkerStep, WorkerTake, WorkerRun, WorkerReport, LinksOf, OnStack
<1>7. CASE UNCHANGED vars
  BY <1>0, <1>7 DEF vars, LinksOf, OnStack
<1>. QED
  BY <1>1, <1>2, <1>3, <1>4, <1>5, <1>6, <1>7 DEF Next, MainStep

-----------------------------------------------------------------------------
(* in_degree and the import lines that are still open                      *)

Open(f) == {i \in DOMAIN imports[f] : state[imports[f][i]] # "Success"}

DegreeOf(f) ==
    /\ state[f] = "Absent" => inDegree[f] = 0
    /\ phase = "register" =>
          inDegree[f] = IF state[f] # "Absent" /\ ~OnStack(f) THEN Len(imports[f]) ELSE 0
    /\ phase # "register" /\ state[f] # "Absent" => inDegree[f] = Cardinality(Open(f))
DegreeInv == \A f \in Files : DegreeOf(f)

LEMMA OpenIsFinite ==
    ASSUME TypeInv, NEW f \in Files
    PROVE  /\ IsFiniteSet(Open(f)) /\ Cardinality(Open(f)) \in Nat
           /\ Cardinality(Open(f)) = 0 <=> Open(f) = {}
<1>1. DOMAIN imports[f] = 1..Len(imports[f]) /\ Len(imports[f]) \in Nat
  BY ImportLines, MaxImportsIsNat
<1>2. IsFiniteSet(DOMAIN imports[f])
  BY <1>1, FS_Interval
<1>3. Open(f) \in SUBSET DOMAIN imports[f]
  BY DEF Open
<1>. QED
  BY <1>2, <1>3, FS_Subset, FS_CardinalityType, FS_EmptySet

\* Before the first success every line is open.
LEMMA AllOpen ==
    ASSUME TypeInv, \A h \in Files : state[h] # "Success", NEW f \in Files
    PROVE  Cardinality(Open(f)) = Len(imports[f])
<1>1. /\ DOMAIN imports[f] = 1..Len(imports[f]) /\ Len(imports[f]) \in Nat
      /\ \A i \in DOMAIN imports[f] : imports[f][i] \in Files
  BY ImportLines, MaxImportsIsNat
<1>2. Open(f) = 1..Len(imports[f])
  BY <1>1 DEF Open
<1>. QED
  BY <1>1, <1>2, FS_Interval

LEMMA OpenSame ==
    ASSUME TypeInv, imports' = imports,
           \A h \in Files : state'[h] = "Success" <=> state[h] = "Success",
           NEW f \in Files
    PROVE  Open(f)' = Open(f)
BY ImportLines DEF Open

\* A file is built: it closes the lines that import it and no other.
LEMMA OpenCloses ==
    ASSUME TypeInv, imports' = imports, NEW h \in Files, state[h] # "Success",
           state' = [state EXCEPT ![h] = "Success"], NEW f \in Files
    PROVE  /\ At(imports[f], h) \subseteq Open(f)
           /\ Open(f)' = Open(f) \ At(imports[f], h)
<1>1. \A i \in DOMAIN imports[f] : imports[f][i] \in Files
  BY ImportLines
<1>2. \A g \in Files : state'[g] = IF g = h THEN "Success" ELSE state[g]
  BY DEF TypeInv
<1>3. Open(f)' = {i \in DOMAIN imports[f] : state'[imports[f][i]] # "Success"}
  BY DEF Open
<1>. QED
  BY <1>1, <1>2, <1>3 DEF Open, At

\* Decremented takes from in_degree what the success closes.
LEMMA SuccessDecrements ==
    ASSUME TypeInv, RegisteredInv, LinkInv, phase # "register", imports' = imports,
           NEW h \in Files, state[h] # "Success", state[h] # "Absent",
           state' = [state EXCEPT ![h] = "Success"], inDegree' = Decremented(h),
           phase' # "register", NEW f \in Files, DegreeOf(f)
    PROVE  DegreeOf(f)'
<1>1. inDegree'[f] = inDegree[f] - Count(dependents[h], f)
  BY DEF Decremented
<1>2. state'[f] = IF f = h THEN "Success" ELSE state[f]
  BY DEF TypeInv
<1>3. LinksOf(h, f)
  BY DEF LinkInv
<1>4. CASE state[f] = "Absent"
  <2>1. Count(dependents[h], f) = 0 /\ inDegree[f] = 0
    BY <1>3, <1>4 DEF LinksOf, DegreeOf
  <2>2. inDegree'[f] = 0
    BY <1>1, <2>1
  <2>. QED
    BY <1>2, <1>4, <2>2 DEF DegreeOf
<1>5. CASE state[f] # "Absent"
  <2>1. ~OnStack(f)
    BY DEF RegisteredInv, OnStack
  <2>2. Count(dependents[h], f) = LinesOf(imports[f], h, Len(imports[f]))
    BY <1>3, <1>5, <2>1 DEF LinksOf
  <2>3. LinesOf(imports[f], h, Len(imports[f])) = Cardinality(At(imports[f], h))
    BY ImportLines DEF LinesOf, At
  <2>4. inDegree[f] = Cardinality(Open(f))
    BY <1>5 DEF DegreeOf
  <2>5. /\ At(imports[f], h) \subseteq Open(f)
        /\ Open(f)' = Open(f) \ At(imports[f], h)
    BY OpenCloses
  <2>6. Open(f) \cap At(imports[f], h) = At(imports[f], h)
    BY <2>5
  <2>7. Cardinality(Open(f)') = Cardinality(Open(f)) - Cardinality(At(imports[f], h))
    BY <2>5, <2>6, OpenIsFinite, FS_Difference
  <2>8. inDegree'[f] = Cardinality(Open(f)')
    BY <1>1, <2>2, <2>3, <2>4, <2>7
  <2>9. state'[f] # "Absent"
    BY <1>2, <1>5
  <2>. QED
    BY <2>8, <2>9 DEF DegreeOf
<1>. QED
  BY <1>4, <1>5

\* Who has a register_file call of its own after a step of the recursion.
LEMMA OnStackMoves ==
    ASSUME TypeInv, ReadyInv, FlightInv, RegisteredInv, [Next]_vars,
           phase = "register", NEW g \in Files
    PROVE  /\ RegisterImport =>
                (OnStack(g)' <=> OnStack(g) \/ g = imports[Frame[1]][Frame[2]])
           /\ LinkImport => (OnStack(g)' <=> OnStack(g))
           /\ FinishFile => (OnStack(g)' <=> OnStack(g) /\ g # Frame[1])
<1>1. /\ stack \in Seq(Files \X (Nat \ {0})) /\ stack # <<>>
      /\ stack' \in Seq(Files \X (Nat \ {0}))
  <2>1. TypeInv'
    BY NextTypeInv
  <2>. QED
    BY <2>1 DEF TypeInv
<1>2. /\ DOMAIN stack = 1..Len(stack) /\ Len(stack) \in Nat \ {0}
      /\ DOMAIN stack' = 1..Len(stack') /\ Len(stack') \in Nat
  BY <1>1
<1>3. Frame = stack[1]
  BY TopFrame
<1>4. CASE RegisterImport
  <2>. DEFINE h == imports[Frame[1]][Frame[2]]
  <2>1. /\ Len(stack') = Len(stack) + 1 /\ stack'[1] = <<h, 1>>
        /\ \A k \in 2..Len(stack') : stack'[k] = stack[k - 1]
    BY <1>4, StackMoves
  <2>. HIDE DEF h
  <2>2. /\ 1 \in DOMAIN stack' /\ stack'[1][1] = h
        /\ \A k \in DOMAIN stack' : k # 1 => k - 1 \in DOMAIN stack /\ stack'[k] = stack[k - 1]
        /\ \A k \in DOMAIN stack : k + 1 \in DOMAIN stack' /\ stack'[k + 1] = stack[k]
    BY <1>2, <2>1
  <2>3. OnStack(g)' <=> OnStack(g) \/ g = h
    BY <2>2 DEF OnStack
  <2>. QED
    BY <1>4, <2>3 DEF h, RegisterImport, LinkImport, FinishFile, Registered
<1>5. CASE LinkImport
  <2>1. /\ Len(stack') = Len(stack) /\ stack'[1] = <<Frame[1], Frame[2] + 1>>
        /\ \A k \in 2..Len(stack') : stack'[k] = stack[k]
    BY <1>5, StackMoves
  <2>2. DOMAIN stack' = DOMAIN stack /\ \A k \in DOMAIN stack : stack'[k][1] = stack[k][1]
    BY <1>2, <1>3, <2>1
  <2>3. OnStack(g)' <=> OnStack(g)
    BY <2>2 DEF OnStack
  <2>4. ~RegisterImport /\ ~FinishFile
    <3>1. /\ Frame[2] <= Len(imports[Frame[1]]) /\ Frame[2] \in Nat
          /\ imports[Frame[1]][Frame[2]] \in Registered
      BY <1>5, TopFrame DEF LinkImport
    <3>2. Len(imports[Frame[1]]) \in Nat
      BY TopFrame, ImportLines, MaxImportsIsNat
    <3>. QED
      BY <3>1, <3>2 DEF RegisterImport, FinishFile
  <2>. QED
    BY <2>3, <2>4
<1>6. CASE FinishFile
  <2>1. /\ Len(stack') = Len(stack) - 1
        /\ \A k \in 1..Len(stack') : stack'[k] = stack[k + 1]
    BY <1>6, StackMoves
  <2>2. /\ \A k \in DOMAIN stack' : k + 1 \in DOMAIN stack /\ k + 1 # 1 /\ stack'[k] = stack[k + 1]
        /\ \A k \in DOMAIN stack : k # 1 => k - 1 \in DOMAIN stack' /\ stack'[k - 1] = stack[k]
        /\ 1 \in DOMAIN stack
    BY <1>2, <2>1
  <2>3. \A k \in DOMAIN stack : stack[k][1] = Frame[1] => k = 1
    BY <1>3, <2>2 DEF RegisteredInv
  <2>4. ASSUME OnStack(g)' PROVE OnStack(g) /\ g # Frame[1]
    <3>1. PICK k \in DOMAIN stack' : stack'[k][1] = g
      BY <2>4 DEF OnStack
    <3>. QED
      BY <2>2, <2>3, <3>1 DEF OnStack
  <2>5. ASSUME OnStack(g), g # Frame[1] PROVE OnStack(g)'
    <3>1. PICK k \in DOMAIN stack : stack[k][1] = g
      BY <2>5 DEF OnStack
    <3>2. k # 1
      BY <1>3, <2>5, <3>1
    <3>3. k - 1 \in DOMAIN stack' /\ stack'[k - 1][1] = g
      BY <2>2, <3>1, <3>2
    <3>. QED
      BY <3>3 DEF OnStack
  <2>6. ~RegisterImport /\ ~LinkImport
    <3>1. Frame[2] > Len(imports[Frame[1]]) /\ Frame[2] \in Nat
      BY <1>6, TopFrame DEF FinishFile
    <3>2. Len(imports[Frame[1]]) \in Nat
      BY TopFrame, ImportLines, MaxImportsIsNat
    <3>. QED
      BY <3>1, <3>2 DEF RegisterImport, LinkImport
  <2>. QED
    BY <2>4, <2>5, <2>6
<1>. QED
  BY <1>4, <1>5, <1>6

LEMMA InitDegreeInv == Init => DegreeInv
<1>. SUFFICES ASSUME Init, NEW f \in Files PROVE DegreeOf(f)
  BY DEF DegreeInv
<1>1. inDegree[f] = 0 /\ phase = "register" /\ stack = << <<Root, 1>> >>
      /\ state[f] = IF f = Root THEN "Pending" ELSE "Absent"
  BY DEF Init
<1>2. state[f] # "Absent" => OnStack(f)
  BY <1>1 DEF OnStack
<1>. QED
  BY <1>1, <1>2 DEF DegreeOf

LEMMA NextDegreeInv ==
    /\ TypeInv /\ ReadyInv /\ FlightInv /\ EarlyInv /\ RegisteredInv /\ LinkInv /\ DegreeInv
    /\ [Next]_vars
    => DegreeInv'
<1>. SUFFICES ASSUME TypeInv, ReadyInv, FlightInv, EarlyInv, RegisteredInv, LinkInv,
                     DegreeInv, [Next]_vars, NEW f \in Files
              PROVE  DegreeOf(f)'
  BY DEF DegreeInv
<1>. USE DEF env, graph, exec, res, pool, store
<1>0. DegreeOf(f)
  BY DEF DegreeInv
<1>1. CASE RegisterImport
  <2>1. PICK h \in Files : h = imports[Frame[1]][Frame[2]]
    BY <1>1, StackMoves DEF RegisterImport
  <2>2. /\ state[h] = "Absent" /\ state' = [state EXCEPT ![h] = "Pending"]
        /\ UNCHANGED <<imports, inDegree, phase>> /\ phase = "register"
    BY <1>1, <2>1, StackMoves DEF RegisterImport
  <2>3. OnStack(f)' <=> OnStack(f) \/ f = h
    BY <1>1, <2>1, <2>2, OnStackMoves
  <2>4. state'[f] = IF f = h THEN "Pending" ELSE state[f]
    BY <2>2 DEF TypeInv
  <2>. QED
    BY <1>0, <2>2, <2>3, <2>4 DEF DegreeOf
<1>2. CASE LinkImport
  <2>1. UNCHANGED <<imports, state, inDegree, phase>> /\ phase = "register"
    BY <1>2 DEF LinkImport
  <2>2. OnStack(f)' <=> OnStack(f)
    BY <1>2, <2>1, OnStackMoves
  <2>. QED
    BY <1>0, <2>1, <2>2 DEF DegreeOf
<1>3. CASE FinishFile
  <2>1. PICK h \in Files : h = Frame[1]
    BY <1>3, TopFrame DEF FinishFile
  <2>2. /\ UNCHANGED <<imports, state>> /\ phase = "register" /\ stack' = Tail(stack)
        /\ inDegree' = [inDegree EXCEPT ![h] = Frame[2] - 1]
        /\ phase' = IF stack' = <<>> THEN "seed" ELSE "register"
    BY <1>3, <2>1 DEF FinishFile
  <2>3. Frame[2] - 1 = Len(imports[h]) /\ Len(imports[h]) \in Nat
    BY <1>3, <2>1, <2>2, StackMoves, ImportLines, MaxImportsIsNat
  <2>4. inDegree'[f] = IF f = h THEN Len(imports[h]) ELSE inDegree[f]
    BY <2>2, <2>3 DEF TypeInv
  <2>5. OnStack(f)' <=> OnStack(f) /\ f # h
    BY <1>3, <2>1, <2>2, OnStackMoves
  <2>6. state[h] # "Absent" /\ OnStack(h)
    BY <2>1, <2>2, TopFrame DEF RegisteredInv, OnStack
  <2>7. inDegree'[f] = IF state[f] # "Absent" /\ ~OnStack(f)' THEN Len(imports[f]) ELSE 0
    BY <1>0, <2>2, <2>4, <2>5, <2>6 DEF DegreeOf
  <2>8. phase' = "seed" => ~OnStack(f)'
    BY <2>2 DEF OnStack
  <2>9. phase' = "seed" => Cardinality(Open(f)') = Len(imports[f])
    <3>1. \A g \in Files : state[g] # "Success"
      BY <2>2 DEF EarlyInv
    <3>2. Open(f)' = Open(f)
      BY <2>2, OpenSame
    <3>. QED
      BY <3>1, <3>2, AllOpen
  <2>. QED
    BY <2>2, <2>7, <2>8, <2>9 DEF DegreeOf
<1>4. ASSUME UNCHANGED <<imports, inDegree>>, phase # "register", phase' # "register",
             \A g \in Files : /\ state'[g] = "Success" <=> state[g] = "Success"
                              /\ state'[g] = "Absent" <=> state[g] = "Absent"
      PROVE  DegreeOf(f)'
  <2>1. Open(f)' = Open(f)
    BY <1>4, OpenSame
  <2>. QED
    BY <1>0, <1>4, <2>1 DEF DegreeOf
<1>5. CASE SeedClean \/ CountRemaining \/ SubmitEnd \/ AwaitFailure
  BY <1>4, <1>5 DEF SeedClean, CountRemaining, SubmitEnd, AwaitFailure
<1>6. CASE Submit
  <2>1. \A g \in Files : /\ state'[g] = "Success" <=> state[g] = "Success"
                         /\ state'[g] = "Absent" <=> state[g] = "Absent"
    BY <1>6 DEF Submit, ReadyToRun, TypeInv
  <2>2. UNCHANGED <<imports, inDegree>> /\ phase = "submit" /\ phase' = phase
    BY <1>6 DEF Submit
  <2>. QED
    BY <1>4, <2>1, <2>2
<1>7. CASE ResolveClean
  <2>1. PICK h \in ready : /\ state' = [state EXCEPT ![h] = "Success"]
                           /\ inDegree' = Decremented(h)
    BY <1>7 DEF ResolveClean
  <2>2. phase = "resolve" /\ phase' = phase /\ imports' = imports
    BY <1>7 DEF ResolveClean
  <2>3. h \in Files /\ state[h] = "Pending"
    BY <2>2 DEF ReadyInv, TypeInv
  <2>. QED
    BY <1>0, <2>1, <2>2, <2>3, SuccessDecrements
<1>8. CASE AwaitSuccess
  <2>. DEFINE h == Head(resQ)[1]
  <2>1. /\ phase = "await" /\ Res!Recv(Main) /\ UNCHANGED <<wpc, execQ, execReply, imports>>
        /\ state' = [state EXCEPT ![h] = "Success"] /\ inDegree' = Decremented(h)
        /\ phase' # "register"
    BY <1>8 DEF AwaitSuccess
  <2>2. h \in Files /\ state[h] = "Running"
    BY <2>1, AnswerIsRunning
  <2>. HIDE DEF h
  <2>. QED
    BY <1>0, <2>1, <2>2, SuccessDecrements
<1>9. ASSUME UNCHANGED <<imports, stack, state, inDegree, phase>> PROVE DegreeOf(f)'
  BY <1>0, <1>9 DEF DegreeOf, Open, OnStack
<1>10. ASSUME NEW w \in Workers, WorkerStep(w) PROVE DegreeOf(f)'
  BY <1>9, <1>10 DEF WorkerStep, WorkerTake, WorkerRun, WorkerReport
<1>11. CASE UNCHANGED vars
  BY <1>9, <1>11 DEF vars
<1>. QED
  BY <1>1, <1>2, <1>3, <1>5, <1>6, <1>7, <1>8, <1>10, <1>11 DEF Next, MainStep

-----------------------------------------------------------------------------
(* Built in order                                                          *)

OrderInv ==
    /\ \A f \in Files : state[f] \in {"Running", "Success"} => Open(f) = {}
    /\ phase = "resolve" => \A f \in ready : inDegree[f] = 0

\* A Pending file whose count is zero has no open line.
LEMMA ZeroIsClosed ==
    ASSUME TypeInv, DegreeInv, phase # "register", NEW f \in Files,
           state[f] = "Pending", inDegree[f] = 0
    PROVE  Open(f) = {}
BY OpenIsFinite DEF DegreeInv, DegreeOf

LEMMA NextOrderInv ==
    /\ TypeInv /\ ReadyInv /\ FlightInv /\ RegisteredInv /\ DegreeInv /\ DegreeInv'
    /\ OrderInv /\ [Next]_vars
    => OrderInv'
<1>. SUFFICES ASSUME TypeInv, ReadyInv, FlightInv, RegisteredInv, DegreeInv, DegreeInv',
                     OrderInv, [Next]_vars
              PROVE  OrderInv'
  OBVIOUS
<1>. USE DEF env, graph, exec, res, pool, store
<1>t. TypeInv'
  BY NextTypeInv
<1>1. ASSUME imports' = imports,
             \A g \in Files : /\ state'[g] = "Success" <=> state[g] = "Success"
                              /\ state'[g] = "Running" => state[g] = "Running" \/ Open(g) = {}
      PROVE  \A f \in Files : state'[f] \in {"Running", "Success"} => Open(f)' = {}
  <2>. TAKE f \in Files
  <2>1. Open(f)' = Open(f)
    BY <1>1, OpenSame
  <2>. QED
    BY <1>1, <2>1 DEF OrderInv
<1>2. CASE RegisterImport
  <2>1. PICK h \in Files : h = imports[Frame[1]][Frame[2]]
    BY <1>2, StackMoves DEF RegisterImport
  <2>2. /\ state[h] = "Absent" /\ state' = [state EXCEPT ![h] = "Pending"]
        /\ imports' = imports /\ phase' = "register"
    BY <1>2, <2>1, StackMoves DEF RegisterImport
  <2>3. \A g \in Files : /\ state'[g] = "Success" <=> state[g] = "Success"
                         /\ state'[g] = "Running" => state[g] = "Running"
    BY <2>2 DEF TypeInv
  <2>. QED
    BY <1>1, <2>2, <2>3 DEF OrderInv
<1>3. CASE LinkImport \/ FinishFile \/ CountRemaining \/ SubmitEnd \/ AwaitFailure
  <2>1. imports' = imports /\ state' = state /\ phase' # "resolve"
    BY <1>3 DEF LinkImport, FinishFile, CountRemaining, SubmitEnd, AwaitFailure
  <2>. QED
    BY <1>1, <2>1 DEF OrderInv
<1>4. CASE SeedClean
  <2>1. imports' = imports /\ state' = state /\ inDegree' = inDegree
        /\ \A f \in ready' : inDegree[f] = 0
    BY <1>4 DEF SeedClean
  <2>. QED
    BY <1>1, <2>1 DEF OrderInv
\* Success of h, all of whose lines are closed.
<1>5. ASSUME NEW h \in Files, state[h] # "Success", Open(h) = {}, imports' = imports,
             state' = [state EXCEPT ![h] = "Success"]
      PROVE  \A f \in Files : /\ Open(f)' \subseteq Open(f)
                              /\ state'[f] \in {"Running", "Success"} => Open(f)' = {}
  <2>. TAKE f \in Files
  <2>1. Open(f)' \subseteq Open(f)
    BY <1>5, OpenCloses
  <2>2. state'[f] = IF f = h THEN "Success" ELSE state[f]
    BY <1>5 DEF TypeInv
  <2>. QED
    BY <1>5, <2>1, <2>2 DEF OrderInv
<1>6. CASE ResolveClean
  <2>1. PICK h \in ready :
           /\ state' = [state EXCEPT ![h] = "Success"]
           /\ \A g \in ready' : g \in ready \ {h} \/ inDegree'[g] = 0
    BY <1>6 DEF ResolveClean
  <2>2. phase = "resolve" /\ phase' = phase /\ imports' = imports
    BY <1>6 DEF ResolveClean
  <2>3. ready \subseteq Files /\ \A g \in ready : state[g] = "Pending" /\ inDegree[g] = 0
    BY <2>2 DEF ReadyInv, TypeInv, OrderInv
  <2>4. \A g \in ready : Open(g) = {}
    BY <2>2, <2>3, ZeroIsClosed
  <2>5. \A f \in Files : /\ Open(f)' \subseteq Open(f)
                         /\ state'[f] \in {"Running", "Success"} => Open(f)' = {}
    BY <1>5, <2>1, <2>2, <2>3, <2>4
  <2>6. ASSUME NEW g \in ready \ {h} PROVE inDegree'[g] = 0
    <3>1. g \in Files /\ Open(g)' = {} /\ state'[g] = "Pending"
      BY <2>1, <2>3, <2>4, <2>5 DEF TypeInv
    <3>2. inDegree'[g] = Cardinality(Open(g)')
      BY <2>2, <3>1 DEF DegreeInv, DegreeOf
    <3>. QED
      BY <3>1, <3>2, FS_EmptySet
  <2>. QED
    BY <2>1, <2>5, <2>6 DEF OrderInv
<1>7. CASE Submit
  <2>. DEFINE h == registered[idx]
  <2>1. imports' = imports /\ phase = "submit" /\ phase' = phase
    BY <1>7 DEF Submit
  <2>2. CASE ReadyToRun(h)
    <3>1. /\ h \in Files /\ state[h] = "Pending" /\ inDegree[h] = 0
          /\ state' = [state EXCEPT ![h] = "Running"]
      BY <1>7, <2>2 DEF Submit, ReadyToRun, TypeInv
    <3>2. Open(h) = {}
      BY <2>1, <3>1, ZeroIsClosed
    <3>. HIDE DEF h
    <3>3. \A g \in Files : /\ state'[g] = "Success" <=> state[g] = "Success"
                           /\ state'[g] = "Running" => state[g] = "Running" \/ Open(g) = {}
      BY <3>1, <3>2 DEF TypeInv
    <3>. QED
      BY <1>1, <2>1, <3>3 DEF OrderInv
  <2>3. CASE ~ReadyToRun(h)
    <3>1. state' = state
      BY <1>7, <2>3 DEF Submit
    <3>. QED
      BY <1>1, <2>1, <3>1 DEF OrderInv
  <2>. QED
    BY <2>2, <2>3
<1>8. CASE AwaitSuccess
  <2>. DEFINE h == Head(resQ)[1]
  <2>1. /\ phase = "await" /\ Res!Recv(Main) /\ UNCHANGED <<wpc, execQ, execReply, imports>>
        /\ state' = [state EXCEPT ![h] = "Success"] /\ phase' # "resolve"
    BY <1>8 DEF AwaitSuccess
  <2>2. h \in Files /\ state[h] = "Running"
    BY <2>1, AnswerIsRunning
  <2>. HIDE DEF h
  <2>3. Open(h) = {}
    BY <2>2 DEF OrderInv
  <2>. QED
    BY <1>5, <2>1, <2>2, <2>3 DEF OrderInv
<1>9. CASE UNCHANGED <<imports, state, phase, ready, inDegree>>
  BY <1>9 DEF OrderInv, Open
<1>10. ASSUME NEW w \in Workers, WorkerStep(w) PROVE OrderInv'
  BY <1>9, <1>10 DEF WorkerStep, WorkerTake, WorkerRun, WorkerReport
<1>11. UNCHANGED vars => UNCHANGED <<imports, state, phase, ready, inDegree>>
  BY DEF vars
<1>. QED
  BY <1>2, <1>3, <1>4, <1>6, <1>7, <1>8, <1>9, <1>10, <1>11 DEF Next, MainStep

-----------------------------------------------------------------------------
(* remaining_tasks                                                         *)

Unbuilt == {f \in Files : state[f] \in {"Pending", "Running"}}

RemainInv ==
    /\ remaining \in 0..Cardinality(Files)
    /\ Building => remaining = Cardinality(Unbuilt)

LEMMA UnbuiltIsFinite ==
    /\ IsFiniteSet(Unbuilt) /\ Cardinality(Unbuilt) \in Nat
    /\ Cardinality(Unbuilt) <= Cardinality(Files) /\ Cardinality(Files) \in Nat
    /\ Cardinality(Unbuilt) = 0 <=> Unbuilt = {}
<1>1. Unbuilt \in SUBSET Files
  BY DEF Unbuilt
<1>. QED
  BY <1>1, FiniteBuild, FS_Subset, FS_CardinalityType, FS_EmptySet

LEMMA InitRemainInv == Init => RemainInv
BY UnbuiltIsFinite DEF Init, RemainInv, Building

LEMMA NextRemainInv ==
    /\ TypeInv /\ FlightInv /\ EarlyInv /\ RemainInv /\ [Next]_vars
    => RemainInv'
<1>. SUFFICES ASSUME TypeInv, FlightInv, EarlyInv, RemainInv, [Next]_vars
              PROVE  RemainInv'
  OBVIOUS
<1>. USE DEF env, graph, exec, res, pool, store
<1>1. CASE RegisterImport \/ LinkImport \/ FinishFile \/ SeedClean \/ ResolveClean
  <2>1. remaining' = remaining /\ ~Building'
    BY <1>1 DEF RegisterImport, LinkImport, FinishFile, SeedClean, ResolveClean, Building
  <2>. QED
    BY <2>1 DEF RemainInv
<1>2. CASE CountRemaining
  <2>1. /\ remaining' = Cardinality({f \in Files : state[f] = "Pending"})
        /\ state' = state /\ phase = "resolve"
    BY <1>2 DEF CountRemaining
  <2>2. {f \in Files : state[f] = "Pending"} = Unbuilt
    BY <2>1 DEF EarlyInv, Unbuilt
  <2>3. Unbuilt' = Unbuilt
    BY <2>1 DEF Unbuilt
  <2>. QED
    BY <2>1, <2>2, <2>3, UnbuiltIsFinite DEF RemainInv
<1>3. CASE Submit
  <2>1. remaining' = remaining /\ phase = "submit" /\ phase' = phase
    BY <1>3 DEF Submit
  <2>2. Unbuilt' = Unbuilt
    BY <1>3 DEF Submit, ReadyToRun, Unbuilt, TypeInv
  <2>. QED
    BY <2>1, <2>2 DEF RemainInv, Building
<1>4. CASE SubmitEnd
  BY <1>4 DEF SubmitEnd, RemainInv, Building, Unbuilt
<1>5. ASSUME phase = "await", Res!Recv(Main), UNCHANGED <<wpc, execQ, execReply>>
      PROVE  LET h == Head(resQ)[1]
             IN  /\ h \in Unbuilt /\ h \in Files /\ state[h] = "Running"
                 /\ remaining \in Nat /\ remaining > 0
                 /\ Cardinality(Unbuilt \ {h}) = remaining - 1
  <2>. DEFINE h == Head(resQ)[1]
  <2>1. h \in Files /\ state[h] = "Running"
    BY <1>5, AnswerIsRunning
  <2>. HIDE DEF h
  <2>2. h \in Unbuilt
    BY <2>1 DEF Unbuilt
  <2>3. remaining = Cardinality(Unbuilt)
    BY <1>5 DEF RemainInv, Building
  <2>4. Cardinality(Unbuilt \ {h}) = Cardinality(Unbuilt) - 1
    BY <2>2, UnbuiltIsFinite, FS_RemoveElement
  <2>5. Cardinality(Unbuilt) # 0
    BY <2>2, UnbuiltIsFinite
  <2>6. h \in Unbuilt /\ h \in Files /\ state[h] = "Running"
        /\ remaining \in Nat /\ remaining > 0
        /\ Cardinality(Unbuilt \ {h}) = remaining - 1
    BY <2>1, <2>2, <2>3, <2>4, <2>5, UnbuiltIsFinite
  <2>. QED
    BY <2>6 DEF h
<1>6. CASE AwaitSuccess
  <2>. DEFINE h == Head(resQ)[1]
  <2>1. /\ phase = "await" /\ Res!Recv(Main) /\ UNCHANGED <<wpc, execQ, execReply>>
        /\ state' = [state EXCEPT ![h] = "Success"] /\ remaining' = remaining - 1
    BY <1>6 DEF AwaitSuccess
  <2>2. /\ h \in Unbuilt /\ h \in Files /\ state[h] = "Running"
        /\ remaining \in Nat /\ remaining > 0
        /\ Cardinality(Unbuilt \ {h}) = remaining - 1
    BY <1>5, <2>1
  <2>. HIDE DEF h
  <2>3. Unbuilt' = Unbuilt \ {h}
    BY <2>1, <2>2 DEF Unbuilt, TypeInv
  <2>. QED
    BY <2>1, <2>2, <2>3, UnbuiltIsFinite DEF RemainInv
<1>7. CASE AwaitFailure
  <2>1. /\ phase = "await" /\ Res!Recv(Main) /\ UNCHANGED <<wpc, execQ, execReply>>
        /\ remaining' = remaining - 1 /\ ~Building'
    BY <1>7 DEF AwaitFailure, Building
  <2>2. remaining \in Nat /\ remaining > 0
    BY <1>5, <2>1
  <2>. QED
    BY <2>1, <2>2, UnbuiltIsFinite DEF RemainInv
<1>8. CASE UNCHANGED <<remaining, phase, state>>
  BY <1>8 DEF RemainInv, Building, Unbuilt
<1>9. ASSUME NEW w \in Workers, WorkerStep(w) PROVE RemainInv'
  BY <1>8, <1>9 DEF WorkerStep, WorkerTake, WorkerRun, WorkerReport
<1>10. UNCHANGED vars => UNCHANGED <<remaining, phase, state>>
  BY DEF vars
<1>. QED
  BY <1>1, <1>2, <1>3, <1>4, <1>6, <1>7, <1>8, <1>9, <1>10 DEF Next, MainStep

-----------------------------------------------------------------------------
(* Skipped files, and the boxes of the running ones                        *)

SkipOf(f) ==
    /\ Skipped(f) => f \in clean /\ \A i \in DOMAIN imports[f] : Skipped(imports[f][i])
    /\ state[f] = "Success" => (f \in cached) = (runs[f] = 1)
SkipInv == \A f \in Files : SkipOf(f)

\* Nothing becomes a Success, and what is one is left alone.
LEMMA SkipSame ==
    ASSUME TypeInv, SkipInv, UNCHANGED <<imports, clean, cached>>,
           \A g \in Files : /\ state'[g] = "Success" <=> state[g] = "Success"
                            /\ state[g] = "Success" => runs'[g] = runs[g]
    PROVE  SkipInv'
<1>1. \A g \in Files : Skipped(g)' <=> Skipped(g)
  BY DEF Skipped
<1>2. \A f \in Files : \A i \in DOMAIN imports[f] : imports[f][i] \in Files
  BY ImportLines
<1>. QED
  BY <1>1, <1>2 DEF SkipInv, SkipOf

LEMMA NextSkipInv ==
    /\ TypeInv /\ ReadyInv /\ FlightInv /\ EarlyInv /\ DegreeInv /\ OrderInv /\ SkipInv
    /\ [Next]_vars
    => SkipInv'
<1>. SUFFICES ASSUME TypeInv, ReadyInv, FlightInv, EarlyInv, DegreeInv, OrderInv, SkipInv,
                     [Next]_vars
              PROVE  SkipInv'
  OBVIOUS
<1>. USE DEF env, graph, exec, res, pool, store
<1>0. \A f \in Files : \A i \in DOMAIN imports[f] : imports[f][i] \in Files
  BY ImportLines
<1>1. CASE RegisterImport
  <2>1. PICK h \in Files : h = imports[Frame[1]][Frame[2]]
    BY <1>1, TopFrame, ImportLines DEF RegisterImport
  <2>2. /\ state[h] = "Absent" /\ state' = [state EXCEPT ![h] = "Pending"]
        /\ UNCHANGED <<imports, clean, cached, runs>>
    BY <1>1, <2>1 DEF RegisterImport, Registered
  <2>3. \A g \in Files : state'[g] = "Success" <=> state[g] = "Success"
    BY <2>2 DEF TypeInv
  <2>. QED
    BY <2>2, <2>3, SkipSame
<1>2. CASE LinkImport \/ FinishFile \/ SeedClean \/ CountRemaining \/ SubmitEnd
           \/ AwaitFailure
  <2>1. UNCHANGED <<imports, clean, cached, runs, state>>
    BY <1>2 DEF LinkImport, FinishFile, SeedClean, CountRemaining, SubmitEnd, AwaitFailure
  <2>. QED
    BY <2>1, SkipSame
<1>3. CASE ResolveClean
  <2>1. PICK h \in ready : state' = [state EXCEPT ![h] = "Success"]
    BY <1>3 DEF ResolveClean
  <2>2. phase = "resolve" /\ UNCHANGED <<imports, clean, cached, runs>>
    BY <1>3 DEF ResolveClean
  <2>3. h \in Files /\ h \in clean /\ state[h] = "Pending" /\ inDegree[h] = 0
    BY <2>2 DEF ReadyInv, OrderInv, TypeInv
  <2>4. Open(h) = {}
    BY <2>2, <2>3, ZeroIsClosed
  <2>5. \A g \in Files : state'[g] = IF g = h THEN "Success" ELSE state[g]
    BY <2>1 DEF TypeInv
  <2>6. cached = {} /\ \A g \in Files : runs[g] = 0
    BY <2>2 DEF EarlyInv
  <2>7. \A g \in Files : Skipped(g) => Skipped(g)'
    BY <2>2, <2>3, <2>5 DEF Skipped
  <2>8. ASSUME NEW f \in Files PROVE SkipOf(f)'
    <3>1. CASE f = h
      <4>1. \A i \in DOMAIN imports[f] : state[imports[f][i]] = "Success"
        BY <2>4, <3>1 DEF Open
      <4>2. \A i \in DOMAIN imports[f] : Skipped(imports[f][i])
        BY <1>0, <2>6, <4>1 DEF Skipped
      <4>. QED
        BY <1>0, <2>2, <2>3, <2>6, <2>7, <3>1, <4>2 DEF SkipOf
    <3>2. CASE f # h
      <4>1. (Skipped(f)' <=> Skipped(f)) /\ state'[f] = state[f] /\ SkipOf(f)
        BY <2>2, <2>5, <3>2 DEF Skipped, SkipInv
      <4>. QED
        BY <1>0, <2>2, <2>7, <4>1 DEF SkipOf
    <3>. QED  BY <3>1, <3>2
  <2>. QED
    BY <2>8 DEF SkipInv
<1>4. CASE Submit
  <2>1. UNCHANGED <<imports, clean, cached, runs>>
    BY <1>4 DEF Submit
  <2>2. \A g \in Files : state'[g] = "Success" <=> state[g] = "Success"
    BY <1>4 DEF Submit, ReadyToRun, TypeInv
  <2>. QED
    BY <2>1, <2>2, SkipSame
<1>5. CASE AwaitSuccess
  <2>. DEFINE h == Head(resQ)[1]
  <2>1. /\ phase = "await" /\ Res!Recv(Main)
        /\ UNCHANGED <<wpc, execQ, execReply, imports, clean, runs>>
        /\ state' = [state EXCEPT ![h] = "Success"] /\ cached' = cached \cup {h}
    BY <1>5 DEF AwaitSuccess
  <2>2. h \in Files /\ state[h] = "Running" /\ runs[h] = 1
    BY <2>1, AnswerIsRunning
  <2>. HIDE DEF h
  <2>3. \A g \in Files : state'[g] = IF g = h THEN "Success" ELSE state[g]
    BY <2>1 DEF TypeInv
  <2>4. \A g \in Files : Skipped(g)' <=> Skipped(g)
    BY <2>1, <2>2, <2>3 DEF Skipped
  <2>5. ASSUME NEW f \in Files PROVE SkipOf(f)'
    <3>1. SkipOf(f)
      BY DEF SkipInv
    <3>2. CASE f = h
      <4>1. ~Skipped(f)' /\ f \in cached' /\ runs'[f] = 1
        BY <2>1, <2>2, <2>4, <3>2 DEF Skipped
      <4>. QED  BY <4>1 DEF SkipOf
    <3>3. CASE f # h
      <4>1. /\ state'[f] = state[f] /\ runs'[f] = runs[f]
            /\ f \in cached' <=> f \in cached
        BY <2>1, <2>3, <3>3
      <4>. QED
        BY <1>0, <2>1, <2>4, <3>1, <4>1 DEF SkipOf
    <3>. QED  BY <3>2, <3>3
  <2>. QED
    BY <2>5 DEF SkipInv
<1>6. ASSUME NEW w \in Workers, WorkerTake(w) \/ WorkerReport(w) PROVE SkipInv'
  <2>1. UNCHANGED <<imports, clean, cached, runs, state>>
    BY <1>6 DEF WorkerTake, WorkerReport
  <2>. QED
    BY <2>1, SkipSame
<1>7. ASSUME NEW w \in Workers, WorkerRun(w) PROVE SkipInv'
  <2>1. Job(w) \in Files /\ state[Job(w)] = "Running"
    BY <1>7, RunIsFirst
  <2>2. /\ UNCHANGED <<imports, clean, cached, state>>
        /\ \A g \in Files : g # Job(w) => runs'[g] = runs[g]
    BY <1>7, <2>1 DEF WorkerRun, TypeInv
  <2>. QED
    BY <2>1, <2>2, SkipSame
<1>8. CASE UNCHANGED vars
  <2>1. UNCHANGED <<imports, clean, cached, runs, state>>
    BY <1>8 DEF vars
  <2>. QED
    BY <2>1, SkipSame
<1>. QED
  BY <1>1, <1>2, <1>3, <1>4, <1>5, <1>6, <1>7, <1>8 DEF Next, MainStep, WorkerStep

BoxInv == phase # "failed" => \A f \in Files : state[f] = "Running" => f \in boxes

LEMMA NextBoxInv ==
    TypeInv /\ RemainInv' /\ BoxInv /\ [Next]_vars => BoxInv'
<1>. SUFFICES ASSUME TypeInv, RemainInv', BoxInv, [Next]_vars PROVE BoxInv'
  OBVIOUS
<1>. USE DEF env, graph, exec, res, pool, store
<1>1. CASE RegisterImport \/ ResolveClean
  <2>1. UNCHANGED <<phase, boxes>> /\ \E f : \E s \in {"Pending", "Success"} :
                                        state' = [state EXCEPT ![f] = s]
    BY <1>1 DEF RegisterImport, ResolveClean
  <2>2. \A f \in Files : state'[f] = "Running" => state[f] = "Running"
    BY <2>1 DEF TypeInv
  <2>. QED
    BY <2>1, <2>2 DEF BoxInv
<1>2. CASE LinkImport \/ FinishFile \/ SeedClean \/ CountRemaining \/ SubmitEnd
  BY <1>2 DEF LinkImport, FinishFile, SeedClean, CountRemaining, SubmitEnd, BoxInv
<1>3. CASE Submit
  <2>1. phase' = phase /\ phase = "submit"
    BY <1>3 DEF Submit
  <2>2. CASE ReadyToRun(registered[idx])
    BY <1>3, <2>1, <2>2 DEF Submit, BoxInv, TypeInv
  <2>3. CASE ~ReadyToRun(registered[idx])
    BY <1>3, <2>1, <2>3 DEF Submit, BoxInv
  <2>. QED  BY <2>2, <2>3
<1>4. CASE AwaitSuccess
  <2>1. /\ \/ phase' = "submit" /\ boxes' = boxes
           \/ phase' = "done" /\ ~(remaining' > 0)
        /\ phase = "await" /\ state' = [state EXCEPT ![Head(resQ)[1]] = "Success"]
    BY <1>4 DEF AwaitSuccess
  <2>2. \A f \in Files : state'[f] = "Running" => state[f] = "Running"
    BY <2>1 DEF TypeInv
  <2>3. CASE phase' = "submit"
    BY <2>1, <2>2, <2>3 DEF BoxInv
  <2>4. CASE phase' = "done"
    <3>1. remaining' = Cardinality(Unbuilt') /\ ~(remaining' > 0) /\ remaining' >= 0
      BY <2>1, <2>4 DEF RemainInv, Building
    <3>2. IsFiniteSet(Unbuilt') /\ Cardinality(Unbuilt') \in Nat
      <4>1. Unbuilt' \in SUBSET Files
        BY DEF Unbuilt
      <4>. QED
        BY <4>1, FiniteBuild, FS_Subset, FS_CardinalityType
    <3>3. Unbuilt' = {}
      BY <3>1, <3>2, FS_EmptySet
    <3>. QED
      BY <3>3 DEF Unbuilt, BoxInv
  <2>. QED
    BY <2>1, <2>3, <2>4
<1>5. CASE AwaitFailure
  BY <1>5 DEF AwaitFailure, BoxInv
<1>6. ASSUME NEW w \in Workers, WorkerStep(w) PROVE BoxInv'
  BY <1>6 DEF WorkerStep, WorkerTake, WorkerRun, WorkerReport, BoxInv
<1>7. CASE UNCHANGED vars
  BY <1>7 DEF vars, BoxInv
<1>. QED
  BY <1>1, <1>2, <1>3, <1>4, <1>5, <1>6, <1>7 DEF Next, MainStep

-----------------------------------------------------------------------------
(* The inductive invariant                                                 *)

IInv ==
    /\ TypeInv /\ ReadyInv /\ FlightInv /\ EarlyInv /\ RegisteredInv /\ LinkInv
    /\ DegreeInv /\ OrderInv /\ RemainInv /\ SkipInv /\ BoxInv

LEMMA InitIInv == Init => IInv
<1>. SUFFICES ASSUME Init PROVE IInv
  OBVIOUS
<1>1. phase = "register" /\ cached = {} /\ \A f \in Files :
         state[f] \notin {"Running", "Success"} /\ runs[f] = 0
  BY DEF Init
<1>2. ReadyInv /\ EarlyInv /\ OrderInv /\ SkipInv /\ BoxInv
  BY <1>1 DEF ReadyInv, EarlyInv, OrderInv, SkipInv, SkipOf, Skipped, BoxInv
<1>. QED
  BY <1>2, InitTypeInv, InitFlightInv, InitRegisteredInv, InitLinkInv, InitDegreeInv,
     InitRemainInv DEF IInv

LEMMA NextIInv == IInv /\ [Next]_vars => IInv'
<1>. SUFFICES ASSUME IInv, [Next]_vars PROVE IInv'
  OBVIOUS
<1>1. TypeInv' /\ ReadyInv' /\ FlightInv' /\ EarlyInv' /\ RegisteredInv' /\ LinkInv'
  BY NextTypeInv, NextReadyInv, NextFlightInv, NextEarlyInv, NextRegisteredInv,
     NextLinkInv DEF IInv
<1>2. DegreeInv' /\ RemainInv'
  BY NextDegreeInv, NextRemainInv DEF IInv
<1>3. OrderInv' /\ SkipInv' /\ BoxInv'
  BY <1>2, NextOrderInv, NextSkipInv, NextBoxInv DEF IInv
<1>. QED
  BY <1>1, <1>2, <1>3 DEF IInv

\* The conjunction holds in every state of a build (graph.tk, main.tk,
\* scheduler.tk together).
THEOREM InductiveInvariant == Spec => []IInv
BY InitIInv, NextIInv, PTL DEF Spec

\* Every id in registered is another file, so there are no more than files.
LEMMA RegisteredIsShort ==
    ASSUME TypeInv, RegisteredInv
    PROVE  Len(registered) \in 0..Cardinality(Files)
<1>1. /\ registered \in [1..Len(registered) -> Files] /\ Len(registered) \in Nat
      /\ DOMAIN registered = 1..Len(registered)
  BY DEF TypeInv
<1>2. registered \in Injection(1..Len(registered), Files)
  BY <1>1 DEF RegisteredInv, Injection, IsInjective
<1>3. Cardinality(1..Len(registered)) = Len(registered)
  <2>1. PICK n \in Nat : n = Len(registered)
    BY <1>1
  <2>2. Cardinality(1..n) = IF 1 > n THEN 0 ELSE n - 1 + 1
    BY FS_Interval
  <2>. QED
    BY <2>1, <2>2
<1>4. Cardinality(1..Len(registered)) <= Cardinality(Files)
  BY <1>2, FiniteBuild, FS_Injection
<1>. QED
  BY <1>1, <1>3, <1>4, FiniteBuild, FS_CardinalityType

LEMMA IInvTypeOK == IInv => TypeOK
<1>. SUFFICES ASSUME IInv PROVE TypeOK
  OBVIOUS
<1>1. TypeInv /\ RegisteredInv /\ DegreeInv /\ RemainInv
  BY DEF IInv
<1>2. stack \in Seq(Files \X (1..(MaxImports + 1)))
  <2>1. stack \in Seq(Files \X (Nat \ {0}))
    BY <1>1 DEF TypeInv
  <2>2. ASSUME NEW k \in 1..Len(stack) PROVE stack[k] \in Files \X (1..(MaxImports + 1))
    <3>1. PICK f \in Files, i \in Nat \ {0} : stack[k] = <<f, i>>
      BY <2>1
    <3>2. i <= Len(imports[f]) + 1
      BY <1>1, <2>1, <3>1 DEF RegisteredInv
    <3>3. Len(imports[f]) \in 0..MaxImports
      BY <1>1, ImportLines
    <3>4. i \in 1..(MaxImports + 1)
      BY <3>2, <3>3, MaxImportsIsNat
    <3>. QED  BY <3>1, <3>4
  <2>3. stack \in [1..Len(stack) -> Files \X (1..(MaxImports + 1))] /\ Len(stack) \in Nat
    BY <2>1, <2>2
  <2>. QED  BY <2>3
<1>3. inDegree \in [Files -> Nat]
  <2>1. inDegree \in [Files -> Int]
    BY <1>1 DEF TypeInv
  <2>2. ASSUME NEW f \in Files PROVE inDegree[f] \in Nat
    <3>1. DegreeOf(f) /\ Cardinality(Open(f)) \in Nat /\ Len(imports[f]) \in Nat
      BY <1>1, OpenIsFinite, ImportLines, MaxImportsIsNat DEF DegreeInv
    <3>. QED  BY <3>1 DEF DegreeOf
  <2>. QED  BY <2>1, <2>2
<1>4. idx \in 1..(Cardinality(Files) + 1)
  <2>1. idx <= Len(registered) + 1 /\ idx \in Nat \ {0}
    BY <1>1 DEF RegisteredInv, TypeInv
  <2>. QED
    BY <1>1, <2>1, RegisteredIsShort, FiniteBuild, FS_CardinalityType
<1>5. remaining \in 0..Cardinality(Files)
  BY <1>1 DEF RemainInv
<1>. QED
  BY <1>1, <1>2, <1>3, <1>4, <1>5 DEF TypeInv, TypeOK

\* Every variable keeps its type: in_degree and remaining_tasks never fall
\* below zero, and the index of submit_ready_tasks stays within the ids.
THEOREM TypeCorrect == Spec => []TypeOK
<1>1. IInv => TypeOK
  BY IInvTypeOK
<1>. QED
  BY <1>1, InductiveInvariant, PTL

\* in_degree is exactly the number of import lines whose file is not built
\* yet, and remaining_tasks the number of files main still waits for.
THEOREM CountersAreExact == Spec => []CountersExact
<1>1. IInv => CountersExact
  <2>. SUFFICES ASSUME IInv PROVE CountersExact
    OBVIOUS
  <2>1. TypeOK
    BY IInvTypeOK
  <2>2. ASSUME phase # "register", NEW f \in Registered
        PROVE  inDegree[f] = Cardinality({i \in DOMAIN imports[f] :
                                            state[imports[f][i]] # "Success"})
    <3>1. f \in Files /\ state[f] # "Absent"
      BY DEF Registered
    <3>2. DegreeOf(f)
      BY <3>1 DEF IInv, DegreeInv
    <3>. QED
      BY <2>2, <3>1, <3>2 DEF DegreeOf, Open
  <2>3. Building => remaining = Cardinality({f \in Files : state[f] \in {"Pending", "Running"}})
    BY DEF IInv, RemainInv, Unbuilt
  <2>. QED
    BY <2>1, <2>2, <2>3 DEF CountersExact
<1>. QED
  BY <1>1, InductiveInvariant, PTL

\* The places of a file, before its compilation and after it.
LEMMA PlacesAdd ==
    ASSUME TypeInv, NEW f
    PROVE  Places(f) = ToRun(f) + Done(f)
<1>. DEFINE J == {w \in Workers : wpc[w] # "recv" /\ Job(w) = f}
            a == Count(resQ, <<f, TRUE>>)
            b == Count(resQ, <<f, FALSE>>)
<1>1. J = Takers(f) \cup Reporters(f) /\ Takers(f) \cap Reporters(f) = {}
  BY DEF Takers, Reporters, TypeInv
<1>2. /\ IsFiniteSet(Takers(f)) /\ IsFiniteSet(Reporters(f))
      /\ Cardinality(Takers(f)) \in Nat /\ Cardinality(Reporters(f)) \in Nat
      /\ Count(execQ, f) \in Nat
  BY OnTheirWay
<1>3. Cardinality(J) = Cardinality(Takers(f)) + Cardinality(Reporters(f))
  BY <1>1, <1>2, FS_Union, FS_EmptySet
<1>4. a \in Nat /\ b \in Nat
  <2>1. resQ \in Seq(Files \X BOOLEAN)
    BY DEF TypeInv
  <2>. QED  BY <2>1, CountIsNat
<1>5. /\ Places(f) = Count(execQ, f) + Cardinality(J) + a + b
      /\ Done(f) = Cardinality(Reporters(f)) + (a + b)
      /\ ToRun(f) = Count(execQ, f) + Cardinality(Takers(f))
  BY DEF Places, Done, ToRun, Answers
<1>. HIDE DEF J, a, b
<1>. QED
  BY <1>2, <1>3, <1>4, <1>5

\* A file submit_ready_tasks handed out is in one place of the channels and
\* the pool until recv_result returns it, and no other file is anywhere.
THEOREM RunningFilesAreInFlight == Spec => []RunningIsInFlight
<1>1. IInv => RunningIsInFlight
  <2>. SUFFICES ASSUME IInv, phase # "failed", NEW f \in Files
                PROVE  Places(f) = IF state[f] = "Running" THEN 1 ELSE 0
    BY DEF RunningIsInFlight
  <2>1. FlightOf(f) /\ Places(f) = ToRun(f) + Done(f)
    BY PlacesAdd DEF IInv, FlightInv
  <2>. QED
    BY <2>1 DEF FlightOf
<1>. QED
  BY <1>1, InductiveInvariant, PTL

\* No file is handed out before all it imports is built, and none is
\* compiled twice, whatever the order in which the workers answer.
THEOREM ImportsAreFirst == Spec => []ImportsFirst
<1>1. IInv => ImportsFirst
  <2>. SUFFICES ASSUME IInv, NEW f \in Files
                PROVE  /\ runs[f] <= 1
                       /\ state[f] \in {"Running", "Success"} =>
                            \A i \in DOMAIN imports[f] : state[imports[f][i]] = "Success"
    BY DEF ImportsFirst
  <2>1. FlightOf(f) /\ state[f] \in States /\ runs[f] \in Nat /\ ToRun(f) \in Nat
    BY OnTheirWay DEF IInv, FlightInv, TypeInv
  <2>2. runs[f] <= 1
    BY <2>1 DEF FlightOf, States
  <2>3. state[f] \in {"Running", "Success"} => Open(f) = {}
    BY DEF IInv, OrderInv
  <2>. QED
    BY <2>2, <2>3 DEF Open
<1>. QED
  BY <1>1, InductiveInvariant, PTL

\* resolve_clean_nodes skips a file only with everything it imports, and
\* every file compiled instead is recorded before its dependents start.
THEOREM SkippedFilesAreClean == Spec => []SkippedIsClean
<1>1. IInv => SkippedIsClean
  BY DEF IInv, SkipInv, SkipOf, SkippedIsClean
<1>. QED
  BY <1>1, InductiveInvariant, PTL

\* Unless a compilation failed, a TaskExec is allocated as long as a worker
\* may read it: main frees the boxes when no worker has one.
THEOREM BoxesOutlive == Spec => []BoxesOutliveJobs
<1>1. IInv => BoxesOutliveJobs
  <2>. SUFFICES ASSUME IInv, phase # "failed" PROVE BoxesOutliveJobs
    BY DEF BoxesOutliveJobs
  <2>0. TypeInv
    BY DEF IInv
  <2>1. ASSUME NEW f \in Files, ToRun(f) + Done(f) # 0 PROVE f \in boxes
    <3>1. FlightOf(f)
      BY DEF IInv, FlightInv
    <3>2. state[f] = "Running"
      BY <2>1, <3>1 DEF FlightOf
    <3>. QED
      BY <3>2 DEF IInv, BoxInv
  <2>2. ASSUME NEW i \in DOMAIN execQ PROVE execQ[i] \in boxes
    <3>1. PICK f \in Files : f = execQ[i]
      BY <2>0 DEF TypeInv
    <3>2. Count(execQ, f) # 0
      BY <2>0, <3>1, CountIsNat DEF TypeInv
    <3>3. ToRun(f) + Done(f) # 0
      BY <2>0, <3>2, OnTheirWay DEF ToRun
    <3>. QED
      BY <2>1, <3>1, <3>3
  <2>3. ASSUME NEW w \in Workers, wpc[w] # "recv" PROVE Job(w) \in boxes
    <3>1. PICK f \in Files : f = Job(w)
      BY <2>0, <2>3 DEF TypeInv
    <3>2. w \in Takers(f) \/ w \in Reporters(f)
      BY <2>0, <2>3, <3>1 DEF TypeInv, Takers, Reporters
    <3>3. /\ IsFiniteSet(Takers(f)) /\ IsFiniteSet(Reporters(f))
          /\ Cardinality(Takers(f)) \in Nat /\ Cardinality(Reporters(f)) \in Nat
          /\ Count(execQ, f) \in Nat /\ Answers(resQ, f) \in Nat
      BY <2>0, OnTheirWay
    <3>4. Cardinality(Takers(f)) # 0 \/ Cardinality(Reporters(f)) # 0
      BY <3>2, <3>3, FS_EmptySet
    <3>5. ToRun(f) + Done(f) # 0
      <4>1. /\ ToRun(f) = Count(execQ, f) + Cardinality(Takers(f))
            /\ Done(f) = Cardinality(Reporters(f)) + Answers(resQ, f)
        BY DEF ToRun, Done
      <4>2. \A a, b, c, d \in Nat : b # 0 \/ c # 0 => (a + b) + (c + d) # 0
        OBVIOUS
      <4>. QED
        BY <3>3, <3>4, <4>1, <4>2
    <3>. QED
      BY <2>1, <3>1, <3>5
  <2>. QED
    BY <2>2, <2>3 DEF BoxesOutliveJobs
<1>. QED
  BY <1>1, InductiveInvariant, PTL

=============================================================================
