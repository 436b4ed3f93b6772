------------------------------ MODULE ForgeBuild ------------------------------
(***************************************************************************)
(* tools/forge: one run of the parallel incremental build engine.  The     *)
(* main thread scans the imports of the entry file into a dependency graph *)
(* (graph.tk), skips the clean nodes, then repeatedly submits the ready    *)
(* files and waits for one result (main.tk).  Worker threads take files    *)
(* from one channel and answer on another (scheduler.tk).  Both channels   *)
(* are unbounded instances of ChannelSpec, which Channel implements.       *)
(*                                                                         *)
(* phase is where the main thread is:                                      *)
(*   register  register_file, recursive; the calls are on stack            *)
(*   seed, resolve   the two loops of resolve_clean_nodes                  *)
(*   submit, await   submit_ready_tasks, and recv_result with what follows *)
(*   clean, done     returned 0: nothing to compile, or build successful   *)
(*   failed    returned 1: a compilation failed                            *)
(*                                                                         *)
(* A definition marked Faulty is no part of the model: it is the named bug *)
(* some property must notice when it takes the place of the one below it.  *)
(***************************************************************************)
EXTENDS Integers, Sequences, FiniteSets

CONSTANTS
    Files,       \* source paths
    Root,        \* the entry file
    Workers,     \* threads of the WorkerPool (the -j option)
    Main,        \* the main thread
    MaxImports   \* bound: import lines of one file

ASSUME RootIsFile == Root \in Files
ASSUME MainIsNotWorker == Main \notin Workers
ASSUME FiniteBuild == IsFiniteSet(Files) /\ IsFiniteSet(Workers)
ASSUME MaxImportsIsNat == MaxImports \in Nat

VARIABLES
    imports,     \* environment: the import lines of each file, in order
    clean,       \* environment: files for which CacheStore.is_dirty is false
    phase,       \* where the main thread is, see above
    stack,       \* register_file calls in progress: <<file, next line>>
    registered,  \* DependencyGraph.registered_ids
    state,       \* TaskNode.state
    inDegree,    \* TaskNode.in_degree
    dependents,  \* TaskNode.dependents
    ready,       \* the ready vector of resolve_clean_nodes
    idx,         \* the loop index of submit_ready_tasks
    remaining,   \* remaining_tasks
    wpc,         \* each worker: recv, run (has a file) or report (has a result)
    outcome,     \* whether the worker's last compilation succeeded
    execQ, execReply,   \* the exec channel: queue, and what each worker took
    resQ, resReply,     \* the result channel: queue, and what main took
    runs,        \* history: how often each file was compiled
    cached,      \* files with an entry recorded by this run in the CacheStore
    boxes        \* exec_boxes: files whose TaskExec is allocated

env   == <<imports, clean>>
graph == <<stack, registered, dependents>>
exec  == <<execQ, execReply>>
res   == <<resQ, resReply>>
pool  == <<wpc, outcome, runs>>
store == <<cached, boxes>>
vars  == <<imports, clean, phase, stack, registered, state, inDegree,
           dependents, ready, idx, remaining, wpc, outcome, execQ, execReply,
           resQ, resReply, runs, cached, boxes>>

\* Main holds the only Sender of the exec channel; the workers share its
\* Receiver.  They also share the Sender of the result channel.
Exec == INSTANCE ChannelSpec WITH
    Producers <- {Main}, Consumers <- Workers, Messages <- Files,
    Capacity <- -1, buf <- execQ, txs <- {Main}, rx <- TRUE, parked <- {},
    reply <- execReply
Res == INSTANCE ChannelSpec WITH
    Producers <- Workers, Consumers <- {Main}, Messages <- Files \X BOOLEAN,
    Capacity <- -1, buf <- resQ, txs <- Workers, rx <- TRUE, parked <- {},
    reply <- resReply

Phases == {"register", "seed", "resolve", "submit", "await",
           "clean", "done", "failed"}
States == {"Absent", "Pending", "Running", "Success"}
ImportLists == UNION {[1..n -> Files] : n \in 0..MaxImports}
Registered == {f \in Files : state[f] # "Absent"}

Init ==
    /\ imports \in [Files -> ImportLists]
    /\ clean \in SUBSET Files
    /\ phase = "register"
    /\ stack = << <<Root, 1>> >>
    /\ registered = <<Root>>
    /\ state = [f \in Files |-> IF f = Root THEN "Pending" ELSE "Absent"]
    /\ inDegree = [f \in Files |-> 0]
    /\ dependents = [f \in Files |-> <<>>]
    /\ ready = {}
    /\ idx = 1
    /\ remaining = 0
    /\ wpc = [w \in Workers |-> "recv"]
    /\ outcome = [w \in Workers |-> FALSE]
    /\ execQ = <<>>
    /\ execReply = [t \in {Main} \cup Workers |-> Exec!NoReply]
    /\ resQ = <<>>
    /\ resReply = [t \in {Main} \cup Workers |-> Res!NoReply]
    /\ runs = [f \in Files |-> 0]
    /\ cached = {}
    /\ boxes = {}

------------------------------------------------------------------------------
(* DependencyGraph::register_file                                          *)

Frame == Head(stack)

\* The next import line names a new file: its own call registers it first,
\* so an import cycle meets a registered file and the recursion ends.
RegisterImport ==
    LET f == Frame[1]  i == Frame[2]
    IN  /\ phase = "register"
        /\ i <= Len(imports[f])
        /\ imports[f][i] \notin Registered
        /\ registered' = Append(registered, imports[f][i])
        /\ state' = [state EXCEPT ![imports[f][i]] = "Pending"]
        /\ stack' = << <<imports[f][i], 1>> >> \o stack
        /\ UNCHANGED <<env, store, phase, inDegree, dependents, ready, idx,
                       remaining, pool, exec, res>>

\* The imported file has its id: link the two and go to the next line.
LinkImport ==
    LET f == Frame[1]  i == Frame[2]
    IN  /\ phase = "register"
        /\ i <= Len(imports[f])
        /\ imports[f][i] \in Registered
        /\ dependents' = [dependents EXCEPT ![imports[f][i]] = Append(@, f)]
        /\ stack' = << <<f, i + 1>> >> \o Tail(stack)
        /\ UNCHANGED <<env, store, phase, registered, state, inDegree, ready,
                       idx, remaining, pool, exec, res>>

\* Faulty: counts an import once, however often it is written.
FinishFileDistinct ==
    LET f == Frame[1]  i == Frame[2]
    IN  /\ phase = "register"
        /\ i > Len(imports[f])
        /\ inDegree' = [inDegree EXCEPT
                   ![f] = Cardinality({imports[f][j] : j \in 1..(i - 1)})]
        /\ stack' = Tail(stack)
        /\ phase' = IF Tail(stack) = <<>> THEN "seed" ELSE "register"
        /\ UNCHANGED <<env, store, registered, state, dependents, ready, idx,
                       remaining, pool, exec, res>>

\* End of file: in_degree is the number of dependencies pushed.
FinishFile ==
    LET f == Frame[1]  i == Frame[2]
    IN  /\ phase = "register"
        /\ i > Len(imports[f])
        /\ inDegree' = [inDegree EXCEPT ![f] = i - 1]
        /\ stack' = Tail(stack)
        /\ phase' = IF Tail(stack) = <<>> THEN "seed" ELSE "register"
        /\ UNCHANGED <<env, store, registered, state, dependents, ready, idx,
                       remaining, pool, exec, res>>

------------------------------------------------------------------------------
(* DependencyGraph::resolve_clean_nodes                                    *)

Count(s, f) == Cardinality({i \in DOMAIN s : s[i] = f})

\* Faulty: one decrement per dependent.
DecrementedOnce(f) ==
    [g \in Files |->
        inDegree[g] - (IF Count(dependents[f], g) > 0 THEN 1 ELSE 0)]

\* One decrement of in_degree per entry of dependents, duplicates included.
Decremented(f) == [g \in Files |-> inDegree[g] - Count(dependents[f], g)]

SeedClean ==
    /\ phase = "seed"
    /\ ready' = {f \in clean : state[f] = "Pending" /\ inDegree[f] = 0}
    /\ phase' = "resolve"
    /\ UNCHANGED <<env, store, graph, state, inDegree, idx, remaining, pool,
                   exec, res>>

\* Faulty: forgets is_dirty for the dependents.
ResolveDependents ==
    /\ phase = "resolve"
    /\ \E f \in ready :
        /\ state' = [state EXCEPT ![f] = "Success"]
        /\ inDegree' = Decremented(f)
        /\ ready' = (ready \ {f}) \cup
             {g \in Files : Count(dependents[f], g) > 0
                            /\ inDegree'[g] = 0 /\ state'[g] = "Pending"}
    /\ UNCHANGED <<env, store, phase, graph, idx, remaining, pool, exec, res>>

\* The order in which the vector is popped has no effect on the outcome.
ResolveClean ==
    /\ phase = "resolve"
    /\ \E f \in ready :
        /\ state' = [state EXCEPT ![f] = "Success"]
        /\ inDegree' = Decremented(f)
        /\ ready' = (ready \ {f}) \cup
             {g \in clean : Count(dependents[f], g) > 0
                            /\ inDegree'[g] = 0 /\ state'[g] = "Pending"}
    /\ UNCHANGED <<env, store, phase, graph, idx, remaining, pool, exec, res>>

\* main counts the Pending nodes and starts the pool, or returns.
CountRemaining ==
    /\ phase = "resolve" /\ ready = {}
    /\ remaining' = Cardinality({f \in Files : state[f] = "Pending"})
    /\ phase' = IF remaining' = 0 THEN "clean" ELSE "submit"
    /\ UNCHANGED <<env, store, graph, state, inDegree, ready, idx, pool, exec,
                   res>>

------------------------------------------------------------------------------
(* main: submit_ready_tasks, recv_result and the handling of a result.     *)
(* Leaving the loop frees the boxes of all tasks handed out so far.        *)

\* Faulty: off by one.
OneImportLeft(f) == inDegree[f] <= 1 /\ state[f] = "Pending"

ReadyToRun(f) == inDegree[f] = 0 /\ state[f] = "Pending"

\* Faulty: leaves the file Pending.
SubmitPending ==
    /\ phase = "submit" /\ idx <= Len(registered)
    /\ LET f == registered[idx]
       IN  IF ReadyToRun(f)
             THEN boxes' = boxes \cup {f} /\ Exec!Send(Main, f)
             ELSE UNCHANGED <<boxes, exec>>
    /\ idx' = idx + 1
    /\ UNCHANGED <<env, cached, phase, graph, state, inDegree, ready,
                   remaining, pool, res>>

Submit ==
    /\ phase = "submit" /\ idx <= Len(registered)
    /\ LET f == registered[idx]
       IN  IF ReadyToRun(f)
             THEN /\ state' = [state EXCEPT ![f] = "Running"]
                  /\ boxes' = boxes \cup {f}
                  /\ Exec!Send(Main, f)
             ELSE UNCHANGED <<state, boxes, exec>>
    /\ idx' = idx + 1
    /\ UNCHANGED <<env, cached, phase, graph, inDegree, ready, remaining, pool,
                   res>>

SubmitEnd ==
    /\ phase = "submit" /\ idx > Len(registered)
    /\ phase' = "await"
    /\ idx' = 1
    /\ UNCHANGED <<env, store, graph, state, inDegree, ready, remaining, pool,
                   exec, res>>

\* Faulty: frees the boxes after every result.
AwaitSuccessFrees ==
    /\ phase = "await"
    /\ Res!Recv(Main)
    /\ Head(resQ)[2]
    /\ LET f == Head(resQ)[1]
       IN  /\ state' = [state EXCEPT ![f] = "Success"]
           /\ inDegree' = Decremented(f)
           /\ cached' = cached \cup {f}
    /\ remaining' = remaining - 1
    /\ phase' = IF remaining' > 0 THEN "submit" ELSE "done"
    /\ boxes' = {}
    /\ UNCHANGED <<env, graph, ready, idx, pool, exec>>

AwaitSuccess ==
    /\ phase = "await"
    /\ Res!Recv(Main)
    /\ Head(resQ)[2]
    /\ LET f == Head(resQ)[1]
       IN  /\ state' = [state EXCEPT ![f] = "Success"]
           /\ inDegree' = Decremented(f)
           /\ cached' = cached \cup {f}
    /\ remaining' = remaining - 1
    /\ IF remaining' > 0
         THEN phase' = "submit" /\ UNCHANGED boxes
         ELSE phase' = "done" /\ boxes' = {}
    /\ UNCHANGED <<env, graph, ready, idx, pool, exec>>

\* The build stops at the first failure; the node stays Running.
AwaitFailure ==
    /\ phase = "await"
    /\ Res!Recv(Main)
    /\ ~Head(resQ)[2]
    /\ remaining' = remaining - 1
    /\ phase' = "failed"
    /\ boxes' = {}
    /\ UNCHANGED <<env, cached, graph, state, inDegree, ready, idx, pool,
                   exec>>

------------------------------------------------------------------------------
(* WorkerPool: the closure each worker thread runs                         *)

Job(w) == execReply[w][2]

WorkerTake(w) ==
    /\ wpc[w] = "recv"
    /\ Exec!Recv(w)
    /\ wpc' = [wpc EXCEPT ![w] = "run"]
    /\ UNCHANGED <<env, store, phase, graph, state, inDegree, ready, idx,
                   remaining, outcome, runs, res>>

\* libc_system runs the compiler, which may reject the file.
WorkerRun(w) ==
    /\ wpc[w] = "run"
    /\ \E ok \in BOOLEAN : outcome' = [outcome EXCEPT ![w] = ok]
    /\ runs' = [runs EXCEPT ![Job(w)] = @ + 1]
    /\ wpc' = [wpc EXCEPT ![w] = "report"]
    /\ UNCHANGED <<env, store, phase, graph, state, inDegree, ready, idx,
                   remaining, exec, res>>

WorkerReport(w) ==
    /\ wpc[w] = "report"
    /\ Res!Send(w, <<Job(w), outcome[w]>>)
    /\ wpc' = [wpc EXCEPT ![w] = "recv"]
    /\ UNCHANGED <<env, store, phase, graph, state, inDegree, ready, idx,
                   remaining, outcome, runs, exec>>

------------------------------------------------------------------------------
MainStep ==
    \/ RegisterImport \/ LinkImport \/ FinishFile
    \/ SeedClean \/ ResolveClean \/ CountRemaining
    \/ Submit \/ SubmitEnd \/ AwaitSuccess \/ AwaitFailure
WorkerStep(w) == WorkerTake(w) \/ WorkerRun(w) \/ WorkerReport(w)

Next == MainStep \/ \E w \in Workers : WorkerStep(w)

Spec == Init /\ [][Next]_vars

\* Threads are scheduled and the compiler returns; nothing else is assumed.
FairSpec ==
    Spec /\ WF_vars(MainStep) /\ \A w \in Workers : WF_vars(WorkerStep(w))

------------------------------------------------------------------------------
Building == phase \in {"submit", "await", "done"}
Exited   == phase \in {"clean", "done", "failed"}

TypeOK ==
    /\ imports \in [Files -> ImportLists] /\ clean \subseteq Files
    /\ phase \in Phases
    /\ stack \in Seq(Files \X (1..(MaxImports + 1)))
    /\ registered \in Seq(Files)
    /\ state \in [Files -> States]
    /\ inDegree \in [Files -> Nat]
    /\ dependents \in [Files -> Seq(Files)]
    /\ ready \subseteq Files
    /\ idx \in 1..(Cardinality(Files) + 1)
    /\ remaining \in 0..Cardinality(Files)
    /\ wpc \in [Workers -> {"recv", "run", "report"}]
    /\ outcome \in [Workers -> BOOLEAN]
    /\ execQ \in Seq(Files) /\ resQ \in Seq(Files \X BOOLEAN)
    /\ runs \in [Files -> Nat]
    /\ cached \subseteq Files /\ boxes \subseteq Files

\* in_degree counts exactly the import lines whose file is not built yet,
\* duplicates, self imports and cycles included: it is never decremented
\* twice for one line and never left behind.  And remaining_tasks, which
\* decides when main stops waiting, is the number of files still to be
\* finished; with it at zero every registered file is built.  Neither falls
\* below zero, and no other variable leaves its type.
CountersExact ==
    /\ TypeOK
    /\ phase # "register" =>
          \A f \in Registered :
              inDegree[f] = Cardinality({i \in DOMAIN imports[f] :
                                           state[imports[f][i]] # "Success"})
    /\ Building =>
          remaining = Cardinality({f \in Files : state[f] \in {"Pending", "Running"}})

\* Where a submitted file is, between submit_ready_tasks and recv_result.
Places(f) ==
    Count(execQ, f)
    + Cardinality({w \in Workers : wpc[w] # "recv" /\ Job(w) = f})
    + Count(resQ, <<f, TRUE>>) + Count(resQ, <<f, FALSE>>)

\* A Running file is in exactly one place on its way through the two channels
\* and the pool, any other file in none; so none is submitted twice or lost.
RunningIsInFlight ==
    phase # "failed" =>
        \A f \in Files : Places(f) = IF state[f] = "Running" THEN 1 ELSE 0

\* A file is handed out only when everything it imports, directly or not, is
\* built, and it is compiled at most once in a run.
ImportsFirst ==
    \A f \in Files :
        /\ runs[f] <= 1
        /\ state[f] \in {"Running", "Success"} =>
             \A i \in DOMAIN imports[f] : state[imports[f][i]] = "Success"

Skipped(f) == state[f] = "Success" /\ runs[f] = 0

\* A file is skipped only if it is clean and all it imports was skipped too,
\* and every file that was compiled instead has its result in the cache by
\* the time its dependents are released.
SkippedIsClean ==
    \A f \in Files :
        /\ Skipped(f) =>
             f \in clean /\ \A i \in DOMAIN imports[f] : Skipped(imports[f][i])
        /\ state[f] = "Success" => (f \in cached) = (runs[f] = 1)

\* A task a worker has taken, or will take, is still allocated; at the end of
\* a successful build main frees the boxes only when no worker reads one.
\* (After a failure it frees them under the workers still running.)
BoxesOutliveJobs ==
    phase # "failed" =>
        /\ \A i \in DOMAIN execQ : execQ[i] \in boxes
        /\ \A w \in Workers : wpc[w] # "recv" => Job(w) \in boxes

\* The imports can be ranked: no file imports itself, directly or not.
Acyclic ==
    \E rank \in [Files -> 1..Cardinality(Files)] :
        \A f \in Files : \A i \in DOMAIN imports[f] :
            rank[imports[f][i]] < rank[f]

\* Without an import cycle the build ends, whatever the compiler answers.
AcyclicBuildEnds == Acyclic ~> Exited

\* The compiler reports an import cycle as an error and stops; the build
\* engine should come to an end as well.
EveryBuildEnds == <>Exited
==============================================================================
