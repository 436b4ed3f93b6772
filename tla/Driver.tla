-------------------------------- MODULE Driver --------------------------------
(***************************************************************************)
(* tokac, the whole run of the compiler (src/main.cpp main): arguments,    *)
(* loading (Loader), semantic analysis of every module, interface files,   *)
(* code generation, object file and link.  What the later passes decide    *)
(* about a program is the environment's choice; what the driver does with  *)
(* each answer is the model.                                               *)
(*                                                                         *)
(* A definition marked Faulty is no part of the model: it is the named bug *)
(* some property must notice when it takes the place of the one below it.  *)
(***************************************************************************)
EXTENDS Loader

VARIABLES
    opts,      \* the options read from the command line
    idx,       \* the module the current pass is at
    checked,   \* how many modules passed semantic analysis
    made       \* what was written: interfaces, temporary, object, program, IR

passVars   == <<opts, idx, checked, made>>
driverVars == <<loaderVars, passVars>>

-----------------------------------------------------------------------------
(* The command line                                                        *)

NoOptions == [json |-> FALSE, obj |-> FALSE, only |-> FALSE, tki |-> FALSE,
              out |-> "", quit |-> -1]

\* One argument.  "-o x.o" also stops after the object file, "-o x.ll" asks
\* for IR; the last word on emitObj wins.  Nothing after a quit is read.
ApplyArg(o, a) ==
    IF o.quit # -1 THEN o
    ELSE CASE a = "-c"               -> [o EXCEPT !.only = TRUE, !.obj = TRUE]
           [] a = "-o x.o"           -> [o EXCEPT !.only = TRUE, !.obj = TRUE,
                                                  !.out = a]
           [] a = "-o x.ll"          -> [o EXCEPT !.obj = FALSE, !.out = a]
           [] a = "-o x"             -> [o EXCEPT !.obj = TRUE, !.out = a]
           [] a = "--emit-obj"       -> [o EXCEPT !.obj = TRUE]
           [] a = "--emit-llvm"      -> [o EXCEPT !.obj = FALSE]
           [] a = "--emit-interface" -> [o EXCEPT !.tki = TRUE]
           [] a = "--check-json"     -> [o EXCEPT !.json = TRUE]
           [] a = "--version"        -> [o EXCEPT !.quit = 0]
           [] a = "-I"               -> [o EXCEPT !.quit = 1]
           [] OTHER                  -> o

Options(args) == LET o == FoldLeft(ApplyArg, NoOptions, args)
                 IN  [o EXCEPT !.tki = @ \/ o.only]

\* What a run that ends with code 0 was asked to leave behind.
Product == IF opts.obj THEN IF opts.only THEN "object" ELSE "program" ELSE "ir"

DriverInit ==
    /\ \E w \in Worlds :
          /\ LoaderInit(w.disk, w.sources)
          /\ opts = Options(w.args)
          /\ json = opts.json
    /\ idx = 1 /\ checked = 0 /\ made = {}

-----------------------------------------------------------------------------
(* The passes                                                              *)

Exit(code) == phase' = "exited" /\ exitCode' = code

Goto(p) == phase' = p /\ UNCHANGED exitCode

\* --version and a broken option end the process before anything is read; so
\* does a command line without a source file.
BadCommandLine ==
    /\ phase = "load" /\ modules = <<>> /\ visited = {} /\ call = NoCall
    /\ opts.quit # -1 \/ todo = <<>>
    /\ Exit(IF opts.quit # -1 THEN opts.quit ELSE 1)
    /\ UNCHANGED <<fs, json, errors, loading, passVars>>

LoadStep ==
    /\ opts.quit = -1
    /\ LoaderNext
    /\ UNCHANGED passVars

Loaded ==
    /\ phase = "load" /\ opts.quit = -1
    /\ todo = <<>> /\ call = NoCall /\ frames = <<>> /\ visited # {}
    /\ IF modules = <<>> \/ errors # <<>> THEN Exit(1) ELSE Goto("sema")
    /\ UNCHANGED <<fs, json, errors, loading, passVars>>

\* checkModule on the next module; the first module with errors ends the run.
CheckModule ==
    /\ phase = "sema" /\ idx <= Len(modules)
    /\ \/ /\ idx' = idx + 1 /\ checked' = checked + 1
          /\ UNCHANGED <<phase, exitCode, errors>>
       \/ /\ errors' = Append(errors, [kind |-> "semantic",
                                       name |-> modules[idx].resolved])
          /\ Exit(IF json THEN 0 ELSE 1)
          /\ UNCHANGED <<idx, checked>>
    /\ UNCHANGED <<fs, json, loading, opts, made>>

Checked ==
    /\ phase = "sema" /\ idx > Len(modules)
    /\ idx' = 1
    /\ Goto(IF opts.tki THEN "export" ELSE "generate")
    /\ UNCHANGED <<fs, json, errors, loading, opts, checked, made>>

\* The interface of each module named on the command line, beside its source;
\* the file may not be writable.
ExportInterface ==
    /\ phase = "export" /\ idx <= Len(modules)
    /\ \/ /\ idx' = idx + 1
          /\ made' = IF modules[idx].root
                     THEN made \cup {<<"tki", modules[idx].resolved>>} ELSE made
          /\ UNCHANGED <<phase, exitCode>>
       \/ /\ modules[idx].root
          /\ Exit(1)
          /\ UNCHANGED <<idx, made>>
    /\ UNCHANGED <<fs, json, errors, loading, opts, checked>>

Exported ==
    /\ phase = "export" /\ idx > Len(modules)
    /\ Goto("generate")
    /\ UNCHANGED <<fs, json, errors, loading, passVars>>

\* discover, resolveSignatures and generate over all modules and the generic
\* instances, then the checks for main and by the LLVM verifier.
Generate ==
    /\ phase = "generate"
    /\ \E ok, hasMain, verified \in BOOLEAN :
          IF ok /\ (hasMain \/ opts.only \/ ~opts.obj) /\ verified
          THEN Goto("emit") ELSE Exit(1)
    /\ UNCHANGED <<fs, json, errors, loading, passVars>>

\* The temporary object of a link, or the file named by -o, or the IR.
Emit ==
    /\ phase = "emit"
    /\ IF ~opts.obj
       THEN \/ Exit(0) /\ made' = made \cup {<<"ir", NoPath>>}
            \/ opts.out # "" /\ Exit(1) /\ made' = made
       ELSE IF opts.only /\ opts.out = ""
       THEN Exit(1) /\ made' = made
       ELSE \/ Exit(1) /\ made' = made
            \/ Exit(1) /\ made' = made \cup
                 {IF opts.only THEN <<"torn", NoPath>> ELSE <<"temp", NoPath>>}
            \/ IF opts.only
               THEN Exit(0) /\ made' = made \cup {<<"object", NoPath>>}
               ELSE Goto("link") /\ made' = made \cup {<<"temp", NoPath>>}
    /\ UNCHANGED <<fs, json, errors, loading, opts, idx, checked>>

FaultyLink ==
    /\ phase = "link"
    /\ Exit(0)
    /\ \/ made' = (made \ {<<"temp", NoPath>>}) \cup {<<"program", NoPath>>}
       \/ made' = made
    /\ UNCHANGED <<fs, json, errors, loading, opts, idx, checked>>

\* toka_rt is looked for, then the linker runs; only a good link removes the
\* temporary object.
Link ==
    /\ phase = "link"
    /\ \/ Exit(0) /\ made' = (made \ {<<"temp", NoPath>>})
                              \cup {<<"program", NoPath>>}
       \/ Exit(1) /\ made' = made
    /\ UNCHANGED <<fs, json, errors, loading, opts, idx, checked>>

DriverNext ==
    \/ BadCommandLine \/ LoadStep \/ Loaded \/ CheckModule \/ Checked
    \/ ExportInterface \/ Exported \/ Generate \/ Emit \/ Link

\* The process is not stopped by anyone while it can take a step.
DriverSpec == DriverInit /\ [][DriverNext]_driverVars /\ WF_driverVars(DriverNext)

-----------------------------------------------------------------------------
(* Properties                                                              *)

\* The variables of the loader and of the passes have their types.
TypeOK ==
    /\ phase \in {"load", "sema", "export", "generate", "emit", "link",
                  "exited", "overflow", "hang", "crash"}
    /\ exitCode \in {-1, 0, 1} /\ (exitCode # -1) = (phase = "exited")
    /\ checked \in 0..Len(modules) /\ idx \in 1..(Len(modules) + 1)
    /\ Len(frames) <= Len(recursion)

\* A module is analysed after every module it imports: when the passes begin,
\* each import of a module is an earlier module (parseSource appends a module
\* after its imports, and checkModule goes through the list in order).
ImportsFirst ==
    phase \in {"sema", "export", "generate", "emit", "link"} =>
    \A i \in DOMAIN modules : \A k \in DOMAIN modules[i].imports :
        \E j \in 1..(i - 1) : modules[j].name =
            ImportName(modules[i].imports[k], modules[i].resolved)

\* Every module the passes see was made from its own file, whatever else was
\* loaded before and after it: an offset finds its file again, and the address
\* space of the SourceManager has neither gap nor overlap.
OwnText ==
    /\ TypeOK
    /\ \A i \in DOMAIN modules :
          fs[Physical(modules[i].resolved)] # <<>> =>
          modules[i].text = modules[i].resolved
    /\ \A i \in DOMAIN files :
          files[i].start = (IF i = 1 THEN 1 ELSE files[i - 1].stop)

\* The brackets open in front of a token, and whether all are closed in order.
Opening(toks, i) ==
    FoldLeft(LAMBDA open, t :
                 IF t.k \in Openers THEN Append(open, t.k)
                 ELSE IF t.k \in Closers /\ open # <<>> THEN Front(open)
                 ELSE open,
             <<>>, SubSeq(toks, 1, i - 1))
Balanced(toks) ==
    /\ Opening(toks, Len(toks)) = <<>>
    /\ \A i \in DOMAIN toks : toks[i].k \in Closers =>
          /\ Opening(toks, i) # <<>>
          /\ <<Last(Opening(toks, i)), toks[i].k>> \in
                {<<"(", ")">>, <<"[", "]">>, <<"{", "}">>}

\* The ] before i closes an array, not an index or the parameters of a type.
EndsArray(toks, i) ==
    /\ toks[i - 1].k = "]"
    /\ \E j \in 1..(i - 2) :
          /\ toks[j].k = "[" /\ Opening(toks, j) = Opening(toks, i)
          /\ \A k \in (j + 1)..(i - 2) : Opening(toks, k) # Opening(toks, i)
          /\ j = 1 \/ toks[j - 1].k \notin {"id", "self", ")", "]", "}"}

\* A line that stands in a block or on its own, begins with a word, and can
\* not go on with what precedes it.  Known to take the next line for theirs:
\* pass, a prefix keyword, and an array of one element before a name.
BeginsLine(toks, i) ==
    /\ i > 1 /\ toks[i].newline
    /\ toks[i].k \in (Keywords \ {"else", "or", "as", "is", "in"}) \cup {"id"}
    /\ Opening(toks, i) = <<>> \/ Last(Opening(toks, i)) = "{"
    /\ toks[i - 1].k \notin OpenOperators \cup
          {"=>", "else", "pass", "yield", "cede", "unsafe"}
    /\ ~EndsArray(toks, i)

\* No line is lost: in a source that is accepted, every line that cannot go
\* on with the one before it begins a declaration, a member, an arm or a
\* statement of its own (the parser tells statements apart by their lines,
\* and steps over tokens it takes for nothing).
LinesKept ==
    phase = "sema" /\ idx = 1 /\ checked = 0 =>
    \A m \in ToSet(modules) : m.text # NoPath =>
        LET toks == Tokenize(fs[Physical(m.text)])
        IN  Balanced(toks) =>
            \A i \in DOMAIN toks : BeginsLine(toks, i) => i \in m.starts

\* "Circular dependency" is reported only for a name whose loading has begun
\* and not ended, as long as no import failed before: a file that was not
\* found stays on recursionStack and would be reported again as a cycle.
CircularIsInProgress ==
    [][(/\ errors' # errors /\ Last(errors').kind = "circular"
        /\ \A i \in DOMAIN errors : errors[i].kind # "missing")
       => \E f \in ToSet(frames) : f.name = call.name]_driverVars

\* Exit code 0 means the product asked for was made and no temporary is left,
\* except for --version and for an error reported as JSON.
SuccessHasProduct ==
    exitCode = 0 =>
        \/ opts.quit = 0
        \/ json /\ errors # <<>>
        \/ <<Product, NoPath>> \in made /\ <<"temp", NoPath>> \notin made

\* Loading ends, for every import graph without relative imports: cycles are
\* found by name, so the nested calls never outgrow the names there are.
NoRelativeImports ==
    \A p \in DOMAIN fs : \A i \in DOMAIN fs[p] :
        fs[p][i] = "import" => Char(fs[p], i + 2) \notin {".", ".."}

\* What is known to stop the parser before it has said anything: the type of a
\* cast with a bracket that is not its own, and numbers above 64 bits.
KnownTrap ==
    \E toks \in {Tokenize(fs[Physical(Last(frames).text)])} :
    \E i \in DOMAIN toks :
        \/ toks[i].t = "2^64"
        \/ /\ toks[i].k = "as"
           /\ Balanced(toks) => Opening(toks, i) # <<>>
                                /\ Last(Opening(toks, i)) # "{"

\* The compiler ends, or has at least said what is wrong with the source: its
\* loops over lists stop at the end of the file, and those that stay in place
\* do so at a token they have reported.
Terminates ==
    NoRelativeImports =>
    <>(\/ phase = "exited"
       \/ phase \in {"hang", "crash"} /\ (errors # <<>> \/ KnownTrap))
=============================================================================
