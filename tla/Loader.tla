-------------------------------- MODULE Loader --------------------------------
(***************************************************************************)
(* tokac, reading the sources (src/main.cpp parseSource, SourceManager,    *)
(* DiagnosticEngine).  parseSource is recursive: it resolves a name to a   *)
(* path, loads, tokenizes and parses the file (Lexer to Parser), and calls *)
(* itself for every import.                                                *)
(* call is a call about to start, frames are the calls in progress,        *)
(* recursion is the program's own recursionStack, which the two early      *)
(* returns after an error leave one entry too long.                        *)
(*                                                                         *)
(* A path is a record: its directories, its stem and its extension.  The   *)
(* directory "." names no other directory, but makes another string.       *)
(*                                                                         *)
(* A definition marked Faulty is no part of the model: it is the named bug *)
(* some property must notice when it takes the place of the one below it.  *)
(***************************************************************************)
EXTENDS Parser, FiniteSets

CONSTANTS
    Worlds,       \* disks and command lines considered: [disk, sources, args]
    SearchPaths,  \* directories of -I, TOKA_LIB and TOKA_PATH
    Packages,     \* the --pkg aliases: name -> path
    Prelude,      \* the name "core/prelude"
    MaxErrors,    \* errors after which the compiler gives up (20 in the code)
    MaxDepth      \* bound: nested calls the process's stack has room for

ASSUME BoundsAreNat == MaxErrors \in Nat /\ MaxDepth \in Nat

VARIABLES
    fs,         \* environment: the disk, path -> text
    todo,       \* sourceFiles still to be loaded
    json,       \* g_JsonDiagnostics
    phase,      \* load; later phases are the driver's; exited; and how
                \* the process is lost: overflow, crash, hang
    exitCode,   \* the process's exit code, -1 while it runs
    call,       \* parseSource call about to start, or NoCall
    frames,     \* parseSource calls in progress
    recursion,  \* recursionStack
    visited,    \* visited
    files,      \* SourceManager.Files
    modules,    \* astModules
    errors      \* errors reported, DiagnosticEngine.ErrorCount of them

loading    == <<todo, call, frames, recursion, visited, files, modules>>
loaderVars == <<fs, todo, json, phase, exitCode, call, frames, recursion,
                visited, files, modules, errors>>

NoCall == [name |-> <<>>, search |-> <<>>]
NoPath == [dirs |-> <<>>, stem |-> "", ext |-> ""]

-----------------------------------------------------------------------------
(* Paths and the disk                                                      *)

Physical(p) == [p EXCEPT !.dirs = SelectSeq(@, LAMBDA d : d # ".")]
Exists(p)   == Physical(p) \in DOMAIN fs
WithExt(p, e)   == [p EXCEPT !.ext = e]
Under(dirs, p)  == [p EXCEPT !.dirs = dirs \o @]
IsRelative(p)   == p.dirs # <<>> /\ p.dirs[1] \in {".", ".."}
IsStdOrCore(p)  == p.dirs # <<>> /\ p.dirs[1] \in {"std", "core"}
HasExt(p)       == p.ext # ""
IsBuildFile(p)  == p.stem \in {"build", "Project"} /\ p.ext = "tk"

\* The first of a list of paths that is a file, or NoPath.
FirstExisting(ps) ==
    LET found == SelectSeq(ps, Exists)
    IN  IF found = <<>> THEN NoPath ELSE Head(found)

\* While the build system compiles its own build.tk, an import may not find
\* the build file of the directory it runs in.  stk is recursionStack with
\* the name itself already pushed.
Poisoned(p, stk) == Len(stk) > 1 /\ IsBuildFile(stk[1]) /\ IsBuildFile(p)

\* Stages 0 to 2 of the resolution: alias, exact name, added extension.
\* stk is recursionStack as in Poisoned.
DirectPath(p, stk) ==
    IF p \in DOMAIN Packages
    THEN LET m == Packages[p]
         IN  FirstExisting(IF HasExt(m) THEN <<m>>
                           ELSE <<WithExt(m, "tki"), WithExt(m, "tk"), m>>)
    ELSE IF Exists(p)
    THEN IF IsStdOrCore(p) \/ Poisoned(p, stk) THEN NoPath ELSE p
    ELSE IF HasExt(p) \/ IsStdOrCore(p) THEN NoPath
    ELSE FirstExisting(SelectSeq(<<WithExt(p, "tki"), WithExt(p, "tk")>>,
                                 LAMBDA q : ~Poisoned(q, stk)))

\* Stage 3: lib/, ../lib/, then the search paths in order.
LibraryPath(p, search) ==
    LET dirs == << <<"lib">>, <<"..", "lib">> >> \o search
        exts == IF HasExt(p) THEN <<p.ext>> ELSE <<"", "tki", "tk">>
        n    == Len(exts)
    IN  FirstExisting([k \in 1..(Len(dirs) * n) |->
            WithExt(Under(dirs[((k - 1) \div n) + 1], p),
                    exts[((k - 1) % n) + 1])])

ResolvePath(p, stk, search) ==
    LET direct == DirectPath(p, stk)
    IN  IF direct # NoPath THEN direct ELSE LibraryPath(p, search)

FaultyImportName(imp, resolved) == Under(Append(resolved.dirs, "."), imp)

\* A relative import is looked up beside the file that holds it.
ImportName(imp, resolved) ==
    IF IsRelative(imp)
    THEN Under(IF resolved.dirs = <<>> THEN <<".">> ELSE resolved.dirs, imp)
    ELSE imp

\* A file below some .../lib/ also searches the directory above that lib.
PackageRoot(resolved, search) ==
    LET libs == {i \in 2..Len(resolved.dirs) : resolved.dirs[i] = "lib"}
    IN  IF libs = {} THEN search
        ELSE Append(search, SubSeq(resolved.dirs, 1,
                    (CHOOSE i \in libs : \A j \in libs : i <= j) - 1))

-----------------------------------------------------------------------------
(* SourceManager: one address space for all files, without gaps            *)

EndOffset == IF files = <<>> THEN 1 ELSE Last(files).stop

\* loadFile and addFile: a path is loaded once.
FilesAfter(p) ==
    IF \E i \in DOMAIN files : files[i].path = p THEN files
    ELSE Append(files, [path  |-> p, start |-> EndOffset,
                        stop  |-> EndOffset + Len(fs[Physical(p)])])

StartOf(fls, p) == fls[CHOOSE i \in DOMAIN fls : fls[i].path = p].start

FaultyFileAt(fls, off) ==
    LET later == {i \in DOMAIN fls : off <= fls[i].stop}
    IN  IF later = {} THEN 0 ELSE CHOOSE i \in later : \A j \in later : i <= j

\* upper_bound on the end offsets: the index of the file that holds an
\* offset, 0 when there is none.
FileAt(fls, off) ==
    LET later == {i \in DOMAIN fls : off < fls[i].stop}
    IN  IF later = {} THEN 0 ELSE CHOOSE i \in later : \A j \in later : i <= j

\* getBufferData: the text the lexer is given; NoPath stands for "".
TextAt(fls, off) == IF FileAt(fls, off) = 0 THEN NoPath
                    ELSE fls[FileAt(fls, off)].path

-----------------------------------------------------------------------------
(* DiagnosticEngine                                                        *)

\* reportImpl at level Error, for n errors in a row: count them; JSON output
\* stops at the first error with exit code 0, text output after too many with
\* exit code 1; after is where the program goes on.
Reports(kind, name, n, after) ==
    LET room  == IF json THEN 1 ELSE MaxErrors + 1 - Len(errors)
        Entry == [kind |-> kind, name |-> name]
        Stops == n >= room
    IN  /\ errors' = errors \o [i \in 1..(IF Stops THEN room ELSE n) |-> Entry]
        /\ phase' = IF n > 0 /\ Stops THEN "exited" ELSE after
        /\ exitCode' = IF n > 0 /\ Stops THEN IF json THEN 0 ELSE 1 ELSE exitCode
Report(kind, name) == Reports(kind, name, 1, phase)

-----------------------------------------------------------------------------
(* parseSource                                                             *)

LoaderInit(disk, sources) ==
    /\ fs = disk /\ todo = sources
    /\ json \in BOOLEAN
    /\ phase = "load" /\ exitCode = -1
    /\ call = NoCall /\ frames = <<>> /\ recursion = <<>> /\ visited = {}
    /\ files = <<>> /\ modules = <<>> /\ errors = <<>>

\* The loop of main over the source files.
NextRoot ==
    /\ phase = "load" /\ call = NoCall /\ frames = <<>> /\ todo # <<>>
    /\ call' = [name |-> Head(todo), search |-> SearchPaths]
    /\ todo' = Tail(todo)
    /\ UNCHANGED <<fs, json, phase, exitCode, frames, recursion, visited,
                   files, modules, errors>>

FaultyOnStack(name) == name \in visited

OnStack(name) == \E i \in DOMAIN recursion : recursion[i] = name

Circular ==
    /\ phase = "load" /\ call # NoCall /\ OnStack(call.name)
    /\ Report("circular", call.name)
    /\ call' = NoCall
    /\ UNCHANGED <<fs, todo, json, frames, recursion, visited, files, modules>>

AlreadyVisited ==
    /\ phase = "load" /\ call # NoCall /\ ~OnStack(call.name)
    /\ call.name \in visited
    /\ call' = NoCall
    /\ UNCHANGED <<fs, todo, json, phase, exitCode, frames, recursion,
                   visited, files, modules, errors>>

Fresh == /\ phase = "load" /\ call # NoCall /\ ~OnStack(call.name)
         /\ call.name \notin visited

\* "Could not open file": the entry pushed on recursionStack stays there.
NotFound ==
    /\ Fresh
    /\ ResolvePath(call.name, Append(recursion, call.name), call.search) = NoPath
    /\ visited' = visited \cup {call.name}
    /\ recursion' = Append(recursion, call.name)
    /\ Report("missing", call.name)
    /\ call' = NoCall
    /\ UNCHANGED <<fs, todo, json, frames, files, modules>>

\* parseModule puts the prelude in front of the imports of every module that
\* is not itself part of the core library.
IsCore(resolved) ==
    \/ \E i \in 1..(Len(resolved.dirs) - 1) :
          resolved.dirs[i] = "lib" /\ resolved.dirs[i + 1] = "core"
    \/ resolved.dirs # <<>> /\ resolved.dirs[1] = "core"
    \/ resolved.stem = "prelude"
    \/ /\ Len(resolved.dirs) > 1 /\ resolved.stem = "libc"
       /\ SubSeq(resolved.dirs, Len(resolved.dirs) - 1, Len(resolved.dirs))
             = <<"lib", "sys">>
Imports(own, resolved) == IF IsCore(resolved) THEN own ELSE <<Prelude>> \o own

\* What the memory in front of the first token may look like, as far as a text
\* can tell: the parser looks for auto there, or packed, and not when the
\* first token is one that every declaration of its kind consumes.
Memory(text) ==
    IF Tokenize(text)[1].k \in
          {"fn", "import", "impl", "trait", "extern", "alias", "pub", "eof"}
    THEN {"?"} ELSE {"?", "auto", "packed"}

\* What the lexer and the parser may make of a text; only that memory leaves a
\* choice.
Texts == {<<>>} \cup UNION {{w.disk[p] : p \in DOMAIN w.disk} : w \in Worlds}
Parses ==
    [text \in Texts |->
        {[imports |-> m.imports, errs |-> m.errs, halt |-> m.halt,
          starts |-> m.starts] :
            m \in {Parse(text, before) : before \in Memory(text)}}]

\* Resolve, load, lex and parse; a file with a syntax error still gives a
\* module, unless the parser does not come back.
Load ==
    /\ Fresh
    /\ Len(frames) < MaxDepth
    /\ \E path \in {ResolvePath(call.name, Append(recursion, call.name),
                                call.search)} :
          /\ path # NoPath
          /\ files' = FilesAfter(path)
          /\ \E text \in {TextAt(FilesAfter(path),
                                 StartOf(FilesAfter(path), path))} :
             \E module \in Parses[IF text = NoPath THEN <<>>
                                  ELSE fs[Physical(text)]] :
                /\ Reports("syntax", path, module.errs,
                           IF module.halt = "" THEN phase ELSE module.halt)
                /\ frames' = Append(frames,
                      [name |-> call.name, resolved |-> path, text |-> text,
                       root |-> recursion = <<>>, starts |-> module.starts,
                       imports |-> Imports(module.imports, path),
                       next |-> 1, search |-> call.search])
    /\ visited' = visited \cup {call.name}
    /\ recursion' = Append(recursion, call.name)
    /\ call' = NoCall
    /\ UNCHANGED <<fs, todo, json, modules>>

\* The process runs out of stack.
Overflow ==
    /\ Fresh
    /\ ResolvePath(call.name, Append(recursion, call.name), call.search) # NoPath
    /\ Len(frames) = MaxDepth
    /\ phase' = "overflow"
    /\ UNCHANGED <<fs, json, exitCode, errors, loading>>

NextImport ==
    /\ phase = "load" /\ call = NoCall /\ frames # <<>>
    /\ LET f == Last(frames)
       IN  /\ f.next <= Len(f.imports)
           /\ call' = [name   |-> ImportName(f.imports[f.next], f.resolved),
                       search |-> PackageRoot(f.resolved, f.search)]
    /\ frames' = [frames EXCEPT ![Len(frames)].next = @ + 1]
    /\ UNCHANGED <<fs, todo, json, phase, exitCode, recursion, visited, files,
                   modules, errors>>

FaultyModuleDone ==
    /\ phase = "load" /\ call = NoCall /\ frames # <<>>
    /\ Last(frames).next > Len(Last(frames).imports)
    /\ modules' = <<Last(frames)>> \o modules
    /\ frames' = Front(frames)
    /\ recursion' = Front(recursion)
    /\ UNCHANGED <<fs, todo, json, phase, exitCode, call, visited, files,
                   errors>>

\* All imports done: the module follows its imports in astModules.
ModuleDone ==
    /\ phase = "load" /\ call = NoCall /\ frames # <<>>
    /\ Last(frames).next > Len(Last(frames).imports)
    /\ modules' = Append(modules, Last(frames))
    /\ frames' = Front(frames)
    /\ recursion' = Front(recursion)
    /\ UNCHANGED <<fs, todo, json, phase, exitCode, call, visited, files,
                   errors>>

LoaderNext ==
    \/ NextRoot \/ Circular \/ AlreadyVisited \/ NotFound \/ Load
    \/ Overflow \/ NextImport \/ ModuleDone
=============================================================================
