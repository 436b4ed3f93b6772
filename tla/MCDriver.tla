------------------------------- MODULE MCDriver -------------------------------
(***************************************************************************)
(* Small disks for Driver: import graphs over two sources and the library, *)
(* and single sources put together from two lines each, statements in a    *)
(* function or declarations.  Texts are sequences of the lexer's pieces.   *)
(***************************************************************************)
EXTENDS Driver, TLC

Nm(d, s, e) == [dirs |-> d, stem |-> s, ext |-> e]

A   == Nm(<<>>, "a", "tk")
AN  == Nm(<<>>, "a", "")
B   == Nm(<<>>, "b", "tk")
BN  == Nm(<<>>, "b", "")
BI  == Nm(<<>>, "b", "tki")
IO  == Nm(<<"std">>, "io", "")
IOF == Nm(<<"lib", "std">>, "io", "tk")
PreludeName == Nm(<<"core">>, "prelude", "")
PreludeFile == Nm(<<"lib", "core">>, "prelude", "tk")
Build == Nm(<<>>, "build", "tk")
BuildLib == Nm(<<"p">>, "build", "tk")

\* The words of a line with the blanks two words need between them.
Words(line) ==
    FoldLeft(LAMBDA text, w :
                 IF text # <<>> /\ w \notin Singles \cup Marks \cup Blanks
                    /\ Last(text) \notin Singles \cup Marks \cup Blanks
                 THEN text \o <<" ", w>> ELSE Append(text, w),
             <<>>, line)
Text(lines) == FoldLeft(LAMBDA text, l : text \o Words(l) \o <<"\n">>,
                        <<>>, lines)

\* import name, as it is written
ImportLine(n) ==
    <<"import">> \o FoldLeft(LAMBDA t, d : t \o <<d, "/">>, <<>>, n.dirs)
                 \o <<n.stem>> \o (IF n.ext = "" THEN <<>> ELSE <<".", n.ext>>)
Importing(names) == Text([i \in DOMAIN names |-> ImportLine(names[i])])
Broken == Text(<< <<"}">>, <<"pub", "1">> >>)
Blank  == <<"\n">>
Lib == (PreludeFile :> Blank) @@ (IOF :> Blank)

Lists(S) == {<<>>} \cup {<<x>> : x \in S} \cup {<<x, y>> : x, y \in S}

\* Two files that import each other by relative paths.
RelativeDisks ==
    {(A :> Text(<< <<"import", " ", ".", "/", "b">> >>))
       @@ (B :> Text(<< <<"import", " ", ".", "/", "a">> >>)) @@ Lib}

\* Import graphs by name: cycles, a file under two names, missing files, an
\* interface beside its source, an empty file.
NamedDisks ==
    RelativeDisks \cup
    {(A :> Importing(ia)) @@ (B :> tb) @@ Lib :
        ia \in {l \in Lists({B, BN, IO, Nm(<<>>, "c", "")}) : Len(l) > 0},
        tb \in {<<>>, Blank, Importing(<<A>>), Importing(<<AN>>),
                Importing(<<IO>>)}}
    \cup {(A :> Importing(<<BN>>)) @@ (B :> Broken)
            @@ (BI :> Importing(<<IO>>)) @@ Lib,
          (A :> Importing(<<B>>) \o Broken) @@ (B :> Broken) @@ Lib,
          (Build :> Importing(<<Build>>)) @@ Lib,
          (A :> Importing(<<Build>>)) @@ (Build :> Blank)
            @@ (BuildLib :> Broken) @@ Lib}

Search == << <<"p">> >>
NoPackages == [n \in {} |-> NoPath]
ArgWords == {"-c", "-o x.o", "-o x.ll", "-o x", "--emit-obj",
             "--emit-interface", "--check-json"}
Args == {<<>>, <<"--version">>, <<"-I">>} \cup {<<x>> : x \in ArgWords}
        \cup {<<"--check-json", "-o x">>, <<"-c", "--emit-llvm">>,
              <<"-o x", "--emit-interface">>, <<"-c", "-o x">>}

Graphs == [disk : NamedDisks, sources : {<<A>>, <<A, B>>}, args : {<<>>}]
CommandLines ==
    [disk : {(A :> Importing(<<B>>)) @@ (B :> b) @@ Lib : b \in {Blank, Broken}},
     sources : {<<>>, <<A>>, <<A, B>>}, args : Args]

-----------------------------------------------------------------------------
(* Single sources                                                          *)

Statements == {
    <<"x">>, <<"x", "=", "1">>, <<"f", "(", "x", ",", "f", "(", ")", ")">>,
    <<"return">>, <<"return", "-", "x">>, <<"auto", "x", "=", "1">>,
    <<"auto", "^", "x", ":", "T", "<", "i32", ">", "=", "new", "P", "{", "a",
      "=", "1", "}">>,
    <<"if", "x", " ", "<", " ", "y", "{", "f", "(", ")", "}">>,
    <<"if", "x", "f", "(", ")">>, <<"else", "g", "(", ")">>,
    <<"loop", "x", "{", "break", "}">>,
    <<"for", "auto", "i", "in", "x", "{", "f", "(", "i", ")", "}">>,
    <<"match", "x", "{", "1", ".", ".", "=", " ", "2", "=", ">", "f", "(", ")",
      ";", "_", "=", ">", "g", "(", ")", "}">>,
    <<"guard", "auto", "P", "(", "y", ")", "=", "x", "else", "{", "return", "}">>,
    <<"x", "as", "i32">>, <<"[", "1", "]">>, <<"a", "[", "0", "]", "=", "1">>,
    <<"pass">>, <<"break">>, <<"unsafe", "free", "x">>, <<"delete", "x">>,
    <<"auto", "g", "=", "{", "a", "=", ">", "f", "(", "a", ")", "}">>,
    <<"x", ".", "f", "{", ".", "a", "}">>,
    <<"auto", "(", "a", ",", "b", ")", "=", "x">>,
    <<"x", "&", "&">>, <<"-", "x">>, <<".", "f", "(", ")">>,
    \* wrong ones
    <<"else">>, <<"=">>, <<")">>, <<"]">>, <<"(", ";", ")">>, <<"2^64">>,
    <<"match", "x", "{", ";", "}">>, <<"P", "(", "a", "=", "1", "b", ")">>,
    <<"auto", "x", ":", "i32", "]">>, <<"a", "[", "i", "as", "u8", "]">>,
    <<"\"">> }

Declarations == {
    <<"fn", "f", "(", ")", "{", "}">>,
    <<"pub", "fn", "f", "<", "T", ":", "@", "S", ">", "(", "self", ",", "b",
      ":", "i32", "=", "1", ")", "-", ">", "r", ":", "T", "<", "-", "b",
      "effects", ":", "r", "<", "-", "b", "{", "}">>,
    <<"extern", "fn", "f", "(", "a", ":", "i32", ",", ".", ".", ".", ")">>,
    <<"shape", "P", "(", "a", ":", "i32", "=", "1", ",", "^", "b", ":", "P", ")">>,
    <<"shape", "E", "(", "A", "(", "i32", ")", "|", "B", "=", "1", ")">>,
    <<"packed", "shape", "A", "[", "u8", ";", "1", "]">>,
    <<"alias", "T", "=", "i32">>, <<"auto", "x", "=", "1">>,
    <<"impl", "P", "{", "fn", "f", "(", ")", "{", "}", "}">>,
    <<"impl", "P", "@", "encap", "{", "pub", "a", "pub", "(", "crate", ")",
      "b", "}">>,
    <<"trait", "@", "T", "{", "fn", "f", "(", ")", ";", "}">>,
    <<"import", "std", "/", "io", ":", ":", "{", "a", "as", "b", ",", "c", "}">>,
    <<"import", "sys", "/", "os">>, <<"x", "=", "(", "a", ":", "i32", ")">>,
    \* wrong ones
    <<"trait", "T", "{", "x", "}">>, <<"union", "U">>, <<"pub", "1">>,
    <<"shape", "P", "(", "i32", ",", "i32", ")">>, <<"import", "auto">>,
    <<"fn", "f", "(", "a", ":">>, <<"shape", "E", "(", "A", "|", ";", ")">>,
    <<"shape", "P", "(", "a", ":", "i32">>, <<"?">> }

\* The statements whose end depends on what may follow them in a closure.
ClosureStatements == {
    <<"x">>, <<"x", "=", "1">>, <<"return">>, <<"return", "-", "x">>,
    <<"auto", "x", "=", "1">>, <<"if", "x", "f", "(", ")">>,
    <<"else", "g", "(", ")">>, <<"loop", "x", "{", "break", "}">>,
    <<"x", "as", "i32">>, <<"[", "1", "]">>, <<"pass">>, <<"break">>,
    <<"auto", "g", "=", "{", "a", "=", ">", "f", "(", "a", ")", "}">>,
    <<"-", "x">>, <<".", "f", "(", ")">>, <<"=">>, <<")">>,
    <<"a", "[", "i", "as", "u8", "]">> }

InMain == Text(<< <<"fn", "main", "(", ")", "{">> >>)
InClosure ==
    Text(<< <<"impl", "P", "@", "encap", "{">>, <<"fn", "f", "(", "self", ")", "{">>,
            <<"auto", "g", "=", "{">>, <<"h", "(", ".", "a", ")">> >>)
Closing(n) == Text([i \in 1..n |-> <<"}">>])
Single(text) == [disk |-> (A :> text) @@ Lib, sources |-> <<A>>, args |-> <<>>]

\* Every two lines between the two texts.
TwoLines(before, lines, after) ==
    LET first == before
        last  == after
        texts == {Text(<<l>>) : l \in lines}
    IN  {first \o l \o m \o last : l, m \in texts}
Programs == UNION {TwoLines(InMain, Statements, Closing(1)),
                   TwoLines(InClosure, ClosureStatements, Closing(3)),
                   TwoLines(<<>>, Declarations, <<>>)}

MCWorlds == UNION {Graphs, CommandLines, {Single(text) : text \in Programs}}
=============================================================================
