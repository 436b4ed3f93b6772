-------------------------------- MODULE Types --------------------------------
(***************************************************************************)
(* tokac's types and their texts (include/toka/Type.h, src/Type.cpp).  The *)
(* passes hand each other a type as text: it is printed and read again at  *)
(* every step.  A type is a record                                         *)
(*   kind        prim, void, * ^ ~ &, array, slice, shape, fn, dynfn,      *)
(*               uninit, unresolved                                        *)
(*   name, size  of a primitive or a shape; of an array ("4", or a name);  *)
(*               name "..." marks a variadic function                      *)
(*   sub         what it is made of: the pointee, the element, generic     *)
(*               arguments, parameters and behind them the result          *)
(*   suffix      the pieces of ::Variant                                   *)
(*   w, n, b, c  # writable, ? nullable, $ blocked, cede                   *)
(* A text is a sequence of the lexer's pieces.                             *)
(***************************************************************************)
EXTENDS Lexer

Type(kind, name, sub, size) ==
    [kind |-> kind, name |-> name, sub |-> sub, size |-> size, suffix |-> <<>>,
     w |-> FALSE, n |-> FALSE, b |-> FALSE, c |-> FALSE]

Void == Type("void", "", <<>>, "")
Unresolved(text) == Type("unresolved", Joined(text), <<>>, "")
Prims == {"i32", "i64", "u32", "u64", "f32", "f64", "bool", "char", "i8", "u8",
          "i16", "u16", "usize", "isize", "null", "none", "Addr", "OAddr"}
IntegerNames == {"i32", "i64", "u32", "u64", "i8", "u8", "i16", "u16", "usize", "char"}

IsPointer(t)  == t.kind \in {"*", "^", "~", "&"}
IsFunction(t) == t.kind \in {"fn", "dynfn"}
Inner(t)  == t.sub[1]
Params(t) == Front(t.sub)
Return(t) == Last(t.sub)

-----------------------------------------------------------------------------
(* Attributes                                                              *)

\* cloneWithAttrs: $ sticks, and what is blocked is not writable.
WithAttributes(t, w, n, b) ==
    [t EXCEPT !.b = b \/ @, !.w = w /\ ~(b \/ t.b), !.n = n]

-----------------------------------------------------------------------------
(* From a type to its text                                                 *)

Cede(t) == IF t.c THEN <<"cede", " ">> ELSE <<>>
If(flag, mark) == IF flag THEN <<mark>> ELSE <<>>

\* Behind a type: $ is left out where both of the others stand, but for a
\* primitive, which says it first.
FaultyMarksOf(t) == If(t.n, "?") \o If(t.w, "#")
MarksOf(t) ==
    IF t.kind = "prim" THEN If(t.b, "$") \o If(t.n, "?") \o If(t.w, "#")
    ELSE If(t.n, "?") \o If(t.w, "#") \o If(t.b /\ ~(t.w /\ t.n), "$")

Commas(texts) ==
    FoldLeft(LAMBDA s, t : IF s = <<>> THEN t ELSE s \o <<",", " ">> \o t,
             <<>>, texts)

RECURSIVE ToText(_)
ToText(t) ==
    LET subs == [i \in DOMAIN t.sub |-> ToText(t.sub[i])]
        args == <<"(">> \o Commas(Front(subs))
                \o (IF t.name = "..." THEN <<",", " ", ".", ".", ".">> ELSE <<>>)
                \o <<")">>
                \o (IF Return(t).kind = "void" THEN <<>>
                    ELSE <<" ", "-", ">", " ">> \o Last(subs))
    IN  CASE t.kind = "void" -> <<"void">>
          [] t.kind = "unresolved" -> <<"Unresolved", "(", t.name, ")">>
          [] t.kind = "prim"   -> Cede(t) \o <<t.name>> \o MarksOf(t)
          [] t.kind = "uninit" -> Cede(t) \o <<"Uninit", "<">> \o subs[1]
                                  \o <<">">> \o MarksOf(t)
          [] IsPointer(t) -> Cede(t) \o (IF t.n THEN <<"nul", " ">> ELSE <<>>)
                             \o <<t.kind>> \o If(t.w, "#") \o If(t.b, "$") \o subs[1]
          [] t.kind = "array"  -> Cede(t) \o <<"[">> \o subs[1]
                                  \o <<";", " ", t.size, "]">> \o MarksOf(t)
          [] t.kind = "slice"  -> Cede(t) \o <<"[">> \o subs[1] \o <<"]">>
                                  \o MarksOf(t)
          [] t.kind = "shape"  -> Cede(t) \o <<t.name>>
                \o (IF subs = <<>> THEN <<>> ELSE <<"<">> \o Commas(subs) \o <<">">>)
                \o t.suffix \o MarksOf(t)
          [] t.kind = "fn"     -> Cede(t) \o <<"fn">> \o args
          [] t.kind = "dynfn"  -> Cede(t) \o <<"dyn", " ", "fn">> \o args

-----------------------------------------------------------------------------
(* From a text to its type                                                 *)

Trim(s) ==
    LET ends == {i \in DOMAIN s : s[i] \notin Blanks}
    IN  IF ends = {} THEN <<>> ELSE SubSeq(s, Min(ends), Max(ends))
From(s, i) == SubSeq(s, i, Len(s))
StartsWith(s, prefix) == Len(s) >= Len(prefix)
                     /\ SubSeq(s, 1, Len(prefix)) = prefix

\* The balance of brackets behind each piece.  An arrow's > closes, as the
\* code has it.
Balances(s, opens, closes) ==
    LET bal[i \in 0..Len(s)] ==
            IF i = 0 THEN 0
            ELSE bal[i - 1] + (CASE s[i] \in opens -> 1 [] s[i] \in closes -> -1
                                 [] OTHER -> 0)
    IN  bal

\* Cut at the commas outside of brackets; nothing behind the last is no piece.
CommasOutside(s, bal) ==
    SetToSortSeq({i \in DOMAIN s : s[i] = "," /\ bal[i] = 0}, <)
PiecesBetween(s, ends) ==
    LET all == [k \in 1..(Len(ends) - 1) |-> SubSeq(s, ends[k] + 1, ends[k + 1] - 1)]
    IN  IF Last(all) = <<>> THEN Front(all) ELSE all
Split(s, opens, closes) ==
    PiecesBetween(s, <<0>> \o CommasOutside(s, Balances(s, opens, closes))
                           \o <<Len(s) + 1>>)

\* What an argument list counts, and a list of generic arguments, which does
\* not know the other brackets.
AllOpen  == {"<", "(", "["}
AllClose == {">", ")", "]"}

\* T <- x: the dependency is cut off.
WithoutDependency(s) ==
    LET bal  == Balances(s, AllOpen, AllClose)
        deps == {i \in 1..(Len(s) - 1) :
                    s[i] = "<" /\ s[i + 1] = "-" /\ bal[i - 1] = 0}
    IN  IF deps = {} THEN s ELSE Trim(SubSeq(s, 1, Min(deps) - 1))

RECURSIVE FromText(_)

EachFrom(texts) == [i \in DOMAIN texts |-> FromText(texts[i])]

\* Behind ( of a function: parameters, and what follows the first arrow.
ClosingParen(s) == Min({i \in DOMAIN s : Balances(s, {"("}, {")"})[i] = -1})
Parameters(texts) ==
    SelectSeq([i \in DOMAIN texts |-> Trim(texts[i])], LAMBDA p : p # <<>>)
ResultFrom(s, close) ==
    LET arrow == {i \in close..(Len(s) - 1) : s[i] = "-" /\ s[i + 1] = ">"}
    IN  IF arrow = {} THEN Void ELSE FromText(Trim(From(s, Min(arrow) + 2)))
FunctionOf(kind, params, result) ==
    LET IsDots(p) == kind = "fn" /\ p = <<".", ".", ".">>
        rest == \E i \in DOMAIN params : IsDots(params[i])
    IN  Type(kind, IF rest THEN "..." ELSE "",
             EachFrom(SelectSeq(params, LAMBDA p : ~IsDots(p))) \o <<result>>, "")
FunctionFrom(kind, s) ==
    FunctionOf(kind,
               Parameters(Split(SubSeq(s, 1, ClosingParen(s) - 1), AllOpen, AllClose)),
               ResultFrom(s, ClosingParen(s)))

\* [T] and [T; n]: cut at the first semicolon and the last bracket.
BracketsFrom(s) ==
    LET semis  == {i \in DOMAIN s : s[i] = ";"}
        closes == {i \in DOMAIN s : s[i] = "]"}
        semi   == Min(semis)
        count  == Trim(SubSeq(s, semi + 1, Max(closes) - 1))
    IN  IF semis = {} THEN Type("slice", "", <<FromText(SubSeq(s, 2, Max(closes) - 1))>>, "")
        ELSE Type("array", "", <<FromText(SubSeq(s, 2, semi - 1))>>,
                  IF count # <<>> /\ Head(count) \in Digits THEN Head(count)
                  ELSE Joined(count))

\* Name, Name::Variant, Name<..>, Name<..>::Variant, Uninit<T>.
NamedType(base, subs, suffix) ==
    IF base = <<"Uninit">> /\ Len(subs) = 1 THEN Type("uninit", "", subs, "")
    ELSE [Type("shape", Joined(base), subs, "") EXCEPT !.suffix = Trim(suffix)]
NamedTypeFrom(s) ==
    LET lt     == {i \in DOMAIN s : s[i] = "<"}
        gt     == {i \in DOMAIN s : s[i] = ">"}
        colons == {i \in 1..(Len(s) - 1) : s[i] = ":" /\ s[i + 1] = ":"}
    IN  IF lt # {} /\ gt # {}
        THEN NamedType(SubSeq(s, 1, Min(lt) - 1),
                       EachFrom(Split(SubSeq(s, Min(lt) + 1, Max(gt) - 1), {"<"}, {">"})),
                       From(s, Max(gt) + 1))
        ELSE NamedType(IF lt = {} /\ colons # {} THEN SubSeq(s, 1, Min(colons) - 1) ELSE s,
                       <<>>, IF colons # {} THEN From(s, Min(colons)) ELSE <<>>)

\* The marks at the end, and the text before them.
Core(s) ==
    LET ends == {i \in DOMAIN s : s[i] \notin {"#", "?", "$", " "}}
    IN  IF ends = {} THEN <<>> ELSE SubSeq(s, 1, Max(ends))
EndMarks(s) == ToSet(From(s, Len(Core(s)) + 1))
WithMarks(t, marks, cede) ==
    [t EXCEPT !.w = "#" \in marks, !.n = "?" \in marks, !.b = "$" \in marks, !.c = cede]

IsCeded(s) == StartsWith(s, <<"cede", " ">>)
IsNul(s)   == /\ StartsWith(s, <<"nul">>)
              /\ Len(s) > 1 /\ s[2] \in {" ", "*", "^", "~", "&"}

\* The (, which stands before i, is closed.
Closes(s, i) ==
    \E j \in i..Len(s) : Balances(From(s, i), {"("}, {")"})[j - i + 1] = -1

\* The marks at the end belong to the whole type, but for a pointer: its own
\* stand behind the sigil, and those at the end go to what it points to.
OwnMarks(s) == Max({i \in DOMAIN s : \A j \in 2..i : s[j] \in {"#", "$"}})
Pointed(t, marks) ==
    IF marks \cap {"#", "?", "$"} = {} THEN t
    ELSE WithAttributes(t, "#" \in marks, "?" \in marks, "$" \in marks)
PointerFrom(s, own, marks, nul, cede) ==
    [Type(s[1], "", <<Pointed(FromText(From(s, own + 1)), marks)>>, "")
        EXCEPT !.n = nul, !.c = cede,
               !.w = "#" \in ToSet(SubSeq(s, 1, own)),
               !.b = "$" \in ToSet(SubSeq(s, 1, own))]

\* A type that bears the marks at its end.
FunctionPrefixes == {<<"dyn", " ", "fn", "(">>, <<"dyn", "fn", "(">>, <<"fn", "(">>}
PrefixesOf(s) == {p \in FunctionPrefixes : StartsWith(s, p) /\ Closes(s, Len(p) + 1)}
FunctionBehind(s, p) ==
    FunctionFrom(IF p[1] = "fn" THEN "fn" ELSE "dynfn", From(s, Len(p) + 1))
OtherFrom(s) ==
    IF PrefixesOf(s) # {} THEN FunctionBehind(s, CHOOSE p \in PrefixesOf(s) : TRUE)
    ELSE IF s[1] = "[" /\ "]" \in ToSet(s) THEN BracketsFrom(s)
    ELSE IF Len(s) = 1 /\ s[1] \in Prims THEN Type("prim", s[1], <<>>, "")
    ELSE NamedTypeFrom(s)

\* s is the text without the marks at its end, cede and nul.
Readable(text, s, marks, nul, cede) ==
    IF s = <<>> THEN Unresolved(text)
    ELSE IF s[1] \in {"*", "^", "~", "&"} THEN PointerFrom(s, OwnMarks(s), marks, nul, cede)
    ELSE IF s = <<"void">> THEN Void
    ELSE IF s = <<"unknown">> THEN Unresolved(s)
    ELSE WithMarks(OtherFrom(s), marks, cede)

WithoutCede(s) == IF IsCeded(s) THEN Trim(From(s, 3)) ELSE s
WithoutNul(s)  == IF IsNul(s) THEN Trim(From(s, 2)) ELSE s
FromWhole(text, whole) ==
    LET s == WithoutCede(Core(whole))
    IN  IF whole = <<>> THEN Void
        ELSE Readable(text, WithoutNul(s), EndMarks(whole), IsNul(s),
                      IsCeded(Core(whole)))
FromText(text) == FromWhole(text, WithoutDependency(Trim(text)))

-----------------------------------------------------------------------------
(* Equality and compatibility                                              *)

SameMarks(t, u) == t.w = u.w /\ t.n = u.n /\ t.b = u.b /\ t.c = u.c
Count(size) == IF size \in Digits THEN size ELSE "0"   \* a named size is 0

\* Generic arguments of shapes and parameters of functions are not compared.
RECURSIVE Equals(_, _)
Equals(t, u) ==
    /\ t.kind = u.kind /\ SameMarks(t, u)
    /\ CASE t.kind \in {"prim", "shape"} -> t.name = u.name
         [] t.kind = "array" -> Count(t.size) = Count(u.size)
                                /\ Equals(Inner(t), Inner(u))
         [] t.kind = "void"       -> TRUE
         [] t.kind = "unresolved" -> FALSE
         [] IsFunction(t)    -> Len(t.sub) = Len(u.sub)
                                /\ Equals(Return(t), Return(u))
         [] OTHER            -> Equals(Inner(t), Inner(u))

\* isCompatibleWith: may a value of type s go where t is expected.
RECURSIVE IsCompatible(_, _)
IsCompatible(s, t) ==
    LET base    == s.kind = t.kind /\ (t.n \/ ~s.n)
        inner   == IsCompatible(Inner(s), Inner(t))
        integer == s.name \in IntegerNames /\ t.name \in IntegerNames
    IN  CASE s.kind = "prim" ->
                t.kind = "prim" /\ (integer \/ (base /\ s.name = t.name))
          [] s.kind = "shape" ->
                /\ t.kind = "shape"
                /\ \/ Len(t.name) >= 4 /\ SubSeq(t.name, 1, 4) = "dyn@"
                   \/ s.name = t.name /\ base
          [] s.kind = "*" -> /\ base
                             /\ \/ "void" \in {Inner(s).kind, Inner(t).kind}
                                \/ inner
          [] s.kind = "~" /\ ~IsPointer(t) -> IsCompatible(Inner(s), t)
          [] \/ s.kind \in {"^", "&"}
             \/ s.kind = "~" /\ IsPointer(t) ->
                base /\ (Inner(t).w => Inner(s).w) /\ inner
          [] IsFunction(s) -> /\ base /\ Len(s.sub) = Len(t.sub)
                              /\ IsCompatible(Return(s), Return(t))
                              /\ \A i \in DOMAIN Params(s) :
                                    Equals(Params(s)[i], Params(t)[i])
          [] s.kind = "array" -> base /\ Count(s.size) = Count(t.size) /\ inner
          [] s.kind \in {"slice", "uninit"} -> base /\ inner
          [] OTHER -> base   \* void, unresolved

-----------------------------------------------------------------------------
(* Generic parameters                                                      *)

\* substitute.  Where a parameter stands, its argument takes over the marks
\* the parameter has there, and loses its own.
RECURSIVE Substitute(_, _)
Substitute(t, map) ==
    LET own  == WithAttributes(t, t.w, t.n, t.b)
        subs == [i \in DOMAIN t.sub |-> Substitute(t.sub[i], map)]
    IN  IF t.kind \in {"void", "prim", "unresolved"} THEN t
        ELSE IF t.kind = "shape" /\ t.name \in DOMAIN map
        THEN LET arg == WithAttributes(map[t.name], t.w, t.n, t.b)
             IN  IF arg.kind = "shape" THEN [arg EXCEPT !.suffix = @ \o t.suffix]
                 ELSE arg
        ELSE [own EXCEPT !.sub = subs,
                 !.size = IF @ \in DOMAIN map THEN Joined(ToText(map[@])) ELSE @]

\* substituteTypeString (src/Sema/Sema_Template.cpp): a text, through its type.
SubstituteText(text, map) ==
    IF text = <<>> THEN <<>> ELSE ToText(Substitute(FromText(text), map))

\* stripMorphology, stripPrefixes: a text without the marks around it.
StripPrefixes(text) ==
    LET s    == IF StartsWith(text, <<"nul", " ">>) THEN From(text, 3) ELSE text
        ends == {i \in DOMAIN s : s[i] \notin {"*", "^", "~", "&", "#", "?", "$"}}
    IN  IF ends = {} THEN <<>> ELSE From(s, Min(ends))
StripMorphology(text) ==
    LET s    == StripPrefixes(text)
        ends == {i \in DOMAIN s : s[i] \notin {"#", "?", "$"}}
    IN  IF ends = {} THEN <<>> ELSE SubSeq(s, 1, Max(ends))

\* May a value go to another thread, or be shared with one.  What shapes may
\* is the analysis's answer: the shapes that may.
RECURSIVE IsSend(_, _), IsSync(_, _)
IsSync(t, safe) ==
    CASE t.kind \in {"void", "prim", "fn", "dynfn"} -> TRUE
      [] t.kind = "shape"                           -> t.name \in safe
      [] t.kind \in {"*", "unresolved"}             -> FALSE
      [] t.kind = "~" -> IsSend(Inner(t), safe) /\ IsSync(Inner(t), safe)
      [] OTHER        -> IsSync(Inner(t), safe)
IsSend(t, safe) ==
    CASE t.kind \in {"^", "array", "slice", "uninit"} -> IsSend(Inner(t), safe)
      [] t.kind = "&" -> IsSync(Inner(t), safe)
      [] OTHER        -> IsSync(t, safe)
=============================================================================
