----------------------------- MODULE Compatible -----------------------------
(***************************************************************************)
(* What the analysis makes of a type, and which type may flow into which   *)
(* (src/Sema/Sema_Type.cpp).                                               *)
(***************************************************************************)
EXTENDS Types

CONSTANTS
    Aliases,   \* name -> [params, target, strong]: the aliases in sight
    Locals,    \* name -> type: the generic parameters of the function at hand
    Modules,   \* name -> aliases: what an imported module offers
    Shapes,    \* name -> [kind, params, members]; a parameter is
               \* [name, morphic, bounds], a member [name, sigil, type]
    Records,   \* "(x: i32)" -> members: the records written without a name
    Closures,  \* name -> type of its __invoke
    Impls,     \* {<<name, trait>>}
    SafeShapes \* names of the shapes that may cross threads

CharNames == {"i8", "u8", "char"}
Nothing   == Type("nothing", "", <<>>, "")   \* a null pointer

-----------------------------------------------------------------------------
(* Aliases                                                                 *)

\* A parameter after the other is replaced in the target's text: what the
\* first argument brought in is there when the second is replaced.
Replaced(target, params, args) ==
    LET One(text, i) ==
            FoldLeft(LAMBDA s, p : IF p = params[i] THEN s \o args[i] ELSE Append(s, p),
                     <<>>, text)
    IN  FoldLeft(One, target, [i \in DOMAIN params |-> i])

\* A text as part of a name: what is no letter becomes _ ...
Underscored(text) ==
    Joined([i \in DOMAIN text |->
               IF text[i] \in {"^", "*", "~", "&", "?", "#", "$", "<", ">", "(", ")",
                               "[", "]", ",", ";", ":", " ", "-", ".", "@"}
               THEN "_" ELSE text[i]])

\* ... but that an instance's name tells the handles apart (getMangledName).
FaultyMangled(text) == Underscored(text)
Mangled(text) ==
    Underscored([i \in DOMAIN text |->
        CASE text[i] = "^" -> "U" [] text[i] = "*" -> "R" [] text[i] = "~" -> "S"
          [] text[i] = "&" -> "B" [] text[i] = "?" -> "O" [] text[i] = "#" -> "M"
          [] OTHER -> text[i]])

\* Name_M_Argument_Argument.  The copy of a struct behind a strong alias has
\* its name by another rule than an instance has.
NameOf(name, parts) == FoldLeft(LAMBDA s, p : s \o "_" \o p, name \o "_M", parts)
InstanceName(name, args) ==
    NameOf(name, [i \in DOMAIN args |-> Mangled(ToText(args[i]))])
AliasName(name, args) ==
    NameOf(name, [i \in DOMAIN args |-> Underscored(ToText(args[i]))])

\* A bound of a generic parameter: an impl, or what is known without one.
Holds(bound, arg) ==
    \/ <<Joined(ToText(arg)), bound>> \in Impls
    \/ bound = "Send" /\ IsSend(arg, SafeShapes)
    \/ bound = "Sync" /\ IsSync(arg, SafeShapes)

\* instantiateGenericShape.  The attributes of the use stay, but for $.
IsInstance(t, shape) == Len(shape.params) = Len(t.sub)
Refused(t, shape) ==   \* a pointer where the parameter is not morphic
    {i \in DOMAIN t.sub : IsPointer(t.sub[i]) /\ ~shape.params[i].morphic}
Unbound(t, shape) ==
    {i \in DOMAIN t.sub : \E b \in shape.params[i].bounds : ~Holds(b, t.sub[i])}
BoundsHold(t, shape) ==   \* or a refused argument is met first
    \A i \in Unbound(t, shape) : \E j \in Refused(t, shape) : j <= i
Instance(t) ==
    IF t.name \notin DOMAIN Shapes THEN t
    ELSE IF ~IsInstance(t, Shapes[t.name]) THEN t
    ELSE IF ~BoundsHold(t, Shapes[t.name]) THEN Nothing
    ELSE IF Refused(t, Shapes[t.name]) # {} THEN t
    ELSE [Type("shape", InstanceName(t.name, t.sub), <<>>, "")
             EXCEPT !.w = t.w, !.n = t.n]

RECURSIVE Resolve(_, _)

\* One piece of a type that is made of others: where they change it is built
\* anew, from its writability and nullability alone.
ResolveMadeOf(t) ==
    LET subs == [i \in DOMAIN t.sub |-> Resolve(t.sub[i], FALSE)]
    IN  IF subs = t.sub THEN t
        ELSE [Type(t.kind, t.name, subs, t.size)
                 EXCEPT !.w = t.w, !.n = t.n, !.b = t.kind = "fn" /\ t.b]

\* An alias with arguments.  A weak one forgets the attributes of its use.
GenericTarget(alias, args) ==
    FromText(Replaced(alias.target, alias.params,
                      [i \in DOMAIN args |-> ToText(args[i])]))
CopyOf(t, args, original) ==
    IF original.kind # "shape" THEN [t EXCEPT !.sub = args]
    ELSE WithAttributes(Type("shape", AliasName(t.name, args), <<>>, ""), t.w, t.n, FALSE)
ThroughGenericAlias(t, args, target, force) ==
    IF ~Aliases[t.name].strong \/ force THEN Resolve(target, force)
    ELSE CopyOf(t, args, Resolve(target, TRUE))
ResolveGenericAlias(t, args, force) ==
    ThroughGenericAlias(t, args, GenericTarget(Aliases[t.name], args), force)

\* An alias without.  Behind a weak one the strong ones are opened as well.
ThroughAlias(t, target, force) ==
    IF ~Aliases[t.name].strong
    THEN Resolve(WithAttributes(target, t.w, t.n, FALSE), TRUE)
    ELSE IF force THEN Resolve(target, TRUE)
    ELSE t
ResolveAlias(t, force) == ThroughAlias(t, FromText(Aliases[t.name].target), force)

ResolveShape(t, force) ==
    LET args == [i \in DOMAIN t.sub |-> Resolve(t.sub[i], force)]
    IN  IF t.name \in DOMAIN Records
        THEN WithAttributes(Type("shape", "__Toka_Anon_Rec_" \o t.name, <<>>, ""),
                            t.w, t.n, t.b)
        ELSE IF t.name \in DOMAIN Locals
        THEN WithAttributes(Resolve(Locals[t.name], force), t.w, t.n, FALSE)
        ELSE IF /\ args # <<>> /\ t.name \in DOMAIN Aliases
                /\ Len(Aliases[t.name].params) = Len(args)
        THEN ResolveGenericAlias(t, args, force)
        ELSE IF args # <<>> THEN Instance([t EXCEPT !.sub = args])
        ELSE IF t.name \in DOMAIN Aliases THEN ResolveAlias(t, force)
        ELSE t

\* resolveType of a type.  A slice, a dyn fn and an Uninit keep their inside.
Resolve(t, force) ==
    CASE IsPointer(t) \/ t.kind \in {"array", "fn"} -> ResolveMadeOf(t)
      [] t.kind = "shape" -> ResolveShape(t, force)
      [] t.kind = "prim" /\ t.name \in DOMAIN Aliases ->
            IF Aliases[t.name].strong /\ ~force THEN t
            ELSE Resolve(WithAttributes(FromText(Aliases[t.name].target), t.w, t.n,
                                        FALSE), force)
      [] OTHER -> t

\* resolveType of a text.
RECURSIVE ResolveText(_, _)
ResolveText(text, force) ==
    LET scope == {i \in 1..(Len(text) - 1) : text[i] = ":" /\ text[i + 1] = ":"}
        mod   == Joined(SubSeq(text, 1, Min(scope) - 1))
        rest  == SubSeq(text, Min(scope) + 2, Len(text))
        alias == Modules[mod][Joined(rest)]
        lt    == {i \in DOMAIN text : text[i] = "<"}
        base  == text[1]
        args  == Split(SubSeq(text, 3, Len(text) - 1), AllOpen, AllClose)
        given == [i \in DOMAIN Aliases[base].params |->
                     IF i \in DOMAIN args THEN Trim(args[i]) ELSE <<"unknown">>]
    IN  IF Len(text) = 1 /\ base \in DOMAIN Locals
        THEN ResolveText(ToText(Locals[base]), force)
        ELSE IF scope # {} /\ mod \in DOMAIN Modules
        THEN IF Joined(rest) \in DOMAIN Modules[mod] /\ (~alias.strong \/ force)
             THEN ResolveText(alias.target, force) ELSE rest
        ELSE IF /\ lt # {} => Min(lt) = 2 /\ Last(text) = ">"
                /\ text # <<>> /\ base \in DOMAIN Aliases
                /\ (lt # {} \/ Len(text) = 1) /\ Aliases[base].params # <<>>
        THEN IF Aliases[base].strong /\ ~force THEN text
             ELSE ResolveText(Replaced(Aliases[base].target,
                                       Aliases[base].params, given), force)
        ELSE ToText(Resolve(FromText(text), force))

\* The members of an instance: the template's with the arguments put in, each
\* through its text (instantiateGenericShape, resolveMember).
InstanceMembers(t) ==
    LET shape == Shapes[t.name]
        map   == [p \in {shape.params[i].name : i \in DOMAIN shape.params} |->
                     t.sub[CHOOSE i \in DOMAIN shape.params : shape.params[i].name = p]]
        Whole(m) == IF m.type # <<>> /\ (m.type[1] \in {"^", "*", "&", "~"}
                                         \/ StartsWith(m.type, <<"nul", " ">>))
                    THEN m.type ELSE m.sigil \o m.type
    IN  [i \in DOMAIN shape.members |->
            [name |-> shape.members[i].name,
             type |-> FromText(ResolveText(
                         SubstituteText(Whole(shape.members[i]), map), FALSE))]]

-----------------------------------------------------------------------------
(* Which type may flow into which                                          *)

IsShapeHandle(t) == t.kind = "shape" \/ (IsPointer(t) /\ Inner(t).kind = "shape")
SoulName(t) == IF t.kind = "shape" THEN t.name ELSE Joined(StripMorphology(ToText(t)))

\* A strong alias flows into itself only.
WallBetween(t, s) ==
    /\ IsShapeHandle(t) /\ IsShapeHandle(s)
    /\ SoulName(t) # SoulName(s)
    /\ \E n \in {SoulName(t), SoulName(s)} : n \in DOMAIN Aliases /\ Aliases[n].strong

\* isAnonymousRecord
RecordNames == {"__Toka_Anon_Rec_" \o n : n \in DOMAIN Records}
IsRecord(t) == t.kind = "shape" /\ t.name \in RecordNames

\* The members of a struct or a record; of another shape, and of none, nothing.
MembersOf(name) ==
    IF name \in RecordNames
    THEN Records[CHOOSE n \in DOMAIN Records : "__Toka_Anon_Rec_" \o n = name]
    ELSE Shapes[name].members
IsStruct(name) ==
    name \in RecordNames \/ (name \in DOMAIN Shapes /\ Shapes[name].kind = "struct")

RECURSIVE IsTypeCompatible(_, _)

ResolvedMember(m) == Resolve(FromText(m.type), FALSE)

\* areStructsStructurallyCompatible
SameStructure(target, source) ==
    LET ts == MembersOf(target)
        ss == MembersOf(source)
    IN  /\ IsStruct(target) /\ IsStruct(source)
        /\ Len(ts) = Len(ss)
        /\ \A i \in DOMAIN ts :
              ts[i].name = ss[i].name
              /\ IsTypeCompatible(ResolvedMember(ts[i]), ResolvedMember(ss[i]))

\* A closure where a function is expected.  Its parameters are compared in
\* the direction of the result.
IsClosureOf(fn, s) ==
    LET invoke == Closures[s.name]
    IN  /\ IsFunction(fn) /\ s.kind = "shape" /\ s.name \in DOMAIN Closures
        /\ Len(fn.sub) = Len(invoke.sub)
        /\ \A i \in DOMAIN Params(fn) :
              IsTypeCompatible(Params(fn)[i], Resolve(Params(invoke)[i], FALSE))
        /\ IsTypeCompatible(Return(fn), Resolve(Return(invoke), FALSE))

RECURSIVE Soul(_)
Soul(t) == IF IsPointer(t) THEN Soul(Inner(t)) ELSE t

\* A value whose type implements the trait of a dyn @Trait, behind whatever
\* handles.
IsDynOf(t, s) ==
    /\ t.kind = "shape" /\ Soul(s).kind \in {"prim", "shape"}
    /\ \E i \in Impls : i[1] = Soul(s).name /\ t.name \in {"dyn @" \o i[2], "dyn@" \o i[2]}

Width(name) ==
    CASE name \in {"i8", "u8", "char"} -> 8
      [] name \in {"i16", "u16"} -> 16
      [] name \in {"i32", "u32", "f32"} -> 32
      [] name \in {"i64", "u64", "f64", "usize", "isize", "Addr", "OAddr"} -> 64
      [] OTHER -> 0
Signed == {"i32", "i64", "i8", "i16", "isize"}
Widens(t, s) ==
    /\ t.kind = "prim" /\ s.kind = "prim"
    /\ Width(t.name) > Width(s.name) /\ Width(s.name) > 0
    /\ \/ /\ {t.name, s.name} \subseteq IntegerNames
          /\ s.name \in Signed => t.name \in Signed
       \/ {t.name, s.name} \subseteq {"f32", "f64"}

\* A text or a C string into a pointer to bytes, an array into a pointer.
Decays(t, s, source) ==
    /\ IsPointer(t)
    /\ \/ /\ Inner(t).kind = "prim" /\ Inner(t).name \in CharNames
          /\ \/ s.kind = "prim" /\ s.name = "str"
             \/ source.kind = "shape" /\ source.name = "cstr"
       \/ s.kind = "array" /\ IsCompatible(Inner(t), Inner(s))

\* Two handles of one kind: a writable one where reading is enough, one that
\* is there where none is allowed too.
FaultyHandleFlows(target, source) ==
    /\ IsPointer(target) /\ target.kind = source.kind
    /\ IsTypeCompatible(Inner(target), Inner(source))
    /\ target.w => source.w
HandleFlows(target, source) ==
    /\ IsPointer(target) /\ target.kind = source.kind
    /\ IsTypeCompatible(Inner(target), Inner(source))
    /\ target.w => source.w
    /\ source.n => target.n

\* The last rules, where nothing above said yes or no.
PointeeIsTheSame(target, source) ==
    /\ IsPointer(target) /\ IsPointer(source)
    /\ Equals(Inner(source), Inner(target))
    /\ target.n \/ ~source.n
IsNull(t) == t.kind = "prim" /\ t.name \in {"null", "none"}
NullFlows(target, t, s) ==
    \/ IsNull(s) /\ IsPointer(t) /\ t.n
    \/ IsNull(t) /\ IsPointer(s)
    \/ (s.kind = "void" \/ IsNull(s)) /\ target.n /\ ~IsPointer(target)

\* A rule that says yes; t and s are the two types resolved.
Flows(target, source, t, s) ==
    \/ Equals(t, s)
    \/ t.kind = "shape" /\ s.kind = "shape" /\ t.name = s.name
    \/ IsClosureOf(t, s)
    \/ IsDynOf(t, s)
    \/ Widens(t, s)
    \/ Decays(t, s, source)
    \/ HandleFlows(target, source)
    \/ s.kind = "&" /\ t.kind # "&" /\ IsTypeCompatible(target, Inner(s))

Clean(t) == WithAttributes(t, FALSE, t.n, FALSE)
FlowsResolved(target, source, t, s) ==
    IF IsRecord(t) \/ IsRecord(s)
    THEN IsRecord(s) /\ t.kind = "shape" /\ SameStructure(t.name, s.name)
    ELSE IF Flows(target, source, t, s) THEN TRUE
    ELSE IF Equals(Clean(target), Clean(source))
    THEN ~(IsPointer(target) /\ target.w /\ ~source.w)
    ELSE \/ PointeeIsTheSame(target, source)
         \/ NullFlows(target, t, s)
         \/ IsCompatible(s, t)

IsTypeCompatible(target, source) ==
    IF "unresolved" \in {target.kind, source.kind} THEN TRUE
    ELSE IF WallBetween(target, source) THEN FALSE
    ELSE FlowsResolved(target, source, Resolve(target, FALSE), Resolve(source, FALSE))
=============================================================================
