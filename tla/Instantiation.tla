----------------------------- MODULE Instantiation -----------------------------
(***************************************************************************)
(* Templates and their instances (src/Sema/Sema_Template.cpp).  The body   *)
(* of a generic method is copied and the parameters in it are replaced,    *)
(* text by text; map goes from a parameter to the type it stands for.      *)
(***************************************************************************)
EXTENDS Syntax, Compatible

-----------------------------------------------------------------------------
(* GenericInstantiator                                                     *)

\* The texts of a node that go through substituteTypeString.
HasWord == {"VariableExpr", "CallExpr", "InitStructExpr", "Pattern"}
FaultyHasType == {"CastExpr", "CallExpr", "NewExpr", "AllocExpr", "VariableDecl",
                  "AnonymousRecordExpr"}
HasType == {"CastExpr", "SizeOfExpr", "CallExpr", "NewExpr", "AllocExpr",
            "VariableDecl", "AnonymousRecordExpr"}

\* Where visitStmt, visitExpr and visitPattern go on.  What a class does not
\* name here they do not see, and a class that is not here they do not know.
Visited ==
    [BlockStmt |-> {"Statements"}, ReturnStmt |-> {"ReturnValue"},
     ExprStmt |-> {"Expression"}, VariableDecl |-> {"Init"},
     DeleteStmt |-> {"Expression"}, UnsafeStmt |-> {"Statement"},
     IfExpr |-> {"Condition", "Then", "Else"},
     ForExpr |-> {"Collection", "Body", "ElseBody"},
     LoopExpr |-> {"Condition", "Body"}, BinaryExpr |-> {"LHS", "RHS"},
     UnaryExpr |-> {"RHS"}, PostfixExpr |-> {"LHS"}, CastExpr |-> {"Expression"},
     ClosureExpr |-> {"Body"}, AddressOfExpr |-> {"Expression"},
     MemberExpr |-> {"Object"}, CallExpr |-> {"Args"}, NewExpr |-> {"Initializer"},
     AllocExpr |-> {"Initializer", "ArraySize"}, ArrayExpr |-> {"Elements"},
     ArrayIndexExpr |-> {"Array", "Indices"}, AnonymousRecordExpr |-> {"Fields"},
     MethodCallExpr |-> {"Object", "Args"}, InitStructExpr |-> {"Members"},
     RepeatedArrayExpr |-> {"Value", "Count"}, MatchExpr |-> {"Target", "Arms"},
     PassExpr |-> {"Value"}, UnsafeExpr |-> {"Expression"},
     BreakExpr |-> {"Value"}, Pattern |-> {"SubPatterns"}, Field |-> {"Value"},
     MatchArm |-> {"Pat", "Body", "Guard"}]

RECURSIVE Visit(_, _)
Visit(n, map) ==
    LET Sub(text) == SubstituteText(text, map)
        roles == IF n.k \in DOMAIN Visited THEN Visited[n.k] ELSE {}
        seen  == Kids(n, LAMBDA m : Visit(m, map))
    IN  [n EXCEPT
           !.word  = IF n.k \in HasWord /\ "Literal" \notin n.marks THEN Sub(@) ELSE @,
           !.types = IF n.k \in HasType \/ n.k = "ClosureExpr"
                     THEN [i \in DOMAIN @ |-> IF n.k = "ClosureExpr" /\ i > 1 THEN @[i]
                                              ELSE Sub(@[i])]
                     ELSE @,
           !.kids  = [r \in DOMAIN @ |-> IF r \in roles THEN seen[r] ELSE @[r]]]

\* visitFunction: the result and the parameters' types, then the body.  A
\* parameter whose type is a morphic one takes any handle from now on.
VisitFunction(fn, map, morphic) ==
    LET Argument(a) ==
            [a EXCEPT !.types = [i \in DOMAIN @ |-> SubstituteText(@[i], map)],
                      !.marks = @ \cup (IF Joined(a.types[1]) \in morphic
                                        THEN {"IsMorphicExempt"} ELSE {})]
    IN  [fn EXCEPT !.types = [i \in DOMAIN @ |-> IF i = 1 THEN SubstituteText(@[i], map)
                                                 ELSE @[i]],
                   !.kids.Args = [i \in DOMAIN @ |-> Argument(@[i])],
                   !.kids.Body = Visit(@, map)]

-----------------------------------------------------------------------------
(* instantiateGenericImpl                                                  *)

\* checkTraitBounds, for the parameters of an impl: without a word.
Satisfied(params, args) ==
    \A i \in DOMAIN params :
       "IsConst" \notin params[i].marks =>
          \A b \in ToSet(params[i].types) :
             Holds(Joined(b), FromText(ResolveText(ToText(args[i]), FALSE)))

\* A parameter 'T is T in the body as well.
Names(param) == {Joined(param.word)}
                \cup (IF param.word[1] = "'" THEN {Joined(Tail(param.word))} ELSE {})

\* The impl of an instance, or nothing: with another number of arguments,
\* with a bound that does not hold, and where the type has a method of the
\* name of the first one already.  decls: type -> names of its methods.
NamesOf(params) == UNION {Names(params[i]) : i \in DOMAIN params}
Given(params, args) ==
    [n \in NamesOf(params) |-> args[CHOOSE i \in DOMAIN params : n \in Names(params[i])]]
MorphicNames(params) ==
    NamesOf(SelectSeq(params, LAMBDA p : "IsMorphic" \in p.marks))
HasMethods(decls, mangled, methods) ==
    /\ mangled \in DOMAIN decls
    /\ methods = <<>> \/ Joined(methods[1].word) \in decls[mangled]
Filling(impl, mangled, map, morphic) ==
    [impl EXCEPT !.word = <<mangled>>, !.kids.GenericParams = <<>>,
        !.kids.Methods = [i \in DOMAIN @ |-> VisitFunction(Clone(@[i]), map, morphic)]]
InstanceOf(impl, mangled, args, decls) ==
    LET params == impl.kids.GenericParams
    IN  IF \/ Len(args) # Len(params)
           \/ ~Satisfied(params, args)
           \/ HasMethods(decls, mangled, impl.kids.Methods)
        THEN Absent
        ELSE Filling(impl, mangled, Given(params, args), MorphicNames(params))
InstantiateImpl(impl, concrete, args, decls) ==
    InstanceOf(impl, Joined(ResolveText(concrete, FALSE)), args, decls)
=============================================================================
