----------------------------- MODULE MCOwnership -----------------------------
(* Two unique pointers, a shared one, a value and a reference; each text   *)
(* draws from one set of statements.                                       *)
EXTENDS Ownership

MCKind == [v \in {"p", "q", "s", "t", "x", "r"} |->
    CASE v \in {"p", "q"} -> "unique" [] v \in {"s", "t"} -> "shared"
      [] v = "x" -> "value" [] OTHER -> "ref"]

MCProfiles ==
    {[len |-> 6, names |-> {"p", "q"}, ops |-> {"new", "from", "use", "if", "else"}],
     [len |-> 6, names |-> {"p"},
      ops |-> {"new", "use", "assign", "cede", "if", "else"}],
     [len |-> 5, names |-> {"p", "q"},
      ops |-> {"new", "from", "use", "assign", "if", "else"}],
     [len |-> 5, names |-> {"s"}, ops |-> {"new", "use", "assign", "loop", "break"}],
     [len |-> 5, names |-> {"p", "q"},
      ops |-> {"new", "from", "use", "write", "assign", "loop"}],
     [len |-> 5, names |-> {"s", "t"},
      ops |-> {"new", "from", "use", "assign", "return", "if"}],
     [len |-> 5, names |-> {"p", "r"},
      ops |-> {"new", "ref", "use", "write", "lend", "block", "rebind", "assign"}],
     [len |-> 5, names |-> {"x", "r", "s"},
      ops |-> {"new", "ref", "use", "write", "cede", "lend"}],
     [len |-> 6, names |-> {"p", "x"},
      ops |-> {"new", "use", "cede", "loop", "if", "break", "continue", "return"}],
     [len |-> 6, names |-> {"x"}, ops |-> {"new", "write", "cede", "loop", "if"}],
     [len |-> 8, names |-> {"x"}, ops |-> {"new", "write", "cede", "block", "if"}],
     [len |-> 8, names |-> {"x"}, ops |-> {"new", "cede", "loop", "if", "return"}]}
=============================================================================
