---------------------------- MODULE MCLspServer ----------------------------
(* Two files; "imp" imports the other file, "bad" has an error of its own   *)
(* and breaks its importer, "syn" does not parse.                           *)
EXTENDS LspServer

CONSTANTS a, b

MCImports(f, t) == IF t = "imp" THEN Files \ {f} ELSE {}
MCParses(u) == \A f \in Files : u[f] # "syn"
MCDiagnose(u) ==
    IF MCParses(u)
    THEN {<<f, "type error">> : f \in {g \in Files : u[g] = "bad"}} \cup
         {<<f, "bad import">> : f \in {g \in Files : u[g] = "imp" /\
                                          \E h \in Files \ {g} : u[h] \in {"bad", Nil}}}
    ELSE {<<f, "syntax error">> : f \in {g \in Files : u[g] = "syn"}}
MCDisks == {[f \in Files |-> IF f = a THEN "imp" ELSE t] : t \in {"ok", Nil}}
=============================================================================
