--------------------------- MODULE MCModuleLoader ---------------------------
(* Instances of ModuleLoader for TLC: a main script a and two others, which *)
(* are named once, twice, by both, or in a circle.                          *)
EXTENDS ModuleLoader

MCPrograms ==
  {[a |-> s, b |-> t, c |-> u] :
     s \in {<<"b">>, <<"b", "c">>, <<"b", "b">>},
     t \in {<<>>, <<"c">>, <<"c", "c">>, <<"b">>},
     u \in {<<>>}}

Kinds == {"absent", "unreadable", "syntax", "throws", "onload", "absolute"}
NoFault == [f \in {"a", "b", "c"} |-> "none"]

\* One file at most is at fault; the main script is not looked for.
MCFaults ==
  {NoFault} \cup {[NoFault EXCEPT ![f] = k] : f \in {"b", "c"}, k \in Kinds}
    \cup {[NoFault EXCEPT !["a"] = k] : k \in Kinds \ {"absent", "absolute"}}
=============================================================================
