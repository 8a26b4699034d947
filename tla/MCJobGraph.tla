------------------------------ MODULE MCJobGraph ------------------------------
(* Three jobs, a root with a child and one that is not scheduled yet, and two *)
(* threads.                                                                   *)
EXTENDS JobGraph

CONSTANTS a, b, c, arbiter, other

Planted == [n \in Nodes |-> CASE n = Top -> <<a>> [] n = a -> <<b>> [] OTHER -> <<>>]

===============================================================================
