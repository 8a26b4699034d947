----------------------------- MODULE MCLifecycle -----------------------------
(* The shipped two cores; start() for the two workers of the default, for one *)
(* beside a floating arbiter, and for none.                                   *)
EXTENDS Lifecycle

CONSTANTS owner, other, arbiter, second

SomeStarts ==
  [floating : {FALSE}, count : {0, 2}] \cup [floating : {TRUE}, count : {2}]

==============================================================================
