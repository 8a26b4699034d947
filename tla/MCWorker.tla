------------------------------ MODULE MCWorker ------------------------------
(* One worker: the workers of a pool share nothing, and the runner composes *)
(* several of them.                                                         *)
EXTENDS Worker

=============================================================================
