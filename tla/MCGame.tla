-------------------------------- MODULE MCGame --------------------------------
(* Two text boxes, one of which shows the keys; threads and a job can yield.   *)
EXTENDS Game

CONSTANTS label, hint, thread, second, task

OneToKeys == 1 .. Keys

===============================================================================
