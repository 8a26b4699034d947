------------------------------- MODULE WriteJob -------------------------------
(***************************************************************************)
(* game::write_job (src/src/game/write_job.hpp, write_job.cpp): functions  *)
(* that write to objects are queued by anyone and executed by the write    *)
(* job, which the scheduler runs as a root of every frame.  The job's      *)
(* mutex is also taken by SG_SYNGET and SG_SYNSET (object.hpp:37-51), for  *)
(* threads outside of the scheduler.                                       *)
(*                                                                         *)
(* What a queued function does belongs to the modules that queue it.       *)
(***************************************************************************)
EXTENDS Naturals, Sequences

VARIABLES
  writes,  \* write_job::queue
  holder   \* who holds write_job::mutex: "free", the "job" or an "outside" thread

writeVars == <<writes, holder>>

Holders == {"free", "job", "outside"}

WriteInit == writes = <<>> /\ holder = "free"

\* enqueue, lock-free
Enqueue(fn) == writes' = Append(writes, fn)

\* execute() takes the mutex ...
WriteBegin ==
  /\ holder = "free"
  /\ holder' = "job"
  /\ UNCHANGED writes

\* ... takes one function after the other from the queue ...
WritePop(fn) ==
  /\ holder = "job" /\ writes # <<>>
  /\ fn = Head(writes)
  /\ writes' = Tail(writes)
  /\ UNCHANGED holder

\* Mutant: it may leave functions for the next frame.
WriteEndEarly ==
  /\ holder = "job"
  /\ holder' = "free"
  /\ UNCHANGED writes

\* ... and returns when it finds the queue empty.
WriteEnd ==
  /\ holder = "job" /\ writes = <<>>
  /\ holder' = "free"
  /\ UNCHANGED writes

OutsideLocks ==
  /\ holder = "free"
  /\ holder' = "outside"
  /\ UNCHANGED writes

OutsideUnlocks ==
  /\ holder = "outside"
  /\ holder' = "free"
  /\ UNCHANGED writes

===============================================================================
