--------------------------- MODULE StoppableTask ---------------------------
(***************************************************************************)
(* What main relies on when it spawns the IPC task and later awaits it: a  *)
(* task that goes on until it is told to stop, and then does stop.         *)
(* Module IpcLoop implements it, module Service is built on it.            *)
(***************************************************************************)
VARIABLES
    told,       \* the shutdown flag of the watch channel
    running     \* the task has not returned

Start == told = FALSE /\ running = TRUE

Tell == ~told /\ told' = TRUE /\ UNCHANGED running

Stop == told /\ running /\ running' = FALSE /\ UNCHANGED told

\* It does not stop by itself, and does not start again.
Obeys == Start /\ [][Tell \/ Stop]_<<told, running>>

Spec == Obeys /\ (told ~> ~running)
=============================================================================
