---------------------------- MODULE MCScheduler ----------------------------
(* The six tasks of run_task_list with a watchdog of RunLimit turns.         *)
EXTENDS Scheduler
=============================================================================
