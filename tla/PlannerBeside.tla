---------------------------- MODULE PlannerBeside ----------------------------
(* The planner under names of its own, so that it can stand in one module   *)
(* beside other programs of threads: MCThreads runs it there, ThreadProofs  *)
(* proves about it.                                                         *)
CONSTANTS First, Forked, Slices,
          Scheduler,       \* the thread that runs main
          Nobody           \* no holder of the mutex, no current thread

VARIABLES place, plan_mutex, ready_queues, current, thread_id, slices, forked

Plan == INSTANCE Planner WITH
    pc <- place, mutex <- plan_mutex, Main <- Scheduler, None <- Nobody

(* A forked thread's handler runs in its turn, inside the first thread's.   *)
HandlersNested == Plan!HandlersNested
=============================================================================
