------------------------------ MODULE ThreadPool ------------------------------
(***************************************************************************)
(* OSS::thread_pool (src/utl/Thread.cpp): schedule() wraps a task in a     *)
(* thread_pool_runnable and hands it to a Poco::ThreadPool; the timed      *)
(* schedule(task, millis) arms a timer whose handler, a                    *)
(* thread_pool_timed_task, calls schedule() when it fires.                 *)
(*                                                                         *)
(* Poco::ThreadPool is outside the repository; the model takes its         *)
(* documented behaviour: start() gives the runnable an idle thread or a    *)
(* new one while fewer than maxCapacity threads are busy, and throws       *)
(* NoThreadAvailableException otherwise; used() is the number of busy      *)
(* threads.  Each task is scheduled once, by its own caller or timer;     *)
(* the caller's return of used() and the pool thread running the task are  *)
(* separate steps, so they interleave with the other tasks.               *)
(***************************************************************************)
EXTENDS Integers, FiniteSets

CONSTANTS
  Tasks,        \* the tasks handed to the pool
  Delayed,      \* those scheduled with schedule(task, millis)
  MaxCapacity   \* the pool's maxCapacity

ASSUME Delayed \subseteq Tasks /\ MaxCapacity \in Nat \ {0}

VARIABLES
  call,     \* call[k]: "new", "started" (start() returned), "returned",
            \* "timer" (armed), "fired" (the timed task ran and deleted itself)
  task,     \* task[k]: the runnable: "none", "running", "done"
  used,     \* the pool's busy threads
  result    \* result[k]: what schedule() returned to the caller of k

vars == <<call, task, used, result>>

\* No result yet: schedule() returns -1 or used(), never this.
NoResult == -2

Init ==
  /\ call = [k \in Tasks |-> "new"]
  /\ task = [k \in Tasks |-> "none"]
  /\ used = 0
  /\ result = [k \in Tasks |-> NoResult]

\* start(*runnable): a thread takes the runnable, or the call throws.
PoolStart(k) ==
  /\ used < MaxCapacity
  /\ used' = used + 1
  /\ task' = [task EXCEPT ![k] = "running"]

\* schedule(task): start(); on the exception, delete the runnable and
\* return -1.
Schedule(k) ==
  /\ call[k] = "new" /\ k \notin Delayed
  /\ \/ PoolStart(k) /\ call' = [call EXCEPT ![k] = "started"]
                      /\ UNCHANGED result
     \/ used = MaxCapacity /\ call' = [call EXCEPT ![k] = "returned"]
        /\ result' = [result EXCEPT ![k] = -1] /\ UNCHANGED <<task, used>>

\* schedule(task) after start() returned: return used(), read now.
ReturnUsed(k) ==
  /\ call[k] = "started"
  /\ call' = [call EXCEPT ![k] = "returned"]
  /\ result' = [result EXCEPT ![k] = used]
  /\ UNCHANGED <<task, used>>

\* schedule(task, millis): a thread_pool_timed_task arms its timer.
ScheduleTimed(k) ==
  /\ call[k] = "new" /\ k \in Delayed
  /\ call' = [call EXCEPT ![k] = "timer"]
  /\ UNCHANGED <<task, used, result>>

\* thread_pool_timed_task::run: _schedule(_task), whose result is
\* discarded, then delete this.
TimerFire(k) ==
  /\ call[k] = "timer"
  /\ call' = [call EXCEPT ![k] = "fired"]
  /\ \/ PoolStart(k)
     \/ used = MaxCapacity /\ UNCHANGED <<task, used>>
  /\ UNCHANGED result

\* thread_pool_runnable::run on a pool thread: the task, delete this; the
\* thread goes back to idle.
Run(k) ==
  /\ task[k] = "running"
  /\ task' = [task EXCEPT ![k] = "done"]
  /\ used' = used - 1
  /\ UNCHANGED <<call, result>>

Next ==
  \E k \in Tasks :
    Schedule(k) \/ ReturnUsed(k) \/ ScheduleTimed(k) \/ TimerFire(k) \/ Run(k)

\* Pool threads, callers that are inside schedule() and the timer service
\* thread all get to run.
Fairness ==
  \A k \in Tasks : WF_vars(ReturnUsed(k)) /\ WF_vars(TimerFire(k)) /\ WF_vars(Run(k))

Spec == Init /\ [][Next]_vars /\ Fairness

------------------------------------------------------------------------------
TypeOK ==
  /\ call \in [Tasks -> {"new", "started", "returned", "timer", "fired"}]
  /\ task \in [Tasks -> {"none", "running", "done"}]
  /\ used \in 0..MaxCapacity
  /\ result \in [Tasks -> {NoResult, -1} \cup 0..MaxCapacity]

\* Every task handed to schedule(task, millis) runs once its timer fires,
\* as the worker pool is to take timer handlers.
TimedTasksRun == \A k \in Delayed : call[k] = "timer" ~> task[k] = "done"
==============================================================================
