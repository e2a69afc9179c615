------------------------------ MODULE ThreadUtil ------------------------------
(***************************************************************************)
(* The threading utilities of src/utl/Thread.cpp: the restartable         *)
(* OSS::Thread (Thread) and the thread_pool behind schedule() (ThreadPool). *)
(* The two share no state: a behaviour follows one of them, named by      *)
(* entry, and the other stays as its constructor left it.                 *)
(***************************************************************************)
CONSTANTS
  Callers, Ops, MaxCalls, TaskKinds, Nobody,
  Tasks, Delayed, MaxCapacity

VARIABLES
  entry,  \* "thread" or "pool"
  pc, ret, calls, threadMutex, termMutex, terminateFlag, pThread,
  spawned, worker, polls, assertFailed, lastOp, taskRace,
  call, task, used, result

tvars == <<pc, ret, calls, threadMutex, termMutex, terminateFlag, pThread,
           spawned, worker, polls, assertFailed, lastOp, taskRace>>
pvars == <<call, task, used, result>>
vars == <<entry, tvars, pvars>>

Thr == INSTANCE Thread
Pool == INSTANCE ThreadPool

Init ==
  /\ Thr!Init /\ Pool!Init
  /\ entry \in {"thread", "pool"}

Next ==
  \/ entry = "thread" /\ Thr!Next /\ UNCHANGED <<entry, pvars>>
  \/ entry = "pool" /\ Pool!Next /\ UNCHANGED <<entry, tvars>>

\* The fairness of each part (Thread, ThreadPool), for its steps.
Fairness ==
  /\ \A c \in Callers :
       WF_vars(entry = "thread" /\ Thr!CallerStep(c) /\ UNCHANGED <<entry, polls, pvars>>)
  /\ \A w \in Thr!Workers :
       WF_vars(entry = "thread" /\ Thr!WorkerStep(w) /\ UNCHANGED <<entry, polls, pvars>>)
  /\ \A k \in Tasks :
       /\ WF_vars(entry = "pool" /\ Pool!ReturnUsed(k) /\ UNCHANGED <<entry, tvars>>)
       /\ WF_vars(entry = "pool" /\ Pool!TimerFire(k) /\ UNCHANGED <<entry, tvars>>)
       /\ WF_vars(entry = "pool" /\ Pool!Run(k) /\ UNCHANGED <<entry, tvars>>)

Spec == Init /\ [][Next]_vars /\ Fairness

------------------------------------------------------------------------------
(* Properties: those of the two parts.                                     *)

TypeOK == entry \in {"thread", "pool"} /\ Thr!TypeOK /\ Pool!TypeOK

\* The asserts in run() and stop() hold.
NoAssertFailure == Thr!NoAssertFailure

\* Running workers are _pThread's, and between calls the terminate flag is
\* set exactly when no thread is attached.
FlagMatchesThread == Thr!FlagMatchesThread

\* setTask() never overwrites _task while a worker is executing it.
NoTaskRace == Thr!NoTaskRace

\* Every run() and stop() returns, for a task that returns by itself.
CallsReturnUnlessPolling == Thr!CallsReturnUnlessPolling

\* Every task handed to schedule(task, millis) runs once its timer fires.
TimedTasksRun == Pool!TimedTasksRun
==============================================================================
