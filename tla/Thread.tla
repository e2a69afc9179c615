-------------------------------- MODULE Thread --------------------------------
(***************************************************************************)
(* OSS::Thread (src/utl/Thread.cpp): a restartable worker thread guarded   *)
(* by two non-recursive mutexes, _threadMutex and _terminateFlagMutex, and *)
(* a terminate flag that the task reads through isTerminated().            *)
(*                                                                         *)
(* Callers are the application threads that call run() and stop() on one  *)
(* Thread object; each call is a sequence of steps, one per mutex it takes *)
(* (a step that takes a free mutex and does the work of the critical       *)
(* section is atomic, since every other access to that state takes the     *)
(* same mutex).  Each boost::thread the object creates is a worker, named  *)
(* by the number of run() calls that created it.  The task either returns  *)
(* on its own, or (polls) loops until isTerminated() returns true; the    *)
(* task is fixed by setTask before the first run(), so polls never changes.*)
(* An assert that fails is recorded in assertFailed and execution goes on, *)
(* as in a build with NDEBUG.                                              *)
(***************************************************************************)
EXTENDS Naturals, FiniteSets

CONSTANTS
  Callers,    \* the threads that call run() and stop()
  Ops,        \* the calls they make: a subset of {"run", "stop", "setTask"}
  MaxCalls,   \* how many calls each caller makes at most
  TaskKinds,  \* which tasks to check: TRUE polls isTerminated(), FALSE not
  Nobody      \* a model value: no thread holds the mutex

ASSUME Ops \subseteq {"run", "stop", "setTask"} /\ MaxCalls \in Nat /\ TaskKinds \subseteq BOOLEAN

\* Worker ids: the k-th run() creates worker k; 0 is the null _pThread.
Workers == 1..(MaxCalls * Cardinality(Callers))

VARIABLES
  pc,             \* where each caller is in its current call
  ret,            \* where stop() returns to: "idle", or back into run()
  calls,          \* how many calls each caller has made
  threadMutex,    \* owner of _threadMutex
  termMutex,      \* owner of _terminateFlagMutex
  terminateFlag,  \* _terminateFlag
  pThread,        \* _pThread: the worker it points to, or 0
  spawned,        \* how many boost::threads were created
  worker,         \* the state of each worker thread
  polls,          \* the task returns only when isTerminated() is true
  assertFailed,   \* some assert in run(), stop() or setTask() failed
  lastOp,         \* the last call each caller made
  taskRace        \* setTask() assigned _task while a worker was running it

vars == <<pc, ret, calls, threadMutex, termMutex, terminateFlag, pThread,
          spawned, worker, assertFailed, polls, lastOp, taskRace>>

Free(m) == m = Nobody

\* The first step of each call.
Entry == [run |-> "run_check", stop |-> "stop_lock", setTask |-> "settask_check"]

\* A call of run(), stop() or setTask() begins.  A caller keeps to
\* setTask's precondition, assert(isTerminated()), for its own calls: it
\* calls setTask() before its first run() or after its own stop().
Call(c) ==
  /\ pc[c] = "idle"
  /\ calls[c] < MaxCalls
  /\ \E op \in Ops :
       /\ op = "setTask" => lastOp[c] \in {"none", "stop", "setTask"}
       /\ pc' = [pc EXCEPT ![c] = Entry[op]]
       /\ ret' = [ret EXCEPT ![c] = "idle"]
       /\ lastOp' = [lastOp EXCEPT ![c] = op]
  /\ calls' = [calls EXCEPT ![c] = @ + 1]
  /\ UNCHANGED <<threadMutex, termMutex, terminateFlag, pThread, spawned,
                 worker, assertFailed, taskRace>>

\* setTask(): assert(isTerminated()), which locks _terminateFlagMutex
\* around the read of the flag.
SetTaskCheck(c) ==
  /\ pc[c] = "settask_check"
  /\ Free(termMutex)
  /\ assertFailed' = (assertFailed \/ ~terminateFlag)
  /\ pc' = [pc EXCEPT ![c] = "settask_write"]
  /\ UNCHANGED <<ret, calls, threadMutex, termMutex, terminateFlag, pThread,
                 spawned, worker, lastOp, taskRace>>

\* setTask(): _task = task, with no mutex held.  A worker that is running
\* is executing the boost::function being overwritten.  The new task is
\* of the same kind (polls is unchanged).
SetTaskWrite(c) ==
  /\ pc[c] = "settask_write"
  /\ taskRace' = (taskRace \/ \E w \in Workers : worker[w] = "running")
  /\ pc' = [pc EXCEPT ![c] = "idle"]
  /\ UNCHANGED <<ret, calls, threadMutex, termMutex, terminateFlag, pThread,
                 spawned, worker, assertFailed, lastOp>>

\* run(): if (!isTerminated()) stop();  isTerminated() locks
\* _terminateFlagMutex around the read of the flag.
RunCheck(c) ==
  /\ pc[c] = "run_check"
  /\ Free(termMutex)
  /\ IF terminateFlag
     THEN pc' = [pc EXCEPT ![c] = "run_lockT"] /\ UNCHANGED ret
     ELSE /\ pc' = [pc EXCEPT ![c] = "stop_lock"]
          /\ ret' = [ret EXCEPT ![c] = "run_lockT"]
  /\ UNCHANGED <<calls, threadMutex, termMutex, terminateFlag, pThread,
                 spawned, worker, assertFailed>>

\* run(): mutex_critic_sec_lock thread_lock(_threadMutex);
RunLockThread(c) ==
  /\ pc[c] = "run_lockT"
  /\ Free(threadMutex)
  /\ threadMutex' = c
  /\ pc' = [pc EXCEPT ![c] = "run_lockF"]
  /\ UNCHANGED <<ret, calls, termMutex, terminateFlag, pThread, spawned,
                 worker, assertFailed>>

\* Mutant: run() records the new thread under the wrong id.
RunStartOffByOne(c) ==
  /\ pc[c] = "run_lockF"
  /\ Free(termMutex)
  /\ assertFailed' = (assertFailed \/ pThread # 0)
  /\ terminateFlag' = FALSE
  /\ spawned' = spawned + 1
  /\ pThread' = spawned + 2
  /\ worker' = [worker EXCEPT ![spawned + 1] = "running"]
  /\ threadMutex' = Nobody
  /\ pc' = [pc EXCEPT ![c] = "idle"]
  /\ UNCHANGED <<ret, calls, termMutex>>

\* Mutant: run() returns without releasing _threadMutex.
RunStartKeepLock(c) ==
  /\ pc[c] = "run_lockF"
  /\ Free(termMutex)
  /\ assertFailed' = (assertFailed \/ pThread # 0)
  /\ terminateFlag' = FALSE
  /\ spawned' = spawned + 1
  /\ pThread' = spawned + 1
  /\ worker' = [worker EXCEPT ![spawned + 1] = "running"]
  /\ pc' = [pc EXCEPT ![c] = "idle"]
  /\ UNCHANGED <<ret, calls, threadMutex, termMutex>>

\* run(): lock _terminateFlagMutex, assert(!_pThread), clear the flag,
\* create the thread, and release both mutexes on return.
RunStart(c) ==
  /\ pc[c] = "run_lockF"
  /\ Free(termMutex)
  /\ assertFailed' = (assertFailed \/ pThread # 0)
  /\ terminateFlag' = FALSE
  /\ spawned' = spawned + 1
  /\ pThread' = spawned + 1
  /\ worker' = [worker EXCEPT ![spawned + 1] = "running"]
  /\ threadMutex' = Nobody
  /\ pc' = [pc EXCEPT ![c] = "idle"]
  /\ UNCHANGED <<ret, calls, termMutex>>

\* Mutant: stop() sets the flag and returns without waitForTermination().
StopCheckNoWait(c) ==
  /\ pc[c] = "stop_lock"
  /\ Free(termMutex)
  /\ IF terminateFlag
     THEN assertFailed' = (assertFailed \/ pThread # 0)
     ELSE UNCHANGED assertFailed
  /\ terminateFlag' = TRUE
  /\ pc' = [pc EXCEPT ![c] = ret[c]]
  /\ UNCHANGED <<ret, calls, threadMutex, termMutex, pThread, spawned, worker>>

\* stop(): under _terminateFlagMutex, an already set flag means the thread
\* is terminated (assert(!_pThread)) and stop() returns; otherwise it sets
\* the flag, releases the mutex and calls waitForTermination().
StopCheck(c) ==
  /\ pc[c] = "stop_lock"
  /\ Free(termMutex)
  /\ IF terminateFlag
     THEN /\ assertFailed' = (assertFailed \/ pThread # 0)
          /\ pc' = [pc EXCEPT ![c] = ret[c]]
          /\ UNCHANGED terminateFlag
     ELSE /\ terminateFlag' = TRUE
          /\ pc' = [pc EXCEPT ![c] = "wait_lockT"]
          /\ UNCHANGED assertFailed
  /\ UNCHANGED <<ret, calls, threadMutex, termMutex, pThread, spawned, worker>>

\* waitForTermination(): mutex_critic_sec_lock thread_lock(_threadMutex);
WaitLockThread(c) ==
  /\ pc[c] = "wait_lockT"
  /\ Free(threadMutex)
  /\ threadMutex' = c
  /\ pc' = [pc EXCEPT ![c] = "wait_lockF"]
  /\ UNCHANGED <<ret, calls, termMutex, terminateFlag, pThread, spawned,
                 worker, assertFailed>>

\* waitForTermination(): mutex_critic_sec_lock terminate_lock(...);
WaitLockFlag(c) ==
  /\ pc[c] = "wait_lockF"
  /\ Free(termMutex)
  /\ termMutex' = c
  /\ pc' = [pc EXCEPT ![c] = "wait_join"]
  /\ UNCHANGED <<ret, calls, threadMutex, terminateFlag, pThread, spawned,
                 worker, assertFailed>>

\* Mutant: waitForTermination() detaches instead of joining.
WaitJoinNoWait(c) ==
  /\ pc[c] = "wait_join"
  /\ pThread' = 0
  /\ terminateFlag' = TRUE
  /\ threadMutex' = Nobody
  /\ termMutex' = Nobody
  /\ pc' = [pc EXCEPT ![c] = ret[c]]
  /\ UNCHANGED <<ret, calls, spawned, worker, assertFailed>>

\* waitForTermination(): with both mutexes held, join the thread (blocks
\* until the worker has returned), delete it, null _pThread, set the flag
\* and release both mutexes on return.
WaitJoin(c) ==
  /\ pc[c] = "wait_join"
  /\ pThread = 0 \/ worker[pThread] = "done"
  /\ pThread' = 0
  /\ terminateFlag' = TRUE
  /\ threadMutex' = Nobody
  /\ termMutex' = Nobody
  /\ pc' = [pc EXCEPT ![c] = ret[c]]
  /\ UNCHANGED <<ret, calls, spawned, worker, assertFailed>>

\* The steps of run() and stop() leave lastOp and taskRace alone.
CallerStep(c) ==
  \/ SetTaskCheck(c) \/ SetTaskWrite(c)
  \/ /\ UNCHANGED <<lastOp, taskRace>>
     /\ \/ RunCheck(c) \/ RunLockThread(c) \/ RunStart(c)
        \/ StopCheck(c) \/ WaitLockThread(c) \/ WaitLockFlag(c) \/ WaitJoin(c)

\* Thread::main(): a task that does not poll returns on its own.
TaskReturn(w) ==
  /\ worker[w] = "running"
  /\ ~polls
  /\ worker' = [worker EXCEPT ![w] = "done"]
  /\ UNCHANGED <<pc, ret, calls, threadMutex, termMutex, terminateFlag,
                 pThread, spawned, assertFailed>>

\* Thread::main(): a polling task calls isTerminated(), which locks
\* _terminateFlagMutex, and returns when it reads true.  A poll that reads
\* false changes nothing and is left out.
TaskPoll(w) ==
  /\ worker[w] = "running"
  /\ polls
  /\ Free(termMutex)
  /\ terminateFlag
  /\ worker' = [worker EXCEPT ![w] = "done"]
  /\ UNCHANGED <<pc, ret, calls, threadMutex, termMutex, terminateFlag,
                 pThread, spawned, assertFailed>>

WorkerStep(w) == UNCHANGED <<lastOp, taskRace>> /\ (TaskReturn(w) \/ TaskPoll(w))

\* Thread::Thread(): no thread, _terminateFlag(true).
Init ==
  /\ pc = [c \in Callers |-> "idle"]
  /\ ret = [c \in Callers |-> "idle"]
  /\ calls = [c \in Callers |-> 0]
  /\ threadMutex = Nobody
  /\ termMutex = Nobody
  /\ terminateFlag = TRUE
  /\ pThread = 0
  /\ spawned = 0
  /\ worker = [w \in Workers |-> "none"]
  /\ assertFailed = FALSE
  /\ polls \in TaskKinds
  /\ lastOp = [c \in Callers |-> "none"]
  /\ taskRace = FALSE

Next ==
  /\ UNCHANGED polls
  /\ \/ \E c \in Callers : Call(c) \/ CallerStep(c)
     \/ \E w \in Workers : WorkerStep(w)

\* The OS schedules every runnable thread, and a mutex that stays free is
\* eventually taken by a thread waiting on it.  Whether a caller makes
\* another call is up to the application: Call has no fairness.
Fairness ==
  /\ \A c \in Callers : WF_vars(CallerStep(c) /\ UNCHANGED polls)
  /\ \A w \in Workers : WF_vars(WorkerStep(w) /\ UNCHANGED polls)

Spec == Init /\ [][Next]_vars /\ Fairness

------------------------------------------------------------------------------
(* Properties.                                                             *)

TypeOK ==
  /\ pc \in [Callers -> {"idle", "run_check", "run_lockT", "run_lockF",
                         "stop_lock", "wait_lockT", "wait_lockF", "wait_join",
                         "settask_check", "settask_write"}]
  /\ ret \in [Callers -> {"idle", "run_lockT"}]
  /\ threadMutex \in Callers \cup {Nobody}
  /\ termMutex \in Callers \cup {Nobody}
  /\ spawned \in 0..Cardinality(Workers)
  /\ pThread \in 0..spawned
  /\ worker \in [Workers -> {"none", "running", "done"}]
  /\ polls \in TaskKinds
  /\ lastOp \in [Callers -> Ops \cup {"none"}]
  /\ taskRace \in BOOLEAN

\* The asserts in run() and stop() hold: run() never finds a thread it did
\* not join, and stop() never finds the flag set while a thread is still
\* attached.
NoAssertFailure == ~assertFailed

\* Every running worker is the one _pThread points to (none is leaked by
\* a run() that overwrote _pThread), and between calls the terminate flag
\* is set exactly when no thread is attached, and then none is running:
\* once isTerminated() says so, the task has really ended.
Quiescent == \A c \in Callers : pc[c] = "idle"
FlagMatchesThread ==
  /\ \A w \in Workers : worker[w] = "running" => pThread = w
  /\ Quiescent => /\ terminateFlag <=> pThread = 0
                  /\ terminateFlag => \A w \in Workers : worker[w] # "running"

\* Every call of run() or stop() returns: stop() never waits forever on a
\* join, and run() never blocks on the mutexes its own stop() takes.
\* setTask() never overwrites _task while a worker thread is still
\* executing it: a caller that keeps to setTask's precondition (the thread
\* is terminated) can rely on the old thread having been joined, since
\* stop() sets the flag and then joins before it returns.
NoTaskRace == ~taskRace

CallsReturn == \A c \in Callers : pc[c] # "idle" ~> pc[c] = "idle"

\* The same for a task that returns by itself (the polling task's calls
\* are the deadlock CallsReturn finds).
CallsReturnUnlessPolling == ~polls => CallsReturn

==============================================================================
