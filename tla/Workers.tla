------------------------------ MODULE Workers -------------------------------
(***************************************************************************)
(* The thread pool under the job queue (core/impl/Workers.cpp).  Tasks and *)
(* requests to pause share one semaphore: a worker that gets a unit of it  *)
(* looks at m_pauseCount to find out which of the two it got.  Every       *)
(* access to a shared counter is a step of its own.  One controlling       *)
(* thread resizes the pool (setNumberOfThreads is not thread-safe), any    *)
(* thread adds tasks.                                                      *)
(***************************************************************************)
EXTENDS Integers, Sequences, FiniteSets

CONSTANTS
    Worker,      \* the threads that may be created
    Sizes,       \* the sizes the controller may ask for
    MaxTasks,    \* bound on the calls of addTask
    MaxResizes   \* bound on the resizes

ASSUME WorkersAssumption ==
    /\ IsFiniteSet(Worker)
    /\ Sizes \subseteq 0 .. Cardinality(Worker)
    /\ MaxTasks \in Nat /\ MaxResizes \in Nat

VARIABLES
    pc,                 \* where each worker is in run()
    wakeCount,          \* wakeCount_ of each worker
    m_semaphore,
    m_pauseCount,
    m_activeCount,
    m_runningTaskCount,
    m_allPaused,        \* the event is signalled
    m_paused,           \* the stack of paused workers
    m_numberOfThreads,
    control,            \* the controlling thread: what it does, how many are left
    resizes,            \* resizes so far
    added,              \* calls of addTask so far
    started             \* calls of processTask so far

counters == <<m_pauseCount, m_activeCount, m_runningTaskCount>>
calls == <<added, started>>
controller == <<m_numberOfThreads, control, resizes>>
poolVars == <<pc, wakeCount, m_semaphore, counters, m_allPaused, m_paused,
          controller, calls>>

Idle == [at |-> "idle", left |-> 0, size |-> 0, all |-> FALSE]

WorkersAt(S) == {w \in Worker : pc[w] \in S}

WorkerGoto(w, l) == pc' = [pc EXCEPT ![w] = l]

PoolInit ==
    /\ pc = [w \in Worker |-> "none"]
    /\ wakeCount = [w \in Worker |-> 0]
    /\ m_semaphore = 0
    /\ m_pauseCount = 0 /\ m_activeCount = 0 /\ m_runningTaskCount = 0
    /\ m_allPaused = TRUE
    /\ m_paused = <<>>
    /\ m_numberOfThreads = 0
    /\ control = Idle
    /\ resizes = 0
    /\ added = 0 /\ started = 0
-----------------------------------------------------------------------------
(* The controlling thread and the producers of tasks. *)

AddTask ==
    /\ added < MaxTasks
    /\ added' = added + 1
    /\ m_semaphore' = m_semaphore + 1
    /\ UNCHANGED <<pc, wakeCount, counters, m_allPaused, m_paused, controller,
                   started>>

(* setNumberOfThreads(size); with all set, pauseAllThreadsAndWait. *)
SetNumberOfThreads(size, all) ==
    /\ control = Idle
    /\ resizes < MaxResizes
    /\ resizes' = resizes + 1
    /\ control' =
          [at |-> IF size > m_numberOfThreads THEN "raise"
                  ELSE IF size < m_numberOfThreads THEN "lower" ELSE "set",
           left |-> IF size > m_numberOfThreads THEN size - m_numberOfThreads
                    ELSE m_numberOfThreads - size,
           size |-> size, all |-> all]
    /\ UNCHANGED <<pc, wakeCount, m_semaphore, counters, m_allPaused, m_paused,
                   m_numberOfThreads, calls>>

(* One more pass of a loop of setNumberOfThreads is done. *)
Counted(next) ==
    control' = [control EXCEPT
                  !.left = @ - 1, !.at = IF control.left = 1 THEN "set" ELSE next]

(* A paused worker is reused ... *)
Reuse ==
    /\ control.at = "raise" /\ m_paused # <<>>
    /\ wakeCount' = [wakeCount EXCEPT ![Head(m_paused)] = @ + 1]
    /\ m_paused' = Tail(m_paused)
    /\ Counted("raise")
    /\ UNCHANGED <<pc, m_semaphore, counters, m_allPaused, m_numberOfThreads,
                   resizes, calls>>

(* ... or a new one is made. *)
Create(w) ==
    /\ control.at = "raise" /\ m_paused = <<>>
    /\ pc[w] = "none"
    /\ WorkerGoto(w, "begin")
    /\ Counted("raise")
    /\ UNCHANGED <<wakeCount, m_semaphore, counters, m_allPaused, m_paused,
                   m_numberOfThreads, resizes, calls>>

(* A request to pause is counted, and then announced as a task would be. *)
RequestPause ==
    /\ control.at = "lower"
    /\ m_pauseCount' = m_pauseCount + 1
    /\ control' = [control EXCEPT !.at = "notify"]
    /\ UNCHANGED <<pc, wakeCount, m_semaphore, m_activeCount, m_runningTaskCount,
                   m_allPaused, m_paused, m_numberOfThreads, resizes, calls>>

NotifyPause ==
    /\ control.at = "notify"
    /\ m_semaphore' = m_semaphore + 1
    /\ Counted("lower")
    /\ UNCHANGED <<pc, wakeCount, counters, m_allPaused, m_paused,
                   m_numberOfThreads, resizes, calls>>

SetDone ==
    /\ control.at = "set"
    /\ m_numberOfThreads' = control.size
    /\ control' = IF control.all THEN [control EXCEPT !.at = "wait"] ELSE Idle
    /\ UNCHANGED <<pc, wakeCount, m_semaphore, counters, m_allPaused, m_paused,
                   resizes, calls>>

(* pauseAllThreadsAndWait returns. *)
AllPaused ==
    /\ control.at = "wait" /\ m_allPaused
    /\ control' = Idle
    /\ UNCHANGED <<pc, wakeCount, m_semaphore, counters, m_allPaused, m_paused,
                   m_numberOfThreads, resizes, calls>>

(* The bounds are reached: nothing is left to do, or no thread to create.  *)
AtBound ==
    /\ \/ control = Idle /\ resizes = MaxResizes /\ added = MaxTasks
       \/ control.at = "raise" /\ m_paused = <<>> /\ WorkersAt({"none"}) = {}
    /\ UNCHANGED poolVars
-----------------------------------------------------------------------------
(* Worker::run. *)

Begin(w) ==
    /\ pc[w] = "begin"
    /\ m_activeCount' = m_activeCount + 1
    /\ WorkerGoto(w, IF m_activeCount = 0 THEN "reset" ELSE "wait")
    /\ UNCHANGED <<wakeCount, m_semaphore, m_pauseCount, m_runningTaskCount,
                   m_allPaused, m_paused, controller, calls>>

Reset(w) ==
    /\ pc[w] = "reset"
    /\ m_allPaused' = FALSE
    /\ WorkerGoto(w, "wait")
    /\ UNCHANGED <<wakeCount, m_semaphore, counters, m_paused, controller, calls>>

Acquire(w) ==
    /\ pc[w] = "wait" /\ m_semaphore > 0
    /\ m_semaphore' = m_semaphore - 1
    /\ WorkerGoto(w, "load")
    /\ UNCHANGED <<wakeCount, counters, m_allPaused, m_paused, controller, calls>>

Load(w) ==
    /\ pc[w] = "load"
    /\ WorkerGoto(w, IF m_pauseCount > 0 THEN "decrement" ELSE "task")
    /\ UNCHANGED <<wakeCount, m_semaphore, counters, m_allPaused, m_paused,
                   controller, calls>>

(* Fault: off by one, a worker that finds no request left pauses too. *)
DecrementEager(w) ==
    /\ pc[w] = "decrement"
    /\ m_pauseCount' = m_pauseCount - 1
    /\ WorkerGoto(w, IF m_pauseCount >= 0 THEN "push" ELSE "undo")
    /\ UNCHANGED <<wakeCount, m_semaphore, m_activeCount, m_runningTaskCount,
                   m_allPaused, m_paused, controller, calls>>

Decrement(w) ==
    /\ pc[w] = "decrement"
    /\ m_pauseCount' = m_pauseCount - 1
    /\ WorkerGoto(w, IF m_pauseCount > 0 THEN "push" ELSE "undo")
    /\ UNCHANGED <<wakeCount, m_semaphore, m_activeCount, m_runningTaskCount,
                   m_allPaused, m_paused, controller, calls>>

(* Fault: the decrement is not taken back. *)
UndoForgotten(w) ==
    /\ pc[w] = "undo"
    /\ WorkerGoto(w, "task")
    /\ UNCHANGED <<wakeCount, m_semaphore, counters, m_allPaused, m_paused,
                   controller, calls>>

Undo(w) ==
    /\ pc[w] = "undo"
    /\ m_pauseCount' = m_pauseCount + 1
    /\ WorkerGoto(w, "task")
    /\ UNCHANGED <<wakeCount, m_semaphore, m_activeCount, m_runningTaskCount,
                   m_allPaused, m_paused, controller, calls>>

ProcessTask(w) ==
    /\ pc[w] = "task"
    /\ m_runningTaskCount' = m_runningTaskCount + 1
    /\ started' = started + 1
    /\ WorkerGoto(w, "running")
    /\ UNCHANGED <<wakeCount, m_semaphore, m_pauseCount, m_activeCount,
                   m_allPaused, m_paused, controller, added>>

TaskDone(w) ==
    /\ pc[w] = "running"
    /\ m_runningTaskCount' = m_runningTaskCount - 1
    /\ WorkerGoto(w, "wait")
    /\ UNCHANGED <<wakeCount, m_semaphore, m_pauseCount, m_activeCount,
                   m_allPaused, m_paused, controller, calls>>

Push(w) ==
    /\ pc[w] = "push"
    /\ m_paused' = <<w>> \o m_paused
    /\ WorkerGoto(w, "leave")
    /\ UNCHANGED <<wakeCount, m_semaphore, counters, m_allPaused, controller, calls>>

Deactivate(w) ==
    /\ pc[w] = "leave"
    /\ m_activeCount' = m_activeCount - 1
    /\ WorkerGoto(w, IF m_activeCount = 1 THEN "signal" ELSE "parked")
    /\ UNCHANGED <<wakeCount, m_semaphore, m_pauseCount, m_runningTaskCount,
                   m_allPaused, m_paused, controller, calls>>

Signal(w) ==
    /\ pc[w] = "signal"
    /\ m_allPaused' = TRUE
    /\ WorkerGoto(w, "parked")
    /\ UNCHANGED <<wakeCount, m_semaphore, counters, m_paused, controller, calls>>

Wake(w) ==
    /\ pc[w] = "parked" /\ wakeCount[w] > 0
    /\ wakeCount' = [wakeCount EXCEPT ![w] = @ - 1]
    /\ WorkerGoto(w, "begin")
    /\ UNCHANGED <<m_semaphore, counters, m_allPaused, m_paused, controller, calls>>

Run(w) ==
    \/ Begin(w) \/ Reset(w) \/ Acquire(w) \/ Load(w) \/ Decrement(w)
    \/ Undo(w) \/ ProcessTask(w) \/ TaskDone(w) \/ Push(w) \/ Deactivate(w)
    \/ Signal(w) \/ Wake(w)

Control ==
    \/ Reuse \/ (\E w \in Worker : Create(w))
    \/ RequestPause \/ NotifyPause \/ SetDone \/ AllPaused

PoolNext ==
    \/ AddTask
    \/ \E size \in Sizes : SetNumberOfThreads(size, FALSE)
    \/ SetNumberOfThreads(0, TRUE)
    \/ Control
    \/ \E w \in Worker : Run(w)
    \/ AtBound

(* Threads that can run do; a task returns. *)
PoolFairness == WF_poolVars(Control) /\ \A w \in Worker : WF_poolVars(Run(w))

PoolSpec == PoolInit /\ [][PoolNext]_poolVars /\ PoolFairness
-----------------------------------------------------------------------------
Active == {"reset", "wait", "load", "decrement", "undo", "task", "running",
           "push", "leave"}

(* addTask and run keep the books: what has been asked for and not been    *)
(* started is the semaphore and what workers have taken from it, less the  *)
(* units that stand for requests to pause.                                 *)
NoTaskIsLost ==
    added - started =
        m_semaphore + Cardinality(WorkersAt({"load", "decrement", "undo", "task"}))
        + (IF control.at = "notify" THEN 1 ELSE 0)
        - (m_pauseCount + Cardinality(WorkersAt({"undo"})))

(* Between resizes, the workers that are up, less those asked to pause,    *)
(* are as many as setNumberOfThreads was asked for.                        *)
AsManyAsAskedFor ==
    control.at \in {"idle", "wait"} =>
        m_numberOfThreads =
            Cardinality({w \in Worker :
                \/ pc[w] \in (Active \cup {"begin"}) \ {"push", "leave"}
                \/ pc[w] \in {"push", "leave", "signal", "parked"}
                      /\ wakeCount[w] > 0})
            - (m_pauseCount + Cardinality(WorkersAt({"undo"})))

(* addTask: "Every call to addTask will eventually result in a call to     *)
(* Callback::processTask unless ... the number of threads is never set     *)
(* above zero."                                                            *)
EveryTaskRuns ==
    (added > started /\ m_numberOfThreads > 0) ~>
        (added <= started \/ m_numberOfThreads = 0)

-----------------------------------------------------------------------------
(* What the header says, and the races of a shrinking pool break. *)

(* Callback: "Each call to addTask will result in exactly one call to      *)
(* processTask": never more calls than tasks.                              *)
OneCallPerTask == started <= added

(* pauseAllThreadsAndWait: "Pause all threads and wait until they are      *)
(* paused."  It returns with every thread at its event.                    *)
WaitsUntilPaused ==
    [][(control.at = "wait" /\ control'.at = "idle") =>
          WorkersAt(Active \cup {"begin"}) = {}]_poolVars

(* The wait of pauseAllThreadsAndWait ends.                                *)
PauseReturns == control.at = "wait" ~> control.at = "idle"
=============================================================================
