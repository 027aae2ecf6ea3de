------------------------------ MODULE JobQueue ------------------------------
(***************************************************************************)
(* The job queue (core/impl/JobQueue.cpp) and its coroutines (Coro.ipp).   *)
(* Jobs have a type; no more jobs of a type run at once than its limit     *)
(* allows, and what is over the limit is deferred: no task is signalled to *)
(* the pool for it until one of its type ends.  A coroutine is run by the  *)
(* jobs that post makes for it and is suspended in between; the one user   *)
(* of yield is the legacy path request, which an updatePaths job resumes.  *)
(* m_mutex makes each block it guards one step.  The pool is taken at the  *)
(* word of its header: one call of processTask for each addTask.           *)
(***************************************************************************)
EXTENDS Integers, FiniteSets, FiniteSetsExt

CONSTANTS
    Type,        \* the job types, a set of numbers: the larger goes first
    Limit,       \* the limit of each type
    ClientType,  \* jtCLIENT: the type of the coroutines' jobs
    UpdateType,  \* jtUPDATE_PF
    Coro, Thread, NoThread,
    MaxJobs,     \* bound on the jobs made before no plain job is added
    MaxYields    \* bound on the path requests of a coroutine

(* Where a thread is: out of a job, in one, or, in an updatePaths job, at   *)
(* the request of a coroutine.                                             *)
Out == {"idle", "task"}
In == {"run", "lock", "body", "yield", "switch", "end"}

ASSUME JobQueueAssumption ==
    /\ Type \subseteq Nat /\ IsFiniteSet(Type)
    /\ IsFiniteSet(Thread)
    /\ Limit \in [Type -> Nat \ {0}]
    /\ {ClientType, UpdateType} \subseteq Type
    /\ NoThread \notin Thread
    /\ (Out \cup In \cup {"plain", "update"}) \cap Coro = {}
    /\ MaxJobs \in Nat /\ MaxYields \in Nat

VARIABLES
    m_jobSet,
    m_lastJob,
    data,            \* waiting, running and deferred, by type
    m_processCount,
    nSuspend_,
    tasks,           \* calls of processTask the pool owes
    thread,          \* where each thread of the pool is, and its job
    coro,            \* the coroutines
    stop,            \* the Stoppable's state
    rendezvous       \* the caller of rendezvous: "out", "asleep" or "woken"

queue == <<m_jobSet, m_lastJob, data, tasks>>
vars == <<queue, m_processCount, nSuspend_, thread, coro, stop, rendezvous>>

Job == [type : Type, index : Nat, work : {"plain", "update"} \cup Coro]
NoJob == [type |-> 0, index |-> 0, work |-> "none"]

At(l) == {w \in Thread : thread[w].at = l}
Goto(w, l) == thread' = [thread EXCEPT ![w].at = l]
Works(w, l, S) == thread[w].at = l /\ thread[w].job.work \in S

(* Path requests that wait for updateAll, and whether that is to do them.  *)
Armed == {c \in Coro : coro[c].armed}

Init ==
    /\ m_jobSet = {} /\ m_lastJob = 0
    /\ data = [t \in Type |-> [waiting |-> 0, running |-> 0, deferred |-> 0]]
    /\ m_processCount = 0 /\ nSuspend_ = 0 /\ tasks = 0
    /\ thread = [w \in Thread |-> [at |-> "idle", job |-> NoJob]]
    /\ coro = [c \in Coro |-> [at |-> "none", armed |-> FALSE, running_ |-> FALSE,
                               holder |-> NoThread, yields |-> 0]]
    /\ stop = [stopping |-> FALSE, m_childrenStopped |-> FALSE, told |-> FALSE,
               m_stoppedEvent |-> FALSE, m_stopped |-> FALSE]
    /\ rendezvous = "out"
-----------------------------------------------------------------------------
(* Adding jobs. *)

(* Fault: waiting jobs are not counted against the limit. *)
queueJobRunning(t) ==
    LET now == data[t].running < Limit[t]
    IN  /\ tasks' = IF now THEN tasks + 1 ELSE tasks
        /\ data' = [data EXCEPT
                      ![t].deferred = IF now THEN @ ELSE @ + 1,
                      ![t].waiting = @ + 1]

queueJob(t) ==
    LET d == data[t]
        now == d.waiting + d.running < Limit[t]
    IN  /\ tasks' = IF now THEN tasks + 1 ELSE tasks
        /\ data' = [data EXCEPT ![t] =
                      [waiting |-> d.waiting + 1, running |-> d.running,
                       deferred |-> IF now THEN d.deferred ELSE d.deferred + 1]]

addJob(t, work) ==
    /\ m_lastJob' = m_lastJob + 1
    /\ m_jobSet' = m_jobSet \cup {[type |-> t, index |-> m_lastJob + 1, work |-> work]}
    /\ queueJob(t)

(* A child of the queue adds a job. *)
AddJob(t) ==
    /\ ~stop.m_childrenStopped /\ m_lastJob < MaxJobs
    /\ addJob(t, "plain")
    /\ UNCHANGED <<m_processCount, nSuspend_, thread, coro, stop, rendezvous>>

(* updatePaths counts itself out as it returns, before its job ends.       *)
mPathFindThread ==
    Cardinality({j \in m_jobSet : j.work = "update"})
    + Cardinality({w \in Thread : thread[w].job.work = "update" /\ thread[w].at # "end"})

(* An updatePaths that finds itself cancelled is never counted out, so     *)
(* that once the queue stops the limit may be reached by jobs gone by.     *)
newPFWork ==
    \/ mPathFindThread < 2 /\ addJob(UpdateType, "update")
    \/ (mPathFindThread >= 2 \/ stop.stopping) /\ UNCHANGED queue

(* A ledger is validated: the path requests are to be looked at again.     *)
NewLedger ==
    /\ ~stop.m_childrenStopped /\ m_lastJob < MaxJobs
    /\ newPFWork
    /\ UNCHANGED <<m_processCount, nSuspend_, thread, coro, stop, rendezvous>>

(* postCoro: the coroutine is made, runs as far as its first yield, and is *)
(* posted.                                                                 *)
PostCoro(c) ==
    /\ ~stop.m_childrenStopped /\ coro[c].at = "none"
    /\ nSuspend_' = nSuspend_ + 1
    /\ coro' = [coro EXCEPT ![c].at = "created"]
    /\ UNCHANGED <<queue, m_processCount, thread, stop, rendezvous>>

post(c) == addJob(ClientType, c)

PostCreated(c) ==
    /\ coro[c].at = "created"
    /\ post(c)
    /\ coro' = [coro EXCEPT ![c] = [@ EXCEPT !.at = "suspended", !.running_ = TRUE]]
    /\ UNCHANGED <<m_processCount, nSuspend_, thread, stop, rendezvous>>
-----------------------------------------------------------------------------
(* processTask. *)

(* The pool calls processTask on an idle thread. *)
TaskStarts(w) ==
    /\ thread[w].at = "idle" /\ tasks > 0
    /\ tasks' = tasks - 1
    /\ Goto(w, "task")
    /\ UNCHANGED <<m_jobSet, m_lastJob, data, m_processCount, nSuspend_, coro,
                   stop, rendezvous>>

(* Job::operator<. *)
Before(a, b) == a.type > b.type \/ (a.type = b.type /\ a.index < b.index)

(* Fault: a job at its limit is taken. *)
RunnableAll == m_jobSet

Runnable == {j \in m_jobSet : data[j.type].running < Limit[j.type]}

GetNextJob(w) ==
    /\ thread[w].at = "task"
    /\ \E j \in Runnable :
          /\ \A k \in Runnable \ {j} : Before(j, k)
          /\ m_jobSet' = m_jobSet \ {j}
          /\ data' = [data EXCEPT ![j.type] =
                        [waiting |-> @.waiting - 1, running |-> @.running + 1,
                         deferred |-> @.deferred]]
          /\ thread' = [thread EXCEPT ![w] = [at |-> "run", job |-> j]]
    /\ m_processCount' = m_processCount + 1
    /\ UNCHANGED <<m_lastJob, tasks, nSuspend_, coro, stop, rendezvous>>

(* Fault: no task is signalled for the job that is no longer deferred. *)
finishJobSilent(t) ==
    /\ tasks' = tasks
    /\ data' = [data EXCEPT ![t].deferred = IF @ > 0 THEN @ - 1 ELSE 0,
                            ![t].running = @ - 1]

finishJob(t) ==
    LET d == data[t]
        late == d.deferred > 0
    IN  /\ tasks' = IF late THEN tasks + 1 ELSE tasks
        /\ data' = [data EXCEPT ![t] =
                      [waiting |-> d.waiting, running |-> d.running - 1,
                       deferred |-> IF late THEN d.deferred - 1 ELSE 0]]

(* The stop condition of checkStopped. *)
checkStopped(processCount) ==
    /\ stop.stopping /\ stop.m_childrenStopped
    /\ processCount = 0 /\ m_jobSet = {} /\ nSuspend_ = 0

(* Fault: the count is tested before it goes down. *)
notifyRendezvousEarly(processCount) ==
    rendezvous' = IF processCount + 1 = 0 /\ m_jobSet = {} /\ rendezvous = "asleep"
                  THEN "woken" ELSE rendezvous

(* cv_.notify_all. *)
notifyRendezvous(processCount) ==
    rendezvous' = IF processCount = 0 /\ m_jobSet = {} /\ rendezvous = "asleep"
                  THEN "woken" ELSE rendezvous

FinishJob(w) ==
    /\ thread[w].at = "end"
    /\ finishJob(thread[w].job.type)
    /\ m_processCount' = m_processCount - 1
    /\ notifyRendezvous(m_processCount - 1)
    /\ stop' = [stop EXCEPT !.m_stoppedEvent = @ \/ checkStopped(m_processCount - 1)]
    /\ thread' = [thread EXCEPT ![w] = [at |-> "idle", job |-> NoJob]]
    /\ UNCHANGED <<m_jobSet, m_lastJob, nSuspend_, coro>>
-----------------------------------------------------------------------------
(* What jobs do.  A plain job may add others and returns. *)

Spawn(w, t) ==
    /\ Works(w, "run", {"plain"}) /\ m_lastJob < MaxJobs
    /\ addJob(t, "plain")
    /\ UNCHANGED <<m_processCount, nSuspend_, thread, coro, stop, rendezvous>>

Return(w) ==
    /\ Works(w, "run", {"plain"})
    /\ Goto(w, "end")
    /\ UNCHANGED <<queue, m_processCount, nSuspend_, coro, stop, rendezvous>>

(* updateAll takes the next request unless the server stops, and completes *)
(* it: fCompletion posts its coroutine.                                    *)
TakeRequest(w, c) ==
    /\ Works(w, "run", {"update"})
    /\ ~stop.stopping /\ c \in Armed
    /\ coro' = [coro EXCEPT ![c].armed = FALSE]
    /\ thread' = [thread EXCEPT ![w].at = c]
    /\ UNCHANGED <<queue, m_processCount, nSuspend_, stop, rendezvous>>

CompleteRequest(w, c) ==
    /\ thread[w].at = c
    /\ post(c)
    /\ coro' = [coro EXCEPT ![c].running_ = TRUE]
    /\ Goto(w, "run")
    /\ UNCHANGED <<m_processCount, nSuspend_, stop, rendezvous>>

(* The job ends: no request is left, the server stops, or the ledger at    *)
(* hand is too old to look for paths in.                                   *)
UpdateDone(w) ==
    /\ Works(w, "run", {"update"})
    /\ Goto(w, "end")
    /\ UNCHANGED <<queue, m_processCount, nSuspend_, coro, stop, rendezvous>>

(* Fault: the coroutine stays counted as suspended. *)
ResumeUncounted(w) ==
    /\ Works(w, "run", Coro)
    /\ Goto(w, "lock")
    /\ UNCHANGED <<queue, m_processCount, nSuspend_, coro, stop, rendezvous>>

(* The job of a post: it counts the coroutine as resumed ... *)
Resume(w) ==
    /\ Works(w, "run", Coro)
    /\ nSuspend_' = nSuspend_ - 1
    /\ Goto(w, "lock")
    /\ UNCHANGED <<queue, m_processCount, coro, stop, rendezvous>>

(* Fault: mutex_ is not locked. *)
EnterUnlocked(w) ==
    LET c == thread[w].job.work
    IN  /\ thread[w].at = "lock"
        /\ coro' = [coro EXCEPT ![c].holder = w, ![c].at = "running"]
        /\ Goto(w, "body")
        /\ UNCHANGED <<queue, m_processCount, nSuspend_, stop, rendezvous>>

(* ... and enters it when it has its mutex_. *)
Enter(w) ==
    LET c == thread[w].job.work
    IN  /\ thread[w].at = "lock" /\ coro[c].holder = NoThread
        /\ coro' = [coro EXCEPT ![c] = [@ EXCEPT !.holder = w, !.at = "running"]]
        /\ Goto(w, "body")
        /\ UNCHANGED <<queue, m_processCount, nSuspend_, stop, rendezvous>>

(* The coroutine makes a legacy path request.                              *)
PathFind(w) ==
    LET c == thread[w].job.work
    IN  /\ thread[w].at = "body" /\ coro[c].yields < MaxYields
        /\ coro' = [coro EXCEPT ![c] =
                      [@ EXCEPT !.armed = TRUE, !.yields = coro[c].yields + 1]]
        /\ newPFWork
        /\ Goto(w, "yield")
        /\ UNCHANGED <<m_processCount, nSuspend_, stop, rendezvous>>

(* yield: the coroutine is counted as suspended, and then its stack left.  *)
Yield(w) ==
    /\ thread[w].at = "yield"
    /\ nSuspend_' = nSuspend_ + 1
    /\ Goto(w, "switch")
    /\ UNCHANGED <<queue, m_processCount, coro, stop, rendezvous>>

(* The job of post after coro_() returned. *)
Leave(w, at) ==
    /\ coro' = [coro EXCEPT ![thread[w].job.work] =
                  [@ EXCEPT !.at = at, !.running_ = FALSE, !.holder = NoThread]]
    /\ Goto(w, "end")
    /\ UNCHANGED <<queue, m_processCount, nSuspend_, stop, rendezvous>>

Suspend(w) == thread[w].at = "switch" /\ Leave(w, "suspended")

CoroReturns(w) == thread[w].at = "body" /\ Leave(w, "done")
-----------------------------------------------------------------------------
(* Stopping, and rendezvous. *)

Stopping ==
    /\ ~stop.stopping
    /\ stop' = [stop EXCEPT !.stopping = TRUE]
    /\ UNCHANGED <<queue, m_processCount, nSuspend_, thread, coro, rendezvous>>

(* stopRecursive returns from the children, none of which is in postCoro.  *)
ChildrenStopped ==
    /\ stop.stopping /\ ~stop.m_childrenStopped
    /\ \A c \in Coro : coro[c].at # "created"
    /\ stop' = [stop EXCEPT !.m_childrenStopped = TRUE]
    /\ UNCHANGED <<queue, m_processCount, nSuspend_, thread, coro, rendezvous>>

OnChildrenStopped ==
    /\ stop.m_childrenStopped /\ ~stop.told
    /\ stop' = [stop EXCEPT !.told = TRUE,
                            !.m_stoppedEvent = @ \/ checkStopped(m_processCount)]
    /\ UNCHANGED <<queue, m_processCount, nSuspend_, thread, coro, rendezvous>>

Stopped ==
    /\ stop.told /\ stop.m_stoppedEvent /\ ~stop.m_stopped
    /\ stop' = [stop EXCEPT !.m_stopped = TRUE]
    /\ UNCHANGED <<queue, m_processCount, nSuspend_, thread, coro, rendezvous>>

Rendezvous ==
    /\ rendezvous \in {"out", "woken"}
    /\ rendezvous' = IF m_processCount = 0 /\ m_jobSet = {} THEN "out" ELSE "asleep"
    /\ UNCHANGED <<queue, m_processCount, nSuspend_, thread, coro, stop>>

(* No thread of the pool has anything to do, and none will get anything.   *)
AtRest ==
    /\ stop.told /\ tasks = 0 /\ At("idle") = Thread
    /\ UNCHANGED vars
-----------------------------------------------------------------------------
ThreadStep(w) ==
    \/ TaskStarts(w) \/ GetNextJob(w) \/ FinishJob(w) \/ Return(w)
    \/ \E c \in Coro : TakeRequest(w, c) \/ CompleteRequest(w, c)
    \/ UpdateDone(w) \/ Resume(w) \/ Enter(w) \/ Yield(w) \/ Suspend(w)
    \/ CoroReturns(w)

StopStep == ChildrenStopped \/ OnChildrenStopped \/ Stopped

Next ==
    \/ \E t \in Type : AddJob(t)
    \/ NewLedger
    \/ \E c \in Coro : PostCoro(c) \/ PostCreated(c)
    \/ \E w \in Thread : ThreadStep(w) \/ PathFind(w) \/ \E t \in Type : Spawn(w, t)
    \/ Stopping \/ StopStep
    \/ Rendezvous
    \/ AtRest

(* A thread that can go on does, whoever made a coroutine posts it, and    *)
(* the thread in stop goes on.                                             *)
Fairness ==
    /\ \A w \in Thread : WF_vars(ThreadStep(w))
    /\ \A c \in Coro : WF_vars(PostCreated(c))
    /\ WF_vars(StopStep)

Spec == Init /\ [][Next]_vars /\ Fairness
-----------------------------------------------------------------------------
Busy == {w \in Thread : thread[w].at \notin Out}

Waiting(t) == {j \in m_jobSet : j.type = t}
Running(t) == {w \in Busy : thread[w].job.type = t}

(* The counters of a type count the jobs of the set and those on threads,  *)
(* and no more run than the limit of the type allows.                      *)
LimitsKept ==
    \A t \in Type :
        /\ data[t].waiting = Cardinality(Waiting(t))
        /\ data[t].running = Cardinality(Running(t))
        /\ data[t].running <= Limit[t]

(* A job is deferred only while its type has as many jobs running or       *)
(* signalled as its limit allows (the assert of finishJob), and no more    *)
(* are deferred than wait.                                                 *)
DeferredAtLimit ==
    \A t \in Type :
        /\ data[t].deferred <= data[t].waiting
        /\ data[t].waiting - data[t].deferred + data[t].running <= Limit[t]
        /\ data[t].deferred > 0 =>
              data[t].waiting - data[t].deferred + data[t].running = Limit[t]

(* getNextJob's precondition: for every call of processTask that is owed   *)
(* or has yet to take its job, there is a job that may run when its turn   *)
(* comes, whatever the others take.                                        *)
RunnableForEveryTask ==
    tasks + Cardinality(At("task")) <=
        SumFunction([t \in Type |-> Min({data[t].waiting,
                                         Limit[t] - data[t].running})])

(* A caller of rendezvous does not sleep through the moment the queue has  *)
(* nothing to run.                                                         *)
RendezvousIsWoken ==
    rendezvous = "asleep" => m_processCount > 0 \/ m_jobSet # {}

(* "The lock prevents this": no coroutine is in two threads, although its  *)
(* post may overtake its yield, and one that is suspended is in none.      *)
OneThreadPerCoroutine ==
    \A c \in Coro :
        LET in == {w \in Thread : thread[w].job.work = c
                                   /\ thread[w].at \in {"body", "yield", "switch"}}
        IN  Cardinality(in) = IF coro[c].at = "running" THEN 1 ELSE 0

(* "A job posted will always run to completion." *)
EveryJobRuns ==
    \A i \in 1 .. MaxJobs + 2 * MaxYields * Cardinality(Coro) + Cardinality(Coro) :
        (\E j \in m_jobSet : j.index = i) ~> (\A j \in m_jobSet : j.index # i)

(* Once the children have stopped the queue stops, unless a coroutine      *)
(* waits for a path request that nobody will complete.                     *)
StopCompletes == stop.m_childrenStopped ~> (stop.m_stopped \/ Armed # {})
-----------------------------------------------------------------------------
(* What the header says and the code does not keep. *)

(* "Coroutines that are suspended must be resumed, and run to completion": *)
(* a stop ends.  updateAll leaves its requests when the server stops.      *)
StopEnds == stop.stopping ~> stop.m_stopped

(* Coro::join: "Waits until coroutine returns from the user function": its *)
(* condition, running_ is false, means the coroutine is done.              *)
JoinMeansReturned ==
    \A c \in Coro :
        coro[c].at \in {"suspended", "running", "done"} /\ ~coro[c].running_ =>
            coro[c].at = "done"
=============================================================================
