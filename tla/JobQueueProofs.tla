--------------------------- MODULE JobQueueProofs ---------------------------
(***************************************************************************)
(* The limits of the job queue hold for any job types and limits, any      *)
(* number of threads and coroutines, and without the bounds on the jobs.   *)
(* The pool of worker threads under it neither loses a task nor has more   *)
(* or fewer threads than it was asked for, for any number of workers,      *)
(* tasks and settings (Workers).                                           *)
(***************************************************************************)
EXTENDS JobQueue, Workers, FiniteSetTheorems, TLAPS

(* The prover of the leaves that name none. *)
USE SMTT(30)

DataType == [waiting : Nat, running : Nat, deferred : Nat]
Inside == In \cup Coro

(* The jobs of the set: no index is used twice. *)
JobsOK ==
    /\ m_jobSet \subseteq Job /\ IsFiniteSet(m_jobSet)
    /\ m_lastJob \in Nat
    /\ \A j \in m_jobSet : j.index <= m_lastJob

(* The threads: one inside a job has one. *)
ThreadsOK ==
    /\ thread \in [Thread -> [at : Out \cup Inside, job : Job \cup {NoJob}]]
    /\ \A w \in Busy : thread[w].job \in Job

(* The inductive invariant of the counters. *)
Counters ==
    /\ data \in [Type -> DataType]
    /\ JobsOK /\ ThreadsOK
    /\ LimitsKept /\ DeferredAtLimit

ThreadsKept ==
    /\ ThreadsOK'
    /\ \A t \in Type : Running(t)' = Running(t)
-----------------------------------------------------------------------------
(* Sums over the job types. *)

(* Induction over the subsets of a finite set: Q is the set of those that   *)
(* have the property.                                                       *)
LEMMA SubsetInduction ==
  ASSUME NEW S, IsFiniteSet(S), NEW Q,
         \A T \in SUBSET S : (\A U \in SUBSET T : U # T => U \in Q) => T \in Q
  PROVE  \A T \in SUBSET S : T \in Q
  <1> DEFINE Bad == (SUBSET S) \ Q
  <1> SUFFICES ASSUME Bad # {} PROVE FALSE
    OBVIOUS
  <1>1. IsWellFoundedOn(StrictSubsetOrdering(S), SUBSET S)
    <2>1. IsWellFoundedOn(StrictSubsetOrdering(S), FiniteSubsetsOf(S))
      BY FS_StrictSubsetOrderingWellFounded, Zenon
    <2>2. FiniteSubsetsOf(S) = SUBSET S
      BY FS_FiniteSubsetsOfFinite, Zenon
    <2> QED BY <2>1, <2>2, Zenon
  <1>2. Bad \subseteq SUBSET S
    OBVIOUS
  <1> HIDE DEF Bad
  <1>3. PICK T \in Bad : \A U \in Bad : ~ (<<U, T>> \in StrictSubsetOrdering(S))
    BY <1>1, <1>2, WFMin
  <1>4. \A U \in SUBSET T : U # T => U \in Q
    BY <1>2, <1>3, Zenon DEF StrictSubsetOrdering, Bad
  <1> QED
    BY <1>2, <1>3, <1>4 DEF Bad

(* Induction over the numbers, likewise. *)
LEMMA NumberInduction ==
  ASSUME NEW Q, 0 \in Q, \A n \in Nat : n \in Q => n + 1 \in Q
  PROVE  \A n \in Nat : n \in Q
  <1> DEFINE Bad == Nat \ Q
  <1> SUFFICES ASSUME Bad # {} PROVE FALSE
    OBVIOUS
  <1>1. Bad \subseteq Nat
    OBVIOUS
  <1> HIDE DEF Bad
  <1>3. PICK n \in Bad : \A m \in Bad : ~ (<<m, n>> \in OpToRel(<, Nat))
    BY <1>1, WFMin, NatLessThanWellFounded, Zenon
  <1>4. \A m \in Nat : m < n => m \in Q
    BY <1>1, <1>3, Zenon DEF OpToRel, Bad
  <1>5. n \in Nat /\ n # 0 /\ n \notin Q
    BY <1>3, Zenon DEF Bad
  <1>6. n - 1 \in Nat /\ n - 1 \in Q /\ (n - 1) + 1 = n
    BY <1>4, <1>5
  <1> QED
    BY <1>5, <1>6

(* The element a sum takes next. *)
Any(s) == CHOOSE x \in s : TRUE

(* it gives the sum of f over each subset of S. *)
IsSum(it, f, S) ==
    it = [s \in SUBSET S |-> IF s = {} THEN 0 ELSE f[Any(s)] + it[s \ {Any(s)}]]

(* Over a finite set there are such sums. *)
LEMMA SumExists ==
  ASSUME NEW S, IsFiniteSet(S), NEW f \in [S -> Int]
  PROVE  \E it \in [SUBSET S -> Int] : IsSum(it, f, S)
  <1> DEFINE Sub(n) == {s \in SUBSET S : Cardinality(s) <= n}
             Val(g, s) == IF s = {} THEN 0 ELSE f[Any(s)] + g[s \ {Any(s)}]
             G(n) == {g \in [Sub(n) -> Int] : \A s \in Sub(n) : g[s] = Val(g, s)}
             Q == {n \in Nat : G(n) # {}}
  <1>1. \A s \in SUBSET S : /\ IsFiniteSet(s) /\ Cardinality(s) \in Nat
                            /\ Cardinality(s) <= Cardinality(S)
                            /\ Cardinality(s) = 0 <=> s = {}
    BY FS_Subset, FS_CardinalityType, FS_EmptySet
  <1>2. \A s \in SUBSET S : s # {} =>
            /\ Any(s) \in s
            /\ s \ {Any(s)} \in SUBSET S
            /\ Cardinality(s \ {Any(s)}) = Cardinality(s) - 1
    BY <1>1, FS_RemoveElement, Zenon DEF Any
  <1>3. 0 \in Q
    <2> DEFINE g == [s \in Sub(0) |-> 0]
    <2>1. \A s \in Sub(0) : s = {}
      BY <1>1
    <2>2. g \in G(0)
      BY <2>1
    <2> QED BY <2>2, Zenon
  <1>4. \A n \in Nat : n \in Q => n + 1 \in Q
    <2> SUFFICES ASSUME NEW n \in Nat, n \in Q PROVE n + 1 \in Q
      BY Zenon
    <2>1. PICK g \in [Sub(n) -> Int] : \A s \in Sub(n) : g[s] = Val(g, s)
      BY Zenon
    <2> DEFINE h == [s \in Sub(n + 1) |-> Val(g, s)]
    <2>2. \A s \in Sub(n + 1) : s # {} => s \ {Any(s)} \in Sub(n)
      BY <1>1, <1>2
    <2>3. \A s \in Sub(n + 1) : Val(g, s) \in Int
      BY <1>2, <2>2
    <2>4. \A s \in Sub(n) : s \in Sub(n + 1) /\ h[s] = g[s]
      BY <1>1, <2>1
    <2>5. \A s \in Sub(n + 1) : h[s] = Val(h, s)
      <3> SUFFICES ASSUME NEW s \in Sub(n + 1) PROVE h[s] = Val(h, s)
        BY Zenon
      <3>1. h[s] = Val(g, s)
        OBVIOUS
      <3>2. CASE s = {}
        BY <3>1, <3>2
      <3>3. CASE s # {}
        <4>1. h[s \ {Any(s)}] = g[s \ {Any(s)}]
          BY <2>2, <2>4, <3>3, Zenon
        <4> HIDE DEF h
        <4> QED BY <3>1, <3>3, <4>1
      <3> QED BY <3>2, <3>3, ZenonT(40)
    <2>6. h \in G(n + 1)
      BY <2>3, <2>5, Zenon
    <2> HIDE DEF G, h
    <2>7. G(n + 1) # {}
      BY <2>6
    <2> QED
      BY <2>7
  <1>5. Cardinality(S) \in Q
    <2> HIDE DEF Q
    <2> QED BY <1>1, <1>3, <1>4, NumberInduction
  <1>6. Sub(Cardinality(S)) = SUBSET S
    BY <1>1
  <1>7. PICK it \in [SUBSET S -> Int] : \A s \in SUBSET S : it[s] = Val(it, s)
    BY <1>5, <1>6, Zenon
  <1>8. IsSum(it, f, S)
    BY <1>7 DEF IsSum
  <1> QED
    BY <1>8

(* SumFunction is one of them, taken over the whole domain. *)
LEMMA SumFunctionDef ==
  ASSUME NEW S, IsFiniteSet(S), NEW f \in [S -> Int]
  PROVE  \E it \in [SUBSET S -> Int] : IsSum(it, f, S) /\ SumFunction(f) = it[S]
  <1>1. SumFunction(f) = (CHOOSE it : IsSum(it, f, S))[S]
    BY DEF SumFunction, SumFunctionOnSet, FoldFunctionOnSet, MapThenFoldSet, IsSum, Any
  <1>2. \A it : IsSum(it, f, S) => it \in [SUBSET S -> Int]
    <2> SUFFICES ASSUME NEW it, IsSum(it, f, S) PROVE it \in [SUBSET S -> Int]
      BY Zenon
    <2> DEFINE Q == {s \in SUBSET S : it[s] \in Int}
    <2>1. \A T \in SUBSET S : (\A U \in SUBSET T : U # T => U \in Q) => T \in Q
      <3> SUFFICES ASSUME NEW T \in SUBSET S, \A U \in SUBSET T : U # T => U \in Q
                   PROVE  T \in Q
        OBVIOUS
      <3>1. it[T] = IF T = {} THEN 0 ELSE f[Any(T)] + it[T \ {Any(T)}]
        BY Zenon DEF IsSum
      <3>2. T # {} => Any(T) \in T
        BY DEF Any
      <3> QED BY <3>1, <3>2
    <2>2. \A T \in SUBSET S : T \in Q
      <3> HIDE DEF Q
      <3> QED BY <2>1, SubsetInduction, Zenon
    <2> QED BY <2>2, Zenon DEF IsSum
  <1> QED
    BY <1>1, <1>2, SumExists, Zenon

(* A sum of integers is one. *)
LEMMA SumType ==
  ASSUME NEW S, IsFiniteSet(S), NEW f \in [S -> Int]
  PROVE  SumFunction(f) \in Int
  <1>1. PICK F \in [SUBSET S -> Int] : IsSum(F, f, S) /\ SumFunction(f) = F[S]
    BY SumFunctionDef, Zenon
  <1> QED BY <1>1

(* A value that changes changes the sum by as much. *)
LEMMA SumChanges ==
  ASSUME NEW S, IsFiniteSet(S), NEW f \in [S -> Int], NEW g \in [S -> Int],
         NEW t \in S, \A u \in S \ {t} : g[u] = f[u]
  PROVE  SumFunction(g) = SumFunction(f) + g[t] - f[t]
  <1>1. PICK F \in [SUBSET S -> Int] : IsSum(F, f, S) /\ SumFunction(f) = F[S]
    BY SumFunctionDef, Zenon
  <1>2. PICK G \in [SUBSET S -> Int] : IsSum(G, g, S) /\ SumFunction(g) = G[S]
    BY SumFunctionDef, Zenon
  <1> DEFINE Q == {s \in SUBSET S : G[s] = F[s] + IF t \in s THEN g[t] - f[t] ELSE 0}
  <1>3. \A T \in SUBSET S : (\A U \in SUBSET T : U # T => U \in Q) => T \in Q
    <2> SUFFICES ASSUME NEW T \in SUBSET S, \A U \in SUBSET T : U # T => U \in Q
                 PROVE  T \in Q
      OBVIOUS
    <2>1. /\ F[T] = IF T = {} THEN 0 ELSE f[Any(T)] + F[T \ {Any(T)}]
          /\ G[T] = IF T = {} THEN 0 ELSE g[Any(T)] + G[T \ {Any(T)}]
      BY <1>1, <1>2, Zenon DEF IsSum
    <2>2. CASE T = {}
      BY <2>1, <2>2
    <2>3. CASE T # {}
      <3>1. Any(T) \in T
        BY <2>3 DEF Any
      <3>2. T \ {Any(T)} \in Q
        BY <3>1
      <3> QED BY <2>1, <2>3, <3>1, <3>2
    <2> QED BY <2>2, <2>3
  <1>4. S \in Q
    <2> HIDE DEF Q
    <2>1. \A T \in SUBSET S : T \in Q
      BY <1>3, SubsetInduction, Zenon
    <2> QED BY <2>1
  <1> QED BY <1>1, <1>2, <1>4

(* Larger values have a larger sum. *)
LEMMA SumOrder ==
  ASSUME NEW S, IsFiniteSet(S), NEW f \in [S -> Int], NEW g \in [S -> Int],
         \A u \in S : f[u] <= g[u]
  PROVE  SumFunction(f) <= SumFunction(g)
  <1>1. PICK F \in [SUBSET S -> Int] : IsSum(F, f, S) /\ SumFunction(f) = F[S]
    BY SumFunctionDef, Zenon
  <1>2. PICK G \in [SUBSET S -> Int] : IsSum(G, g, S) /\ SumFunction(g) = G[S]
    BY SumFunctionDef, Zenon
  <1> DEFINE Q == {s \in SUBSET S : F[s] <= G[s]}
  <1>3. \A T \in SUBSET S : (\A U \in SUBSET T : U # T => U \in Q) => T \in Q
    <2> SUFFICES ASSUME NEW T \in SUBSET S, \A U \in SUBSET T : U # T => U \in Q
                 PROVE  T \in Q
      OBVIOUS
    <2>1. /\ F[T] = IF T = {} THEN 0 ELSE f[Any(T)] + F[T \ {Any(T)}]
          /\ G[T] = IF T = {} THEN 0 ELSE g[Any(T)] + G[T \ {Any(T)}]
      BY <1>1, <1>2, Zenon DEF IsSum
    <2>2. CASE T = {}
      BY <2>1, <2>2
    <2>3. CASE T # {}
      <3>1. Any(T) \in T
        BY <2>3 DEF Any
      <3>2. T \ {Any(T)} \in Q
        BY <3>1
      <3> QED BY <2>1, <2>3, <3>1, <3>2
    <2> QED BY <2>2, <2>3
  <1>4. S \in Q
    <2> HIDE DEF Q
    <2>1. \A T \in SUBSET S : T \in Q
      BY <1>3, SubsetInduction, Zenon
    <2> QED BY <2>1
  <1> QED BY <1>1, <1>2, <1>4

(* Zeros add up to zero. *)
LEMMA SumOfZeros ==
  ASSUME NEW S, IsFiniteSet(S)
  PROVE  SumFunction([u \in S |-> 0]) = 0
  <1> DEFINE f == [u \in S |-> 0]
  <1>0. f \in [S -> Int] /\ \A u \in S : f[u] = 0
    OBVIOUS
  <1> HIDE DEF f
  <1>1. PICK F \in [SUBSET S -> Int] : IsSum(F, f, S) /\ SumFunction(f) = F[S]
    BY <1>0, SumFunctionDef, Zenon
  <1> DEFINE Q == {s \in SUBSET S : F[s] = 0}
  <1>3. \A T \in SUBSET S : (\A U \in SUBSET T : U # T => U \in Q) => T \in Q
    <2> SUFFICES ASSUME NEW T \in SUBSET S, \A U \in SUBSET T : U # T => U \in Q
                 PROVE  T \in Q
      OBVIOUS
    <2>1. /\ F[T] = IF T = {} THEN 0 ELSE f[Any(T)] + F[T \ {Any(T)}]
          /\ T # {} => Any(T) \in T
      BY <1>1 DEF IsSum, Any
    <2> QED BY <1>0, <2>1
  <1>4. S \in Q
    <2> HIDE DEF Q
    <2>1. \A T \in SUBSET S : T \in Q
      BY <1>3, SubsetInduction, Zenon
    <2> QED BY <2>1
  <1> QED BY <1>1, <1>4 DEF f
-----------------------------------------------------------------------------
(* A thread is not both inside and outside of a job. *)
LEMMA PlacesApart == Inside \cap Out = {}
  BY JobQueueAssumption DEF Inside, In, Out

(* What does not move a thread keeps the running jobs. *)
LEMMA UnmovedThreads ==
  ASSUME ThreadsOK, UNCHANGED thread
  PROVE  ThreadsKept
  BY DEF ThreadsOK, ThreadsKept, Running, Busy

(* A thread that moves on inside its job keeps it. *)
LEMMA MovedThread ==
  ASSUME ThreadsOK, NEW w \in Thread, NEW l \in Inside,
         thread[w].at \in Inside, Goto(w, l)
  PROVE  ThreadsKept
  <1>1. /\ thread'[w].at = l /\ thread'[w].job = thread[w].job
        /\ \A v \in Thread \ {w} : thread'[v] = thread[v]
        /\ thread' \in [Thread -> [at : Out \cup Inside, job : Job \cup {NoJob}]]
    BY DEF ThreadsOK, Goto
  <1>2. Busy' = Busy
    BY <1>1, PlacesApart DEF Busy
  <1>3. \A v \in Thread : thread'[v].job = thread[v].job
    BY <1>1
  <1>4. \A t \in Type : Running(t)' = Running(t)
    BY <1>2, <1>3 DEF Running, Busy
  <1> QED
    BY <1>1, <1>2, <1>3, <1>4 DEF ThreadsOK, ThreadsKept, Busy

(* Nothing about the queue changes. *)
LEMMA QueueKept ==
  ASSUME Counters, ThreadsKept, UNCHANGED <<m_jobSet, m_lastJob, data>>
  PROVE  Counters'
  BY Zenon DEF Counters, ThreadsKept, JobsOK, LimitsKept, DeferredAtLimit, Waiting

(* addJob adds a job to its type's waiting jobs and to no other's. *)
LEMMA AddedJob ==
  ASSUME JobsOK, NEW t \in Type, NEW work \in {"plain", "update"} \cup Coro,
         addJob(t, work)
  PROVE  /\ JobsOK'
         /\ Cardinality(Waiting(t))' = Cardinality(Waiting(t)) + 1
         /\ \A u \in Type \ {t} : Waiting(u)' = Waiting(u)
  <1> DEFINE j == [type |-> t, index |-> m_lastJob + 1, work |-> work]
  <1>1. j \in Job /\ j \notin m_jobSet /\ m_jobSet' = m_jobSet \cup {j}
    BY DEF JobsOK, Job, addJob
  <1>2. JobsOK'
    <2>1. IsFiniteSet(m_jobSet')
      BY <1>1, FS_AddElement DEF JobsOK
    <2> QED
      BY <1>1, <2>1 DEF JobsOK, addJob, Job
  <1>3. Waiting(t)' = Waiting(t) \cup {j} /\ j \notin Waiting(t)
    BY <1>1 DEF Waiting
  <1>4. IsFiniteSet(Waiting(t))
    BY FS_Subset DEF JobsOK, Waiting
  <1>5. Cardinality(Waiting(t) \cup {j}) = Cardinality(Waiting(t)) + 1
    BY <1>3, <1>4, FS_AddElement, ZenonT(40)
  <1>6. \A u \in Type \ {t} : Waiting(u)' = Waiting(u)
    BY <1>1 DEF Waiting
  <1> QED
    BY <1>2, <1>3, <1>5, <1>6

(* A job added keeps the limits, whether it is signalled or deferred. *)
LEMMA AddKeepsCounters ==
  ASSUME Counters, ThreadsKept, NEW t \in Type,
         NEW work \in {"plain", "update"} \cup Coro, addJob(t, work)
  PROVE  Counters'
  <1>1. /\ JobsOK' /\ Cardinality(Waiting(t))' = Cardinality(Waiting(t)) + 1
        /\ \A u \in Type \ {t} : Waiting(u)' = Waiting(u)
    BY AddedJob DEF Counters
  <1>2. /\ data' \in [Type -> DataType]
        /\ data'[t].waiting = data[t].waiting + 1
        /\ data'[t].running = data[t].running
        /\ data'[t].deferred = IF data[t].waiting + data[t].running < Limit[t]
                               THEN data[t].deferred ELSE data[t].deferred + 1
        /\ \A u \in Type \ {t} : data'[u] = data[u]
    BY JobQueueAssumption DEF Counters, addJob, queueJob, DataType
  <1>3. \A u \in Type : Limit[u] \in Nat /\ data[u] \in DataType
    BY JobQueueAssumption DEF Counters
  <1>4. LimitsKept'
    BY <1>1, <1>2, <1>3 DEF Counters, LimitsKept, ThreadsKept, DataType
  <1>5. DeferredAtLimit'
    BY <1>2, <1>3 DEF Counters, DeferredAtLimit, DataType
  <1> QED
    BY <1>1, <1>2, <1>4, <1>5 DEF Counters, ThreadsKept

(* A thread is called to processTask: it is still outside of any job. *)
LEMMA TaskStartsKeeps ==
  ASSUME Counters, NEW w \in Thread, TaskStarts(w)
  PROVE  Counters'
  <1>1. /\ thread'[w].at = "task" /\ thread[w].at = "idle"
        /\ \A v \in Thread \ {w} : thread'[v] = thread[v]
        /\ thread' \in [Thread -> [at : Out \cup Inside, job : Job \cup {NoJob}]]
    BY DEF Counters, ThreadsOK, TaskStarts, Goto, Out
  <1>2. Busy' = Busy /\ w \notin Busy
    BY <1>1 DEF Busy, Out
  <1>3. ThreadsKept
    BY <1>1, <1>2 DEF Counters, ThreadsOK, ThreadsKept, Running, Busy
  <1> QED
    BY <1>3, QueueKept DEF TaskStarts

(* getNextJob moves a job of a type below its limit from waiting to        *)
(* running; if jobs of the type are deferred, one that waits is not.       *)
LEMMA GetNextJobKeeps ==
  ASSUME Counters, NEW w \in Thread, GetNextJob(w)
  PROVE  Counters'
  <1>1. PICK j \in Runnable :
          /\ m_jobSet' = m_jobSet \ {j}
          /\ data' = [data EXCEPT ![j.type] =
                        [waiting |-> @.waiting - 1, running |-> @.running + 1,
                         deferred |-> @.deferred]]
          /\ thread' = [thread EXCEPT ![w] = [at |-> "run", job |-> j]]
    BY Zenon DEF GetNextJob
  <1> DEFINE t == j.type
  <1>2. /\ j \in m_jobSet /\ j \in Job /\ t \in Type
        /\ data[t].running < Limit[t]
        /\ m_lastJob' = m_lastJob /\ thread[w].at = "task"
    BY DEF Runnable, Counters, JobsOK, Job, GetNextJob
  <1> HIDE DEF t
  <1>3. \A u \in Type : Limit[u] \in Nat /\ data[u] \in DataType
    BY JobQueueAssumption DEF Counters
  <1>4. JobsOK'
    BY <1>1, <1>2, FS_RemoveElement DEF Counters, JobsOK
  <1>5. /\ j \in Waiting(t) /\ Waiting(t)' = Waiting(t) \ {j}
        /\ \A u \in Type \ {t} : Waiting(u)' = Waiting(u)
    BY <1>1, <1>2 DEF Waiting, t
  <1>6. IsFiniteSet(Waiting(t))
    BY FS_Subset DEF Counters, JobsOK, Waiting
  <1>7. Cardinality(Waiting(t))' = Cardinality(Waiting(t)) - 1
    BY <1>5, <1>6, FS_RemoveElement, Zenon
  <1>8. Cardinality(Waiting(t)) \in Nat /\ Cardinality(Waiting(t))' \in Nat
    BY <1>5, <1>6, FS_RemoveElement, FS_CardinalityType
  <1>9. /\ thread'[w] = [at |-> "run", job |-> j]
        /\ \A v \in Thread \ {w} : thread'[v] = thread[v]
        /\ thread' \in [Thread -> [at : Out \cup Inside, job : Job \cup {NoJob}]]
    BY <1>1, <1>2 DEF Counters, ThreadsOK, Inside, In
  <1>10. Busy' = Busy \cup {w} /\ w \notin Busy
    BY <1>2, <1>9 DEF Busy, Out
  <1>11. ThreadsOK'
    BY <1>2, <1>9, <1>10 DEF Counters, ThreadsOK, Busy
  <1>12. /\ Running(t)' = Running(t) \cup {w} /\ w \notin Running(t)
         /\ \A u \in Type \ {t} : Running(u)' = Running(u)
    BY <1>2, <1>9, <1>10 DEF Running, Busy, t
  <1>13. IsFiniteSet(Running(t))
    BY FS_Subset, JobQueueAssumption DEF Running, Busy
  <1>14. Cardinality(Running(t))' = Cardinality(Running(t)) + 1
    BY <1>12, <1>13, FS_AddElement
  <1>15. data[t].waiting >= 1
    BY <1>2, <1>3, <1>7, <1>8 DEF Counters, LimitsKept, DataType
  <1>16. /\ data' \in [Type -> DataType]
         /\ data'[t].waiting = data[t].waiting - 1
         /\ data'[t].running = data[t].running + 1
         /\ data'[t].deferred = data[t].deferred
         /\ \A u \in Type \ {t} : data'[u] = data[u]
    BY <1>1, <1>2, <1>3, <1>15 DEF Counters, DataType, t
  <1>17. LimitsKept'
    <2>1. /\ data'[t].waiting = Cardinality(Waiting(t)')
          /\ data'[t].running = Cardinality(Running(t)')
          /\ data'[t].running <= Limit[t]
      BY <1>2, <1>3, <1>7, <1>14, <1>16 DEF Counters, LimitsKept, DataType
    <2>2. \A u \in Type \ {t} :
            /\ data'[u].waiting = Cardinality(Waiting(u)')
            /\ data'[u].running = Cardinality(Running(u)')
            /\ data'[u].running <= Limit[u]
      BY <1>5, <1>12, <1>16 DEF Counters, LimitsKept
    <2> QED
      BY <2>1, <2>2 DEF LimitsKept
  <1>18. DeferredAtLimit'
    <2>1. /\ data[t].deferred <= data[t].waiting
          /\ data[t].waiting - data[t].deferred + data[t].running <= Limit[t]
          /\ data[t].deferred > 0 =>
                data[t].waiting - data[t].deferred + data[t].running = Limit[t]
      BY <1>2 DEF Counters, DeferredAtLimit
    <2>2. /\ data'[t].deferred <= data'[t].waiting
          /\ data'[t].waiting - data'[t].deferred + data'[t].running <= Limit[t]
          /\ data'[t].deferred > 0 =>
                data'[t].waiting - data'[t].deferred + data'[t].running = Limit[t]
      BY <1>2, <1>3, <1>15, <1>16, <2>1 DEF DataType
    <2>3. \A u \in Type \ {t} :
            /\ data'[u].deferred <= data'[u].waiting
            /\ data'[u].waiting - data'[u].deferred + data'[u].running <= Limit[u]
            /\ data'[u].deferred > 0 =>
                  data'[u].waiting - data'[u].deferred + data'[u].running = Limit[u]
      BY <1>3, <1>16 DEF Counters, DeferredAtLimit
    <2> QED BY <2>2, <2>3 DEF DeferredAtLimit
  <1> QED
    BY <1>4, <1>11, <1>16, <1>17, <1>18 DEF Counters

(* finishJob gives the place of the job that ends to a deferred one. *)
LEMMA FinishJobKeeps ==
  ASSUME Counters, NEW w \in Thread, FinishJob(w)
  PROVE  Counters'
  <1>1. PICK t \in Type :
          /\ thread[w].at = "end" /\ w \in Busy /\ thread[w].job.type = t
          /\ finishJob(t) /\ UNCHANGED <<m_jobSet, m_lastJob>>
          /\ thread' = [thread EXCEPT ![w] = [at |-> "idle", job |-> NoJob]]
    BY DEF FinishJob, Counters, ThreadsOK, Busy, Out, Job
  <1>2. \A u \in Type : Limit[u] \in Nat /\ data[u] \in DataType
    BY JobQueueAssumption DEF Counters
  <1>3. /\ thread'[w] = [at |-> "idle", job |-> NoJob]
        /\ \A v \in Thread \ {w} : thread'[v] = thread[v]
        /\ thread' \in [Thread -> [at : Out \cup Inside, job : Job \cup {NoJob}]]
    BY <1>1 DEF Counters, ThreadsOK, Out
  <1>4. Busy' = Busy \ {w}
    BY <1>3 DEF Busy, Out
  <1>5. ThreadsOK'
    BY <1>3, <1>4, Zenon DEF Counters, ThreadsOK, Busy
  <1>6. /\ Running(t)' = Running(t) \ {w} /\ w \in Running(t)
        /\ \A u \in Type \ {t} : Running(u)' = Running(u)
    BY <1>1, <1>3, <1>4 DEF Running, Busy
  <1>7. IsFiniteSet(Running(t))
    BY FS_Subset, JobQueueAssumption DEF Running, Busy
  <1>8. /\ Cardinality(Running(t))' = Cardinality(Running(t)) - 1
        /\ Cardinality(Running(t)) \in Nat /\ Cardinality(Running(t))' \in Nat
    BY <1>6, <1>7, FS_RemoveElement, FS_CardinalityType
  <1>9. data[t].running >= 1
    BY <1>1, <1>2, <1>8 DEF Counters, LimitsKept, DataType
  <1>10. /\ data' \in [Type -> DataType]
         /\ data'[t].waiting = data[t].waiting
         /\ data'[t].running = data[t].running - 1
         /\ data'[t].deferred = IF data[t].deferred > 0 THEN data[t].deferred - 1
                                ELSE 0
         /\ \A u \in Type \ {t} : data'[u] = data[u]
    BY <1>1, <1>2, <1>9 DEF Counters, DataType, finishJob
  <1>11. \A u \in Type : Waiting(u)' = Waiting(u)
    BY <1>1, Zenon DEF Waiting
  <1>12. LimitsKept'
    <2>1. /\ data'[t].waiting = Cardinality(Waiting(t)')
          /\ data'[t].running = Cardinality(Running(t)')
          /\ data'[t].running <= Limit[t]
      BY <1>1, <1>2, <1>8, <1>10, <1>11 DEF Counters, LimitsKept, DataType
    <2>2. \A u \in Type \ {t} :
            /\ data'[u].waiting = Cardinality(Waiting(u)')
            /\ data'[u].running = Cardinality(Running(u)')
            /\ data'[u].running <= Limit[u]
      BY <1>6, <1>10, <1>11 DEF Counters, LimitsKept
    <2> QED
      BY <2>1, <2>2 DEF LimitsKept
  <1>13. DeferredAtLimit'
    BY <1>1, <1>2, <1>10 DEF Counters, DeferredAtLimit, DataType
  <1>14. JobsOK'
    BY <1>1 DEF Counters, JobsOK
  <1> QED
    BY <1>5, <1>10, <1>12, <1>13, <1>14 DEF Counters

(* The steps inside a job that leave the queue alone. *)
LEMMA InsideKeeps ==
  ASSUME Counters, NEW w \in Thread,
         \/ Return(w) \/ (\E c \in Coro : TakeRequest(w, c)) \/ UpdateDone(w)
         \/ Resume(w) \/ Enter(w) \/ Yield(w) \/ Suspend(w) \/ CoroReturns(w)
  PROVE  Counters'
  <1>1. UNCHANGED <<m_jobSet, m_lastJob, data>>
    BY Zenon DEF Return, TakeRequest, UpdateDone, Resume, Enter, Yield, Suspend,
           CoroReturns, Leave, queue
  <1>2. thread[w].at \in Inside
    BY Zenon DEF Return, TakeRequest, UpdateDone, Resume, Enter, Yield, Suspend,
           CoroReturns, Works, Inside, In
  <1>3. \E l \in Inside : Goto(w, l)
    BY Zenon DEF Return, TakeRequest, UpdateDone, Resume, Enter, Yield, Suspend,
           CoroReturns, Leave, Goto, Inside, In
  <1> QED
    BY <1>1, <1>2, <1>3, MovedThread, QueueKept DEF Counters

(* fCompletion posts a coroutine. *)
LEMMA CompleteRequestKeeps ==
  ASSUME Counters, NEW w \in Thread, NEW c \in Coro, CompleteRequest(w, c)
  PROVE  Counters'
  <1>1. thread[w].at \in Inside /\ Goto(w, "run") /\ "run" \in Inside
    BY DEF CompleteRequest, Inside, In
  <1>2. addJob(ClientType, c)
    BY DEF CompleteRequest, post
  <1>3. ThreadsKept
    BY <1>1, MovedThread, Zenon DEF Counters
  <1> QED
    BY <1>2, <1>3, AddKeepsCounters, JobQueueAssumption, Zenon

(* A path request adds an updatePaths job, or none. *)
LEMMA PathFindKeeps ==
  ASSUME Counters, NEW w \in Thread, PathFind(w)
  PROVE  Counters'
  <1>1. thread[w].at \in Inside /\ Goto(w, "yield") /\ "yield" \in Inside
    BY DEF PathFind, Inside, In
  <1>2. ThreadsKept
    BY <1>1, MovedThread, ZenonT(40) DEF Counters
  <1>3. addJob(UpdateType, "update") \/ UNCHANGED queue
    BY DEF PathFind, newPFWork
  <1>4. CASE addJob(UpdateType, "update")
    BY <1>2, <1>4, AddKeepsCounters, JobQueueAssumption, Zenon
  <1>5. CASE UNCHANGED queue
    BY <1>2, <1>5, QueueKept DEF queue
  <1> QED
    BY <1>3, <1>4, <1>5

(* So does a new ledger. *)
LEMMA NewLedgerKeeps ==
  ASSUME Counters, NewLedger
  PROVE  Counters'
  <1>1. ThreadsKept
    BY UnmovedThreads DEF Counters, NewLedger
  <1>2. CASE addJob(UpdateType, "update")
    BY <1>1, <1>2, AddKeepsCounters, JobQueueAssumption, Zenon
  <1>3. CASE UNCHANGED queue
    BY <1>1, <1>3, QueueKept DEF queue
  <1> QED
    BY <1>2, <1>3 DEF NewLedger, newPFWork

(* Every step keeps the counters. *)
LEMMA StepKeepsCounters ==
  ASSUME Counters, [Next]_vars
  PROVE  Counters'
  <1>1. ASSUME NEW t \in Type, AddJob(t) PROVE Counters'
    BY <1>1, UnmovedThreads, AddKeepsCounters DEF Counters, AddJob
  <1>2. ASSUME NEW c \in Coro, PostCoro(c) PROVE Counters'
    BY <1>2, UnmovedThreads, QueueKept DEF Counters, PostCoro, queue
  <1>3. ASSUME NEW c \in Coro, PostCreated(c) PROVE Counters'
    BY <1>3, UnmovedThreads, AddKeepsCounters, JobQueueAssumption
       DEF Counters, PostCreated, post
  <1>4. ASSUME NEW w \in Thread, ThreadStep(w) PROVE Counters'
    <2>1. CASE TaskStarts(w) \/ GetNextJob(w) \/ FinishJob(w)
      BY <2>1, TaskStartsKeeps, GetNextJobKeeps, FinishJobKeeps
    <2>2. CASE \E c \in Coro : CompleteRequest(w, c)
      BY <2>2, CompleteRequestKeeps
    <2>3. CASE \/ Return(w) \/ (\E c \in Coro : TakeRequest(w, c)) \/ UpdateDone(w)
               \/ Resume(w) \/ Enter(w) \/ Yield(w) \/ Suspend(w) \/ CoroReturns(w)
      BY <2>3, InsideKeeps
    <2> QED
      BY <1>4, <2>1, <2>2, <2>3 DEF ThreadStep
  <1>5. ASSUME NEW w \in Thread, PathFind(w) PROVE Counters'
    BY <1>5, PathFindKeeps
  <1>6. ASSUME NEW w \in Thread, NEW t \in Type, Spawn(w, t) PROVE Counters'
    BY <1>6, UnmovedThreads, AddKeepsCounters DEF Counters, Spawn
  <1>7. CASE Stopping \/ StopStep \/ Rendezvous \/ AtRest \/ UNCHANGED vars
    BY <1>7, UnmovedThreads, QueueKept, Zenon
       DEF Counters, Stopping, StopStep, ChildrenStopped, OnChildrenStopped,
           Stopped, Rendezvous, AtRest, vars, queue
  <1> QED
    BY <1>1, <1>2, <1>3, <1>4, <1>5, <1>6, <1>7, NewLedgerKeeps DEF Next

(* The queue starts empty. *)
LEMMA InitCounters == Init => Counters
  <1> SUFFICES ASSUME Init PROVE Counters
    OBVIOUS
  <1>1. data \in [Type -> DataType]
    BY Zenon DEF Init, DataType
  <1>2. JobsOK
    BY FS_EmptySet, Zenon DEF Init, JobsOK
  <1>3. Busy = {} /\ ThreadsOK
    BY Zenon DEF Init, ThreadsOK, Busy, Out
  <1>4. \A t \in Type : Waiting(t) = {} /\ Running(t) = {}
    BY <1>3, Zenon DEF Init, Waiting, Running
  <1>5. \A t \in Type : /\ data[t] = [waiting |-> 0, running |-> 0, deferred |-> 0]
                        /\ Limit[t] \in Nat
    BY JobQueueAssumption, Zenon DEF Init
  <1>6. LimitsKept
    BY <1>4, <1>5, FS_EmptySet DEF LimitsKept
  <1>7. DeferredAtLimit
    BY <1>5 DEF DeferredAtLimit
  <1> QED
    BY <1>1, <1>2, <1>3, <1>6, <1>7 DEF Counters

(* The counters of JobTypeData are true, no more jobs of a type run than   *)
(* its limit allows, and none is deferred while there is room for it: the  *)
(* asserts of getNextJob and finishJob, for any types, limits, threads and *)
(* coroutines.                                                             *)
THEOREM LimitsAlwaysKept == Spec => [](LimitsKept /\ DeferredAtLimit)
  <1>1. Counters /\ [Next]_vars => Counters'
    BY StepKeepsCounters
  <1>2. Counters => LimitsKept /\ DeferredAtLimit
    BY DEF Counters
  <1> QED
    BY InitCounters, <1>1, <1>2, PTL DEF Spec
-----------------------------------------------------------------------------
(* Tasks and the jobs they are owed. *)

(* The jobs of a type for which a task was signalled and has not been      *)
(* taken.                                                                  *)
Signalled == [t \in Type |-> data[t].waiting - data[t].deferred]

(* Inductive: as many calls of processTask are on their way to getNextJob  *)
(* as jobs were signalled.                                                 *)
Owed ==
    /\ tasks \in Nat
    /\ tasks + Cardinality(At("task")) = SumFunction(Signalled)

(* The threads on their way to getNextJob can be counted. *)
LEMMA TasksFinite == IsFiniteSet(At("task")) /\ Cardinality(At("task")) \in Nat
  BY FS_Subset, FS_CardinalityType, JobQueueAssumption DEF At

(* The jobs signalled are numbers. *)
LEMMA SignalledType ==
  ASSUME Counters
  PROVE  Signalled \in [Type -> Int] /\ SumFunction(Signalled) \in Int
  <1>1. Signalled \in [Type -> Int]
    BY DEF Counters, DataType, Signalled
  <1>2. IsFiniteSet(Type)
    BY JobQueueAssumption
  <1>3. SumFunction(Signalled) \in Int
    BY <1>1, <1>2, SumType, Zenon
  <1> QED
    BY <1>1, <1>3

(* What signals no job and calls no thread keeps the balance. *)
LEMMA OwedUntouched ==
  ASSUME Owed, UNCHANGED <<tasks, data>>, At("task")' = At("task")
  PROVE  Owed'
  BY DEF Owed, Signalled

(* One type's jobs change, and the sum with them. *)
LEMMA SignalledChanges ==
  ASSUME Counters, Counters', NEW t \in Type,
         \A u \in Type \ {t} : data'[u] = data[u]
  PROVE  SumFunction(Signalled)' =
            SumFunction(Signalled) + (data'[t].waiting - data'[t].deferred)
                                   - (data[t].waiting - data[t].deferred)
  <1>1. Signalled \in [Type -> Int] /\ Signalled' \in [Type -> Int]
    BY DEF Counters, DataType, Signalled
  <1>2. \A u \in Type \ {t} : Signalled'[u] = Signalled[u]
    BY DEF Signalled
  <1>3. SumFunction(Signalled') = SumFunction(Signalled) + Signalled'[t] - Signalled[t]
    <2>1. IsFiniteSet(Type)
      BY JobQueueAssumption
    <2> QED BY <1>1, <1>2, <2>1, SumChanges, ZenonT(30)
  <1>4. SumFunction(Signalled) \in Int
    BY SignalledType
  <1>5. /\ Signalled[t] = data[t].waiting - data[t].deferred
        /\ Signalled'[t] = data'[t].waiting - data'[t].deferred
        /\ Signalled[t] \in Int /\ Signalled'[t] \in Int
    BY <1>1, Zenon DEF Signalled
  <1> QED
    BY <1>3, <1>4, <1>5, Zenon

(* addJob signals a task for the job, or defers it. *)
LEMMA AddKeepsOwed ==
  ASSUME Counters, Counters', Owed, NEW t \in Type, NEW work, addJob(t, work),
         At("task")' = At("task")
  PROVE  Owed'
  <1>1. \A u \in Type \ {t} : data'[u] = data[u]
    BY Zenon DEF addJob, queueJob, Counters
  <1>2. /\ data[t] \in DataType /\ Limit[t] \in Nat
        /\ SumFunction(Signalled) \in Int
    BY JobQueueAssumption, SignalledType DEF Counters
  <1>3. SumFunction(Signalled)' =
            SumFunction(Signalled) + (data'[t].waiting - data'[t].deferred)
                                   - (data[t].waiting - data[t].deferred)
    BY <1>1, SignalledChanges, Zenon
  <1>4. \/ /\ tasks' = tasks + 1
           /\ data'[t].waiting - data'[t].deferred
                = data[t].waiting - data[t].deferred + 1
        \/ /\ tasks' = tasks
           /\ data'[t].waiting - data'[t].deferred
                = data[t].waiting - data[t].deferred
    BY <1>2 DEF addJob, queueJob, Counters, DataType
  <1>5. data[t].waiting - data[t].deferred \in Int
    BY <1>2 DEF DataType
  <1> HIDE DEF At
  <1> QED
    BY <1>2, <1>3, <1>4, <1>5, TasksFinite DEF Owed

(* The pool's call is one it owed. *)
LEMMA TaskStartsOwed ==
  ASSUME Counters, Owed, NEW w \in Thread, TaskStarts(w)
  PROVE  Owed'
  <1>1. At("task")' = At("task") \cup {w} /\ w \notin At("task")
    BY DEF Counters, ThreadsOK, TaskStarts, Goto, At
  <1>2. Cardinality(At("task") \cup {w}) = Cardinality(At("task")) + 1
    BY <1>1, TasksFinite, FS_AddElement
  <1>3. Signalled' = Signalled /\ tasks' = tasks - 1 /\ tasks > 0
    BY DEF TaskStarts, Signalled
  <1>4. Cardinality(At("task"))' = Cardinality(At("task")) + 1
    BY <1>1, <1>2, Zenon
  <1>5. SumFunction(Signalled)' = SumFunction(Signalled)
    BY <1>3, Zenon
  <1>6. tasks \in Nat /\ tasks + Cardinality(At("task")) = SumFunction(Signalled)
    BY DEF Owed
  <1>7. /\ tasks' \in Nat
        /\ tasks' + Cardinality(At("task"))' = SumFunction(Signalled)'
    BY <1>3, <1>4, <1>5, <1>6, TasksFinite
  <1> QED
    BY <1>7 DEF Owed

(* getNextJob takes a job that was signalled. *)
LEMMA GetNextJobOwed ==
  ASSUME Counters, Counters', Owed, NEW w \in Thread, GetNextJob(w)
  PROVE  Owed'
  <1>1. PICK j \in Runnable :
          /\ data' = [data EXCEPT ![j.type] =
                        [waiting |-> @.waiting - 1, running |-> @.running + 1,
                         deferred |-> @.deferred]]
          /\ thread' = [thread EXCEPT ![w] = [at |-> "run", job |-> j]]
    BY Zenon DEF GetNextJob
  <1>2. j.type \in Type /\ tasks' = tasks /\ thread[w].at = "task"
    BY Zenon DEF Runnable, Counters, JobsOK, Job, GetNextJob
  <1> DEFINE t == j.type
  <1>3. /\ \A u \in Type \ {t} : data'[u] = data[u]
        /\ data[t] \in DataType /\ SumFunction(Signalled) \in Int
        /\ data'[t].waiting - data'[t].deferred
             = data[t].waiting - data[t].deferred - 1
    <2>1. data \in [Type -> DataType] /\ SumFunction(Signalled) \in Int
      BY SignalledType, Zenon DEF Counters
    <2> QED BY <1>1, <1>2, <2>1 DEF DataType
  <1>4. At("task")' = At("task") \ {w} /\ w \in At("task")
    BY <1>1, <1>2, Zenon DEF Counters, ThreadsOK, At
  <1>5. Cardinality(At("task") \ {w}) = Cardinality(At("task")) - 1
    BY <1>4, TasksFinite, FS_RemoveElement
  <1> HIDE DEF t, At
  <1>6. SumFunction(Signalled)' = SumFunction(Signalled) - 1
    <2>1. SumFunction(Signalled)' =
            SumFunction(Signalled) + (data'[t].waiting - data'[t].deferred)
                                   - (data[t].waiting - data[t].deferred)
      BY <1>2, <1>3, SignalledChanges, Zenon DEF t
    <2> QED
      BY <1>3, <2>1 DEF DataType
  <1> QED
    BY <1>2, <1>3, <1>4, <1>5, <1>6, TasksFinite DEF Owed

(* finishJob signals the job it no longer defers. *)
LEMMA FinishJobOwed ==
  ASSUME Counters, Counters', Owed, NEW w \in Thread, FinishJob(w)
  PROVE  Owed'
  <1>1. PICK t \in Type : finishJob(t)
    BY DEF FinishJob, Counters, ThreadsOK, Busy, Out, Job
  <1>2. At("task")' = At("task")
    BY DEF FinishJob, Counters, ThreadsOK, At
  <1>3. /\ \A u \in Type \ {t} : data'[u] = data[u]
        /\ data[t] \in DataType /\ SumFunction(Signalled) \in Int
    BY <1>1, SignalledType, Zenon DEF finishJob, Counters
  <1>4. \/ /\ tasks' = tasks + 1
           /\ data'[t].waiting - data'[t].deferred
                = data[t].waiting - data[t].deferred + 1
        \/ /\ tasks' = tasks
           /\ data'[t].waiting - data'[t].deferred
                = data[t].waiting - data[t].deferred
    BY <1>1, <1>3 DEF finishJob, Counters, DataType
  <1>5. SumFunction(Signalled)' =
            SumFunction(Signalled) + (data'[t].waiting - data'[t].deferred)
                                   - (data[t].waiting - data[t].deferred)
    BY <1>3, SignalledChanges, Zenon
  <1>6. data[t].waiting - data[t].deferred \in Int
    BY <1>3 DEF DataType
  <1> DEFINE x == data[t].waiting - data[t].deferred
             y == data'[t].waiting - data'[t].deferred
             n == Cardinality(At("task"))
             z == SumFunction(Signalled)
  <1>7. /\ tasks \in Nat /\ tasks + n = z /\ n \in Nat /\ z \in Int /\ x \in Int
        /\ (tasks' = tasks + 1 /\ y = x + 1) \/ (tasks' = tasks /\ y = x)
    BY <1>3, <1>4, <1>6, TasksFinite, Zenon DEF Owed
  <1> HIDE DEF x, y, n, z
  <1>8. tasks' \in Nat /\ tasks' + n = z + y - x
    BY <1>7
  <1> QED
    BY <1>2, <1>5, <1>8, Zenon DEF Owed, x, y, n, z

(* A thread that moves on inside its job is not on its way to getNextJob.  *)
LEMMA MovedInside ==
  ASSUME Counters, NEW w \in Thread, NEW l \in Inside,
         thread[w].at \in Inside, Goto(w, l)
  PROVE  At("task")' = At("task") /\ Busy' = Busy
  <1>1. /\ thread'[w].at = l
        /\ \A v \in Thread \ {w} : thread'[v] = thread[v]
    BY DEF Counters, ThreadsOK, Goto
  <1>2. l \notin Out /\ thread[w].at \notin Out /\ "task" \in Out
    BY PlacesApart DEF Out
  <1> QED
    BY <1>1, <1>2, Zenon DEF At, Busy

(* The steps of a job that leave its thread inside of it. *)
InsideStep(w) ==
    \/ Return(w) \/ (\E c \in Coro : TakeRequest(w, c) \/ CompleteRequest(w, c))
    \/ UpdateDone(w) \/ Resume(w) \/ Enter(w) \/ Yield(w) \/ Suspend(w)
    \/ CoroReturns(w) \/ PathFind(w)

(* They move it from one place inside to another. *)
LEMMA InsideMoves ==
  ASSUME Counters, NEW w \in Thread, InsideStep(w)
  PROVE  At("task")' = At("task") /\ Busy' = Busy
  <1>1. thread[w].at \in Inside
    BY Zenon DEF InsideStep, Return, TakeRequest, CompleteRequest, UpdateDone, Resume,
           Enter, Yield, Suspend, CoroReturns, PathFind, Works, Inside, In
  <1>2. \E l \in Inside : Goto(w, l)
    BY Zenon DEF InsideStep, Return, TakeRequest, CompleteRequest, UpdateDone, Resume,
           Enter, Yield, Suspend, CoroReturns, PathFind, Leave, Goto, Inside, In
  <1> QED
    BY <1>1, <1>2, MovedInside

(* They add a job or leave the queue alone. *)
LEMMA InsideQueue ==
  ASSUME NEW w \in Thread, InsideStep(w)
  PROVE  \/ \E t \in Type, work \in {"plain", "update"} \cup Coro : addJob(t, work)
         \/ UNCHANGED queue
  BY JobQueueAssumption, Zenon
     DEF InsideStep, Return, TakeRequest, CompleteRequest, UpdateDone, Resume,
         Enter, Yield, Suspend, CoroReturns, PathFind, Leave, newPFWork, post

(* The steps that move no thread. *)
OutsideStep ==
    \/ \E t \in Type : AddJob(t)
    \/ NewLedger
    \/ \E c \in Coro : PostCoro(c) \/ PostCreated(c)
    \/ \E w \in Thread, t \in Type : Spawn(w, t)
    \/ Stopping \/ StopStep \/ Rendezvous \/ AtRest \/ UNCHANGED vars

(* They add a job or leave the queue alone. *)
LEMMA OutsideQueue ==
  ASSUME OutsideStep
  PROVE  /\ UNCHANGED <<thread, m_processCount>>
         /\ \/ \E t \in Type, work \in {"plain", "update"} \cup Coro : addJob(t, work)
            \/ UNCHANGED queue
  BY JobQueueAssumption, Zenon
     DEF OutsideStep, AddJob, NewLedger, PostCoro, PostCreated, Spawn, Stopping,
         StopStep, ChildrenStopped, OnChildrenStopped, Stopped, Rendezvous,
         AtRest, vars, newPFWork, post

(* Every step is one of these or moves a thread into or out of a job. *)
LEMMA StepKinds ==
  ASSUME [Next]_vars
  PROVE  \/ OutsideStep
         \/ \E w \in Thread : \/ InsideStep(w)
                              \/ TaskStarts(w) \/ GetNextJob(w) \/ FinishJob(w)
  BY DEF Next, OutsideStep, InsideStep, ThreadStep

(* Every step keeps the balance of tasks and jobs. *)
LEMMA StepKeepsOwed ==
  ASSUME Counters, Counters', Owed, [Next]_vars
  PROVE  Owed'
  <1>1. ASSUME \/ \E t \in Type, work \in {"plain", "update"} \cup Coro : addJob(t, work)
               \/ UNCHANGED queue,
               At("task")' = At("task")
        PROVE  Owed'
    <2>1. CASE UNCHANGED queue
      BY <1>1, <2>1, OwedUntouched DEF queue
    <2>2. CASE \E t \in Type, work \in {"plain", "update"} \cup Coro : addJob(t, work)
      BY <1>1, <2>2, AddKeepsOwed
    <2> QED BY <1>1, <2>1, <2>2
  <1>2. CASE OutsideStep
    <2>1. At("task")' = At("task")
      BY <1>2, OutsideQueue DEF At
    <2> QED BY <1>1, <1>2, <2>1, OutsideQueue
  <1>3. ASSUME NEW w \in Thread, InsideStep(w) PROVE Owed'
    BY <1>1, <1>3, InsideMoves, InsideQueue
  <1> QED
    BY <1>2, <1>3, StepKinds, TaskStartsOwed, GetNextJobOwed, FinishJobOwed

(* Nothing is signalled at first. *)
LEMMA InitOwed == Init => Owed
  <1> SUFFICES ASSUME Init PROVE Owed
    OBVIOUS
  <1>1. Signalled = [t \in Type |-> 0]
    BY DEF Init, Signalled
  <1>2. At("task") = {}
    BY Zenon DEF Init, At
  <1>3. IsFiniteSet(Type)
    BY JobQueueAssumption
  <1>4. SumFunction(Signalled) = 0
    BY <1>1, <1>3, SumOfZeros, Zenon
  <1>5. Cardinality(At("task")) = 0 /\ tasks = 0
    BY <1>2, FS_EmptySet, Zenon DEF Init
  <1> QED
    BY <1>4, <1>5 DEF Owed

(* A job that was signalled may run: it waits, and its type is below its   *)
(* limit by as much.                                                       *)
LEMMA SignalledMayRun == Counters /\ Owed => RunnableForEveryTask
  <1> SUFFICES ASSUME Counters, Owed PROVE RunnableForEveryTask
    OBVIOUS
  <1> DEFINE room == [t \in Type |-> Min({data[t].waiting,
                                          Limit[t] - data[t].running})]
  <1>1. \A a, b \in Int : Min({a, b}) = IF a <= b THEN a ELSE b
    <2> SUFFICES ASSUME NEW a \in Int, NEW b \in Int
                 PROVE  Min({a, b}) = IF a <= b THEN a ELSE b
      OBVIOUS
    <2>1. \E x \in {a, b} : \A y \in {a, b} : x =< y
      OBVIOUS
    <2>2. /\ Min({a, b}) \in {a, b}
          /\ \A y \in {a, b} : Min({a, b}) =< y
      BY <2>1 DEF Min
    <2> QED BY <2>2
  <1>2. \A t \in Type : /\ data[t] \in DataType /\ Limit[t] \in Nat
                        /\ data[t].deferred <= data[t].waiting
                        /\ data[t].waiting - data[t].deferred + data[t].running
                              <= Limit[t]
    BY JobQueueAssumption, Zenon DEF Counters, DeferredAtLimit
  <1>3. \A t \in Type : room[t] \in Int /\ Signalled[t] <= room[t]
    BY <1>1, <1>2 DEF Signalled, DataType
  <1>4. room \in [Type -> Int] /\ Signalled \in [Type -> Int]
    BY <1>3, SignalledType, Zenon
  <1> HIDE DEF room
  <1>5. SumFunction(Signalled) <= SumFunction(room)
    <2>1. IsFiniteSet(Type)
      BY JobQueueAssumption
    <2> QED BY <1>3, <1>4, <2>1, SumOrder
  <1> QED
    BY <1>5, Zenon DEF Owed, RunnableForEveryTask, room

(* getNextJob always finds a job: for every task the pool owes or has      *)
(* started there is a waiting job whose type is below its limit, whatever  *)
(* the other threads take.                                                 *)
THEOREM EveryTaskHasItsJob == Spec => []RunnableForEveryTask
  <1>1. (Counters /\ Owed) /\ [Next]_vars => (Counters /\ Owed)'
    BY StepKeepsCounters, StepKeepsOwed
  <1>2. Init => Counters /\ Owed
    BY InitCounters, InitOwed
  <1> QED
    BY <1>1, <1>2, SignalledMayRun, PTL DEF Spec
-----------------------------------------------------------------------------
(* The caller of rendezvous. *)

(* Inductive: m_processCount counts the threads inside of a job. *)
BusyCounted == m_processCount = Cardinality(Busy) /\ RendezvousIsWoken

(* The busy threads can be counted. *)
LEMMA BusyFinite == IsFiniteSet(Busy) /\ Cardinality(Busy) \in Nat
  BY FS_Subset, FS_CardinalityType, JobQueueAssumption, Zenon DEF Busy

(* A caller sleeps on while there is a job to run, and one that finds none *)
(* does not go to sleep.                                                   *)
LEMMA OutsideCounted ==
  ASSUME Counters, BusyCounted, OutsideStep
  PROVE  BusyCounted'
  <1>1. UNCHANGED <<thread, m_processCount>>
    BY OutsideQueue
  <1>2. Cardinality(Busy)' = Cardinality(Busy)
    BY <1>1 DEF Busy
  <1>3. \/ m_jobSet' # {} /\ UNCHANGED rendezvous
        \/ UNCHANGED <<m_jobSet, rendezvous>>
        \/ Rendezvous
    BY Zenon DEF OutsideStep, AddJob, NewLedger, PostCoro, PostCreated, Spawn, Stopping,
           StopStep, ChildrenStopped, OnChildrenStopped, Stopped, AtRest, vars,
           queue, newPFWork, post, addJob
  <1>4. CASE Rendezvous
    BY <1>1, <1>2, <1>4, BusyFinite DEF Rendezvous, BusyCounted, RendezvousIsWoken, queue
  <1> QED
    BY <1>1, <1>2, <1>3, <1>4 DEF BusyCounted, RendezvousIsWoken

(* Nothing inside a job takes one from the set. *)
LEMMA InsideCounted ==
  ASSUME Counters, BusyCounted, NEW w \in Thread, InsideStep(w)
  PROVE  BusyCounted'
  <1>1. Busy' = Busy
    BY InsideMoves
  <1>2. UNCHANGED <<m_processCount, rendezvous>>
    BY Zenon DEF InsideStep, Return, TakeRequest, CompleteRequest, UpdateDone, Resume,
           Enter, Yield, Suspend, CoroReturns, PathFind, Leave
  <1>3. m_jobSet' # {} \/ m_jobSet' = m_jobSet
    BY InsideQueue DEF addJob, queue
  <1> QED
    BY <1>1, <1>2, <1>3 DEF BusyCounted, RendezvousIsWoken

(* A job taken from the set is counted as it runs. *)
LEMMA GetNextJobCounted ==
  ASSUME Counters, BusyCounted, NEW w \in Thread, GetNextJob(w)
  PROVE  BusyCounted'
  <1>1. Busy' = Busy \cup {w} /\ w \notin Busy
    BY DEF Counters, ThreadsOK, GetNextJob, Busy, Out
  <1>2. Cardinality(Busy)' = Cardinality(Busy) + 1
    BY <1>1, BusyFinite, FS_AddElement
  <1>3. m_processCount' = m_processCount + 1
    BY Zenon DEF GetNextJob
  <1> QED
    BY <1>2, <1>3, BusyFinite DEF BusyCounted, RendezvousIsWoken

(* The thread that ends the last job wakes the caller. *)
LEMMA FinishJobCounted ==
  ASSUME Counters, BusyCounted, NEW w \in Thread, FinishJob(w)
  PROVE  BusyCounted'
  <1>1. Busy' = Busy \ {w} /\ w \in Busy
    BY DEF Counters, ThreadsOK, FinishJob, Busy, Out
  <1>2. Cardinality(Busy)' = Cardinality(Busy) - 1 /\ Cardinality(Busy)' \in Nat
    BY <1>1, BusyFinite, FS_RemoveElement, FS_CardinalityType
  <1>3. /\ m_processCount' = m_processCount - 1 /\ m_jobSet' = m_jobSet
        /\ notifyRendezvous(m_processCount - 1)
    BY DEF FinishJob
  <1>4. m_processCount' = Cardinality(Busy)'
    BY <1>2, <1>3 DEF BusyCounted
  <1> QED
    BY <1>2, <1>3, <1>4 DEF BusyCounted, RendezvousIsWoken, notifyRendezvous

(* A call of processTask is not a running job yet. *)
LEMMA TaskStartsCounted ==
  ASSUME Counters, BusyCounted, NEW w \in Thread, TaskStarts(w)
  PROVE  BusyCounted'
  <1>1. Busy' = Busy
    BY DEF Counters, ThreadsOK, TaskStarts, Goto, Busy, Out
  <1> QED
    BY <1>1, Zenon DEF TaskStarts, BusyCounted, RendezvousIsWoken

(* rendezvous returns once the queue has nothing to run: its caller never  *)
(* sleeps while m_processCount is zero and m_jobSet empty, so the last     *)
(* FinishJob is not missed.                                                *)
THEOREM RendezvousIsNeverMissed == Spec => []RendezvousIsWoken
  <1>1. (Counters /\ BusyCounted) /\ [Next]_vars => (Counters /\ BusyCounted)'
    <2> SUFFICES ASSUME Counters, BusyCounted, [Next]_vars PROVE Counters' /\ BusyCounted'
      OBVIOUS
    <2>1. Counters'
      BY StepKeepsCounters
    <2>2. BusyCounted'
      BY StepKinds, OutsideCounted, InsideCounted, TaskStartsCounted,
         GetNextJobCounted, FinishJobCounted
    <2> QED BY <2>1, <2>2
  <1>2. Init => Counters /\ BusyCounted
    <2> SUFFICES ASSUME Init PROVE Counters /\ BusyCounted
      OBVIOUS
    <2>1. Busy = {}
      BY Zenon DEF Init, Busy, Out
    <2>2. BusyCounted
      BY <2>1, FS_EmptySet, Zenon DEF Init, BusyCounted, RendezvousIsWoken
    <2> QED BY <2>2, InitCounters
  <1>3. Counters /\ BusyCounted => RendezvousIsWoken
    BY DEF BusyCounted
  <1> QED
    BY <1>1, <1>2, <1>3, PTL DEF Spec
-----------------------------------------------------------------------------
(* The coroutines and their mutex_. *)

(* Where a thread is on a coroutine's stack. *)
OnStack == {"body", "yield", "switch"}

CoroState ==
    [at : {"none", "created", "suspended", "running", "done"}, armed : BOOLEAN,
     running_ : BOOLEAN, holder : Thread \cup {NoThread}, yields : Nat]

(* Inductive: the thread on a coroutine's stack holds its mutex_, and the  *)
(* coroutine runs exactly while it is held.                                *)
CorosOK ==
    /\ coro \in [Coro -> CoroState]
    /\ \A w \in Thread :
          thread[w].at \in OnStack \cup {"lock"} => thread[w].job.work \in Coro
    /\ \A c \in Coro, w \in Thread :
          coro[c].holder = w <=> thread[w].at \in OnStack /\ thread[w].job.work = c
    /\ \A c \in Coro : coro[c].at = "running" <=> coro[c].holder # NoThread

(* A thread stays off every stack, or where it is on one. *)
Off == OnStack \cup {"lock"}
SameStack(w) ==
    \/ thread[w].at \notin Off /\ thread'[w].at \notin Off
    \/ /\ thread'[w].job.work = thread[w].job.work
       /\ thread[w].at \in Off
       /\ thread'[w].at \in OnStack <=> thread[w].at \in OnStack

(* What moves no thread onto a stack or off one, and takes no mutex_.      *)
LEMMA CorosUntouched ==
  ASSUME CorosOK, coro' \in [Coro -> CoroState],
         \A w \in Thread : SameStack(w),
         \A c \in Coro : /\ coro'[c].holder = coro[c].holder
                         /\ coro'[c].at = "running" <=> coro[c].at = "running"
  PROVE  CorosOK'
  <1>1. ASSUME NEW w \in Thread, thread'[w].at \in OnStack \cup {"lock"}
        PROVE  thread'[w].job.work \in Coro
    BY <1>1, Zenon DEF CorosOK, SameStack, Off
  <1>2. ASSUME NEW c \in Coro, NEW w \in Thread
        PROVE  coro'[c].holder = w
                 <=> thread'[w].at \in OnStack /\ thread'[w].job.work = c
    BY DEF CorosOK, SameStack, Off
  <1>3. \A c \in Coro : coro'[c].at = "running" <=> coro'[c].holder # NoThread
    BY Zenon DEF CorosOK
  <1> QED BY <1>1, <1>2, <1>3, Zenon DEF CorosOK

(* One coroutine's state changes. *)
LEMMA CoroSet ==
  ASSUME CorosOK, NEW c \in Coro, NEW r \in CoroState,
         coro' = [coro EXCEPT ![c] = r]
  PROVE  /\ coro' \in [Coro -> CoroState]
         /\ coro'[c] = r
         /\ \A d \in Coro \ {c} : coro'[d] = coro[d]
  BY ZenonT(40) DEF CorosOK

(* A change that neither takes nor frees the mutex_. *)
LEMMA CoroSameHolder ==
  ASSUME CorosOK, NEW c \in Coro, NEW r \in CoroState,
         coro' = [coro EXCEPT ![c] = r],
         r.holder = coro[c].holder,
         r.at = "running" <=> coro[c].at = "running"
  PROVE  /\ coro' \in [Coro -> CoroState]
         /\ \A d \in Coro : /\ coro'[d].holder = coro[d].holder
                            /\ coro'[d].at = "running" <=> coro[d].at = "running"
  <1>1. /\ coro' \in [Coro -> CoroState]
        /\ coro'[c] = r
        /\ \A d \in Coro \ {c} : coro'[d] = coro[d]
    BY CoroSet, Zenon
  <1> QED
    BY <1>1

(* The places of requests are none of a stack. *)
LEMMA RequestsOff == Coro \cap Off = {} /\ Coro \cap {"plain", "update", "none"} \subseteq {"none"}
  BY JobQueueAssumption DEF Off, OnStack, In, Out

(* Steps of the queue and of whoever posts. *)
LEMMA OutsideCoros ==
  ASSUME Counters, CorosOK, OutsideStep
  PROVE  CorosOK'
  <1>1. \A w \in Thread : SameStack(w)
    BY OutsideQueue DEF SameStack, Off
  <1>2. /\ coro' \in [Coro -> CoroState]
        /\ \A c \in Coro : /\ coro'[c].holder = coro[c].holder
                           /\ coro'[c].at = "running" <=> coro[c].at = "running"
    <2>1. CASE UNCHANGED coro
      BY <2>1, Zenon DEF CorosOK
    <2>2. ASSUME NEW d \in Coro, PostCoro(d) PROVE <1>2!1 /\ <1>2!2
      <3>1. /\ coro' = [coro EXCEPT ![d] = [coro[d] EXCEPT !.at = "created"]]
            /\ coro[d].at = "none" /\ coro[d] \in CoroState
        BY <2>2 DEF PostCoro, CorosOK
      <3>2. /\ [coro[d] EXCEPT !.at = "created"] \in CoroState
            /\ [coro[d] EXCEPT !.at = "created"].holder = coro[d].holder
            /\ [coro[d] EXCEPT !.at = "created"].at = "created"
        BY <3>1 DEF CoroState
      <3> QED BY <3>1, <3>2, CoroSameHolder, Zenon
    <2>3. ASSUME NEW d \in Coro, PostCreated(d) PROVE <1>2!1 /\ <1>2!2
      <3> DEFINE r == [coro[d] EXCEPT !.at = "suspended", !.running_ = TRUE]
      <3>1. /\ coro' = [coro EXCEPT ![d] = r]
            /\ coro[d].at = "created" /\ coro[d] \in CoroState
        BY <2>3 DEF PostCreated, CorosOK
      <3>2. r \in CoroState /\ r.holder = coro[d].holder /\ r.at = "suspended"
        BY <3>1, Zenon DEF CoroState
      <3> HIDE DEF r
      <3> QED BY <3>1, <3>2, CoroSameHolder, Zenon
    <2> QED
      BY <2>1, <2>2, <2>3, Zenon
         DEF OutsideStep, AddJob, NewLedger, Spawn, Stopping, StopStep,
             ChildrenStopped, OnChildrenStopped, Stopped, Rendezvous, AtRest, vars
  <1> QED
    BY <1>1, <1>2, CorosUntouched, Zenon

(* A thread that is off every stack before and after. *)
LEMMA StaysOff ==
  ASSUME CorosOK, NEW w \in Thread,
         thread[w].at \notin Off, thread'[w].at \notin Off,
         \A v \in Thread \ {w} : thread'[v] = thread[v],
         coro' \in [Coro -> CoroState],
         \A c \in Coro : /\ coro'[c].holder = coro[c].holder
                         /\ coro'[c].at = "running" <=> coro[c].at = "running"
  PROVE  CorosOK'
  <1>1. \A v \in Thread : SameStack(v)
    BY Zenon DEF SameStack, Off
  <1> QED
    BY <1>1, CorosUntouched, Zenon

(* The pool's threads outside of a coroutine's job. *)
LEMMA PoolCoros ==
  ASSUME Counters, CorosOK, NEW w \in Thread,
         \/ TaskStarts(w) \/ GetNextJob(w) \/ FinishJob(w) \/ Return(w)
         \/ UpdateDone(w)
  PROVE  CorosOK'
  <1>1. UNCHANGED coro
    BY DEF TaskStarts, GetNextJob, FinishJob, Return, UpdateDone
  <1>2. thread[w].at \notin Off /\ thread'[w].at \notin Off
    <2>1. /\ thread[w].at \in {"idle", "task", "run", "end"}
          /\ thread'[w].at \in {"idle", "task", "run", "end"}
      <3>1. CASE TaskStarts(w)
        BY <3>1 DEF TaskStarts, Goto, Counters, ThreadsOK
      <3>2. CASE GetNextJob(w)
        BY <3>2 DEF GetNextJob, Goto, Counters, ThreadsOK
      <3>3. CASE FinishJob(w)
        BY <3>3 DEF FinishJob, Goto, Counters, ThreadsOK
      <3>4. CASE Return(w)
        BY <3>4 DEF Return, Works, Goto, Counters, ThreadsOK
      <3>5. CASE UpdateDone(w)
        BY <3>5 DEF UpdateDone, Works, Goto, Counters, ThreadsOK
      <3> QED BY <3>1, <3>2, <3>3, <3>4, <3>5, Zenon
    <2> QED BY <2>1, Zenon DEF Off, OnStack
  <1>3. \A v \in Thread \ {w} : thread'[v] = thread[v]
    BY Zenon DEF TaskStarts, GetNextJob, FinishJob, Return, UpdateDone, Goto,
           Counters, ThreadsOK
  <1> QED
    BY <1>1, <1>2, <1>3, StaysOff, Zenon DEF CorosOK

(* The requests of coroutines are taken and completed outside of them. *)
LEMMA RequestCoros ==
  ASSUME Counters, CorosOK, NEW w \in Thread, NEW c \in Coro,
         TakeRequest(w, c) \/ CompleteRequest(w, c)
  PROVE  CorosOK'
  <1>1. thread[w].at \notin Off /\ thread'[w].at \notin Off
    <2>1. \/ thread[w].at = "run" /\ thread'[w].at = c
          \/ thread[w].at = c /\ thread'[w].at = "run"
      BY DEF TakeRequest, CompleteRequest, Works, Goto, Counters, ThreadsOK
    <2>2. "run" \notin Off /\ c \notin Off
      BY RequestsOff DEF Off, OnStack
    <2> QED BY <2>1, <2>2, Zenon
  <1>2. \A v \in Thread \ {w} : thread'[v] = thread[v]
    BY DEF TakeRequest, CompleteRequest, Goto, Counters, ThreadsOK
  <1>3. /\ coro' \in [Coro -> CoroState]
        /\ \A d \in Coro : /\ coro'[d].holder = coro[d].holder
                           /\ coro'[d].at = "running" <=> coro[d].at = "running"
    <2>1. PICK r : /\ coro' = [coro EXCEPT ![c] = r]
                   /\ \/ r = [coro[c] EXCEPT !.armed = FALSE]
                      \/ r = [coro[c] EXCEPT !.running_ = TRUE]
      BY Zenon DEF TakeRequest, CompleteRequest
    <2>2. coro[c] \in CoroState
      BY Zenon DEF CorosOK
    <2>3. r \in CoroState /\ r.holder = coro[c].holder /\ r.at = coro[c].at
      BY <2>1, <2>2, Zenon DEF CoroState
    <2> QED BY <2>1, <2>3, CoroSameHolder, Zenon
  <1> QED
    BY <1>1, <1>2, <1>3, StaysOff, Zenon

(* The job of a post waits for mutex_ before it is on the stack. *)
LEMMA ResumeCoros ==
  ASSUME Counters, CorosOK, NEW w \in Thread, Resume(w)
  PROVE  CorosOK'
  <1>1. /\ thread[w].at = "run" /\ thread[w].job.work \in Coro
        /\ thread'[w].at = "lock" /\ thread'[w].job = thread[w].job
        /\ \A v \in Thread \ {w} : thread'[v] = thread[v]
        /\ coro' = coro
    BY DEF Resume, Works, Goto, Counters, ThreadsOK
  <1>2. thread[w].at \notin OnStack /\ thread'[w].at \notin OnStack
    BY <1>1, Zenon DEF OnStack
  <1>3. \A v \in Thread : thread'[v].at \in OnStack \cup {"lock"}
                            => thread'[v].job.work \in Coro
    BY <1>1, Zenon DEF CorosOK
  <1>4. ASSUME NEW c \in Coro, NEW v \in Thread
        PROVE  coro'[c].holder = v
                 <=> thread'[v].at \in OnStack /\ thread'[v].job.work = c
    <2>1. coro[c].holder = v <=> thread[v].at \in OnStack /\ thread[v].job.work = c
      BY Zenon DEF CorosOK
    <2>2. CASE v = w
      BY <1>1, <1>2, <2>1, <2>2, Zenon
    <2>3. CASE v # w
      BY <1>1, <2>1, <2>3, Zenon
    <2> QED BY <2>2, <2>3, Zenon
  <1> QED BY <1>1, <1>3, <1>4, Zenon DEF CorosOK

(* A path request and the yield after it are made on the stack. *)
LEMMA YieldCoros ==
  ASSUME Counters, CorosOK, NEW w \in Thread, PathFind(w) \/ Yield(w)
  PROVE  CorosOK'
  <1>1. /\ thread[w].at \in OnStack /\ thread'[w].at \in OnStack
        /\ thread'[w].job = thread[w].job
        /\ \A v \in Thread \ {w} : thread'[v] = thread[v]
    BY DEF PathFind, Yield, Goto, Counters, ThreadsOK, OnStack
  <1>2. \A v \in Thread : SameStack(v)
    BY <1>1, Zenon DEF SameStack, Off
  <1>3. thread[w].job.work \in Coro
    BY <1>1, Zenon DEF CorosOK
  <1>4. /\ coro' \in [Coro -> CoroState]
        /\ \A d \in Coro : /\ coro'[d].holder = coro[d].holder
                           /\ coro'[d].at = "running" <=> coro[d].at = "running"
    <2> DEFINE c == thread[w].job.work
               r == [coro[c] EXCEPT !.armed = TRUE, !.yields = coro[c].yields + 1]
    <2>1. CASE PathFind(w)
      <3>1. coro' = [coro EXCEPT ![c] = r] /\ coro[c] \in CoroState
        BY <1>3, <2>1, Zenon DEF PathFind, CorosOK
      <3>2. r \in CoroState /\ r.holder = coro[c].holder /\ r.at = coro[c].at
        <4>1. coro[c].yields + 1 \in Nat
          BY <3>1 DEF CoroState
        <4> QED BY <3>1, <4>1, Zenon DEF CoroState
      <3> HIDE DEF r
      <3> QED BY <1>3, <3>1, <3>2, CoroSameHolder, Zenon
    <2>2. CASE Yield(w)
      BY <2>2, Zenon DEF Yield, CorosOK
    <2> QED BY <2>1, <2>2, Zenon
  <1> QED
    BY <1>2, <1>4, CorosUntouched, Zenon

(* A thread that gets a free mutex_ is the only one on the stack. *)
LEMMA EnterCoros ==
  ASSUME Counters, CorosOK, NEW w \in Thread, Enter(w)
  PROVE  CorosOK'
  <1>1. PICK c \in Coro : c = thread[w].job.work
    BY DEF Enter, CorosOK
  <1>2. /\ thread[w].at = "lock" /\ coro[c].holder = NoThread
        /\ coro' = [coro EXCEPT ![c] = [@ EXCEPT !.holder = w, !.at = "running"]]
        /\ thread'[w].at = "body" /\ thread'[w].job = thread[w].job
        /\ \A v \in Thread \ {w} : thread'[v] = thread[v]
    BY <1>1 DEF Enter, Goto, Counters, ThreadsOK
  <1>3. /\ coro' \in [Coro -> CoroState]
        /\ coro'[c].holder = w /\ coro'[c].at = "running"
        /\ \A d \in Coro \ {c} : coro'[d] = coro[d]
    <2> DEFINE r == [coro[c] EXCEPT !.holder = w, !.at = "running"]
    <2>1. coro' = [coro EXCEPT ![c] = r] /\ coro[c] \in CoroState
      BY <1>2 DEF CorosOK
    <2>2. r \in CoroState /\ r.holder = w /\ r.at = "running"
      BY <2>1, Zenon DEF CoroState
    <2> HIDE DEF r
    <2> QED BY <2>1, <2>2, CoroSet, Zenon
  <1>4. NoThread \notin Thread
    BY JobQueueAssumption
  <1> QED
    BY <1>1, <1>2, <1>3, <1>4 DEF CorosOK, OnStack

(* Leaving the stack gives the mutex_ back. *)
LEMMA LeaveCoros ==
  ASSUME Counters, CorosOK, NEW w \in Thread, Suspend(w) \/ CoroReturns(w)
  PROVE  CorosOK'
  <1>1. PICK c \in Coro : c = thread[w].job.work
    BY Zenon DEF Suspend, CoroReturns, CorosOK, OnStack
  <1>2. PICK at \in {"suspended", "done"} :
          coro' = [coro EXCEPT ![c] = [@ EXCEPT !.at = at, !.running_ = FALSE,
                                                !.holder = NoThread]]
    BY <1>1 DEF Suspend, CoroReturns, Leave
  <1>3. /\ thread[w].at \in OnStack
        /\ thread'[w].at = "end" /\ thread'[w].job = thread[w].job
        /\ \A v \in Thread \ {w} : thread'[v] = thread[v]
    BY DEF Suspend, CoroReturns, Leave, Goto, Counters, ThreadsOK, OnStack
  <1>4. coro[c].holder = w
    BY <1>1, <1>3, Zenon DEF CorosOK
  <1>5. /\ coro' \in [Coro -> CoroState]
        /\ coro'[c].holder = NoThread /\ coro'[c].at # "running"
        /\ \A d \in Coro \ {c} : coro'[d] = coro[d]
    <2> DEFINE r == [coro[c] EXCEPT !.at = at, !.running_ = FALSE,
                                    !.holder = NoThread]
    <2>1. coro' = [coro EXCEPT ![c] = r] /\ coro[c] \in CoroState
      BY <1>2 DEF CorosOK
    <2>2. r \in CoroState /\ r.holder = NoThread /\ r.at = at
      BY <2>1, Zenon DEF CoroState
    <2> HIDE DEF r
    <2> QED BY <2>1, <2>2, CoroSet, Zenon
  <1>6. NoThread \notin Thread
    BY JobQueueAssumption
  <1>7. thread'[w].at \notin OnStack \cup {"lock"}
    BY <1>3 DEF OnStack
  <1>8. \A v \in Thread : thread'[v].at \in OnStack \cup {"lock"}
                            => thread'[v].job.work \in Coro
    BY <1>3, <1>7, Zenon DEF CorosOK
  <1>9. ASSUME NEW d \in Coro, NEW v \in Thread
        PROVE  coro'[d].holder = v
                 <=> thread'[v].at \in OnStack /\ thread'[v].job.work = d
    <2>0. coro[d].holder = v <=> thread[v].at \in OnStack /\ thread[v].job.work = d
      BY Zenon DEF CorosOK
    <2>1. CASE v = w
      BY <1>1, <1>4, <1>5, <1>6, <1>7, <2>0, <2>1, Zenon
    <2>2. CASE v # w
      <3>1. thread'[v] = thread[v]
        BY <1>3, <2>2, Zenon
      <3>2. CASE d = c
        BY <1>4, <1>5, <1>6, <2>0, <2>2, <3>1, <3>2, Zenon
      <3>3. CASE d # c
        BY <1>5, <2>0, <3>1, <3>3, Zenon
      <3> QED BY <3>2, <3>3, Zenon
    <2> QED BY <2>1, <2>2, Zenon
  <1>10. \A d \in Coro : coro'[d].at = "running" <=> coro'[d].holder # NoThread
    BY <1>5 DEF CorosOK
  <1> QED BY <1>5, <1>8, <1>9, <1>10, Zenon DEF CorosOK

(* A mutex_ that is held has one holder, and a free one none. *)
LEMMA HeldByOne == Counters /\ CorosOK => OneThreadPerCoroutine
  <1> SUFFICES ASSUME Counters, CorosOK, NEW c \in Coro
               PROVE  LET in == {w \in Thread : thread[w].job.work = c
                                     /\ thread[w].at \in {"body", "yield", "switch"}}
                      IN  Cardinality(in) = IF coro[c].at = "running" THEN 1 ELSE 0
    BY DEF OneThreadPerCoroutine
  <1> DEFINE in == {w \in Thread : thread[w].job.work = c
                      /\ thread[w].at \in {"body", "yield", "switch"}}
  <1>1. in = {w \in Thread : coro[c].holder = w}
    BY DEF CorosOK, OnStack
  <1>2. CASE coro[c].at = "running"
    <2>1. coro[c].holder \in Thread
      BY <1>2 DEF CorosOK, CoroState
    <2>2. in = {coro[c].holder}
      BY <1>1, <2>1
    <2> QED BY <1>2, <2>2, FS_Singleton, Zenon
  <1>3. CASE coro[c].at # "running"
    <2>1. in = {}
      BY <1>1, <1>3, JobQueueAssumption DEF CorosOK
    <2> QED BY <1>3, <2>1, FS_EmptySet, Zenon
  <1> QED
    BY <1>2, <1>3, Zenon

(* "The lock prevents this": however a post overtakes the yield before it, *)
(* a coroutine is on the stack of one thread while it runs and of none     *)
(* while it is suspended.                                                  *)
THEOREM CoroutinesAreExclusive == Spec => []OneThreadPerCoroutine
  <1>1. (Counters /\ CorosOK) /\ [Next]_vars => (Counters /\ CorosOK)'
    <2> SUFFICES ASSUME Counters, CorosOK, [Next]_vars PROVE Counters' /\ CorosOK'
      OBVIOUS
    <2>1. Counters'
      BY StepKeepsCounters
    <2>2. ASSUME NEW w \in Thread, InsideStep(w) PROVE CorosOK'
      BY <2>2, PoolCoros, RequestCoros, ResumeCoros, YieldCoros, EnterCoros,
         LeaveCoros DEF InsideStep
    <2>3. CorosOK'
      BY <2>2, StepKinds, OutsideCoros, PoolCoros
    <2> QED BY <2>1, <2>3
  <1>2. Init => Counters /\ CorosOK
    <2> SUFFICES ASSUME Init PROVE Counters /\ CorosOK
      OBVIOUS
    <2>1. CorosOK
      <3>1. coro \in [Coro -> CoroState]
        BY Zenon DEF Init, CoroState
      <3>2. \A w \in Thread : thread[w].at = "idle"
        BY Zenon DEF Init
      <3>3. \A c \in Coro : coro[c].at = "none" /\ coro[c].holder = NoThread
        BY Zenon DEF Init
      <3> QED BY <3>1, <3>2, <3>3, JobQueueAssumption, Zenon DEF CorosOK, OnStack
    <2> QED BY <2>1, InitCounters
  <1> QED
    BY <1>1, <1>2, HeldByOne, PTL DEF Spec
-----------------------------------------------------------------------------
(* The pool under the queue: the books it keeps of its tasks and of its    *)
(* threads, for any threads, sizes, tasks and resizes.                     *)

Hand == {"load", "decrement", "undo", "task"}
Serving == {"begin", "reset", "wait", "load", "decrement", "undo", "task", "running"}
Resting == {"leave", "signal", "parked"}
Labels == Serving \cup Resting \cup {"none", "push"}

Bit(b) == IF b THEN 1 ELSE 0

(* Counts are integers. *)
LEMMA NatIsInt == \A n \in Nat : n \in Int
  OBVIOUS

(* A worker at l whose wakeCount_ is c serves or is about to. *)
IsUp(l, c) == l \in Serving \/ (l \in Resting \cup {"push"} /\ c > 0)

InHand == {w \in Worker : pc[w] \in Hand}
Undoing == {w \in Worker : pc[w] = "undo"}
Up == {w \in Worker : IsUp(pc[w], wakeCount[w])}

(* The workers asked to pause that still serve. *)
Pauses == m_pauseCount + Cardinality(Undoing)

PoolTypes ==
    /\ pc \in [Worker -> Labels] /\ wakeCount \in [Worker -> {0, 1}]
    /\ m_semaphore \in Nat /\ m_pauseCount \in Int
    /\ added \in Nat /\ started \in Nat /\ m_numberOfThreads \in Nat
    /\ control \in [at : {"idle", "raise", "lower", "notify", "set", "wait"},
                    left : Nat, size : Nat, all : BOOLEAN]

(* The stack m_paused holds workers that rest and have not been woken, and *)
(* each of them once; no other is woken.                                   *)
Stack ==
    /\ m_paused \in Seq(Worker)
    /\ \A i \in 1 .. Len(m_paused) :
          pc[m_paused[i]] \in Resting /\ wakeCount[m_paused[i]] = 0
    /\ \A i, j \in 1 .. Len(m_paused) : m_paused[i] = m_paused[j] => i = j
    /\ \A w \in Worker : pc[w] \notin Resting => wakeCount[w] = 0

(* NoTaskIsLost. *)
Books ==
    added - started = m_semaphore + Cardinality(InHand)
                      + Bit(control.at = "notify") - Pauses

(* AsManyAsAskedFor, within a resize too: the workers that are up and not  *)
(* asked to pause are as many as the loops of setNumberOfThreads have got  *)
(* to.                                                                     *)
Asked ==
    /\ control.at \in {"idle", "wait"} =>
          Cardinality(Up) - Pauses = m_numberOfThreads
    /\ control.at = "raise" =>
          /\ control.left > 0
          /\ Cardinality(Up) - Pauses = control.size - control.left
    /\ control.at = "lower" =>
          /\ control.left > 0
          /\ Cardinality(Up) - Pauses = control.size + control.left
    /\ control.at = "notify" =>
          /\ control.left > 0
          /\ Cardinality(Up) - Pauses = control.size + control.left - 1
    /\ control.at = "set" => Cardinality(Up) - Pauses = control.size

PoolInv == PoolTypes /\ Stack /\ Books /\ Asked

(* A set that only w may enter or leave grows or shrinks by at most one. *)
LEMMA OneMore ==
  ASSUME NEW A, NEW B, IsFiniteSet(A), NEW w, A \ {w} = B \ {w}
  PROVE  /\ Cardinality(A) \in Nat /\ Cardinality(B) \in Nat
         /\ Cardinality(B) = Cardinality(A) + Bit(w \in B) - Bit(w \in A)
  <1>1. Cardinality(A) \in Nat
    BY FS_CardinalityType
  <1>2. CASE (w \in A) = (w \in B)
    <2>1. A = B
      BY <1>2
    <2> QED BY <1>1, <2>1 DEF Bit
  <1>3. CASE w \in A /\ w \notin B
    <2>1. B = A \ {w}
      BY <1>3
    <2>2. Cardinality(A \ {w}) = Cardinality(A) - 1 /\ IsFiniteSet(A \ {w})
      BY <1>3, FS_RemoveElement, Zenon
    <2>3. Cardinality(B) \in Nat
      BY <2>1, <2>2, FS_CardinalityType, Zenon
    <2> QED BY <1>1, <1>3, <2>1, <2>2, <2>3 DEF Bit
  <1>4. CASE w \notin A /\ w \in B
    <2>1. B = A \cup {w}
      BY <1>4
    <2>2. Cardinality(A \cup {w}) = Cardinality(A) + 1
      BY <1>4, FS_AddElement, Zenon
    <2> QED BY <1>1, <1>4, <2>1, <2>2 DEF Bit
  <1> QED BY <1>2, <1>3, <1>4

(* The sets of workers are finite. *)
LEMMA PoolCounts ==
  ASSUME IsFiniteSet(Worker)
  PROVE  /\ IsFiniteSet(InHand) /\ IsFiniteSet(Undoing) /\ IsFiniteSet(Up)
         /\ Cardinality(InHand) \in Nat /\ Cardinality(Undoing) \in Nat
         /\ Cardinality(Up) \in Nat
  <1>1. InHand \subseteq Worker /\ Undoing \subseteq Worker /\ Up \subseteq Worker
    BY DEF InHand, Undoing, Up
  <1>2. IsFiniteSet(InHand) /\ IsFiniteSet(Undoing) /\ IsFiniteSet(Up)
    BY <1>1, FS_Subset, Zenon
  <1> QED BY <1>2, FS_CardinalityType, Zenon

(* What a worker that goes on to l, its wakeCount_ now c, does to the      *)
(* counts.                                                                 *)
LEMMA WorkerMoves ==
  ASSUME IsFiniteSet(Worker), PoolTypes, NEW w \in Worker, NEW l, NEW c,
         pc' = [pc EXCEPT ![w] = l], wakeCount' = [wakeCount EXCEPT ![w] = c]
  PROVE  /\ Cardinality(InHand)' = Cardinality(InHand)
                                   + Bit(l \in Hand) - Bit(pc[w] \in Hand)
         /\ Cardinality(Undoing)' = Cardinality(Undoing)
                                    + Bit(l = "undo") - Bit(pc[w] = "undo")
         /\ Cardinality(Up)' = Cardinality(Up)
                               + Bit(IsUp(l, c)) - Bit(IsUp(pc[w], wakeCount[w]))
         /\ Cardinality(InHand) \in Nat /\ Cardinality(Undoing) \in Nat
         /\ Cardinality(Up) \in Nat
  <1>1. /\ IsFiniteSet(InHand) /\ IsFiniteSet(Undoing) /\ IsFiniteSet(Up)
        /\ Cardinality(InHand) \in Nat /\ Cardinality(Undoing) \in Nat
        /\ Cardinality(Up) \in Nat
    BY PoolCounts
  <1>2. /\ pc'[w] = l /\ wakeCount'[w] = c
        /\ \A x \in Worker \ {w} : pc'[x] = pc[x] /\ wakeCount'[x] = wakeCount[x]
    <2>1. DOMAIN pc = Worker /\ DOMAIN wakeCount = Worker
      BY DEF PoolTypes
    <2> QED BY <2>1, Zenon
  <1>3. /\ InHand \ {w} = InHand' \ {w} /\ Undoing \ {w} = Undoing' \ {w}
        /\ Up \ {w} = Up' \ {w}
    BY <1>2, Zenon DEF InHand, Undoing, Up
  <1>4. /\ Bit(w \in InHand) = Bit(pc[w] \in Hand)
        /\ Bit(w \in InHand') = Bit(l \in Hand)
        /\ Bit(w \in Undoing) = Bit(pc[w] = "undo")
        /\ Bit(w \in Undoing') = Bit(l = "undo")
        /\ Bit(w \in Up) = Bit(IsUp(pc[w], wakeCount[w]))
        /\ Bit(w \in Up') = Bit(IsUp(l, c))
    BY <1>2, Zenon DEF InHand, Undoing, Up, IsUp, Bit
  <1>5. Cardinality(InHand') = Cardinality(InHand) + Bit(w \in InHand') - Bit(w \in InHand)
    BY <1>1, <1>3, OneMore, Zenon
  <1>6. Cardinality(Undoing') = Cardinality(Undoing) + Bit(w \in Undoing') - Bit(w \in Undoing)
    BY <1>1, <1>3, OneMore, Zenon
  <1>7. Cardinality(Up') = Cardinality(Up) + Bit(w \in Up') - Bit(w \in Up)
    BY <1>1, <1>3, OneMore, Zenon
  <1> QED BY <1>1, <1>4, <1>5, <1>6, <1>7, Zenon

(* The invariant holds before a thread is made. *)
LEMMA PoolBegins ==
  ASSUME IsFiniteSet(Worker), PoolInit
  PROVE  PoolInv
  <1>1. /\ pc = [w \in Worker |-> "none"] /\ wakeCount = [w \in Worker |-> 0]
        /\ m_semaphore = 0 /\ m_pauseCount = 0 /\ m_paused = <<>>
        /\ m_numberOfThreads = 0 /\ added = 0 /\ started = 0
        /\ control = [at |-> "idle", left |-> 0, size |-> 0, all |-> FALSE]
    BY Zenon DEF PoolInit, Idle
  <1>2. PoolTypes
    BY <1>1 DEF PoolTypes, Labels
  <1>3. Stack
    BY <1>1 DEF Stack
  <1>4. InHand = {} /\ Undoing = {} /\ Up = {}
    BY <1>1, Zenon DEF InHand, Undoing, Up, IsUp, Hand, Serving, Resting
  <1>5. Cardinality(InHand) = 0 /\ Cardinality(Undoing) = 0 /\ Cardinality(Up) = 0
    BY <1>4, FS_EmptySet, Zenon
  <1>6. Books /\ Asked
    BY <1>1, <1>5 DEF Books, Asked, Pauses, Bit
  <1> QED BY <1>2, <1>3, <1>6 DEF PoolInv

(* A step of a worker that is not on the stack and leaves the stack alone  *)
(* keeps the stack.                                                        *)
LEMMA StackKept ==
  ASSUME PoolTypes, Stack, NEW w \in Worker, NEW l, NEW c,
         pc' = [pc EXCEPT ![w] = l], wakeCount' = [wakeCount EXCEPT ![w] = c],
         UNCHANGED m_paused, l \notin Resting => c = 0,
         (l \in Resting /\ c = 0) \/ pc[w] \notin Resting \/ wakeCount[w] # 0
  PROVE  Stack'
  <1>1. /\ pc'[w] = l /\ wakeCount'[w] = c
        /\ \A x \in Worker \ {w} : pc'[x] = pc[x] /\ wakeCount'[x] = wakeCount[x]
    <2>1. DOMAIN pc = Worker /\ DOMAIN wakeCount = Worker
      BY DEF PoolTypes
    <2> QED BY <2>1, Zenon
  <1>2. ASSUME NEW i \in 1 .. Len(m_paused)
        PROVE  pc'[m_paused[i]] \in Resting /\ wakeCount'[m_paused[i]] = 0
    <2>1. /\ m_paused[i] \in Worker
          /\ pc[m_paused[i]] \in Resting /\ wakeCount[m_paused[i]] = 0
      BY DEF Stack
    <2> QED BY <1>1, <2>1, Zenon
  <1>3. \A x \in Worker : pc'[x] \notin Resting => wakeCount'[x] = 0
    BY <1>1, Zenon DEF Stack
  <1> QED BY <1>2, <1>3, Zenon DEF Stack

(* What w does to the counters when it gets to l, with its wakeCount_ at c, *)
(* balances what it does to the counts.                                    *)
Balances(w, l, c) ==
    /\ started' - started =
          Bit(pc[w] \in Hand) - Bit(l \in Hand) - (m_semaphore' - m_semaphore)
          + (m_pauseCount' - m_pauseCount) + Bit(l = "undo") - Bit(pc[w] = "undo")
    /\ Bit(IsUp(l, c)) - Bit(IsUp(pc[w], wakeCount[w])) =
          (m_pauseCount' - m_pauseCount) + Bit(l = "undo") - Bit(pc[w] = "undo")

(* A worker that goes on without a look at its wakeCount_, and the books:  *)
(* what it does to the counts has to balance what it does to the counters. *)
LEMMA WorkerStep ==
  ASSUME IsFiniteSet(Worker), PoolInv, NEW w \in Worker, NEW l \in Labels,
         NEW c \in {0, 1},
         pc' = [pc EXCEPT ![w] = l], wakeCount' = [wakeCount EXCEPT ![w] = c],
         UNCHANGED <<m_numberOfThreads, control, added>>,
         m_semaphore' \in Nat, m_pauseCount' \in Int, started' \in Nat,
         Balances(w, l, c)
  PROVE  PoolTypes' /\ Books' /\ Asked'
  <1>1. /\ Cardinality(InHand)' = Cardinality(InHand)
                                  + Bit(l \in Hand) - Bit(pc[w] \in Hand)
        /\ Cardinality(Undoing)' = Cardinality(Undoing)
                                   + Bit(l = "undo") - Bit(pc[w] = "undo")
        /\ Cardinality(Up)' = Cardinality(Up)
                              + Bit(IsUp(l, c)) - Bit(IsUp(pc[w], wakeCount[w]))
        /\ Cardinality(InHand) \in Nat /\ Cardinality(Undoing) \in Nat
        /\ Cardinality(Up) \in Nat
    BY WorkerMoves, Zenon DEF PoolInv
  <1>2. PoolTypes'
    <2>1. pc' \in [Worker -> Labels] /\ wakeCount' \in [Worker -> {0, 1}]
      BY Zenon DEF PoolInv, PoolTypes
    <2> QED BY <2>1, Zenon DEF PoolInv, PoolTypes
  <1> DEFINE h == Bit(l \in Hand)
             h0 == Bit(pc[w] \in Hand)
             u == Bit(l = "undo")
             u0 == Bit(pc[w] = "undo")
             p == Bit(IsUp(l, c))
             p0 == Bit(IsUp(pc[w], wakeCount[w]))
             k == Bit(control.at = "notify")
  <1>3. /\ h \in Int /\ h0 \in Int /\ u \in Int /\ u0 \in Int /\ p \in Int
        /\ p0 \in Int /\ k \in Int
    BY DEF Bit
  <1>4. /\ m_semaphore \in Nat /\ m_pauseCount \in Int /\ added \in Nat
        /\ started \in Nat
    BY Zenon DEF PoolInv, PoolTypes
  <1>5. /\ added' = added /\ control' = control
        /\ m_numberOfThreads' = m_numberOfThreads
    BY Zenon
  <1>6. Bit(control.at = "notify")' = k
    BY <1>5, Zenon
  <1> HIDE DEF h, h0, u, u0, p, p0, k
  <1>7. /\ started' - started = h0 - h - (m_semaphore' - m_semaphore)
                                + (m_pauseCount' - m_pauseCount) + u - u0
        /\ p - p0 = (m_pauseCount' - m_pauseCount) + u - u0
        /\ Cardinality(InHand)' = Cardinality(InHand) + h - h0
        /\ Cardinality(Undoing)' = Cardinality(Undoing) + u - u0
        /\ Cardinality(Up)' = Cardinality(Up) + p - p0
    BY <1>1, Zenon DEF Balances, h, h0, u, u0, p, p0
  <1>8. Books'
    <2>1. added - started = m_semaphore + Cardinality(InHand) + k
                            - (m_pauseCount + Cardinality(Undoing))
      <3>1. Books
        BY ZenonT(30) DEF PoolInv
      <3> HIDE DEF InHand, Undoing
      <3> QED BY <3>1, Zenon DEF Books, Pauses, k
    <2>2. added' - started' = m_semaphore' + Cardinality(InHand)' + k
                              - (m_pauseCount' + Cardinality(Undoing)')
      <3> DEFINE a == m_pauseCount
                 b == m_pauseCount'
                 x == Cardinality(InHand)
                 y == Cardinality(Undoing)
                 e == m_semaphore
                 f == m_semaphore'
                 n == added
                 g == started
                 d == started'
      <3>1. /\ a \in Int /\ b \in Int /\ x \in Int /\ y \in Int /\ e \in Int
            /\ f \in Int /\ n \in Int /\ g \in Int /\ d \in Int
        BY <1>1, <1>4, NatIsInt, Zenon
      <3>2. /\ d - g = h0 - h - (f - e) + (b - a) + u - u0
            /\ n - g = e + x + k - (a + y)
        BY <1>7, <2>1, Zenon
      <3> HIDE DEF a, b, x, y, e, f, n, g, d
      <3>3. n - d = f + (x + h - h0) + k - (b + (y + u - u0))
        BY <1>3, <3>1, <3>2
      <3> QED BY <1>5, <1>7, <3>3, Zenon DEF a, b, x, y, e, f, n, d
    <2> QED BY <1>6, <2>2, Zenon DEF Books, Pauses
  <1>9. Asked'
    <2>1. Cardinality(Up)' - (m_pauseCount' + Cardinality(Undoing)')
             = Cardinality(Up) - (m_pauseCount + Cardinality(Undoing))
      <3> DEFINE a == m_pauseCount
                 b == m_pauseCount'
                 x == Cardinality(Up)
                 y == Cardinality(Undoing)
      <3>1. a \in Int /\ b \in Int /\ x \in Int /\ y \in Int
        BY <1>1, <1>4, NatIsInt, Zenon
      <3>2. p - p0 = (b - a) + u - u0
        BY <1>7, Zenon
      <3> HIDE DEF a, b, x, y
      <3>3. (x + p - p0) - (b + (y + u - u0)) = x - (a + y)
        BY <1>3, <3>1, <3>2
      <3> QED BY <1>7, <3>3, Zenon DEF a, b, x, y
    <2> QED BY <1>5, <2>1, Zenon DEF Asked, PoolInv, Pauses
  <1> QED BY <1>2, <1>8, <1>9, Zenon

(* Where each step of run() that leaves the stack and the wakeCount_       *)
(* alone takes the worker, and what it counts.                             *)
LEMMA RunStep ==
  ASSUME IsFiniteSet(Worker), PoolInv, NEW w \in Worker,
         \/ Begin(w) \/ Reset(w) \/ Acquire(w) \/ Load(w)
         \/ Decrement(w) \/ Undo(w) \/ ProcessTask(w)
         \/ TaskDone(w) \/ Deactivate(w) \/ Signal(w)
  PROVE  PoolInv'
  <1>1. PICK l : /\ pc' = [pc EXCEPT ![w] = l]
                 /\ \/ /\ <<pc[w], l>> \in {<<"begin", "reset">>, <<"begin", "wait">>,
                                            <<"reset", "wait">>, <<"load", "decrement">>,
                                            <<"load", "task">>, <<"running", "wait">>,
                                            <<"leave", "signal">>, <<"leave", "parked">>,
                                            <<"signal", "parked">>}
                       /\ UNCHANGED <<m_semaphore, m_pauseCount, started>>
                    \/ /\ pc[w] = "wait" /\ l = "load"
                       /\ m_semaphore > 0 /\ m_semaphore' = m_semaphore - 1
                       /\ UNCHANGED <<m_pauseCount, started>>
                    \/ /\ pc[w] = "decrement" /\ l \in {"push", "undo"}
                       /\ m_pauseCount' = m_pauseCount - 1
                       /\ UNCHANGED <<m_semaphore, started>>
                    \/ /\ pc[w] = "undo" /\ l = "task"
                       /\ m_pauseCount' = m_pauseCount + 1
                       /\ UNCHANGED <<m_semaphore, started>>
                    \/ /\ pc[w] = "task" /\ l = "running"
                       /\ started' = started + 1
                       /\ UNCHANGED <<m_semaphore, m_pauseCount>>
    <2>1. CASE Begin(w) \/ Reset(w)
      BY <2>1, Zenon DEF Begin, Reset, WorkerGoto, counters, calls
    <2>2. CASE Acquire(w)
      BY <2>2, Zenon DEF Acquire, WorkerGoto, counters, calls
    <2>3. CASE Load(w)
      BY <2>3, Zenon DEF Load, WorkerGoto, counters, calls
    <2>4. CASE Decrement(w)
      BY <2>4, Zenon DEF Decrement, WorkerGoto, calls
    <2>5. CASE Undo(w)
      BY <2>5, Zenon DEF Undo, WorkerGoto, calls
    <2>6. CASE ProcessTask(w)
      BY <2>6, Zenon DEF ProcessTask, WorkerGoto
    <2>7. CASE TaskDone(w)
      BY <2>7, Zenon DEF TaskDone, WorkerGoto, calls
    <2>8. CASE Deactivate(w)
      BY <2>8, Zenon DEF Deactivate, WorkerGoto, calls
    <2>9. CASE Signal(w)
      BY <2>9, ZenonT(30) DEF Signal, WorkerGoto, counters, calls
    <2> QED BY <2>1, <2>2, <2>3, <2>4, <2>5, <2>6, <2>7, <2>8, <2>9, Zenon
  <1>2. UNCHANGED <<wakeCount, m_paused, m_numberOfThreads, control, added>>
    BY Zenon DEF Begin, Reset, Acquire, Load, Decrement,
           Undo, ProcessTask, TaskDone, Deactivate, Signal,
           controller, calls
  <1> DEFINE c == wakeCount[w]
  <1>3. c \in {0, 1} /\ wakeCount' = [wakeCount EXCEPT ![w] = c]
    <2>1. wakeCount \in [Worker -> {0, 1}]
      BY ZenonT(30) DEF PoolInv, PoolTypes
    <2> QED BY <1>2, <2>1
  <1>4. (pc[w] \notin Resting => c = 0) /\ l \in Labels
    BY <1>1, Zenon DEF PoolInv, Stack, Labels, Serving, Resting
  <1>5. /\ m_semaphore \in Nat /\ m_pauseCount \in Int /\ started \in Nat
    BY DEF PoolInv, PoolTypes
  <1> HIDE DEF c
  <1>6. /\ m_semaphore' \in Nat /\ m_pauseCount' \in Int /\ started' \in Nat
        /\ started' - started =
            Bit(pc[w] \in Hand) - Bit(l \in Hand) - (m_semaphore' - m_semaphore)
            + (m_pauseCount' - m_pauseCount) + Bit(l = "undo") - Bit(pc[w] = "undo")
    BY <1>1, <1>5 DEF Bit, Hand
  <1>7. Bit(IsUp(l, c)) - Bit(IsUp(pc[w], c)) =
            (m_pauseCount' - m_pauseCount) + Bit(l = "undo") - Bit(pc[w] = "undo")
    BY <1>1, <1>3, <1>4, <1>5 DEF Bit, IsUp, Serving, Resting
  <1>8. PoolTypes' /\ Books' /\ Asked'
    BY <1>1, <1>2, <1>3, <1>4, <1>6, <1>7, WorkerStep, Zenon DEF c, Balances
  <1>9. Stack'
    <2>1. /\ l \notin Resting => c = 0
          /\ (l \in Resting /\ c = 0) \/ pc[w] \notin Resting \/ c # 0
      BY <1>1, <1>4, Zenon DEF Resting
    <2> QED BY <1>1, <1>2, <1>3, <2>1, StackKept, Zenon DEF c, PoolInv
  <1> QED BY <1>8, <1>9 DEF PoolInv

(* A worker that pauses puts itself on the stack. *)
LEMMA PushStep ==
  ASSUME IsFiniteSet(Worker), PoolInv, NEW w \in Worker, Push(w)
  PROVE  PoolInv'
  <1>1. /\ pc[w] = "push" /\ pc' = [pc EXCEPT ![w] = "leave"]
        /\ m_paused' = <<w>> \o m_paused
        /\ UNCHANGED <<wakeCount, m_semaphore, m_pauseCount, m_numberOfThreads,
                       control, added, started>>
    BY Zenon DEF Push, WorkerGoto, counters, calls, controller
  <1>2. wakeCount[w] = 0
    <2>1. pc[w] \notin Resting
      BY <1>1 DEF Resting
    <2> QED BY <2>1, Zenon DEF PoolInv, Stack
  <1>3. wakeCount' = [wakeCount EXCEPT ![w] = 0]
    BY <1>1, <1>2 DEF PoolInv, PoolTypes
  <1>4. /\ m_semaphore' \in Nat /\ m_pauseCount' \in Int /\ started' \in Nat
        /\ m_semaphore' - m_semaphore = 0 /\ m_pauseCount' - m_pauseCount = 0
        /\ started' - started = 0
    BY <1>1 DEF PoolInv, PoolTypes
  <1>5. /\ Bit("leave" \in Hand) = 0 /\ Bit(pc[w] \in Hand) = 0
        /\ Bit("leave" = "undo") = 0 /\ Bit(pc[w] = "undo") = 0
        /\ Bit(IsUp("leave", 0)) = 0 /\ Bit(IsUp(pc[w], wakeCount[w])) = 0
        /\ "leave" \in Labels
    BY <1>1, <1>2 DEF Bit, Hand, IsUp, Serving, Resting, Labels
  <1>6. PoolTypes' /\ Books' /\ Asked'
    <2>1. Balances(w, "leave", 0) /\ 0 \in {0, 1}
      BY <1>4, <1>5 DEF Balances
    <2> QED BY <1>1, <1>3, <1>4, <1>5, <2>1, WorkerStep, ZenonT(30)
  <1>7. Stack'
    <2> DEFINE q == m_paused
               r == <<w>> \o q
    <2>1. q \in Seq(Worker) /\ r \in Seq(Worker) /\ Len(q) \in Nat
      BY DEF PoolInv, Stack
    <2>2. /\ Len(r) = Len(q) + 1 /\ r[1] = w
          /\ \A i \in 2 .. Len(r) : i - 1 \in 1 .. Len(q) /\ r[i] = q[i - 1]
      BY <2>1
    <2>3. /\ pc'[w] = "leave" /\ wakeCount'[w] = 0 /\ wakeCount' = wakeCount
          /\ \A x \in Worker \ {w} : pc'[x] = pc[x]
      BY <1>1, <1>2, Zenon DEF PoolInv, PoolTypes
    <2>4. \A i \in 1 .. Len(q) :
             q[i] \in Worker \ {w} /\ pc[q[i]] \in Resting /\ wakeCount[q[i]] = 0
      BY <1>1, <2>1 DEF PoolInv, Stack, Resting
    <2> HIDE DEF q, r
    <2>5. \A i \in 1 .. Len(r) : i = 1 \/ i \in 2 .. Len(r)
      BY <2>1, <2>2
    <2>6. "leave" \in Resting
      BY DEF Resting
    <2>7. ASSUME NEW i \in 1 .. Len(r)
          PROVE  pc'[r[i]] \in Resting /\ wakeCount'[r[i]] = 0
      <3>1. CASE i = 1
        BY <2>2, <2>3, <2>6, <3>1, Zenon
      <3>2. CASE i \in 2 .. Len(r)
        <4>1. i - 1 \in 1 .. Len(q) /\ r[i] = q[i - 1]
          BY <2>2, <3>2, Zenon
        <4>2. /\ q[i - 1] \in Worker \ {w}
              /\ pc[q[i - 1]] \in Resting /\ wakeCount[q[i - 1]] = 0
          BY <2>4, <4>1, Zenon
        <4> QED BY <2>3, <4>1, <4>2, Zenon
      <3> QED BY <2>5, <3>1, <3>2, Zenon
    <2>8. ASSUME NEW i \in 1 .. Len(r), NEW j \in 1 .. Len(r), r[i] = r[j]
          PROVE  i = j
      <3>0. ASSUME NEW k \in 2 .. Len(r) PROVE r[k] # r[1]
        <4>1. k - 1 \in 1 .. Len(q) /\ r[k] = q[k - 1]
          BY <2>2, Zenon
        <4>2. q[k - 1] \in Worker \ {w}
          BY <2>4, <4>1, Zenon
        <4> QED BY <2>2, <4>1, <4>2, Zenon
      <3>1. CASE i = 1 \/ j = 1
        BY <2>5, <2>8, <3>0, <3>1, Zenon
      <3>2. CASE i \in 2 .. Len(r) /\ j \in 2 .. Len(r)
        <4>1. q[i - 1] = q[j - 1] /\ i - 1 \in 1 .. Len(q) /\ j - 1 \in 1 .. Len(q)
          BY <2>2, <2>8, <3>2, Zenon
        <4>2. i - 1 = j - 1
          BY <4>1, Zenon DEF PoolInv, Stack, q
        <4> QED BY <3>2, <4>2
      <3> QED BY <2>5, <3>1, <3>2, Zenon
    <2>9. \A x \in Worker : pc'[x] \notin Resting => wakeCount'[x] = 0
      BY <1>2, <2>3, Zenon DEF PoolInv, Stack
    <2>10. m_paused' = r
      BY <1>1 DEF q, r
    <2> QED BY <2>1, <2>7, <2>8, <2>9, <2>10, ZenonT(30) DEF Stack
  <1> QED BY <1>6, <1>7 DEF PoolInv

(* A worker that was woken begins again. *)
LEMMA WakeStep ==
  ASSUME IsFiniteSet(Worker), PoolInv, NEW w \in Worker, Wake(w)
  PROVE  PoolInv'
  <1>1. /\ pc[w] = "parked" /\ wakeCount[w] > 0
        /\ pc' = [pc EXCEPT ![w] = "begin"]
        /\ wakeCount' = [wakeCount EXCEPT ![w] = wakeCount[w] - 1]
        /\ UNCHANGED <<m_paused, m_semaphore, m_pauseCount, m_numberOfThreads,
                       control, added, started>>
    BY Zenon DEF Wake, WorkerGoto, counters, calls, controller
  <1>2. wakeCount[w] = 1 /\ wakeCount[w] - 1 = 0
    BY <1>1 DEF PoolInv, PoolTypes
  <1>3. wakeCount' = [wakeCount EXCEPT ![w] = 0]
    BY <1>1, <1>2, Zenon
  <1>4. /\ m_semaphore' \in Nat /\ m_pauseCount' \in Int /\ started' \in Nat
        /\ m_semaphore' - m_semaphore = 0 /\ m_pauseCount' - m_pauseCount = 0
        /\ started' - started = 0
    BY <1>1 DEF PoolInv, PoolTypes
  <1>5. /\ Bit("begin" \in Hand) = 0 /\ Bit(pc[w] \in Hand) = 0
        /\ Bit("begin" = "undo") = 0 /\ Bit(pc[w] = "undo") = 0
        /\ Bit(IsUp("begin", 0)) = 1 /\ Bit(IsUp(pc[w], wakeCount[w])) = 1
        /\ "begin" \in Labels /\ "begin" \notin Resting
    BY <1>1, <1>2, Zenon DEF Bit, Hand, IsUp, Serving, Resting, Labels
  <1>6. PoolTypes' /\ Books' /\ Asked'
    <2>1. Balances(w, "begin", 0) /\ 0 \in {0, 1}
      BY <1>4, <1>5 DEF Balances
    <2> QED BY <1>1, <1>3, <1>4, <1>5, <2>1, WorkerStep, ZenonT(30)
  <1>7. Stack'
    <2>1. wakeCount[w] # 0
      BY <1>2
    <2> QED BY <1>1, <1>3, <2>1, StackKept, Zenon DEF PoolInv
  <1> QED BY <1>6, <1>7 DEF PoolInv

(* addTask and the counters. *)
LEMMA AddTaskStep ==
  ASSUME IsFiniteSet(Worker), PoolInv, AddTask
  PROVE  PoolInv'
  <1>1. /\ added' = added + 1 /\ m_semaphore' = m_semaphore + 1
        /\ UNCHANGED <<pc, wakeCount, m_pauseCount, m_paused, m_numberOfThreads,
                       control, started>>
    BY Zenon DEF AddTask, counters, controller
  <1>2. PoolTypes'
    BY <1>1 DEF PoolInv, PoolTypes
  <1>3. Stack'
    BY <1>1, Zenon DEF PoolInv, Stack
  <1>4. UNCHANGED <<InHand, Undoing, Up>>
    BY <1>1, Zenon DEF InHand, Undoing, Up
  <1>5. Asked'
    BY <1>1, <1>4, Zenon DEF PoolInv, Asked, Pauses
  <1>6. Books'
    <2> DEFINE k == Bit(control.at = "notify")
               h == Cardinality(InHand)
    <2>1. /\ added \in Nat /\ started \in Nat /\ m_semaphore \in Nat /\ h \in Nat
          /\ Pauses \in Int /\ k \in Int
      BY PoolCounts DEF PoolInv, PoolTypes, Pauses, Bit
    <2>2. added - started = m_semaphore + h + k - Pauses
      BY Zenon DEF PoolInv, Books
    <2> HIDE DEF k, h
    <2>3. (added + 1) - started = (m_semaphore + 1) + h + k - Pauses
      BY <2>1, <2>2
    <2> QED BY <1>1, <1>4, <2>3, Zenon DEF Books, Pauses, k, h
  <1> QED BY <1>2, <1>3, <1>5, <1>6 DEF PoolInv

(* A step of the controller that touches no worker and, but for a request  *)
(* to pause and its announcement, no counter.                              *)
LEMMA ControlStep ==
  ASSUME IsFiniteSet(Worker), PoolInv,
         \/ \E size \in Sizes : SetNumberOfThreads(size, FALSE)
         \/ SetNumberOfThreads(0, TRUE)
         \/ RequestPause \/ NotifyPause \/ SetDone \/ AllPaused
  PROVE  PoolInv'
  <1>1. /\ UNCHANGED <<pc, wakeCount, m_paused, added, started>>
    BY Zenon DEF SetNumberOfThreads, RequestPause, NotifyPause,
       SetDone, AllPaused, calls
  <1>2. Stack' /\ UNCHANGED <<InHand, Undoing, Up>>
    BY <1>1, Zenon DEF PoolInv, Stack, InHand, Undoing, Up
  <1> DEFINE n == Cardinality(Up)
             u == Cardinality(Undoing)
             h == Cardinality(InHand)
  <1>3. /\ n \in Nat /\ u \in Nat /\ h \in Nat
        /\ n' = n /\ u' = u /\ h' = h
    BY <1>2, PoolCounts, Zenon
  <1> HIDE DEF n, u, h
  <1>4. CASE \E size \in Nat, all \in BOOLEAN : SetNumberOfThreads(size, all)
    <2>1. PICK size \in Nat, all \in BOOLEAN : SetNumberOfThreads(size, all)
      BY <1>4
    <2>2. /\ control.at = "idle"
          /\ control' =
               [at |-> IF size > m_numberOfThreads THEN "raise"
                       ELSE IF size < m_numberOfThreads THEN "lower" ELSE "set",
                left |-> IF size > m_numberOfThreads THEN size - m_numberOfThreads
                         ELSE m_numberOfThreads - size,
                size |-> size, all |-> all]
          /\ UNCHANGED <<m_semaphore, m_pauseCount, m_numberOfThreads>>
      BY <2>1, Zenon DEF SetNumberOfThreads, Idle, counters
    <2>3. m_numberOfThreads \in Nat
      BY DEF PoolInv, PoolTypes
    <2>4. /\ control'.at \in {"raise", "lower", "set"} /\ control'.size = size
          /\ control'.at = "raise" => size > m_numberOfThreads
                                      /\ control'.left = size - m_numberOfThreads
          /\ control'.at = "lower" => size < m_numberOfThreads
                                      /\ control'.left = m_numberOfThreads - size
          /\ control'.at = "set" => size = m_numberOfThreads
          /\ control' \in [at : {"raise", "lower", "set"}, left : Nat, size : Nat,
                           all : BOOLEAN]
      BY <2>2, <2>3
    <2>5. PoolTypes'
      BY <1>1, <2>2, <2>4, Zenon DEF PoolInv, PoolTypes
    <2>6. Books'
      BY <1>1, <1>2, <2>2, <2>4, Zenon DEF PoolInv, Books, Pauses, Bit
    <2>7. n - (m_pauseCount + u) = m_numberOfThreads /\ m_pauseCount \in Int
      BY <2>2, Zenon DEF PoolInv, PoolTypes, Asked, Pauses, n, u
    <2>8. Asked'
      BY <1>3, <2>2, <2>3, <2>4, <2>7 DEF Asked, Pauses, n, u
    <2> QED BY <1>2, <2>5, <2>6, <2>8 DEF PoolInv
  <1>5. CASE RequestPause
    <2>1. /\ control.at = "lower" /\ m_pauseCount' = m_pauseCount + 1
          /\ control' = [control EXCEPT !.at = "notify"]
          /\ UNCHANGED <<m_semaphore, m_numberOfThreads>>
      BY <1>5, Zenon DEF RequestPause
    <2>2. /\ control'.at = "notify" /\ control'.left = control.left
          /\ control'.size = control.size
      BY <2>1 DEF PoolInv, PoolTypes
    <2>3. PoolTypes'
      BY <1>1, <2>1 DEF PoolInv, PoolTypes
    <2>4. /\ m_pauseCount \in Int /\ m_semaphore \in Nat /\ added \in Nat
          /\ started \in Nat /\ control.left \in Nat /\ control.size \in Nat
      BY DEF PoolInv, PoolTypes
    <2>5. /\ added - started = m_semaphore + h + 0 - (m_pauseCount + u)
          /\ control.left > 0 /\ n - (m_pauseCount + u) = control.size + control.left
      BY <2>1 DEF PoolInv, Books, Asked, Pauses, Bit, n, u, h
    <2>6. /\ added - started = m_semaphore + h + 1 - ((m_pauseCount + 1) + u)
          /\ n - ((m_pauseCount + 1) + u) = control.size + control.left - 1
      BY <1>3, <2>4, <2>5
    <2>7. Books'
      BY <1>1, <1>3, <2>1, <2>2, <2>6 DEF Books, Pauses, Bit, u, h
    <2>8. Asked'
      BY <1>3, <2>1, <2>2, <2>5, <2>6 DEF Asked, Pauses, n, u
    <2> QED BY <1>2, <2>3, <2>7, <2>8 DEF PoolInv
  <1>6. CASE NotifyPause
    <2>1. /\ control.at = "notify" /\ m_semaphore' = m_semaphore + 1
          /\ control' = [control EXCEPT !.left = @ - 1,
                            !.at = IF control.left = 1 THEN "set" ELSE "lower"]
          /\ UNCHANGED <<m_pauseCount, m_numberOfThreads>>
      BY <1>6, Zenon DEF NotifyPause, Counted, counters
    <2>2. /\ m_pauseCount \in Int /\ m_semaphore \in Nat /\ added \in Nat
          /\ started \in Nat /\ control.left \in Nat /\ control.size \in Nat
      BY DEF PoolInv, PoolTypes
    <2>3. /\ added - started = m_semaphore + h + 1 - (m_pauseCount + u)
          /\ control.left > 0
          /\ n - (m_pauseCount + u) = control.size + control.left - 1
      BY <2>1 DEF PoolInv, Books, Asked, Pauses, Bit, n, u, h
    <2>4. /\ control'.at = IF control.left = 1 THEN "set" ELSE "lower"
          /\ control'.left = control.left - 1 /\ control'.size = control.size
          /\ control' \in [at : {"set", "lower"}, left : Nat, size : Nat, all : BOOLEAN]
      <3>1. /\ control = [at |-> control.at, left |-> control.left,
                          size |-> control.size, all |-> control.all]
            /\ control.all \in BOOLEAN
        BY Zenon DEF PoolInv, PoolTypes
      <3>2. control' = [at |-> IF control.left = 1 THEN "set" ELSE "lower",
                        left |-> control.left - 1, size |-> control.size,
                        all |-> control.all]
        BY <2>1, <3>1, Zenon
      <3>3. control.left - 1 \in Nat
        BY <2>2, <2>3
      <3> QED BY <2>2, <3>1, <3>2, <3>3, Zenon
    <2>5. PoolTypes'
      BY <1>1, <2>1, <2>4 DEF PoolInv, PoolTypes
    <2>6. Books'
      <3>1. added - started = (m_semaphore + 1) + h + 0 - (m_pauseCount + u)
        BY <1>3, <2>2, <2>3
      <3> QED BY <1>1, <1>3, <2>1, <2>4, <3>1 DEF Books, Pauses, Bit, u, h
    <2>7. Asked'
      <3>1. /\ control'.at = "lower" => control'.left > 0
            /\ control'.at = "lower" =>
                  n - (m_pauseCount + u) = control'.size + control'.left
            /\ control'.at = "set" => n - (m_pauseCount + u) = control'.size
            /\ control'.at \in {"set", "lower"}
        BY <1>3, <2>2, <2>3, <2>4
      <3> QED BY <1>3, <2>1, <3>1 DEF Asked, Pauses, n, u
    <2> QED BY <1>2, <2>5, <2>6, <2>7 DEF PoolInv
  <1>7. CASE SetDone \/ AllPaused
    <2>1. /\ \/ control.at = "set" /\ m_numberOfThreads' = control.size
             \/ control.at = "wait" /\ m_numberOfThreads' = m_numberOfThreads
          /\ \/ control' = [control EXCEPT !.at = "wait"]
             \/ control' = [at |-> "idle", left |-> 0, size |-> 0, all |-> FALSE]
          /\ UNCHANGED <<m_semaphore, m_pauseCount>>
      BY <1>7 DEF SetDone, AllPaused, Idle, counters
    <2>2. /\ control'.at \in {"wait", "idle"} /\ m_numberOfThreads' \in Nat
          /\ control' \in [at : {"wait", "idle"}, left : Nat, size : Nat, all : BOOLEAN]
      <3>1. control \in [at : {"idle", "raise", "lower", "notify", "set", "wait"},
                         left : Nat, size : Nat, all : BOOLEAN]
        BY DEF PoolInv, PoolTypes
      <3>2. m_numberOfThreads' \in Nat
        BY <2>1, <3>1 DEF PoolInv, PoolTypes
      <3>3. CASE control' = [control EXCEPT !.at = "wait"]
        BY <3>1, <3>2, <3>3
      <3>4. CASE control' = [at |-> "idle", left |-> 0, size |-> 0, all |-> FALSE]
        BY <3>2, <3>4
      <3> QED BY <2>1, <3>3, <3>4
    <2>3. PoolTypes'
      BY <1>1, <2>1, <2>2 DEF PoolInv, PoolTypes
    <2>4. Books'
      BY <1>1, <1>2, <2>1, <2>2 DEF PoolInv, Books, Pauses, Bit
    <2>5. n - (m_pauseCount + u) = m_numberOfThreads'
      BY <2>1 DEF PoolInv, Asked, Pauses, n, u
    <2>6. Asked'
      BY <1>3, <2>1, <2>2, <2>5 DEF Asked, Pauses, n, u
    <2> QED BY <1>2, <2>3, <2>4, <2>6 DEF PoolInv
  <1>8. \A size \in Sizes : size \in Nat
    <2>1. Cardinality(Worker) \in Nat /\ Sizes \subseteq 0 .. Cardinality(Worker)
      BY FS_CardinalityType, WorkersAssumption
    <2> QED BY <2>1
  <1> QED BY <1>4, <1>5, <1>6, <1>7, <1>8, Zenon

(* Raising: a paused worker is woken, or a new one begins. *)
LEMMA RaiseCounted ==
  ASSUME PoolInv, control.at = "raise",
         control' = [control EXCEPT !.left = @ - 1,
                        !.at = IF control.left = 1 THEN "set" ELSE "raise"]
  PROVE  /\ control'.at = IF control.left = 1 THEN "set" ELSE "raise"
         /\ control'.left = control.left - 1 /\ control'.size = control.size
         /\ control' \in [at : {"set", "raise"}, left : Nat, size : Nat, all : BOOLEAN]
         /\ control.left \in Nat /\ control.left > 0 /\ control.size \in Nat
  <1>1. /\ control = [at |-> control.at, left |-> control.left,
                      size |-> control.size, all |-> control.all]
        /\ control.all \in BOOLEAN /\ control.left \in Nat /\ control.size \in Nat
    BY DEF PoolInv, PoolTypes
  <1>2. control' = [at |-> IF control.left = 1 THEN "set" ELSE "raise",
                    left |-> control.left - 1, size |-> control.size,
                    all |-> control.all]
    BY <1>1, Zenon
  <1>3. control.left > 0
    BY Zenon DEF PoolInv, Asked
  <1>4. control.left - 1 \in Nat
    BY <1>1, <1>3
  <1> QED BY <1>1, <1>2, <1>3, <1>4, Zenon

(* A worker comes up, by a wake or as a new thread. *)
LEMMA RaiseStep ==
  ASSUME IsFiniteSet(Worker), PoolInv, NEW w \in Worker, NEW l \in Labels,
         NEW c \in {0, 1}, control.at = "raise",
         control' = [control EXCEPT !.left = @ - 1,
                        !.at = IF control.left = 1 THEN "set" ELSE "raise"],
         pc' = [pc EXCEPT ![w] = l], wakeCount' = [wakeCount EXCEPT ![w] = c],
         UNCHANGED <<m_semaphore, m_pauseCount, m_numberOfThreads, added, started>>,
         pc[w] \notin Hand, l \notin Hand,
         IsUp(l, c), ~IsUp(pc[w], wakeCount[w])
  PROVE  PoolTypes' /\ Books' /\ Asked'
  <1>1. /\ control'.at = IF control.left = 1 THEN "set" ELSE "raise"
        /\ control'.left = control.left - 1 /\ control'.size = control.size
        /\ control' \in [at : {"set", "raise"}, left : Nat, size : Nat, all : BOOLEAN]
        /\ control.left \in Nat /\ control.left > 0 /\ control.size \in Nat
    BY RaiseCounted, Zenon
  <1> DEFINE n == Cardinality(Up)
             u == Cardinality(Undoing)
             h == Cardinality(InHand)
  <1>2. /\ n \in Nat /\ u \in Nat /\ h \in Nat
        /\ n' = n + 1 /\ u' = u /\ h' = h
    <2>1. /\ h' = h + Bit(l \in Hand) - Bit(pc[w] \in Hand)
          /\ u' = u + Bit(l = "undo") - Bit(pc[w] = "undo")
          /\ n' = n + Bit(IsUp(l, c)) - Bit(IsUp(pc[w], wakeCount[w]))
          /\ h \in Nat /\ u \in Nat /\ n \in Nat
      BY WorkerMoves, Zenon DEF PoolInv
    <2>2. /\ Bit(l \in Hand) = 0 /\ Bit(pc[w] \in Hand) = 0
          /\ Bit(l = "undo") = 0 /\ Bit(pc[w] = "undo") = 0
          /\ Bit(IsUp(l, c)) = 1 /\ Bit(IsUp(pc[w], wakeCount[w])) = 0
      BY Zenon DEF Bit, Hand
    <2> HIDE DEF n, u, h
    <2>3. h' = h + 0 - 0 /\ u' = u + 0 - 0 /\ n' = n + 1 - 0
      BY <2>1, <2>2, Zenon
    <2>4. h + 0 - 0 = h /\ u + 0 - 0 = u /\ n + 1 - 0 = n + 1
      BY <2>1
    <2> QED BY <2>1, <2>3, <2>4, Zenon
  <1> HIDE DEF n, u, h
  <1>3. PoolTypes'
    <2>1. pc' \in [Worker -> Labels] /\ wakeCount' \in [Worker -> {0, 1}]
      BY DEF PoolInv, PoolTypes
    <2> QED BY <1>1, <2>1 DEF PoolInv, PoolTypes
  <1>4. m_pauseCount \in Int
    BY DEF PoolInv, PoolTypes
  <1>5. Books'
    <2>1. Bit(control.at = "notify") = 0 /\ Bit(control'.at = "notify") = 0
      BY <1>1 DEF Bit
    <2> QED BY <1>2, <2>1, Zenon DEF PoolInv, Books, Pauses, h, u
  <1>6. n - (m_pauseCount + u) = control.size - control.left
    BY Zenon DEF PoolInv, Asked, Pauses, n, u
  <1>7. /\ control'.at \in {"set", "raise"}
        /\ control'.at = "raise" => control'.left > 0
        /\ control'.at = "raise" =>
              (n + 1) - (m_pauseCount + u) = control'.size - control'.left
        /\ control'.at = "set" => (n + 1) - (m_pauseCount + u) = control'.size
    BY <1>1, <1>2, <1>4, <1>6
  <1>8. Asked'
    BY <1>2, <1>7 DEF Asked, Pauses, n, u
  <1> QED BY <1>3, <1>5, <1>8

(* A new thread. *)
LEMMA CreateStep ==
  ASSUME IsFiniteSet(Worker), PoolInv, NEW w \in Worker, Create(w)
  PROVE  PoolInv'
  <1>1. /\ control.at = "raise" /\ pc[w] = "none"
        /\ pc' = [pc EXCEPT ![w] = "begin"]
        /\ control' = [control EXCEPT !.left = @ - 1,
                         !.at = IF control.left = 1 THEN "set" ELSE "raise"]
        /\ UNCHANGED <<wakeCount, m_semaphore, m_pauseCount, m_paused,
                       m_numberOfThreads, added, started>>
    BY Zenon DEF Create, WorkerGoto, Counted, counters, calls
  <1>2. /\ "none" \notin Resting /\ "begin" \notin Resting /\ "begin" \in Labels
        /\ pc[w] \notin Hand /\ "begin" \notin Hand
        /\ IsUp("begin", 0) /\ ~IsUp(pc[w], wakeCount[w])
    BY <1>1 DEF Resting, Labels, Hand, IsUp, Serving
  <1>3. wakeCount[w] = 0
    BY <1>1, <1>2, Zenon DEF PoolInv, Stack
  <1>4. wakeCount' = [wakeCount EXCEPT ![w] = 0] /\ 0 \in {0, 1}
    BY <1>1, <1>3 DEF PoolInv, PoolTypes
  <1>5. PoolTypes' /\ Books' /\ Asked'
    BY <1>1, <1>2, <1>4, RaiseStep, Zenon
  <1>6. Stack'
    BY <1>1, <1>2, <1>4, StackKept, Zenon DEF PoolInv
  <1> QED BY <1>5, <1>6 DEF PoolInv

(* The worker on top of the stack is woken. *)
LEMMA ReuseStep ==
  ASSUME IsFiniteSet(Worker), PoolInv, Reuse
  PROVE  PoolInv'
  <1> DEFINE q == m_paused
             w == Head(q)
             r == Tail(q)
  <1>1. /\ control.at = "raise" /\ q # <<>>
        /\ wakeCount' = [wakeCount EXCEPT ![w] = wakeCount[w] + 1]
        /\ m_paused' = r
        /\ control' = [control EXCEPT !.left = @ - 1,
                         !.at = IF control.left = 1 THEN "set" ELSE "raise"]
        /\ UNCHANGED <<pc, m_semaphore, m_pauseCount, m_numberOfThreads, added, started>>
    BY Zenon DEF Reuse, Counted, counters, calls
  <1>2. /\ q \in Seq(Worker) /\ Len(q) \in Nat
        /\ \A i \in 1 .. Len(q) : pc[q[i]] \in Resting /\ wakeCount[q[i]] = 0
        /\ \A i, j \in 1 .. Len(q) : q[i] = q[j] => i = j
    BY DEF PoolInv, Stack
  <1>3. /\ w = q[1] /\ w \in Worker /\ r \in Seq(Worker) /\ 1 \in 1 .. Len(q)
        /\ Len(r) \in Nat
        /\ \A i \in 1 .. Len(r) : i + 1 \in 1 .. Len(q) /\ r[i] = q[i + 1]
    BY <1>1, <1>2
  <1>4. pc[w] \in Resting /\ wakeCount[w] = 0 /\ wakeCount[w] + 1 = 1
    BY <1>2, <1>3
  <1> HIDE DEF w, q, r
  <1>5. /\ wakeCount' = [wakeCount EXCEPT ![w] = 1] /\ pc' = [pc EXCEPT ![w] = pc[w]]
        /\ pc[w] \in Labels /\ 1 \in {0, 1}
    <2>1. pc[w] \in Labels /\ pc = [pc EXCEPT ![w] = pc[w]]
      BY <1>3, ZenonT(40) DEF PoolInv, PoolTypes
    <2> QED BY <1>1, <1>4, <2>1
  <1>6. pc[w] \notin Hand /\ IsUp(pc[w], 1) /\ ~IsUp(pc[w], wakeCount[w])
    BY <1>4 DEF Hand, IsUp, Serving, Resting
  <1>7. PoolTypes' /\ Books' /\ Asked'
    BY <1>1, <1>3, <1>5, <1>6, RaiseStep, Zenon
  <1>8. Stack'
    <2>1. /\ pc' = pc /\ wakeCount'[w] = 1
          /\ \A x \in Worker \ {w} : wakeCount'[x] = wakeCount[x]
      <3>1. DOMAIN wakeCount = Worker
        BY DEF PoolInv, PoolTypes
      <3> QED BY <1>1, <1>3, <1>5, <3>1, Zenon
    <2>2. ASSUME NEW i \in 1 .. Len(r)
          PROVE  pc'[r[i]] \in Resting /\ wakeCount'[r[i]] = 0
      <3>1. i + 1 \in 1 .. Len(q) /\ r[i] = q[i + 1] /\ i + 1 # 1
        BY <1>3
      <3>2. r[i] # w
        BY <1>2, <1>3, <3>1, Zenon
      <3>3. r[i] \in Worker
        BY <1>3
      <3>4. pc[r[i]] \in Resting /\ wakeCount[r[i]] = 0
        BY <1>2, <3>1, Zenon
      <3> QED BY <2>1, <3>2, <3>3, <3>4, Zenon
    <2>3. ASSUME NEW i \in 1 .. Len(r), NEW j \in 1 .. Len(r), r[i] = r[j]
          PROVE  i = j
      <3>1. /\ i + 1 \in 1 .. Len(q) /\ r[i] = q[i + 1]
            /\ j + 1 \in 1 .. Len(q) /\ r[j] = q[j + 1]
        BY <1>3, Zenon
      <3>2. i + 1 = j + 1
        BY <1>2, <2>3, <3>1, Zenon
      <3> QED BY <3>2
    <2>4. \A x \in Worker : pc'[x] \notin Resting => wakeCount'[x] = 0
      BY <1>4, <2>1, Zenon DEF PoolInv, Stack
    <2> QED BY <1>1, <1>3, <2>2, <2>3, <2>4, Zenon DEF Stack
  <1> QED BY <1>7, <1>8 DEF PoolInv

(* Every step of the pool keeps the books. *)
LEMMA PoolStep ==
  ASSUME PoolInv, [PoolNext]_poolVars
  PROVE  PoolInv'
  <1>1. IsFiniteSet(Worker)
    BY WorkersAssumption
  <1>2. ASSUME NEW w \in Worker, Run(w) PROVE PoolInv'
    BY <1>1, <1>2, RunStep, PushStep, WakeStep, Zenon DEF Run
  <1>3. CASE Control
    BY <1>1, <1>3, ReuseStep, CreateStep, ControlStep, Zenon DEF Control
  <1>4. CASE \/ \E size \in Sizes : SetNumberOfThreads(size, FALSE)
             \/ SetNumberOfThreads(0, TRUE)
    BY <1>1, <1>4, ControlStep, Zenon
  <1>5. CASE AddTask
    BY <1>1, <1>5, AddTaskStep, Zenon
  <1>6. CASE UNCHANGED poolVars
    <2>1. UNCHANGED <<pc, wakeCount, m_semaphore, m_pauseCount, m_paused,
                      m_numberOfThreads, control, added, started>>
      BY <1>6 DEF poolVars, counters, controller, calls
    <2> QED BY <2>1, Zenon DEF PoolInv, PoolTypes, Stack, Books, Asked, Pauses,
               InHand, Undoing, Up
  <1> QED BY <1>2, <1>3, <1>4, <1>5, <1>6, Zenon DEF PoolNext, AtBound

(* The books as the pool's own invariants state them. *)
LEMMA PoolStates ==
  ASSUME PoolInv
  PROVE  NoTaskIsLost /\ AsManyAsAskedFor
  <1> DEFINE U == {w \in Worker :
                     \/ pc[w] \in (Active \cup {"begin"}) \ {"push", "leave"}
                     \/ pc[w] \in {"push", "leave", "signal", "parked"}
                           /\ wakeCount[w] > 0}
  <1>1. WorkersAt({"load", "decrement", "undo", "task"}) = InHand
    BY DEF WorkersAt, InHand, Hand
  <1>2. WorkersAt({"undo"}) = Undoing
    BY DEF WorkersAt, Undoing
  <1>3. U = Up
    <2>1. /\ (Active \cup {"begin"}) \ {"push", "leave"} = Serving
          /\ {"push", "leave", "signal", "parked"} = Resting \cup {"push"}
      BY DEF Active, Serving, Resting
    <2> QED BY <2>1, Zenon DEF Up, IsUp
  <1>4. /\ Cardinality(WorkersAt({"load", "decrement", "undo", "task"}))
              = Cardinality(InHand)
        /\ Cardinality(WorkersAt({"undo"})) = Cardinality(Undoing)
        /\ Cardinality(U) = Cardinality(Up)
    BY <1>1, <1>2, <1>3, Zenon
  <1>5. NoTaskIsLost
    BY <1>4, Zenon DEF PoolInv, Books, Bit, Pauses, NoTaskIsLost
  <1>6. AsManyAsAskedFor
    BY <1>4, Zenon DEF PoolInv, Asked, Pauses, AsManyAsAskedFor
  <1> QED BY <1>5, <1>6

(* The pool keeps its books, whatever the threads, the sizes asked for and *)
(* the races between workers, resizes and producers of tasks: no unit of   *)
(* the semaphore is lost or made up, so that what addTask has asked for    *)
(* and processTask has not begun is what is left of them.                  *)
THEOREM NoTaskIsEverLost ==
  PoolSpec => []NoTaskIsLost
  <1>1. PoolInit => PoolInv
    BY PoolBegins, WorkersAssumption
  <1>2. PoolInv /\ [PoolNext]_poolVars => PoolInv'
    BY PoolStep
  <1>3. PoolInv => NoTaskIsLost
    BY PoolStates
  <1> QED BY <1>1, <1>2, <1>3, PTL DEF PoolSpec

(* Whenever no resize is under way, as many workers serve, or have been    *)
(* woken to serve, and are not asked to pause as setNumberOfThreads was    *)
(* last asked for: a resize that overtakes the pauses of the one before    *)
(* leaves neither a worker too many nor one too few.                       *)
THEOREM AlwaysAsManyAsAskedFor ==
  PoolSpec => []AsManyAsAskedFor
  <1>1. PoolInit => PoolInv
    BY PoolBegins, WorkersAssumption
  <1>2. PoolInv /\ [PoolNext]_poolVars => PoolInv'
    BY PoolStep
  <1>3. PoolInv => AsManyAsAskedFor
    BY PoolStates
  <1> QED BY <1>1, <1>2, <1>3, PTL DEF PoolSpec
=============================================================================
