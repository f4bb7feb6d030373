-------------------------- MODULE SchedulerProofs ---------------------------
(* Proofs about the dispatcher and the two threads composed with it, for   *)
(* every set of threads, tasks, queries and events: the queries of the     *)
(* database thread, the ids addEvent gives out, what a cancellation stops, *)
(* and that scheduler and dispatcher implement the abstract event service. *)
EXTENDS Scheduler, DatabaseTasks, FiniteSetTheorems, TLAPS

-----------------------------------------------------------------------------
(* The dispatcher                                                          *)

LEMMA StopTaskInAllTasks == Tasks \subseteq AllTasks /\ StopTask \in AllTasks
  BY DEF AllTasks

\* The push of a live task keeps the queue a sequence of tasks.
LEMMA PushType ==
  ASSUME taskList \in Seq(AllTasks), NEW t \in AllTasks, NEW front \in BOOLEAN
  PROVE  Push(t, front) \in Seq(AllTasks)
  BY DEF Push

\* Type correctness is inductive: every handler keeps the queue a sequence of
\* Task objects and the thread in one of its program points.
LEMMA TypeStep == DTypeOK /\ [DNext]_dvars => DTypeOK'
<1> SUFFICES ASSUME DTypeOK, [DNext]_dvars PROVE DTypeOK'
  OBVIOUS
<1> USE StopTaskInAllTasks DEF DTypeOK, ThreadStates, Deleted
<1>1. ASSUME NEW p \in Producers, NEW t \in Tasks, NEW front \in BOOLEAN,
             AddTask(p, t, front)
      PROVE  DTypeOK'
  <2>1. t \in AllTasks
    OBVIOUS
  <2>2. Push(t, front) \in Seq(AllTasks)
    BY <2>1, PushType
  <2>3. fate' \in [AllTasks -> {"new", "queued", "running"} \cup Deleted]
    BY <1>1, <2>1 DEF AddTask
  <2> QED
    BY <1>1, <2>1, <2>2, <2>3 DEF AddTask
<1>2. ASSUME NEW p \in Producers, Notify(p) PROVE DTypeOK'
  BY <1>2 DEF Notify
<1>3. CASE CheckState
  BY <1>3 DEF CheckState
<1>4. ASSUME taskList # <<>>, Take, UNCHANGED <<dState, signalling>> PROVE DTypeOK'
  <2>1. Head(taskList) \in AllTasks /\ Tail(taskList) \in Seq(AllTasks)
    BY <1>4
  <2>2. QED
    BY <2>1, <1>4 DEF Take
<1>5. CASE LockQueue
  BY <1>5, <1>4 DEF LockQueue
<1>6. CASE AfterWait
  BY <1>6, <1>4 DEF AfterWait
<1>7. CASE Finish \/ RunStop \/ SpuriousWake \/ Close
  BY <1>7 DEF Finish, RunStop, SpuriousWake, Close
<1>8. ASSUME NEW t \in Tasks, AddTaskFromTask(t) PROVE DTypeOK'
  BY <1>8, PushType DEF AddTaskFromTask
<1>9. CASE Shutdown
  BY <1>9 DEF Shutdown
<1>10. CASE UNCHANGED dvars
  BY <1>10 DEF dvars
<1>11. QED
  BY <1>1, <1>2, <1>3, <1>5, <1>6, <1>7, <1>8, <1>9, <1>10
     DEF DNext, DispatcherThread

\* The type invariant holds in every reachable state of the dispatcher.
THEOREM DispatcherType == DSpec => []DTypeOK
<1>1. DInit => DTypeOK
  BY StopTaskInAllTasks DEF DInit, DTypeOK, ThreadStates
<1>2. QED
  BY <1>1, TypeStep, PTL DEF DSpec
-----------------------------------------------------------------------------
\* One step keeps NoLostWakeup: the queue only turns non-empty under a waiting
\* dispatcher in AddTask, which then owes a signal, and in Shutdown, which
\* signals inside the lock.
LEMMA WakeupStep == DTypeOK /\ NoLostWakeup /\ [DNext]_dvars => NoLostWakeup'
<1> SUFFICES ASSUME DTypeOK, NoLostWakeup, [DNext]_dvars PROVE NoLostWakeup'
  OBVIOUS
<1> USE DEF DTypeOK, NoLostWakeup
<1>1. ASSUME NEW p \in Producers, NEW t \in Tasks, NEW front \in BOOLEAN,
             AddTask(p, t, front)
      PROVE  NoLostWakeup'
  <2>1. CASE Accepting /\ MustSignal
    BY <1>1, <2>1 DEF AddTask
  <2>2. CASE Accepting /\ ~MustSignal
    BY <1>1, <2>2 DEF AddTask, MustSignal
  <2>3. CASE ~Accepting
    BY <1>1, <2>3 DEF AddTask
  <2>4. QED
    BY <2>1, <2>2, <2>3
<1>2. ASSUME NEW p \in Producers, Notify(p) PROVE NoLostWakeup'
  BY <1>2 DEF Notify
<1>3. CASE LockQueue \/ AfterWait
  BY <1>3 DEF LockQueue, AfterWait, Take
<1>4. CASE CheckState \/ Finish \/ RunStop \/ SpuriousWake \/ Close
  BY <1>4 DEF CheckState, Finish, RunStop, SpuriousWake, Close
<1>5. ASSUME NEW t \in Tasks, AddTaskFromTask(t) PROVE NoLostWakeup'
  BY <1>5 DEF AddTaskFromTask, Running
<1>6. CASE Shutdown
  BY <1>6 DEF Shutdown
<1>7. CASE UNCHANGED dvars
  BY <1>7 DEF dvars
<1>8. QED
  BY <1>1, <1>2, <1>3, <1>4, <1>5, <1>6, <1>7 DEF DNext, DispatcherThread

\* The dispatcher never sleeps over a non-empty queue without a signal on its
\* way, whatever the number of producers and tasks.
THEOREM DispatcherNoLostWakeup == DSpec => []NoLostWakeup
<1>1. DInit => NoLostWakeup
  BY DEF DInit, NoLostWakeup
<1>2. QED
  BY <1>1, WakeupStep, DispatcherType, PTL DEF DSpec
-----------------------------------------------------------------------------
\* What is in a queue, and that nothing is in it twice.
Listed(q) == {q[i] : i \in 1..Len(q)}
Distinct(q) == \A i, j \in 1..Len(q) : q[i] = q[j] => i = j

LEMMA AppendListed ==
  ASSUME NEW q \in Seq(AllTasks), NEW t \in AllTasks
  PROVE  /\ Listed(Append(q, t)) = Listed(q) \cup {t}
         /\ Distinct(q) /\ t \notin Listed(q) => Distinct(Append(q, t))
<1>1. /\ Len(Append(q, t)) = Len(q) + 1 /\ Append(q, t)[Len(q) + 1] = t
      /\ \A i \in 1..Len(q) : Append(q, t)[i] = q[i]
      /\ Len(q) \in Nat
  OBVIOUS
<1>2. \A i \in 1..(Len(q) + 1) : i \in 1..Len(q) \/ i = Len(q) + 1
  BY <1>1
<1>3. \A i \in 1..Len(q) : i \in 1..(Len(q) + 1)
  BY <1>1
<1>4. Len(q) + 1 \in 1..(Len(q) + 1)
  BY <1>1
<1>5. QED
  BY <1>1, <1>2, <1>3, <1>4 DEF Listed, Distinct

LEMMA PrependListed ==
  ASSUME NEW q \in Seq(AllTasks), NEW t \in AllTasks
  PROVE  /\ Listed(<<t>> \o q) = Listed(q) \cup {t}
         /\ Distinct(q) /\ t \notin Listed(q) => Distinct(<<t>> \o q)
<1> DEFINE p == <<t>> \o q
<1>1. /\ Len(p) = Len(q) + 1 /\ p[1] = t /\ Len(q) \in Nat
      /\ \A i \in 2..(Len(q) + 1) : p[i] = q[i - 1]
  OBVIOUS
<1> HIDE DEF p
<1>2. ASSUME NEW i \in 1..(Len(q) + 1), i # 1 PROVE i \in 2..(Len(q) + 1) /\ i - 1 \in 1..Len(q)
  BY <1>1, <1>2
<1>3. ASSUME NEW i \in 1..Len(q)
      PROVE  i + 1 \in 1..(Len(q) + 1) /\ i + 1 \in 2..(Len(q) + 1) /\ (i + 1) - 1 = i
  BY <1>1, <1>3
<1>4. 1 \in 1..(Len(q) + 1)
  BY <1>1
<1>5. Listed(p) = Listed(q) \cup {t}
  <2>1. ASSUME NEW x \in Listed(p) PROVE x \in Listed(q) \cup {t}
    BY <1>1, <1>2 DEF Listed
  <2>2. ASSUME NEW x \in Listed(q) PROVE x \in Listed(p)
    <3>1. PICK i \in 1..Len(q) : x = q[i]
      BY <2>2 DEF Listed
    <3>2. p[i + 1] = x
      BY <1>1, <1>3, <3>1
    <3>3. QED
      BY <1>1, <1>3, <3>2 DEF Listed
  <2>3. t \in Listed(p)
    BY <1>1, <1>4 DEF Listed
  <2>4. QED
    BY <2>1, <2>2, <2>3
<1>6. ASSUME Distinct(q), t \notin Listed(q) PROVE Distinct(p)
  <2> SUFFICES ASSUME NEW i \in 1..(Len(q) + 1), NEW j \in 1..(Len(q) + 1), p[i] = p[j]
               PROVE  i = j
    BY <1>1 DEF Distinct
  <2>1. CASE i = 1 /\ j # 1
    BY <1>1, <1>2, <1>6, <2>1 DEF Listed
  <2>2. CASE i # 1 /\ j = 1
    BY <1>1, <1>2, <1>6, <2>2 DEF Listed
  <2>3. CASE i # 1 /\ j # 1
    <3>1. i - 1 \in 1..Len(q) /\ j - 1 \in 1..Len(q) /\ q[i - 1] = q[j - 1]
      BY <1>1, <1>2, <2>3
    <3>2. i - 1 = j - 1
      BY <1>6, <3>1 DEF Distinct
    <3>3. QED
      BY <1>1, <3>2
  <2>4. QED
    BY <2>1, <2>2, <2>3
<1>7. QED
  BY <1>5, <1>6 DEF p

LEMMA TailListed ==
  ASSUME NEW q \in Seq(AllTasks), q # <<>>, Distinct(q)
  PROVE  Listed(Tail(q)) = Listed(q) \ {Head(q)} /\ Distinct(Tail(q)) /\ Head(q) \in Listed(q)
<1> DEFINE p == Tail(q)
<1>1. /\ Len(p) = Len(q) - 1 /\ Head(q) = q[1] /\ Len(q) \in Nat /\ Len(q) >= 1
      /\ \A i \in 1..(Len(q) - 1) : p[i] = q[i + 1]
  OBVIOUS
<1> HIDE DEF p
<1>2. ASSUME NEW i \in 1..Len(q), i # 1 PROVE i - 1 \in 1..(Len(q) - 1) /\ (i - 1) + 1 = i
  BY <1>1, <1>2
<1>3. ASSUME NEW i \in 1..(Len(q) - 1) PROVE i + 1 \in 1..Len(q) /\ i + 1 # 1
  BY <1>1, <1>3
<1>4. 1 \in 1..Len(q)
  BY <1>1
<1>5. ASSUME NEW x \in Listed(p) PROVE x \in Listed(q) /\ x # Head(q)
  <2>1. PICK i \in 1..(Len(q) - 1) : x = p[i]
    BY <1>1, <1>5 DEF Listed
  <2>2. x = q[i + 1] /\ i + 1 \in 1..Len(q) /\ i + 1 # 1
    BY <1>1, <1>3, <2>1
  <2>3. QED
    BY <1>1, <1>4, <2>2 DEF Listed, Distinct
<1>6. ASSUME NEW x \in Listed(q), x # Head(q) PROVE x \in Listed(p)
  <2>1. PICK i \in 1..Len(q) : x = q[i]
    BY <1>6 DEF Listed
  <2>2. i - 1 \in 1..(Len(q) - 1) /\ p[i - 1] = x
    BY <1>1, <1>2, <1>6, <2>1
  <2>3. QED
    BY <1>1, <2>2 DEF Listed
<1>7. Distinct(p)
  <2> SUFFICES ASSUME NEW i \in 1..(Len(q) - 1), NEW j \in 1..(Len(q) - 1), p[i] = p[j]
               PROVE  i = j
    BY <1>1 DEF Distinct
  <2>1. i + 1 = j + 1
    BY <1>1, <1>3 DEF Distinct
  <2>2. QED
    BY <1>1, <2>1
<1>8. Head(q) \in Listed(q)
  BY <1>1, <1>4 DEF Listed
<1>9. QED
  BY <1>5, <1>6, <1>7, <1>8 DEF p

\* QueueOfLiveTasks is inductive: who pushes a task has just allocated it, and
\* who pops one alone decides what becomes of it.
LEMMA QueueStep == DTypeOK /\ QueueOfLiveTasks /\ [DNext]_dvars => QueueOfLiveTasks'
<1> SUFFICES ASSUME DTypeOK, QueueOfLiveTasks, [DNext]_dvars PROVE QueueOfLiveTasks'
  OBVIOUS
<1>1. /\ taskList \in Seq(AllTasks) /\ current \in AllTasks
      /\ fate \in [AllTasks -> {"new", "queued", "running"} \cup Deleted]
      /\ dPc = "run" => fate[current] = "running"
      /\ \A t \in AllTasks : fate[t] = "queued" <=> t \in Listed(taskList)
      /\ Distinct(taskList)
      /\ \A t \in AllTasks : fate[t] = "running" => dPc = "run" /\ current = t
  BY DEF DTypeOK, QueueOfLiveTasks, QueuedTasks, Listed, Distinct
<1>2. ASSUME \A t \in AllTasks : fate'[t] = "queued" <=> t \in Listed(taskList'),
             Distinct(taskList'),
             \A t \in AllTasks : fate'[t] = "running" => dPc' = "run" /\ current' = t
      PROVE  QueueOfLiveTasks'
  BY <1>2 DEF QueueOfLiveTasks, QueuedTasks, Listed, Distinct
<1>3. ASSUME NEW t \in AllTasks, NEW front \in BOOLEAN, fate[t] = "new",
             taskList' = Push(t, front), fate' = [fate EXCEPT ![t] = "queued"],
             dPc' = IF dPc = "wait" THEN "woken" ELSE dPc, UNCHANGED current
      PROVE  QueueOfLiveTasks'
  <2>1. t \notin Listed(taskList)
    BY <1>1, <1>3
  <2>2. Listed(taskList') = Listed(taskList) \cup {t} /\ Distinct(taskList')
    BY <1>1, <1>3, <2>1, AppendListed, PrependListed DEF Push
  <2>3. QED
    BY <1>1, <1>2, <1>3, <2>2
<1>4. ASSUME NEW t \in AllTasks, fate[t] = "new", fate' = [fate EXCEPT ![t] = "dropped"],
             UNCHANGED <<taskList, dPc, current>>
      PROVE  QueueOfLiveTasks'
  BY <1>1, <1>2, <1>4
<1>5. ASSUME taskList # <<>>, Take, dPc \in {"lock", "woken"} PROVE QueueOfLiveTasks'
  <2>1. /\ Listed(Tail(taskList)) = Listed(taskList) \ {Head(taskList)}
        /\ Distinct(Tail(taskList)) /\ Head(taskList) \in AllTasks
    BY <1>1, <1>5, TailListed
  <2>2. \A t \in AllTasks : fate[t] # "running"
    BY <1>1, <1>5
  <2>3. /\ taskList' = Tail(taskList)
        /\ \/ /\ dPc' = "run" /\ current' = Head(taskList)
              /\ fate' = [fate EXCEPT ![Head(taskList)] = "running"]
           \/ fate' = [fate EXCEPT ![Head(taskList)] = "expired"]
    BY <1>5 DEF Take
  <2>4. QED
    BY <1>1, <1>2, <2>1, <2>2, <2>3
<1>6. ASSUME NEW p \in Producers, NEW t \in Tasks, NEW front \in BOOLEAN, AddTask(p, t, front)
      PROVE  QueueOfLiveTasks'
  <2>1. fate[t] = "new" /\ t \in AllTasks /\ UNCHANGED <<dPc, current>>
    BY <1>6, StopTaskInAllTasks DEF AddTask
  <2>2. CASE Accepting
    <3>1. taskList' = Push(t, front) /\ fate' = [fate EXCEPT ![t] = "queued"]
      BY <1>6, <2>2 DEF AddTask
    <3>3. t \notin Listed(taskList)
      BY <1>1, <2>1
    <3>4. Listed(taskList') = Listed(taskList) \cup {t} /\ Distinct(taskList')
      BY <1>1, <2>1, <3>1, <3>3, AppendListed, PrependListed DEF Push
    <3>5. QED
      BY <1>1, <1>2, <2>1, <3>1, <3>4
  <2>3. CASE ~Accepting
    BY <1>4, <1>6, <2>1, <2>3 DEF AddTask
  <2>4. QED
    BY <2>2, <2>3
<1>7. ASSUME NEW t \in Tasks, AddTaskFromTask(t) PROVE QueueOfLiveTasks'
  <2>1. fate[t] = "new" /\ t \in AllTasks /\ UNCHANGED <<dPc, current>> /\ dPc = "run"
    BY <1>7, StopTaskInAllTasks DEF AddTaskFromTask, Running
  <2>2. CASE Accepting
    BY <1>3, <1>7, <2>1, <2>2 DEF AddTaskFromTask
  <2>3. CASE ~Accepting
    BY <1>4, <1>7, <2>1, <2>3 DEF AddTaskFromTask
  <2>4. QED
    BY <2>2, <2>3
<1>8. CASE Shutdown
  <2>1. /\ fate[StopTask] = "new" /\ taskList' = Push(StopTask, FALSE)
        /\ fate' = [fate EXCEPT ![StopTask] = "queued"]
        /\ dPc' = IF dPc = "wait" THEN "woken" ELSE dPc
        /\ UNCHANGED current /\ StopTask \in AllTasks
    BY <1>8, StopTaskInAllTasks DEF Shutdown, Push
  <2>2. QED
    BY <1>3, <2>1
<1>9. CASE LockQueue \/ AfterWait
  <2>1. CASE taskList # <<>> /\ Take
    BY <1>5, <1>9, <2>1 DEF LockQueue, AfterWait
  <2>2. CASE UNCHANGED <<taskList, current, fate>> /\ dPc \in {"lock", "woken"}
    BY <1>1, <1>2, <2>2
  <2>3. QED
    BY <1>9, <2>1, <2>2 DEF LockQueue, AfterWait
<1>10. CASE Finish \/ RunStop
  BY <1>1, <1>2, <1>10 DEF Finish, RunStop
<1>11. CASE CheckState \/ SpuriousWake \/ Close
  BY <1>1, <1>2, <1>11 DEF CheckState, SpuriousWake, Close
<1>12. ASSUME NEW p \in Producers, Notify(p) PROVE QueueOfLiveTasks'
  BY <1>1, <1>2, <1>12 DEF Notify
<1>13. CASE UNCHANGED dvars
  BY <1>1, <1>2, <1>13 DEF dvars
<1>14. QED
  BY <1>6, <1>7, <1>8, <1>9, <1>10, <1>11, <1>12, <1>13 DEF DNext, DispatcherThread

\* A task is in the queue once, from the call that gave it away until the
\* thread takes it, and only the task the thread has is running: nothing
\* deleted is ever run (Dispatcher::addTask, threadMain).
THEOREM DispatcherQueue == DSpec => []QueueOfLiveTasks
<1>1. DInit => QueueOfLiveTasks
  BY DEF DInit, QueueOfLiveTasks, QueuedTasks
<1>2. QED
  BY <1>1, QueueStep, DispatcherType, PTL DEF DSpec

-----------------------------------------------------------------------------
(* The database thread and the flush                                       *)

LEMMA AppendIs ==
    ASSUME NEW T, NEW s \in Seq(T), NEW e \in T
    PROVE  /\ Append(s, e) \in Seq(T) /\ Len(Append(s, e)) = Len(s) + 1 /\ Len(s) \in Nat
           /\ \A i \in 1..Len(s) : i \in 1..(Len(s) + 1) /\ Append(s, e)[i] = s[i]
           /\ Len(s) + 1 \in 1..(Len(s) + 1) /\ Append(s, e)[Len(s) + 1] = e
           /\ \A i \in 1..(Len(s) + 1) : i \in 1..Len(s) \/ i = Len(s) + 1
OBVIOUS

LEMMA TailIs ==
    ASSUME NEW T, NEW s \in Seq(T), s # <<>>
    PROVE  /\ Tail(s) \in Seq(T) /\ Head(s) \in T /\ Len(s) \in Nat /\ Len(s) >= 1
           /\ Len(Tail(s)) = Len(s) - 1 /\ Head(s) = s[1] /\ 1 \in 1..Len(s)
           /\ \A i \in 1..(Len(s) - 1) : i + 1 \in 1..Len(s) /\ Tail(s)[i] = s[i + 1]
OBVIOUS

HandCount(H) == IF H = {} THEN 0 ELSE 1

\* The list Q is the end of the history A of what was accepted; what comes
\* before it has been executed, in X, or is in the hand of the thread, in H.
Accounted(A, Q, X, H) ==
    /\ A \in Seq(Queries) /\ Q \in Seq(Queries) /\ X \in Seq(Queries) /\ H \subseteq Queries
    /\ Distinct(A)
    /\ Len(A) >= Len(Q)
    /\ \A i \in 1..Len(Q) : Q[i] = A[(Len(A) - Len(Q)) + i]
    /\ \A i \in 1..(Len(A) - Len(Q)) : A[i] \in ElementsOf(X) \cup H
    /\ \A x \in ElementsOf(X) \cup H : \E i \in 1..(Len(A) - Len(Q)) : A[i] = x
    /\ Len(A) = (Len(Q) + Len(X)) + HandCount(H)

\* As long as only the thread takes queries they are executed as accepted.
InTurn(A, X, H) ==
    /\ \A i \in 1..Len(X) : X[i] = A[i]
    /\ \A x \in H : A[Len(X) + 1] = x

\* No query but h is overtaken.
OneLate(A, X, h) ==
    \A i, j \in 1..Len(A) : i < j /\ A[j] \in ElementsOf(X) /\ A[i] # h => Before(X, A[i], A[j])

LEMMA AppendElements ==
    ASSUME NEW s \in Seq(Queries), NEW e \in Queries
    PROVE  /\ ElementsOf(Append(s, e)) = ElementsOf(s) \cup {e}
           /\ \A x, y : Before(s, x, y) => Before(Append(s, e), x, y)
           /\ \A x \in ElementsOf(s) : Before(Append(s, e), x, e)
<1>1. /\ Len(Append(s, e)) = Len(s) + 1 /\ Len(s) \in Nat
      /\ \A i \in 1..Len(s) : i \in 1..(Len(s) + 1) /\ Append(s, e)[i] = s[i] /\ i < Len(s) + 1
      /\ Len(s) + 1 \in 1..(Len(s) + 1) /\ Append(s, e)[Len(s) + 1] = e
      /\ \A i \in 1..(Len(s) + 1) : i \in 1..Len(s) \/ i = Len(s) + 1
  BY AppendIs
<1> QED
  BY <1>1 DEF ElementsOf, Before

LEMMA AcceptAccounted ==
    ASSUME NEW A, NEW Q, NEW X, NEW H, NEW q \in Queries, Accounted(A, Q, X, H), q \notin ElementsOf(A)
    PROVE  /\ Accounted(Append(A, q), Append(Q, q), X, H)
           /\ InTurn(A, X, H) => InTurn(Append(A, q), X, H)
<1> DEFINE B == Append(A, q)
           R == Append(Q, q)
<1>1. /\ A \in Seq(Queries) /\ Q \in Seq(Queries) /\ X \in Seq(Queries) /\ H \subseteq Queries
      /\ Len(A) \in Nat /\ Len(Q) \in Nat /\ Len(X) \in Nat
      /\ Len(A) >= Len(Q)
      /\ Len(A) = (Len(Q) + Len(X)) + HandCount(H) /\ HandCount(H) \in Nat
  <2>1. HandCount(H) \in Nat
    BY DEF HandCount
  <2> QED
    BY <2>1 DEF Accounted
<1>2. /\ B \in Seq(Queries) /\ Len(B) = Len(A) + 1
      /\ \A i \in 1..Len(A) : B[i] = A[i]
      /\ B[Len(A) + 1] = q
  BY <1>1, AppendIs
<1>3. /\ R \in Seq(Queries) /\ Len(R) = Len(Q) + 1
      /\ \A i \in 1..Len(Q) : R[i] = Q[i]
      /\ R[Len(Q) + 1] = q
  BY <1>1, AppendIs
<1> HIDE DEF B, R
<1>4. Len(B) - Len(R) = Len(A) - Len(Q) /\ Len(B) >= Len(R)
  <2>1. /\ Len(A) \in Nat /\ Len(Q) \in Nat /\ Len(A) >= Len(Q)
        /\ Len(B) = Len(A) + 1 /\ Len(R) = Len(Q) + 1
    BY <1>1, <1>2, <1>3
  <2> QED
    BY <2>1
<1>5. Distinct(B)
  <2>1. \A i, j \in 1..Len(A) : A[i] = A[j] => i = j
    BY DEF Accounted, Distinct
  <2>2. \A i \in 1..Len(A) : A[i] # q
    BY DEF ElementsOf
  <2>3. \A i \in 1..Len(B) : i \in 1..Len(A) \/ i = Len(A) + 1
    BY <1>1, <1>2
  <2> QED
    BY <1>2, <2>1, <2>2, <2>3 DEF Distinct
<1>6. ASSUME NEW i \in 1..Len(R) PROVE R[i] = B[(Len(B) - Len(R)) + i]
  <2>1. CASE i = Len(Q) + 1
    <3>1. (Len(B) - Len(R)) + i = Len(A) + 1
      BY <1>1, <1>2, <1>3, <2>1
    <3> QED
      BY <1>2, <1>3, <2>1, <3>1
  <2>2. CASE i # Len(Q) + 1
    <3>1. i \in 1..Len(Q) /\ (Len(A) - Len(Q)) + i \in 1..Len(A)
      BY <1>1, <1>3, <2>2
    <3>2. Q[i] = A[(Len(A) - Len(Q)) + i]
      BY <3>1 DEF Accounted
    <3> QED
      BY <1>2, <1>3, <1>4, <3>1, <3>2
  <2> QED
    BY <2>1, <2>2
<1>7. \A i \in 1..(Len(A) - Len(Q)) : B[i] = A[i]
  BY <1>1, <1>2
<1>8. /\ \A i \in 1..(Len(A) - Len(Q)) : A[i] \in ElementsOf(X) \cup H
      /\ \A x \in ElementsOf(X) \cup H : \E i \in 1..(Len(A) - Len(Q)) : A[i] = x
  BY DEF Accounted
<1>9. Len(B) = (Len(R) + Len(X)) + HandCount(H)
  BY <1>1, <1>2, <1>3
<1>10. Accounted(B, R, X, H)
  BY <1>1, <1>2, <1>3, <1>4, <1>5, <1>6, <1>7, <1>8, <1>9 DEF Accounted
<1>11. InTurn(A, X, H) => InTurn(B, X, H)
  <2>1. /\ \A i \in 1..Len(X) : i \in 1..Len(A)
        /\ H # {} => Len(X) + 1 \in 1..Len(A)
    BY <1>1 DEF HandCount
  <2> QED
    BY <1>2, <2>1 DEF InTurn
<1> QED
  BY <1>10, <1>11 DEF B, R

LEMMA PopAccounted ==
    ASSUME NEW A, NEW Q, NEW X, Accounted(A, Q, X, {}), Q # <<>>
    PROVE  /\ Accounted(A, Tail(Q), X, {Head(Q)})
           /\ InTurn(A, X, {}) => InTurn(A, X, {Head(Q)})
           /\ Head(Q) \in Queries
<1> DEFINE R == Tail(Q)
           n == Len(A) - Len(Q)
<1>1. /\ A \in Seq(Queries) /\ Q \in Seq(Queries) /\ X \in Seq(Queries)
      /\ Len(A) \in Nat /\ Len(Q) \in Nat /\ Len(X) \in Nat /\ Len(A) >= Len(Q)
      /\ Len(A) = Len(Q) + Len(X) /\ Distinct(A)
  BY DEF Accounted, HandCount
<1>2. /\ R \in Seq(Queries) /\ Head(Q) \in Queries /\ Len(Q) >= 1
      /\ Len(R) = Len(Q) - 1 /\ Head(Q) = Q[1] /\ 1 \in 1..Len(Q)
      /\ \A i \in 1..(Len(Q) - 1) : i + 1 \in 1..Len(Q) /\ R[i] = Q[i + 1]
  BY <1>1, TailIs
<1> HIDE DEF R
<1>3. Len(A) - Len(R) = n + 1 /\ Len(A) >= Len(R) /\ n \in Nat /\ n = Len(X)
      /\ Len(A) = (Len(R) + Len(X)) + 1
  BY <1>1, <1>2
<1>4. Head(Q) = A[n + 1]
  BY <1>2 DEF Accounted
<1>5. ASSUME NEW i \in 1..Len(R) PROVE R[i] = A[(Len(A) - Len(R)) + i]
  <2>1. R[i] = Q[i + 1] /\ Q[i + 1] = A[n + (i + 1)]
    BY <1>2 DEF Accounted
  <2>2. n + (i + 1) = (Len(A) - Len(R)) + i
    BY <1>3
  <2> QED
    BY <2>1, <2>2
<1>6. /\ \A i \in 1..n : A[i] \in ElementsOf(X)
      /\ \A x \in ElementsOf(X) : \E i \in 1..n : A[i] = x
  BY DEF Accounted
<1> HIDE DEF n
<1>7. \A i \in 1..(n + 1) : i \in 1..n \/ i = n + 1
  BY <1>3
<1>8. n + 1 \in 1..(n + 1) /\ \A i \in 1..n : i \in 1..(n + 1)
  BY <1>3
<1>9. /\ \A i \in 1..(n + 1) : A[i] \in ElementsOf(X) \cup {Head(Q)}
      /\ \A x \in ElementsOf(X) \cup {Head(Q)} : \E i \in 1..(n + 1) : A[i] = x
  BY <1>4, <1>6, <1>7, <1>8
<1>10. Accounted(A, R, X, {Head(Q)})
  BY <1>1, <1>2, <1>3, <1>5, <1>9 DEF Accounted, HandCount
<1>11. InTurn(A, X, {}) => InTurn(A, X, {Head(Q)})
  BY <1>3, <1>4 DEF InTurn
<1> QED
  BY <1>2, <1>10, <1>11 DEF R

LEMMA ExecuteAccounted ==
    ASSUME NEW A, NEW Q, NEW X, NEW h \in Queries, Accounted(A, Q, X, {h})
    PROVE  /\ Accounted(A, Q, Append(X, h), {})
           /\ InTurn(A, X, {h}) => InTurn(A, Append(X, h), {})
           /\ OneLate(A, X, h) => OneLate(A, Append(X, h), h)
<1> DEFINE Y == Append(X, h)
<1>1. /\ A \in Seq(Queries) /\ Q \in Seq(Queries) /\ X \in Seq(Queries)
      /\ Len(A) \in Nat /\ Len(Q) \in Nat /\ Len(X) \in Nat /\ Len(A) >= Len(Q)
      /\ Len(A) = (Len(Q) + Len(X)) + 1 /\ Distinct(A)
  BY DEF Accounted, HandCount
<1>2. /\ Y \in Seq(Queries) /\ Len(Y) = Len(X) + 1
      /\ \A i \in 1..Len(X) : Y[i] = X[i]
      /\ Y[Len(X) + 1] = h
      /\ \A i \in 1..Len(Y) : i \in 1..Len(X) \/ i = Len(X) + 1
      /\ ElementsOf(Y) = ElementsOf(X) \cup {h}
      /\ \A x, y : Before(X, x, y) => Before(Y, x, y)
      /\ \A x \in ElementsOf(X) : Before(Y, x, h)
  BY <1>1, AppendIs, AppendElements
<1> HIDE DEF Y
<1>3. Accounted(A, Q, Y, {})
  BY <1>1, <1>2 DEF Accounted, HandCount
<1>4. InTurn(A, X, {h}) => InTurn(A, Y, {})
  BY <1>1, <1>2 DEF InTurn
<1>5. ASSUME OneLate(A, X, h), NEW i \in 1..Len(A), NEW j \in 1..Len(A), i < j,
             A[j] \in ElementsOf(Y), A[i] # h
      PROVE  Before(Y, A[i], A[j])
  <2>1. CASE A[j] \in ElementsOf(X)
    BY <1>2, <1>5, <2>1 DEF OneLate
  <2>2. CASE A[j] = h
    <3>1. PICK k \in 1..(Len(A) - Len(Q)) : A[k] = h
      BY DEF Accounted
    <3>2. k \in 1..Len(A)
      BY <1>1
    <3>3. k = j
      BY <1>1, <2>2, <3>1, <3>2 DEF Distinct
    <3>4. i \in 1..(Len(A) - Len(Q))
      BY <1>1, <1>5, <3>3
    <3>5. A[i] \in ElementsOf(X)
      BY <1>5, <3>4 DEF Accounted
    <3> QED
      BY <1>2, <2>2, <3>5
  <2> QED
    BY <1>2, <1>5, <2>1, <2>2
<1>6. OneLate(A, X, h) => OneLate(A, Y, h)
  BY <1>5 DEF OneLate
<1> QED
  BY <1>3, <1>4, <1>6 DEF Y

LEMMA FlushAccounted ==
    ASSUME NEW A, NEW Q, NEW X, NEW H, NEW h, H \in {{}, {h}}, Accounted(A, Q, X, H), Q # <<>>
    PROVE  /\ Accounted(A, Tail(Q), Append(X, Head(Q)), H)
           /\ OneLate(A, X, h) => OneLate(A, Append(X, Head(Q)), h)
<1> DEFINE R == Tail(Q)
           Y == Append(X, Head(Q))
           n == Len(A) - Len(Q)
<1>1. /\ A \in Seq(Queries) /\ Q \in Seq(Queries) /\ X \in Seq(Queries) /\ H \subseteq Queries
      /\ Len(A) \in Nat /\ Len(Q) \in Nat /\ Len(X) \in Nat /\ Len(A) >= Len(Q)
      /\ Len(A) = (Len(Q) + Len(X)) + HandCount(H) /\ HandCount(H) \in Nat /\ Distinct(A)
  <2>1. HandCount(H) \in Nat
    BY DEF HandCount
  <2> QED
    BY <2>1 DEF Accounted
<1>2. /\ R \in Seq(Queries) /\ Head(Q) \in Queries /\ Len(Q) >= 1
      /\ Len(R) = Len(Q) - 1 /\ Head(Q) = Q[1] /\ 1 \in 1..Len(Q)
      /\ \A i \in 1..(Len(Q) - 1) : i + 1 \in 1..Len(Q) /\ R[i] = Q[i + 1]
  BY <1>1, TailIs
<1>3. /\ Y \in Seq(Queries) /\ Len(Y) = Len(X) + 1
      /\ ElementsOf(Y) = ElementsOf(X) \cup {Head(Q)}
      /\ \A x, y : Before(X, x, y) => Before(Y, x, y)
      /\ \A x \in ElementsOf(X) : Before(Y, x, Head(Q))
  BY <1>1, <1>2, AppendIs, AppendElements
<1> HIDE DEF R, Y
<1>4. /\ Len(A) - Len(R) = n + 1 /\ Len(A) >= Len(R) /\ n \in Nat /\ n + 1 \in 1..Len(A)
      /\ Len(A) = (Len(R) + Len(Y)) + HandCount(H)
  BY <1>1, <1>2, <1>3
<1>5. Head(Q) = A[n + 1]
  BY <1>2 DEF Accounted
<1>6. ASSUME NEW i \in 1..Len(R) PROVE R[i] = A[(Len(A) - Len(R)) + i]
  <2>1. R[i] = Q[i + 1] /\ Q[i + 1] = A[n + (i + 1)]
    BY <1>2 DEF Accounted
  <2>2. n + (i + 1) = (Len(A) - Len(R)) + i
    <3>1. Len(A) - Len(R) = n + 1 /\ n \in Nat /\ i \in Nat
      BY <1>2, <1>4
    <3>2. n + (i + 1) = (n + 1) + i
      BY <3>1
    <3> QED
      BY <3>1, <3>2
  <2> QED
    BY <2>1, <2>2
<1>7. /\ \A i \in 1..n : A[i] \in ElementsOf(X) \cup H
      /\ \A x \in ElementsOf(X) \cup H : \E i \in 1..n : A[i] = x
  BY DEF Accounted
<1> HIDE DEF n
<1>8. /\ \A i \in 1..(n + 1) : i \in 1..n \/ i = n + 1
      /\ n + 1 \in 1..(n + 1) /\ \A i \in 1..n : i \in 1..(n + 1)
  BY <1>4
<1>9. /\ \A i \in 1..(n + 1) : A[i] \in ElementsOf(Y) \cup H
      /\ \A x \in ElementsOf(Y) \cup H : \E i \in 1..(n + 1) : A[i] = x
  BY <1>3, <1>5, <1>7, <1>8
<1>10. Accounted(A, R, Y, H)
  BY <1>1, <1>2, <1>3, <1>4, <1>6, <1>9 DEF Accounted
<1>11. ASSUME OneLate(A, X, h), NEW i \in 1..Len(A), NEW j \in 1..Len(A), i < j,
              A[j] \in ElementsOf(Y), A[i] # h
       PROVE  Before(Y, A[i], A[j])
  <2>1. CASE A[j] \in ElementsOf(X)
    BY <1>3, <1>11, <2>1 DEF OneLate
  <2>2. CASE A[j] = Head(Q)
    <3>1. j = n + 1
      BY <1>1, <1>4, <1>5, <2>2 DEF Distinct
    <3>2. i \in 1..n
      BY <1>4, <1>11, <3>1
    <3>3. A[i] \in ElementsOf(X)
      BY <1>7, <1>11, <3>2
    <3> QED
      BY <1>3, <2>2, <3>3
  <2> QED
    BY <1>3, <1>11, <2>1, <2>2
<1>12. OneLate(A, X, h) => OneLate(A, Y, h)
  BY <1>11 DEF OneLate
<1> QED
  BY <1>10, <1>12 DEF R, Y

LEMMA InTurnIsTimely ==
    ASSUME NEW A, NEW Q, NEW X, NEW H, NEW h, Accounted(A, Q, X, H), InTurn(A, X, H)
    PROVE  /\ OneLate(A, X, h)
           /\ \A i, j \in 1..Len(A) : i < j /\ A[j] \in ElementsOf(X) => Before(X, A[i], A[j])
<1>1. ASSUME NEW i \in 1..Len(A), NEW j \in 1..Len(A), i < j, A[j] \in ElementsOf(X)
      PROVE  Before(X, A[i], A[j])
  <2>1. PICK k \in 1..Len(X) : X[k] = A[j]
    BY <1>1 DEF ElementsOf
  <2>2. /\ Len(A) \in Nat /\ Len(Q) \in Nat /\ Len(X) \in Nat
        /\ Len(A) >= Len(Q) + Len(X)
    <3>1. /\ Len(A) \in Nat /\ Len(Q) \in Nat /\ Len(X) \in Nat
          /\ Len(A) = (Len(Q) + Len(X)) + HandCount(H)
      BY DEF Accounted
    <3>2. HandCount(H) \in {0, 1}
      BY DEF HandCount
    <3> QED
      BY <3>1, <3>2
  <2>3. k \in 1..Len(A) /\ A[k] = A[j]
    BY <2>1, <2>2 DEF InTurn
  <2>4. k = j
    BY <2>3 DEF Accounted, Distinct
  <2>5. i \in 1..Len(X)
    BY <1>1, <2>2, <2>4
  <2>6. X[i] = A[i]
    BY <2>5 DEF InTurn
  <2> QED
    BY <1>1, <2>1, <2>4, <2>5, <2>6 DEF Before
<1> QED
  BY <1>1 DEF OneLate

\* What has been executed or is in hand is no longer in the list, and every
\* accepted query is in one of the three.
LEMMA AccountedApart ==
    ASSUME NEW A, NEW Q, NEW X, NEW H, Accounted(A, Q, X, H)
    PROVE  /\ \A x \in ElementsOf(X) \cup H : x \notin ElementsOf(Q)
           /\ ElementsOf(A) = ElementsOf(Q) \cup H \cup ElementsOf(X)
<1> DEFINE n == Len(A) - Len(Q)
<1>1. Len(A) \in Nat /\ Len(Q) \in Nat /\ n \in Nat /\ Len(A) = n + Len(Q)
  BY DEF Accounted
<1>2. /\ \A i \in 1..Len(Q) : Q[i] = A[n + i]
      /\ \A i \in 1..n : A[i] \in ElementsOf(X) \cup H
      /\ \A x \in ElementsOf(X) \cup H : \E i \in 1..n : A[i] = x
      /\ \A i, j \in 1..Len(A) : A[i] = A[j] => i = j
  BY DEF Accounted, Distinct
<1> HIDE DEF n
<1>3. /\ \A i \in 1..n : i \in 1..Len(A)
      /\ \A i \in 1..Len(Q) : n + i \in 1..Len(A)
      /\ \A i \in 1..n : \A j \in 1..Len(Q) : i # n + j
  BY <1>1
<1>4. \A i \in 1..Len(A) : i \in 1..n \/ \E j \in 1..Len(Q) : i = n + j
  <2> SUFFICES ASSUME NEW i \in 1..Len(A), i \notin 1..n PROVE \E j \in 1..Len(Q) : i = n + j
    OBVIOUS
  <2>1. i - n \in 1..Len(Q) /\ i = n + (i - n)
    BY <1>1
  <2> QED
    BY <2>1
<1>5. ASSUME NEW x \in ElementsOf(X) \cup H, x \in ElementsOf(Q) PROVE FALSE
  <2>1. PICK i \in 1..n : A[i] = x
    BY <1>2
  <2>2. PICK j \in 1..Len(Q) : Q[j] = x
    BY <1>5 DEF ElementsOf
  <2> QED
    BY <1>2, <1>3, <2>1, <2>2
<1>6. ASSUME NEW x \in ElementsOf(A) PROVE x \in ElementsOf(Q) \cup H \cup ElementsOf(X)
  <2>1. PICK i \in 1..Len(A) : A[i] = x
    BY DEF ElementsOf
  <2>2. CASE i \in 1..n
    BY <1>2, <2>1, <2>2
  <2>3. CASE i \notin 1..n
    <3>1. PICK j \in 1..Len(Q) : i = n + j
      BY <1>4, <2>3
    <3> QED
      BY <1>2, <2>1, <3>1 DEF ElementsOf
  <2> QED
    BY <2>2, <2>3
<1>7. ASSUME NEW x \in ElementsOf(Q) \cup H \cup ElementsOf(X) PROVE x \in ElementsOf(A)
  <2>1. CASE x \in ElementsOf(Q)
    <3>1. PICK j \in 1..Len(Q) : Q[j] = x
      BY <2>1 DEF ElementsOf
    <3> QED
      BY <1>2, <1>3, <3>1 DEF ElementsOf
  <2>2. CASE x \in ElementsOf(X) \cup H
    <3>1. PICK i \in 1..n : A[i] = x
      BY <1>2, <2>2
    <3> QED
      BY <1>3, <3>1 DEF ElementsOf
  <2> QED
    BY <1>7, <2>1, <2>2
<1> QED
  BY <1>5, <1>6, <1>7

\* A callback that has been given to the dispatcher is that of an executed
\* query.
CalledBack ==
    \A q \in WithCallback : fate[CallbackOf[q]] # "new" => q \in ElementsOf(executed)

DbPlaces ==
    /\ bState \in ThreadStates
    /\ bPc \in {"check", "lock", "wait", "woken", "exec", "callback", "done"}
    /\ inHand \in Queries
    /\ bSignalling \in SUBSET DbCallers
    /\ bDown \in {"up", "flushing", "flushed", "down"}
    /\ bPc = "callback" => inHand \in ElementsOf(executed) /\ inHand \in WithCallback

\* What shutdown() makes of the order: until it has the lock queries are
\* executed as accepted; from then on nothing is accepted, and only the one in
\* hand can be late.
DbOrder ==
    /\ Accounted(accepted, queries, executed, InFlight)
    /\ bDown = "up" => InTurn(accepted, executed, InFlight)
    /\ bDown # "up" => OneLate(accepted, executed, inHand) /\ bState = "TERMINATED"
    /\ bDown \in {"flushed", "down"} => queries = <<>>

DbInvariant == DTypeOK /\ QueueOfLiveTasks /\ DbPlaces /\ DbOrder /\ CalledBack

\* The database thread and its callers give the dispatcher tasks by its own
\* handlers only.
LEMMA DbStepsDispatch == DbInvariant /\ [BNext]_dbvars => [DNext]_dvars
<1> SUFFICES ASSUME DbInvariant, BNext PROVE [DNext]_dvars
  BY DEF dbvars
<1>1. ASSUME NEW c \in DbCallers, NEW q \in Queries, DbAddTask(c, q) PROVE UNCHANGED dvars
  BY <1>1 DEF DbAddTask
<1>2. ASSUME NEW c \in DbCallers, DbNotify(c) PROVE UNCHANGED dvars
  BY <1>2 DEF DbNotify
<1>3. CASE DbCheck \/ DbLock \/ DbAfterWait \/ DbExecute \/ DbSpurious \/ StopDb
              \/ ShutdownDb \/ FlushDone \/ NotifyDb
  BY <1>3 DEF DbCheck, DbLock, DbAfterWait, DbExecute, DbSpurious, StopDb, ShutdownDb, FlushDone, NotifyDb
<1>4. CASE DbCallback
  <2>1. CallbackOf[inHand] \in Tasks /\ DatabaseThread \in Producers
    BY <1>4, DatabaseAssumption DEF DbCallback, DbInvariant, DbPlaces
  <2>2. AddTask(DatabaseThread, CallbackOf[inHand], FALSE)
    BY <1>4 DEF DbCallback
  <2> QED
    BY <2>1, <2>2 DEF DNext
<1>5. CASE FlushOne
  <2>1. CASE Head(queries) \in WithCallback
    <3>1. CallbackOf[Head(queries)] \in Tasks /\ AddTaskFromTask(CallbackOf[Head(queries)])
      BY <1>5, <2>1, DatabaseAssumption DEF FlushOne
    <3> QED
      BY <3>1 DEF DNext
  <2>2. CASE Head(queries) \notin WithCallback
    BY <1>5, <2>2 DEF FlushOne
  <2> QED
    BY <2>1, <2>2
<1>6. CASE DbDispatching
  BY <1>6 DEF DbDispatching, DNext
<1> QED
  BY <1>1, <1>2, <1>3, <1>4, <1>5, <1>6 DEF BNext, DbThread

\* The dispatcher's own steps allocate no callback: those that were not there
\* before are not there after.
LEMMA DispatchingAllocates ==
    ASSUME DbInvariant, DbDispatching, NEW q \in WithCallback, fate'[CallbackOf[q]] # "new"
    PROVE  fate[CallbackOf[q]] # "new"
<1> DEFINE t == CallbackOf[q]
<1>1. t \in Tasks /\ t \in AllTasks /\ t \in DbCallbacks /\ t # StopTask
  BY DatabaseAssumption, DispatcherAssumption DEF AllTasks, DbCallbacks
<1> SUFFICES ASSUME fate[t] = "new" PROVE fate'[t] = "new"
  OBVIOUS
<1> HIDE DEF t
<1>2. /\ fate \in [AllTasks -> {"new", "queued", "running"} \cup Deleted]
      /\ taskList \in Seq(AllTasks) /\ current \in AllTasks
      /\ dPc = "run" => fate[current] = "running"
      /\ \A u \in AllTasks : fate[u] = "queued" <=> u \in Listed(taskList)
      /\ Distinct(taskList)
  BY DEF DbInvariant, DTypeOK, QueueOfLiveTasks, QueuedTasks, Listed, Distinct
<1>3. ASSUME NEW p \in Producers, NEW u \in Tasks \ DbCallbacks, AddTask(p, u, FALSE) PROVE fate'[t] = "new"
  <2>1. u # t /\ u \in AllTasks
    BY <1>1 DEF AllTasks
  <2>2. fate' = [fate EXCEPT ![u] = "queued"] \/ fate' = [fate EXCEPT ![u] = "dropped"]
    BY <1>3 DEF AddTask
  <2> QED
    BY <1>1, <1>2, <2>1, <2>2
<1>4. ASSUME NEW u \in Tasks \ DbCallbacks, AddTaskFromTask(u) PROVE fate'[t] = "new"
  <2>1. u # t /\ u \in AllTasks
    BY <1>1 DEF AllTasks
  <2>2. fate' = [fate EXCEPT ![u] = "queued"] \/ fate' = [fate EXCEPT ![u] = "dropped"]
    BY <1>4 DEF AddTaskFromTask
  <2> QED
    BY <1>1, <1>2, <2>1, <2>2
<1>5. ASSUME taskList # <<>>, Take PROVE fate'[t] = "new"
  <2>1. Head(taskList) \in Listed(taskList) /\ Head(taskList) \in AllTasks
    BY <1>2, <1>5, TailListed
  <2>2. Head(taskList) # t
    BY <1>1, <1>2, <2>1
  <2>3. \/ fate' = [fate EXCEPT ![Head(taskList)] = "running"]
        \/ fate' = [fate EXCEPT ![Head(taskList)] = "expired"]
    BY <1>5 DEF Take
  <2> QED
    BY <1>1, <1>2, <2>1, <2>2, <2>3
<1>6. CASE LockQueue \/ AfterWait
  <2>1. (taskList # <<>> /\ Take) \/ UNCHANGED fate
    BY <1>6 DEF LockQueue, AfterWait
  <2> QED
    BY <1>5, <2>1
<1>7. CASE Finish \/ RunStop
  BY <1>1, <1>2, <1>7 DEF Finish, RunStop
<1>8. ASSUME NEW p \in Producers, Notify(p) PROVE fate'[t] = "new"
  BY <1>8 DEF Notify
<1>9. CASE CheckState \/ SpuriousWake \/ Close
  BY <1>9 DEF CheckState, SpuriousWake, Close
<1>10. CASE Shutdown
  BY <1>1, <1>2, <1>10 DEF Shutdown
<1> QED
  BY <1>3, <1>4, <1>6, <1>7, <1>8, <1>9, <1>10 DEF DbDispatching, DispatcherThread

\* The thread takes the front of the list, while no flush is on.
LEMMA PopStep ==
    ASSUME DbInvariant, bPc \in {"lock", "woken"}, LockFree, queries # <<>>, DbPop,
           UNCHANGED <<dvars, bState, bSignalling, bDown, accepted, executed>>
    PROVE  DbPlaces' /\ DbOrder' /\ CalledBack'
<1>1. bDown = "up"
  BY DEF DbInvariant, DbOrder, DbPlaces, LockFree
<1>2. InFlight = {} /\ InFlight' = {Head(queries)}
  BY DEF InFlight, DbPop
<1>3. Accounted(accepted, queries, executed, {}) /\ InTurn(accepted, executed, {})
  BY <1>1, <1>2 DEF DbInvariant, DbOrder
<1>4. /\ Accounted(accepted, Tail(queries), executed, {Head(queries)})
      /\ InTurn(accepted, executed, {Head(queries)})
      /\ Head(queries) \in Queries
  BY <1>3, PopAccounted
<1>5. DbOrder'
  BY <1>1, <1>2, <1>4 DEF DbOrder, DbPop
<1>6. DbPlaces'
  BY <1>4 DEF DbInvariant, DbPlaces, DbPop
<1> QED
  BY <1>5, <1>6 DEF DbInvariant, CalledBack, dvars

LEMMA DbStep == DbInvariant /\ [BNext]_dbvars => DbInvariant'
<1> SUFFICES ASSUME DbInvariant, [BNext]_dbvars PROVE DbInvariant'
  OBVIOUS
<1>0. DTypeOK' /\ QueueOfLiveTasks'
  BY DbStepsDispatch, TypeStep, QueueStep DEF DbInvariant
<1> SUFFICES DbPlaces' /\ DbOrder' /\ CalledBack'
  BY <1>0 DEF DbInvariant
<1>1. ASSUME NEW c \in DbCallers, NEW q \in Queries, DbAddTask(c, q)
      PROVE  DbPlaces' /\ DbOrder' /\ CalledBack'
  <2>1. bDown = "up" /\ InFlight' = InFlight /\ q \notin ElementsOf(accepted)
    BY <1>1 DEF DbInvariant, DbOrder, DbAddTask, AcceptsQueries, InFlight
  <2>2. Accounted(accepted, queries, executed, InFlight) /\ InTurn(accepted, executed, InFlight)
    BY <2>1 DEF DbInvariant, DbOrder
  <2>3. /\ Accounted(Append(accepted, q), Append(queries, q), executed, InFlight)
        /\ InTurn(Append(accepted, q), executed, InFlight)
    BY <2>1, <2>2, AcceptAccounted
  <2>4. DbOrder'
    BY <1>1, <2>1, <2>3 DEF DbOrder, DbAddTask, WithNew
  <2>5. DbPlaces'
    BY <1>1 DEF DbInvariant, DbPlaces, DbAddTask
  <2>6. CalledBack'
    BY <1>1 DEF DbInvariant, CalledBack, DbAddTask, dvars
  <2> QED
    BY <2>4, <2>5, <2>6
<1>2. ASSUME UNCHANGED <<dvars, queries, inHand, accepted, executed>>,
             InFlight' = InFlight, bPc' = "callback" => bPc = "callback",
             bDown' = bDown /\ (bState' = bState \/ (bState = "RUNNING" /\ bState' = "CLOSING")),
             bPc' \in {"check", "lock", "wait", "woken", "exec", "callback", "done"},
             bSignalling' \in SUBSET DbCallers
      PROVE  DbPlaces' /\ DbOrder' /\ CalledBack'
  <2>1. DbOrder'
    BY <1>2 DEF DbInvariant, DbOrder
  <2>2. DbPlaces'
    BY <1>2 DEF DbInvariant, DbPlaces, ThreadStates
  <2>3. CalledBack'
    BY <1>2 DEF DbInvariant, CalledBack, dvars
  <2> QED
    BY <2>1, <2>2, <2>3
<1>3. ASSUME NEW c \in DbCallers, DbNotify(c) PROVE DbPlaces' /\ DbOrder' /\ CalledBack'
  BY <1>2, <1>3 DEF DbNotify, DbWoken, InFlight, DbInvariant, DbPlaces
<1>4. CASE DbCheck \/ DbSpurious \/ StopDb
  BY <1>2, <1>4 DEF DbCheck, DbSpurious, StopDb, InFlight, DbInvariant, DbPlaces
<1>5. CASE DbLock \/ DbAfterWait
  <2>1. CASE queries # <<>> /\ DbPop
    BY <1>5, <2>1, PopStep DEF DbLock, DbAfterWait
  <2>2. CASE queries = <<>> /\ bPc' \in {"wait", "check"} /\ UNCHANGED <<queries, inHand>>
    BY <1>2, <1>5, <2>2 DEF DbLock, DbAfterWait, InFlight, DbInvariant, DbPlaces
  <2> QED
    BY <1>5, <2>1, <2>2 DEF DbLock, DbAfterWait
<1>6. CASE DbExecute
  <2>1. InFlight = {inHand} /\ InFlight' = {} /\ inHand \in Queries
    BY <1>6 DEF DbExecute, InFlight, DbInvariant, DbPlaces
  <2>2. /\ Accounted(accepted, queries, executed, {inHand})
        /\ bDown = "up" => InTurn(accepted, executed, {inHand})
        /\ executed \in Seq(Queries)
    BY <2>1 DEF DbInvariant, DbOrder, Accounted
  <2>3. /\ Accounted(accepted, queries, Append(executed, inHand), {})
        /\ bDown = "up" => InTurn(accepted, Append(executed, inHand), {})
        /\ OneLate(accepted, executed, inHand) => OneLate(accepted, Append(executed, inHand), inHand)
    BY <2>1, <2>2, ExecuteAccounted
  <2>4. ElementsOf(executed') = ElementsOf(executed) \cup {inHand}
    BY <1>6, <2>1, <2>2, AppendElements DEF DbExecute
  <2>5. DbOrder'
    BY <1>6, <2>1, <2>3 DEF DbOrder, DbInvariant, DbExecute
  <2>6. DbPlaces'
    BY <1>6, <2>4 DEF DbInvariant, DbPlaces, DbExecute
  <2>7. CalledBack'
    BY <1>6, <2>4 DEF DbInvariant, CalledBack, DbExecute, dvars
  <2> QED
    BY <2>5, <2>6, <2>7
<1>7. CASE DbCallback
  <2>1. /\ inHand \in WithCallback /\ inHand \in ElementsOf(executed)
        /\ CallbackOf[inHand] \in AllTasks
    BY <1>7, DatabaseAssumption DEF DbCallback, DbInvariant, DbPlaces, AllTasks
  <2>2. \/ fate' = [fate EXCEPT ![CallbackOf[inHand]] = "queued"]
        \/ fate' = [fate EXCEPT ![CallbackOf[inHand]] = "dropped"]
    BY <1>7 DEF DbCallback, AddTask
  <2>3. CalledBack'
    <3> SUFFICES ASSUME NEW q \in WithCallback, fate'[CallbackOf[q]] # "new"
                 PROVE  q \in ElementsOf(executed)
      BY <1>7 DEF DbCallback, CalledBack
    <3>1. CASE q = inHand
      BY <2>1, <3>1
    <3>2. CASE q # inHand
      <4>1. CallbackOf[q] # CallbackOf[inHand] /\ CallbackOf[q] \in AllTasks
        BY <2>1, <3>2, DatabaseAssumption DEF AllTasks
      <4>2. fate'[CallbackOf[q]] = fate[CallbackOf[q]]
        BY <2>2, <4>1 DEF DbInvariant, DTypeOK
      <4> QED
        BY <4>2 DEF DbInvariant, CalledBack
    <3> QED
      BY <3>1, <3>2
  <2>4. InFlight' = InFlight /\ bPc' = "check"
    BY <1>7 DEF DbCallback, InFlight
  <2>5. DbOrder'
    BY <1>7, <2>4 DEF DbInvariant, DbOrder, DbCallback
  <2>6. DbPlaces'
    BY <1>7, <2>4 DEF DbInvariant, DbPlaces, DbCallback
  <2> QED
    BY <2>3, <2>5, <2>6
<1>8. CASE ShutdownDb
  <2>1. InFlight' = InFlight /\ bDown = "up"
    BY <1>8 DEF ShutdownDb, InFlight
  <2>2. Accounted(accepted, queries, executed, InFlight) /\ InTurn(accepted, executed, InFlight)
    BY <2>1 DEF DbInvariant, DbOrder
  <2>3. OneLate(accepted, executed, inHand)
    BY <2>2, InTurnIsTimely
  <2>4. DbOrder'
    BY <1>8, <2>1, <2>2, <2>3 DEF DbOrder, ShutdownDb
  <2>5. DbPlaces'
    BY <1>8 DEF DbInvariant, DbPlaces, ShutdownDb, ThreadStates
  <2>6. CalledBack'
    BY <1>8 DEF DbInvariant, CalledBack, ShutdownDb, dvars
  <2> QED
    BY <2>4, <2>5, <2>6
<1>9. CASE FlushOne
  <2>1. /\ InFlight' = InFlight /\ bDown = "flushing" /\ queries # <<>>
        /\ InFlight \in {{}, {inHand}}
    BY <1>9 DEF FlushOne, InFlight
  <2>2. /\ Accounted(accepted, queries, executed, InFlight)
        /\ OneLate(accepted, executed, inHand)
        /\ executed \in Seq(Queries) /\ queries \in Seq(Queries)
    BY <2>1 DEF DbInvariant, DbOrder, Accounted
  <2>3. /\ Accounted(accepted, Tail(queries), Append(executed, Head(queries)), InFlight)
        /\ OneLate(accepted, Append(executed, Head(queries)), inHand)
    BY <2>1, <2>2, FlushAccounted
  <2>4. Head(queries) \in Queries
    BY <2>1, <2>2, TailIs
  <2>5. ElementsOf(executed') = ElementsOf(executed) \cup {Head(queries)}
    BY <1>9, <2>2, <2>4, AppendElements DEF FlushOne
  <2>6. DbOrder'
    BY <1>9, <2>1, <2>3 DEF DbOrder, DbInvariant, FlushOne
  <2>7. DbPlaces'
    BY <1>9, <2>5 DEF DbInvariant, DbPlaces, FlushOne
  <2>8. CalledBack'
    <3> SUFFICES ASSUME NEW q \in WithCallback, fate'[CallbackOf[q]] # "new", q # Head(queries)
                 PROVE  q \in ElementsOf(executed)
      BY <2>5 DEF CalledBack
    <3>1. CASE Head(queries) \in WithCallback
      <4>1. /\ CallbackOf[q] # CallbackOf[Head(queries)]
            /\ CallbackOf[q] \in AllTasks /\ CallbackOf[Head(queries)] \in AllTasks
        BY <3>1, DatabaseAssumption DEF AllTasks
      <4>2. \/ fate' = [fate EXCEPT ![CallbackOf[Head(queries)]] = "queued"]
            \/ fate' = [fate EXCEPT ![CallbackOf[Head(queries)]] = "dropped"]
        BY <1>9, <3>1 DEF FlushOne, AddTaskFromTask
      <4>3. fate'[CallbackOf[q]] = fate[CallbackOf[q]]
        BY <4>1, <4>2 DEF DbInvariant, DTypeOK
      <4> QED
        BY <4>3 DEF DbInvariant, CalledBack
    <3>2. CASE Head(queries) \notin WithCallback
      BY <1>9, <3>2 DEF FlushOne, dvars, DbInvariant, CalledBack
    <3> QED
      BY <3>1, <3>2
  <2> QED
    BY <2>6, <2>7, <2>8
<1>10. CASE FlushDone \/ NotifyDb
  <2>1. /\ InFlight' = InFlight /\ bDown \in {"flushing", "flushed"} /\ bDown' \in {"flushed", "down"}
        /\ bPc' = "callback" => bPc = "callback"
        /\ bPc' \in {"check", "lock", "wait", "woken", "exec", "callback", "done"}
        /\ UNCHANGED <<dvars, bState, queries, inHand, bSignalling, accepted, executed>>
    BY <1>10 DEF FlushDone, NotifyDb, InFlight, DbWoken, DbInvariant, DbPlaces
  <2>2. queries = <<>>
    BY <1>10, <2>1 DEF FlushDone, NotifyDb, DbInvariant, DbOrder
  <2>3. DbOrder'
    BY <2>1, <2>2 DEF DbInvariant, DbOrder
  <2>4. DbPlaces'
    BY <2>1 DEF DbInvariant, DbPlaces
  <2>5. CalledBack'
    BY <2>1 DEF DbInvariant, CalledBack, dvars
  <2> QED
    BY <2>3, <2>4, <2>5
<1>11. CASE DbDispatching
  <2>1. UNCHANGED bvars /\ InFlight' = InFlight
    BY <1>11 DEF DbDispatching, bvars, InFlight
  <2>2. DbOrder'
    BY <2>1 DEF bvars, DbInvariant, DbOrder
  <2>3. DbPlaces'
    BY <2>1 DEF bvars, DbInvariant, DbPlaces
  <2>4. CalledBack'
    <3> SUFFICES ASSUME NEW q \in WithCallback, fate'[CallbackOf[q]] # "new"
                 PROVE  q \in ElementsOf(executed)
      BY <2>1 DEF CalledBack, bvars
    <3>1. fate[CallbackOf[q]] # "new"
      BY <1>11, DispatchingAllocates
    <3> QED
      BY <3>1 DEF DbInvariant, CalledBack
  <2> QED
    BY <2>2, <2>3, <2>4
<1>12. CASE UNCHANGED dbvars
  BY <1>2, <1>12 DEF dbvars, bvars, InFlight, DbInvariant, DbPlaces
<1> QED
  BY <1>1, <1>3, <1>4, <1>5, <1>6, <1>7, <1>8, <1>9, <1>10, <1>11, <1>12 DEF BNext, DbThread

LEMMA DbInit == BInit => DbInvariant
<1> SUFFICES ASSUME BInit PROVE DbInvariant
  OBVIOUS
<1>1. DTypeOK /\ QueueOfLiveTasks
  BY StopTaskInAllTasks DEF BInit, DInit, DTypeOK, ThreadStates, QueueOfLiveTasks, QueuedTasks
<1>2. inHand \in Queries
  BY DatabaseAssumption DEF BInit
<1>3. ElementsOf(<<>>) = {} /\ Len(<<>>) = 0 /\ <<>> \in Seq(Queries)
  BY DEF ElementsOf
<1>4. Accounted(<<>>, <<>>, <<>>, {}) /\ InTurn(<<>>, <<>>, {})
  BY <1>3 DEF Accounted, InTurn, Distinct, HandCount
<1>5. InFlight = {}
  BY DEF BInit, InFlight
<1>6. DbOrder
  BY <1>4, <1>5 DEF BInit, DbOrder
<1>7. DbPlaces
  BY <1>2 DEF BInit, DbPlaces, ThreadStates
<1>8. CalledBack
  <2> SUFFICES ASSUME NEW q \in WithCallback PROVE fate[CallbackOf[q]] = "new"
    BY DEF CalledBack
  <2>1. CallbackOf[q] \in AllTasks
    BY DatabaseAssumption DEF AllTasks
  <2> QED
    BY <2>1 DEF BInit, DInit
<1> QED
  BY <1>1, <1>6, <1>7, <1>8 DEF DbInvariant

\* Every accepted query is in the list, in hand or in the history, the list is
\* the end of what was accepted, and what the shutdown makes of the order.
THEOREM DatabaseThreadInvariant == BSpec => []DbInvariant
  BY DbInit, DbStep, PTL DEF BSpec

LEMMA InvariantQueriesOnce == DbInvariant => QueriesOnceInOrder
<1> SUFFICES ASSUME DbInvariant PROVE QueriesOnceInOrder
  OBVIOUS
<1>1. /\ accepted \in Seq(Queries) /\ queries \in Seq(Queries) /\ executed \in Seq(Queries)
      /\ Accounted(accepted, queries, executed, InFlight)
      /\ Len(accepted) = (Len(queries) + Len(executed)) + HandCount(InFlight)
  BY DEF DbInvariant, DbOrder, Accounted
<1>2. /\ \A x \in ElementsOf(executed) \cup InFlight : x \notin ElementsOf(queries)
      /\ ElementsOf(accepted) = ElementsOf(queries) \cup InFlight \cup ElementsOf(executed)
  BY <1>1, AccountedApart
<1>3. BTypeOK
  BY <1>1, <1>2 DEF DbInvariant, DbPlaces, BTypeOK, InFlight
<1>4. Cardinality(InFlight) = HandCount(InFlight)
  BY FS_EmptySet, FS_Singleton DEF InFlight, HandCount
<1>5. EveryQueryOnce
  <2>1. Len(queries) \in Nat /\ Len(executed) \in Nat /\ HandCount(InFlight) \in Nat
    BY <1>1 DEF HandCount
  <2>2. Len(accepted) = Len(queries) + Cardinality(InFlight) + Len(executed)
    BY <1>1, <1>4, <2>1
  <2> QED
    BY <1>2, <2>2 DEF EveryQueryOnce
<1>6. ASSUME bDown = "up" PROVE Overtaken = {}
  <2>1. InTurn(accepted, executed, InFlight)
    BY <1>6 DEF DbInvariant, DbOrder
  <2>2. \A i, j \in 1..Len(accepted) :
           i < j /\ accepted[j] \in ElementsOf(executed) => Before(executed, accepted[i], accepted[j])
    BY <1>1, <2>1, InTurnIsTimely
  <2>3. \A q, r : r \in ElementsOf(executed) /\ Before(accepted, q, r) => Before(executed, q, r)
    BY <2>2 DEF Before
  <2> QED
    BY <2>3 DEF Overtaken
<1>7. ASSUME bDown # "up" PROVE Overtaken \subseteq {inHand}
  <2>1. OneLate(accepted, executed, inHand)
    BY <1>7 DEF DbInvariant, DbOrder
  <2>2. \A q, r : r \in ElementsOf(executed) /\ Before(accepted, q, r) /\ q # inHand => Before(executed, q, r)
    BY <2>1 DEF Before, OneLate
  <2> QED
    BY <2>2 DEF Overtaken
<1>8. Cardinality(Overtaken) <= 1
  <2>1. Overtaken = {} \/ Overtaken = {inHand}
    BY <1>6, <1>7
  <2>2. Cardinality({}) = 0 /\ Cardinality({inHand}) = 1
    BY FS_EmptySet, FS_Singleton
  <2> QED
    BY <2>1, <2>2
<1> QED
  BY <1>3, <1>5, <1>6, <1>8 DEF QueriesOnceInOrder, DbInvariant, CalledBack

\* No accepted query is lost or executed twice although two threads take
\* queries from the list, and only the one in hand when flush() starts can be
\* overtaken: for any number of callers and queries (DatabaseTasks::addTask,
\* threadMain, flush).
THEOREM QueriesInOrder == BSpec => []QueriesOnceInOrder
  BY DatabaseThreadInvariant, InvariantQueriesOnce, PTL

-----------------------------------------------------------------------------
(* The scheduler                                                           *)

\* lastEventId is a 32-bit counter that starts again at 1.  That ids are told
\* apart holds of a server that has not given them all out.
FewerEventsThanIds == IsFiniteSet(Events) /\ Cardinality(Events) < IdSpace

-----------------------------------------------------------------------------
(* The inductive invariant                                                 *)

Numbered == {e \in Events : eventId[e] # 0}

IdsInOrder ==
    /\ lastEventId = Cardinality(Numbered)
    /\ \A e \in Events : eventId[e] <= lastEventId
    /\ \A e, f \in Numbered : eventId[e] = eventId[f] => e = f

LiveIds == eventIds = {eventId[e] : e \in eventList \ stopped}

Carried(e) == sPc = "push" /\ held = e

\* Where each event is: in the heap, in the hands of the scheduler thread, or
\* out of them.
EventPlaces ==
    \A e \in Events :
        /\ e \in eventList => fate[e] = "new" /\ eventId[e] # 0
        /\ e \in stopped => eventId[e] # 0 /\ (e \in eventList \/ fate[e] = "dropped")
        /\ Carried(e) => e \notin eventList \cup stopped /\ fate[e] = "new" /\ eventId[e] # 0
        /\ eventId[e] # 0 /\ fate[e] = "new" => e \in eventList \/ Carried(e)
        /\ Delivered(e) => e \notin stopped /\ now >= cycle[e]
        /\ fate[e] # "expired"

\* The thread sleeps no longer than the earliest event, also when another one
\* has come to the top since: so the top it pops after the timeout is due.
WaitsForTop ==
    sPc \in {"waitUntil", "returning"} =>
        \/ eventList = {} /\ sState # "RUNNING"
        \/ \E e \in eventList : cycle[e] <= deadline

\* The scheduler closes before the dispatcher and is down before that stops.
ClosedInOrder ==
    /\ sDown # "up" => sState = "TERMINATED"
    /\ dState # "RUNNING" => sState # "RUNNING"
    /\ fate[StopTask] # "new" => sDown = "down"

SchedulerInv ==
    /\ DTypeOK /\ QueueOfLiveTasks /\ STypeOK
    /\ IdsInOrder /\ LiveIds /\ EventPlaces /\ WaitsForTop /\ ClosedInOrder

-----------------------------------------------------------------------------
USE SchedulerAssumption, DispatcherAssumption

LEMMA EventsAreTasks ==
    /\ Events \subseteq AllTasks /\ Events \subseteq Tasks
    /\ StopTask \notin Events /\ StopTask \in AllTasks
    /\ \A e \in Events : e \notin Expiring
BY DEF SchedulerAssumption, DispatcherAssumption, AllTasks

LEMMA SchedulerInit == ASSUME FewerEventsThanIds, SInit PROVE SchedulerInv
<1>1. DTypeOK /\ QueueOfLiveTasks
  BY StopTaskInAllTasks
     DEF SInit, DInit, DTypeOK, ThreadStates, QueueOfLiveTasks, QueuedTasks
<1>2. STypeOK
  <2>1. (CHOOSE e \in Events : TRUE) \in Events
    BY DEF SchedulerAssumption
  <2> QED
    BY <2>1 DEF SInit, STypeOK, ThreadStates, SchedulerAssumption
<1>3. IdsInOrder
  <2>1. Numbered = {}
    BY DEF SInit, Numbered
  <2> QED
    BY <2>1, FS_EmptySet DEF SInit, IdsInOrder
<1>4. LiveIds /\ WaitsForTop /\ ClosedInOrder
  BY EventsAreTasks DEF SInit, DInit, LiveIds, WaitsForTop, ClosedInOrder
<1>5. EventPlaces
  BY EventsAreTasks DEF SInit, DInit, EventPlaces, Carried, Delivered
<1> QED
  BY <1>1, <1>2, <1>3, <1>4, <1>5 DEF SchedulerInv

LEMMA WokenMoves ==
    ASSUME STypeOK
    PROVE  /\ Woken \in SleepPcs \cup {"check", "lock", "woken", "returning", "push", "done", "undefined"}
           /\ Woken = "push" <=> sPc = "push"
           /\ Woken \in {"waitUntil", "returning"} => sPc \in {"waitUntil", "returning"}
<1>1. CASE sPc = "wait"
  BY <1>1 DEF Woken
<1>2. CASE sPc = "waitUntil"
  BY <1>2 DEF Woken
<1>3. CASE sPc \notin {"wait", "waitUntil"}
  <2>1. Woken = sPc
    BY <1>3 DEF Woken
  <2> QED
    BY <1>3, <2>1 DEF STypeOK, SleepPcs
<1> QED
  BY <1>1, <1>2, <1>3

\* A step that leaves the events, their ids and the clock alone.
LEMMA QuietStep ==
    ASSUME SchedulerInv, DTypeOK', QueueOfLiveTasks', STypeOK',
           UNCHANGED <<eventList, eventIds, lastEventId, eventId, cycle, held, stopped>>,
           now <= now',
           \A e \in Events : fate'[e] = fate[e],
           sPc' = "push" <=> sPc = "push",
           WaitsForTop', ClosedInOrder'
    PROVE  SchedulerInv'
<1>1. IdsInOrder' /\ LiveIds'
  BY DEF SchedulerInv, IdsInOrder, Numbered, LiveIds
<1>2. EventPlaces'
  <2> SUFFICES ASSUME NEW e \in Events
               PROVE  /\ e \in eventList => fate'[e] = "new" /\ eventId[e] # 0
                      /\ e \in stopped => eventId[e] # 0 /\ (e \in eventList \/ fate'[e] = "dropped")
                      /\ Carried(e)' => e \notin eventList \cup stopped /\ fate'[e] = "new" /\ eventId[e] # 0
                      /\ eventId[e] # 0 /\ fate'[e] = "new" => e \in eventList \/ Carried(e)'
                      /\ Delivered(e)' => e \notin stopped /\ now' >= cycle[e]
                      /\ fate'[e] # "expired"
    BY DEF EventPlaces
  <2>1. fate'[e] = fate[e] /\ (Carried(e)' <=> Carried(e)) /\ (Delivered(e)' <=> Delivered(e))
    BY DEF Carried, Delivered
  <2>2. now >= cycle[e] => now' >= cycle[e]
    BY DEF SchedulerInv, STypeOK
  <2> QED
    BY <2>1, <2>2 DEF SchedulerInv, EventPlaces
<1> QED
  BY <1>1, <1>2 DEF SchedulerInv

\* Of the events, a step of the dispatcher moves at most one, from the queue to
\* the thread or from there to its end.
LEMMA DispatchingMoves ==
    ASSUME SchedulerInv, Dispatching
    PROVE  /\ DNext
           /\ \E t \in AllTasks :
                 /\ \A e \in Events \ {t} : fate'[e] = fate[e]
                 /\ t \in Events => \/ fate'[t] = fate[t]
                                    \/ fate[t] = "queued" /\ fate'[t] = "running"
                                    \/ fate[t] = "running" /\ fate'[t] = "done"
           /\ fate'[StopTask] # "new" => fate[StopTask] # "new" \/ sDown = "down"
           /\ dState' # "RUNNING" => sState # "RUNNING"
<1> DEFINE Moves ==
           /\ \E t \in AllTasks :
                 /\ \A e \in Events \ {t} : fate'[e] = fate[e]
                 /\ t \in Events => \/ fate'[t] = fate[t]
                                    \/ fate[t] = "queued" /\ fate'[t] = "running"
                                    \/ fate[t] = "running" /\ fate'[t] = "done"
           /\ fate'[StopTask] # "new" => fate[StopTask] # "new" \/ sDown = "down"
           /\ dState' # "RUNNING" => sState # "RUNNING"
<1>1. /\ fate \in [AllTasks -> {"new", "queued", "running"} \cup Deleted]
      /\ taskList \in Seq(AllTasks) /\ current \in AllTasks
      /\ dPc = "run" => fate[current] = "running"
      /\ \A t \in AllTasks : fate[t] = "queued" <=> t \in Listed(taskList)
      /\ Distinct(taskList)
      /\ dState # "RUNNING" => sState # "RUNNING"
      /\ fate[StopTask] # "new" => sDown = "down"
      /\ sDown # "up" => sState = "TERMINATED"
  BY DEF SchedulerInv, DTypeOK, QueueOfLiveTasks, QueuedTasks, Listed, Distinct, ClosedInOrder
<1>2. ASSUME NEW p \in Producers, NEW t \in Tasks \ Events, AddTask(p, t, FALSE)
      PROVE  DNext /\ Moves
  <2>1. DNext
    BY <1>2 DEF DNext
  <2>2. t \in AllTasks /\ t # StopTask
    BY DEF DispatcherAssumption, AllTasks
  <2>3. dState' = dState /\ (fate' = [fate EXCEPT ![t] = "queued"] \/ fate' = [fate EXCEPT ![t] = "dropped"])
    BY <1>2 DEF AddTask
  <2> QED
    BY <1>1, <1>2, <2>1, <2>2, <2>3, EventsAreTasks
<1>3. ASSUME NEW t \in Tasks \ Events, AddTaskFromTask(t)
      PROVE  DNext /\ Moves
  <2>1. DNext
    BY <1>3 DEF DNext
  <2>2. t \in AllTasks /\ t # StopTask
    BY DEF DispatcherAssumption, AllTasks
  <2>3. dState' = dState /\ (fate' = [fate EXCEPT ![t] = "queued"] \/ fate' = [fate EXCEPT ![t] = "dropped"])
    BY <1>3 DEF AddTaskFromTask
  <2> QED
    BY <1>1, <1>3, <2>1, <2>2, <2>3, EventsAreTasks
<1>4. ASSUME NEW p \in Producers, Notify(p) PROVE DNext /\ Moves
  BY <1>1, <1>4, EventsAreTasks DEF Notify, DNext
<1>5. CASE DispatcherThread
  <2>1. DNext
    BY <1>5 DEF DNext
  <2>2. CASE UNCHANGED <<fate, dState>>
    BY <1>1, <2>1, <2>2, EventsAreTasks
  <2>3. CASE taskList # <<>> /\ Take /\ UNCHANGED dState
    <3>1. Head(taskList) \in AllTasks /\ Head(taskList) \in Listed(taskList)
      BY <1>1, <2>3, TailListed
    <3>2. fate[Head(taskList)] = "queued"
      BY <1>1, <3>1
    <3>3. \/ fate' = [fate EXCEPT ![Head(taskList)] = "running"]
          \/ fate' = [fate EXCEPT ![Head(taskList)] = "expired"] /\ Head(taskList) \in Expiring
      BY <2>3 DEF Take
    <3> QED
      BY <1>1, <2>1, <2>3, <3>1, <3>2, <3>3, EventsAreTasks
  <2>4. CASE Finish
    BY <1>1, <2>1, <2>4, EventsAreTasks DEF Finish
  <2>5. CASE RunStop
    BY <1>1, <2>1, <2>5, EventsAreTasks DEF RunStop
  <2> QED
    BY <1>5, <2>2, <2>3, <2>4, <2>5 DEF DispatcherThread, CheckState, LockQueue, AfterWait
<1>6. CASE SpuriousWake
  BY <1>1, <1>6, EventsAreTasks DEF SpuriousWake, DNext
<1>7. CASE sState # "RUNNING" /\ Close
  BY <1>1, <1>7, EventsAreTasks DEF Close, DNext
<1>8. CASE sDown = "down" /\ Shutdown
  BY <1>1, <1>8, EventsAreTasks DEF Shutdown, DNext
<1> QED
  BY <1>2, <1>3, <1>4, <1>5, <1>6, <1>7, <1>8 DEF Dispatching

LEMMA DispatchingStep == ASSUME SchedulerInv, Dispatching PROVE SchedulerInv'
<1>1. /\ DNext
      /\ \A e \in Events : \/ fate'[e] = fate[e]
                           \/ fate[e] = "queued" /\ fate'[e] = "running"
                           \/ fate[e] = "running" /\ fate'[e] = "done"
      /\ fate'[StopTask] # "new" => fate[StopTask] # "new" \/ sDown = "down"
      /\ dState' # "RUNNING" => sState # "RUNNING"
  BY DispatchingMoves
<1>2. UNCHANGED <<sState, eventList, eventIds, lastEventId, eventId, cycle, now, sPc,
                  deadline, held, sSignalling, sDown, stopped>>
  BY DEF Dispatching, svars
<1>3. DTypeOK' /\ QueueOfLiveTasks'
  BY <1>1, TypeStep, QueueStep DEF SchedulerInv
<1>4. STypeOK' /\ IdsInOrder' /\ LiveIds' /\ WaitsForTop'
  BY <1>2 DEF SchedulerInv, STypeOK, IdsInOrder, Numbered, LiveIds, WaitsForTop
<1>5. ClosedInOrder'
  BY <1>1, <1>2 DEF SchedulerInv, ClosedInOrder
<1>6. EventPlaces'
  BY <1>1, <1>2 DEF SchedulerInv, EventPlaces, Carried, Delivered
<1> QED
  BY <1>3, <1>4, <1>5, <1>6 DEF SchedulerInv

\* The fate of tasks that were never in the queue is their owner's.
LEMMA DroppedTasks ==
    ASSUME DTypeOK, QueueOfLiveTasks, NEW S \in SUBSET AllTasks, \A t \in S : fate[t] = "new",
           fate' = [t \in AllTasks |-> IF t \in S THEN "dropped" ELSE fate[t]],
           UNCHANGED <<dState, taskList, dPc, current, signalling>>
    PROVE  DTypeOK' /\ QueueOfLiveTasks'
<1>1. \A t \in AllTasks : fate'[t] = IF t \in S THEN "dropped" ELSE fate[t]
  OBVIOUS
<1>2. DTypeOK'
  BY <1>1 DEF DTypeOK, Deleted
<1>3. QueueOfLiveTasks'
  BY <1>1 DEF QueueOfLiveTasks, QueuedTasks, DTypeOK
<1> QED
  BY <1>2, <1>3

\* The next id is new, as not all of them are given out.
LEMMA NextIdIsNew ==
    ASSUME FewerEventsThanIds, SchedulerInv, NEW e \in Events, eventId[e] = 0
    PROVE  /\ NextEventId = lastEventId + 1 /\ NextEventId \in 1 .. (IdSpace - 1)
           /\ Cardinality(Numbered \cup {e}) = lastEventId + 1
           /\ \A f \in Events : eventId[f] # NextEventId
<1>1. IsFiniteSet(Numbered) /\ IsFiniteSet(Numbered \cup {e})
  <2>1. Numbered \subseteq Events /\ Numbered \cup {e} \subseteq Events
    BY DEF Numbered
  <2> QED
    BY <2>1, FS_Subset DEF FewerEventsThanIds
<1>2. e \notin Numbered
  BY DEF Numbered
<1>3. Cardinality(Numbered \cup {e}) = Cardinality(Numbered) + 1
  BY <1>1, <1>2, FS_AddElement
<1>4. Cardinality(Numbered \cup {e}) <= Cardinality(Events)
  BY FS_Subset DEF FewerEventsThanIds, Numbered
<1>5. /\ Cardinality(Events) \in Nat /\ Cardinality(Numbered) \in Nat
      /\ Cardinality(Events) < IdSpace /\ IdSpace \in Nat
  BY <1>1, FS_CardinalityType DEF FewerEventsThanIds, SchedulerAssumption
<1>6. lastEventId = Cardinality(Numbered) /\ \A f \in Events : eventId[f] <= lastEventId /\ eventId[f] \in Nat
  BY <1>5 DEF SchedulerInv, IdsInOrder, STypeOK
<1> QED
  BY <1>3, <1>4, <1>5, <1>6 DEF NextEventId

LEMMA AddEventStep ==
    ASSUME FewerEventsThanIds, SchedulerInv, NEW c \in Callers, NEW e \in Events, NEW delay \in Delays,
           AddEvent(c, e, delay)
    PROVE  SchedulerInv'
<1>1. /\ fate[e] = "new" /\ eventId[e] = 0 /\ e \notin eventList /\ e \notin stopped /\ ~Carried(e)
      /\ UNCHANGED <<dState, taskList, dPc, current, signalling, sState, now, sPc,
                   deadline, held, sDown, stopped>>
      /\ DTypeOK /\ QueueOfLiveTasks /\ STypeOK /\ IdsInOrder /\ LiveIds /\ EventPlaces
  BY DEF AddEvent, SchedulerInv, EventPlaces
<1>2. CASE sState = "RUNNING"
  <2> DEFINE n == NextEventId
  <2>1. /\ lastEventId' = n
        /\ eventId' = [eventId EXCEPT ![e] = n]
        /\ cycle' = [cycle EXCEPT ![e] = now + delay]
        /\ eventIds' = eventIds \cup {n}
        /\ eventList' = eventList \cup {e}
        /\ sSignalling' \in {sSignalling, sSignalling \cup {c}}
        /\ UNCHANGED fate
    BY <1>2 DEF AddEvent
  <2>2. /\ n = lastEventId + 1 /\ n \in 1 .. (IdSpace - 1)
        /\ Cardinality(Numbered \cup {e}) = lastEventId + 1
        /\ \A f \in Events : eventId[f] # n
    BY <1>1, NextIdIsNew
  <2> HIDE DEF n
  <2>3. /\ eventId'[e] = n /\ cycle'[e] = now + delay
        /\ \A f \in Events \ {e} : eventId'[f] = eventId[f] /\ cycle'[f] = cycle[f]
        /\ eventList \subseteq Events /\ lastEventId \in Nat
        /\ \A f \in Events : eventId[f] \in Nat
    BY <1>1, <2>1 DEF STypeOK
  <2>4. DTypeOK' /\ QueueOfLiveTasks'
    BY <1>1, <2>1 DEF DTypeOK, QueueOfLiveTasks, QueuedTasks
  <2>5. STypeOK'
    <3>1. now + delay \in Nat
      BY <1>1 DEF STypeOK, SchedulerAssumption
    <3>2. cycle' \in [Events -> Nat] /\ eventId' \in [Events -> 0 .. (IdSpace - 1)]
          /\ lastEventId' \in 0 .. (IdSpace - 1) /\ eventIds' \in SUBSET (1 .. (IdSpace - 1))
      BY <1>1, <2>1, <2>2, <3>1 DEF STypeOK
    <3> QED
      BY <1>1, <2>1, <3>2 DEF STypeOK
  <2>6. IdsInOrder'
    <3>1. Numbered' = Numbered \cup {e}
      BY <2>2, <2>3 DEF Numbered
    <3>2. \A f \in Events : eventId'[f] <= lastEventId'
      BY <1>1, <2>1, <2>2, <2>3 DEF IdsInOrder
    <3>3. \A f, g \in Numbered' : eventId'[f] = eventId'[g] => f = g
      BY <1>1, <2>2, <2>3, <3>1 DEF IdsInOrder, Numbered
    <3> QED
      BY <2>1, <2>2, <3>1, <3>2, <3>3 DEF IdsInOrder
  <2>7. LiveIds'
    <3>1. {eventId'[f] : f \in eventList' \ stopped} = {eventId[f] : f \in eventList \ stopped} \cup {n}
      BY <1>1, <2>1, <2>3
    <3> QED
      BY <1>1, <2>1, <3>1 DEF LiveIds
  <2>8. EventPlaces'
    BY <1>1, <2>1, <2>2, <2>3 DEF EventPlaces, Carried, Delivered
  <2>9. WaitsForTop'
    BY <1>1, <1>2, <2>1, <2>3 DEF SchedulerInv, WaitsForTop
  <2>10. ClosedInOrder'
    BY <1>1, <2>1 DEF SchedulerInv, ClosedInOrder
  <2> QED
    BY <2>4, <2>5, <2>6, <2>7, <2>8, <2>9, <2>10 DEF SchedulerInv
<1>3. CASE sState # "RUNNING"
  <2>1. /\ fate' = [fate EXCEPT ![e] = "dropped"]
        /\ UNCHANGED <<lastEventId, eventId, cycle, eventIds, eventList, sSignalling>>
    BY <1>3 DEF AddEvent
  <2>2. fate' = [t \in AllTasks |-> IF t \in {e} THEN "dropped" ELSE fate[t]]
    BY <1>1, <2>1, EventsAreTasks DEF DTypeOK
  <2>3. DTypeOK' /\ QueueOfLiveTasks'
    BY <1>1, <2>2, DroppedTasks, EventsAreTasks
  <2>4. STypeOK' /\ IdsInOrder' /\ LiveIds' /\ WaitsForTop' /\ ClosedInOrder'
    BY <1>1, <2>1, <2>2, EventsAreTasks
       DEF SchedulerInv, STypeOK, IdsInOrder, Numbered, LiveIds, WaitsForTop, ClosedInOrder
  <2>5. EventPlaces'
    BY <1>1, <2>1, <2>2, EventsAreTasks DEF EventPlaces, Carried, Delivered
  <2> QED
    BY <2>3, <2>4, <2>5 DEF SchedulerInv
<1> QED
  BY <1>2, <1>3

\* Whose id is live is armed, and nobody else has it.
LEMMA LiveIdIsArmed ==
    ASSUME SchedulerInv, NEW e \in Events
    PROVE  /\ eventId[e] \in eventIds <=> e \in eventList \ stopped
           /\ Forget(e) = {eventId[f] : f \in (eventList \ stopped) \ {e}}
<1>1. \A f \in eventList : f \in Events /\ eventId[f] # 0
  BY DEF SchedulerInv, STypeOK, EventPlaces
<1>2. \A f \in eventList : eventId[f] = eventId[e] => f = e
  BY <1>1 DEF SchedulerInv, IdsInOrder, Numbered
<1>3. eventIds = {eventId[f] : f \in eventList \ stopped}
  BY DEF SchedulerInv, LiveIds
<1> QED
  BY <1>2, <1>3 DEF Forget

LEMMA StopEventStep ==
    ASSUME SchedulerInv, NEW c \in Callers, NEW e \in Events, StopEvent(c, e)
    PROVE  SchedulerInv'
<1>1. /\ eventIds' = Forget(e) /\ stopped' = stopped \cup {e} /\ e \in eventList
      /\ UNCHANGED <<dState, taskList, dPc, current, signalling, fate>>
      /\ UNCHANGED <<sState, eventList, lastEventId, eventId, cycle, now, sPc, deadline, held,
                     sSignalling, sDown>>
  BY LiveIdIsArmed DEF StopEvent, dvars
<1>2. DTypeOK' /\ QueueOfLiveTasks'
  BY <1>1 DEF SchedulerInv, DTypeOK, QueueOfLiveTasks, QueuedTasks
<1>3. STypeOK' /\ IdsInOrder' /\ WaitsForTop' /\ ClosedInOrder'
  BY <1>1 DEF SchedulerInv, STypeOK, IdsInOrder, Numbered, WaitsForTop, ClosedInOrder, Forget
<1>4. LiveIds'
  <2>1. (eventList \ stopped) \ {e} = eventList \ (stopped \cup {e})
    OBVIOUS
  <2> QED
    BY <1>1, <2>1, LiveIdIsArmed DEF LiveIds
<1>5. EventPlaces'
  BY <1>1 DEF SchedulerInv, EventPlaces, Carried, Delivered
<1> QED
  BY <1>2, <1>3, <1>4, <1>5 DEF SchedulerInv

\* After the timeout the top is due, is taken off, and goes on if it is wanted.
LEMMA ReturnStep == ASSUME SchedulerInv, SReturn PROVE SchedulerInv'
<1>1. /\ sPc = "returning"
      /\ UNCHANGED <<dState, taskList, dPc, current, signalling, sState, lastEventId,
                   eventId, cycle, now, deadline, sSignalling, sDown, stopped>>
      /\ DTypeOK /\ QueueOfLiveTasks /\ STypeOK /\ IdsInOrder /\ LiveIds /\ EventPlaces
      /\ WaitsForTop /\ ClosedInOrder
  BY DEF SReturn, SchedulerInv
<1>2. CASE sPc' \in {"check", "undefined"} /\ UNCHANGED <<eventList, eventIds, held, fate>>
  <2>1. /\ DTypeOK' /\ QueueOfLiveTasks' /\ STypeOK' /\ WaitsForTop' /\ ClosedInOrder'
    BY <1>1, <1>2 DEF DTypeOK, QueueOfLiveTasks, QueuedTasks, STypeOK, WaitsForTop, ClosedInOrder
  <2> QED
    BY <1>1, <1>2, <2>1, QuietStep DEF STypeOK
<1>3. ASSUME NEW e \in Tops, TimedOut, eventList' = eventList \ {e}, eventIds' = Forget(e),
             IF StillWanted(e)
               THEN sPc' = "push" /\ held' = e /\ UNCHANGED fate
               ELSE sPc' = "check" /\ fate' = [fate EXCEPT ![e] = "dropped"] /\ UNCHANGED held
      PROVE  SchedulerInv'
  <2>1. /\ e \in eventList /\ e \in Events /\ fate[e] = "new" /\ eventId[e] # 0
        /\ \A f \in eventList : cycle[e] <= cycle[f]
    BY <1>1, <1>3 DEF Tops, STypeOK, EventPlaces
  <2>2. now >= cycle[e]
    <3>1. PICK f \in eventList : cycle[f] <= deadline
      BY <1>1, <2>1 DEF WaitsForTop
    <3> QED
      BY <1>1, <1>3, <2>1, <3>1 DEF STypeOK, TimedOut
  <2>3. /\ StillWanted(e) <=> e \notin stopped
        /\ eventIds' = {eventId[f] : f \in (eventList \ stopped) \ {e}}
    BY <1>3, <2>1, LiveIdIsArmed DEF StillWanted
  <2>4. LiveIds'
    <3>1. (eventList \ stopped) \ {e} = (eventList \ {e}) \ stopped
      OBVIOUS
    <3> QED
      BY <1>1, <1>3, <2>3, <3>1 DEF LiveIds
  <2>5. IdsInOrder' /\ ClosedInOrder' /\ WaitsForTop'
    <3>1. fate'[StopTask] = fate[StopTask]
      BY <1>1, <1>3, <2>1, EventsAreTasks DEF DTypeOK
    <3> QED
      BY <1>1, <1>3, <3>1 DEF IdsInOrder, Numbered, ClosedInOrder, WaitsForTop
  <2>6. CASE e \notin stopped
    <3>1. sPc' = "push" /\ held' = e /\ UNCHANGED fate
      BY <1>3, <2>3, <2>6
    <3>2. DTypeOK' /\ QueueOfLiveTasks'
      BY <1>1, <3>1 DEF DTypeOK, QueueOfLiveTasks, QueuedTasks
    <3>4. STypeOK'
      BY <1>1, <1>3, <2>1, <3>1 DEF STypeOK, Forget
    <3>3. EventPlaces'
      BY <1>1, <1>3, <2>1, <2>2, <2>6, <3>1 DEF EventPlaces, Carried, Delivered
    <3> QED
      BY <2>4, <2>5, <3>2, <3>3, <3>4 DEF SchedulerInv
  <2>7. CASE e \in stopped
    <3>1. sPc' = "check" /\ fate' = [fate EXCEPT ![e] = "dropped"] /\ UNCHANGED held
      BY <1>3, <2>3, <2>7
    <3>2. fate' = [t \in AllTasks |-> IF t \in {e} THEN "dropped" ELSE fate[t]]
      BY <1>1, <2>1, <3>1, EventsAreTasks DEF DTypeOK
    <3>3. DTypeOK' /\ QueueOfLiveTasks'
      BY <1>1, <2>1, <3>2, DroppedTasks, EventsAreTasks
    <3>4. STypeOK'
      BY <1>1, <1>3, <3>1 DEF STypeOK, Forget
    <3>5. EventPlaces'
      BY <1>1, <1>3, <2>1, <2>7, <3>1, <3>2, EventsAreTasks DEF EventPlaces, Carried, Delivered
    <3> QED
      BY <2>4, <2>5, <3>3, <3>4, <3>5 DEF SchedulerInv
  <2> QED
    BY <2>6, <2>7
<1> QED
  BY <1>2, <1>3 DEF SReturn

\* What the thread hands over it no longer has.
LEMMA PushStep == ASSUME SchedulerInv, SPush PROVE SchedulerInv'
<1>1. /\ sPc = "push" /\ sPc' = "check" /\ AddTask(SchedulerThread, held, TRUE)
      /\ UNCHANGED <<sState, eventList, eventIds, lastEventId, eventId, cycle, now,
                   deadline, held, sSignalling, sDown, stopped>>
      /\ held \in Events /\ held \in Tasks /\ held \in AllTasks /\ held # StopTask
      /\ DTypeOK /\ QueueOfLiveTasks /\ STypeOK /\ IdsInOrder /\ LiveIds /\ EventPlaces
      /\ WaitsForTop /\ ClosedInOrder
  BY EventsAreTasks DEF SPush, SchedulerInv, STypeOK
<1>2. DTypeOK' /\ QueueOfLiveTasks'
  <2>1. DNext
    BY <1>1 DEF DNext, SchedulerAssumption
  <2> QED
    BY <1>1, <2>1, TypeStep, QueueStep
<1>3. /\ fate'[held] \in {"queued", "dropped"} /\ \A t \in AllTasks \ {held} : fate'[t] = fate[t]
      /\ dState' = dState
  BY <1>1 DEF AddTask, DTypeOK
<1>4. STypeOK' /\ IdsInOrder' /\ LiveIds' /\ WaitsForTop' /\ ClosedInOrder'
  BY <1>1, <1>3, EventsAreTasks
     DEF STypeOK, IdsInOrder, Numbered, LiveIds, WaitsForTop, ClosedInOrder
<1>5. EventPlaces'
  BY <1>1, <1>3, EventsAreTasks DEF EventPlaces, Carried, Delivered
<1> QED
  BY <1>2, <1>4, <1>5 DEF SchedulerInv

\* shutdown() empties the heap when nothing can be added any more.
LEMMA ClearStep == ASSUME SchedulerInv, ShutdownClear PROVE SchedulerInv'
<1>1. /\ sDown = "flagged" /\ sDown' = "cleared" /\ eventList' = {} /\ eventIds' = {}
      /\ fate' = [t \in AllTasks |-> IF t \in eventList THEN "dropped" ELSE fate[t]]
      /\ UNCHANGED <<dState, taskList, dPc, current, signalling, sState, lastEventId,
                   eventId, cycle, now, sPc, deadline, held, sSignalling, stopped>>
      /\ DTypeOK /\ QueueOfLiveTasks /\ STypeOK /\ IdsInOrder /\ LiveIds /\ EventPlaces
      /\ WaitsForTop /\ ClosedInOrder
  BY DEF ShutdownClear, SchedulerInv
<1>2. /\ eventList \subseteq Events /\ eventList \subseteq AllTasks
      /\ \A t \in eventList : fate[t] = "new"
  BY <1>1, EventsAreTasks DEF STypeOK, EventPlaces
<1>3. DTypeOK' /\ QueueOfLiveTasks'
  BY <1>1, <1>2, DroppedTasks
<1>4. STypeOK' /\ IdsInOrder' /\ LiveIds'
  BY <1>1 DEF STypeOK, IdsInOrder, Numbered, LiveIds
<1>5. ClosedInOrder' /\ WaitsForTop'
  BY <1>1, <1>2, EventsAreTasks DEF ClosedInOrder, WaitsForTop
<1>6. EventPlaces'
  BY <1>1, <1>2, EventsAreTasks DEF EventPlaces, Carried, Delivered
<1> QED
  BY <1>3, <1>4, <1>5, <1>6 DEF SchedulerInv

LEMMA ThreadStep ==
    ASSUME SchedulerInv,
           SCheck \/ SLock \/ SSpurious \/ SWoken \/ (\E c \in Callers : NotifyScheduler(c))
    PROVE  SchedulerInv'
<1>1. /\ UNCHANGED <<dState, taskList, dPc, current, signalling, fate>>
      /\ UNCHANGED <<sState, eventList, eventIds, lastEventId, eventId, cycle, now, held, sDown, stopped>>
      /\ sSignalling' \subseteq sSignalling
      /\ DTypeOK /\ QueueOfLiveTasks /\ STypeOK /\ WaitsForTop /\ ClosedInOrder
  BY DEF SCheck, SLock, SSpurious, SWoken, NotifyScheduler, dvars, SchedulerInv
<1>2. DTypeOK' /\ QueueOfLiveTasks' /\ ClosedInOrder'
  BY <1>1 DEF DTypeOK, QueueOfLiveTasks, QueuedTasks, ClosedInOrder
<1>3. ASSUME deadline' = deadline, sPc' = Woken \/ (sPc' \in {"check", "lock", "done"} /\ sPc # "push")
      PROVE  SchedulerInv'
  <2>1. STypeOK' /\ (sPc' = "push" <=> sPc = "push")
    BY <1>1, <1>3, WokenMoves DEF STypeOK
  <2>2. WaitsForTop'
    BY <1>1, <1>3, WokenMoves DEF WaitsForTop
  <2> QED
    BY <1>1, <1>2, <2>1, <2>2, QuietStep DEF STypeOK
<1>4. CASE SCheck \/ SSpurious \/ SWoken \/ \E c \in Callers : NotifyScheduler(c)
  <2>1. CASE SCheck \/ SWoken
    BY <1>3, <2>1 DEF SCheck, SWoken
  <2>2. CASE SSpurious \/ \E c \in Callers : NotifyScheduler(c)
    BY <1>3, <2>2 DEF SSpurious, NotifyScheduler
  <2> QED
    BY <1>4, <2>1, <2>2
<1>5. CASE SLock
  <2>1. /\ sPc = "lock" /\ sPc' \in {"wait", "waitUntil"}
        /\ sPc' = "waitUntil" => \E e \in eventList : deadline' = cycle[e]
        /\ deadline' \in Nat
    BY <1>1, <1>5 DEF SLock, Tops, STypeOK
  <2>2. STypeOK'
    BY <1>1, <2>1 DEF STypeOK, SleepPcs
  <2>3. WaitsForTop'
    <3>1. \A e \in eventList : cycle[e] \in Nat
      BY <1>1 DEF STypeOK
    <3> QED
      BY <1>1, <2>1, <3>1 DEF WaitsForTop
  <2> QED
    BY <1>1, <1>2, <2>1, <2>2, <2>3, QuietStep DEF STypeOK
<1> QED
  BY <1>4, <1>5

LEMMA ClosingStep ==
    ASSUME SchedulerInv, CloseScheduler \/ ShutdownFlag \/ ShutdownNotify \/ Tick
    PROVE  SchedulerInv'
<1>1. /\ UNCHANGED <<dState, taskList, dPc, current, signalling, fate>>
      /\ UNCHANGED <<eventList, eventIds, lastEventId, eventId, cycle, deadline, held, sSignalling, stopped>>
      /\ DTypeOK /\ QueueOfLiveTasks /\ STypeOK /\ WaitsForTop /\ ClosedInOrder
  BY DEF CloseScheduler, ShutdownFlag, ShutdownNotify, Tick, dvars, SchedulerInv
<1>2. DTypeOK' /\ QueueOfLiveTasks'
  BY <1>1 DEF DTypeOK, QueueOfLiveTasks, QueuedTasks
<1>3. /\ sPc' \in {sPc, Woken} /\ now' \in Nat /\ now <= now'
      /\ sState' \in ThreadStates /\ (sState' = sState \/ sState' # "RUNNING")
      /\ sDown' \in {"up", "flagged", "cleared", "down"}
  BY <1>1 DEF CloseScheduler, ShutdownFlag, ShutdownNotify, Tick, STypeOK, ThreadStates
<1>4. STypeOK' /\ (sPc' = "push" <=> sPc = "push") /\ WaitsForTop'
  <2>1. STypeOK'
    BY <1>1, <1>3, WokenMoves DEF STypeOK
  <2> QED
    BY <1>1, <1>3, <2>1, WokenMoves DEF WaitsForTop
<1>5. ClosedInOrder'
  BY <1>1 DEF CloseScheduler, ShutdownFlag, ShutdownNotify, Tick, ClosedInOrder
<1> QED
  BY <1>1, <1>2, <1>3, <1>4, <1>5, QuietStep

LEMMA SchedulerStep == FewerEventsThanIds /\ SchedulerInv /\ [SNext]_allvars => SchedulerInv'
<1> SUFFICES ASSUME FewerEventsThanIds, SchedulerInv, [SNext]_allvars PROVE SchedulerInv'
  OBVIOUS
<1>1. CASE UNCHANGED allvars
  <2>1. /\ UNCHANGED <<dState, taskList, dPc, current, signalling, fate>>
        /\ UNCHANGED <<sState, eventList, eventIds, lastEventId, eventId, cycle, now, sPc,
                       deadline, held, sSignalling, sDown, stopped>>
    BY <1>1 DEF allvars, dvars, svars
  <2>2. DTypeOK' /\ QueueOfLiveTasks' /\ STypeOK' /\ WaitsForTop' /\ ClosedInOrder'
    BY <2>1 DEF SchedulerInv, DTypeOK, QueueOfLiveTasks, QueuedTasks, STypeOK, WaitsForTop, ClosedInOrder
  <2>3. now <= now'
    BY <2>1 DEF SchedulerInv, STypeOK
  <2> QED
    BY <2>1, <2>2, <2>3, QuietStep
<1>2. CASE SThread \/ SSpurious
  BY <1>2, ThreadStep, ReturnStep, PushStep DEF SThread, SDeadline
<1> QED
  BY <1>1, <1>2, AddEventStep, StopEventStep, ThreadStep, ClosingStep, ClearStep, DispatchingStep
     DEF SNext

\* What the heap, the set of ids and the thread have in common (Scheduler::
\* addEvent, stopEvent, threadMain, shutdown), until the ids start again.
THEOREM SchedulerInvariant == ASSUME FewerEventsThanIds PROVE SSpec => []SchedulerInv
<1>1. SInit => SchedulerInv
  BY SchedulerInit
<1>2. SchedulerInv /\ [SNext]_allvars => SchedulerInv'
  BY SchedulerStep
<1> QED
  BY <1>1, <1>2, PTL DEF SSpec

\* The heap and the set of live ids agree, and an event that stopEvent() has
\* stopped is never handed over, however the call races with the timeout; nor
\* is one handed over before its time.
THEOREM IdsAgree == ASSUME FewerEventsThanIds PROVE SSpec => []EventIdsExact
<1>1. SchedulerInv => EventIdsExact
  <2> SUFFICES ASSUME SchedulerInv PROVE EventIdsExact
    OBVIOUS
  <2>1. \A e, f \in eventList : eventId[e] = eventId[f] => e = f
    BY DEF SchedulerInv, STypeOK, EventPlaces, IdsInOrder, Numbered
  <2>2. StoppedNeverRuns
    BY DEF SchedulerInv, EventPlaces, StoppedNeverRuns
  <2> QED
    BY <2>1, <2>2 DEF SchedulerInv, LiveIds, EventIdsExact
<1> QED
  BY <1>1, SchedulerInvariant, PTL
-----------------------------------------------------------------------------
(* The refinement                                                          *)

Ripe == {e \in Events : eventId[e] # 0 /\ now >= cycle[e]}

StatusOf(e) ==
    IF e \in stopped THEN "cancelled"
    ELSE IF e \in eventList THEN "armed"
    ELSE IF (sPc = "push" /\ held = e) \/ fate[e] = "queued" THEN "delivered"
    ELSE IF fate[e] \in {"running", "done"} THEN "run"
    ELSE IF fate[e] = "dropped" THEN "dropped" ELSE "idle"

LEMMA StatusMoves ==
    ASSUME NEW e \in Events, NEW s, StatusOf(e)' = s,
           \A f \in Events \ {e} : StatusOf(f)' = StatusOf(f)
    PROVE  Status' = [Status EXCEPT ![e] = s] /\ Status[e] = StatusOf(e)
BY DEF Status, StatusOf

LEMMA StatusStays ==
    ASSUME \A f \in Events : StatusOf(f)' = StatusOf(f)
    PROVE  Status' = Status
BY DEF Status, StatusOf

LEMMA StatusKept ==
    ASSUME NEW f \in Events, fate'[f] = fate[f], f \in stopped' <=> f \in stopped,
           f \in eventList' <=> f \in eventList, Carried(f)' <=> Carried(f)
    PROVE  StatusOf(f)' = StatusOf(f)
BY DEF StatusOf, Carried

LEMMA ServiceStutters ==
    ASSUME UNCHANGED <<eventList, eventId, cycle, now, stopped, sState>>,
           \A f \in Events : StatusOf(f)' = StatusOf(f)
    PROVE  [Service!ENext]_(Service!evars)
<1>1. Status' = Status
  BY StatusStays
<1> QED
  BY <1>1 DEF Service!evars

LEMMA ArmStep ==
    ASSUME SchedulerInv, NEW c \in Callers, NEW e \in Events, NEW delay \in Delays,
           AddEvent(c, e, delay)
    PROVE  [Service!ENext]_(Service!evars)
<1>1. /\ fate[e] = "new" /\ eventId[e] = 0 /\ e \notin eventList /\ e \notin stopped /\ ~Carried(e)
      /\ UNCHANGED <<sState, now, sPc, held, stopped>>
      /\ fate \in [AllTasks -> {"new", "queued", "running"} \cup Deleted] /\ e \in AllTasks
      /\ cycle \in [Events -> Nat] /\ eventId \in [Events -> 0 .. (IdSpace - 1)]
      /\ lastEventId \in 0 .. (IdSpace - 1)
  BY EventsAreTasks DEF AddEvent, SchedulerInv, EventPlaces, DTypeOK, STypeOK
<1>2. StatusOf(e) = "idle"
  BY <1>1 DEF StatusOf, Carried
<1>3. ASSUME NEW f \in Events \ {e} PROVE StatusOf(f)' = StatusOf(f)
  <2>1. f \in AllTasks
    BY EventsAreTasks
  <2>2. fate'[f] = fate[f] /\ (f \in eventList' <=> f \in eventList)
    BY <1>1, <2>1 DEF AddEvent
  <2> QED
    BY <1>1, <2>2, StatusKept DEF Carried
<1>4. CASE sState = "RUNNING"
  <2>1. /\ eventId' = [eventId EXCEPT ![e] = NextEventId] /\ NextEventId # 0
        /\ cycle' = [cycle EXCEPT ![e] = now + delay]
        /\ eventList' = eventList \cup {e}
        /\ UNCHANGED fate
    BY <1>1, <1>4 DEF AddEvent, NextEventId, SchedulerAssumption
  <2>2. Ripe' \in {Ripe, Ripe \cup {e}}
    BY <1>1, <2>1 DEF Ripe
  <2>3. StatusOf(e)' = "armed"
    BY <1>1, <2>1 DEF StatusOf
  <2>4. Status' = [Status EXCEPT ![e] = "armed"] /\ Status[e] = "idle"
    BY <1>2, <1>3, <2>3, StatusMoves
  <2>5. Service!Arm(e)
    BY <1>1, <1>4, <2>2, <2>4 DEF Service!Arm, Ripe
  <2> QED
    BY <2>5 DEF Service!ENext
<1>5. CASE sState # "RUNNING"
  <2>1. /\ fate' = [fate EXCEPT ![e] = "dropped"]
        /\ UNCHANGED <<eventId, cycle, eventList>>
    BY <1>5 DEF AddEvent
  <2>2. StatusOf(e)' = "dropped"
    BY <1>1, <2>1 DEF StatusOf, Carried
  <2>3. Status' = [Status EXCEPT ![e] = "dropped"] /\ Status[e] = "idle"
    BY <1>2, <1>3, <2>2, StatusMoves
  <2>4. Status' = [f \in Events |-> IF f \in {e} THEN "dropped" ELSE Status[f]]
    BY <2>3 DEF Status
  <2>5. Service!Drop({e})
    BY <1>1, <1>5, <2>1, <2>3, <2>4 DEF Service!Drop
  <2> QED
    BY <2>5 DEF Service!ENext
<1> QED
  BY <1>4, <1>5

LEMMA CancelStep ==
    ASSUME SchedulerInv, NEW c \in Callers, NEW e \in Events, StopEvent(c, e)
    PROVE  [Service!ENext]_(Service!evars)
<1>1. /\ e \in eventList \ stopped /\ stopped' = stopped \cup {e}
      /\ UNCHANGED <<fate, sState, eventList, eventId, cycle, now, sPc, held>>
  BY LiveIdIsArmed DEF StopEvent, dvars
<1>2. StatusOf(e) = "armed" /\ StatusOf(e)' = "cancelled"
  BY <1>1 DEF StatusOf
<1>3. ASSUME NEW f \in Events \ {e} PROVE StatusOf(f)' = StatusOf(f)
  BY <1>1, StatusKept DEF Carried
<1>4. Status' = [Status EXCEPT ![e] = "cancelled"] /\ Status[e] = "armed"
  BY <1>2, <1>3, StatusMoves
<1>5. Service!Cancel(e)
  BY <1>1, <1>4 DEF Service!Cancel
<1> QED
  BY <1>5 DEF Service!ENext

LEMMA DeliverStep ==
    ASSUME SchedulerInv, SchedulerInv', SReturn
    PROVE  [Service!ENext]_(Service!evars)
<1>1. /\ sPc = "returning" /\ UNCHANGED <<sState, eventId, cycle, now, stopped>>
      /\ STypeOK /\ DTypeOK /\ EventPlaces
  BY DEF SReturn, SchedulerInv
<1>2. CASE sPc' \in {"check", "undefined"} /\ UNCHANGED <<eventList, eventIds, held, fate>>
  <2>1. ASSUME NEW f \in Events PROVE StatusOf(f)' = StatusOf(f)
    BY <1>1, <1>2, StatusKept DEF Carried
  <2> QED
    BY <1>1, <1>2, <2>1, ServiceStutters
<1>3. ASSUME NEW e \in Tops, TimedOut, eventList' = eventList \ {e},
             IF StillWanted(e)
               THEN sPc' = "push" /\ held' = e /\ UNCHANGED fate
               ELSE sPc' = "check" /\ fate' = [fate EXCEPT ![e] = "dropped"] /\ UNCHANGED held
      PROVE  [Service!ENext]_(Service!evars)
  <2>1. /\ e \in eventList /\ e \in Events /\ eventId[e] # 0
        /\ StillWanted(e) <=> e \notin stopped
    BY <1>1, <1>3, LiveIdIsArmed DEF Tops, STypeOK, EventPlaces, StillWanted
  <2>2. CASE e \notin stopped
    <3>1. sPc' = "push" /\ held' = e /\ UNCHANGED fate
      BY <1>3, <2>1, <2>2
    <3>2. now >= cycle[e]
      BY <1>1, <2>1, <3>1 DEF SchedulerInv, EventPlaces, Delivered
    <3>3. StatusOf(e) = "armed" /\ StatusOf(e)' = "delivered"
      BY <1>1, <1>3, <2>1, <2>2, <3>1 DEF StatusOf
    <3>4. ASSUME NEW f \in Events \ {e} PROVE StatusOf(f)' = StatusOf(f)
      BY <1>1, <1>3, <3>1, StatusKept DEF Carried
    <3>5. Status' = [Status EXCEPT ![e] = "delivered"] /\ Status[e] = "armed"
      BY <2>1, <3>3, <3>4, StatusMoves
    <3>6. Service!Deliver(e)
      BY <1>1, <2>1, <3>2, <3>5 DEF Service!Deliver
    <3> QED
      BY <2>1, <3>6 DEF Service!ENext
  <2>3. CASE e \in stopped
    <3>1. sPc' = "check" /\ fate' = [fate EXCEPT ![e] = "dropped"] /\ UNCHANGED held
      BY <1>3, <2>1, <2>3
    <3>2. ASSUME NEW f \in Events PROVE StatusOf(f)' = StatusOf(f)
      <4>1. CASE f = e
        BY <1>1, <2>3, <4>1 DEF StatusOf
      <4>2. CASE f # e
        <5>1. fate'[f] = fate[f]
          BY <1>1, <3>1, <4>2, EventsAreTasks DEF DTypeOK
        <5> QED
          BY <1>1, <1>3, <3>1, <4>2, <5>1, StatusKept DEF Carried
      <4> QED
        BY <4>1, <4>2
    <3>3. Status' = Status
      BY <3>2, StatusStays
    <3> QED
      BY <1>1, <3>3 DEF Service!evars
  <2> QED
    BY <2>2, <2>3
<1> QED
  BY <1>2, <1>3 DEF SReturn

LEMMA HandOver ==
    ASSUME SchedulerInv, SPush
    PROVE  [Service!ENext]_(Service!evars)
<1>1. /\ sPc = "push" /\ sPc' = "check" /\ AddTask(SchedulerThread, held, TRUE)
      /\ UNCHANGED <<sState, eventList, eventId, cycle, now, held, stopped>>
      /\ held \in Events /\ held \in AllTasks /\ held \notin eventList \cup stopped
      /\ DTypeOK /\ ClosedInOrder
  BY EventsAreTasks DEF SPush, SchedulerInv, STypeOK, EventPlaces, Carried
<1>2. ASSUME NEW f \in Events \ {held} PROVE StatusOf(f)' = StatusOf(f)
  <2>1. fate'[f] = fate[f]
    BY <1>1, EventsAreTasks DEF AddTask, DTypeOK
  <2> QED
    BY <1>1, <2>1, StatusKept DEF Carried
<1>3. StatusOf(held) = "delivered"
  BY <1>1 DEF StatusOf
<1>4. CASE Accepting
  <2>1. fate'[held] = "queued"
    BY <1>1, <1>4 DEF AddTask, DTypeOK
  <2>2. StatusOf(held)' = "delivered"
    BY <1>1, <2>1 DEF StatusOf
  <2>3. \A f \in Events : StatusOf(f)' = StatusOf(f)
    <3> TAKE f \in Events
    <3>1. CASE f = held
      BY <1>1, <1>3, <2>1, <3>1 DEF StatusOf
    <3>2. CASE f # held
      BY <1>2, <3>2
    <3> QED
      BY <3>1, <3>2
  <2> QED
    BY <1>1, <2>3, ServiceStutters
<1>5. CASE ~Accepting
  <2>1. fate'[held] = "dropped" /\ sState # "RUNNING"
    BY <1>1, <1>5 DEF AddTask, DTypeOK, Accepting, ClosedInOrder
  <2>2. StatusOf(held)' = "dropped"
    BY <1>1, <2>1 DEF StatusOf
  <2>3. Status' = [Status EXCEPT ![held] = "dropped"] /\ Status[held] = "delivered"
    <3> DEFINE e == held
    <3>1. e \in Events /\ e' = e
      BY <1>1
    <3> QED
      BY <1>1, <1>2, <1>3, <2>1 DEF Status, StatusOf
  <2>4. Status' = [f \in Events |-> IF f \in {held} THEN "dropped" ELSE Status[f]]
    BY <2>3 DEF Status
  <2>5. Service!Drop({held})
    BY <1>1, <2>1, <2>3, <2>4 DEF Service!Drop
  <2> QED
    BY <1>1, <2>5 DEF Service!ENext
<1> QED
  BY <1>4, <1>5

LEMMA ForgetStep ==
    ASSUME SchedulerInv, ShutdownClear
    PROVE  [Service!ENext]_(Service!evars)
<1> DEFINE S == eventList \ stopped
<1>1. /\ sState # "RUNNING" /\ eventList' = {} /\ eventList \subseteq Events
      /\ fate' = [t \in AllTasks |-> IF t \in eventList THEN "dropped" ELSE fate[t]]
      /\ UNCHANGED <<sState, eventId, cycle, now, sPc, held, stopped>>
      /\ \A e \in eventList : ~Carried(e)
  BY DEF ShutdownClear, SchedulerInv, ClosedInOrder, EventPlaces, STypeOK
<1>2. ASSUME NEW f \in Events
      PROVE  /\ f \in S => StatusOf(f) = "armed" /\ StatusOf(f)' = "dropped"
             /\ f \notin S => StatusOf(f)' = StatusOf(f)
  BY <1>1, EventsAreTasks DEF StatusOf, Carried
<1>3. Status' = [f \in Events |-> IF f \in S THEN "dropped" ELSE Status[f]]
  BY <1>2 DEF Status, StatusOf
<1>4. \A e \in S : Status[e] = "armed"
  BY <1>1, <1>2 DEF Status, StatusOf
<1>5. S \in SUBSET Events
  BY <1>1
<1> HIDE DEF S
<1>6. Service!Drop(S)
  BY <1>1, <1>3, <1>4 DEF Service!Drop
<1> QED
  BY <1>5, <1>6 DEF Service!ENext

LEMMA TimeStep ==
    ASSUME SchedulerInv, Tick
    PROVE  [Service!ENext]_(Service!evars)
<1>1. /\ now' = now + 1
      /\ UNCHANGED <<fate, sState, eventList, eventId, cycle, sPc, held, stopped>>
      /\ now \in Nat /\ \A e \in Events : cycle[e] \in Nat
  BY DEF Tick, dvars, SchedulerInv, STypeOK
<1>2. Status' = Status
  BY <1>1, StatusKept, StatusStays DEF Carried
<1>3. Ripe' \in SUBSET Events /\ Ripe \subseteq Ripe'
  BY <1>1 DEF Ripe
<1>4. ASSUME NEW e \in Ripe' \ Ripe PROVE Status[e] # "idle"
  <2>1. e \in Events /\ eventId[e] # 0
    BY <1>1, <1>4 DEF Ripe
  <2>2. /\ fate[e] = "new" => e \in eventList \/ Carried(e)
        /\ fate[e] \in {"new", "queued", "running", "done", "dropped"}
    BY <2>1, EventsAreTasks DEF SchedulerInv, EventPlaces, DTypeOK, Deleted
  <2>3. StatusOf(e) # "idle"
    BY <2>2 DEF StatusOf, Carried
  <2> QED
    BY <2>1, <2>3 DEF Status, StatusOf
<1>5. Service!TimePasses
  BY <1>1, <1>2, <1>3, <1>4 DEF Service!TimePasses, Ripe
<1> QED
  BY <1>5 DEF Service!ENext

LEMMA RunStep ==
    ASSUME SchedulerInv, Dispatching
    PROVE  [Service!ENext]_(Service!evars)
<1>1. UNCHANGED <<sState, eventList, eventId, cycle, now, sPc, held, stopped>>
  BY DEF Dispatching, svars
<1>2. PICK t \in AllTasks :
         /\ \A e \in Events \ {t} : fate'[e] = fate[e]
         /\ t \in Events => \/ fate'[t] = fate[t]
                            \/ fate[t] = "queued" /\ fate'[t] = "running"
                            \/ fate[t] = "running" /\ fate'[t] = "done"
  BY DispatchingMoves
<1>3. ASSUME NEW f \in Events \ {t} PROVE StatusOf(f)' = StatusOf(f)
  BY <1>1, <1>2, StatusKept DEF Carried
<1>4. CASE t \in Events /\ fate[t] = "queued" /\ fate'[t] = "running"
  <2>1. t \notin stopped /\ t \notin eventList /\ ~Carried(t)
    BY <1>4 DEF SchedulerInv, EventPlaces, Delivered
  <2>2. StatusOf(t) = "delivered" /\ StatusOf(t)' = "run"
    BY <1>1, <1>4, <2>1 DEF StatusOf, Carried
  <2>3. Status' = [Status EXCEPT ![t] = "run"] /\ Status[t] = "delivered"
    BY <1>3, <1>4, <2>2, StatusMoves
  <2>4. Service!Run(t)
    BY <1>1, <2>3 DEF Service!Run
  <2> QED
    BY <1>4, <2>4 DEF Service!ENext
<1>5. CASE t \notin Events \/ fate'[t] = fate[t] \/ (fate[t] = "running" /\ fate'[t] = "done")
  <2>1. ASSUME NEW f \in Events PROVE StatusOf(f)' = StatusOf(f)
    <3>1. CASE f = t
      BY <1>1, <1>5, <3>1 DEF StatusOf, Carried
    <3>2. CASE f # t
      BY <1>3, <3>2
    <3> QED
      BY <3>1, <3>2
  <2> QED
    BY <1>1, <2>1, ServiceStutters
<1> QED
  BY <1>2, <1>4, <1>5

LEMMA QuietService ==
    ASSUME SchedulerInv,
           \/ SCheck \/ SLock \/ SSpurious \/ SWoken \/ ShutdownNotify
           \/ \E c \in Callers : NotifyScheduler(c)
    PROVE  [Service!ENext]_(Service!evars)
<1>1. UNCHANGED <<fate, sState, eventList, eventId, cycle, now, held, stopped>>
  BY DEF SCheck, SLock, SSpurious, SWoken, ShutdownNotify, NotifyScheduler, dvars
<1>2. sPc' = "push" <=> sPc = "push"
  BY WokenMoves
     DEF SchedulerInv, SCheck, SLock, SSpurious, SWoken, ShutdownNotify, NotifyScheduler
<1>3. ASSUME NEW f \in Events PROVE StatusOf(f)' = StatusOf(f)
  BY <1>1, <1>2, StatusKept DEF Carried
<1> QED
  BY <1>1, <1>3, ServiceStutters

LEMMA CloseService ==
    ASSUME SchedulerInv, CloseScheduler \/ ShutdownFlag
    PROVE  [Service!ENext]_(Service!evars)
<1>1. /\ UNCHANGED <<fate, eventList, eventId, cycle, now, sPc, held, stopped>>
      /\ sState' # "RUNNING"
  BY DEF CloseScheduler, ShutdownFlag, dvars
<1>2. Status' = Status
  BY <1>1, StatusKept, StatusStays DEF Carried
<1>3. Service!CloseService
  BY <1>1, <1>2 DEF Service!CloseService
<1> QED
  BY <1>3 DEF Service!ENext

\* The two threads, their locks and their late signals implement the event
\* service that the game sees (Scheduler, Dispatcher): every step is a step of
\* it or changes nothing a caller could tell.
THEOREM SchedulerImplementsService == ASSUME FewerEventsThanIds PROVE SSpec => ImplementsEventService
<1>1. SInit => Service!EInit
  <2> SUFFICES ASSUME SInit PROVE Service!EInit
    OBVIOUS
  <2>1. Status = [e \in Events |-> "idle"]
    BY EventsAreTasks DEF SInit, DInit, Status
  <2> QED
    BY <2>1 DEF SInit, Service!EInit
<1>2. SchedulerInv /\ SchedulerInv' /\ [SNext]_allvars => [Service!ENext]_(Service!evars)
  <2> SUFFICES ASSUME SchedulerInv, SchedulerInv', [SNext]_allvars
               PROVE  [Service!ENext]_(Service!evars)
    OBVIOUS
  <2>1. CASE UNCHANGED allvars
    <3>1. UNCHANGED <<fate, sState, eventList, eventId, cycle, now, sPc, held, stopped>>
      BY <2>1 DEF allvars, dvars, svars
    <3>2. ASSUME NEW f \in Events PROVE StatusOf(f)' = StatusOf(f)
      BY <3>1 DEF StatusOf
    <3> QED
      BY <3>1, <3>2, ServiceStutters
  <2>2. CASE SThread \/ SSpurious
    BY <2>2, QuietService, DeliverStep, HandOver DEF SThread, SDeadline
  <2> QED
    BY <2>1, <2>2, ArmStep, CancelStep, QuietService, CloseService, ForgetStep, TimeStep, RunStep
       DEF SNext
<1> QED
  BY <1>1, <1>2, SchedulerInvariant, PTL DEF SSpec, ImplementsEventService, Service!ESpec
=============================================================================
