----------------------------- MODULE Dispatcher -----------------------------
(***************************************************************************)
(* The dispatcher thread and its task queue (tasks.h, tasks.cpp,           *)
(* thread_holder_base.h).  All the game logic of the server runs as tasks  *)
(* on this one thread; every other thread only queues tasks for it.        *)
(*                                                                         *)
(* The bodies between taskLock.lock() and unlock() are atomic here: they   *)
(* touch data only that mutex protects.  What is NOT atomic is kept apart: *)
(* the test of the thread state before the lock is taken, the wait on the  *)
(* condition variable, the notify_one() that addTask issues after it has   *)
(* released the mutex, and the run of a task, during which the queue is    *)
(* free.                                                                   *)
(***************************************************************************)
EXTENDS Naturals, Sequences

CONSTANTS Producers,   \* the other threads that call addTask
          Tasks,       \* the Task objects that are ever allocated
          Expiring,    \* those created with a deadline (Task(uint32_t ms, ...))
          StopTask     \* the task that Dispatcher::shutdown() allocates

ASSUME DispatcherAssumption ==
    /\ Expiring \subseteq Tasks
    /\ StopTask \notin Tasks

VARIABLES dState,      \* ThreadHolder::threadState of the dispatcher
          taskList,    \* Dispatcher::taskList, front first
          dPc,         \* where the dispatcher thread is in threadMain
          current,     \* the task it holds while dPc = "run"
          signalling,  \* the producers that have still to call notify_one()
          fate         \* what became of each Task object ("dropped": deleted by
                       \* its owner without ever having been in the queue)

dvars == <<dState, taskList, dPc, current, signalling, fate>>

AllTasks == Tasks \cup {StopTask}
ThreadStates == {"RUNNING", "CLOSING", "TERMINATED"}
Deleted == {"done", "expired", "dropped"}

DTypeOK ==
    /\ dState \in ThreadStates
    /\ taskList \in Seq(AllTasks)
    /\ dPc \in {"check", "lock", "wait", "woken", "run", "done"}
    /\ current \in AllTasks
    /\ signalling \in SUBSET Producers
    /\ fate \in [AllTasks -> {"new", "queued", "running"} \cup Deleted]
    /\ dPc = "run" => fate[current] = "running"

DInit ==
    /\ dState = "RUNNING"
    /\ taskList = <<>>
    /\ dPc = "check"
    /\ current = StopTask
    /\ signalling = {}
    /\ fate = [t \in AllTasks |-> "new"]

-----------------------------------------------------------------------------
(* Dispatcher::addTask                                                     *)

\* The queue after a push to the front (the scheduler's) or to the back.
Push(t, front) == IF front THEN <<t>> \o taskList ELSE Append(taskList, t)

\* do_signal = taskList.empty(), evaluated before the push.
MustSignal_never == FALSE
MustSignal_afterPush == Len(taskList) > 0
MustSignal == taskList = <<>>

\* A push is accepted only while the dispatcher is RUNNING.
Accepting == dState = "RUNNING"

\* Once main() has given up on a failed start (Dispatcher::shutdown on a
\* RUNNING dispatcher) no other thread is left to add a task.
BootFailed == dState = "RUNNING" /\ fate[StopTask] # "new"

\* A producer thread p allocates and adds task t; it deletes t itself if the
\* dispatcher takes no more tasks.
AddTask(p, t, front) ==
    /\ p \notin signalling
    /\ ~BootFailed
    /\ fate[t] = "new"
    /\ IF Accepting
       THEN /\ taskList' = Push(t, front)
            /\ signalling' = IF MustSignal THEN signalling \cup {p} ELSE signalling
            /\ fate' = [fate EXCEPT ![t] = "queued"]
       ELSE /\ fate' = [fate EXCEPT ![t] = "dropped"]
            /\ UNCHANGED <<taskList, signalling>>
    /\ UNCHANGED <<dState, dPc, current>>

\* taskSignal.notify_one(), after the unlock: a thread in wait() is released,
\* and without one the signal is lost.
Notify(p) ==
    /\ p \in signalling
    /\ signalling' = signalling \ {p}
    /\ dPc' = IF dPc = "wait" THEN "woken" ELSE dPc
    /\ UNCHANGED <<dState, taskList, current, fate>>

-----------------------------------------------------------------------------
(* Dispatcher::threadMain                                                  *)

\* while (getState() != THREAD_STATE_TERMINATED), read without the lock.
CheckState ==
    /\ dPc = "check"
    /\ dPc' = IF dState = "TERMINATED" THEN "done" ELSE "lock"
    /\ UNCHANGED <<dState, taskList, current, signalling, fate>>

Take_keepsFront ==
    /\ dPc' = "run"
    /\ current' = Head(taskList)
    /\ fate' = [fate EXCEPT ![Head(taskList)] = "running"]
    /\ UNCHANGED taskList
\* pop_front, then run the task or, if hasExpired(), delete it unrun.
Take ==
    LET t == Head(taskList) IN
    /\ taskList' = Tail(taskList)
    /\ \/ /\ dPc' = "run"
          /\ current' = t
          /\ fate' = [fate EXCEPT ![t] = "running"]
       \/ /\ t \in Expiring
          /\ dPc' = "check"
          /\ fate' = [fate EXCEPT ![t] = "expired"]
          /\ UNCHANGED current

\* taskLockUnique.lock(): wait only if the queue is empty.
LockQueue ==
    /\ dPc = "lock"
    /\ \/ taskList = <<>> /\ dPc' = "wait" /\ UNCHANGED <<taskList, current, fate>>
       \/ taskList # <<>> /\ Take
    /\ UNCHANGED <<dState, signalling>>

\* A condition variable may wake its waiter without a signal.
SpuriousWake ==
    /\ dPc = "wait"
    /\ dPc' = "woken"
    /\ UNCHANGED <<dState, taskList, current, signalling, fate>>

\* wait() has returned with the mutex held: look at the queue again.
AfterWait ==
    /\ dPc = "woken"
    /\ \/ taskList = <<>> /\ dPc' = "check" /\ UNCHANGED <<taskList, current, fate>>
       \/ taskList # <<>> /\ Take
    /\ UNCHANGED <<dState, signalling>>

\* (*task)() returns and the task is deleted.
Finish ==
    /\ dPc = "run" /\ current # StopTask
    /\ dPc' = "check"
    /\ fate' = [fate EXCEPT ![current] = "done"]
    /\ UNCHANGED <<dState, taskList, current, signalling>>

\* The body of the task that shutdown() queued.
RunStop ==
    /\ dPc = "run" /\ current = StopTask
    /\ dState' = "TERMINATED"
    /\ dPc' = "check"
    /\ fate' = [fate EXCEPT ![StopTask] = "done"]
    /\ UNCHANGED <<taskList, current, signalling>>

DispatcherThread == CheckState \/ LockQueue \/ AfterWait \/ Finish \/ RunStop

-----------------------------------------------------------------------------
(* What a running task may do to the dispatcher                            *)

Running == dPc = "run" /\ current # StopTask

\* A task adds another one.  The notify_one() that follows finds nobody in
\* wait(), as the only waiter is the thread that issues it.
AddTaskFromTask(t) ==
    /\ Running
    /\ ~BootFailed
    /\ fate[t] = "new"
    /\ IF Accepting
       THEN taskList' = Push(t, FALSE) /\ fate' = [fate EXCEPT ![t] = "queued"]
       ELSE fate' = [fate EXCEPT ![t] = "dropped"] /\ UNCHANGED taskList
    /\ UNCHANGED <<dState, dPc, current, signalling>>

\* g_dispatcher.stop(), called once by Game::setGameState(GAME_STATE_SHUTDOWN).
Close ==
    /\ Running
    /\ ~BootFailed
    /\ dState = "RUNNING"
    /\ dState' = "CLOSING"
    /\ UNCHANGED <<taskList, dPc, current, signalling, fate>>

\* Dispatcher::shutdown(): push_back whatever the state, and notify_one()
\* inside the lock.  Game::shutdown calls it from a task of the CLOSING
\* dispatcher, main() from outside after a failed start.
Shutdown ==
    /\ fate[StopTask] = "new"
    /\ dState = "RUNNING" \/ (Running /\ dState = "CLOSING")
    /\ taskList' = Append(taskList, StopTask)
    /\ fate' = [fate EXCEPT ![StopTask] = "queued"]
    /\ dPc' = IF dPc = "wait" THEN "woken" ELSE dPc
    /\ UNCHANGED <<dState, current, signalling>>

-----------------------------------------------------------------------------
DNext ==
    \/ \E p \in Producers, t \in Tasks, front \in BOOLEAN : AddTask(p, t, front)
    \/ \E p \in Producers : Notify(p)
    \/ DispatcherThread
    \/ SpuriousWake
    \/ \E t \in Tasks : AddTaskFromTask(t)
    \/ Close
    \/ Shutdown

DSpec == DInit /\ [][DNext]_dvars

\* The dispatcher thread is scheduled, its tasks return, and a producer that
\* left the critical section goes on to its notify_one().
DFairness ==
    /\ WF_dvars(DispatcherThread)
    /\ \A p \in Producers : WF_dvars(Notify(p))

DFairSpec == DSpec /\ DFairness

-----------------------------------------------------------------------------
(* Properties                                                              *)

QueuedTasks == {taskList[i] : i \in 1..Len(taskList)}

\* No lost wakeup: the dispatcher never sleeps over a non-empty queue unless
\* some producer is on its way to notify_one().  addTask signals only when it
\* found the queue empty, and only after it has released the mutex.
NoLostWakeup == dPc = "wait" /\ taskList # <<>> => signalling # {}

\* Every pointer in the queue is a live task, queued exactly once: the
\* dispatcher never runs a task it has already deleted.
QueueOfLiveTasks ==
    /\ \A t \in AllTasks : fate[t] = "queued" <=> t \in QueuedTasks
    /\ \A i, j \in 1..Len(taskList) : taskList[i] = taskList[j] => i = j
    /\ \A t \in AllTasks : fate[t] = "running" => dPc = "run" /\ current = t

\* What the game relies on: an accepted task is eventually run, or dropped
\* because its deadline passed.  So stop() before shutdown() means that the
\* thread drains its queue: nothing is left behind when it leaves threadMain.
AcceptedTaskLeaves ==
    \A t \in AllTasks : fate[t] = "queued" ~> fate[t] \in {"done", "expired"}
=============================================================================
