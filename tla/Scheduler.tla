----------------------------- MODULE Scheduler ------------------------------
(***************************************************************************)
(* The scheduler thread (scheduler.h, scheduler.cpp) composed with the     *)
(* dispatcher it feeds.  addEvent and stopEvent are called from any        *)
(* thread; a due event is handed to the front of the dispatcher's queue.   *)
(* As in Dispatcher, what eventLock protects is one action, and the state  *)
(* test before the lock, the two waits and the late notify_one() are not.  *)
(* Time is a counter, advanced by Tick up to MaxTime.                      *)
(***************************************************************************)
EXTENDS Dispatcher, FiniteSets

CONSTANTS Events,           \* the SchedulerTask objects among Tasks
          SchedulerThread,  \* the producer that is the scheduler thread
          DispatcherSelf,   \* the dispatcher thread as a caller of addEvent
          Delays,           \* the delays events are created with
          MaxTime,          \* bound on the clock
          IdSpace           \* 2^32 in the code: event ids are 1..IdSpace-1

ASSUME SchedulerAssumption ==
    /\ Events \subseteq Tasks \ Expiring /\ Events # {}
    /\ SchedulerThread \in Producers
    /\ DispatcherSelf \notin Producers
    /\ Delays \subseteq Nat
    /\ MaxTime \in Nat
    /\ IdSpace \in Nat /\ IdSpace > 1

VARIABLES sState,       \* ThreadHolder::threadState of the scheduler
          eventList,    \* Scheduler::eventList, a heap ordered by cycle
          eventIds,     \* Scheduler::eventIds
          lastEventId,  \* Scheduler::lastEventId
          eventId,      \* SchedulerTask::eventId
          cycle,        \* Task::expiration of a SchedulerTask
          now,          \* system_clock::now()
          sPc,          \* where the scheduler thread is in threadMain
          deadline,     \* the argument of its wait_until()
          held,         \* the event it carries to the dispatcher
          sSignalling,  \* the callers that have still to notify_one() it
          sDown,        \* how far Scheduler::shutdown() has come
          stopped       \* history: the events stopEvent() returned true for

svars == <<sState, eventList, eventIds, lastEventId, eventId, cycle, now, sPc,
           deadline, held, sSignalling, sDown, stopped>>
allvars == <<dvars, svars>>

Callers == (Producers \ {SchedulerThread}) \cup {DispatcherSelf}
SleepPcs == {"wait", "waitUntil"}

STypeOK ==
    /\ sState \in ThreadStates
    /\ eventList \in SUBSET Events
    /\ eventIds \in SUBSET (1..(IdSpace - 1))
    /\ lastEventId \in 0..(IdSpace - 1)
    /\ eventId \in [Events -> 0..(IdSpace - 1)]
    /\ cycle \in [Events -> Nat]
    /\ now \in Nat /\ deadline \in Nat
    /\ sPc \in SleepPcs \cup {"check", "lock", "woken", "returning", "push", "done", "undefined"}
    /\ held \in Events
    /\ sSignalling \in SUBSET Callers
    /\ sDown \in {"up", "flagged", "cleared", "down"}
    /\ stopped \in SUBSET Events

SInit ==
    /\ DInit
    /\ sState = "RUNNING"
    /\ eventList = {} /\ eventIds = {} /\ lastEventId = 0
    /\ eventId = [e \in Events |-> 0]
    /\ cycle = [e \in Events |-> 0]
    /\ now = 0 /\ deadline = 0
    /\ sPc = "check"
    /\ held = CHOOSE e \in Events : TRUE
    /\ sSignalling = {} /\ sDown = "up" /\ stopped = {}

-----------------------------------------------------------------------------
(* Calls from other threads                                                *)

\* A caller between two calls.  The dispatcher thread calls from a task.
Free(c) ==
    /\ c \in Callers \ sSignalling
    /\ IF c = DispatcherSelf THEN Running ELSE c \notin signalling

\* if (++lastEventId == 0) lastEventId = 1, on an unsigned 32-bit counter.
NextEventId == IF lastEventId + 1 = IdSpace THEN 1 ELSE lastEventId + 1

\* task == eventList.top() after the push: it became the earliest event.
BecomesTop_later(c) == eventList # {} /\ \A e \in eventList : c >= cycle[e]
BecomesTop(c) == \A e \in eventList : c < cycle[e]

\* eventIds.erase(it), in stopEvent() and in threadMain().
Forget_keeps(e) == eventIds
Forget(e) == eventIds \ {eventId[e]}

AddEvent(c, e, delay) ==
    /\ Free(c)
    /\ fate[e] = "new" /\ eventId[e] = 0
    /\ now + delay <= MaxTime
    /\ IF sState = "RUNNING"
       THEN /\ lastEventId' = NextEventId
            /\ eventId' = [eventId EXCEPT ![e] = NextEventId]
            /\ cycle' = [cycle EXCEPT ![e] = now + delay]
            /\ eventIds' = eventIds \cup {NextEventId}
            /\ eventList' = eventList \cup {e}
            /\ sSignalling' = IF BecomesTop(now + delay)
                              THEN sSignalling \cup {c} ELSE sSignalling
            /\ UNCHANGED fate
       ELSE /\ fate' = [fate EXCEPT ![e] = "dropped"]
            /\ UNCHANGED <<lastEventId, eventId, cycle, eventIds, eventList, sSignalling>>
    /\ UNCHANGED <<dState, taskList, dPc, current, signalling, sState, now, sPc,
                   deadline, held, sDown, stopped>>

\* stopEvent(eventId[e]) by a caller that kept the id addEvent returned.  An id
\* no longer in eventIds returns false and changes nothing.
StopEvent(c, e) ==
    /\ Free(c)
    /\ eventId[e] \in eventIds
    /\ eventIds' = Forget(e)
    /\ stopped' = stopped \cup {e}
    /\ UNCHANGED <<dvars, sState, eventList, lastEventId, eventId, cycle, now,
                   sPc, deadline, held, sSignalling, sDown>>

\* Where a wakeup, by a signal or not, leaves a sleeping scheduler.
Woken_lost == sPc
Woken ==
    CASE sPc = "wait" -> "woken"
      [] sPc = "waitUntil" -> "returning"
      [] OTHER -> sPc

NotifyScheduler(c) ==
    /\ c \in sSignalling
    /\ sSignalling' = sSignalling \ {c}
    /\ sPc' = Woken
    /\ UNCHANGED <<dvars, sState, eventList, eventIds, lastEventId, eventId,
                   cycle, now, deadline, held, sDown, stopped>>

-----------------------------------------------------------------------------
(* Scheduler::threadMain                                                   *)

SCheck ==
    /\ sPc = "check" /\ SchedulerThread \notin signalling
    /\ sPc' = IF sState = "TERMINATED" THEN "done" ELSE "lock"
    /\ UNCHANGED <<dvars, sState, eventList, eventIds, lastEventId, eventId,
                   cycle, now, deadline, held, sSignalling, sDown, stopped>>

\* The events the heap may have on top: with equal times it may be either.
Tops_latest == {e \in eventList : \A f \in eventList : cycle[e] >= cycle[f]}
Tops == {e \in eventList : \A f \in eventList : cycle[e] <= cycle[f]}

SLock ==
    /\ sPc = "lock"
    /\ \/ eventList = {} /\ sPc' = "wait" /\ UNCHANGED deadline
       \/ \E e \in Tops : sPc' = "waitUntil" /\ deadline' = cycle[e]
    /\ UNCHANGED <<dvars, sState, eventList, eventIds, lastEventId, eventId,
                   cycle, now, held, sSignalling, sDown, stopped>>

\* A sleeper may wake without a signal, in wait_until() at the deadline at the
\* latest; it has then still to get the mutex back.
SSpurious ==
    /\ sPc \in SleepPcs
    /\ sPc' = Woken
    /\ UNCHANGED <<dvars, sState, eventList, eventIds, lastEventId, eventId,
                   cycle, now, deadline, held, sSignalling, sDown, stopped>>

SDeadline == now >= deadline /\ sPc = "waitUntil" /\ SSpurious

\* wait() has returned: unlock and go round the loop.
SWoken ==
    /\ sPc = "woken"
    /\ sPc' = "check"
    /\ UNCHANGED <<dvars, sState, eventList, eventIds, lastEventId, eventId,
                   cycle, now, deadline, held, sSignalling, sDown, stopped>>

\* wait_until() reads the clock once it holds the mutex again: it reports a
\* timeout if the deadline has passed, whatever woke it.
TimedOut == now >= deadline

\* Whether a popped event is still to be run.
StillWanted_ignored(e) == TRUE
StillWanted(e) == eventId[e] \in eventIds

\* wait_until() has returned, with the mutex.  After a timeout: pop the top and
\* carry it off, or delete it if it was stopped.  top() and pop() of an empty
\* heap, which the code does not test for, are undefined; the model stops the
\* thread there.
SReturn ==
    /\ sPc = "returning"
    /\ \/ /\ ~TimedOut
          /\ sPc' = "check"
          /\ UNCHANGED <<eventList, eventIds, held, fate>>
       \/ /\ TimedOut /\ eventList = {}
          /\ sPc' = "undefined"
          /\ UNCHANGED <<eventList, eventIds, held, fate>>
       \/ \E e \in Tops :
            /\ TimedOut
            /\ eventList' = eventList \ {e}
            /\ eventIds' = Forget(e)
            /\ IF StillWanted(e)
               THEN sPc' = "push" /\ held' = e /\ UNCHANGED fate
               ELSE sPc' = "check" /\ fate' = [fate EXCEPT ![e] = "dropped"] /\ UNCHANGED held
    /\ UNCHANGED <<dState, taskList, dPc, current, signalling, sState, lastEventId,
                   eventId, cycle, now, deadline, sSignalling, sDown, stopped>>

\* g_dispatcher.addTask(task, true)
SPush ==
    /\ sPc = "push"
    /\ AddTask(SchedulerThread, held, TRUE)
    /\ sPc' = "check"
    /\ UNCHANGED <<sState, eventList, eventIds, lastEventId, eventId, cycle, now,
                   deadline, held, sSignalling, sDown, stopped>>

SThread == SCheck \/ SLock \/ SDeadline \/ SWoken \/ SReturn \/ SPush

-----------------------------------------------------------------------------
(* The end: Game::setGameState(SHUTDOWN) closes, Game::shutdown shuts down *)

CloseScheduler ==
    /\ Running /\ sState = "RUNNING"
    /\ sState' = "CLOSING"
    /\ UNCHANGED <<dvars, eventList, eventIds, lastEventId, eventId, cycle, now,
                   sPc, deadline, held, sSignalling, sDown, stopped>>

\* setState(THREAD_STATE_TERMINATED), before eventLock is taken.
ShutdownFlag ==
    /\ Running /\ dState = "CLOSING" /\ sDown = "up"
    /\ sState' = "TERMINATED" /\ sDown' = "flagged"
    /\ UNCHANGED <<dvars, eventList, eventIds, lastEventId, eventId, cycle, now,
                   sPc, deadline, held, sSignalling, stopped>>

\* Under the lock: delete what is left in the heap and forget the ids.
ShutdownClear ==
    /\ Running /\ sDown = "flagged"
    /\ sDown' = "cleared"
    /\ fate' = [t \in AllTasks |-> IF t \in eventList THEN "dropped" ELSE fate[t]]
    /\ eventList' = {} /\ eventIds' = {}
    /\ UNCHANGED <<dState, taskList, dPc, current, signalling, sState, lastEventId,
                   eventId, cycle, now, sPc, deadline, held, sSignalling, stopped>>

ShutdownNotify ==
    /\ Running /\ sDown = "cleared"
    /\ sDown' = "down"
    /\ sPc' = Woken
    /\ UNCHANGED <<dvars, sState, eventList, eventIds, lastEventId, eventId, cycle,
                   now, deadline, held, sSignalling, stopped>>

Tick ==
    /\ now < MaxTime
    /\ now' = now + 1
    /\ UNCHANGED <<dvars, sState, eventList, eventIds, lastEventId, eventId, cycle,
                   sPc, deadline, held, sSignalling, sDown, stopped>>

-----------------------------------------------------------------------------
\* The dispatcher's own steps.  Its thread cannot go on while it still has to
\* signal the scheduler, or in the middle of Scheduler::shutdown(); it stops
\* only after that, as Game::shutdown shuts the scheduler down first.
Dispatching ==
    /\ \/ \E p \in Producers \ {SchedulerThread}, t \in Tasks \ Events :
             p \notin sSignalling /\ AddTask(p, t, FALSE)
       \/ \E t \in Tasks \ Events : DispatcherSelf \notin sSignalling /\ AddTaskFromTask(t)
       \/ \E p \in Producers : Notify(p)
       \/ DispatcherSelf \notin sSignalling /\ sDown \in {"up", "down"} /\ DispatcherThread
       \/ SpuriousWake
       \/ sState # "RUNNING" /\ Close
       \/ sDown = "down" /\ Shutdown
    /\ UNCHANGED svars

SNext ==
    \/ \E c \in Callers, e \in Events, d \in Delays : AddEvent(c, e, d)
    \/ \E c \in Callers, e \in Events : StopEvent(c, e)
    \/ \E c \in Callers : NotifyScheduler(c)
    \/ SThread
    \/ SSpurious
    \/ CloseScheduler \/ ShutdownFlag \/ ShutdownClear \/ ShutdownNotify
    \/ Tick
    \/ Dispatching

SSpec == SInit /\ [][SNext]_allvars

\* Both threads are scheduled, time passes, signals owed are sent and tasks
\* return.  Nothing obliges anybody to add, stop, close or shut down.
SFairness ==
    /\ WF_allvars(SThread)
    /\ WF_allvars(Tick)
    /\ \A c \in Callers : WF_allvars(NotifyScheduler(c))
    /\ \A p \in Producers : WF_allvars(Notify(p) /\ UNCHANGED svars)
    /\ WF_allvars(DispatcherThread /\ DispatcherSelf \notin sSignalling
                    /\ sDown \in {"up", "down"} /\ UNCHANGED svars)
    /\ WF_allvars(ShutdownClear) /\ WF_allvars(ShutdownNotify)

SFairSpec == SSpec /\ SFairness

-----------------------------------------------------------------------------
(* Properties                                                              *)

\* The events that have gone, or are going, to the dispatcher.
Delivered(e) == fate[e] \in {"queued", "running", "done"} \/ (sPc = "push" /\ held = e)

StoppedNeverRuns ==
    \A e \in Events : Delivered(e) => e \notin stopped /\ now >= cycle[e]

\* The two structures agree: the live ids are those of the events in the heap
\* that nobody stopped, and no two of those share an id.  So stopEvent()
\* returning true is final: an event it stopped is never handed to the
\* dispatcher, however the call races with the event's timeout; nor is one
\* handed over before its time, though the top may have been replaced since
\* wait_until() was given its deadline.
EventIdsExact ==
    /\ STypeOK
    /\ eventIds = {eventId[e] : e \in eventList \ stopped}
    /\ \A e, f \in eventList : eventId[e] = eventId[f] => e = f
    /\ StoppedNeverRuns

DueEventRuns ==
    \A e \in Events :
        e \in eventList ~> (fate[e] = "done" \/ e \in stopped \/ sState # "RUNNING")

InLostSignalWindow == sPc = "lock"
ShutdownSeen == [](sDown = "cleared" => ~InLostSignalWindow)
SchedulerExits == ShutdownSeen => (sDown = "down" ~> sPc \in {"done", "undefined"})

\* An event added while the scheduler is running is run, unless it is stopped
\* or the server closes: the thread never oversleeps an event that is due
\* before the one it waits for.  shutdown() ends the thread, provided its
\* signal does not fall into the window between the thread's state test and its
\* wait(): there the signal is lost and the thread sleeps for good.
EventsAreServed == DueEventRuns /\ SchedulerExits

\* The comment in threadMain, after the timeout: "ok we had a timeout, so there
\* has to be an event we have to execute", so top() is never taken of an empty
\* heap.
TimeoutHasEvent == sPc # "undefined"

\* The refinement: the status a caller sees of each event.
Status ==
    [e \in Events |->
        IF e \in stopped THEN "cancelled"
        ELSE IF e \in eventList THEN "armed"
        ELSE IF (sPc = "push" /\ held = e) \/ fate[e] = "queued" THEN "delivered"
        ELSE IF fate[e] \in {"running", "done"} THEN "run"
        ELSE IF fate[e] = "dropped" THEN "dropped" ELSE "idle"]

Service == INSTANCE EventService WITH
    ev <- Status,
    ripe <- {e \in Events : eventId[e] # 0 /\ now >= cycle[e]},
    open <- sState = "RUNNING"

\* The two threads and their locks implement the abstract event service.
ImplementsEventService == Service!ESpec
=============================================================================
