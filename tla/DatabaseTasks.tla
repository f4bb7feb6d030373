--------------------------- MODULE DatabaseTasks ----------------------------
(***************************************************************************)
(* The database thread (databasetasks.h, databasetasks.cpp) composed with  *)
(* the dispatcher, which runs the callbacks of its queries and on whose    *)
(* thread Game::shutdown() flushes what is left.  Queries are executed one *)
(* at a time by the connection's mutex, so an execution is one action; the *)
(* flush holds taskLock from its first query to its last.                  *)
(***************************************************************************)
EXTENDS Dispatcher, FiniteSets

CONSTANTS Queries,         \* the queries given to DatabaseTasks::addTask
          WithCallback,    \* those that come with a callback
          CallbackOf,      \* the dispatcher task that runs a query's callback
          DatabaseThread,  \* the producer that is the database thread
          DispatcherAsCaller   \* the dispatcher thread as a caller of addTask

ASSUME DatabaseAssumption ==
    /\ WithCallback \subseteq Queries
    /\ CallbackOf \in [WithCallback -> Tasks]
    /\ \A q, r \in WithCallback : CallbackOf[q] = CallbackOf[r] => q = r
    /\ DatabaseThread \in Producers
    /\ DispatcherAsCaller \notin Producers
    /\ Queries # {}

VARIABLES bState,       \* ThreadHolder::threadState of the database thread
          queries,      \* DatabaseTasks::tasks
          bPc,          \* where the database thread is in threadMain
          inHand,       \* the query it popped
          bSignalling,  \* the callers that have still to notify_one() it
          bDown,        \* how far DatabaseTasks::shutdown() has come
          accepted,     \* history: the queries accepted, in order
          executed      \* history: the queries executed, in order

bvars == <<bState, queries, bPc, inHand, bSignalling, bDown, accepted, executed>>
dbvars == <<dvars, bvars>>

DbCallers == (Producers \ {DatabaseThread}) \cup {DispatcherAsCaller}
ElementsOf(s) == {s[i] : i \in 1..Len(s)}

BInit ==
    /\ DInit
    /\ bState = "RUNNING"
    /\ queries = <<>> /\ accepted = <<>> /\ executed = <<>>
    /\ bPc = "check"
    /\ inHand = CHOOSE q \in Queries : TRUE
    /\ bSignalling = {}
    /\ bDown = "up"

-----------------------------------------------------------------------------
\* taskLock, which the flush keeps for as long as it lasts.
LockFree == bDown # "flushing"

\* The state is looked at under the lock, so that what shutdown() misses is
\* refused; a refused query vanishes, and its callback with it.
AcceptsQueries == bState = "RUNNING"

\* signal = tasks.empty(), evaluated before emplace_back.
SignalsFirst == queries = <<>>

\* emplace_back
WithNew_front(q) == <<q>> \o queries
WithNew(q) == Append(queries, q)

DbAddTask(c, q) ==
    /\ c \in DbCallers \ bSignalling
    /\ IF c = DispatcherAsCaller THEN Running ELSE c \notin signalling
    /\ LockFree /\ AcceptsQueries
    /\ q \notin ElementsOf(accepted)
    /\ queries' = WithNew(q)
    /\ accepted' = Append(accepted, q)
    /\ bSignalling' = IF SignalsFirst THEN bSignalling \cup {c} ELSE bSignalling
    /\ UNCHANGED <<dvars, bState, bPc, inHand, bDown, executed>>

DbWoken_lost == bPc
DbWoken == IF bPc = "wait" THEN "woken" ELSE bPc

DbNotify(c) ==
    /\ c \in bSignalling
    /\ bSignalling' = bSignalling \ {c}
    /\ bPc' = DbWoken
    /\ UNCHANGED <<dvars, bState, queries, inHand, bDown, accepted, executed>>

-----------------------------------------------------------------------------
(* DatabaseTasks::threadMain                                               *)

DbCheck ==
    /\ bPc = "check" /\ DatabaseThread \notin signalling
    /\ bPc' = IF bState = "TERMINATED" THEN "done" ELSE "lock"
    /\ UNCHANGED <<dvars, bState, queries, inHand, bSignalling, bDown, accepted, executed>>

DbPop_copies == bPc' = "exec" /\ inHand' = Head(queries) /\ UNCHANGED queries
DbPop == bPc' = "exec" /\ inHand' = Head(queries) /\ queries' = Tail(queries)

DbLock ==
    /\ bPc = "lock" /\ LockFree
    /\ \/ queries = <<>> /\ bPc' = "wait" /\ UNCHANGED <<queries, inHand>>
       \/ queries # <<>> /\ DbPop
    /\ UNCHANGED <<dvars, bState, bSignalling, bDown, accepted, executed>>

DbSpurious ==
    /\ bPc = "wait"
    /\ bPc' = "woken"
    /\ UNCHANGED <<dvars, bState, queries, inHand, bSignalling, bDown, accepted, executed>>

DbAfterWait ==
    /\ bPc = "woken" /\ LockFree
    /\ \/ queries = <<>> /\ bPc' = "check" /\ UNCHANGED <<queries, inHand>>
       \/ queries # <<>> /\ DbPop
    /\ UNCHANGED <<dvars, bState, bSignalling, bDown, accepted, executed>>

\* runTask(), its two halves: the query, and its callback to the dispatcher.
DbExecute ==
    /\ bPc = "exec"
    /\ executed' = Append(executed, inHand)
    /\ bPc' = IF inHand \in WithCallback THEN "callback" ELSE "check"
    /\ UNCHANGED <<dvars, bState, queries, inHand, bSignalling, bDown, accepted>>

DbCallback ==
    /\ bPc = "callback"
    /\ AddTask(DatabaseThread, CallbackOf[inHand], FALSE)
    /\ bPc' = "check"
    /\ UNCHANGED <<bState, queries, inHand, bSignalling, bDown, accepted, executed>>

DbThread == DbCheck \/ DbLock \/ DbAfterWait \/ DbExecute \/ DbCallback

-----------------------------------------------------------------------------
(* The end: setGameState(SHUTDOWN) stops it, Game::shutdown shuts it down  *)

StopDb ==
    /\ Running /\ bState = "RUNNING"
    /\ bState' = "CLOSING"
    /\ UNCHANGED <<dvars, queries, bPc, inHand, bSignalling, bDown, accepted, executed>>

\* taskLock.lock() and setState(THREAD_STATE_TERMINATED).
ShutdownDb ==
    /\ Running /\ dState = "CLOSING" /\ bDown = "up"
    /\ bState' = "TERMINATED" /\ bDown' = "flushing"
    /\ UNCHANGED <<dvars, queries, bPc, inHand, bSignalling, accepted, executed>>

\* One turn of flush(), on the dispatcher's thread.
FlushOne ==
    /\ Running /\ bDown = "flushing" /\ queries # <<>>
    /\ executed' = Append(executed, Head(queries))
    /\ queries' = Tail(queries)
    /\ IF Head(queries) \in WithCallback
       THEN AddTaskFromTask(CallbackOf[Head(queries)])
       ELSE UNCHANGED dvars
    /\ UNCHANGED <<bState, bPc, inHand, bSignalling, bDown, accepted>>

FlushDone ==
    /\ Running /\ bDown = "flushing" /\ queries = <<>>
    /\ bDown' = "flushed"
    /\ UNCHANGED <<dvars, bState, queries, bPc, inHand, bSignalling, accepted, executed>>

NotifyDb ==
    /\ Running /\ bDown = "flushed"
    /\ bDown' = "down"
    /\ bPc' = DbWoken
    /\ UNCHANGED <<dvars, bState, queries, inHand, bSignalling, accepted, executed>>

-----------------------------------------------------------------------------
\* The dispatcher's own steps, which do not go on in the middle of a call of
\* its thread to DatabaseTasks.
DbCallbacks == {CallbackOf[q] : q \in WithCallback}
InDbCall == DispatcherAsCaller \in bSignalling \/ bDown \in {"flushing", "flushed"}

DbDispatching ==
    /\ \/ \E p \in Producers \ {DatabaseThread}, t \in Tasks \ DbCallbacks :
             p \notin bSignalling /\ AddTask(p, t, FALSE)
       \/ \E t \in Tasks \ DbCallbacks : ~InDbCall /\ AddTaskFromTask(t)
       \/ \E p \in Producers : Notify(p)
       \/ ~InDbCall /\ DispatcherThread
       \/ SpuriousWake
       \/ bState # "RUNNING" /\ Close
       \/ bDown = "down" /\ Shutdown
    /\ UNCHANGED bvars

BNext ==
    \/ \E c \in DbCallers, q \in Queries : DbAddTask(c, q)
    \/ \E c \in DbCallers : DbNotify(c)
    \/ DbThread
    \/ DbSpurious
    \/ StopDb
    \/ ShutdownDb
    \/ FlushOne
    \/ FlushDone
    \/ NotifyDb
    \/ DbDispatching

BSpec == BInit /\ [][BNext]_dbvars

\* The two threads run, a caller that owes a signal sends it, and shutdown(),
\* once begun, goes on to its end.
BFairness ==
    /\ WF_dbvars(DbThread)
    /\ \A c \in DbCallers : WF_dbvars(DbNotify(c))
    /\ WF_dbvars(FlushOne \/ FlushDone \/ NotifyDb)
    /\ \A p \in Producers : WF_dbvars(Notify(p) /\ UNCHANGED bvars)
    /\ WF_dbvars(DispatcherThread /\ ~InDbCall /\ UNCHANGED bvars)

BFairSpec == BSpec /\ BFairness

-----------------------------------------------------------------------------
(* Properties                                                              *)

BTypeOK ==
    /\ bState \in ThreadStates
    /\ queries \in Seq(Queries) /\ accepted \in Seq(Queries) /\ executed \in Seq(Queries)
    /\ bPc \in {"check", "lock", "wait", "woken", "exec", "callback", "done"}
    /\ inHand \in Queries
    /\ bSignalling \in SUBSET DbCallers
    /\ bDown \in {"up", "flushing", "flushed", "down"}
    /\ bPc \in {"exec", "callback"} => inHand \notin ElementsOf(queries)

InFlight == IF bPc = "exec" THEN {inHand} ELSE {}

\* It is in exactly one of the list, the hand of the database thread and the
\* history, and in the history once.
EveryQueryOnce ==
    /\ Len(accepted) = Len(queries) + Cardinality(InFlight) + Len(executed)
    /\ ElementsOf(accepted) = ElementsOf(queries) \cup InFlight \cup ElementsOf(executed)

Before(s, q, r) == \E i, j \in 1..Len(s) : i < j /\ s[i] = q /\ s[j] = r

\* The queries that a later one was executed ahead of.
Overtaken ==
    {q \in ElementsOf(accepted) :
        \E r \in ElementsOf(executed) :
            Before(accepted, q, r) /\ ~Before(executed, q, r)}

\* No accepted query is lost or executed twice, although two threads take
\* queries from the list, and no callback is queued before its query has been
\* executed.  Queries are executed in the order of the calls (a ban is inserted
\* before it is deleted), but for one: the query the database thread holds when
\* flush() starts on the dispatcher's thread may come after those it executes.
QueriesOnceInOrder ==
    /\ BTypeOK /\ EveryQueryOnce
    /\ \A q \in WithCallback : fate[CallbackOf[q]] # "new" => q \in ElementsOf(executed)
    /\ bDown = "up" => Overtaken = {}
    /\ Cardinality(Overtaken) <= 1

QueryExecuted ==
    \A q \in Queries : q \in ElementsOf(accepted) ~> q \in ElementsOf(executed)

DbShutdownSeen == [](bDown = "flushed" => bPc # "lock")
DbThreadExits == DbShutdownSeen => (bDown = "down" ~> bPc = "done")

\* An accepted query is executed, by the thread or by the flush: the thread
\* never sleeps over one, and nothing slips in behind the flush.  shutdown()
\* ends the thread, provided its signal does not fall between the thread's
\* state test and its wait().
QueriesAreServed == QueryExecuted /\ DbThreadExits
=============================================================================
