------------------------------ MODULE MCThreads ------------------------------
(***************************************************************************)
(* The instances of Dispatcher, DatabaseTasks, Connection and Walking that *)
(* TLC checks.  A behaviour is about one of four, chosen at its start: the *)
(* dispatcher and any threads that give it tasks; the database thread,     *)
(* composed with the dispatcher; a connection; or a walking player, driven *)
(* by tasks and events.  Connections and players have no state in common   *)
(* with the others.  The fairness is that of the modules, asked of what a  *)
(* behaviour is about.                                                     *)
(***************************************************************************)
EXTENDS DatabaseTasks, Connection, Walking, TLC

CONSTANTS c1, q1, t2, t3, lever, stone

VARIABLE focus

\* Who steps on tile 3 is sent to tile 1.
MCJump == [t \in Tiles |-> IF t = 3 THEN 1 ELSE t]
MCPlace == lever :> 1 @@ stone :> 4
MCWalks == {<<1>>, <<-1>>, <<1, 1>>, <<-1, -1>>}

MCCallbackOf == [q \in {q1} |-> c1]

MCInit ==
    /\ focus \in {"dispatcher", "database", "connection", "walking"}
    /\ BInit /\ ConnectionInit /\ WalkingInit
    /\ focus # "walking" => player.prey = Start

\* The dispatcher alone is given three tasks, next to the database thread one
\* and the callback.
DispatcherNext == DNext /\ fate'[c1] = "new"
DatabaseNext == BNext /\ \A t \in {t2, t3} : fate'[t] = "new"

mcvars == <<dbvars, connectionVars, player, focus>>

DispatcherStep(A) ==
    focus = "dispatcher" /\ A /\ UNCHANGED <<bvars, connectionVars, player, focus>>
DatabaseStep(A) ==
    focus = "database" /\ A /\ UNCHANGED <<connectionVars, player, focus>>
ConnectionStep(A) ==
    focus = "connection" /\ A /\ UNCHANGED <<dbvars, player, focus>>
WalkingStep(A) ==
    focus = "walking" /\ A /\ UNCHANGED <<dbvars, connectionVars, focus>>

MCNext ==
    \/ DispatcherStep(DispatcherNext)
    \/ DatabaseStep(DatabaseNext)
    \/ ConnectionStep(ConnectionNext)
    \/ WalkingStep(WalkingNext)

\* DispatcherFairness, DatabaseFairness, the fairness of ReadingPeerSpec and
\* WalkingFairness.  Steps that share a conjunct belong to different behaviours,
\* so that it asks of each what it would ask alone.
MCFairness ==
    /\ WF_mcvars(DatabaseStep(DbThread) \/ DispatcherStep(DispatcherThread)
                   \/ ConnectionStep(Handlers) \/ WalkingStep(Rested))
    /\ WF_mcvars(DatabaseStep(FlushOne \/ FlushDone \/ NotifyDb)
                   \/ ConnectionStep(Destroy) \/ WalkingStep(RunTask))
    /\ WF_mcvars(DatabaseStep(DispatcherThread /\ ~InDbCall /\ UNCHANGED bvars)
                   \/ ConnectionStep(PeerReads)
                   \/ WalkingStep(\E id \in 1 .. MaxEvents : CheckCreatureWalk(id)))
    /\ \A c \in DbCallers : WF_mcvars(DatabaseStep(DbNotify(c)))
    /\ \A p \in Producers :
          WF_mcvars(DispatcherStep(Notify(p)) \/ DatabaseStep(Notify(p) /\ UNCHANGED bvars))
    /\ \A t \in Timers : /\ WF_mcvars(ConnectionStep(TimerFires(t)))
                         /\ WF_mcvars(ConnectionStep(HandleTimeout(t)))

MCSpec == MCInit /\ [][MCNext]_mcvars /\ MCFairness
=============================================================================
