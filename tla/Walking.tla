------------------------------- MODULE Walking -------------------------------
(***************************************************************************)
(* How a player walks, and what waits for it (src/server/src: creature.cpp,*)
(* player.cpp, game.cpp).                                                  *)
(*                                                                         *)
(* A path is walked one step per scheduled event; each event schedules the *)
(* next, and eventWalk keeps its id.  What is out of reach is done after a *)
(* walk: the path goes to the dispatcher, the action waits in walkTask and *)
(* is scheduled when an event finds the path walked.  Whoever follows gets *)
(* a new path whenever one of the two moves.                               *)
(*                                                                         *)
(* The map is a row of tiles, so that an obstacle cannot be walked around; *)
(* a step-in script moves who steps on t to jump[t].  All of it runs on    *)
(* the dispatcher: inputs at any time, its own tasks in their order, and    *)
(* events whose delay is over, at any time that no task is left.  A        *)
(* player's getStepSpeed() is positive, whatever its speed.                *)
(***************************************************************************)
EXTENDS Integers, Sequences, FiniteSets

CONSTANTS Tiles,
          jump,
          Things,       \* things that can be used or moved
          place,        \* the tile of each
          Uses,         \* those that are used; the others are moved
          NoThing,
          Start,
          Walks,        \* paths that clients send
          MaxInputs,    \* bound on what the client and others do
          MaxEvents     \* bound on walk events alive at once

ASSUME WalkingAssumption ==
    /\ Tiles \subseteq Int /\ Start \in Tiles /\ jump \in [Tiles -> Tiles]
    /\ place \in [Things -> Tiles] /\ Uses \subseteq Things /\ NoThing \notin Things
    /\ Walks \subseteq Seq({-1, 1}) /\ MaxInputs \in Nat /\ MaxEvents \in Nat \ {0}

VARIABLE player     \* the Player, its tasks and its scheduled events

WalkingInit ==
    \E prey \in Tiles :
       player = [
          at |-> Start, path |-> <<>>,
          resting |-> FALSE,            \* getWalkDelay() > 0
          slow |-> FALSE,               \* getSpeed() <= 0
          eventWalk |-> 0,
          walks |-> {},                 \* ids of the walk events that are scheduled
          cancelNextWalk |-> FALSE,
          walkTask |-> NoThing,
          walkTaskEvent |-> NoThing,    \* what is scheduled since the path was walked
          actionTask |-> NoThing,       \* what is scheduled since the player was busy
          busy |-> FALSE,               \* ~canDoAction()
          prey |-> prey, follows |-> FALSE,
          hasFollowPath |-> FALSE, isUpdatingPath |-> FALSE, forceUpdate |-> FALSE,
          queue |-> <<>>,               \* its tasks in the dispatcher
          inputs |-> 0,
          owed |-> [a \in Things |-> 0],  \* history: asked for and not done
          halted |-> FALSE]               \* history: eventWalk was stopped on the way

GoTask == [do |-> "updateCreatureWalk", path |-> <<>>]
WalkAlong(p) == [do |-> "playerAutoWalk", path |-> p]

Near(s, t) == s - t \in {-1, 0, 1}
Towards(s, t, reach) ==
    LET steps == IF t > s THEN t - s - reach ELSE s - t - reach
    IN  [n \in 1 .. steps |-> IF t > s THEN 1 ELSE -1]
EndOf(s, p) ==
    s + Cardinality({n \in DOMAIN p : p[n] = 1}) - Cardinality({n \in DOMAIN p : p[n] = -1})
-----------------------------------------------------------------------------
(***************************************************************************)
(* Steps.  M is the player; what may fail has the set of its outcomes.     *)
(***************************************************************************)
SetNextWalkActionTask(M, a) == [M EXCEPT !.walkTaskEvent = NoThing, !.walkTask = a]
OnWalkAborted(M) == SetNextWalkActionTask(M, NoThing)

OnWalkComplete_kept(M) ==
    IF M.walkTask = NoThing THEN M ELSE [M EXCEPT !.walkTaskEvent = M.walkTask]
OnWalkComplete(M) ==
    IF M.walkTask = NoThing THEN M
    ELSE [M EXCEPT !.walkTaskEvent = M.walkTask, !.walkTask = NoThing]

StopEventWalk(M) == [M EXCEPT !.eventWalk = 0, !.walks = @ \ {M.eventWalk}]

\* The path is left as it is; only the event goes.
Interrupted(M) == [StopEventWalk(M) EXCEPT !.halted = @ \/ M.eventWalk # 0]

FollowMoved(M) ==
    IF M.follows /\ M.hasFollowPath
    THEN [M EXCEPT !.isUpdatingPath = FALSE, !.queue = @ \o <<GoTask, GoTask>>] ELSE M

OnCreatureMove(M, t, teleport) ==
    LET moved == [M EXCEPT !.at = t, !.resting = TRUE]
    IN  FollowMoved(IF teleport THEN Interrupted(moved) ELSE moved)

\* internalMoveCreature(): the move, and that of the script on the tile.
MoveTo(M, t, teleport) ==
    LET moved == OnCreatureMove(M, t, teleport)
    IN  IF jump[t] = t THEN moved ELSE OnCreatureMove(moved, jump[t], ~Near(t, jump[t]))

\* A step that ends where it is now: beyond the row, or the tile is not free,
\* which counts as something that others do.
Blocked(M, dir) ==
    IF M.at + dir \notin Tiles THEN {M}
    ELSE IF M.inputs < MaxInputs THEN {[M EXCEPT !.inputs = @ + 1]} ELSE {}

\* tryToFixAutoWalk(): skips two directions at a time, three times at most, for
\* a place that can be reached without the tile ahead.
Skips(M) == {n \in 1 .. 3 : 2 * (n - 1) < Len(M.path)}
After(M, dir, n) == EndOf(M.at + dir, SubSeq(M.path, 1, IF 2 * n < Len(M.path) THEN 2 * n ELSE Len(M.path)))
Reached(M, dir) ==
    {n \in Skips(M) : After(M, dir, n) \in Tiles /\ (After(M, dir, n) - M.at) * dir <= 0}
TryToFixAutoWalk(M, dir) ==
    LET least == CHOOSE n \in Reached(M, dir) : \A k \in Reached(M, dir) : n <= k
    IN  IF Reached(M, dir) = {} THEN SubSeq(M.path, 7, Len(M.path))
        ELSE Towards(M.at, After(M, dir, least), 0)
               \o SubSeq(M.path, 2 * least + 1, Len(M.path))

\* A step the way of the obstacle fails again.
FixedStep(M, dir, found) ==
    IF ~found \/ M.path = <<>> THEN [M EXCEPT !.forceUpdate = TRUE]
    ELSE IF Head(M.path) = dir \/ M.at - dir \notin Tiles
    THEN [M EXCEPT !.path = Tail(@), !.forceUpdate = TRUE]
    ELSE MoveTo([M EXCEPT !.path = Tail(@)], M.at - dir, FALSE)

Fixed(M, dir) ==
    FixedStep([M EXCEPT !.path = TryToFixAutoWalk(M, dir)], dir, Reached(M, dir) # {})

\* getNextStep() takes the direction, and Player::onWalk() drops the action
\* that waits for the player not to be busy.
NextStep(M, dir) ==
    LET taken == [M EXCEPT !.path = Tail(@), !.actionTask = NoThing]
    IN  {MoveTo(taken, t, FALSE) : t \in {M.at + dir} \cap Tiles}
        \cup {Fixed(N, dir) : N \in Blocked(taken, dir)}

CancelNextWalk(M) ==
    IF M.cancelNextWalk
    THEN OnWalkAborted([M EXCEPT !.path = <<>>, !.cancelNextWalk = FALSE]) ELSE M

\* onWalk() but for the next event.
Walk(M) ==
    {CancelNextWalk(N) : N \in IF M.resting THEN {M}
                              ELSE IF M.path # <<>> THEN NextStep(M, Head(M.path))
                              ELSE {StopEventWalk(OnWalkComplete(M))}}

Armed(M) ==
    LET id == CHOOSE n \in 1 .. MaxEvents : n \notin M.walks
    IN  [M EXCEPT !.eventWalk = id, !.walks = @ \cup {id}, !.halted = FALSE]

\* A player that may step does so before its event is scheduled.
AddEventWalk_again(M) ==
    {Armed(N) : N \in IF M.resting THEN {[M EXCEPT !.cancelNextWalk = FALSE]}
                     ELSE Walk([M EXCEPT !.cancelNextWalk = FALSE])}
AddEventWalk(M) ==
    IF M.eventWalk # 0 THEN {[M EXCEPT !.cancelNextWalk = FALSE]}
    ELSE {Armed(N) : N \in IF M.resting THEN {[M EXCEPT !.cancelNextWalk = FALSE]}
                          ELSE Walk([M EXCEPT !.cancelNextWalk = FALSE])}

StartAutoWalk(M, p) == AddEventWalk([M EXCEPT !.path = p])

\* An event that finds a walk under way schedules the next.
OnWalk_once(M) == Walk(M)
OnWalk(M) ==
    UNION {IF N.eventWalk = 0 THEN {N} ELSE AddEventWalk([N EXCEPT !.eventWalk = 0]) :
             N \in Walk(M)}

\* A creature on a row is never out of reach.
GoToFollowCreature(M) ==
    IF M.walkTask # NoThing \/ ~M.follows THEN {M}
    ELSE StartAutoWalk([M EXCEPT !.hasFollowPath = TRUE], Towards(M.at, M.prey, 1))

SetFollowCreature(M, on) ==
    IF on = M.follows THEN M
    ELSE IF on
    THEN [IF M.path # <<>> THEN OnWalkAborted([M EXCEPT !.path = <<>>]) ELSE M EXCEPT
            !.follows = TRUE, !.isUpdatingPath = TRUE,
            !.hasFollowPath = FALSE, !.forceUpdate = FALSE]
    ELSE [M EXCEPT !.follows = FALSE, !.isUpdatingPath = FALSE, !.cancelNextWalk = TRUE]

\* What is out of reach waits in walkTask for the walk there.
GoAndDo(M, a) ==
    [SetNextWalkActionTask(M, a) EXCEPT
        !.queue = Append(@, WalkAlong(Towards(M.at, place[a], 1)))]
Waits(M, a) == [M EXCEPT !.actionTask = a]
Performed(M, a) == [M EXCEPT !.actionTask = NoThing, !.owed[a] = @ - 1]

PlayerUseItem(M, a) ==
    IF ~Near(M.at, place[a]) THEN GoAndDo(M, a)
    ELSE IF M.busy THEN Waits(M, a)
    ELSE [Performed(M, a) EXCEPT !.busy = TRUE]

\* Moving looks at busy first.
PlayerMoveItem(M, a) ==
    IF M.busy THEN Waits(M, a)
    ELSE IF ~Near(M.at, place[a]) THEN GoAndDo([M EXCEPT !.actionTask = NoThing], a)
    ELSE Performed(M, a)

Do(M, a) == IF a \in Uses THEN PlayerUseItem(M, a) ELSE PlayerMoveItem(M, a)
-----------------------------------------------------------------------------
(***************************************************************************)
(* What the dispatcher runs: tasks of the client and of others, its own    *)
(* tasks, and the events of the scheduler.                                 *)
(***************************************************************************)
Asks == player.inputs < MaxInputs
Asked == [player EXCEPT !.inputs = @ + 1]

PlayerMove(d) ==
    Asks /\ player' \in StartAutoWalk(SetNextWalkActionTask(Asked, NoThing), <<d>>)

\* A map click of an old client: the action that waits is kept.
PlayerAutoWalk(p) == Asks /\ player' = [Asked EXCEPT !.queue = Append(@, WalkAlong(p))]

\* A walk of OTClient, which believes to be on pos.
NewWalk(M, pos, auto, p) ==
    LET far == Len(M.path) > 2
        ahead == EndOf(M.at, SubSeq(M.path, 1, IF far THEN 3 ELSE Len(M.path)))
        to == EndOf(pos, SubSeq(p, 1, IF Len(p) < 2 THEN Len(p) ELSE 2))
    IN  IF pos = M.at THEN StartAutoWalk(M, p)
        ELSE IF ~far /\ ahead = pos THEN {[M EXCEPT !.path = @ \o p]}
        ELSE IF ~auto \/ to \notin Tiles THEN {M}
        ELSE StartAutoWalk(M, Towards(M.at, to, 0) \o SubSeq(p, 3, Len(p)))
PlayerNewWalk(pos, auto, p) ==
    /\ Asks
    /\ \E M \in {SetNextWalkActionTask(Asked, NoThing)} : player' \in NewWalk(M, pos, auto, p)

PlayerStopAutoWalk == Asks /\ player' = [Asked EXCEPT !.cancelNextWalk = TRUE]

PlayerUse(a) == Asks /\ player' = Do([Asked EXCEPT !.owed[a] = @ + 1], a)

PlayerFollowCreature(on) ==
    LET off == SetFollowCreature(Asked, FALSE)
    IN  Asks /\ player' = SetFollowCreature([off EXCEPT !.queue = Append(@, GoTask)], on)

PreyMoves(t) ==
    /\ Near(player.prey, t) /\ player.prey # t
    /\ Asks /\ player' = FollowMoved([Asked EXCEPT !.prey = t])

\* Another player pushes this one, or a script moves it.
Pushed(t) == Near(player.at, t) /\ player.at # t /\ Asks /\ player' = MoveTo(Asked, t, FALSE)
Teleported(t) == player.at # t /\ Asks /\ player' = MoveTo(Asked, t, TRUE)

\* changeSpeed() to less than nothing, and back.
SetSpeed(slow) ==
    /\ slow # player.slow /\ Asks
    /\ \E M \in {[Asked EXCEPT !.slow = slow]} :
          player' \in IF slow THEN {[Interrupted(M) EXCEPT !.cancelNextWalk = TRUE]}
                      ELSE IF M.path # <<>> THEN AddEventWalk(M) ELSE {M}

RunTask ==
    /\ player.queue # <<>>
    /\ \E M \in {[player EXCEPT !.queue = Tail(@)]} :
          player' \in IF Head(player.queue).do = "playerAutoWalk"
                      THEN StartAutoWalk(M, Head(player.queue).path) ELSE GoToFollowCreature(M)

\* Delays are longer than what the dispatcher has in its queue.
Later == player.queue = <<>>

CheckCreatureWalk(id) ==
    /\ id \in player.walks /\ Later
    /\ player' \in OnWalk([player EXCEPT !.walks = @ \ {id}])

WalkTaskRuns ==
    /\ player.walkTaskEvent # NoThing /\ Later
    /\ player' = Do([player EXCEPT !.walkTaskEvent = NoThing], player.walkTaskEvent)
ActionTaskRuns ==
    /\ player.actionTask # NoThing /\ Later
    /\ player' = Do([player EXCEPT !.actionTask = NoThing], player.actionTask)

\* Creature::onThink(): a path is due every two seconds, or at once after a
\* step that failed or a new choice of whom to follow.
OnThink ==
    /\ player.follows /\ Later
    /\ player' \in GoToFollowCreature(
                    [player EXCEPT !.isUpdatingPath = FALSE, !.forceUpdate = FALSE])

Rested == player.resting /\ Later /\ player' = [player EXCEPT !.resting = FALSE]
NotBusy == player.busy /\ Later /\ player' = [player EXCEPT !.busy = FALSE]

WalkingNext ==
    \/ \E d \in {-1, 1} : PlayerMove(d)
    \/ \E p \in Walks : PlayerAutoWalk(p)
    \/ \E pos \in Tiles, auto \in BOOLEAN, p \in Walks : PlayerNewWalk(pos, auto, p)
    \/ PlayerStopAutoWalk
    \/ \E a \in Things : PlayerUse(a)
    \/ \E on \in BOOLEAN : PlayerFollowCreature(on) \/ SetSpeed(on)
    \/ \E t \in Tiles : PreyMoves(t) \/ Pushed(t) \/ Teleported(t)
    \/ \E id \in 1 .. MaxEvents : CheckCreatureWalk(id)
    \/ RunTask \/ OnThink \/ WalkTaskRuns \/ ActionTaskRuns \/ Rested \/ NotBusy

WalkingFairness ==
    /\ WF_player(Rested)
    /\ WF_player(RunTask)
    /\ WF_player(\E id \in 1 .. MaxEvents : CheckCreatureWalk(id))

WalkingSpec == WalkingInit /\ [][WalkingNext]_player /\ WalkingFairness
-----------------------------------------------------------------------------
Pending(M, a) ==
    Cardinality({k \in {"walkTask", "walkTaskEvent", "actionTask"} : M[k] = a})

(***************************************************************************)
(* eventWalk is the one walk event there is.  A player that still has a    *)
(* path, or an action that waits for one to be walked, has that event or a *)
(* path in the dispatcher's queue, unless the event was stopped on the way *)
(* by a teleport or a speed of nothing, which keep the path and the action.*)
(* An action waits in at most as many places as it was asked for: the walk *)
(* that it waits for does not run it twice, whatever is clicked meanwhile. *)
(***************************************************************************)
WalkGoesOn ==
    /\ player.walks = {player.eventWalk} \ {0}
    /\ player.eventWalk = 0 /\ (player.path # <<>> \/ player.walkTask # NoThing) =>
          player.halted \/ \E n \in DOMAIN player.queue : player.queue[n].do = "playerAutoWalk"
    /\ player.walkTask # NoThing => player.walkTaskEvent = NoThing
    /\ \A a \in Things : Pending(player, a) <= player.owed[a]

(***************************************************************************)
(* A path is walked to its end, or given up, and an action that waits for  *)
(* it is scheduled or dropped, unless the event is stopped on the way: it  *)
(* then waits for the next click, and holds up following meanwhile.        *)
(***************************************************************************)
WalkEnds ==
    player.path # <<>> \/ player.walkTask # NoThing ~>
       player.halted \/ (player.path = <<>> /\ player.walkTask = NoThing)
=============================================================================
