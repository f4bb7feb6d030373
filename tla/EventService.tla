---------------------------- MODULE EventService ----------------------------
(***************************************************************************)
(* What addEvent and stopEvent promise to their callers (the game, raids,  *)
(* spawns, Lua timers), without threads, queues, locks or ids: an armed    *)
(* event is delivered once its time has come unless it is cancelled first, *)
(* a cancellation that was reported as done is final, and nothing is       *)
(* dropped while the service is open.                                      *)
(***************************************************************************)
CONSTANT Events

VARIABLES ev,    \* the status of each event
          ripe,  \* the events whose time has come
          open   \* the scheduler still takes events

evars == <<ev, ripe, open>>

EInit ==
    /\ ev = [e \in Events |-> "idle"]
    /\ ripe = {}
    /\ open = TRUE

Arm(e) ==
    /\ open /\ ev[e] = "idle"
    /\ ev' = [ev EXCEPT ![e] = "armed"]
    /\ ripe' \in {ripe, ripe \cup {e}}
    /\ UNCHANGED open

Cancel(e) ==
    /\ ev[e] = "armed"
    /\ ev' = [ev EXCEPT ![e] = "cancelled"]
    /\ UNCHANGED <<ripe, open>>

Deliver(e) ==
    /\ ev[e] = "armed" /\ e \in ripe
    /\ ev' = [ev EXCEPT ![e] = "delivered"]
    /\ UNCHANGED <<ripe, open>>

Run(e) ==
    /\ ev[e] = "delivered"
    /\ ev' = [ev EXCEPT ![e] = "run"]
    /\ UNCHANGED <<ripe, open>>

\* Only a closed service refuses or forgets events.
Drop(S) ==
    /\ ~open
    /\ \A e \in S : ev[e] \in {"idle", "armed", "delivered"}
    /\ ev' = [e \in Events |-> IF e \in S THEN "dropped" ELSE ev[e]]
    /\ UNCHANGED <<ripe, open>>

TimePasses ==
    /\ ripe' \in SUBSET Events /\ ripe \subseteq ripe'
    /\ \A e \in ripe' \ ripe : ev[e] # "idle"
    /\ UNCHANGED <<ev, open>>

CloseService ==
    /\ open' = FALSE
    /\ UNCHANGED <<ev, ripe>>

ENext ==
    \/ \E e \in Events : Arm(e) \/ Cancel(e) \/ Deliver(e) \/ Run(e)
    \/ \E S \in SUBSET Events : Drop(S)
    \/ TimePasses
    \/ CloseService

ESpec == EInit /\ [][ENext]_evars
=============================================================================
