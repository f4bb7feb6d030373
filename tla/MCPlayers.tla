------------------------------- MODULE MCPlayers ------------------------------
(***************************************************************************)
(* The instance of Groups and TileView that TLC checks.  The channels of   *)
(* the parties, the other channels, and the shared experience have no      *)
(* state in common but the players and the parties, and what clients show  *)
(* of tiles none with any of them: a behaviour takes the steps of one of   *)
(* the four, chosen at the start, the first three next to those of Party.  *)
(***************************************************************************)
EXTENDS Groups, TileView, TLC

CONSTANTS
    Home,           \* where players start when nobody levels or moves
    s1, s2, f1, f2, d,
    Crowded         \* the tiles that items lie on

VARIABLE focus

MCInit ==
    /\ GroupsInit /\ TileViewInit
    /\ focus \in {"party chat", "other chat", "experience", "tiles"}
    /\ place = [x \in Players |-> Home]
    /\ focus # "experience" => \A x \in Players, l \in Levels : level[x] <= l

\* The channels a behaviour is about.
InFocus(c) == c \in Parties <=> focus = "party chat"

MCChat ==
    /\ focus # "experience"
    /\ ChatNext
    /\ \A c \in Keys : users'[c] \ users[c] # {} => InFocus(c)
    /\ UNCHANGED expVars

MCGroupsNext ==
    \/ PlayerLogin \/ PlayerLogout
    \/ focus # "other chat" /\ PartyStep
    \/ MCChat
    \/ focus = "experience" /\ ExpNext /\ UNCHANGED chatVars

MCTileViewNext ==
    /\ TileViewNext
    /\ \A t \in Tiles \ Crowded : tops'[t] = <<>> /\ downs'[t] = <<>>

MCNext ==
    /\ UNCHANGED focus
    /\ \/ focus # "tiles" /\ MCGroupsNext /\ UNCHANGED tileVars
       \/ focus = "tiles" /\ MCTileViewNext /\ UNCHANGED groupVars

MCSpec == MCInit /\ [][MCNext]_<<groupVars, tileVars, focus>>

\* With the flags to follow, one party and nobody who left: the others are
\* followed with the channels.
OneParty == focus = "experience" => Cardinality(Allocated) <= 1

OneGuild == [x \in Players |-> CHOOSE G \in Guilds : TRUE]
SameOrder == s1 :> 2 @@ s2 :> 2
Interchangeable == Permutations(Players) \cup Permutations(Parties)
=============================================================================
