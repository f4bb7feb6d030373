-------------------------------- MODULE Groups --------------------------------
(***************************************************************************)
(* Parties with their chat channels and their shared experience: each step *)
(* of Party takes both along, and a logout goes through all of them in one *)
(* task (Player::onRemoveCreature).                                        *)
(***************************************************************************)
EXTENDS Chat, SharedExperience

groupVars == <<vars, chatVars, expVars>>

GroupsInit == Init /\ ChatInit /\ ExpInit

PlayerLogin == \E x \in Players : Login(x) /\ ChatLogin(x) /\ ExperienceFollows
PlayerLogout == \E x \in Players : Logout(x) /\ ChatLogout(x) /\ ExperienceFollows

PartyStep ==
    /\ \/ \E x \in Players : LeaveParty(x)
       \/ \E x, y \in Players :
             \/ InviteToParty(x, y) \/ JoinParty(x, y)
             \/ RevokePartyInvitation(x, y) \/ PassPartyLeadership(x, y)
    /\ ChannelsFollow
    /\ ExperienceFollows

GroupsNext ==
    \/ PlayerLogin \/ PlayerLogout \/ PartyStep
    \/ ChatNext /\ UNCHANGED expVars
    \/ ExpNext /\ UNCHANGED chatVars

GroupsSpec == GroupsInit /\ [][GroupsNext]_groupVars
=============================================================================
