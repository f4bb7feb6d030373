--------------------------------- MODULE Chat ---------------------------------
(***************************************************************************)
(* Chat channels and guilds (chat.cpp, guild.cpp): who is a user of which  *)
(* channel.  The channel of a party is found by the address of the Party,  *)
(* the channel of a guild by the guild's id, through the pointers that the *)
(* player has at that moment; a private channel belongs to one player.     *)
(* Extends Party, whose steps close the party channel of players.          *)
(***************************************************************************)
EXTENDS Party, FiniteSets

CONSTANTS Slots,        \* ids of private channels
          Normals,      \* the channels of chatchannels.xml
          Guilds,
          guildIn       \* the guild of each player in the database, or None

\* A channel is found in the map of its own kind.
ASSUME ChatAssumption ==
    /\ guildIn \in [Players -> Guilds \cup {None}] /\ None \notin Guilds
    /\ Parties \cap (Guilds \cup Slots \cup Normals) = {}
    /\ Guilds \cap (Slots \cup Normals) = {} /\ Slots \cap Normals = {}

VARIABLES channels,     \* the keys of Chat's maps: a channel object exists
          users,        \* ChatChannel::users
          owner,        \* PrivateChatChannel::owner
          invites,      \* PrivateChatChannel::invites
          guilds,       \* Game::guilds: the Guild objects
          membersOnline,\* Guild::membersOnline
          stayed        \* history: users of its channel when they left the party

chatVars == <<channels, users, owner, invites, guilds, membersOnline, stayed>>

Keys == Parties \cup Guilds \cup Slots \cup Normals

ChatTypeOK ==
    /\ channels \in SUBSET Keys /\ users \in [Keys -> SUBSET Players]
    /\ owner \in [Slots -> Players \cup {None}] /\ invites \in [Slots -> SUBSET Players]
    /\ guilds \in SUBSET Guilds /\ membersOnline \in [Guilds -> SUBSET Players]
    /\ stayed \in [Parties -> SUBSET Players]

ChatInit ==
    /\ channels = Normals
    /\ users = [c \in Keys |-> {}]
    /\ owner = [c \in Slots |-> None] /\ invites = [c \in Slots |-> {}]
    /\ guilds = {} /\ membersOnline = [G \in Guilds |-> {}]
    /\ stayed = [P \in Parties |-> {}]

\* getChannel: pt is the players' party pointers.
GetChannel(pt, x, c) ==
    /\ c \in channels
    /\ \/ c \in Parties /\ pt[x] = c
       \/ c \in Guilds /\ guildIn[x] = c
       \/ c \in Slots /\ (owner[c] = x \/ x \in invites[c])
       \/ c \in Normals

\* The private channels of S are closed and erased.
Erased(S) ==
    /\ channels' = channels \ S
    /\ owner' = [c \in Slots |-> IF c \in S THEN None ELSE owner[c]]

\* removeUserFromAllChannels.
RemoveUser_notParty(x) == [c \in Keys |-> IF c \in Parties THEN users[c] ELSE users[c] \ {x}]
OwnedBy(x) == {c \in Slots : owner[c] = x}
RemoveUser(x) == [c \in Keys |-> IF c \in OwnedBy(x) THEN {} ELSE users[c] \ {x}]
RemoveUserFromAllChannels(x) ==
    /\ Erased(OwnedBy(x))
    /\ users' = RemoveUser(x)
    /\ invites' = [c \in Slots |-> IF c \in OwnedBy(x) THEN {} ELSE invites[c] \ {x}]

-----------------------------------------------------------------------------
(* What a step of Party does to the channels                               *)

\* sendClosePrivate(CHANNEL_PARTY) to each player that lost its party: the
\* channel is looked up through the pointer, which is null by then.
Left == {x \in Players : party[x] # None /\ party'[x] = None}
PartyChannelsClosed(pt) ==
    [c \in Keys |-> users[c] \ {x \in Left : c \in Parties /\ GetChannel(pt, x, c)}]
Stays(removed) ==
    stayed' = [P \in Parties |-> (stayed[P] \cup {x \in Left : party[x] = P /\ x \in users[P]}) \ removed]

ChannelsFollow ==
    /\ users' = PartyChannelsClosed(party')
    /\ Stays({})
    /\ UNCHANGED <<channels, owner, invites, guilds, membersOnline>>

\* loadPlayer finds or makes the Guild, onCreatureAppear makes x a member.
ChatLogin(x) ==
    /\ LET G == guildIn[x]
       IN IF G = None THEN UNCHANGED <<guilds, membersOnline>>
          ELSE /\ guilds' = guilds \cup {G}
               /\ membersOnline' = [membersOnline EXCEPT ![G] = @ \cup {x}]
    /\ UNCHANGED <<channels, users, owner, invites, stayed>>

\* onRemoveCreature: all channels, then the guild, which deletes itself with
\* its last member.
Abandoned(G, x) == IF membersOnline[G] \ {x} = {} THEN {G} ELSE {}
ChatLogout(x) ==
    /\ RemoveUserFromAllChannels(x)
    /\ Stays({x})
    /\ LET G == guildIn[x]
       IN IF G = None THEN UNCHANGED <<guilds, membersOnline>>
          ELSE /\ membersOnline' = [membersOnline EXCEPT ![G] = @ \ {x}]
               /\ guilds' = guilds \ Abandoned(G, x)

-----------------------------------------------------------------------------
(* Handlers                                                                *)

\* sendChannelsDialog: getChannelList makes the channels of the player's guild
\* and party that are missing.
RequestChannels(x) ==
    /\ x \in online
    /\ channels' = channels \cup ({guildIn[x], party[x]} \ {None})
    /\ UNCHANGED <<vars, users, owner, invites, guilds, membersOnline, stayed>>

\* playerOpenChannel; a script may refuse a normal one.
OpenChannel(x, c) ==
    /\ x \in online
    /\ GetChannel(party, x, c)
    /\ x \notin users[c]
    /\ users' = [users EXCEPT ![c] = @ \cup {x}]
    /\ UNCHANGED <<vars, channels, owner, invites, guilds, membersOnline, stayed>>

\* playerCloseChannel: with its owner a private channel ends.
CloseChannel(x, c) ==
    /\ x \in online
    /\ GetChannel(party, x, c)
    /\ x \in users[c]
    /\ LET ends == {c} \cap OwnedBy(x)
       IN /\ Erased(ends)
          /\ users' = [users EXCEPT ![c] = IF c \in ends THEN {} ELSE @ \ {x}]
          /\ invites' = [d \in Slots |-> IF d \in ends THEN {} ELSE invites[d]]
    /\ UNCHANGED <<vars, guilds, membersOnline, stayed>>

\* playerCreatePrivateChannel: one for each premium player, in a free
\* id (the code takes the first).
MayOwn(x) == OwnedBy(x) = {}
CreatePrivateChannel(x) ==
    /\ x \in online /\ MayOwn(x)
    /\ \E c \in Slots \ channels :
          /\ channels' = channels \cup {c}
          /\ owner' = [owner EXCEPT ![c] = x]
          /\ users' = [users EXCEPT ![c] = {x}]
    /\ UNCHANGED <<vars, invites, guilds, membersOnline, stayed>>

\* playerChannelInvite and playerChannelExclude by the owner.
ChannelInvite(x, y) ==
    /\ x \in online /\ y \in online /\ x # y
    /\ \E c \in OwnedBy(x) : invites' = [invites EXCEPT ![c] = @ \cup {y}]
    /\ UNCHANGED <<vars, channels, users, owner, guilds, membersOnline, stayed>>

ChannelExclude(x, y) ==
    /\ x \in online /\ y \in online /\ x # y
    /\ \E c \in OwnedBy(x) :
          /\ y \in invites[c]
          /\ invites' = [invites EXCEPT ![c] = @ \ {y}]
          /\ users' = [users EXCEPT ![c] = @ \ {y}]
    /\ UNCHANGED <<vars, channels, owner, guilds, membersOnline, stayed>>

\* ProtocolGame::connect: another client takes the player over.
TakenOver(x) ==
    /\ x \in online
    /\ RemoveUserFromAllChannels(x)
    /\ stayed' = [P \in Parties |-> stayed[P] \ {x}]
    /\ UNCHANGED <<vars, guilds, membersOnline>>

\* Chat::load on a reload: each normal channel is replaced by a new object.
Reload ==
    /\ users' = [c \in Keys |-> IF c \in Normals THEN {} ELSE users[c]]
    /\ UNCHANGED <<vars, channels, owner, invites, guilds, membersOnline, stayed>>

\* A login that loads x but finds no place for it: the Guild object stays.
LoginFails(x) ==
    /\ x \notin online /\ guildIn[x] # None
    /\ guilds' = guilds \cup {guildIn[x]}
    /\ UNCHANGED <<vars, channels, users, owner, invites, membersOnline, stayed>>

ChatNext ==
    \/ Reload
    \/ \E x \in Players :
          \/ RequestChannels(x) \/ CreatePrivateChannel(x) \/ TakenOver(x) \/ LoginFails(x)
          \/ \E c \in Keys : OpenChannel(x, c) \/ CloseChannel(x, c)
          \/ \E y \in Players : ChannelInvite(x, y) \/ ChannelExclude(x, y)

-----------------------------------------------------------------------------
\* Who reads a private channel may: its owner, who is in it as long as it
\* exists, and those it invites; nobody owns two.  (PrivateChatChannel, and
\* removeUserFromAllChannels in chat.cpp.)
PrivateChannelsKept ==
    /\ \A c \in Slots :
        IF c \in channels
        THEN owner[c] \in users[c] /\ users[c] \subseteq {owner[c]} \cup invites[c]
        ELSE owner[c] = None /\ users[c] = {} /\ invites[c] = {}
    /\ \A c, d \in Slots : owner[c] = owner[d] /\ owner[c] # None => c = d

\* A Player in the game has a Guild object that is alive and counts it.
GuildsLive ==
    \A x \in Players, G \in Guilds :
        /\ x \in membersOnline[G] <=> x \in online /\ guildIn[x] = G
        /\ x \in membersOnline[G] => G \in guilds

\* Nobody who has left the game reads a channel or is invited, the readers of a
\* guild's channel are its members, and whoever reads a party's channel without
\* being in the party was in a party at that address and has had the channel open
\* ever since (party.cpp resets the pointer before it closes the channel; the
\* channel outlives the Party).
ChannelReaders ==
    /\ ChatTypeOK
    /\ \A c \in Keys : users[c] \subseteq online
    /\ \A c \in Slots : invites[c] \subseteq online
    /\ \A G \in Guilds : \A x \in users[G] : guildIn[x] = G
    /\ \A P \in Parties : \A x \in users[P] : party[x] = P \/ x \in stayed[P]
    /\ PrivateChannelsKept
    /\ GuildsLive
=============================================================================
