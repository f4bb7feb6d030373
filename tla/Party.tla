-------------------------------- MODULE Party --------------------------------
(***************************************************************************)
(* Parties (party.cpp and the handlers of game.cpp and player.cpp): every  *)
(* fact is kept on both sides, by pointers.  A Party knows its leader, its *)
(* members and those it invites; a Player knows its party and the parties  *)
(* that invite it.  A party that becomes empty deletes itself, from within *)
(* whatever emptied it, and the allocator may use its address again: an    *)
(* element of Parties is such an address.                                  *)
(*                                                                         *)
(* The script events onJoin, onLeave and onDisband are disabled in         *)
(* events.xml and refuse nothing.  All of this runs on the dispatcher.     *)
(***************************************************************************)
EXTENDS Naturals, Sequences, SequencesExt

CONSTANTS Players, Parties,
          None          \* a null pointer

ASSUME PartyAssumption == None \notin Players \cup Parties

VARIABLES online,
          leader,           \* Party::leader, None where no Party is allocated
          memberList,       \* Party::memberList: the leader is not in it
          inviteList,       \* Party::inviteList
          party,            \* Player::party
          invitePartyList   \* Player::invitePartyList

partyVars == <<leader, memberList, inviteList, party, invitePartyList>>
vars == <<online, partyVars>>

Members(P) == ToSet(memberList[P])
Allocated == {P \in Parties : leader[P] # None}

IsInviting(x, y) ==
    /\ party[x] # None
    /\ leader[party[x]] = x
    /\ y \in inviteList[party[x]]

Init ==
    /\ online = {}
    /\ leader = [P \in Parties |-> None]
    /\ memberList = [P \in Parties |-> <<>>]
    /\ inviteList = [P \in Parties |-> {}]
    /\ party = [x \in Players |-> None]
    /\ invitePartyList = [x \in Players |-> {}]

\* std::find and erase: s without the first x in it.
EraseFirst(s, x) ==
    IF x \in ToSet(s)
    THEN RemoveAt(s, CHOOSE i \in DOMAIN s : s[i] = x /\ \A j \in 1..(i - 1) : s[j] # x)
    ELSE s

-----------------------------------------------------------------------------
(* What the handlers are made of.  A handler may change several parties:   *)
(* mem and inv are values of memberList and inviteList on the way, dead is *)
(* the set of parties it disbands.                                         *)

\* Party::empty.
Empty(mem, inv, P) == mem[P] = <<>> /\ inv[P] = {}

\* Player::clearPartyInvitations: x is taken off the list of every party that
\* it believes invites it ...
Uninvited(inv, x) ==
    [P \in Parties |-> IF P \in invitePartyList[x] THEN inv[P] \ {x} ELSE inv[P]]

\* ... and each of those that is empty now disbands (removeInvite).
EmptiedBy(inv, x) ==
    {P \in invitePartyList[x] : Empty(memberList, Uninvited(inv, x), P)}

\* Party::disband for every party of dead, then the rest: pt and invited are
\* the players' side.
After(ld, mem, inv, pt, invited, dead) ==
    /\ leader' = [P \in Parties |-> IF P \in dead THEN None ELSE ld[P]]
    /\ memberList' = [P \in Parties |-> IF P \in dead THEN <<>> ELSE mem[P]]
    /\ inviteList' = [P \in Parties |-> IF P \in dead THEN {} ELSE inv[P]]
    /\ party' = [x \in Players |->
                    IF \E P \in dead : x = ld[P] \/ x \in ToSet(mem[P]) THEN None ELSE pt[x]]
    /\ invitePartyList' = [x \in Players |-> invited[x] \ {P \in dead : x \in inv[P]}]

\* Party::leaveParty of x, who has just been taken off inv (when it logs out):
\* the leader hands over to the first member, unless nobody is left to lead.
MissingLeader(inv, P, x) ==
    /\ leader[P] = x
    /\ \/ memberList[P] = <<>>
       \/ Len(memberList[P]) = 1 /\ inv[P] = {}
NewLeader(inv, P, x) ==
    IF leader[P] = x /\ ~MissingLeader(inv, P, x) THEN Head(memberList[P]) ELSE leader[P]
Remaining_newLeaderToo(inv, P, x) == EraseFirst(memberList[P], x)
Remaining(inv, P, x) ==
    IF NewLeader(inv, P, x) # leader[P] THEN Tail(memberList[P]) ELSE EraseFirst(memberList[P], x)

\* The leave itself; invited and dead come from what preceded it.
Leaves(inv, invited, dead, x) ==
    LET P == party[x]
        mem == [memberList EXCEPT ![P] = Remaining(inv, P, x)]
        disbands == MissingLeader(inv, P, x) \/ Empty(mem, inv, P)
    IN After([leader EXCEPT ![P] = NewLeader(inv, P, x)], mem, inv,
             [party EXCEPT ![x] = None], invited,
             IF disbands THEN dead \cup {P} ELSE dead)

-----------------------------------------------------------------------------
(* Handlers                                                                *)

\* playerInviteToParty: x makes a party for its first invitation.  Nothing
\* keeps x from inviting itself.
InviteToParty(x, y) ==
    /\ x \in online /\ y \in online
    /\ ~IsInviting(y, x)
    /\ party[y] = None
    /\ \/ /\ party[x] = None
          /\ \E P \in Parties \ Allocated :
                /\ leader' = [leader EXCEPT ![P] = x]
                /\ inviteList' = [inviteList EXCEPT ![P] = {y}]
                /\ party' = [party EXCEPT ![x] = P]
                /\ invitePartyList' = [invitePartyList EXCEPT ![y] = @ \cup {P}]
                /\ UNCHANGED <<online, memberList>>
       \/ /\ party[x] # None
          /\ LET P == party[x]
             IN /\ leader[P] = x /\ y \notin inviteList[P]
                /\ inviteList' = [inviteList EXCEPT ![P] = @ \cup {y}]
                /\ invitePartyList' = [invitePartyList EXCEPT ![y] = @ \cup {P}]
                /\ UNCHANGED <<online, leader, memberList, party>>

\* playerJoinParty: with its first member a party is formed, and its leader
\* "can no longer take invitations from others".
ClearedByJoin(P, x) == IF memberList[P] = <<>> THEN {leader[P], x} ELSE {x}
JoinParty(x, l) ==
    /\ x \in online /\ l \in online
    /\ IsInviting(l, x)
    /\ party[x] = None
    /\ LET P == party[l]
           cleared == ClearedByJoin(P, x)
           inv == [Q \in Parties |-> inviteList[Q] \ {y \in cleared : Q \in invitePartyList[y]}]
           mem == [memberList EXCEPT ![P] = Append(@, x)]
       IN After(leader, mem, inv, [party EXCEPT ![x] = P],
                [y \in Players |-> IF y \in cleared THEN {} ELSE invitePartyList[y]],
                {Q \in UNION {invitePartyList[y] : y \in cleared} : Empty(mem, inv, Q)})
    /\ UNCHANGED online

\* playerRevokePartyInvitation.
RevokePartyInvitation(x, y) ==
    /\ x \in online /\ y \in online
    /\ IsInviting(x, y)
    /\ LET P == party[x]
           inv == [inviteList EXCEPT ![P] = @ \ {y}]
       IN After(leader, memberList, inv, party, [invitePartyList EXCEPT ![y] = @ \ {P}],
                IF Empty(memberList, inv, P) THEN {P} ELSE {})
    /\ UNCHANGED online

\* playerPassPartyLeadership.
PassPartyLeadership(x, y) ==
    /\ x \in online /\ y \in online /\ x # y
    /\ party[x] # None /\ leader[party[x]] = x /\ party[y] = party[x]
    /\ LET P == party[x]
       IN /\ leader' = [leader EXCEPT ![P] = y]
          /\ memberList' = [memberList EXCEPT ![P] = <<x>> \o EraseFirst(@, y)]
    /\ UNCHANGED <<online, inviteList, party, invitePartyList>>

\* playerLeaveParty: not in a fight, which any player may or may not be in.
LeaveParty(x) ==
    /\ x \in online /\ party[x] # None
    /\ Leaves(inviteList, invitePartyList, {}, x)
    /\ UNCHANGED online

Login(x) ==
    /\ x \notin online
    /\ online' = online \cup {x}
    /\ UNCHANGED partyVars

\* onRemoveCreature: the invitations to x first, which may disband the party
\* that x leads, then the party it is still in.
Logout(x) ==
    /\ x \in online
    /\ online' = online \ {x}
    /\ LET inv == Uninvited(inviteList, x)
           dead == EmptiedBy(inviteList, x)
           invited == [invitePartyList EXCEPT ![x] = {}]
       IN IF party[x] # None /\ party[x] \notin dead
          THEN Leaves(inv, invited, dead, x)
          ELSE After(leader, memberList, inv, party, invited, dead)

Next ==
    \/ \E x \in Players : Login(x) \/ Logout(x) \/ LeaveParty(x)
    \/ \E x, y \in Players :
          \/ InviteToParty(x, y) \/ JoinParty(x, y)
          \/ RevokePartyInvitation(x, y) \/ PassPartyLeadership(x, y)

Spec == Init /\ [][Next]_vars

-----------------------------------------------------------------------------
(* Properties                                                              *)

TypeOK ==
    /\ online \in SUBSET Players
    /\ leader \in [Parties -> Players \cup {None}]
    /\ memberList \in [Parties -> Seq(Players)]
    /\ inviteList \in [Parties -> SUBSET Players]
    /\ party \in [Players -> Parties \cup {None}]
    /\ invitePartyList \in [Players -> SUBSET Parties]

\* The two sides agree: a player's party is one that it leads or is a member
\* of, and only of that one ...
MembersPaired ==
    \A x \in Players, P \in Parties :
        /\ party[x] = P <=> (leader[P] = x \/ x \in Members(P))
        /\ x \in Members(P) => leader[P] \notin {x, None}

\* ... and an invitation is known to both ends.
InvitationsPaired ==
    \A x \in Players, P \in Parties : P \in invitePartyList[x] <=> x \in inviteList[P]

\* No pointer to a Party that is gone: a party in use has a leader, and one
\* that is in nobody's use does not stay.
NoEmptyParty ==
    \A P \in Parties : P \in Allocated <=> ~Empty(memberList, inviteList, P)

\* The comment of joinParty: nobody in a formed party has invitations pending.
FormedTakesNoInvitation ==
    \A P \in Parties : memberList[P] # <<>> =>
        \A x \in Members(P) \cup {leader[P]} : invitePartyList[x] = {}

\* Who has left the game is in no party, leads none and is invited by none.
GoneIsForgotten ==
    \A x \in Players \ online : party[x] = None /\ invitePartyList[x] = {}

\* Leaders, members and invitations agree on both sides after any sequence of
\* invitations, answers, hand-overs, disbandings and logouts (party.cpp keeps
\* each of them twice, and deletes the party from within the step that empties
\* it).
PartiesPaired ==
    /\ TypeOK /\ MembersPaired /\ InvitationsPaired
    /\ NoEmptyParty /\ FormedTakesNoInvitation /\ GoneIsForgotten
=============================================================================
