---------------------------- MODULE GroupsProofs ----------------------------
(***************************************************************************)
(* Parties, their channels and their shared experience, for every set of   *)
(* players, parties, guilds, channels, levels and places: the three        *)
(* invariants of Party, Chat and SharedExperience hold of the steps that   *)
(* Groups puts together.                                                   *)
(*                                                                         *)
(* PartiesPaired is inductive once the member lists are known to name      *)
(* nobody twice, as std::find and erase take one entry off a list.  The    *)
(* channels then need one fact of the steps of Party, that a player goes   *)
(* from one party to another only through none at all, and the shared      *)
(* experience another, that a party starts without members.                *)
(*                                                                         *)
(* Then TileView, for every row of tiles, every set of players, monsters   *)
(* and items, and every limit: what clients show of tiles is right.        *)
(***************************************************************************)
EXTENDS Groups, TileView, FiniteSetTheorems, TLAPS

Distinct(s) == \A i, j \in DOMAIN s : s[i] = s[j] => i = j

NobodyTwice == \A P \in Parties : Distinct(memberList[P])

PartyInv == PartiesPaired /\ NobodyTwice

-----------------------------------------------------------------------------
(* Member lists *)

LEMMA ConcatParts ==
    ASSUME NEW S, NEW u \in Seq(S), NEW v \in Seq(S)
    PROVE  /\ u \o v \in Seq(S) /\ Len(u \o v) = Len(u) + Len(v)
           /\ \A i \in 1..(Len(u) + Len(v)) :
                 (u \o v)[i] = IF i <= Len(u) THEN u[i] ELSE v[i - Len(u)]
<1>1. u \o v \in Seq(S)
  OBVIOUS
<1>2. Len(u \o v) = Len(u) + Len(v)
  OBVIOUS
<1>3. ASSUME NEW i \in 1..(Len(u) + Len(v))
      PROVE  (u \o v)[i] = IF i <= Len(u) THEN u[i] ELSE v[i - Len(u)]
  OBVIOUS
<1> QED
  BY <1>1, <1>2, <1>3

\* Erasing from a list that names nobody twice leaves everybody else.
LEMMA EraseFirstKeeps ==
    ASSUME NEW S, NEW s \in Seq(S), Distinct(s), NEW x
    PROVE  /\ EraseFirst(s, x) \in Seq(S)
           /\ Distinct(EraseFirst(s, x))
           /\ ToSet(EraseFirst(s, x)) = ToSet(s) \ {x}
<1>1. CASE x \notin ToSet(s)
  BY <1>1 DEF EraseFirst
<1>2. CASE x \in ToSet(s)
  <2> DEFINE k == CHOOSE i \in DOMAIN s : s[i] = x /\ \A j \in 1..(i - 1) : s[j] # x
             t == SubSeq(s, 1, k - 1) \o SubSeq(s, k + 1, Len(s))
  <2>1. \E i \in DOMAIN s : s[i] = x /\ \A j \in 1..(i - 1) : s[j] # x
    <3>1. PICK i \in DOMAIN s : s[i] = x
      BY <1>2 DEF ToSet
    <3>2. \A j \in 1..(i - 1) : j \in DOMAIN s /\ j # i
      BY <3>1
    <3> QED
      BY <3>1, <3>2 DEF Distinct
  <2>2. k \in 1..Len(s) /\ s[k] = x
    BY <2>1
  <2> HIDE DEF k
  <2>3. /\ t \in Seq(S) /\ Len(t) = Len(s) - 1
        /\ \A i \in 1..(Len(s) - 1) : t[i] = IF i < k THEN s[i] ELSE s[i + 1]
    <3> DEFINE u == SubSeq(s, 1, k - 1)
               v == SubSeq(s, k + 1, Len(s))
    <3>1. /\ u \in Seq(S) /\ Len(u) = k - 1
          /\ \A i \in 1..(k - 1) : u[i] = s[i]
      BY <2>2
    <3>2. /\ v \in Seq(S) /\ Len(v) = Len(s) - k
          /\ \A i \in 1..(Len(s) - k) : v[i] = s[k + i]
      BY <2>2
    <3> HIDE DEF u, v
    <3>3. /\ u \o v \in Seq(S) /\ Len(u \o v) = Len(s) - 1
          /\ \A i \in 1..(Len(s) - 1) : (u \o v)[i] = IF i <= k - 1 THEN u[i] ELSE v[i - (k - 1)]
      <4>1. /\ u \o v \in Seq(S) /\ Len(u \o v) = Len(u) + Len(v)
            /\ \A i \in 1..(Len(u) + Len(v)) :
                  (u \o v)[i] = IF i <= Len(u) THEN u[i] ELSE v[i - Len(u)]
        BY <3>1, <3>2, ConcatParts
      <4>2. Len(u) + Len(v) = Len(s) - 1
        BY <2>2, <3>1, <3>2
      <4> QED
        BY <3>1, <4>1, <4>2
    <3>4. \A i \in k..(Len(s) - 1) : v[i - (k - 1)] = s[i + 1]
      <4>1. SUFFICES ASSUME NEW i \in k..(Len(s) - 1) PROVE v[i - (k - 1)] = s[i + 1]
        OBVIOUS
      <4>2. i - (k - 1) \in 1..(Len(s) - k) /\ k + (i - (k - 1)) = i + 1
        BY <2>2
      <4> QED
        BY <3>2, <4>2
    <3>5. t = u \o v
      BY DEF u, v
    <3> HIDE DEF t
    <3> QED
      BY <2>2, <3>1, <3>3, <3>4, <3>5
  <2>4. EraseFirst(s, x) = t
    BY <1>2 DEF EraseFirst, RemoveAt, k
  <2> HIDE DEF t
  <2>5. Distinct(t)
    <3>1. SUFFICES ASSUME NEW i \in 1..(Len(s) - 1), NEW j \in 1..(Len(s) - 1), t[i] = t[j]
                   PROVE  i = j
      BY <2>3 DEF Distinct
    <3> DEFINE in(n) == IF n < k THEN n ELSE n + 1
    <3>2. in(i) \in DOMAIN s /\ in(j) \in DOMAIN s /\ s[in(i)] = s[in(j)]
      BY <2>2, <2>3, <3>1
    <3>3. in(i) = in(j)
      BY <3>2 DEF Distinct
    <3> QED
      BY <2>2, <3>3
  <2>6. ASSUME NEW y \in ToSet(t) PROVE y \in ToSet(s) \ {x}
    <3>1. PICK i \in 1..(Len(s) - 1) : t[i] = y
      BY <2>3, <2>6 DEF ToSet
    <3>2. PICK j \in 1..Len(s) : j # k /\ s[j] = y
      BY <2>2, <2>3, <3>1
    <3> QED
      BY <2>2, <3>2 DEF Distinct, ToSet
  <2>7. ASSUME NEW y \in ToSet(s) \ {x} PROVE y \in ToSet(t)
    <3>1. PICK i \in 1..Len(s) : s[i] = y
      BY <2>7 DEF ToSet
    <3>2. i # k
      BY <2>2, <2>7, <3>1
    <3>3. CASE i < k
      BY <2>2, <2>3, <3>1, <3>3 DEF ToSet
    <3>4. CASE i > k
      <4>1. i - 1 \in 1..(Len(s) - 1) /\ t[i - 1] = s[i]
        BY <2>2, <2>3, <3>1, <3>4
      <4> QED
        BY <2>3, <3>1, <4>1 DEF ToSet
    <3> QED
      BY <2>2, <3>1, <3>2, <3>3, <3>4
  <2> QED
    BY <2>3, <2>4, <2>5, <2>6, <2>7
<1> QED
  BY <1>1, <1>2

LEMMA AppendKeeps ==
    ASSUME NEW S, NEW s \in Seq(S), Distinct(s), NEW x \in S, x \notin ToSet(s)
    PROVE  /\ Append(s, x) \in Seq(S)
           /\ Distinct(Append(s, x))
           /\ ToSet(Append(s, x)) = ToSet(s) \cup {x}
           /\ Append(s, x) # <<>>
<1>1. /\ Append(s, x) \in Seq(S) /\ Len(Append(s, x)) = Len(s) + 1
      /\ \A i \in 1..Len(s) : Append(s, x)[i] = s[i]
      /\ Append(s, x)[Len(s) + 1] = x
  OBVIOUS
<1>2. Distinct(Append(s, x))
  BY <1>1 DEF Distinct, ToSet
<1>3. ASSUME NEW y PROVE y \in ToSet(Append(s, x)) <=> y \in ToSet(s) \cup {x}
  <2>1. y \in ToSet(Append(s, x)) => y \in ToSet(s) \cup {x}
    BY <1>1 DEF ToSet
  <2>2. x \in ToSet(Append(s, x))
    BY <1>1 DEF ToSet
  <2>3. y \in ToSet(s) => y \in ToSet(Append(s, x))
    BY <1>1 DEF ToSet
  <2> QED
    BY <2>1, <2>2, <2>3
<1> QED
  BY <1>1, <1>2, <1>3

\* insert(begin(), x)
LEMMA InsertKeeps ==
    ASSUME NEW S, NEW s \in Seq(S), Distinct(s), NEW x \in S, x \notin ToSet(s)
    PROVE  /\ <<x>> \o s \in Seq(S)
           /\ Distinct(<<x>> \o s)
           /\ ToSet(<<x>> \o s) = ToSet(s) \cup {x}
           /\ <<x>> \o s # <<>>
<1> DEFINE t == <<x>> \o s
<1>1. /\ t \in Seq(S) /\ Len(t) = Len(s) + 1
      /\ \A i \in 1..Len(s) : t[i + 1] = s[i]
      /\ t[1] = x
  OBVIOUS
<1> HIDE DEF t
<1>2. \A i \in 2..Len(t) : i - 1 \in 1..Len(s) /\ t[i] = s[i - 1]
  BY <1>1
<1>3. Distinct(t)
  <2>1. \A i \in 1..Len(t) : i = 1 \/ i \in 2..Len(t)
    BY <1>1
  <2>2. \A i \in 2..Len(t) : t[i] # x
    BY <1>2 DEF ToSet
  <2>3. \A i, j \in 2..Len(t) : t[i] = t[j] => i = j
    <3> SUFFICES ASSUME NEW i \in 2..Len(t), NEW j \in 2..Len(t), t[i] = t[j] PROVE i = j
      OBVIOUS
    <3>1. i - 1 = j - 1
      BY <1>2 DEF Distinct
    <3> QED
      BY <3>1
  <2> QED
    BY <1>1, <2>1, <2>2, <2>3 DEF Distinct
<1>4. ASSUME NEW y PROVE y \in ToSet(t) <=> y \in ToSet(s) \cup {x}
  <2>1. y \in ToSet(t) => y \in ToSet(s) \cup {x}
    BY <1>1, <1>2 DEF ToSet
  <2>2. x \in ToSet(t)
    BY <1>1 DEF ToSet
  <2>3. y \in ToSet(s) => y \in ToSet(t)
    <3>1. SUFFICES ASSUME NEW i \in 1..Len(s), y = s[i] PROVE y \in ToSet(t)
      BY DEF ToSet
    <3>2. i + 1 \in 1..Len(t) /\ t[i + 1] = y
      BY <1>1, <3>1
    <3> QED
      BY <1>1, <3>2 DEF ToSet
  <2> QED
    BY <2>1, <2>2, <2>3
<1> QED
  BY <1>1, <1>3, <1>4 DEF t

LEMMA TailKeeps ==
    ASSUME NEW S, NEW s \in Seq(S), s # <<>>, Distinct(s)
    PROVE  /\ Head(s) \in S /\ Head(s) \in ToSet(s)
           /\ Tail(s) \in Seq(S)
           /\ Distinct(Tail(s))
           /\ ToSet(Tail(s)) = ToSet(s) \ {Head(s)}
<1>1. /\ Tail(s) \in Seq(S) /\ Len(Tail(s)) = Len(s) - 1 /\ Len(s) > 0
      /\ \A i \in 1..(Len(s) - 1) : Tail(s)[i] = s[i + 1]
      /\ Head(s) = s[1] /\ s[1] \in S
  OBVIOUS
<1>2. Distinct(Tail(s))
  BY <1>1 DEF Distinct
<1>3. ASSUME NEW y \in ToSet(Tail(s)) PROVE y \in ToSet(s) \ {Head(s)}
  <2>1. PICK i \in 1..(Len(s) - 1) : y = s[i + 1]
    BY <1>1, <1>3 DEF ToSet
  <2>2. i + 1 \in DOMAIN s /\ 1 \in DOMAIN s /\ i + 1 # 1
    BY <1>1, <2>1
  <2> QED
    BY <1>1, <2>1, <2>2 DEF ToSet, Distinct
<1>4. ASSUME NEW y \in ToSet(s) \ {Head(s)} PROVE y \in ToSet(Tail(s))
  <2>1. PICK i \in 2..Len(s) : y = s[i]
    BY <1>1, <1>4 DEF ToSet
  <2>2. i - 1 \in DOMAIN Tail(s) /\ Tail(s)[i - 1] = y
    BY <1>1, <2>1
  <2> QED
    BY <2>2 DEF ToSet
<1>5. Head(s) \in ToSet(s)
  BY <1>1 DEF ToSet
<1> QED
  BY <1>1, <1>2, <1>3, <1>4, <1>5
-----------------------------------------------------------------------------
(* Disbanding *)

ListsTyped(ld, mem, inv) ==
    /\ ld \in [Parties -> Players \cup {None}]
    /\ inv \in [Parties -> SUBSET Players]
    /\ mem \in [Parties -> Seq(Players)]
    /\ \A P \in Parties : Distinct(mem[P])

\* The players' side and the parties' side of a handler's values, before the
\* parties of dead are disbanded: only there may a pointer be reset already.
MembersAgree(ld, mem, pt, dead) ==
    /\ pt \in [Players -> Parties \cup {None}]
    /\ \A x \in Players, P \in Parties :
          /\ pt[x] = P => ld[P] = x \/ x \in ToSet(mem[P])
          /\ ld[P] = x \/ x \in ToSet(mem[P]) => pt[x] = P \/ (P \in dead /\ pt[x] = None)
          /\ P \notin dead /\ x \in ToSet(mem[P]) => ld[P] \notin {x, None}

InvitedAgree(inv, invited) ==
    /\ invited \in [Players -> SUBSET Parties]
    /\ \A x \in Players, P \in Parties : P \in invited[x] <=> x \in inv[P]

InUse(ld, mem, inv, dead) ==
    \A P \in Parties \ dead : ld[P] # None <=> ~Empty(mem, inv, P)

Formed(ld, mem, invited, dead) ==
    \A P \in Parties \ dead : mem[P] # <<>> =>
        \A x \in ToSet(mem[P]) \cup {ld[P]} : invited[x] = {}

Forgotten(pt, invited, dead) ==
    \A x \in Players \ online' : pt[x] \in dead \cup {None} /\ invited[x] = {}

\* Disbanding parties, whichever they are, keeps the invariant: party.cpp
\* resets both ends of every membership and of every invitation.
LEMMA AfterKeeps ==
    ASSUME NEW ld, NEW mem, NEW inv, NEW pt, NEW invited, NEW dead \in SUBSET Parties,
           ListsTyped(ld, mem, inv), MembersAgree(ld, mem, pt, dead),
           InvitedAgree(inv, invited), InUse(ld, mem, inv, dead),
           Formed(ld, mem, invited, dead), Forgotten(pt, invited, dead),
           online' \in SUBSET Players,
           After(ld, mem, inv, pt, invited, dead)
    PROVE  PartyInv'
<1> USE PartyAssumption DEF PartyAssumption
<1>1. /\ \A P \in dead : leader'[P] = None /\ memberList'[P] = <<>> /\ inviteList'[P] = {}
      /\ \A P \in Parties \ dead : /\ leader'[P] = ld[P] /\ memberList'[P] = mem[P]
                                   /\ inviteList'[P] = inv[P]
      /\ \A x \in Players : party'[x] = IF \E P \in dead : x = ld[P] \/ x \in ToSet(mem[P])
                                        THEN None ELSE pt[x]
      /\ \A x \in Players : invitePartyList'[x] = invited[x] \ {P \in dead : x \in inv[P]}
  BY DEF After
<1>2. TypeOK'
  <2>1. memberList' \in [Parties -> Seq(Players)]
    <3>1. <<>> \in Seq(Players)
      OBVIOUS
    <3> QED
      BY <3>1 DEF After, ListsTyped
  <2>2. leader' \in [Parties -> Players \cup {None}] /\ inviteList' \in [Parties -> SUBSET Players]
    BY DEF After, ListsTyped
  <2>3. /\ party' \in [Players -> Parties \cup {None}]
        /\ invitePartyList' \in [Players -> SUBSET Parties]
    BY DEF After, MembersAgree, InvitedAgree
  <2> QED
    BY <2>1, <2>2, <2>3 DEF TypeOK
<1>3. MembersPaired'
  <2>1. SUFFICES ASSUME NEW x \in Players, NEW P \in Parties
                 PROVE  /\ party'[x] = P <=> (leader'[P] = x \/ x \in ToSet(memberList'[P]))
                        /\ x \in ToSet(memberList'[P]) => leader'[P] \notin {x, None}
    BY DEF MembersPaired, Members
  <2>2. CASE P \in dead
    <3>1. leader'[P] # x /\ x \notin ToSet(memberList'[P])
      BY <1>1, <2>2 DEF ToSet
    <3>2. party'[x] # P
      BY <1>1, <2>2 DEF MembersAgree
    <3> QED
      BY <3>1, <3>2
  <2>3. CASE P \notin dead
    <3>1. leader'[P] = ld[P] /\ memberList'[P] = mem[P]
      BY <1>1, <2>3
    <3>2. x \in ToSet(mem[P]) => ld[P] \notin {x, None}
      BY <2>3 DEF MembersAgree
    <3>3. pt[x] = P <=> (ld[P] = x \/ x \in ToSet(mem[P]))
      BY <2>3 DEF MembersAgree
    <3>4. ASSUME NEW Q \in dead, x = ld[Q] \/ x \in ToSet(mem[Q]) PROVE pt[x] # P
      BY <2>3, <3>4 DEF MembersAgree
    <3> QED
      BY <1>1, <3>1, <3>2, <3>3, <3>4
  <2> QED
    BY <2>2, <2>3
<1>4. InvitationsPaired'
  BY <1>1 DEF InvitationsPaired, InvitedAgree
<1>5. NoEmptyParty'
  BY <1>1 DEF NoEmptyParty, InUse, Allocated, Empty
<1>6. FormedTakesNoInvitation'
  <2>1. SUFFICES ASSUME NEW P \in Parties, memberList'[P] # <<>>,
                        NEW x \in ToSet(memberList'[P]) \cup {leader'[P]}
                 PROVE  invitePartyList'[x] = {}
    BY DEF FormedTakesNoInvitation, Members
  <2>2. P \notin dead /\ mem[P] # <<>> /\ x \in ToSet(mem[P]) \cup {ld[P]}
    BY <1>1, <2>1
  <2>3. invited[x] = {}
    BY <2>2 DEF Formed
  <2>4. x \in Players
    <3>1. ToSet(mem[P]) \subseteq Players
      BY DEF ListsTyped, ToSet
    <3>2. ld[P] \in Players
      BY <2>2 DEF InUse, Empty, ListsTyped
    <3> QED
      BY <2>2, <3>1, <3>2
  <2> QED
    BY <1>1, <2>3, <2>4
<1>7. GoneIsForgotten'
  <2>1. SUFFICES ASSUME NEW x \in Players \ online'
                 PROVE  party'[x] = None /\ invitePartyList'[x] = {}
    BY DEF GoneIsForgotten
  <2>2. pt[x] \in dead => \E P \in dead : x = ld[P] \/ x \in ToSet(mem[P])
    BY DEF MembersAgree
  <2> QED
    BY <1>1, <2>2 DEF Forgotten
<1>8. NobodyTwice'
  <2>1. Distinct(<<>>)
    BY DEF Distinct
  <2> QED
    BY <1>1, <2>1 DEF NobodyTwice, ListsTyped
<1> QED
  BY <1>2, <1>3, <1>4, <1>5, <1>6, <1>7, <1>8 DEF PartyInv, PartiesPaired
\* The invariant, in the words of AfterKeeps.
LEMMA InvariantAgrees ==
    ASSUME PartyInv
    PROVE  /\ ListsTyped(leader, memberList, inviteList)
           /\ MembersAgree(leader, memberList, party, {})
           /\ InvitedAgree(inviteList, invitePartyList)
           /\ InUse(leader, memberList, inviteList, {})
           /\ Formed(leader, memberList, invitePartyList, {})
           /\ online \in SUBSET Players
<1> USE DEF PartyInv, PartiesPaired
<1>1. ListsTyped(leader, memberList, inviteList) /\ online \in SUBSET Players
  BY DEF TypeOK, NobodyTwice, ListsTyped
<1>2. MembersAgree(leader, memberList, party, {})
  <2>1. party \in [Players -> Parties \cup {None}]
    BY DEF TypeOK
  <2>2. ASSUME NEW x \in Players, NEW P \in Parties
        PROVE  /\ party[x] = P <=> (leader[P] = x \/ x \in ToSet(memberList[P]))
               /\ x \in ToSet(memberList[P]) => leader[P] \notin {x, None}
    BY DEF MembersPaired, Members
  <2> QED
    BY <2>1, <2>2 DEF MembersAgree
<1>3. InvitedAgree(inviteList, invitePartyList)
  BY DEF TypeOK, InvitationsPaired, InvitedAgree
<1>4. InUse(leader, memberList, inviteList, {})
  BY DEF NoEmptyParty, InUse, Allocated
<1>5. Formed(leader, memberList, invitePartyList, {})
  BY DEF FormedTakesNoInvitation, Formed, Members
<1> QED
  BY <1>1, <1>2, <1>3, <1>4, <1>5

\* clearPartyInvitations of the players of cleared takes each of them off the
\* lists of the parties that invite it, and nobody else off any list.
LEMMA ClearingAgrees ==
    ASSUME PartyInv, NEW cleared \in SUBSET Players,
           NEW inv, NEW invited,
           inv = [Q \in Parties |-> inviteList[Q] \ {y \in cleared : Q \in invitePartyList[y]}],
           invited = [y \in Players |-> IF y \in cleared THEN {} ELSE invitePartyList[y]]
    PROVE  /\ inv \in [Parties -> SUBSET Players]
           /\ InvitedAgree(inv, invited)
           /\ \A Q \in Parties : inv[Q] = inviteList[Q] \ cleared
           /\ \A Q \in Parties : (\A y \in cleared : Q \notin invitePartyList[y])
                                   => inv[Q] = inviteList[Q]
BY DEF PartyInv, PartiesPaired, TypeOK, InvitationsPaired, InvitedAgree

-----------------------------------------------------------------------------
(* The handlers *)

LEMMA InviteStep ==
    ASSUME PartyInv, NEW x \in Players, NEW y \in Players, InviteToParty(x, y)
    PROVE  PartyInv'
<1> USE PartyAssumption DEF PartyAssumption
<1>1. /\ x \in online /\ y \in online /\ party[y] = None /\ UNCHANGED <<online, memberList>>
  BY DEF InviteToParty
<1>2. \A P \in Parties : leader[P] # y /\ y \notin ToSet(memberList[P])
  BY <1>1 DEF PartyInv, PartiesPaired, MembersPaired, Members
<1>3. ASSUME party[x] = None, NEW P \in Parties \ Allocated,
             leader' = [leader EXCEPT ![P] = x], inviteList' = [inviteList EXCEPT ![P] = {y}],
             party' = [party EXCEPT ![x] = P],
             invitePartyList' = [invitePartyList EXCEPT ![y] = @ \cup {P}]
      PROVE  PartyInv'
  <2>1. leader[P] = None /\ memberList[P] = <<>> /\ inviteList[P] = {}
    BY <1>3 DEF PartyInv, PartiesPaired, NoEmptyParty, Allocated, Empty
  <2>2. ToSet(memberList[P]) = {} /\ \A z \in Players : party[z] # P
    BY <2>1 DEF ToSet, PartyInv, PartiesPaired, MembersPaired, Members
  <2>3. TypeOK'
    BY <1>1, <1>3 DEF PartyInv, PartiesPaired, TypeOK
  <2>4. MembersPaired'
    BY <1>1, <1>3, <2>1, <2>2 DEF PartyInv, PartiesPaired, MembersPaired, Members, TypeOK
  <2>5. InvitationsPaired'
    BY <1>3, <2>1 DEF PartyInv, PartiesPaired, InvitationsPaired, TypeOK
  <2>6. NoEmptyParty'
    BY <1>1, <1>3, <2>1 DEF PartyInv, PartiesPaired, NoEmptyParty, Allocated, Empty, TypeOK
  <2>7. FormedTakesNoInvitation'
    BY <1>1, <1>2, <1>3, <2>1 DEF PartyInv, PartiesPaired, FormedTakesNoInvitation, Members, TypeOK
  <2>8. GoneIsForgotten' /\ NobodyTwice'
    BY <1>1, <1>3 DEF PartyInv, PartiesPaired, GoneIsForgotten, NobodyTwice, TypeOK
  <2> QED
    BY <2>3, <2>4, <2>5, <2>6, <2>7, <2>8 DEF PartyInv, PartiesPaired
<1>4. ASSUME NEW P, P = party[x], P # None, leader[P] = x, UNCHANGED <<leader, party>>,
             inviteList' = [inviteList EXCEPT ![P] = @ \cup {y}],
             invitePartyList' = [invitePartyList EXCEPT ![y] = @ \cup {P}]
      PROVE  PartyInv'
  <2>1. P \in Parties
    BY <1>4 DEF PartyInv, PartiesPaired, TypeOK
  <2>2. TypeOK'
    BY <1>1, <1>4, <2>1 DEF PartyInv, PartiesPaired, TypeOK
  <2>3. MembersPaired' /\ NobodyTwice'
    BY <1>1, <1>4 DEF PartyInv, PartiesPaired, MembersPaired, Members, NobodyTwice
  <2>4. InvitationsPaired'
    BY <1>4, <2>1 DEF PartyInv, PartiesPaired, InvitationsPaired, TypeOK
  <2>5. NoEmptyParty'
    BY <1>1, <1>4, <2>1 DEF PartyInv, PartiesPaired, NoEmptyParty, Allocated, Empty, TypeOK
  <2>6. FormedTakesNoInvitation'
    BY <1>1, <1>2, <1>4, <2>1 DEF PartyInv, PartiesPaired, FormedTakesNoInvitation, Members, TypeOK
  <2>7. GoneIsForgotten'
    BY <1>1, <1>4 DEF PartyInv, PartiesPaired, GoneIsForgotten, TypeOK
  <2> QED
    BY <2>2, <2>3, <2>4, <2>5, <2>6, <2>7 DEF PartyInv, PartiesPaired
<1> QED
  BY <1>3, <1>4 DEF InviteToParty
LEMMA RevokeStep ==
    ASSUME PartyInv, NEW x \in Players, NEW y \in Players, RevokePartyInvitation(x, y)
    PROVE  PartyInv'
<1> USE PartyAssumption DEF PartyAssumption
<1> DEFINE P == party[x]
           inv == [inviteList EXCEPT ![P] = @ \ {y}]
           invited == [invitePartyList EXCEPT ![y] = @ \ {P}]
           dead == IF Empty(memberList, inv, P) THEN {P} ELSE {}
<1>1. /\ After(leader, memberList, inv, party, invited, dead)
      /\ online' = online /\ P \in Parties
  BY DEF RevokePartyInvitation, IsInviting, PartyInv, PartiesPaired, TypeOK
<1>2. ListsTyped(leader, memberList, inv)
  BY <1>1, InvariantAgrees DEF ListsTyped
<1>3. MembersAgree(leader, memberList, party, dead)
  BY InvariantAgrees DEF MembersAgree
<1>4. InvitedAgree(inv, invited)
  BY <1>1, InvariantAgrees DEF InvitedAgree, ListsTyped
<1>5. InUse(leader, memberList, inv, dead)
  BY <1>1, InvariantAgrees DEF InUse, Empty, ListsTyped
<1>6. Formed(leader, memberList, invited, dead)
  <2>1. \A z \in Players : invited[z] \subseteq invitePartyList[z]
    BY InvariantAgrees DEF InvitedAgree
  <2>2. \A Q \in Parties : memberList[Q] # <<>> => leader[Q] \in Players /\ ToSet(memberList[Q]) \subseteq Players
    BY InvariantAgrees DEF InUse, Empty, ListsTyped, ToSet
  <2> QED
    BY <2>1, <2>2, InvariantAgrees DEF Formed
<1>7. Forgotten(party, invited, dead)
  BY <1>1 DEF Forgotten, PartyInv, PartiesPaired, GoneIsForgotten, TypeOK
<1>8. online' \in SUBSET Players /\ dead \in SUBSET Parties
  BY <1>1, InvariantAgrees
<1> QED
  BY <1>1, <1>2, <1>3, <1>4, <1>5, <1>6, <1>7, <1>8, AfterKeeps

LEMMA JoinStep ==
    ASSUME PartyInv, NEW x \in Players, NEW l \in Players, JoinParty(x, l)
    PROVE  PartyInv'
<1> USE PartyAssumption DEF PartyAssumption
<1> DEFINE P == party[l]
           cleared == ClearedByJoin(P, x)
           inv == [Q \in Parties |-> inviteList[Q] \ {y \in cleared : Q \in invitePartyList[y]}]
           mem == [memberList EXCEPT ![P] = Append(@, x)]
           pt == [party EXCEPT ![x] = P]
           invited == [y \in Players |-> IF y \in cleared THEN {} ELSE invitePartyList[y]]
           dead == {Q \in UNION {invitePartyList[y] : y \in cleared} : Empty(mem, inv, Q)}
<1>1. /\ After(leader, mem, inv, pt, invited, dead)
      /\ online' = online /\ P \in Parties /\ leader[P] = l /\ party[x] = None
      /\ x \in online
  BY DEF JoinParty, IsInviting, PartyInv, PartiesPaired, TypeOK
<1>2. cleared \in SUBSET Players /\ x \in cleared /\ (memberList[P] = <<>> => l \in cleared)
  BY <1>1 DEF ClearedByJoin
<1>3. /\ inv \in [Parties -> SUBSET Players] /\ InvitedAgree(inv, invited)
      /\ \A Q \in Parties : (\A y \in cleared : Q \notin invitePartyList[y]) => inv[Q] = inviteList[Q]
  BY <1>2, ClearingAgrees
<1>4. x \notin ToSet(memberList[P]) /\ l # x
  BY <1>1 DEF PartyInv, PartiesPaired, MembersPaired, Members
<1>5. /\ memberList[P] \in Seq(Players) /\ Distinct(memberList[P])
      /\ mem[P] = Append(memberList[P], x) /\ \A Q \in Parties \ {P} : mem[Q] = memberList[Q]
  BY <1>1 DEF PartyInv, PartiesPaired, TypeOK, NobodyTwice
<1>6. /\ mem[P] \in Seq(Players) /\ Distinct(mem[P])
      /\ ToSet(mem[P]) = ToSet(memberList[P]) \cup {x} /\ mem[P] # <<>>
  BY <1>4, <1>5, AppendKeeps
<1>7. mem \in [Parties -> Seq(Players)]
  BY <1>1, <1>5, <1>6 DEF PartyInv, PartiesPaired, TypeOK
<1>8. P \notin dead /\ dead \in SUBSET Parties
  <2>1. \A y \in cleared : invitePartyList[y] \subseteq Parties
    BY <1>2 DEF PartyInv, PartiesPaired, TypeOK
  <2> QED
    BY <1>6, <2>1 DEF Empty
<1> HIDE DEF mem, inv, invited, cleared
<1>9. ListsTyped(leader, mem, inv)
  BY <1>3, <1>5, <1>6, <1>7, InvariantAgrees DEF ListsTyped
<1>10. MembersAgree(leader, mem, pt, dead)
  <2>1. pt \in [Players -> Parties \cup {None}] /\ pt[x] = P /\ \A z \in Players \ {x} : pt[z] = party[z]
    BY <1>1 DEF PartyInv, PartiesPaired, TypeOK
  <2>2. \A Q \in Parties : leader[Q] # x /\ x \notin ToSet(memberList[Q])
    BY <1>1 DEF PartyInv, PartiesPaired, MembersPaired, Members
  <2>3. SUFFICES ASSUME NEW z \in Players, NEW Q \in Parties
                 PROVE  /\ pt[z] = Q <=> (leader[Q] = z \/ z \in ToSet(mem[Q]))
                        /\ z \in ToSet(mem[Q]) => leader[Q] \notin {z, None}
    BY <2>1 DEF MembersAgree
  <2>4. /\ party[z] = Q <=> (leader[Q] = z \/ z \in ToSet(memberList[Q]))
        /\ z \in ToSet(memberList[Q]) => leader[Q] \notin {z, None}
    BY InvariantAgrees DEF MembersAgree
  <2>5. CASE Q = P
    BY <1>1, <1>4, <1>6, <2>1, <2>4, <2>5
  <2>6. CASE Q # P
    BY <1>1, <1>5, <2>1, <2>2, <2>4, <2>6
  <2> QED
    BY <2>5, <2>6
<1>11. InUse(leader, mem, inv, dead)
  <2>1. SUFFICES ASSUME NEW Q \in Parties \ dead PROVE leader[Q] # None <=> ~Empty(mem, inv, Q)
    BY DEF InUse
  <2>2. CASE Q = P
    BY <1>1, <1>6, <2>2 DEF Empty
  <2>3. CASE Q # P /\ \E y \in cleared : Q \in invitePartyList[y]
    <3>1. ~Empty(mem, inv, Q)
      BY <2>1, <2>3
    <3>2. ~Empty(memberList, inviteList, Q)
      BY <1>2, <2>3 DEF PartyInv, PartiesPaired, InvitationsPaired, Empty
    <3> QED
      BY <3>1, <3>2, InvariantAgrees DEF InUse
  <2>4. CASE Q # P /\ \A y \in cleared : Q \notin invitePartyList[y]
    BY <1>3, <1>5, <2>4, InvariantAgrees DEF InUse, Empty
  <2> QED
    BY <2>2, <2>3, <2>4
<1>12. Formed(leader, mem, invited, dead)
  <2>1. SUFFICES ASSUME NEW Q \in Parties \ dead, mem[Q] # <<>>,
                        NEW y \in ToSet(mem[Q]) \cup {leader[Q]}
                 PROVE  invited[y] = {}
    BY DEF Formed
  <2>2. y \in Players
    BY <1>9, <1>11, <2>1 DEF ListsTyped, InUse, Empty, ToSet
  <2>3. y \in cleared \/ invitePartyList[y] = {}
    <3>1. CASE Q # P
      BY <1>5, <2>1, <3>1, InvariantAgrees DEF Formed
    <3>2. CASE Q = P /\ memberList[P] # <<>>
      BY <1>1, <1>2, <1>6, <2>1, <3>2, InvariantAgrees DEF Formed
    <3>3. CASE Q = P /\ memberList[P] = <<>>
      <4>1. ToSet(memberList[P]) = {}
        BY <3>3 DEF ToSet
      <4> QED
        BY <1>1, <1>2, <1>6, <2>1, <3>3, <4>1
    <3> QED
      BY <3>1, <3>2, <3>3
  <2> QED
    BY <2>2, <2>3 DEF invited
<1>13. Forgotten(pt, invited, dead)
  BY <1>1, <1>2 DEF Forgotten, invited, PartyInv, PartiesPaired, GoneIsForgotten, TypeOK
<1> QED
  BY <1>1, <1>3, <1>8, <1>9, <1>10, <1>11, <1>12, <1>13, InvariantAgrees, AfterKeeps
LEMMA PassStep ==
    ASSUME PartyInv, NEW x \in Players, NEW y \in Players, PassPartyLeadership(x, y)
    PROVE  PartyInv'
<1> USE PartyAssumption DEF PartyAssumption
<1> DEFINE P == party[x]
<1>1. /\ P \in Parties /\ leader[P] = x /\ party[y] = P /\ x # y
      /\ leader' = [leader EXCEPT ![P] = y]
      /\ memberList' = [memberList EXCEPT ![P] = <<x>> \o EraseFirst(@, y)]
      /\ UNCHANGED <<online, inviteList, party, invitePartyList>>
  BY DEF PassPartyLeadership, PartyInv, PartiesPaired, TypeOK
<1>2. /\ memberList[P] \in Seq(Players) /\ Distinct(memberList[P])
      /\ x \notin ToSet(memberList[P]) /\ y \in ToSet(memberList[P])
  BY <1>1 DEF PartyInv, PartiesPaired, TypeOK, NobodyTwice, MembersPaired, Members
<1> DEFINE rest == EraseFirst(memberList[P], y)
<1>3. /\ rest \in Seq(Players) /\ Distinct(rest)
      /\ ToSet(rest) = ToSet(memberList[P]) \ {y}
  BY <1>2, EraseFirstKeeps
<1> HIDE DEF rest
<1>4. /\ <<x>> \o rest \in Seq(Players) /\ Distinct(<<x>> \o rest)
      /\ ToSet(<<x>> \o rest) = (ToSet(memberList[P]) \ {y}) \cup {x}
      /\ <<x>> \o rest # <<>>
  <2>1. x \notin ToSet(rest)
    BY <1>2, <1>3
  <2> QED
    BY <1>3, <2>1, InsertKeeps
<1>5. /\ memberList'[P] = <<x>> \o rest /\ leader'[P] = y
      /\ \A Q \in Parties \ {P} : memberList'[Q] = memberList[Q] /\ leader'[Q] = leader[Q]
  BY <1>1 DEF rest, PartyInv, PartiesPaired, TypeOK
<1>6. TypeOK'
  <2>1. memberList' \in [Parties -> Seq(Players)]
    BY <1>1, <1>4, <1>5 DEF PartyInv, PartiesPaired, TypeOK
  <2> QED
    BY <1>1, <2>1 DEF PartyInv, PartiesPaired, TypeOK
<1>7. MembersPaired'
  <2>1. SUFFICES ASSUME NEW z \in Players, NEW Q \in Parties
                 PROVE  /\ party[z] = Q <=> (leader'[Q] = z \/ z \in ToSet(memberList'[Q]))
                        /\ z \in ToSet(memberList'[Q]) => leader'[Q] \notin {z, None}
    BY <1>1 DEF MembersPaired, Members
  <2>2. /\ party[z] = Q <=> (leader[Q] = z \/ z \in ToSet(memberList[Q]))
        /\ z \in ToSet(memberList[Q]) => leader[Q] \notin {z, None}
    BY InvariantAgrees DEF MembersAgree
  <2>3. CASE Q = P
    <3>1. ToSet(memberList'[P]) = (ToSet(memberList[P]) \ {y}) \cup {x} /\ leader'[P] = y
      BY <1>4, <1>5
    <3>2. /\ party[z] = P <=> (x = z \/ z \in ToSet(memberList[P]))
          /\ y \in ToSet(memberList[P]) /\ x # y /\ y # None
      BY <1>1, <1>2, <2>2, <2>3
    <3> QED
      BY <2>3, <3>1, <3>2
  <2>4. CASE Q # P
    BY <1>5, <2>2, <2>4
  <2> QED
    BY <2>3, <2>4
<1>8. InvitationsPaired' /\ GoneIsForgotten'
  BY <1>1 DEF PartyInv, PartiesPaired, InvitationsPaired, GoneIsForgotten
<1>9. NoEmptyParty'
  BY <1>1, <1>4, <1>5 DEF PartyInv, PartiesPaired, NoEmptyParty, Allocated, Empty
<1>10. FormedTakesNoInvitation'
  <2>1. memberList[P] # <<>>
    BY <1>2 DEF ToSet
  <2>2. SUFFICES ASSUME NEW Q \in Parties, memberList'[Q] # <<>>,
                        NEW z \in ToSet(memberList'[Q]) \cup {leader'[Q]}
                 PROVE  invitePartyList[z] = {}
    BY <1>1 DEF FormedTakesNoInvitation, Members
  <2>3. memberList[Q] # <<>> /\ z \in ToSet(memberList[Q]) \cup {leader[Q]}
    <3>1. CASE Q = P
      <4>1. ToSet(memberList'[P]) = (ToSet(memberList[P]) \ {y}) \cup {x} /\ leader'[P] = y
        BY <1>4, <1>5
      <4>2. y \in ToSet(memberList[P]) /\ leader[P] = x
        BY <1>1, <1>2
      <4> QED
        BY <3>1, <4>1, <4>2, <2>1, <2>2
    <3>2. CASE Q # P
      BY <3>2, <1>5, <2>2
    <3> QED
      BY <3>1, <3>2
  <2> QED
    BY <2>3, InvariantAgrees DEF Formed
<1>11. NobodyTwice'
  BY <1>4, <1>5 DEF PartyInv, NobodyTwice
<1> QED
  BY <1>6, <1>7, <1>8, <1>9, <1>10, <1>11 DEF PartyInv, PartiesPaired

\* Whoever leaves, the party that stays behind has a leader who is not among
\* its members, nobody new, and the one who left nowhere; a party that has
\* nobody left to lead it disbands.
LEMMA LeavesKeeps ==
    ASSUME PartyInv, NEW x \in Players, party[x] # None,
           NEW inv, NEW invited, NEW dead \in SUBSET Parties, party[x] \notin dead,
           inv \in [Parties -> SUBSET Players], InvitedAgree(inv, invited),
           \A y \in Players : invited[y] \subseteq invitePartyList[y],
           InUse(leader, memberList, inv, dead \cup {party[x]}),
           Forgotten([party EXCEPT ![x] = None], invited, dead),
           online' \in SUBSET Players,
           Leaves(inv, invited, dead, x)
    PROVE  PartyInv'
<1> USE PartyAssumption DEF PartyAssumption
<1> DEFINE P == party[x]
           ld == [leader EXCEPT ![P] = NewLeader(inv, P, x)]
           mem == [memberList EXCEPT ![P] = Remaining(inv, P, x)]
           pt == [party EXCEPT ![x] = None]
           gone == IF MissingLeader(inv, P, x) \/ Empty(mem, inv, P) THEN dead \cup {P} ELSE dead
<1>1. After(ld, mem, inv, pt, invited, gone) /\ P \in Parties /\ gone \in SUBSET Parties
  BY DEF Leaves, PartyInv, PartiesPaired, TypeOK
<1>2. /\ memberList[P] \in Seq(Players) /\ Distinct(memberList[P])
      /\ leader[P] \in Players /\ leader[P] \notin ToSet(memberList[P])
      /\ leader[P] = x \/ x \in ToSet(memberList[P])
      /\ memberList[P] # <<>> => Head(memberList[P]) \in ToSet(memberList[P])
  <2>1. leader[P] # None
    BY <1>1, InvariantAgrees DEF MembersAgree, InUse, Empty, ToSet
  <2>2. memberList[P] # <<>> => Head(memberList[P]) \in ToSet(memberList[P])
    BY <1>1, InvariantAgrees, TailKeeps DEF ListsTyped
  <2> QED
    BY <1>1, <2>1, <2>2, InvariantAgrees DEF ListsTyped, MembersAgree
<1> DEFINE new == NewLeader(inv, P, x)
           rest == Remaining(inv, P, x)
           before == {leader[P]} \cup ToSet(memberList[P])
           absentees == MissingLeader(inv, P, x)
<1>3. /\ rest \in Seq(Players) /\ Distinct(rest) /\ new \in Players /\ new \notin ToSet(rest)
      /\ {new} \cup ToSet(rest) = IF absentees THEN before ELSE before \ {x}
      /\ x \in before
      /\ ~absentees => memberList[P] # <<>>
  <2>1. CASE leader[P] = x /\ ~absentees
    <3>1. memberList[P] # <<>>
      BY <2>1 DEF MissingLeader
    <3>2. new = Head(memberList[P]) /\ new # x /\ rest = Tail(memberList[P])
      BY <1>2, <2>1, <3>1 DEF NewLeader, Remaining
    <3>3. /\ Head(memberList[P]) \in Players /\ Head(memberList[P]) \in ToSet(memberList[P])
          /\ rest \in Seq(Players) /\ Distinct(rest)
          /\ ToSet(rest) = ToSet(memberList[P]) \ {new}
      BY <1>2, <3>1, <3>2, TailKeeps
    <3> QED
      BY <1>2, <2>1, <3>1, <3>2, <3>3
  <2>2. CASE leader[P] # x \/ absentees
    <3>1. new = leader[P] /\ rest = EraseFirst(memberList[P], x)
      BY <2>2 DEF NewLeader, Remaining
    <3>2. /\ rest \in Seq(Players) /\ Distinct(rest)
          /\ ToSet(rest) = ToSet(memberList[P]) \ {x}
      BY <1>2, <3>1, EraseFirstKeeps
    <3>3. absentees => leader[P] = x
      BY DEF MissingLeader
    <3>4. ~absentees => memberList[P] # <<>>
      BY <1>2, <2>2 DEF ToSet
    <3> QED
      BY <1>2, <2>2, <3>1, <3>2, <3>3, <3>4
  <2> QED
    BY <2>1, <2>2
<1>4. /\ ld[P] = new /\ mem[P] = rest
      /\ \A Q \in Parties \ {P} : ld[Q] = leader[Q] /\ mem[Q] = memberList[Q]
      /\ ld \in [Parties -> Players \cup {None}] /\ mem \in [Parties -> Seq(Players)]
  BY <1>1, <1>3 DEF PartyInv, PartiesPaired, TypeOK
<1>5. pt[x] = None /\ (\A z \in Players \ {x} : pt[z] = party[z])
      /\ pt \in [Players -> Parties \cup {None}]
  BY DEF PartyInv, PartiesPaired, TypeOK
<1>6. (absentees \/ Empty(mem, inv, P)) <=> P \in gone
  OBVIOUS
<1>7. dead \subseteq gone /\ gone \subseteq dead \cup {P}
  OBVIOUS
<1> HIDE DEF ld, mem, pt, gone, new, rest, absentees
<1>8. ListsTyped(ld, mem, inv)
  BY <1>3, <1>4, InvariantAgrees DEF ListsTyped
<1>9. MembersAgree(ld, mem, pt, gone)
  <2>1. SUFFICES ASSUME NEW z \in Players, NEW Q \in Parties
                 PROVE  /\ pt[z] = Q => ld[Q] = z \/ z \in ToSet(mem[Q])
                        /\ ld[Q] = z \/ z \in ToSet(mem[Q]) => pt[z] = Q \/ (Q \in gone /\ pt[z] = None)
                        /\ Q \notin gone /\ z \in ToSet(mem[Q]) => ld[Q] \notin {z, None}
    BY <1>5 DEF MembersAgree
  <2>2. /\ party[z] = Q <=> (leader[Q] = z \/ z \in ToSet(memberList[Q]))
        /\ z \in ToSet(memberList[Q]) => leader[Q] \notin {z, None}
    BY InvariantAgrees DEF MembersAgree
  <2>3. CASE Q # P
    BY <1>1, <1>4, <1>5, <2>2, <2>3
  <2>4. CASE Q = P
    <3>1. pt[z] = P => z # x /\ z \in before
      BY <1>1, <1>5, <2>2, <2>4
    <3>2. z \in before /\ z # x => pt[z] = P
      BY <1>5, <2>2, <2>4
    <3> QED
      BY <1>3, <1>4, <1>5, <1>6, <2>4, <3>1, <3>2
  <2> QED
    BY <2>3, <2>4
<1>10. InUse(ld, mem, inv, gone)
  <2>1. SUFFICES ASSUME NEW Q \in Parties \ gone PROVE ld[Q] # None <=> ~Empty(mem, inv, Q)
    BY DEF InUse
  <2>2. CASE Q = P
    BY <1>3, <1>4, <1>6, <2>1, <2>2
  <2>3. CASE Q # P
    BY <1>4, <1>7, <2>1, <2>3 DEF InUse, Empty
  <2> QED
    BY <2>2, <2>3
<1>11. Formed(ld, mem, invited, gone)
  <2>1. SUFFICES ASSUME NEW Q \in Parties \ gone, mem[Q] # <<>>,
                        NEW y \in ToSet(mem[Q]) \cup {ld[Q]}
                 PROVE  invited[y] = {}
    BY DEF Formed
  <2>2. y \in Players
    BY <1>8, <1>10, <2>1 DEF ListsTyped, InUse, Empty, ToSet
  <2>3. memberList[Q] # <<>> /\ y \in ToSet(memberList[Q]) \cup {leader[Q]}
    BY <1>3, <1>4, <1>6, <2>1
  <2>4. invitePartyList[y] = {}
    BY <2>3, InvariantAgrees DEF Formed
  <2> QED
    BY <2>2, <2>4
<1>12. Forgotten(pt, invited, gone)
  BY <1>7 DEF Forgotten, pt
<1> QED
  BY <1>1, <1>8, <1>9, <1>10, <1>11, <1>12, AfterKeeps
LEMMA LeaveStep == ASSUME PartyInv, NEW x \in Players, LeaveParty(x) PROVE PartyInv'
<1>1. /\ party[x] # None /\ online' = online
      /\ Leaves(inviteList, invitePartyList, {}, x)
  BY DEF LeaveParty
<1>2. Forgotten([party EXCEPT ![x] = None], invitePartyList, {})
  BY <1>1 DEF Forgotten, PartyInv, PartiesPaired, GoneIsForgotten, TypeOK
<1>3. InUse(leader, memberList, inviteList, {} \cup {party[x]})
  BY InvariantAgrees DEF InUse
<1>4. /\ {} \in SUBSET Parties /\ party[x] \notin {} /\ online' \in SUBSET Players
      /\ inviteList \in [Parties -> SUBSET Players]
      /\ \A y \in Players : invitePartyList[y] \subseteq invitePartyList[y]
  BY <1>1, InvariantAgrees DEF ListsTyped
<1> QED
  BY <1>1, <1>2, <1>3, <1>4, InvariantAgrees, LeavesKeeps

LEMMA LoginStep == ASSUME PartyInv, NEW x \in Players, Login(x) PROVE PartyInv'
<1>1. online' = online \cup {x} /\ UNCHANGED partyVars
  BY DEF Login
<1>2. online \subseteq online' /\ online' \in SUBSET Players
  BY <1>1 DEF PartyInv, PartiesPaired, TypeOK
<1> QED
  BY <1>1, <1>2 DEF partyVars, PartyInv, PartiesPaired, TypeOK, MembersPaired, Members,
     InvitationsPaired, NoEmptyParty, Allocated, Empty, FormedTakesNoInvitation, GoneIsForgotten,
     NobodyTwice

\* The invitations to the player go first, and with them the party it leads if
\* that was all there was to it, then its own membership.
LEMMA LogoutStep == ASSUME PartyInv, NEW x \in Players, Logout(x) PROVE PartyInv'
<1> USE PartyAssumption DEF PartyAssumption
<1> DEFINE inv == Uninvited(inviteList, x)
           dead == EmptiedBy(inviteList, x)
           invited == [invitePartyList EXCEPT ![x] = {}]
<1>1. /\ online' = online \ {x}
      /\ IF party[x] # None /\ party[x] \notin dead
         THEN Leaves(inv, invited, dead, x)
         ELSE After(leader, memberList, inv, party, invited, dead)
  BY DEF Logout
<1>2. /\ inv \in [Parties -> SUBSET Players] /\ invited \in [Players -> SUBSET Parties]
      /\ \A P \in Parties : inv[P] = inviteList[P] \ {x}
      /\ \A P \in Parties : P \notin invitePartyList[x] => inv[P] = inviteList[P]
      /\ \A y \in Players : invited[y] = IF y = x THEN {} ELSE invitePartyList[y]
  BY DEF Uninvited, PartyInv, PartiesPaired, TypeOK, InvitationsPaired
<1>3. /\ dead \in SUBSET Parties
      /\ \A P \in Parties : P \in dead <=> P \in invitePartyList[x] /\ Empty(memberList, inv, P)
  BY DEF EmptiedBy, PartyInv, PartiesPaired, TypeOK
<1> HIDE DEF inv, dead, invited
<1>4. InvitedAgree(inv, invited)
  BY <1>2, InvariantAgrees DEF InvitedAgree
<1>5. InUse(leader, memberList, inv, dead)
  <2>1. SUFFICES ASSUME NEW P \in Parties \ dead
                 PROVE  leader[P] # None <=> ~Empty(memberList, inv, P)
    BY DEF InUse
  <2>2. CASE P \in invitePartyList[x]
    <3>1. ~Empty(memberList, inv, P) /\ ~Empty(memberList, inviteList, P)
      BY <1>3, <2>1, <2>2, InvariantAgrees DEF InvitedAgree, Empty
    <3> QED
      BY <3>1, InvariantAgrees DEF InUse
  <2>3. CASE P \notin invitePartyList[x]
    BY <1>2, <2>3, InvariantAgrees DEF InUse, Empty
  <2> QED
    BY <2>2, <2>3
<1>6. ASSUME NEW y \in Players \ online', y # x PROVE party[y] = None /\ invited[y] = {}
  BY <1>1, <1>2, <1>6 DEF PartyInv, PartiesPaired, GoneIsForgotten
<1>7. online' \in SUBSET Players
  BY <1>1, InvariantAgrees
<1>8. CASE party[x] # None /\ party[x] \notin dead
  <2>1. Forgotten([party EXCEPT ![x] = None], invited, dead)
    BY <1>2, <1>6 DEF Forgotten, PartyInv, PartiesPaired, TypeOK
  <2>2. InUse(leader, memberList, inv, dead \cup {party[x]})
    BY <1>5 DEF InUse
  <2>3. \A y \in Players : invited[y] \subseteq invitePartyList[y]
    BY <1>2
  <2> QED
    BY <1>1, <1>2, <1>3, <1>4, <1>7, <1>8, <2>1, <2>2, <2>3, LeavesKeeps
<1>9. CASE ~(party[x] # None /\ party[x] \notin dead)
  <2>1. After(leader, memberList, inv, party, invited, dead)
    BY <1>1, <1>9
  <2>2. Forgotten(party, invited, dead)
    BY <1>2, <1>6, <1>9 DEF Forgotten
  <2>3. ListsTyped(leader, memberList, inv)
    BY <1>2, InvariantAgrees DEF ListsTyped
  <2>4. MembersAgree(leader, memberList, party, dead)
    BY InvariantAgrees DEF MembersAgree
  <2>5. Formed(leader, memberList, invited, dead)
    <3>1. SUFFICES ASSUME NEW P \in Parties \ dead, memberList[P] # <<>>,
                          NEW y \in ToSet(memberList[P]) \cup {leader[P]}
                   PROVE  invited[y] = {}
      BY DEF Formed
    <3>2. y \in Players
      BY <1>5, <2>3, <3>1 DEF ListsTyped, InUse, Empty, ToSet
    <3>3. invitePartyList[y] = {}
      BY <3>1, InvariantAgrees DEF Formed
    <3> QED
      BY <1>2, <3>2, <3>3
  <2> QED
    BY <1>3, <1>4, <1>5, <1>7, <2>1, <2>2, <2>3, <2>4, <2>5, AfterKeeps
<1> QED
  BY <1>8, <1>9

\* Every step of a party keeps its invariant.
LEMMA PartyInvStep == PartyInv /\ [Next]_vars => PartyInv'
<1> SUFFICES ASSUME PartyInv, [Next]_vars PROVE PartyInv'
  OBVIOUS
<1>1. CASE UNCHANGED vars
  BY <1>1 DEF vars, partyVars, PartyInv, PartiesPaired, TypeOK, MembersPaired, Members,
     InvitationsPaired, NoEmptyParty, Allocated, Empty, FormedTakesNoInvitation, GoneIsForgotten,
     NobodyTwice
<1>2. CASE Next
  BY <1>2, InviteStep, RevokeStep, JoinStep, PassStep, LeaveStep, LoginStep, LogoutStep DEF Next
<1> QED
  BY <1>1, <1>2
-----------------------------------------------------------------------------
(* What the steps of a party never do *)

\* No handler moves a player from one party to another, and none gives members
\* to a party that it creates.
ThroughNone ==
    /\ \A x \in Players : party'[x] = party[x] \/ party[x] = None \/ party'[x] = None
    /\ \A P \in Parties : leader[P] = None => memberList'[P] = <<>>

LEMMA AfterThroughNone ==
    ASSUME NEW ld, NEW mem, NEW inv, NEW pt, NEW invited, NEW dead,
           After(ld, mem, inv, pt, invited, dead),
           \A x \in Players : pt[x] = party[x] \/ party[x] = None \/ pt[x] = None,
           \A P \in Parties : leader[P] = None => mem[P] = <<>>
    PROVE  ThroughNone
BY DEF After, ThroughNone

LEMMA PartyThroughNone == ASSUME PartyInv, [Next]_vars PROVE ThroughNone
<1> USE PartyAssumption DEF PartyAssumption
<1>1. \A P \in Parties : leader[P] = None => memberList[P] = <<>>
  BY DEF PartyInv, PartiesPaired, NoEmptyParty, Allocated, Empty
<1>2. \A x \in Players, P \in Parties : party[x] = P => leader[P] # None
  <2>1. SUFFICES ASSUME NEW x \in Players, party[x] \in Parties, leader[party[x]] = None PROVE FALSE
    OBVIOUS
  <2>2. memberList[party[x]] = <<>>
    BY <1>1, <2>1
  <2> QED
    BY <2>1, <2>2, InvariantAgrees DEF MembersAgree, ToSet
<1>3. ASSUME NEW x \in Players, NEW y \in Players, InviteToParty(x, y) PROVE ThroughNone
  BY <1>1, <1>3 DEF InviteToParty, ThroughNone, PartyInv, PartiesPaired, TypeOK
<1>4. ASSUME NEW x \in Players, NEW l \in Players, JoinParty(x, l) PROVE ThroughNone
  <2> DEFINE P == party[l]
             cleared == ClearedByJoin(P, x)
             inv == [Q \in Parties |-> inviteList[Q] \ {y \in cleared : Q \in invitePartyList[y]}]
             mem == [memberList EXCEPT ![P] = Append(@, x)]
             pt == [party EXCEPT ![x] = P]
             invited == [y \in Players |-> IF y \in cleared THEN {} ELSE invitePartyList[y]]
             dead == {Q \in UNION {invitePartyList[y] : y \in cleared} : Empty(mem, inv, Q)}
  <2>1. /\ After(leader, mem, inv, pt, invited, dead)
        /\ P \in Parties /\ leader[P] = l /\ party[x] = None
    BY <1>4 DEF JoinParty, IsInviting, PartyInv, PartiesPaired, TypeOK
  <2>2. \A z \in Players : pt[z] = party[z] \/ party[z] = None
    BY <2>1 DEF PartyInv, PartiesPaired, TypeOK
  <2>3. \A Q \in Parties : leader[Q] = None => mem[Q] = <<>>
    BY <1>1, <2>1 DEF PartyInv, PartiesPaired, TypeOK
  <2> HIDE DEF cleared, inv, mem, pt, invited, dead
  <2> QED
    BY <2>1, <2>2, <2>3, AfterThroughNone
<1>5. ASSUME NEW x \in Players, NEW y \in Players, RevokePartyInvitation(x, y) PROVE ThroughNone
  <2>1. PICK inv, invited, dead : After(leader, memberList, inv, party, invited, dead)
    BY <1>5 DEF RevokePartyInvitation
  <2> QED
    BY <1>1, <2>1, AfterThroughNone
<1>6. ASSUME NEW x \in Players, NEW y \in Players, PassPartyLeadership(x, y) PROVE ThroughNone
  BY <1>1, <1>2, <1>6 DEF PassPartyLeadership, ThroughNone, PartyInv, PartiesPaired, TypeOK
<1>7. ASSUME NEW x \in Players, party[x] # None, NEW inv, NEW invited, NEW dead,
             Leaves(inv, invited, dead, x)
      PROVE  ThroughNone
  <2> DEFINE P == party[x]
             ld == [leader EXCEPT ![P] = NewLeader(inv, P, x)]
             mem == [memberList EXCEPT ![P] = Remaining(inv, P, x)]
             pt == [party EXCEPT ![x] = None]
             gone == IF MissingLeader(inv, P, x) \/ Empty(mem, inv, P) THEN dead \cup {P} ELSE dead
  <2>1. After(ld, mem, inv, pt, invited, gone) /\ P \in Parties
    BY <1>7 DEF Leaves, PartyInv, PartiesPaired, TypeOK
  <2>2. \A z \in Players : pt[z] = party[z] \/ pt[z] = None
    BY DEF PartyInv, PartiesPaired, TypeOK
  <2>3. \A Q \in Parties : leader[Q] = None => mem[Q] = <<>>
    BY <1>1, <1>2, <2>1 DEF PartyInv, PartiesPaired, TypeOK
  <2> HIDE DEF ld, mem, pt, gone
  <2> QED
    BY <2>1, <2>2, <2>3, AfterThroughNone
<1>8. ASSUME NEW x \in Players, Logout(x) PROVE ThroughNone
  <2>1. CASE party[x] # None /\ party[x] \notin EmptiedBy(inviteList, x)
    BY <1>7, <1>8, <2>1 DEF Logout
  <2>2. CASE ~(party[x] # None /\ party[x] \notin EmptiedBy(inviteList, x))
    <3>1. After(leader, memberList, Uninvited(inviteList, x), party,
                [invitePartyList EXCEPT ![x] = {}], EmptiedBy(inviteList, x))
      BY <1>8, <2>2 DEF Logout
    <3> QED
      BY <1>1, <3>1, AfterThroughNone
  <2> QED
    BY <2>1, <2>2
<1>9. ASSUME NEW x \in Players, LeaveParty(x) PROVE ThroughNone
  BY <1>7, <1>9 DEF LeaveParty
<1>10. CASE UNCHANGED partyVars
  BY <1>1, <1>10 DEF partyVars, ThroughNone
<1> QED
  BY <1>3, <1>4, <1>5, <1>6, <1>8, <1>9, <1>10 DEF Next, Login, vars
-----------------------------------------------------------------------------
(* Channels *)

USE ChatAssumption DEF ChatAssumption, Keys

LEMMA ErasedType ==
    ASSUME ChatTypeOK, NEW S \in SUBSET Slots, Erased(S)
    PROVE  channels' \in SUBSET Keys /\ owner' \in [Slots -> Players \cup {None}]
BY DEF ChatTypeOK, Erased

\* removeUserFromAllChannels leaves no trace of the player in any channel, and
\* the private channels of others as they were but for it.
LEMMA RemoveUserKeeps ==
    ASSUME ChannelReaders, NEW x \in Players, RemoveUserFromAllChannels(x)
    PROVE  /\ channels' \in SUBSET Keys /\ users' \in [Keys -> SUBSET Players]
           /\ owner' \in [Slots -> Players \cup {None}] /\ invites' \in [Slots -> SUBSET Players]
           /\ \A c \in Keys : users'[c] \subseteq users[c] \ {x}
           /\ \A c \in Slots : invites'[c] \subseteq invites[c] \ {x}
           /\ PrivateChannelsKept'
<1> USE PartyAssumption DEF PartyAssumption
<1>1. /\ users \in [Keys -> SUBSET Players] /\ invites \in [Slots -> SUBSET Players]
      /\ owner \in [Slots -> Players \cup {None}]
  BY DEF ChannelReaders, ChatTypeOK
<1>2. OwnedBy(x) \in SUBSET Slots
  BY DEF OwnedBy
<1>3. channels' \in SUBSET Keys /\ owner' \in [Slots -> Players \cup {None}]
  BY <1>2, ErasedType DEF RemoveUserFromAllChannels, ChannelReaders
<1>4. /\ users' = [c \in Keys |-> IF c \in OwnedBy(x) THEN {} ELSE users[c] \ {x}]
      /\ invites' = [c \in Slots |-> IF c \in OwnedBy(x) THEN {} ELSE invites[c] \ {x}]
      /\ owner' = [c \in Slots |-> IF c \in OwnedBy(x) THEN None ELSE owner[c]]
      /\ channels' = channels \ OwnedBy(x)
  BY DEF RemoveUserFromAllChannels, RemoveUser, Erased
<1>5. /\ users' \in [Keys -> SUBSET Players] /\ invites' \in [Slots -> SUBSET Players]
      /\ \A c \in Keys : users'[c] \subseteq users[c] \ {x}
      /\ \A c \in Slots : invites'[c] \subseteq invites[c] \ {x}
  BY <1>1, <1>4
<1>6. PrivateChannelsKept'
  <2>1. ASSUME NEW c \in Slots
        PROVE  IF c \in channels'
               THEN owner'[c] \in users'[c] /\ users'[c] \subseteq {owner'[c]} \cup invites'[c]
               ELSE owner'[c] = None /\ users'[c] = {} /\ invites'[c] = {}
    <3>1. IF c \in channels
          THEN owner[c] \in users[c] /\ users[c] \subseteq {owner[c]} \cup invites[c]
          ELSE owner[c] = None /\ users[c] = {} /\ invites[c] = {}
      BY DEF ChannelReaders, PrivateChannelsKept
    <3>2. CASE owner[c] = x
      BY <1>4, <3>2 DEF OwnedBy
    <3>3. CASE owner[c] # x
      <4>1. /\ c \in channels' <=> c \in channels
            /\ owner'[c] = owner[c] /\ users'[c] = users[c] \ {x} /\ invites'[c] = invites[c] \ {x}
        BY <1>4, <3>3 DEF OwnedBy
      <4> QED
        BY <3>1, <3>3, <4>1
    <3> QED
      BY <3>2, <3>3
  <2>2. \A c, d \in Slots : owner'[c] = owner'[d] /\ owner'[c] # None => c = d
    BY <1>4 DEF ChannelReaders, PrivateChannelsKept
  <2> QED
    BY <2>1, <2>2 DEF PrivateChannelsKept
<1> QED
  BY <1>3, <1>5, <1>6

\* A step that leaves the game, the parties and the guilds alone only has to
\* keep what is said of users and of private channels.
LEMMA ChannelStep ==
    ASSUME ChannelReaders, UNCHANGED <<vars, guilds, membersOnline>>,
           channels' \in SUBSET Keys, users' \in [Keys -> SUBSET Players],
           owner' \in [Slots -> Players \cup {None}], invites' \in [Slots -> SUBSET Players],
           stayed' \in [Parties -> SUBSET Players],
           \A c \in Keys : \A x \in users'[c] \ users[c] :
               x \in online /\ (c \in Parties => party[x] = c) /\ (c \in Guilds => guildIn[x] = c),
           \A P \in Parties : stayed[P] \cap users'[P] \subseteq stayed'[P],
           \A c \in Slots : invites'[c] \subseteq online,
           PrivateChannelsKept'
    PROVE  ChannelReaders'
<1>1. ChatTypeOK'
  BY DEF ChannelReaders, ChatTypeOK
<1>2. GuildsLive'
  BY DEF ChannelReaders, GuildsLive, vars
<1>3. \A c \in Keys : users'[c] \subseteq online'
  BY DEF ChannelReaders, vars
<1>4. \A G \in Guilds : \A x \in users'[G] : guildIn[x] = G
  BY DEF ChannelReaders
<1>5. ASSUME NEW P \in Parties, NEW x \in users'[P] PROVE party'[x] = P \/ x \in stayed'[P]
  <2>1. P \in Keys /\ party' = party
    BY DEF vars, partyVars
  <2>2. CASE x \in users[P]
    BY <1>5, <2>1, <2>2 DEF ChannelReaders
  <2>3. CASE x \notin users[P]
    BY <1>5, <2>1, <2>3
  <2> QED
    BY <2>2, <2>3
<1>6. \A c \in Slots : invites'[c] \subseteq online'
  BY DEF vars
<1> QED
  BY <1>1, <1>2, <1>3, <1>4, <1>5, <1>6 DEF ChannelReaders

\* Every handler of the chat keeps what is said of channels.
LEMMA ChatHandlers ==
    ASSUME PartyInv, ChannelReaders, ChatNext
    PROVE  ChannelReaders'
<1> USE PartyAssumption DEF PartyAssumption
<1>1. /\ channels \in SUBSET Keys /\ users \in [Keys -> SUBSET Players]
      /\ owner \in [Slots -> Players \cup {None}] /\ invites \in [Slots -> SUBSET Players]
      /\ stayed \in [Parties -> SUBSET Players] /\ online \in SUBSET Players
      /\ \A c \in Slots : invites[c] \subseteq online
  BY InvariantAgrees DEF ChannelReaders, ChatTypeOK
<1>2. CASE Reload
  <2>1. /\ users' \in [Keys -> SUBSET Players] /\ \A c \in Keys : users'[c] \subseteq users[c]
        /\ \A c \in Slots : users'[c] = users[c]
        /\ UNCHANGED <<vars, channels, owner, invites, guilds, membersOnline, stayed>>
    BY <1>1, <1>2 DEF Reload
  <2>2. PrivateChannelsKept'
    BY <2>1 DEF ChannelReaders, PrivateChannelsKept
  <2> QED
    BY <1>1, <2>1, <2>2, ChannelStep
<1>3. ASSUME NEW x \in Players, RequestChannels(x) PROVE ChannelReaders'
  <2>1. {guildIn[x], party[x]} \ {None} \subseteq Guilds \cup Parties
    BY InvariantAgrees DEF MembersAgree
  <2>2. channels' \in SUBSET Keys /\ \A c \in Slots : c \in channels' <=> c \in channels
    BY <1>1, <1>3, <2>1 DEF RequestChannels
  <2>3. UNCHANGED <<vars, users, owner, invites, guilds, membersOnline, stayed>>
    BY <1>3 DEF RequestChannels
  <2>4. PrivateChannelsKept'
    BY <2>2, <2>3 DEF ChannelReaders, PrivateChannelsKept
  <2> QED
    BY <1>1, <2>2, <2>3, <2>4, ChannelStep
<1>4. ASSUME NEW x \in Players, CreatePrivateChannel(x) PROVE ChannelReaders'
  <2>1. PICK c \in Slots \ channels :
            /\ channels' = channels \cup {c}
            /\ owner' = [owner EXCEPT ![c] = x]
            /\ users' = [users EXCEPT ![c] = {x}]
    BY <1>4 DEF CreatePrivateChannel
  <2>2. /\ x \in online /\ \A d \in Slots : owner[d] # x
        /\ UNCHANGED <<vars, invites, guilds, membersOnline, stayed>>
    BY <1>4 DEF CreatePrivateChannel, MayOwn, OwnedBy
  <2>3. /\ channels' \in SUBSET Keys /\ users' \in [Keys -> SUBSET Players]
        /\ owner' \in [Slots -> Players \cup {None}]
        /\ \A d \in Keys : users'[d] = IF d = c THEN {x} ELSE users[d]
        /\ \A d \in Slots : owner'[d] = IF d = c THEN x ELSE owner[d]
    BY <1>1, <2>1
  <2>4. PrivateChannelsKept'
    BY <2>1, <2>2, <2>3 DEF ChannelReaders, PrivateChannelsKept
  <2>5. users[c] = {}
    BY <2>1 DEF ChannelReaders, PrivateChannelsKept
  <2> QED
    BY <1>1, <2>2, <2>3, <2>4, <2>5, ChannelStep
<1>5. ASSUME NEW x \in Players, TakenOver(x) PROVE ChannelReaders'
  <2>1. /\ RemoveUserFromAllChannels(x) /\ UNCHANGED <<vars, guilds, membersOnline>>
        /\ stayed' \in [Parties -> SUBSET Players]
        /\ \A P \in Parties : stayed'[P] = stayed[P] \ {x}
    BY <1>1, <1>5 DEF TakenOver
  <2> QED
    BY <1>1, <2>1, RemoveUserKeeps, ChannelStep
<1>6. ASSUME NEW x \in Players, LoginFails(x) PROVE ChannelReaders'
  <2>1. guilds' \in SUBSET Guilds /\ guilds \subseteq guilds'
    BY <1>6 DEF LoginFails, ChannelReaders, ChatTypeOK
  <2> QED
    BY <1>1, <1>6, <2>1 DEF LoginFails, ChannelReaders, ChatTypeOK, PrivateChannelsKept, GuildsLive,
       vars, partyVars
<1>7. ASSUME NEW x \in Players, NEW c \in Keys, OpenChannel(x, c) PROVE ChannelReaders'
  <2>1. /\ x \in online /\ GetChannel(party, x, c)
        /\ UNCHANGED <<vars, channels, owner, invites, guilds, membersOnline, stayed>>
        /\ users' \in [Keys -> SUBSET Players]
        /\ \A d \in Keys : users'[d] = IF d = c THEN users[d] \cup {x} ELSE users[d]
    BY <1>1, <1>7 DEF OpenChannel
  <2>2. c \in Slots => c \in channels /\ (owner[c] = x \/ x \in invites[c])
    BY <2>1 DEF GetChannel
  <2>3. PrivateChannelsKept'
    <3>1. ASSUME NEW d \in Slots
          PROVE  IF d \in channels
                 THEN owner[d] \in users'[d] /\ users'[d] \subseteq {owner[d]} \cup invites[d]
                 ELSE owner[d] = None /\ users'[d] = {} /\ invites[d] = {}
      <4>1. IF d \in channels
            THEN owner[d] \in users[d] /\ users[d] \subseteq {owner[d]} \cup invites[d]
            ELSE owner[d] = None /\ users[d] = {} /\ invites[d] = {}
        BY DEF ChannelReaders, PrivateChannelsKept
      <4>2. users'[d] = IF d = c THEN users[d] \cup {x} ELSE users[d]
        BY <2>1
      <4> QED
        BY <2>2, <4>1, <4>2
    <3> QED
      BY <2>1, <3>1 DEF ChannelReaders, PrivateChannelsKept
  <2>4. (c \in Parties => party[x] = c) /\ (c \in Guilds => guildIn[x] = c)
    BY <2>1 DEF GetChannel
  <2>5. \A d \in Keys : \A z \in users'[d] \ users[d] :
            z \in online /\ (d \in Parties => party[z] = d) /\ (d \in Guilds => guildIn[z] = d)
    <3>1. SUFFICES ASSUME NEW d \in Keys, NEW z \in users'[d] \ users[d] PROVE d = c /\ z = x
      BY <2>1, <2>4
    <3>2. users'[d] = IF d = c THEN users[d] \cup {x} ELSE users[d]
      BY <2>1
    <3> QED
      BY <3>1, <3>2
  <2> QED
    BY <1>1, <2>1, <2>3, <2>5, ChannelStep
<1>8. ASSUME NEW x \in Players, NEW c \in Keys, CloseChannel(x, c) PROVE ChannelReaders'
  <2> DEFINE ends == {c} \cap OwnedBy(x)
  <2>1. /\ Erased(ends) /\ ends \in SUBSET Slots
        /\ users' = [users EXCEPT ![c] = IF c \in ends THEN {} ELSE @ \ {x}]
        /\ invites' = [d \in Slots |-> IF d \in ends THEN {} ELSE invites[d]]
        /\ UNCHANGED <<vars, guilds, membersOnline, stayed>>
    BY <1>8 DEF CloseChannel, OwnedBy
  <2>2. /\ channels' \in SUBSET Keys /\ owner' \in [Slots -> Players \cup {None}]
        /\ users' \in [Keys -> SUBSET Players] /\ invites' \in [Slots -> SUBSET Players]
        /\ \A d \in Keys : users'[d] = IF d = c THEN IF c \in ends THEN {} ELSE users[d] \ {x}
                                       ELSE users[d]
        /\ \A d \in Slots : /\ d \in channels' <=> d \in channels \ ends
                            /\ owner'[d] = IF d \in ends THEN None ELSE owner[d]
                            /\ invites'[d] = IF d \in ends THEN {} ELSE invites[d]
    BY <1>1, <2>1, ErasedType DEF Erased, ChannelReaders
  <2>3. \A d \in Slots : owner[d] = x => d # c \/ d \in ends
    BY DEF OwnedBy
  <2>4. PrivateChannelsKept'
    <3>1. ASSUME NEW d \in Slots
          PROVE  IF d \in channels'
                 THEN owner'[d] \in users'[d] /\ users'[d] \subseteq {owner'[d]} \cup invites'[d]
                 ELSE owner'[d] = None /\ users'[d] = {} /\ invites'[d] = {}
      <4>1. IF d \in channels
            THEN owner[d] \in users[d] /\ users[d] \subseteq {owner[d]} \cup invites[d]
            ELSE owner[d] = None /\ users[d] = {} /\ invites[d] = {}
        BY DEF ChannelReaders, PrivateChannelsKept
      <4>2. CASE d \in ends
        BY <2>2, <4>2
      <4>3. CASE d \notin ends
        <5>1. /\ d \in channels' <=> d \in channels
              /\ owner'[d] = owner[d] /\ invites'[d] = invites[d]
          BY <2>2, <4>3
        <5>2. users'[d] = users[d] \/ (users'[d] = users[d] \ {x} /\ owner[d] # x)
          BY <2>2, <2>3, <4>3
        <5> QED
          BY <4>1, <5>1, <5>2
      <4> QED
        BY <4>2, <4>3
    <3>2. \A d, e \in Slots : owner'[d] = owner'[e] /\ owner'[d] # None => d = e
      BY <2>2 DEF ChannelReaders, PrivateChannelsKept
    <3> QED
      BY <3>1, <3>2 DEF PrivateChannelsKept
  <2> HIDE DEF ends
  <2>5. /\ \A d \in Keys : users'[d] \subseteq users[d]
        /\ \A d \in Slots : invites'[d] \subseteq online
    BY <1>1, <2>2
  <2> QED
    BY <1>1, <2>1, <2>2, <2>4, <2>5, ChannelStep
<1>9. ASSUME NEW x \in Players, NEW y \in Players, ChannelInvite(x, y) PROVE ChannelReaders'
  <2>1. /\ y \in online /\ UNCHANGED <<vars, channels, users, owner, guilds, membersOnline, stayed>>
        /\ \E c \in Slots : owner[c] = x /\ invites' = [invites EXCEPT ![c] = @ \cup {y}]
    BY <1>9 DEF ChannelInvite, OwnedBy
  <2>2. /\ invites' \in [Slots -> SUBSET Players]
        /\ \A c \in Slots : /\ invites[c] \subseteq invites'[c] /\ invites'[c] \subseteq invites[c] \cup {y}
                            /\ owner[c] = None => invites'[c] = invites[c]
    BY <1>1, <2>1
  <2>3. PrivateChannelsKept'
    BY <2>1, <2>2 DEF ChannelReaders, PrivateChannelsKept
  <2>4. \A c \in Slots : invites'[c] \subseteq online
    BY <1>1, <2>1, <2>2
  <2> QED
    BY <1>1, <2>1, <2>2, <2>3, <2>4, ChannelStep
<1>10. ASSUME NEW x \in Players, NEW y \in Players, ChannelExclude(x, y) PROVE ChannelReaders'
  <2>1. /\ x # y /\ UNCHANGED <<vars, channels, owner, guilds, membersOnline, stayed>>
        /\ \E c \in Slots : /\ owner[c] = x /\ invites' = [invites EXCEPT ![c] = @ \ {y}]
                            /\ users' = [users EXCEPT ![c] = @ \ {y}]
    BY <1>10 DEF ChannelExclude, OwnedBy
  <2>2. PICK c \in Slots : /\ owner[c] = x /\ invites' = [invites EXCEPT ![c] = @ \ {y}]
                           /\ users' = [users EXCEPT ![c] = @ \ {y}]
    BY <2>1
  <2>3. /\ invites' \in [Slots -> SUBSET Players] /\ users' \in [Keys -> SUBSET Players]
        /\ \A d \in Slots : invites'[d] = IF d = c THEN invites[d] \ {y} ELSE invites[d]
        /\ \A d \in Keys : users'[d] = IF d = c THEN users[d] \ {y} ELSE users[d]
    BY <1>1, <2>2
  <2>4. PrivateChannelsKept'
    BY <2>1, <2>2, <2>3 DEF ChannelReaders, PrivateChannelsKept
  <2>5. \A d \in Slots : invites'[d] \subseteq online
    BY <1>1, <2>3
  <2> QED
    BY <1>1, <2>1, <2>3, <2>4, <2>5, ChannelStep
<1> QED
  BY <1>2, <1>3, <1>4, <1>5, <1>6, <1>7, <1>8, <1>9, <1>10 DEF ChatNext

\* Who leaves a party with its channel open is remembered in stayed, unless the
\* step also takes it out of every channel.
LEMMA ReadersFollow ==
    ASSUME ChannelReaders, ThroughNone, NEW removed, Stays(removed),
           \A c \in Keys : users'[c] \subseteq users[c] \ removed
    PROVE  /\ stayed' \in [Parties -> SUBSET Players]
           /\ \A P \in Parties : \A x \in users'[P] : party'[x] = P \/ x \in stayed'[P]
<1> USE PartyAssumption DEF PartyAssumption
<1>1. stayed \in [Parties -> SUBSET Players] /\ users \in [Keys -> SUBSET Players]
  BY DEF ChannelReaders, ChatTypeOK
<1>2. stayed' \in [Parties -> SUBSET Players]
  BY <1>1 DEF Stays, Left
<1>3. ASSUME NEW P \in Parties, NEW x \in users'[P] PROVE party'[x] = P \/ x \in stayed'[P]
  <2>1. P \in Keys /\ x \in users[P] /\ x \notin removed
    BY <1>3
  <2>2. x \in Players
    BY <1>1, <2>1
  <2>3. party[x] = P \/ x \in stayed[P]
    BY <2>1 DEF ChannelReaders
  <2>4. party[x] = P => party'[x] \in {P, None}
    BY <2>2 DEF ThroughNone
  <2>5. x \in stayed'[P] <=> x \in stayed[P] \/ (x \in Left /\ party[x] = P)
    BY <2>1 DEF Stays
  <2> QED
    BY <2>2, <2>3, <2>4, <2>5 DEF Left
<1> QED
  BY <1>2, <1>3

LEMMA ChannelsAtLogin ==
    ASSUME ChannelReaders, PartyInv, NEW x \in Players, Login(x), ChatLogin(x)
    PROVE  ChannelReaders'
<1> USE PartyAssumption DEF PartyAssumption
<1>1. /\ UNCHANGED <<channels, users, owner, invites, stayed, party>>
      /\ online' = online \cup {x} /\ x \notin online
  BY DEF Login, ChatLogin, partyVars
<1>2. ChatTypeOK' /\ GuildsLive'
  <2>1. CASE guildIn[x] = None
    BY <1>1, <2>1 DEF ChatLogin, ChannelReaders, ChatTypeOK, GuildsLive
  <2>2. CASE guildIn[x] # None
    <3>1. /\ guildIn[x] \in Guilds /\ guilds' = guilds \cup {guildIn[x]}
          /\ membersOnline' = [membersOnline EXCEPT ![guildIn[x]] = @ \cup {x}]
      BY <2>2 DEF ChatLogin
    <3>2. ChatTypeOK'
      BY <1>1, <3>1 DEF ChannelReaders, ChatTypeOK
    <3>3. ASSUME NEW y \in Players, NEW G \in Guilds
          PROVE  /\ y \in membersOnline'[G] <=> y \in online' /\ guildIn[y] = G
                 /\ y \in membersOnline'[G] => G \in guilds'
      <4>1. /\ y \in membersOnline[G] <=> y \in online /\ guildIn[y] = G
            /\ y \in membersOnline[G] => G \in guilds
        BY DEF ChannelReaders, GuildsLive
      <4>2. membersOnline'[G] = IF G = guildIn[x] THEN membersOnline[G] \cup {x} ELSE membersOnline[G]
        BY <3>1 DEF ChannelReaders, ChatTypeOK
      <4> QED
        BY <1>1, <3>1, <4>1, <4>2
    <3> QED
      BY <3>2, <3>3 DEF GuildsLive
  <2> QED
    BY <2>1, <2>2
<1>3. PrivateChannelsKept'
  BY <1>1 DEF ChannelReaders, PrivateChannelsKept
<1> QED
  BY <1>1, <1>2, <1>3 DEF ChannelReaders

LEMMA ChannelsAtLogout ==
    ASSUME ChannelReaders, PartyInv, NEW x \in Players, Logout(x), ChatLogout(x)
    PROVE  ChannelReaders'
<1> USE PartyAssumption DEF PartyAssumption
<1>1. ThroughNone
  BY PartyThroughNone DEF Next
<1>2. /\ RemoveUserFromAllChannels(x) /\ Stays({x}) /\ online' = online \ {x} /\ x \in online
  BY DEF Logout, ChatLogout
<1>3. /\ channels' \in SUBSET Keys /\ users' \in [Keys -> SUBSET Players]
      /\ owner' \in [Slots -> Players \cup {None}] /\ invites' \in [Slots -> SUBSET Players]
      /\ \A c \in Keys : users'[c] \subseteq users[c] \ {x}
      /\ \A c \in Slots : invites'[c] \subseteq invites[c] \ {x}
      /\ PrivateChannelsKept'
  BY <1>2, RemoveUserKeeps
<1>4. /\ stayed' \in [Parties -> SUBSET Players]
      /\ \A P \in Parties : \A y \in users'[P] : party'[y] = P \/ y \in stayed'[P]
  BY <1>1, <1>2, <1>3, ReadersFollow
<1>5. guilds' \in SUBSET Guilds /\ membersOnline' \in [Guilds -> SUBSET Players] /\ GuildsLive'
  <2>1. guilds \in SUBSET Guilds /\ membersOnline \in [Guilds -> SUBSET Players]
    BY DEF ChannelReaders, ChatTypeOK
  <2>2. CASE guildIn[x] = None
    BY <1>2, <2>1, <2>2 DEF ChatLogout, ChannelReaders, GuildsLive
  <2>3. CASE guildIn[x] # None
    <3>1. /\ guildIn[x] \in Guilds /\ guilds' = guilds \ Abandoned(guildIn[x], x)
          /\ membersOnline' = [membersOnline EXCEPT ![guildIn[x]] = @ \ {x}]
      BY <2>3 DEF ChatLogout
    <3>2. guilds' \in SUBSET Guilds /\ membersOnline' \in [Guilds -> SUBSET Players]
      BY <2>1, <3>1
    <3>3. ASSUME NEW y \in Players, NEW G \in Guilds
          PROVE  /\ y \in membersOnline'[G] <=> y \in online' /\ guildIn[y] = G
                 /\ y \in membersOnline'[G] => G \in guilds'
      <4>1. /\ y \in membersOnline[G] <=> y \in online /\ guildIn[y] = G
            /\ y \in membersOnline[G] => G \in guilds
        BY DEF ChannelReaders, GuildsLive
      <4>2. membersOnline'[G] = IF G = guildIn[x] THEN membersOnline[G] \ {x} ELSE membersOnline[G]
        BY <2>1, <3>1
      <4>3. y \in membersOnline'[G] => G \notin Abandoned(guildIn[x], x)
        BY <4>2 DEF Abandoned
      <4>4. y \in membersOnline'[G] => y \in membersOnline[G]
        BY <4>2
      <4>5. y \in membersOnline'[G] => G \in guilds'
        BY <3>1, <4>1, <4>3, <4>4
      <4>6. y \in membersOnline'[G] <=> y \in online' /\ guildIn[y] = G
        BY <1>2, <4>1, <4>2
      <4> QED
        BY <4>5, <4>6
    <3> QED
      BY <3>2, <3>3 DEF GuildsLive
  <2> QED
    BY <2>2, <2>3
<1>6. ChatTypeOK'
  BY <1>3, <1>4, <1>5 DEF ChatTypeOK
<1>7. /\ \A c \in Keys : users'[c] \subseteq online'
      /\ \A c \in Slots : invites'[c] \subseteq online'
      /\ \A G \in Guilds : \A y \in users'[G] : guildIn[y] = G
  BY <1>2, <1>3 DEF ChannelReaders
<1> QED
  BY <1>3, <1>4, <1>5, <1>6, <1>7 DEF ChannelReaders

LEMMA ChannelsFollowParty ==
    ASSUME ChannelReaders, ThroughNone, online' = online, ChannelsFollow
    PROVE  ChannelReaders'
<1>1. /\ users \in [Keys -> SUBSET Players]
      /\ UNCHANGED <<channels, owner, invites, guilds, membersOnline>>
  BY DEF ChannelReaders, ChatTypeOK, ChannelsFollow
<1>2. /\ users' \in [Keys -> SUBSET Players] /\ \A c \in Keys : users'[c] \subseteq users[c]
      /\ \A c \in Slots : users'[c] = users[c]
  BY <1>1 DEF ChannelsFollow, PartyChannelsClosed
<1>3. /\ stayed' \in [Parties -> SUBSET Players]
      /\ \A P \in Parties : \A x \in users'[P] : party'[x] = P \/ x \in stayed'[P]
  <2>1. Stays({}) /\ \A c \in Keys : users'[c] \subseteq users[c] \ {}
    BY <1>2 DEF ChannelsFollow
  <2> QED
    BY <2>1, ReadersFollow
<1>4. ChatTypeOK'
  BY <1>1, <1>2, <1>3 DEF ChannelReaders, ChatTypeOK
<1>5. PrivateChannelsKept' /\ GuildsLive'
  BY <1>1, <1>2 DEF ChannelReaders, PrivateChannelsKept, GuildsLive
<1>6. /\ \A c \in Keys : users'[c] \subseteq online'
      /\ \A c \in Slots : invites'[c] \subseteq online'
      /\ \A G \in Guilds : \A x \in users'[G] : guildIn[x] = G
  BY <1>1, <1>2 DEF ChannelReaders
<1> QED
  BY <1>3, <1>4, <1>5, <1>6 DEF ChannelReaders

LEMMA ChannelReadersStep ==
    ASSUME PartyInv, ChannelReaders, [GroupsNext]_groupVars
    PROVE  ChannelReaders'
<1>1. CASE UNCHANGED <<vars, chatVars>>
  BY <1>1 DEF vars, partyVars, chatVars, ChannelReaders, ChatTypeOK, PrivateChannelsKept, GuildsLive
<1>2. CASE PlayerLogin
  BY <1>2, ChannelsAtLogin DEF PlayerLogin
<1>3. CASE PlayerLogout
  BY <1>3, ChannelsAtLogout DEF PlayerLogout
<1>4. CASE PartyStep
  <2>1. Next /\ ChannelsFollow
    BY <1>4 DEF PartyStep, Next
  <2>2. online' = online
    <3>1. ASSUME NEW x, LeaveParty(x) PROVE online' = online
      BY <3>1 DEF LeaveParty
    <3>2. ASSUME NEW x, NEW y, \/ InviteToParty(x, y) \/ JoinParty(x, y)
                               \/ RevokePartyInvitation(x, y) \/ PassPartyLeadership(x, y)
          PROVE  online' = online
      BY <3>2 DEF InviteToParty, JoinParty, RevokePartyInvitation, PassPartyLeadership
    <3> QED
      BY <1>4, <3>1, <3>2 DEF PartyStep
  <2> QED
    BY <2>1, <2>2, PartyThroughNone, ChannelsFollowParty
<1>5. CASE ChatNext
  BY <1>5, ChatHandlers
<1>6. CASE ExpNext /\ UNCHANGED chatVars
  <2>1. UNCHANGED vars
    BY <1>6 DEF ExpNext, SetSharedExperience, Moves, LevelChanges, FightsOrRests, TicksExpire
  <2> QED
    BY <1>1, <1>6, <2>1
<1> QED
  BY <1>1, <1>2, <1>3, <1>4, <1>5, <1>6 DEF GroupsNext, groupVars
-----------------------------------------------------------------------------
(* Shared experience *)

\* What the kept flag and bonus of P have to be, when P is in use.
FlagCurrent(P) ==
    /\ active[P] /\ enabled[P] => CanEnable(P, {"recent", "old"})
    /\ active[P] /\ CanEnable(P, {"recent"}) => enabled[P]
BonusCurrent(P) == memberList[P] # <<>> => bonusOf[P] = InParty(P)

LEMMA CanEnableOlder ==
    ASSUME NEW P \in Parties, CanEnable(P, {"recent"})
    PROVE  CanEnable(P, {"recent", "old"})
BY DEF CanEnable, CanUse

\* canEnableSharedExperience reads the leader, the members and their levels,
\* places and ticks, and nothing else.
LEMMA CanEnableReads ==
    ASSUME NEW P \in Parties, NEW accepted,
           leader'[P] = leader[P], memberList'[P] = memberList[P],
           \A x \in InParty(P) : /\ level'[x] = level[x] /\ place'[x] = place[x]
                                 /\ ticks'[P][x] = ticks[P][x]
    PROVE  /\ CanEnable(P, accepted)' <=> CanEnable(P, accepted)
           /\ InParty(P)' = InParty(P)
<1>1. InParty(P)' = InParty(P)
  BY DEF InParty, Members
<1>2. {level'[x] : x \in InParty(P)'} = {level[x] : x \in InParty(P)}
  BY <1>1
<1>3. MaxLevel(InParty(P))' = MaxLevel(InParty(P))
  BY <1>2 DEF MaxLevel
<1>4. \A x \in InParty(P) : leader[P] \in InParty(P)
  BY DEF InParty
<1>5. \A x \in InParty(P) : CanUse(P, x, accepted)' <=> CanUse(P, x, accepted)
  BY <1>3, <1>4 DEF CanUse
<1> QED
  BY <1>1, <1>5 DEF CanEnable

LEMMA CurrentByParts ==
    ASSUME ExpTypeOK, \A P \in Allocated : FlagCurrent(P) /\ BonusCurrent(P)
    PROVE  SharedExperienceCurrent
BY DEF SharedExperienceCurrent, FlagCurrent, BonusCurrent

LEMMA InPartyTyped ==
    ASSUME TypeOK, NEW P \in Parties
    PROVE  InParty(P) \in SUBSET Players
BY DEF TypeOK, InParty, Members, ToSet

\* The steps of Party: a new object starts switched off, whatever changes a
\* party computes its flag again, and the bonus follows who is in it.
LEMMA ExperienceAtPartyStep ==
    ASSUME PartyInv, PartyInv', ThroughNone, SharedExperienceCurrent, ExperienceFollows
    PROVE  SharedExperienceCurrent'
<1> USE PartyAssumption DEF PartyAssumption
<1>1. ExpTypeOK'
  <2>1. /\ level' \in [Players -> Levels] /\ place' \in [Players -> Places]
        /\ active' \in [Parties -> BOOLEAN]
    BY DEF SharedExperienceCurrent, ExpTypeOK, ExperienceFollows
  <2>2. enabled' \in [Parties -> BOOLEAN]
    <3>1. \A P \in Parties : CanEnable(P, {"recent"})' \in BOOLEAN
      BY DEF CanEnable
    <3>2. \A P \in Parties : enabled[P] \in BOOLEAN
      BY DEF SharedExperienceCurrent, ExpTypeOK
    <3>3. enabled' = [P \in Parties |->
                        IF NewObject(P) THEN FALSE
                        ELSE IF UpdatedBy(P) /\ active[P] THEN CanEnable(P, {"recent"})'
                        ELSE enabled[P]]
      BY DEF ExperienceFollows
    <3> QED
      BY <3>1, <3>2, <3>3
  <2>3. bonusOf' \in [Parties -> SUBSET Players]
    <3>1. \A P \in Parties : InParty(P)' \in SUBSET Players
      BY InPartyTyped DEF PartyInv, PartiesPaired, TypeOK, InParty, Members, ToSet
    <3> QED
      BY <3>1 DEF SharedExperienceCurrent, ExpTypeOK, ExperienceFollows
  <2>4. ticks' \in [Parties -> [Players -> {"none", "recent", "old"}]]
    BY DEF SharedExperienceCurrent, ExpTypeOK, ExperienceFollows
  <2> QED
    BY <2>1, <2>2, <2>3, <2>4 DEF ExpTypeOK
<1>2. ASSUME NEW P \in Parties, leader'[P] # None PROVE FlagCurrent(P)' /\ BonusCurrent(P)'
  <2>1. CASE leader[P] = None
    <3>1. active'[P] = FALSE /\ memberList'[P] = <<>>
      BY <2>1 DEF ExperienceFollows, NewObject, ThroughNone
    <3> QED
      BY <3>1 DEF FlagCurrent, BonusCurrent
  <2>2. CASE leader[P] # None
    <3>1. ~NewObject(P) /\ active'[P] = active[P]
      BY <1>2, <2>2 DEF NewObject, ExperienceFollows, SharedExperienceCurrent, ExpTypeOK
    <3>2. FlagCurrent(P) /\ BonusCurrent(P)
      BY <2>2 DEF SharedExperienceCurrent, Allocated, FlagCurrent, BonusCurrent
    <3>3. CASE ~Reorganised(P)
      <4>1. leader'[P] = leader[P] /\ memberList'[P] = memberList[P]
        BY <3>3 DEF Reorganised
      <4>2. InParty(P)' = InParty(P)
        BY <4>1 DEF InParty, Members
      <4>3. enabled'[P] = enabled[P] /\ bonusOf'[P] = bonusOf[P]
        BY <3>1, <3>3, <4>2 DEF ExperienceFollows, UpdatedBy
      <4>4. \A x \in InParty(P) : /\ level'[x] = level[x] /\ place'[x] = place[x]
                                  /\ ticks'[P][x] = ticks[P][x]
        <5>1. InParty(P) \in SUBSET Players
          BY InPartyTyped DEF PartyInv, PartiesPaired
        <5> QED
          BY <3>1, <4>2, <5>1 DEF ExperienceFollows
      <4>5. \A accepted : CanEnable(P, accepted)' <=> CanEnable(P, accepted)
        BY <4>1, <4>4, CanEnableReads
      <4> QED
        BY <3>1, <3>2, <4>1, <4>2, <4>3, <4>5 DEF FlagCurrent, BonusCurrent
    <3>4. CASE Reorganised(P)
      <4>1. active[P] => (enabled'[P] <=> CanEnable(P, {"recent"})')
        BY <3>1, <3>4 DEF ExperienceFollows, UpdatedBy
      <4>2. CanEnable(P, {"recent"})' => CanEnable(P, {"recent", "old"})'
        BY DEF CanEnable, CanUse
      <4>3. FlagCurrent(P)'
        BY <3>1, <4>1, <4>2 DEF FlagCurrent
      <4>4. CASE InParty(P)' # InParty(P)
        BY <3>1, <4>3, <4>4 DEF ExperienceFollows, BonusCurrent
      <4>5. CASE InParty(P)' = InParty(P)
        <5>1. bonusOf'[P] = bonusOf[P]
          BY <3>1, <4>5 DEF ExperienceFollows
        <5>2. memberList[P] = <<>> => memberList'[P] = <<>>
          <6>1. SUFFICES ASSUME memberList[P] = <<>>, memberList'[P] # <<>> PROVE FALSE
            OBVIOUS
          <6>2. InParty(P) = {leader[P]}
            BY <2>2, <6>1 DEF InParty, Members, ToSet
          <6>3. memberList'[P] \in Seq(Players)
            BY DEF PartyInv, PartiesPaired, TypeOK
          <6>4. PICK x \in Players : x \in Members(P)'
            BY <6>1, <6>3 DEF Members, ToSet
          <6>5. x \in InParty(P)' /\ leader'[P] \in InParty(P)'
            BY <1>2, <6>4 DEF InParty
          <6>6. leader'[P] # x
            BY <6>4 DEF PartyInv, PartiesPaired, MembersPaired
          <6> QED
            BY <4>5, <6>2, <6>5, <6>6
        <5> QED
          BY <3>2, <4>3, <4>5, <5>1, <5>2 DEF BonusCurrent
      <4> QED
        BY <4>4, <4>5
    <3> QED
      BY <3>3, <3>4
  <2> QED
    BY <2>1, <2>2
<1> QED
  BY <1>1, <1>2 DEF Allocated, SharedExperienceCurrent, FlagCurrent, BonusCurrent

\* The steps that leave the parties as they are: P computes its flag again, is
\* switched off, or has nothing to compute.
LEMMA ExperienceStep ==
    ASSUME SharedExperienceCurrent, UNCHANGED vars, ExpTypeOK', bonusOf' = bonusOf,
           \A P \in Parties :
               \/ active'[P] => (enabled'[P] <=> CanEnable(P, {"recent"})')
               \/ /\ active'[P] = active[P] /\ enabled'[P] = enabled[P]
                  /\ CanEnable(P, {"recent"})' => CanEnable(P, {"recent"})
                  /\ CanEnable(P, {"recent", "old"}) => CanEnable(P, {"recent", "old"})'
    PROVE  SharedExperienceCurrent'
<1>1. leader' = leader /\ memberList' = memberList
  BY DEF vars, partyVars
<1>2. ASSUME NEW P \in Parties, leader[P] # None PROVE FlagCurrent(P)' /\ BonusCurrent(P)'
  <2>1. FlagCurrent(P) /\ BonusCurrent(P)
    BY <1>2 DEF SharedExperienceCurrent, Allocated, FlagCurrent, BonusCurrent
  <2>2. InParty(P)' = InParty(P)
    BY <1>1 DEF InParty, Members
  <2>3. CanEnable(P, {"recent"})' => CanEnable(P, {"recent", "old"})'
    BY DEF CanEnable, CanUse
  <2>4. FlagCurrent(P)'
    BY <2>1, <2>3 DEF FlagCurrent
  <2> QED
    BY <1>1, <2>1, <2>2, <2>4 DEF BonusCurrent
<1> QED
  BY <1>1, <1>2 DEF Allocated, SharedExperienceCurrent, FlagCurrent, BonusCurrent

\* A step that calls updateSharedExperience in the parties of changed, when
\* what the others read stays as it was.
LEMMA UpdatedKeeps ==
    ASSUME PartyInv, SharedExperienceCurrent, UNCHANGED <<vars, bonusOf>>, NEW changed,
           level' \in [Players -> Levels], place' \in [Players -> Places],
           active' \in [Parties -> BOOLEAN],
           ticks' \in [Parties -> [Players -> {"none", "recent", "old"}]],
           Updated(changed),
           \A P \in Parties \ changed :
               /\ active'[P] = active[P]
               /\ \A x \in InParty(P) : /\ level'[x] = level[x] /\ place'[x] = place[x]
                                        /\ ticks'[P][x] = ticks[P][x]
    PROVE  SharedExperienceCurrent'
<1>1. leader' = leader /\ memberList' = memberList
  BY DEF vars, partyVars
<1>2. enabled \in [Parties -> BOOLEAN] /\ bonusOf \in [Parties -> SUBSET Players]
  BY DEF SharedExperienceCurrent, ExpTypeOK
<1>3. ASSUME NEW P \in Parties
      PROVE  /\ enabled'[P] \in BOOLEAN
             /\ \/ active'[P] => (enabled'[P] <=> CanEnable(P, {"recent"})')
                \/ /\ active'[P] = active[P] /\ enabled'[P] = enabled[P]
                   /\ CanEnable(P, {"recent"})' => CanEnable(P, {"recent"})
                   /\ CanEnable(P, {"recent", "old"}) => CanEnable(P, {"recent", "old"})'
  <2>1. enabled'[P] = IF P \in changed /\ active'[P] THEN CanEnable(P, {"recent"})' ELSE enabled[P]
    BY DEF Updated
  <2>2. CanEnable(P, {"recent"})' \in BOOLEAN
    BY DEF CanEnable
  <2>3. CASE P \in changed
    BY <1>2, <2>1, <2>2, <2>3
  <2>4. CASE P \notin changed
    <3>1. \A accepted : CanEnable(P, accepted)' <=> CanEnable(P, accepted)
      BY <1>1, <2>4, CanEnableReads
    <3> QED
      BY <1>2, <2>1, <2>4, <3>1
  <2> QED
    BY <2>3, <2>4
<1>4. enabled' \in [Parties -> BOOLEAN]
  BY <1>3 DEF Updated
<1>5. ExpTypeOK'
  BY <1>2, <1>4 DEF ExpTypeOK
<1> QED
  BY <1>3, <1>5, ExperienceStep

\* Who is in P points to it.
LEMMA InPartyPoints ==
    ASSUME PartyInv, NEW P \in Parties, NEW x \in InParty(P)
    PROVE  x \in Players /\ party[x] = P
<1>1. x \in Players
  BY InPartyTyped DEF PartyInv, PartiesPaired
<1> QED
  BY <1>1 DEF InParty, PartyInv, PartiesPaired, MembersPaired

LEMMA ExperienceHandlers ==
    ASSUME PartyInv, SharedExperienceCurrent, ExpNext
    PROVE  SharedExperienceCurrent'
<1> USE PartyAssumption DEF PartyAssumption
<1>1. /\ level \in [Players -> Levels] /\ place \in [Players -> Places]
      /\ active \in [Parties -> BOOLEAN] /\ enabled \in [Parties -> BOOLEAN]
      /\ bonusOf \in [Parties -> SUBSET Players]
      /\ ticks \in [Parties -> [Players -> {"none", "recent", "old"}]]
      /\ party \in [Players -> Parties \cup {None}]
  BY DEF SharedExperienceCurrent, ExpTypeOK, PartyInv, PartiesPaired, TypeOK
<1>2. ASSUME NEW x \in Players, SetSharedExperience(x) PROVE SharedExperienceCurrent'
  <2>1. /\ party[x] \in Parties /\ UNCHANGED <<vars, level, place, bonusOf, ticks>>
        /\ active' = [active EXCEPT ![party[x]] = ~@] /\ Updated({party[x]})
    BY <1>1, <1>2 DEF SetSharedExperience
  <2>2. /\ active' \in [Parties -> BOOLEAN]
        /\ \A P \in Parties \ {party[x]} : active'[P] = active[P]
    BY <1>1, <2>1
  <2> QED
    BY <1>1, <2>1, <2>2, UpdatedKeeps
<1>3. ASSUME NEW x \in Players, NEW P \in Parties \ PartyOf(x), NEW y \in InParty(P) PROVE y # x
  BY <1>3, InPartyPoints DEF PartyOf
<1>4. ASSUME NEW x \in Players, Moves(x) PROVE SharedExperienceCurrent'
  <2>1. /\ UNCHANGED <<vars, level, active, bonusOf, ticks>> /\ Updated(PartyOf(x))
        /\ place' \in [Players -> Places] /\ \A y \in Players \ {x} : place'[y] = place[y]
    BY <1>1, <1>4 DEF Moves
  <2>2. \A P \in Parties \ PartyOf(x) : \A y \in InParty(P) : place'[y] = place[y]
    BY <1>3, <2>1, InPartyPoints
  <2> QED
    BY <1>1, <2>1, <2>2, UpdatedKeeps
<1>5. ASSUME NEW x \in Players, LevelChanges(x) PROVE SharedExperienceCurrent'
  <2>1. /\ UNCHANGED <<vars, place, active, bonusOf, ticks>> /\ Updated(PartyOf(x))
        /\ level' \in [Players -> Levels] /\ \A y \in Players \ {x} : level'[y] = level[y]
    BY <1>1, <1>5 DEF LevelChanges, LevelUpdates
  <2>2. \A P \in Parties \ PartyOf(x) : \A y \in InParty(P) : level'[y] = level[y]
    BY <1>3, <2>1, InPartyPoints
  <2> QED
    BY <1>1, <2>1, <2>2, UpdatedKeeps
<1>6. ASSUME NEW x \in Players, party[x] # None, NEW t \in {"none", "recent", "old"}, SetTicks(x, t)
      PROVE  /\ party[x] \in Parties
             /\ ticks' \in [Parties -> [Players -> {"none", "recent", "old"}]]
             /\ \A P \in Parties, y \in Players :
                   ticks'[P][y] = IF P = party[x] /\ y = x THEN t ELSE ticks[P][y]
  BY <1>1, <1>6 DEF SetTicks
<1>7. ASSUME NEW x \in Players, FightsOrRests(x) PROVE SharedExperienceCurrent'
  <2>1. PICK t \in {"none", "recent"} : SetTicks(x, t)
    BY <1>7 DEF FightsOrRests
  <2>2. /\ party[x] # None /\ Updated({party[x]})
        /\ UNCHANGED <<vars, level, place, active, bonusOf>>
    BY <1>7 DEF FightsOrRests
  <2>3. /\ ticks' \in [Parties -> [Players -> {"none", "recent", "old"}]]
        /\ \A P \in Parties \ {party[x]}, y \in Players : ticks'[P][y] = ticks[P][y]
    BY <1>6, <2>1, <2>2
  <2>4. \A P \in Parties \ {party[x]} : \A y \in InParty(P) : ticks'[P][y] = ticks[P][y]
    BY <2>3, InPartyPoints
  <2> QED
    BY <1>1, <2>2, <2>3, <2>4, UpdatedKeeps
<1>8. ASSUME NEW x \in Players, TicksExpire(x) PROVE SharedExperienceCurrent'
  <2>1. /\ party[x] # None /\ ticks[party[x]][x] = "recent" /\ SetTicks(x, "old")
        /\ UNCHANGED <<vars, level, place, active, enabled, bonusOf>>
    BY <1>8 DEF TicksExpire
  <2>2. /\ ticks' \in [Parties -> [Players -> {"none", "recent", "old"}]]
        /\ \A P \in Parties, y \in Players :
              /\ ticks'[P][y] \in {"recent"} => ticks[P][y] \in {"recent"}
              /\ ticks[P][y] \in {"recent", "old"} => ticks'[P][y] \in {"recent", "old"}
    BY <1>6, <2>1
  <2>3. leader' = leader /\ memberList' = memberList
    BY <2>1 DEF vars, partyVars
  <2>4. ASSUME NEW P \in Parties
        PROVE  /\ CanEnable(P, {"recent"})' => CanEnable(P, {"recent"})
               /\ CanEnable(P, {"recent", "old"}) => CanEnable(P, {"recent", "old"})'
    <3>1. InParty(P)' = InParty(P) /\ MaxLevel(InParty(P))' = MaxLevel(InParty(P))
      BY <2>1, <2>3 DEF InParty, Members, MaxLevel
    <3>2. \A y \in InParty(P) : y \in Players
      BY InPartyPoints
    <3>3. ASSUME NEW y \in InParty(P)
          PROVE  /\ CanUse(P, y, {"recent"})' => CanUse(P, y, {"recent"})
                 /\ CanUse(P, y, {"recent", "old"}) => CanUse(P, y, {"recent", "old"})'
      BY <2>1, <2>2, <2>3, <3>1, <3>2 DEF CanUse
    <3> QED
      BY <3>1, <3>3 DEF CanEnable
  <2>5. ExpTypeOK'
    BY <1>1, <2>1, <2>2 DEF ExpTypeOK
  <2> QED
    BY <2>1, <2>4, <2>5, ExperienceStep
<1> QED
  BY <1>2, <1>4, <1>5, <1>7, <1>8 DEF ExpNext

LEMMA SharedExperienceStep ==
    ASSUME PartyInv, PartyInv', SharedExperienceCurrent, [GroupsNext]_groupVars
    PROVE  SharedExperienceCurrent'
<1>1. CASE UNCHANGED <<vars, expVars>>
  <2>1. /\ UNCHANGED <<level, place, active, enabled, bonusOf, ticks>>
        /\ leader' = leader /\ memberList' = memberList
    BY <1>1 DEF vars, partyVars, expVars
  <2>2. \A P \in Parties : /\ CanEnable(P, {"recent"})' <=> CanEnable(P, {"recent"})
                           /\ CanEnable(P, {"recent", "old"})' <=> CanEnable(P, {"recent", "old"})
    BY <2>1, CanEnableReads
  <2>3. ExpTypeOK'
    BY <2>1 DEF SharedExperienceCurrent, ExpTypeOK
  <2> QED
    BY <1>1, <2>1, <2>2, <2>3, ExperienceStep
<1>2. CASE PlayerLogin \/ PlayerLogout \/ PartyStep
  <2>1. Next /\ ExperienceFollows
    BY <1>2 DEF PlayerLogin, PlayerLogout, PartyStep, Next
  <2> QED
    BY <2>1, PartyThroughNone, ExperienceAtPartyStep
<1>3. CASE ChatNext /\ UNCHANGED expVars
  <2>1. UNCHANGED vars \/ UNCHANGED <<online, partyVars>>
    BY <1>3 DEF ChatNext, Reload, RequestChannels, OpenChannel, CloseChannel, CreatePrivateChannel,
       ChannelInvite, ChannelExclude, TakenOver, LoginFails
  <2> QED
    BY <1>1, <1>3, <2>1 DEF vars
<1>4. CASE ExpNext
  BY <1>4, ExperienceHandlers
<1> QED
  BY <1>1, <1>2, <1>3, <1>4 DEF GroupsNext, groupVars
-----------------------------------------------------------------------------
(* Theorems *)

\* Groups takes no step on the parties that Party does not have.
LEMMA GroupsStepIsPartyStep == [GroupsNext]_groupVars => [Next]_vars
<1>1. ChatNext => UNCHANGED vars
  BY DEF ChatNext, Reload, RequestChannels, OpenChannel, CloseChannel, CreatePrivateChannel,
     ChannelInvite, ChannelExclude, TakenOver, LoginFails
<1>2. ExpNext => UNCHANGED vars
  BY DEF ExpNext, SetSharedExperience, Moves, LevelChanges, FightsOrRests, TicksExpire
<1>3. PlayerLogin \/ PlayerLogout \/ PartyStep => Next
  BY DEF PlayerLogin, PlayerLogout, PartyStep, Next
<1> QED
  BY <1>1, <1>2, <1>3 DEF GroupsNext, groupVars

LEMMA PartyInvInit == Init => PartyInv
<1> USE PartyAssumption DEF PartyAssumption
<1> SUFFICES ASSUME Init PROVE PartyInv
  OBVIOUS
<1>1. <<>> \in Seq(Players)
  OBVIOUS
<1>2. TypeOK
  BY <1>1 DEF Init, TypeOK
<1>3. \A P \in Parties : Members(P) = {}
  BY DEF Init, Members, ToSet
<1>4. MembersPaired
  BY <1>3 DEF Init, MembersPaired
<1>5. InvitationsPaired /\ NoEmptyParty /\ FormedTakesNoInvitation /\ GoneIsForgotten
  BY <1>3 DEF Init, InvitationsPaired, NoEmptyParty, Allocated, Empty, FormedTakesNoInvitation,
     GoneIsForgotten
<1>6. NobodyTwice
  BY DEF Init, NobodyTwice, Distinct
<1> QED
  BY <1>2, <1>4, <1>5, <1>6 DEF PartyInv, PartiesPaired

LEMMA ChannelReadersInit == Init /\ ChatInit => ChannelReaders
<1> SUFFICES ASSUME Init, ChatInit PROVE ChannelReaders
  OBVIOUS
<1>1. ChatTypeOK
  BY DEF ChatInit, ChatTypeOK
<1>2. PrivateChannelsKept
  BY DEF ChatInit, PrivateChannelsKept
<1>3. GuildsLive
  BY DEF Init, ChatInit, GuildsLive
<1> QED
  BY <1>1, <1>2, <1>3 DEF ChatInit, ChannelReaders

LEMMA SharedExperienceInit == Init /\ ExpInit => SharedExperienceCurrent
BY DEF Init, ExpInit, SharedExperienceCurrent, ExpTypeOK, Allocated

\* Leaders, members and invitations agree on both sides, whatever the players
\* do (Party by itself).
THEOREM PartiesInvariant == Spec => []PartiesPaired
<1>1. Spec => []PartyInv
  BY PartyInvInit, PartyInvStep, PTL DEF Spec
<1>2. PartyInv => PartiesPaired
  BY DEF PartyInv
<1> QED
  BY <1>1, <1>2, PTL

\* Nobody goes from one party to another without having left the first, and a
\* Party object never inherits members from the one whose address it takes.
THEOREM PartiesThroughNone == Spec => [][ThroughNone]_vars
<1>1. Spec => []PartyInv
  BY PartyInvInit, PartyInvStep, PTL DEF Spec
<1>2. PartyInv /\ [Next]_vars => [ThroughNone]_vars
  BY PartyThroughNone
<1> QED
  BY <1>1, <1>2, PTL DEF Spec

GroupsInv == PartyInv /\ ChannelReaders /\ SharedExperienceCurrent

\* The invariant of the composition: the parties are sound at every step, and
\* the channels and the shared experience rest on that.
THEOREM GroupsInvariant == GroupsSpec => []GroupsInv
<1>1. GroupsInit => GroupsInv
  BY PartyInvInit, ChannelReadersInit, SharedExperienceInit DEF GroupsInit, GroupsInv
<1>2. GroupsInv /\ [GroupsNext]_groupVars => GroupsInv'
  <2> SUFFICES ASSUME GroupsInv, [GroupsNext]_groupVars PROVE GroupsInv'
    OBVIOUS
  <2>1. PartyInv'
    BY GroupsStepIsPartyStep, PartyInvStep DEF GroupsInv
  <2>2. ChannelReaders'
    BY ChannelReadersStep DEF GroupsInv
  <2>3. SharedExperienceCurrent'
    BY <2>1, SharedExperienceStep DEF GroupsInv
  <2> QED
    BY <2>1, <2>2, <2>3 DEF GroupsInv
<1> QED
  BY <1>1, <1>2, PTL DEF GroupsSpec

\* The party state of the composition is that of a Party that runs by itself,
\* so nothing the chat or the experience does disturbs it.
THEOREM GroupsKeepParties == GroupsSpec => []PartiesPaired
<1>1. GroupsInv => PartiesPaired
  BY DEF GroupsInv, PartyInv
<1> QED
  BY <1>1, GroupsInvariant, PTL

\* Only those who may read a channel are users of it (chat.cpp), through every
\* login, logout, take-over, hand-over, disbanding and reload.
THEOREM GroupsKeepReaders == GroupsSpec => []ChannelReaders
<1>1. GroupsInv => ChannelReaders
  BY DEF GroupsInv
<1> QED
  BY <1>1, GroupsInvariant, PTL

\* The kept flag and bonus of a party are those it deserves (party.cpp).
THEOREM GroupsKeepExperience == GroupsSpec => []SharedExperienceCurrent
<1>1. GroupsInv => SharedExperienceCurrent
  BY DEF GroupsInv
<1> QED
  BY <1>1, GroupsInvariant, PTL

\* Groups implements Party: every step of the composition is a step of Party or
\* leaves the parties alone.
THEOREM GroupsImplementParty == GroupsSpec => Spec
<1>1. GroupsInit => Init
  BY DEF GroupsInit
<1> QED
  BY <1>1, GroupsStepIsPartyStep, PTL DEF GroupsSpec, Spec

HIDE ChatAssumption DEF ChatAssumption, Keys

-----------------------------------------------------------------------------
(* What clients show of tiles.  Lists first: a stack is cut in two at the  *)
(* place a message tells, and the thing goes in or out between them.       *)

LEMMA Cats ==
    ASSUME NEW S, NEW a \in Seq(S), NEW b \in Seq(S)
    PROVE  /\ a \o b \in Seq(S) /\ Len(a \o b) = Len(a) + Len(b)
           /\ DOMAIN (a \o b) = 1 .. Len(a) + Len(b)
           /\ \A n \in 1 .. Len(a) + Len(b) :
                 (a \o b)[n] = IF n <= Len(a) THEN a[n] ELSE b[n - Len(a)]
  OBVIOUS

LEMMA SameSeq ==
    ASSUME NEW S, NEW a \in Seq(S), NEW b \in Seq(S), Len(a) = Len(b),
           \A n \in 1 .. Len(a) : a[n] = b[n]
    PROVE  a = b
  OBVIOUS

\* The entries of a list with x between the parts a and b.
LEMMA With ==
    ASSUME NEW S, NEW a \in Seq(S), NEW b \in Seq(S), NEW x \in S
    PROVE  /\ a \o <<x>> \o b \in Seq(S) /\ Len(a \o <<x>> \o b) = Len(a) + Len(b) + 1
           /\ DOMAIN (a \o <<x>> \o b) = 1 .. Len(a) + Len(b) + 1
           /\ \A n \in 1 .. Len(a) + Len(b) + 1 :
                 (a \o <<x>> \o b)[n] = IF n <= Len(a) THEN a[n]
                                        ELSE IF n = Len(a) + 1 THEN x ELSE b[n - Len(a) - 1]
<1>1. <<x>> \in Seq(S) /\ Len(<<x>>) = 1 /\ <<x>>[1] = x
  OBVIOUS
<1> DEFINE o == <<x>>
<1>2. o \in Seq(S) /\ Len(o) = 1 /\ o[1] = x
  BY <1>1
<1> HIDE DEF o
<1>3. a \o o \in Seq(S) /\ Len(a \o o) = Len(a) + 1
      /\ \A n \in 1 .. Len(a) + 1 : (a \o o)[n] = IF n <= Len(a) THEN a[n] ELSE o[n - Len(a)]
  BY <1>2, Cats
<1> DEFINE c == a \o o
<1>4. c \in Seq(S) /\ Len(c) = Len(a) + 1
      /\ \A n \in 1 .. Len(a) + 1 : c[n] = IF n <= Len(a) THEN a[n] ELSE x
  <2>1. c \in Seq(S) /\ Len(c) = Len(a) + 1
    BY <1>3
  <2>2. \A n \in 1 .. Len(a) + 1 : c[n] = IF n <= Len(a) THEN a[n] ELSE o[n - Len(a)]
    BY <1>3
  <2> HIDE DEF c
  <2> DEFINE la == Len(a)
  <2>3. la \in Nat /\ \A n \in 1 .. la + 1 : c[n] = IF n <= la THEN a[n] ELSE o[n - la]
    BY <2>2
  <2> HIDE DEF la
  <2>4. \A n \in 1 .. la + 1 : ~(n <= la) => n - la = 1
    BY ONLY <2>3
  <2>5. \A n \in 1 .. la + 1 : c[n] = IF n <= la THEN a[n] ELSE x
    BY ONLY <2>3, <2>4, <1>2
  <2> QED
    BY <2>1, <2>5 DEF la
<1> HIDE DEF c
<1>5. /\ c \o b \in Seq(S) /\ Len(c \o b) = Len(c) + Len(b)
      /\ DOMAIN (c \o b) = 1 .. Len(c) + Len(b)
      /\ \A n \in 1 .. Len(c) + Len(b) : (c \o b)[n] = IF n <= Len(c) THEN c[n] ELSE b[n - Len(c)]
  BY <1>4, Cats
<1>6. Len(a) \in Nat /\ Len(b) \in Nat
  OBVIOUS
<1>7. /\ c \o b \in Seq(S) /\ Len(c \o b) = Len(a) + Len(b) + 1
      /\ DOMAIN (c \o b) = 1 .. Len(a) + Len(b) + 1
      /\ \A n \in 1 .. Len(a) + Len(b) + 1 :
            (c \o b)[n] = IF n <= Len(a) THEN a[n] ELSE IF n = Len(a) + 1 THEN x ELSE b[n - Len(a) - 1]
  BY <1>4, <1>5, <1>6
<1> QED
  BY <1>7 DEF c, o

LEMMA Assoc ==
    ASSUME NEW S, NEW a \in Seq(S), NEW b \in Seq(S), NEW c \in Seq(S)
    PROVE  (a \o b) \o c = a \o (b \o c)
<1>1. /\ a \o b \in Seq(S) /\ Len(a \o b) = Len(a) + Len(b)
      /\ \A n \in 1 .. Len(a) + Len(b) : (a \o b)[n] = IF n <= Len(a) THEN a[n] ELSE b[n - Len(a)]
  BY Cats
<1>2. /\ b \o c \in Seq(S) /\ Len(b \o c) = Len(b) + Len(c)
      /\ \A n \in 1 .. Len(b) + Len(c) : (b \o c)[n] = IF n <= Len(b) THEN b[n] ELSE c[n - Len(b)]
  BY Cats
<1> DEFINE ab == a \o b
           bc == b \o c
<1> HIDE DEF ab, bc
<1>3. /\ ab \o c \in Seq(S) /\ Len(ab \o c) = Len(ab) + Len(c)
      /\ \A n \in 1 .. Len(ab) + Len(c) : (ab \o c)[n] = IF n <= Len(ab) THEN ab[n] ELSE c[n - Len(ab)]
  BY <1>1, Cats DEF ab
<1>4. /\ a \o bc \in Seq(S) /\ Len(a \o bc) = Len(a) + Len(bc)
      /\ \A n \in 1 .. Len(a) + Len(bc) : (a \o bc)[n] = IF n <= Len(a) THEN a[n] ELSE bc[n - Len(a)]
  BY <1>2, Cats DEF bc
<1>5. Len(a) \in Nat /\ Len(b) \in Nat /\ Len(c) \in Nat
  OBVIOUS
<1>6. Len(ab) = Len(a) + Len(b) /\ Len(bc) = Len(b) + Len(c)
  BY <1>1, <1>2 DEF ab, bc
<1>7. \A n \in 1 .. Len(a) + Len(b) : ab[n] = IF n <= Len(a) THEN a[n] ELSE b[n - Len(a)]
  BY <1>1 DEF ab
<1>8. \A n \in 1 .. Len(b) + Len(c) : bc[n] = IF n <= Len(b) THEN b[n] ELSE c[n - Len(b)]
  BY <1>2 DEF bc
<1> DEFINE la == Len(a)
           lb == Len(b)
           lc == Len(c)
           l == ab \o c
           r == a \o bc
<1>12. la \in Nat /\ lb \in Nat /\ lc \in Nat
  BY <1>5
<1>13. Len(l) = la + lb + lc
       /\ \A n \in 1 .. la + lb + lc : l[n] = IF n <= la + lb THEN ab[n] ELSE c[n - (la + lb)]
  BY <1>3, <1>5, <1>6
<1>14. Len(r) = la + lb + lc
       /\ \A n \in 1 .. la + lb + lc : r[n] = IF n <= la THEN a[n] ELSE bc[n - la]
  BY <1>4, <1>5, <1>6
<1>15. \A n \in 1 .. la + lb : ab[n] = IF n <= la THEN a[n] ELSE b[n - la]
  BY <1>7
<1>16. \A n \in 1 .. lb + lc : bc[n] = IF n <= lb THEN b[n] ELSE c[n - lb]
  BY <1>8
<1> HIDE DEF la, lb, lc, l, r
<1>9. ASSUME NEW n \in 1 .. Len(l) PROVE l[n] = r[n]
  <2>1. n \in Int /\ n >= 1 /\ n <= la + lb + lc
    BY <1>12, <1>13
  <2>2. CASE n <= la
    <3>1. n \in 1 .. la + lb + lc /\ n \in 1 .. la + lb
      BY <2>1, <2>2, <1>12
    <3> QED
      BY <3>1, <2>2, <1>13, <1>14, <1>15
  <2>3. CASE n > la /\ n <= la + lb
    <3>0. n \in 1 .. la + lb + lc /\ n \in 1 .. la + lb /\ ~(n <= la)
      BY <2>1, <2>3, <1>12
    <3>1. l[n] = b[n - la] /\ r[n] = bc[n - la]
      BY <3>0, <2>3, <1>13, <1>14, <1>15
    <3>2. n - la \in 1 .. lb + lc /\ n - la <= lb
      BY <2>1, <2>3, <1>12
    <3> QED
      BY <3>1, <3>2, <1>16
  <2>4. CASE n > la + lb
    <3>0. n \in 1 .. la + lb + lc /\ ~(n <= la + lb) /\ ~(n <= la)
      BY <2>1, <2>4, <1>12
    <3>1. l[n] = c[n - (la + lb)] /\ r[n] = bc[n - la]
      BY <3>0, <1>13, <1>14
    <3>2. n - la \in 1 .. lb + lc /\ ~(n - la <= lb) /\ (n - la) - lb = n - (la + lb)
      BY <2>1, <2>4, <1>12
    <3> QED
      BY <3>1, <3>2, <1>16
  <2> QED
    BY <2>1, <2>2, <2>3, <2>4, <1>12
<1>11. l = r
  <2>1. l \in Seq(S) /\ r \in Seq(S)
    BY <1>3, <1>4 DEF l, r
  <2> QED
    BY <2>1, <1>9, <1>13, <1>14, SameSeq
<1> QED
  BY <1>11 DEF ab, bc, l, r

\* A list is what comes before a place, what is there, and what comes after.
LEMMA Split ==
    ASSUME NEW S, NEW s \in Seq(S), NEW k \in DOMAIN s
    PROVE  LET a == SubSeq(s, 1, k - 1)
               b == SubSeq(s, k + 1, Len(s))
           IN  /\ a \in Seq(S) /\ b \in Seq(S) /\ Len(a) = k - 1 /\ Len(b) = Len(s) - k
               /\ s[k] \in S /\ s = a \o <<s[k]>> \o b /\ RemoveAt(s, k) = a \o b
<1> DEFINE a == SubSeq(s, 1, k - 1)
           b == SubSeq(s, k + 1, Len(s))
<1>1. Len(s) \in Nat /\ k \in 1 .. Len(s) /\ s[k] \in S
  OBVIOUS
<1>2. a \in Seq(S) /\ Len(a) = k - 1 /\ \A n \in 1 .. k - 1 : a[n] = s[n]
  BY <1>1
<1>3. b \in Seq(S) /\ Len(b) = Len(s) - k /\ \A n \in 1 .. Len(s) - k : b[n] = s[k + n]
  BY <1>1
<1>4. RemoveAt(s, k) = a \o b
  BY DEF RemoveAt
<1> HIDE DEF a, b
<1> DEFINE t == a \o <<s[k]>> \o b
           x == s[k]
<1>5. /\ t \in Seq(S) /\ Len(t) = Len(s)
      /\ \A n \in 1 .. Len(s) : t[n] = IF n <= k - 1 THEN a[n] ELSE IF n = k THEN s[k] ELSE b[n - k]
  <2> HIDE DEF x
  <2>1. x \in S /\ a \in Seq(S) /\ b \in Seq(S)
    BY <1>1, <1>2, <1>3 DEF x
  <2>2. /\ a \o <<x>> \o b \in Seq(S) /\ Len(a \o <<x>> \o b) = Len(a) + Len(b) + 1
        /\ \A n \in 1 .. Len(a) + Len(b) + 1 :
              (a \o <<x>> \o b)[n] = IF n <= Len(a) THEN a[n]
                                     ELSE IF n = Len(a) + 1 THEN x ELSE b[n - Len(a) - 1]
    BY <2>1, With
  <2>3. Len(a) + Len(b) + 1 = Len(s) /\ Len(a) + 1 = k /\ \A n \in Int : n - Len(a) - 1 = n - k
    BY <1>1, <1>2, <1>3
  <2>4. t = a \o <<x>> \o b
    BY DEF x
  <2> HIDE DEF t
  <2>5. ASSUME NEW n \in 1 .. Len(s)
        PROVE  t[n] = IF n <= k - 1 THEN a[n] ELSE IF n = k THEN x ELSE b[n - k]
    <3>1. n \in 1 .. Len(a) + Len(b) + 1 /\ Len(a) = k - 1 /\ n \in Int
      BY <2>3, <1>2
    <3>2. t[n] = IF n <= Len(a) THEN a[n] ELSE IF n = Len(a) + 1 THEN x ELSE b[n - Len(a) - 1]
      BY <3>1, <2>2, <2>4
    <3>3. n - Len(a) - 1 = n - k
      BY <2>3, <3>1
    <3> QED
      BY <3>1, <3>2, <3>3, <2>3
  <2> QED
    BY <2>2, <2>3, <2>4, <2>5 DEF x
<1> HIDE DEF t
<1>7. ASSUME NEW n \in 1 .. Len(s) PROVE s[n] = t[n]
  <2>1. CASE n <= k - 1
    BY <2>1, <1>1, <1>2, <1>5
  <2>2. CASE n = k
    BY <2>2, <1>1, <1>5
  <2>3. CASE n > k
    <3>1. n - k \in 1 .. Len(s) - k /\ b[n - k] = s[k + (n - k)] /\ k + (n - k) = n
      BY <2>3, <1>1, <1>3
    <3> QED
      BY <3>1, <2>3, <1>1, <1>5
  <2> QED
    BY <2>1, <2>2, <2>3, <1>1
<1>8. s = t
  BY <1>5, <1>7, SameSeq
<1> QED
  BY <1>1, <1>2, <1>3, <1>4, <1>8 DEF a, b, t

\* The parts of s before place k and from there, and what an insertion makes of them.
PartBefore(s, k) == SubSeq(s, 1, k - 1)
PartFrom(s, k) == SubSeq(s, k, Len(s))
Opened(S, s, k, x, a, b) ==
    /\ a \in Seq(S) /\ b \in Seq(S) /\ Len(a) = k - 1 /\ Len(b) = Len(s) - k + 1
    /\ s = a \o b /\ InsertAt(s, k, x) = a \o <<x>> \o b

LEMMA SplitInsert ==
    ASSUME NEW S, NEW s \in Seq(S), NEW k \in 1 .. Len(s) + 1, NEW x \in S
    PROVE  Opened(S, s, k, x, PartBefore(s, k), PartFrom(s, k))
<1> DEFINE a == SubSeq(s, 1, k - 1)
           b == SubSeq(s, k, Len(s))
<1>1. Len(s) \in Nat /\ k \in 1 .. Len(s) + 1
  OBVIOUS
<1>2. a \in Seq(S) /\ Len(a) = k - 1 /\ \A n \in 1 .. k - 1 : a[n] = s[n]
  BY <1>1
<1>3. b \in Seq(S) /\ Len(b) = Len(s) - k + 1 /\ \A n \in 1 .. Len(s) - k + 1 : b[n] = s[k + n - 1]
  BY <1>1
<1>4. InsertAt(s, k, x) = a \o <<x>> \o b
  BY DEF InsertAt
<1> HIDE DEF a, b
<1>5. /\ a \o b \in Seq(S) /\ Len(a \o b) = Len(a) + Len(b)
      /\ \A n \in 1 .. Len(a) + Len(b) : (a \o b)[n] = IF n <= Len(a) THEN a[n] ELSE b[n - Len(a)]
  BY <1>2, <1>3, Cats
<1> DEFINE u == a \o b
<1>6. Len(u) = Len(s) /\ \A n \in 1 .. Len(s) : u[n] = IF n <= k - 1 THEN a[n] ELSE b[n - (k - 1)]
  <2>1. Len(a) = k - 1 /\ Len(a) + Len(b) = Len(s)
    BY <1>1, <1>2, <1>3
  <2>2. /\ Len(u) = Len(a) + Len(b)
        /\ \A n \in 1 .. Len(a) + Len(b) : u[n] = IF n <= Len(a) THEN a[n] ELSE b[n - Len(a)]
    BY <1>5
  <2> HIDE DEF u
  <2> QED
    BY <2>1, <2>2
<1> HIDE DEF u
<1>7. ASSUME NEW n \in 1 .. Len(s) PROVE s[n] = u[n]
  <2>1. CASE n <= k - 1
    BY <2>1, <1>1, <1>2, <1>6
  <2>2. CASE n > k - 1
    <3>1. n - (k - 1) \in 1 .. Len(s) - k + 1 /\ k + (n - (k - 1)) - 1 = n
      BY <2>2, <1>1
    <3>2. b[n - (k - 1)] = s[n]
      BY <3>1, <1>3
    <3> QED
      BY <2>2, <3>2, <1>1, <1>6
  <2> QED
    BY <2>1, <2>2, <1>1
<1>8. s = u
  <2>1. u \in Seq(S)
    BY <1>5 DEF u
  <2> QED
    BY <2>1, <1>6, <1>7, SameSeq
<1> QED
  BY <1>1, <1>2, <1>3, <1>4, <1>8 DEF a, b, u, Opened, PartBefore, PartFrom

Opens(a, b, x) == InsertAt(a \o b, Len(a) + 1, x) = a \o <<x>> \o b
Closes(a, b, x) == RemoveAt(a \o <<x>> \o b, Len(a) + 1) = a \o b

LEMMA SplitsOf ==
    ASSUME NEW S, NEW a \in Seq(S), NEW b \in Seq(S), NEW x \in S
    PROVE  Opens(a, b, x) /\ Closes(a, b, x)
<1> DEFINE u == a \o b
           t == a \o <<x>> \o b
<1>1. /\ u \in Seq(S) /\ Len(u) = Len(a) + Len(b)
      /\ \A n \in 1 .. Len(a) + Len(b) : u[n] = IF n <= Len(a) THEN a[n] ELSE b[n - Len(a)]
  BY Cats
<1>2. /\ t \in Seq(S) /\ Len(t) = Len(a) + Len(b) + 1
      /\ \A n \in 1 .. Len(a) + Len(b) + 1 :
            t[n] = IF n <= Len(a) THEN a[n] ELSE IF n = Len(a) + 1 THEN x ELSE b[n - Len(a) - 1]
  BY With
<1>3. Len(a) \in Nat /\ Len(b) \in Nat
  OBVIOUS
<1> HIDE DEF u, t
<1>4. SubSeq(u, 1, Len(a) + 1 - 1) = a
  <2> DEFINE v == SubSeq(u, 1, Len(a) + 1 - 1)
  <2>1. v \in Seq(S) /\ Len(v) = Len(a) /\ \A n \in 1 .. Len(a) : v[n] = u[n]
    BY <1>1, <1>3
  <2>2. \A n \in 1 .. Len(a) : v[n] = a[n]
    BY <2>1, <1>1, <1>3
  <2> HIDE DEF v
  <2>3. v = a
    BY <2>1, <2>2, SameSeq
  <2> QED
    BY <2>3 DEF v
<1>5. SubSeq(u, Len(a) + 1, Len(u)) = b
  <2> DEFINE v == SubSeq(u, Len(a) + 1, Len(u))
  <2>1. v \in Seq(S) /\ Len(v) = Len(b) /\ \A n \in 1 .. Len(b) : v[n] = u[Len(a) + n]
    BY <1>1, <1>3
  <2>2. \A n \in 1 .. Len(b) : v[n] = b[n]
    <3> TAKE n \in 1 .. Len(b)
    <3>1. Len(a) + n \in 1 .. Len(a) + Len(b) /\ ~(Len(a) + n <= Len(a)) /\ (Len(a) + n) - Len(a) = n
      BY <1>3
    <3> HIDE DEF v
    <3> QED
      BY <3>1, <2>1, <1>1
  <2> HIDE DEF v
  <2>3. v = b
    BY <2>1, <2>2, SameSeq
  <2> QED
    BY <2>3 DEF v
<1>6. SubSeq(t, 1, Len(a) + 1 - 1) = a
  <2> DEFINE v == SubSeq(t, 1, Len(a) + 1 - 1)
  <2>1. v \in Seq(S) /\ Len(v) = Len(a) /\ \A n \in 1 .. Len(a) : v[n] = t[n]
    BY <1>2, <1>3
  <2>2. \A n \in 1 .. Len(a) : v[n] = a[n]
    BY <2>1, <1>2, <1>3
  <2> HIDE DEF v
  <2>3. v = a
    BY <2>1, <2>2, SameSeq
  <2> QED
    BY <2>3 DEF v
<1>7. SubSeq(t, Len(a) + 1 + 1, Len(t)) = b
  <2> DEFINE v == SubSeq(t, Len(a) + 1 + 1, Len(t))
  <2>1. v \in Seq(S) /\ Len(v) = Len(b) /\ \A n \in 1 .. Len(b) : v[n] = t[Len(a) + 1 + n]
    BY <1>2, <1>3
  <2>2. \A n \in 1 .. Len(b) : v[n] = b[n]
    <3> TAKE n \in 1 .. Len(b)
    <3>1. Len(a) + 1 + n \in 1 .. Len(a) + Len(b) + 1 /\ (Len(a) + 1 + n) - Len(a) - 1 = n
      BY <1>3
    <3> QED
      BY <3>1, <2>1, <1>2, <1>3
  <2> HIDE DEF v
  <2>3. v = b
    BY <2>1, <2>2, SameSeq
  <2> QED
    BY <2>3 DEF v
<1> DEFINE k == Len(a) + 1
<1>8. /\ InsertAt(u, k, x) = SubSeq(u, 1, k - 1) \o <<x>> \o SubSeq(u, k, Len(u))
      /\ RemoveAt(t, k) = SubSeq(t, 1, k - 1) \o SubSeq(t, k + 1, Len(t))
  <2> HIDE DEF k
  <2> QED
    BY DEF InsertAt, RemoveAt
<1>9. /\ SubSeq(u, 1, k - 1) = a /\ SubSeq(u, k, Len(u)) = b
      /\ SubSeq(t, 1, k - 1) = a /\ SubSeq(t, k + 1, Len(t)) = b
  BY <1>4, <1>5, <1>6, <1>7
<1> HIDE DEF k
<1>10. InsertAt(u, k, x) = a \o <<x>> \o b /\ RemoveAt(t, k) = a \o b
  BY <1>8, <1>9
<1> QED
  BY ONLY <1>10 DEF u, t, k, Opens, Closes

-----------------------------------------------------------------------------
(* What a client makes of a message when it showed the stack as it was.    *)

LimitIs == Limit \in Nat /\ Limit > 2

LEMMA CutIs ==
    ASSUME LimitIs, NEW S, NEW s \in Seq(S)
    PROVE  /\ Cut(s) \in Seq(S) /\ Len(Cut(s)) = (IF Len(s) < Limit THEN Len(s) ELSE Limit)
           /\ \A n \in 1 .. Len(Cut(s)) : Cut(s)[n] = s[n]
           /\ Len(s) <= Limit => Cut(s) = s
<1>1. Len(s) \in Nat /\ Limit \in Nat
  BY DEF LimitIs
<1> DEFINE l == IF Len(s) < Limit THEN Len(s) ELSE Limit
<1>2. l \in Nat /\ l <= Len(s) /\ (Len(s) <= Limit => l = Len(s))
  BY <1>1
<1>3. Cut(s) = SubSeq(s, 1, l)
  BY DEF Cut
<1> HIDE DEF l
<1> DEFINE c == SubSeq(s, 1, l)
<1>4. c \in Seq(S) /\ Len(c) = l /\ \A n \in 1 .. l : c[n] = s[n]
  BY <1>1, <1>2
<1> HIDE DEF c
<1>5. Len(s) <= Limit => c = s
  BY <1>1, <1>2, <1>4, SameSeq
<1>6. Cut(s) = c
  BY <1>3 DEF c
<1> QED
  BY <1>4, <1>5, <1>6 DEF l

LEMMA SameCut ==
    ASSUME LimitIs, NEW S, NEW s \in Seq(S), NEW t \in Seq(S),
           Len(s) = Len(t) \/ (Len(s) >= Limit /\ Len(t) >= Limit),
           \A n \in 1 .. Len(s) : n <= Limit => s[n] = t[n]
    PROVE  Cut(s) = Cut(t)
<1>1. Len(s) \in Nat /\ Len(t) \in Nat /\ Limit \in Nat
  BY DEF LimitIs
<1>2. /\ Cut(s) \in Seq(S) /\ Len(Cut(s)) = (IF Len(s) < Limit THEN Len(s) ELSE Limit)
      /\ \A n \in 1 .. Len(Cut(s)) : Cut(s)[n] = s[n]
  BY CutIs
<1>3. /\ Cut(t) \in Seq(S) /\ Len(Cut(t)) = (IF Len(t) < Limit THEN Len(t) ELSE Limit)
      /\ \A n \in 1 .. Len(Cut(t)) : Cut(t)[n] = t[n]
  BY CutIs
<1>4. Len(Cut(s)) = Len(Cut(t)) /\ Len(Cut(s)) <= Limit /\ Len(Cut(s)) <= Len(s)
  BY <1>1, <1>2, <1>3
<1>5. \A n \in 1 .. Len(Cut(s)) : Cut(s)[n] = Cut(t)[n]
  BY <1>1, <1>2, <1>3, <1>4
<1> QED
  BY <1>2, <1>3, <1>4, <1>5, SameSeq

LEMMA Insertion ==
    ASSUME LimitIs, NEW S, NEW a \in Seq(S), NEW b \in Seq(S), NEW x \in S
    PROVE  Inserted(Cut(a \o b), Told(Len(a) + 1), x) = Cut(a \o <<x>> \o b)
<1> DEFINE s == a \o b
           t == a \o <<x>> \o b
           k == Len(a) + 1
           v == Cut(s)
<1>1. /\ s \in Seq(S) /\ Len(s) = Len(a) + Len(b)
      /\ \A n \in 1 .. Len(a) + Len(b) : s[n] = IF n <= Len(a) THEN a[n] ELSE b[n - Len(a)]
  BY Cats
<1>2. /\ t \in Seq(S) /\ Len(t) = Len(a) + Len(b) + 1
      /\ \A n \in 1 .. Len(a) + Len(b) + 1 :
            t[n] = IF n <= Len(a) THEN a[n] ELSE IF n = Len(a) + 1 THEN x ELSE b[n - Len(a) - 1]
  BY With
<1>3. Len(a) \in Nat /\ Len(b) \in Nat /\ Limit \in Nat /\ Limit > 2 /\ k \in Nat /\ k = Len(a) + 1
  BY DEF LimitIs
<1> HIDE DEF s, t, k
<1>4. /\ v \in Seq(S) /\ Len(v) = (IF Len(s) < Limit THEN Len(s) ELSE Limit)
      /\ \A n \in 1 .. Len(v) : v[n] = s[n]
  BY <1>1, CutIs
<1> HIDE DEF v
<1>5. CASE k > Limit
  <2>1. Told(k) = 0 /\ Inserted(v, Told(k), x) = v
    BY <1>3, <1>5 DEF Told, Inserted
  <2>2. Len(s) >= Limit /\ Len(t) >= Limit
    BY <1>1, <1>2, <1>3, <1>5
  <2>3. \A n \in 1 .. Len(s) : n <= Limit => s[n] = t[n]
    <3> TAKE n \in 1 .. Len(s)
    <3> HAVE n <= Limit
    <3>1. n \in 1 .. Len(a) + Len(b) /\ n \in 1 .. Len(a) + Len(b) + 1 /\ n <= Len(a)
      BY <1>1, <1>3, <1>5
    <3> QED
      BY <3>1, <1>1, <1>2
  <2>4. Cut(s) = Cut(t)
    BY <2>2, <2>3, <1>1, <1>2, SameCut
  <2>5. Inserted(v, Told(k), x) = Cut(t)
    BY <2>1, <2>4 DEF v
  <2> QED
    BY <2>5 DEF k, s, t, v
<1>6. CASE k <= Limit
  <2>1. Told(k) = k /\ k # 0 /\ k <= Len(v) + 1 /\ k \in 1 .. Len(v) + 1 /\ Len(v) \in Nat
    BY <1>1, <1>3, <1>4, <1>6 DEF Told
  <2>2. (IF k > Len(v) THEN Len(v) + 1 ELSE k) = k
    BY <2>1, <1>3
  <2>3. Inserted(v, Told(k), x) = Cut(InsertAt(v, k, x))
    BY <2>1, <2>2 DEF Inserted
  <2> DEFINE p == PartBefore(v, k)
             q == PartFrom(v, k)
  <2>14. v \in Seq(S) /\ k \in 1 .. Len(v) + 1 /\ x \in S
    BY <1>4, <2>1
  <2>4. /\ p \in Seq(S) /\ q \in Seq(S) /\ Len(p) = k - 1 /\ Len(q) = Len(v) - k + 1
        /\ v = p \o q /\ InsertAt(v, k, x) = p \o <<x>> \o q
    <3>1. Opened(S, v, k, x, p, q)
      BY ONLY <2>14, SplitInsert
    <3> HIDE DEF p, q
    <3> QED
      BY ONLY <3>1 DEF Opened
  <2>5. /\ \A n \in 1 .. k - 1 : p[n] = v[n]
        /\ \A n \in 1 .. Len(v) - k + 1 : q[n] = v[k + n - 1]
    BY <1>4, <2>1 DEF PartBefore, PartFrom
  <2> HIDE DEF p, q
  <2> DEFINE u == p \o <<x>> \o q
  <2>6. /\ u \in Seq(S) /\ Len(u) = Len(p) + Len(q) + 1
        /\ \A n \in 1 .. Len(p) + Len(q) + 1 :
              u[n] = IF n <= Len(p) THEN p[n] ELSE IF n = Len(p) + 1 THEN x ELSE q[n - Len(p) - 1]
    <3>1. p \in Seq(S) /\ q \in Seq(S)
      BY <2>4
    <3> QED
      BY <3>1, With
  <2> HIDE DEF u
  <2>7. Len(u) = Len(v) + 1 /\ Len(t) = Len(s) + 1
    <3>1. Len(u) = (k - 1) + (Len(v) - k + 1) + 1
      BY <2>4, <2>6
    <3> QED
      BY <3>1, <2>1, <1>1, <1>2, <1>3
  <2>8. Len(u) = Len(t) \/ (Len(u) >= Limit /\ Len(t) >= Limit)
    BY <2>7, <1>1, <1>3, <1>4
  <2>9. ASSUME NEW n \in 1 .. Len(u), n <= Limit PROVE u[n] = t[n]
    <3>1. n \in 1 .. Len(a) + Len(b) + 1 /\ n \in 1 .. Len(p) + Len(q) + 1 /\ n \in Int
          /\ Len(p) = Len(a) /\ Len(v) <= Len(s)
      <4>1. Len(p) = Len(a)
        BY <2>4, <1>3
      <4>2. Len(v) <= Len(s)
        BY <1>1, <1>3, <1>4
      <4>3. Len(u) = Len(p) + Len(q) + 1 /\ Len(u) = Len(v) + 1 /\ Len(s) = Len(a) + Len(b)
        BY <2>6, <2>7, <1>1
      <4>4. n \in 1 .. Len(p) + Len(q) + 1 /\ n \in Int /\ n >= 1 /\ n <= Len(v) + 1
        BY <4>3, <2>1
      <4>5. n \in 1 .. Len(a) + Len(b) + 1
        BY <4>2, <4>3, <4>4, <2>1, <1>3
      <4> QED
        BY <4>1, <4>2, <4>4, <4>5
    <3>2. CASE n <= Len(a)
      <4>1. u[n] = p[n] /\ t[n] = a[n] /\ n \in 1 .. k - 1 /\ n \in 1 .. Len(v) /\ n \in 1 .. Len(a) + Len(b)
        BY <3>1, <3>2, <2>1, <2>6, <1>2, <1>3
      <4> QED
        BY <4>1, <3>2, <2>5, <1>1, <1>4
    <3>3. CASE n = Len(a) + 1
      <4>1. ~(n <= Len(a)) /\ ~(n <= Len(p)) /\ n = Len(p) + 1
        BY <3>1, <3>3
      <4> QED
        BY <4>1, <3>1, <3>3, <2>6, <1>2
    <3>4. CASE n > Len(a) + 1
      <4>1. ~(n <= Len(a)) /\ n # Len(a) + 1
        BY <3>1, <3>4, <1>3
      <4>2. u[n] = q[n - Len(p) - 1] /\ t[n] = b[n - Len(a) - 1]
        BY <4>1, <3>1, <2>6, <1>2
      <4>3. n - Len(p) - 1 \in 1 .. Len(v) - k + 1 /\ k + (n - Len(p) - 1) - 1 = n - 1
        BY <3>1, <3>4, <2>1, <2>7, <1>3
      <4>4. u[n] = v[n - 1] /\ n - 1 \in 1 .. Len(v)
        BY <4>2, <4>3, <2>5, <3>1, <3>4, <2>7, <2>1, <1>3
      <4>5. n - 1 \in 1 .. Len(a) + Len(b) /\ ~(n - 1 <= Len(a)) /\ (n - 1) - Len(a) = n - Len(a) - 1
        BY <3>1, <3>4, <1>3
      <4> QED
        BY <4>2, <4>4, <4>5, <1>1, <1>4
    <3> QED
      BY <3>1, <3>2, <3>3, <3>4, <1>3
  <2>15. InsertAt(v, k, x) = u
    BY <2>4 DEF u
  <2>10. Cut(u) = Cut(t)
    BY <2>6, <2>8, <2>9, <1>2, SameCut
  <2>11. Inserted(v, Told(k), x) = Cut(t)
    BY <2>3, <2>15, <2>10
  <2> QED
    BY <2>11 DEF k, s, t, v
<1> QED
  BY <1>3, <1>5, <1>6

\* Without the stack being cut, a removal at a place told or not takes the same away.
LEMMA Removal ==
    ASSUME LimitIs, NEW S, NEW a \in Seq(S), NEW b \in Seq(S), NEW x \in S,
           Len(a) + Len(b) + 1 <= Limit
    PROVE  /\ Removed(Cut(a \o <<x>> \o b), Told(Len(a) + 1)) = Cut(a \o b)
           /\ Removed(Cut(a \o <<x>> \o b), Len(a) + 1) = Cut(a \o b)
<1> DEFINE s == a \o b
           t == a \o <<x>> \o b
           k == Len(a) + 1
<1>1. s \in Seq(S) /\ Len(s) = Len(a) + Len(b)
  BY Cats
<1>2. t \in Seq(S) /\ Len(t) = Len(a) + Len(b) + 1 /\ DOMAIN t = 1 .. Len(a) + Len(b) + 1
  BY With
<1>3. RemoveAt(t, k) = s
  BY SplitsOf DEF Opens, Closes
<1>4. Len(a) \in Nat /\ Len(b) \in Nat /\ Limit \in Nat /\ k = Len(a) + 1
  BY DEF LimitIs
<1> HIDE DEF s, t, k
<1>5. Cut(s) = s /\ Cut(t) = t
  BY <1>1, <1>2, <1>4, CutIs
<1>6. Told(k) = k /\ k \in DOMAIN t
  BY <1>2, <1>4 DEF Told
<1>7. Removed(Cut(t), Told(k)) = Cut(s) /\ Removed(Cut(t), k) = Cut(s)
  BY <1>3, <1>5, <1>6 DEF Removed
<1> QED
  BY <1>7 DEF s, t, k

LEMMA Replacement ==
    ASSUME LimitIs, NEW S, NEW a \in Seq(S), NEW b \in Seq(S), NEW x \in S, NEW y \in S
    PROVE  Replaced(Cut(a \o <<x>> \o b), Told(Len(a) + 1), y) = Cut(a \o <<y>> \o b)
<1> DEFINE s == a \o <<x>> \o b
           t == a \o <<y>> \o b
           k == Len(a) + 1
           v == Cut(s)
           w == Cut(t)
<1>1. /\ s \in Seq(S) /\ Len(s) = Len(a) + Len(b) + 1
      /\ \A n \in 1 .. Len(a) + Len(b) + 1 :
            s[n] = IF n <= Len(a) THEN a[n] ELSE IF n = Len(a) + 1 THEN x ELSE b[n - Len(a) - 1]
  BY With
<1>2. /\ t \in Seq(S) /\ Len(t) = Len(a) + Len(b) + 1
      /\ \A n \in 1 .. Len(a) + Len(b) + 1 :
            t[n] = IF n <= Len(a) THEN a[n] ELSE IF n = Len(a) + 1 THEN y ELSE b[n - Len(a) - 1]
  BY With
<1>3. Len(a) \in Nat /\ Len(b) \in Nat /\ Limit \in Nat /\ k = Len(a) + 1
  BY DEF LimitIs
<1> HIDE DEF s, t, k
<1>4. /\ v \in Seq(S) /\ Len(v) = (IF Len(s) < Limit THEN Len(s) ELSE Limit)
      /\ \A n \in 1 .. Len(v) : v[n] = s[n]
  BY <1>1, CutIs
<1>5. /\ w \in Seq(S) /\ Len(w) = (IF Len(t) < Limit THEN Len(t) ELSE Limit)
      /\ \A n \in 1 .. Len(w) : w[n] = t[n]
  BY <1>2, CutIs
<1> HIDE DEF v, w
<1>6. Len(v) = Len(w) /\ Len(v) \in Nat /\ Len(v) <= Len(a) + Len(b) + 1 /\ Len(v) <= Limit
      /\ (k <= Limit <=> k <= Len(v))
  BY <1>1, <1>2, <1>3, <1>4, <1>5
<1>7. \A n \in 1 .. Len(v) : n # k => w[n] = v[n]
  <2> TAKE n \in 1 .. Len(v)
  <2> HAVE n # k
  <2>1. n \in 1 .. Len(a) + Len(b) + 1 /\ n # Len(a) + 1 /\ n \in 1 .. Len(w)
    BY <1>3, <1>6
  <2>2. s[n] = t[n]
    <3>1. s[n] = (IF n <= Len(a) THEN a[n] ELSE IF n = Len(a) + 1 THEN x ELSE b[n - Len(a) - 1])
      BY <2>1, <1>1
    <3>2. t[n] = (IF n <= Len(a) THEN a[n] ELSE IF n = Len(a) + 1 THEN y ELSE b[n - Len(a) - 1])
      BY <2>1, <1>2
    <3> QED
      BY <2>1, <3>1, <3>2
  <2> QED
    BY <2>1, <2>2, <1>4, <1>5
<1>8. CASE k > Limit
  <2>1. Told(k) = 0 /\ 0 \notin DOMAIN v /\ Replaced(v, Told(k), y) = v
    BY <1>3, <1>4, <1>8 DEF Told, Replaced
  <2>2. \A n \in 1 .. Len(v) : n # k
    BY <1>3, <1>6, <1>8
  <2>3. v = w
    BY <2>2, <1>4, <1>5, <1>6, <1>7, SameSeq
  <2> QED
    BY <2>1, <2>3 DEF k, s, t, v, w
<1>9. CASE k <= Limit
  <2>1. Told(k) = k /\ k \in 1 .. Len(v) /\ DOMAIN v = 1 .. Len(v)
    BY <1>3, <1>4, <1>6, <1>9 DEF Told
  <2> DEFINE z == [v EXCEPT ![k] = y]
  <2>2. Replaced(v, Told(k), y) = z
    BY <2>1 DEF Replaced
  <2>3. z \in Seq(S) /\ Len(z) = Len(v) /\ \A n \in 1 .. Len(v) : z[n] = IF n = k THEN y ELSE v[n]
    BY <1>4, <2>1
  <2> HIDE DEF z
  <2>4. w[k] = y
    <3>1. k \in 1 .. Len(w) /\ k \in 1 .. Len(a) + Len(b) + 1 /\ ~(k <= Len(a)) /\ k = Len(a) + 1
      BY <2>1, <1>3, <1>6
    <3> QED
      BY <3>1, <1>2, <1>5
  <2>5. \A n \in 1 .. Len(z) : z[n] = w[n]
    BY <2>3, <2>4, <1>7
  <2>6. z = w
    BY <2>3, <2>5, <1>5, <1>6, SameSeq
  <2> QED
    BY <2>2, <2>6 DEF k, s, t, v, w
<1> QED
  BY <1>3, <1>8, <1>9

\* A creature that arrives is put behind the always-on-top items the client shows.
LEMMA Arrival ==
    ASSUME LimitIs, NEW S, NEW a \in Seq(S), NEW b \in Seq(S), NEW x \in S,
           \A n \in DOMAIN a : a[n] \in TopItems, \A n \in DOMAIN b : b[n] \notin TopItems
    PROVE  Arrived(Cut(a \o b), x) = Cut(a \o <<x>> \o b)
<1> DEFINE s == a \o b
           k == Len(a) + 1
           v == Cut(s)
           T == {n \in DOMAIN v : v[n] \in TopItems}
           m == IF Len(a) < Limit THEN Len(a) ELSE Limit
<1>1. /\ s \in Seq(S) /\ Len(s) = Len(a) + Len(b)
      /\ \A n \in 1 .. Len(a) + Len(b) : s[n] = IF n <= Len(a) THEN a[n] ELSE b[n - Len(a)]
  BY Cats
<1>2. /\ Len(a) \in Nat /\ Len(b) \in Nat /\ Limit \in Nat /\ k = Len(a) + 1
      /\ DOMAIN a = 1 .. Len(a) /\ DOMAIN b = 1 .. Len(b)
  BY DEF LimitIs
<1>3. m \in Nat
  BY <1>2
<1>12. Len(a) \in Nat /\ Limit \in Nat
  BY <1>2
<1>13. Len(a) >= Limit => m = Limit
  BY ONLY <1>12
<1> HIDE DEF s, k
<1>4. /\ v \in Seq(S) /\ Len(v) = (IF Len(s) < Limit THEN Len(s) ELSE Limit)
      /\ \A n \in 1 .. Len(v) : v[n] = s[n]
  BY <1>1, CutIs
<1>5. DOMAIN v = 1 .. Len(v) /\ Len(v) \in Nat /\ Len(v) <= Len(a) + Len(b) /\ m <= Len(v) /\ m <= Len(a)
      /\ (m < Len(a) => Len(v) = m)
  BY <1>1, <1>2, <1>4
<1>14. Len(v) \in Nat /\ m <= Len(v) /\ m <= Len(a)
  BY <1>5
<1> HIDE DEF v, m
<1>15. ASSUME NEW n \in 1 .. m PROVE n <= Len(a) /\ n <= Len(v)
  BY <1>3, <1>12, <1>14, <1>15
<1>6. T = 1 .. m
  <2>1. ASSUME NEW n \in 1 .. m PROVE n \in T
    <3> HIDE DEF T
    <3>0. n \in Int /\ n >= 1 /\ n <= m
      BY <1>3
    <3>4. n <= Len(a) /\ n <= Len(v)
      BY <1>15
    <3>1. n \in 1 .. Len(v) /\ n \in 1 .. Len(a) + Len(b) /\ n <= Len(a) /\ n \in DOMAIN a
      BY <3>0, <3>4, <1>2, <1>5
    <3>2. v[n] = a[n]
      BY <3>1, <1>1, <1>4
    <3> QED
      BY <3>1, <3>2, <1>5 DEF T
  <2>2. ASSUME NEW n \in T PROVE n \in 1 .. m
    <3>1. n \in 1 .. Len(v) /\ v[n] \in TopItems
      BY <1>5
    <3>2. CASE n <= Len(a)
      BY <3>1, <3>2, <1>2, <1>3, <1>5
    <3>3. CASE n > Len(a)
      <4>1. n \in 1 .. Len(a) + Len(b) /\ ~(n <= Len(a)) /\ n - Len(a) \in DOMAIN b
        BY <3>1, <3>3, <1>2, <1>5
      <4>2. v[n] = b[n - Len(a)]
        BY <3>1, <4>1, <1>1, <1>4
      <4> QED
        BY <3>1, <4>1, <4>2
    <3> QED
      BY <3>1, <3>2, <3>3, <1>2, <1>5
  <2> HIDE DEF T
  <2> QED
    BY <2>1, <2>2
<1>7. Cardinality(T) = m
  <2>1. Cardinality(1 .. m) = m
    BY <1>3, FS_Interval
  <2> HIDE DEF T
  <2> QED
    BY <2>1, <1>6
<1>8. Arrived(v, x) = Inserted(v, m + 1, x)
  BY <1>7 DEF Arrived
<1>9. Inserted(v, Told(k), x) = Cut(a \o <<x>> \o b)
  BY Insertion DEF s, k, v
<1>10. CASE k <= Limit
  <2>1. Told(k) = k /\ m + 1 = k
    BY <1>2, <1>10 DEF Told, m
  <2> QED
    BY <2>1, <1>8, <1>9 DEF v, s
<1>11. CASE k > Limit
  <2>0. Len(a) >= Limit /\ Len(s) >= Limit /\ ~(k <= Limit)
    BY <1>1, <1>2, <1>11
  <2>1. Told(k) = 0 /\ m = Limit /\ Len(v) = Limit
    <3>1. Len(s) \in Nat
      BY <1>1
    <3>2. Told(k) = 0
      BY <2>0 DEF Told
    <3>3. m = Limit
      BY <2>0, <1>13
    <3> QED
      BY <2>0, <3>1, <3>2, <3>3, <1>2, <1>4
  <2>2. Inserted(v, Told(k), x) = v
    BY <2>1 DEF Inserted
  <2>3. Inserted(v, m + 1, x) = Cut(InsertAt(v, Len(v) + 1, x))
    BY <2>1, <1>2 DEF Inserted
  <2>4. Cut(InsertAt(v, Len(v) + 1, x)) = v
    <3> DEFINE z == <<>>
               e == v \o <<x>> \o z
    <3>1. <<>> \in Seq(S) /\ Len(<<>>) = 0 /\ v \o <<>> = v
      BY <1>4
    <3>0. v \in Seq(S) /\ z \in Seq(S) /\ x \in S
      BY <3>1, <1>4
    <3>2. InsertAt(v \o <<>>, Len(v) + 1, x) = e
      <4>1. InsertAt(v \o z, Len(v) + 1, x) = e
        <5> HIDE DEF z
        <5>1. Opens(v, z, x)
          BY ONLY <3>0, SplitsOf
        <5> QED
          BY ONLY <5>1 DEF Opens
      <4> QED
        BY <4>1
    <3>3. /\ e \in Seq(S) /\ Len(e) = Len(v) + 1
          /\ \A n \in 1 .. Len(v) + 1 : e[n] = IF n <= Len(v) THEN v[n] ELSE IF n = Len(v) + 1 THEN x ELSE <<>>[n - Len(v) - 1]
      <4>1. /\ e \in Seq(S) /\ Len(e) = Len(v) + Len(<<>>) + 1
            /\ \A n \in 1 .. Len(v) + Len(<<>>) + 1 :
                 e[n] = IF n <= Len(v) THEN v[n] ELSE IF n = Len(v) + 1 THEN x ELSE <<>>[n - Len(v) - 1]
        BY <3>1, <1>4, With
      <4>2. Len(v) + Len(<<>>) + 1 = Len(v) + 1
        BY <3>1, <1>5
      <4> QED
        BY <4>1, <4>2
    <3> HIDE DEF e
    <3>4. \A n \in 1 .. Len(e) : n <= Limit => e[n] = v[n]
      BY <3>3, <2>1, <1>5
    <3>5. Len(e) >= Limit /\ Len(v) >= Limit
      BY <3>3, <2>1, <1>2
    <3>6. Cut(e) = Cut(v) /\ Cut(v) = v
      <4>1. Cut(e) = Cut(v)
        BY <3>3, <3>4, <3>5, <1>4, SameCut
      <4>2. Len(v) <= Limit
        BY <2>1, <1>2
      <4>3. Cut(v) = v
        BY <4>2, <1>4, CutIs
      <4> QED
        BY <4>1, <4>3
    <3>7. InsertAt(v, Len(v) + 1, x) = e
      BY <3>1, <3>2
    <3> QED
      BY <3>6, <3>7
  <2>5. Arrived(v, x) = Cut(a \o <<x>> \o b)
    BY <2>2, <2>3, <2>4, <1>8, <1>9
  <2> QED
    BY <2>5 DEF v, s
<1> QED
  BY <1>2, <1>10, <1>11

-----------------------------------------------------------------------------
(* The creatures of a tile that a player sees, the last to come first: the *)
(* k-th is at the place with k places of S from it on.                     *)

From(S, n) == {m \in S : m >= n}

LEMMA FromIs ==
    ASSUME NEW len \in Nat, NEW S \in SUBSET (1 .. len)
    PROVE  /\ IsFiniteSet(S) /\ Cardinality(S) \in Nat /\ Cardinality(S) <= len
           /\ \A n \in S : /\ IsFiniteSet(From(S, n))
                           /\ Cardinality(From(S, n)) \in 1 .. Cardinality(S)
           /\ \A m, n \in S : m < n => Cardinality(From(S, n)) < Cardinality(From(S, m))
<1>1. IsFiniteSet(1 .. len) /\ Cardinality(1 .. len) = len
  BY FS_Interval
<1>2. IsFiniteSet(S) /\ Cardinality(S) <= len /\ Cardinality(S) \in Nat
  BY <1>1, FS_Subset, FS_CardinalityType
<1>3. ASSUME NEW n \in S
      PROVE  IsFiniteSet(From(S, n)) /\ Cardinality(From(S, n)) \in 1 .. Cardinality(S)
  <2>1. From(S, n) \in SUBSET S /\ From(S, n) # {}
    BY DEF From
  <2>2. IsFiniteSet(From(S, n)) /\ Cardinality(From(S, n)) <= Cardinality(S)
    BY <1>2, <2>1, FS_Subset
  <2>3. Cardinality(From(S, n)) \in Nat /\ Cardinality(From(S, n)) # 0
    BY <2>1, <2>2, FS_CardinalityType, FS_EmptySet
  <2> QED
    BY <1>2, <2>2, <2>3
<1>4. ASSUME NEW m \in S, NEW n \in S, m < n
      PROVE  Cardinality(From(S, n)) < Cardinality(From(S, m))
  <2>0. \A k \in S : k \in Int
    OBVIOUS
  <2>1. From(S, n) \in SUBSET From(S, m) /\ m \in From(S, m) /\ m \notin From(S, n)
    <3>1. m \in Int /\ n \in Int /\ \A k \in S : k >= n => k >= m
      BY <1>4, <2>0
    <3>2. m >= m /\ ~(m >= n)
      BY <1>4, <3>1
    <3> QED
      BY <3>1, <3>2 DEF From
  <2>2. /\ Cardinality(From(S, n)) <= Cardinality(From(S, m))
        /\ Cardinality(From(S, n)) # Cardinality(From(S, m))
    BY <1>3, <2>1, FS_Subset
  <2> QED
    BY <1>2, <1>3, <2>2
<1> QED
  BY <1>2, <1>3, <1>4

LEMMA FromOnto ==
    ASSUME NEW len \in Nat, NEW S \in SUBSET (1 .. len)
    PROVE  /\ \A k \in 1 .. Cardinality(S) : \E n \in S : Cardinality(From(S, n)) = k
           /\ \A m, n \in S : Cardinality(From(S, m)) = Cardinality(From(S, n)) => m = n
<1> DEFINE c == Cardinality(S)
           rank == [n \in S |-> Cardinality(From(S, n))]
<1>1. c \in Nat /\ IsFiniteSet(S)
  BY FromIs
<1>2. rank \in [S -> 1 .. c]
  BY FromIs
<1>3. \A m, n \in S : m < n => rank[n] < rank[m]
  BY FromIs
<1>4. \A m, n \in S : m \in Int /\ n \in Int
  OBVIOUS
<1>5. \A m, n \in S : rank[m] = rank[n] => m = n
  <2>1. \A m, n \in S : rank[m] \in Int /\ rank[n] \in Int
    BY <1>1, <1>2
  <2> HIDE DEF rank
  <2> QED
    BY <1>3, <1>4, <2>1
<1>6. rank \in Injection(S, 1 .. c)
  BY <1>2, <1>5 DEF Injection, IsInjective
<1>7. IsFiniteSet(1 .. c) /\ Cardinality(1 .. c) = c
  BY <1>1, FS_Interval
<1>8. rank \in Surjection(S, 1 .. c)
  BY <1>6, <1>7, FS_Injection
<1>9. \A k \in 1 .. c : \E n \in S : Cardinality(From(S, n)) = k
  BY <1>8 DEF Surjection
<1>10. \A m, n \in S : Cardinality(From(S, m)) = Cardinality(From(S, n)) => m = n
  BY <1>5
<1> QED
  BY <1>9, <1>10

\* The list, and how to find in it an entry that is kept.
\* r has the elements of s at the places S, the last first.
Picks(X, s, S, r) ==
    /\ r \in Seq(X) /\ Len(r) = Cardinality(S)
    /\ Cardinality(S) \in Nat /\ Cardinality(S) <= Len(s)
    /\ DOMAIN r = 1 .. Cardinality(S)
    /\ \A n \in S : /\ Cardinality(From(S, n)) \in 1 .. Cardinality(S)
                    /\ r[Cardinality(From(S, n))] = s[n]
    /\ \A k \in 1 .. Cardinality(S) : \E n \in S : k = Cardinality(From(S, n)) /\ r[k] = s[n]

LEMMA LastFirstIs ==
    ASSUME NEW X, NEW s \in Seq(X), NEW S \in SUBSET (DOMAIN s)
    PROVE  Picks(X, s, S, LastFirst(s, S))
<1> DEFINE at == [k \in 1 .. Cardinality(S) |-> CHOOSE n \in S : Cardinality(From(S, n)) = k]
           L == LastFirst(s, S)
           c == Cardinality(S)
<1>1. Len(s) \in Nat /\ DOMAIN s = 1 .. Len(s) /\ S \in SUBSET (1 .. Len(s)) /\ \A n \in S : s[n] \in X
  OBVIOUS
<1>2. c \in Nat /\ c <= Len(s) /\ \A n \in S : Cardinality(From(S, n)) \in 1 .. c
  BY <1>1, FromIs
<1>3. /\ \A k \in 1 .. c : \E n \in S : Cardinality(From(S, n)) = k
      /\ \A m, n \in S : Cardinality(From(S, m)) = Cardinality(From(S, n)) => m = n
  BY <1>1, FromOnto
<1>4. \A k \in 1 .. c : at[k] \in S /\ Cardinality(From(S, at[k])) = k
  BY <1>3
<1>5. L = [k \in 1 .. c |-> s[at[k]]]
  BY DEF LastFirst, From
<1> HIDE DEF at, L, c
<1>6. L \in Seq(X) /\ Len(L) = c /\ DOMAIN L = 1 .. c /\ \A k \in 1 .. c : L[k] = s[at[k]]
  BY <1>1, <1>2, <1>4, <1>5
<1>7. ASSUME NEW n \in S PROVE L[Cardinality(From(S, n))] = s[n]
  <2> DEFINE k == Cardinality(From(S, n))
  <2>1. k \in 1 .. c /\ at[k] \in S /\ Cardinality(From(S, at[k])) = k
    BY <1>2, <1>4
  <2>2. at[k] = n
    BY <2>1, <1>3
  <2> QED
    BY <2>1, <2>2, <1>6
<1>8. ASSUME NEW k \in 1 .. c PROVE \E n \in S : k = Cardinality(From(S, n)) /\ L[k] = s[n]
  BY <1>4, <1>6
<1> QED
  BY <1>2, <1>6, <1>7, <1>8 DEF L, c, Picks

\* The elements of s that are in P, the last first.
Kept(s, P) == LastFirst(s, {n \in DOMAIN s : s[n] \in P})

LEMMA SizeKept ==
    ASSUME NEW A, NEW B, IsFiniteSet(A), NEW f \in [A -> B],
           \A x, y \in A : f[x] = f[y] => x = y, \A y \in B : \E x \in A : f[x] = y
    PROVE  IsFiniteSet(B) /\ Cardinality(B) = Cardinality(A)
<1>1. f \in Bijection(A, B)
  BY DEF Bijection, Injection, Surjection, IsInjective
<1>2. ExistsBijection(A, B)
  BY <1>1 DEF ExistsBijection
<1> QED
  BY <1>2, FS_Bijection

LEMMA Shifted ==
    ASSUME NEW l \in Nat, NEW B, IsFiniteSet(B), \A n \in B : n \in Int
    PROVE  /\ IsFiniteSet({n + l : n \in B})
           /\ Cardinality({n + l : n \in B}) = Cardinality(B)
<1> DEFINE C == {n + l : n \in B}
           f == [n \in B |-> n + l]
<1>1. f \in [B -> C] /\ \A y \in C : \E x \in B : f[x] = y
  OBVIOUS
<1>2. ASSUME NEW x \in B, NEW y \in B, f[x] = f[y] PROVE x = y
  <2>1. x \in Int /\ y \in Int /\ x + l = y + l
    BY <1>2
  <2> QED
    BY <2>1
<1> HIDE DEF C, f
<1>3. IsFiniteSet(C) /\ Cardinality(C) = Cardinality(B)
  BY <1>1, <1>2, SizeKept
<1> QED
  BY <1>3 DEF C

\* What is seen of two lists in a row is what is seen of the second, then of the first.
LEMMA KeptJoined ==
    ASSUME NEW X, NEW s \in Seq(X), NEW t \in Seq(X), NEW P
    PROVE  Kept(s \o t, P) = Kept(t, P) \o Kept(s, P)
<1> DEFINE u == s \o t
           l == Len(s)
           A == {n \in DOMAIN s : s[n] \in P}
           B == {n \in DOMAIN t : t[n] \in P}
           D == {n + l : n \in B}
           C == {n \in DOMAIN u : u[n] \in P}
           a == Cardinality(A)
           b == Cardinality(B)
<1>1. /\ u \in Seq(X) /\ DOMAIN u = 1 .. l + Len(t)
      /\ \A n \in 1 .. l + Len(t) : u[n] = IF n <= l THEN s[n] ELSE t[n - l]
  BY Cats
<1>2. l \in Nat /\ Len(t) \in Nat /\ DOMAIN s = 1 .. l /\ DOMAIN t = 1 .. Len(t)
  OBVIOUS
<1> HIDE DEF u, l
<1>3. /\ A \in SUBSET (1 .. l) /\ B \in SUBSET (1 .. Len(t)) /\ C \in SUBSET (DOMAIN u)
      /\ A \in SUBSET (DOMAIN s) /\ B \in SUBSET (DOMAIN t)
  BY <1>2
<1>4. /\ \A n \in A : n \in Int /\ n >= 1 /\ n <= l
      /\ \A n \in B : n \in Int /\ n >= 1
  BY <1>2
<1>5. C = A \cup D
  <2>1. ASSUME NEW n \in A PROVE n \in C
    <3>1. n \in 1 .. l + Len(t) /\ n <= l /\ s[n] \in P
      BY <1>2
    <3> QED
      BY <3>1, <1>1
  <2>2. ASSUME NEW n \in B PROVE n + l \in C
    <3>1. n + l \in 1 .. l + Len(t) /\ ~(n + l <= l) /\ (n + l) - l = n /\ t[n] \in P
      BY <1>2
    <3> QED
      BY <3>1, <1>1
  <2>3. ASSUME NEW n \in C, n <= l PROVE n \in A
    <3>1. n \in 1 .. l + Len(t) /\ u[n] = s[n] /\ u[n] \in P
      BY <2>3, <1>1
    <3> QED
      BY <2>3, <3>1, <1>2
  <2>4. ASSUME NEW n \in C, ~(n <= l) PROVE n \in D
    <3>1. n \in 1 .. l + Len(t) /\ u[n] = t[n - l] /\ u[n] \in P
      BY <2>4, <1>1
    <3>2. n - l \in DOMAIN t /\ (n - l) + l = n
      BY <2>4, <3>1, <1>2
    <3>3. n - l \in B
      BY <3>1, <3>2
    <3> QED
      BY <3>2, <3>3
  <2> HIDE DEF A, B, C
  <2> QED
    BY <2>1, <2>2, <2>3, <2>4
<1> HIDE DEF A, B, C
<1>6. /\ IsFiniteSet(A) /\ IsFiniteSet(B) /\ a \in Nat /\ b \in Nat
      /\ \A n \in A : IsFiniteSet(From(A, n)) /\ Cardinality(From(A, n)) \in 1 .. a
      /\ \A n \in B : IsFiniteSet(From(B, n)) /\ Cardinality(From(B, n)) \in 1 .. b
  <2>1. /\ IsFiniteSet(A) /\ a \in Nat
        /\ \A n \in A : IsFiniteSet(From(A, n)) /\ Cardinality(From(A, n)) \in 1 .. a
    BY <1>2, <1>3, FromIs
  <2>2. /\ IsFiniteSet(B) /\ b \in Nat
        /\ \A n \in B : IsFiniteSet(From(B, n)) /\ Cardinality(From(B, n)) \in 1 .. b
    BY <1>2, <1>3, FromIs
  <2> QED
    BY <2>1, <2>2
<1>7. IsFiniteSet(D) /\ Cardinality(D) = b
  BY <1>2, <1>4, <1>6, Shifted
<1>8. \A n \in D : n \in Int /\ n > l
  BY <1>2, <1>4
<1>9. A \cap D = {}
  BY <1>4, <1>8, <1>2
<1>10. Cardinality(C) = a + b
  <2>1. Cardinality(A \cap D) = 0
    BY <1>9, FS_EmptySet
  <2>2. Cardinality(A \cup D) = Cardinality(A) + Cardinality(D) - Cardinality(A \cap D)
    BY <1>6, <1>7, FS_Union
  <2> QED
    BY <2>1, <2>2, <1>5, <1>6, <1>7
<1>11. ASSUME NEW n \in A PROVE Cardinality(From(C, n)) = Cardinality(From(A, n)) + b
  <2>1. From(C, n) = From(A, n) \cup D /\ From(A, n) \cap D = {}
    <3>1. \A m \in D : m >= n
      BY <1>2, <1>4, <1>8
    <3> HIDE DEF D
    <3> QED
      BY <3>1, <1>5, <1>9 DEF From
  <2>2. Cardinality(From(A, n) \cap D) = 0
    BY <2>1, FS_EmptySet
  <2>3. Cardinality(From(A, n) \cup D) = Cardinality(From(A, n)) + Cardinality(D) - Cardinality(From(A, n) \cap D)
    BY <1>6, <1>7, FS_Union
  <2>4. Cardinality(From(A, n)) \in Nat
    BY <1>6
  <2> QED
    BY <2>1, <2>2, <2>3, <2>4, <1>6, <1>7
<1>12. ASSUME NEW n \in B PROVE Cardinality(From(C, n + l)) = Cardinality(From(B, n))
  <2>1. From(C, n + l) = {m + l : m \in From(B, n)}
    <3>1. \A m \in A : ~(m >= n + l)
      BY <1>2, <1>4
    <3>2. \A m \in B : m + l >= n + l <=> m >= n
      BY <1>2, <1>4
    <3>3. From(C, n + l) = {m \in D : m >= n + l}
      BY <3>1, <1>5 DEF From
    <3> QED
      BY <3>2, <3>3 DEF From
  <2>2. \A m \in From(B, n) : m \in Int
    BY <1>4 DEF From
  <2> QED
    BY <2>1, <2>2, <1>2, <1>6, Shifted
<1> DEFINE U == LastFirst(u, C)
           S == LastFirst(s, A)
           T == LastFirst(t, B)
           V == T \o S
<1>13. /\ U \in Seq(X) /\ Len(U) = a + b
       /\ \A k \in 1 .. a + b : \E n \in C : k = Cardinality(From(C, n)) /\ U[k] = u[n]
  <2>1. /\ U \in Seq(X) /\ Len(U) = Cardinality(C)
        /\ \A k \in 1 .. Cardinality(C) : \E n \in C : k = Cardinality(From(C, n)) /\ U[k] = u[n]
    <3>1. Picks(X, u, C, U)
      BY <1>1, <1>3, LastFirstIs
    <3> HIDE DEF U
    <3> QED
      BY ONLY <3>1 DEF Picks
  <2> HIDE DEF U
  <2> QED
    BY <2>1, <1>10
<1>14. /\ S \in Seq(X) /\ Len(S) = a /\ \A n \in A : S[Cardinality(From(A, n))] = s[n]
  <2>1. Picks(X, s, A, S)
    BY <1>3, LastFirstIs
  <2> HIDE DEF S
  <2> QED
    BY ONLY <2>1 DEF Picks
<1>15. /\ T \in Seq(X) /\ Len(T) = b /\ \A n \in B : T[Cardinality(From(B, n))] = t[n]
  <2>1. Picks(X, t, B, T)
    BY <1>3, LastFirstIs
  <2> HIDE DEF T
  <2> QED
    BY ONLY <2>1 DEF Picks
<1> HIDE DEF U, S, T
<1>16. /\ V \in Seq(X) /\ Len(V) = b + a
       /\ \A k \in 1 .. b + a : V[k] = IF k <= b THEN T[k] ELSE S[k - b]
  <2>1. T \in Seq(X) /\ S \in Seq(X)
    BY <1>14, <1>15
  <2>2. /\ V \in Seq(X) /\ Len(V) = Len(T) + Len(S)
        /\ \A k \in 1 .. Len(T) + Len(S) : V[k] = IF k <= Len(T) THEN T[k] ELSE S[k - Len(T)]
    BY <2>1, Cats
  <2> HIDE DEF V
  <2> QED
    BY <2>2, <1>14, <1>15
<1> HIDE DEF V, D
<1>17. ASSUME NEW k \in 1 .. Len(U) PROVE U[k] = V[k]
  <2>1. k \in 1 .. a + b /\ k \in 1 .. b + a
    BY <1>13, <1>6
  <2>2. PICK n \in C : k = Cardinality(From(C, n)) /\ U[k] = u[n]
    BY <2>1, <1>13
  <2>3. CASE n \in A
    <3> DEFINE r == Cardinality(From(A, n))
    <3>1. r \in 1 .. a /\ k = r + b /\ S[r] = s[n]
      BY <2>2, <2>3, <1>6, <1>11, <1>14
    <3> HIDE DEF r
    <3>2. ~(k <= b) /\ k - b = r
      BY <3>1, <1>6
    <3>3. n \in 1 .. l + Len(t) /\ n <= l
      BY <2>3, <1>2, <1>4
    <3>4. u[n] = s[n]
      BY <3>3, <1>1
    <3> QED
      BY <2>1, <2>2, <3>1, <3>2, <3>4, <1>16
  <2>4. CASE n \in D
    <3>1. PICK m \in B : n = m + l
      BY <2>4 DEF D
    <3> DEFINE r == Cardinality(From(B, m))
    <3>2. r \in 1 .. b /\ k = r /\ T[r] = t[m]
      BY <2>2, <3>1, <1>6, <1>12, <1>15
    <3> HIDE DEF r
    <3>3. k <= b
      BY <3>2, <1>6
    <3>4. m \in 1 .. Len(t) /\ n \in 1 .. l + Len(t) /\ ~(n <= l) /\ n - l = m
      BY <3>1, <1>2, <1>3
    <3>5. u[n] = t[m]
      BY <3>4, <1>1
    <3> QED
      BY <2>1, <2>2, <3>2, <3>3, <3>5, <1>16
  <2> QED
    BY <2>3, <2>4, <1>5
<1>18. U = V
  <2>1. Len(U) = Len(V)
    BY <1>6, <1>13, <1>16
  <2> QED
    BY <2>1, <1>13, <1>16, <1>17, SameSeq
<1> QED
  BY <1>18 DEF Kept, U, V, S, T, A, B, C, u

LEMMA KeptOne ==
    ASSUME NEW X, NEW c \in X, NEW P
    PROVE  Kept(<<c>>, P) = IF c \in P THEN <<c>> ELSE <<>>
<1> DEFINE S == {n \in DOMAIN <<c>> : <<c>>[n] \in P}
           o == <<c>>
<1>1. o \in Seq(X) /\ Len(o) = 1 /\ o[1] = c /\ DOMAIN o = {1} /\ Kept(o, P) = LastFirst(o, S)
  BY DEF Kept
<1>2. S = IF c \in P THEN {1} ELSE {}
  BY <1>1
<1> HIDE DEF S, o
<1>3. S \in SUBSET (DOMAIN o)
  BY <1>1, <1>2
<1>4. /\ LastFirst(o, S) \in Seq(X) /\ Len(LastFirst(o, S)) = Cardinality(S)
      /\ \A k \in 1 .. Cardinality(S) : \E n \in S : LastFirst(o, S)[k] = o[n]
  <2>1. Picks(X, o, S, LastFirst(o, S))
    BY <1>1, <1>3, LastFirstIs
  <2> QED
    BY ONLY <2>1 DEF Picks
<1>5. CASE c \in P
  <2>1. S = {1} /\ Cardinality({1}) = 1
    BY <1>2, <1>5, FS_Singleton
  <2>2. Cardinality(S) = 1
    BY <2>1
  <2>3. Len(LastFirst(o, S)) = 1 /\ LastFirst(o, S)[1] = c
    BY <2>1, <2>2, <1>1, <1>4
  <2>4. LastFirst(o, S) = o
    BY <2>3, <1>1, <1>4, SameSeq
  <2> QED
    BY <2>4, <1>1, <1>5 DEF o
<1>6. CASE c \notin P
  <2>1. Cardinality(S) = 0
    BY <1>2, <1>6, FS_EmptySet
  <2>2. LastFirst(o, S) = <<>>
    BY <2>1, <1>4
  <2> QED
    BY <2>2, <1>1, <1>6 DEF o
<1> QED
  BY <1>5, <1>6

LEMMA KeptNone ==
    ASSUME NEW P
    PROVE  Kept(<<>>, P) = <<>>
<1> DEFINE S == {n \in DOMAIN <<>> : <<>>[n] \in P}
<1>1. S = {}
  OBVIOUS
<1>2. <<>> \in Seq({0}) /\ S \in SUBSET (DOMAIN <<>>)
  BY <1>1
<1> HIDE DEF S
<1>3. LastFirst(<<>>, S) \in Seq({0}) /\ Len(LastFirst(<<>>, S)) = Cardinality(S)
  <2>1. Picks({0}, <<>>, S, LastFirst(<<>>, S))
    BY <1>2, LastFirstIs
  <2> QED
    BY ONLY <2>1 DEF Picks
<1>4. Cardinality(S) = 0
  BY <1>1, FS_EmptySet
<1> QED
  BY <1>3, <1>4 DEF Kept, S

LEMMA KeptIs ==
    ASSUME NEW X, NEW s \in Seq(X), NEW P
    PROVE  Kept(s, P) \in Seq(X) /\ Len(Kept(s, P)) <= Len(s) /\ Len(Kept(s, P)) \in Nat
<1> DEFINE S == {n \in DOMAIN s : s[n] \in P}
<1>1. S \in SUBSET (DOMAIN s)
  OBVIOUS
<1> HIDE DEF S
<1>2. /\ LastFirst(s, S) \in Seq(X) /\ Len(LastFirst(s, S)) = Cardinality(S)
      /\ Cardinality(S) \in Nat /\ Cardinality(S) <= Len(s)
  <2>1. Picks(X, s, S, LastFirst(s, S))
    BY <1>1, LastFirstIs
  <2> QED
    BY ONLY <2>1 DEF Picks
<1> QED
  BY <1>2 DEF Kept, S

LEMMA InList ==
    ASSUME NEW S, NEW s \in Seq(S), NEW x, x \in ToSet(s)
    PROVE  IndexOf(s, x) \in DOMAIN s /\ s[IndexOf(s, x)] = x /\ Contains(s, x)
<1>1. \E n \in DOMAIN s : s[n] = x
  BY DEF ToSet
<1> QED
  BY <1>1 DEF IndexOf, Contains

LEMMA IndexIs ==
    ASSUME NEW S, NEW s \in Seq(S), Distinct(s), NEW n \in DOMAIN s
    PROVE  IndexOf(s, s[n]) = n
<1>1. s[n] \in ToSet(s)
  BY DEF ToSet
<1>2. IndexOf(s, s[n]) \in DOMAIN s /\ s[IndexOf(s, s[n])] = s[n]
  BY <1>1, InList
<1> QED
  BY <1>2 DEF Distinct

LEMMA DistinctWith ==
    ASSUME NEW S, NEW a \in Seq(S), NEW b \in Seq(S), NEW x \in S
    PROVE  /\ ToSet(a \o <<x>> \o b) = ToSet(a \o b) \cup {x}
           /\ Distinct(a \o <<x>> \o b) <=> Distinct(a \o b) /\ x \notin ToSet(a \o b)
           /\ Distinct(a \o <<x>> \o b) => IndexOf(a \o <<x>> \o b, x) = Len(a) + 1
<1> DEFINE s == a \o b
           t == a \o <<x>> \o b
           l == Len(a) + Len(b)
           k == Len(a) + 1
           up == [n \in 1 .. l |-> IF n < k THEN n ELSE n + 1]
<1>1. /\ s \in Seq(S) /\ DOMAIN s = 1 .. l
      /\ \A n \in 1 .. l : s[n] = IF n <= Len(a) THEN a[n] ELSE b[n - Len(a)]
  BY Cats
<1>2. /\ t \in Seq(S) /\ DOMAIN t = 1 .. Len(a) + Len(b) + 1
      /\ \A n \in 1 .. Len(a) + Len(b) + 1 :
            t[n] = IF n <= Len(a) THEN a[n] ELSE IF n = Len(a) + 1 THEN x ELSE b[n - Len(a) - 1]
  BY With
<1>3. Len(a) \in Nat /\ Len(b) \in Nat /\ l \in Nat /\ k \in 1 .. l + 1 /\ l + 1 = Len(a) + Len(b) + 1
  OBVIOUS
<1> HIDE DEF s, t
<1>4. DOMAIN t = 1 .. l + 1 /\ t[k] = x
  BY <1>2, <1>3
<1>5. ASSUME NEW n \in 1 .. l
      PROVE  up[n] \in 1 .. l + 1 /\ up[n] # k /\ t[up[n]] = s[n]
  <2>1. CASE n < k
    <3>1. up[n] = n /\ n \in 1 .. l + 1 /\ n # k /\ n <= Len(a) /\ n \in 1 .. Len(a) + Len(b) + 1
      BY <2>1, <1>3
    <3>2. t[n] = a[n] /\ s[n] = a[n]
      BY <3>1, <1>1, <1>2
    <3> QED
      BY <3>1, <3>2
  <2>2. CASE n >= k
    <3>1. up[n] = n + 1 /\ n + 1 \in 1 .. l + 1 /\ n + 1 # k /\ ~(n + 1 <= Len(a)) /\ ~(n <= Len(a))
          /\ n + 1 - Len(a) - 1 = n - Len(a) /\ n + 1 \in 1 .. Len(a) + Len(b) + 1 /\ n + 1 # Len(a) + 1
      BY <2>2, <1>3
    <3>2. t[n + 1] = b[n + 1 - Len(a) - 1] /\ s[n] = b[n - Len(a)]
      BY <3>1, <1>1, <1>2
    <3> QED
      BY <3>1, <3>2
  <2> QED
    BY <2>1, <2>2, <1>3
<1>6. ASSUME NEW n \in 1 .. l + 1, n # k PROVE \E m \in 1 .. l : up[m] = n
  <2>1. CASE n < k
    BY <2>1, <1>3
  <2>2. CASE n > k
    <3>1. n - 1 \in 1 .. l /\ up[n - 1] = n
      BY <2>2, <1>3
    <3> QED
      BY <3>1
  <2> QED
    BY <2>1, <2>2, <1>3, <1>6
<1>7. \A m, n \in 1 .. l : up[m] = up[n] => m = n
  BY <1>3
<1> HIDE DEF up, k, l
<1>8. ToSet(t) = ToSet(s) \cup {x}
  <2>1. ASSUME NEW y \in ToSet(t) PROVE y \in ToSet(s) \cup {x}
    <3>1. PICK n \in 1 .. l + 1 : t[n] = y
      BY <1>4 DEF ToSet
    <3>2. CASE n # k
      <4>1. PICK m \in 1 .. l : up[m] = n
        BY <3>2, <1>6
      <4>2. s[m] = y /\ m \in DOMAIN s
        BY <3>1, <4>1, <1>1, <1>5
      <4> QED
        BY <4>2 DEF ToSet
    <3> QED
      BY <3>1, <3>2, <1>4
  <2>2. ASSUME NEW y \in ToSet(s) PROVE y \in ToSet(t)
    <3>1. PICK n \in 1 .. l : s[n] = y
      BY <1>1 DEF ToSet
    <3>2. up[n] \in DOMAIN t /\ t[up[n]] = y
      BY <3>1, <1>4, <1>5
    <3> QED
      BY <3>2 DEF ToSet
  <2>3. x \in ToSet(t)
    <3>1. k \in DOMAIN t
      BY <1>3, <1>4
    <3> QED
      BY <3>1, <1>4 DEF ToSet
  <2> QED
    BY <2>1, <2>2, <2>3
<1>9. ASSUME Distinct(t) PROVE Distinct(s) /\ x \notin ToSet(s) /\ IndexOf(t, x) = k
  <2>1. Distinct(s)
    BY <1>1, <1>4, <1>5, <1>7, <1>9 DEF Distinct
  <2>2. x \notin ToSet(s)
    <3>1. ASSUME NEW n \in 1 .. l PROVE s[n] # x
      <4>1. up[n] \in DOMAIN t /\ k \in DOMAIN t /\ up[n] # k /\ t[up[n]] = s[n]
        BY <1>3, <1>4, <1>5
      <4> QED
        BY <4>1, <1>4, <1>9 DEF Distinct
    <3> QED
      BY <3>1, <1>1 DEF ToSet
  <2>3. IndexOf(t, x) = k
    <3>1. k \in DOMAIN t
      BY <1>3, <1>4
    <3>2. IndexOf(t, t[k]) = k
      BY <3>1, <1>2, <1>9, IndexIs
    <3> QED
      BY <3>2, <1>4
  <2> QED
    BY <2>1, <2>2, <2>3
<1>10. ASSUME Distinct(s), x \notin ToSet(s) PROVE Distinct(t)
  <2>1. ASSUME NEW m \in 1 .. l + 1, NEW n \in 1 .. l + 1, t[m] = t[n] PROVE m = n
    <3>1. \A i \in 1 .. l : s[i] # x
      BY <1>1, <1>10 DEF ToSet
    <3>5. ASSUME NEW j \in 1 .. l + 1, j # k PROVE t[j] # x
      <4>1. PICK i \in 1 .. l : up[i] = j
        BY <3>5, <1>6
      <4> QED
        BY <4>1, <3>1, <1>5
    <3>2. CASE m = k
      BY <3>2, <3>5, <2>1, <1>4
    <3>3. CASE n = k
      BY <3>3, <3>5, <2>1, <1>4
    <3>4. CASE m # k /\ n # k
      <4>1. PICK i \in 1 .. l : up[i] = m
        BY <3>4, <1>6
      <4>2. PICK j \in 1 .. l : up[j] = n
        BY <3>4, <1>6
      <4>3. s[i] = s[j]
        BY <4>1, <4>2, <2>1, <1>5
      <4> QED
        BY <4>1, <4>2, <4>3, <1>1, <1>10 DEF Distinct
    <3> QED
      BY <3>2, <3>3, <3>4
  <2> QED
    BY <2>1, <1>4 DEF Distinct
<1> QED
  BY <1>8, <1>9, <1>10 DEF s, t, k

\* What removing and renaming an element make of a list.
LEMMA WithoutNone ==
    ASSUME NEW S, NEW s \in Seq(S), NEW x, x \notin ToSet(s)
    PROVE  Without(s, x) = s
  BY DEF Without, Contains, ToSet

\* x is in s between a and b.
Between(s, x, a, b) ==
    /\ s = a \o <<x>> \o b /\ Without(s, x) = a \o b
    /\ IndexOf(s, x) = Len(a) + 1 /\ b = SubSeq(s, IndexOf(s, x) + 1, Len(s))

LEMMA WithoutSome ==
    ASSUME NEW S, NEW s \in Seq(S), NEW x, x \in ToSet(s)
    PROVE  x \in S /\ \E a \in Seq(S), b \in Seq(S) : Between(s, x, a, b)
<1> DEFINE k == IndexOf(s, x)
           a == SubSeq(s, 1, k - 1)
           b == SubSeq(s, k + 1, Len(s))
<1>1. k \in DOMAIN s /\ s[k] = x /\ Contains(s, x)
  BY InList
<1> HIDE DEF k
<1>2. /\ a \in Seq(S) /\ b \in Seq(S) /\ Len(a) = k - 1
      /\ s[k] \in S /\ s = a \o <<s[k]>> \o b /\ RemoveAt(s, k) = a \o b
  BY <1>1, Split
<1>3. Without(s, x) = RemoveAt(s, k)
  BY <1>1 DEF Without, k
<1>4. k = Len(a) + 1
  BY <1>1, <1>2
<1>5. b = SubSeq(s, k + 1, Len(s))
  OBVIOUS
<1> HIDE DEF a, b
<1>6. Between(s, x, a, b)
  BY <1>1, <1>2, <1>3, <1>4, <1>5 DEF Between, k
<1> QED
  BY <1>1, <1>2, <1>6

Renamed(s, x, y) == [n \in DOMAIN s |-> IF s[n] = x THEN y ELSE s[n]]

\* x is in s between a and b, and y instead makes r of it.
Swapped(s, r, x, y, a, b) == s = a \o <<x>> \o b /\ r = a \o <<y>> \o b

LEMMA RenamedIs ==
    ASSUME NEW S, NEW s \in Seq(S), NEW x, NEW y \in S
    PROVE  /\ x \notin ToSet(s) => Renamed(s, x, y) = s
           /\ x \in ToSet(s) /\ Distinct(s) =>
                /\ x \in S
                /\ \E a \in Seq(S) : \E b \in Seq(S) : Swapped(s, Renamed(s, x, y), x, y, a, b)
<1> DEFINE r == Renamed(s, x, y)
<1>1. /\ r \in Seq(S) /\ Len(r) = Len(s)
      /\ \A n \in 1 .. Len(s) : r[n] = IF s[n] = x THEN y ELSE s[n]
  BY DEF Renamed
<1> HIDE DEF r
<1>2. DOMAIN s = 1 .. Len(s) /\ Len(s) \in Nat
  OBVIOUS
<1>3. ASSUME x \notin ToSet(s) PROVE r = s
  <2>1. \A n \in 1 .. Len(s) : s[n] # x
    BY <1>2, <1>3 DEF ToSet
  <2> QED
    BY <2>1, <1>1, SameSeq
<1>4. ASSUME x \in ToSet(s), Distinct(s)
      PROVE  /\ x \in S
             /\ \E a \in Seq(S) : \E b \in Seq(S) : Swapped(s, r, x, y, a, b)
  <2>0. x \in S /\ \E a \in Seq(S), b \in Seq(S) : Between(s, x, a, b)
    BY <1>4, WithoutSome
  <2>1. PICK a \in Seq(S), b \in Seq(S) : s = a \o <<x>> \o b /\ x \in S
    BY <2>0 DEF Between
  <2> DEFINE t == a \o <<y>> \o b
             k == Len(a) + 1
             l == Len(a) + Len(b) + 1
  <2>2. /\ Len(s) = l
        /\ \A n \in 1 .. l : s[n] = IF n <= Len(a) THEN a[n] ELSE IF n = k THEN x ELSE b[n - Len(a) - 1]
    BY <2>1, With
  <2>3. /\ t \in Seq(S) /\ Len(t) = l
        /\ \A n \in 1 .. l : t[n] = IF n <= Len(a) THEN a[n] ELSE IF n = k THEN y ELSE b[n - Len(a) - 1]
    BY <2>1, With
  <2>4. k \in 1 .. l /\ ~(k <= Len(a))
    OBVIOUS
  <2> HIDE DEF t, k, l
  <2>5. s[k] = x /\ t[k] = y
    BY <2>2, <2>3, <2>4
  <2>6. \A n \in 1 .. l : n # k => s[n] = t[n] /\ s[n] # x
    <3> TAKE n \in 1 .. l
    <3> HAVE n # k
    <3>1. s[n] = t[n]
      BY <2>2, <2>3
    <3>2. s[n] # x
      BY <2>2, <2>4, <2>5, <1>2, <1>4 DEF Distinct
    <3> QED
      BY <3>1, <3>2
  <2>7. \A n \in 1 .. Len(r) : r[n] = t[n]
    BY <2>2, <2>5, <2>6, <1>1
  <2>8. r = t
    BY <2>2, <2>3, <2>7, <1>1, SameSeq
  <2>9. Swapped(s, r, x, y, a, b)
    BY <2>1, <2>8 DEF t, Swapped
  <2> QED
    BY <2>1, <2>9
<1> QED
  BY <1>3, <1>4 DEF r

LEMMA AppendIs ==
    ASSUME NEW S, NEW s \in Seq(S), NEW x \in S
    PROVE  /\ Append(s, x) = s \o <<x>> /\ Append(s, x) = s \o <<x>> \o <<>>
           /\ s = s \o <<>> /\ Append(s, x) \in Seq(S)
<1> DEFINE r == Append(s, x)
           o == <<x>>
<1>1. /\ r \in Seq(S) /\ Len(r) = Len(s) + 1
      /\ \A n \in 1 .. Len(s) + 1 : r[n] = IF n <= Len(s) THEN s[n] ELSE x
  OBVIOUS
<1>2. o \in Seq(S) /\ Len(o) = 1 /\ o[1] = x /\ Len(s) \in Nat
  OBVIOUS
<1> HIDE DEF r, o
<1> DEFINE u == s \o o
<1>3. u \in Seq(S) /\ Len(u) = Len(s) + Len(o)
      /\ \A n \in 1 .. Len(s) + Len(o) : u[n] = IF n <= Len(s) THEN s[n] ELSE o[n - Len(s)]
  BY <1>2, Cats
<1> HIDE DEF u
<1>4. Len(u) = Len(r) /\ \A n \in 1 .. Len(r) : r[n] = u[n]
  BY <1>1, <1>2, <1>3
<1>5. r = u
  BY <1>1, <1>3, <1>4, SameSeq
<1>6. u = u \o <<>> /\ s = s \o <<>>
  BY <1>3
<1> QED
  BY <1>1, <1>5, <1>6 DEF r, u, o

-----------------------------------------------------------------------------
(* The tiles: every list is one of distinct things, a creature stands on   *)
(* one tile at most, and only creatures in the world are hidden.           *)

Things == Bodies \cup TopItems \cup DownItems
Pairs == [viewer : Viewers, tile : Tiles]

MapStates ==
    [tops : [Tiles -> Seq(TopItems)], standing : [Tiles -> Seq(Bodies)],
     downs : [Tiles -> Seq(DownItems)], hidden : SUBSET Bodies,
     view : [Viewers -> [Tiles -> Seq(Things)]], missing : SUBSET Pairs]

Stands(M, t, c) == c \in ToSet(M.standing[t])

Placed(M) ==
    /\ M \in MapStates
    /\ \A t \in Tiles : Distinct(M.tops[t]) /\ Distinct(M.standing[t]) /\ Distinct(M.downs[t])
    /\ \A t, u \in Tiles, c \in Bodies : Stands(M, t, c) /\ Stands(M, u, c) => t = u
    /\ \A c \in M.hidden : \E t \in Tiles : Stands(M, t, c)

Sees(M, w) == {c \in Bodies : CanSeeCreature(M, w, c)}

\* What the client of w shows of tile t is right, or need not be.
Shows(M, w, t) ==
    \/ M.view[w][t] = Cut(Stack(M, w, t))
    \/ TileOf(M, w) = t /\ w \notin Exact /\ Len(Stack(M, w, t)) > Limit
Right(M, w, t) ==
    CanSee(M, w, t) /\ [viewer |-> w, tile |-> t] \notin M.missing => Shows(M, w, t)

Good(M) == Placed(M) /\ \A w \in Viewers, t \in Tiles : Right(M, w, t)

\* What is left to show right is a tile with so few things that all are shown.
Nearly(M, t) ==
    /\ Placed(M)
    /\ \A w \in Viewers, s \in Tiles :
          s # t \/ ThingCount(M, t) <= Limit - 2 => Right(M, w, s)

TileViewInv == Good(Map)

LEMMA LimitOK == LimitIs
  BY TileViewAssumption DEF TileViewAssumption, LimitIs

LEMMA MapFields ==
    ASSUME NEW M \in MapStates, NEW t \in Tiles
    PROVE  /\ M.tops[t] \in Seq(TopItems) /\ M.standing[t] \in Seq(Bodies)
           /\ M.downs[t] \in Seq(DownItems)
           /\ M.tops[t] \in Seq(Things) /\ M.standing[t] \in Seq(Things) /\ M.downs[t] \in Seq(Things)
<1>1. M.tops[t] \in Seq(TopItems) /\ M.standing[t] \in Seq(Bodies) /\ M.downs[t] \in Seq(DownItems)
  BY DEF MapStates
<1>2. \A S \in SUBSET Things : \A s \in Seq(S) : s \in Seq(Things)
  OBVIOUS
<1>3. TopItems \in SUBSET Things /\ Bodies \in SUBSET Things /\ DownItems \in SUBSET Things
  BY DEF Things
<1> HIDE DEF Things
<1> QED
  BY <1>1, <1>2, <1>3

LEMMA InSeq ==
    ASSUME NEW S, NEW s \in Seq(S)
    PROVE  /\ \A x \in ToSet(s) : x \in S
           /\ \A n \in DOMAIN s : s[n] \in S /\ s[n] \in ToSet(s)
  BY DEF ToSet

LEMMA JoinedSet ==
    ASSUME NEW S, NEW s \in Seq(S), NEW t \in Seq(S)
    PROVE  ToSet(s \o t) = ToSet(s) \cup ToSet(t)
<1> DEFINE u == s \o t
           l == Len(s)
<1>1. /\ u \in Seq(S) /\ DOMAIN u = 1 .. l + Len(t)
      /\ \A n \in 1 .. l + Len(t) : u[n] = IF n <= l THEN s[n] ELSE t[n - l]
  BY Cats
<1>2. DOMAIN s = 1 .. l /\ DOMAIN t = 1 .. Len(t) /\ l \in Nat /\ Len(t) \in Nat
  OBVIOUS
<1> HIDE DEF u, l
<1>3. ASSUME NEW x \in ToSet(u) PROVE x \in ToSet(s) \cup ToSet(t)
  <2>1. PICK n \in 1 .. l + Len(t) : u[n] = x
    BY <1>1 DEF ToSet
  <2>2. CASE n <= l
    <3>1. n \in DOMAIN s /\ s[n] = x
      BY <2>1, <2>2, <1>1, <1>2
    <3> QED
      BY <3>1 DEF ToSet
  <2>3. CASE n > l
    <3>1. n - l \in DOMAIN t /\ ~(n <= l)
      BY <2>1, <2>3, <1>2
    <3>2. t[n - l] = x
      BY <2>1, <3>1, <1>1
    <3> QED
      BY <3>1, <3>2 DEF ToSet
  <2> QED
    BY <2>1, <2>2, <2>3, <1>2
<1>4. ASSUME NEW x \in ToSet(s) PROVE x \in ToSet(u)
  <2>1. PICK n \in 1 .. l : s[n] = x
    BY <1>2 DEF ToSet
  <2>2. n \in 1 .. l + Len(t) /\ n <= l
    BY <2>1, <1>2
  <2>3. u[n] = x /\ n \in DOMAIN u
    BY <2>1, <2>2, <1>1
  <2> QED
    BY <2>3 DEF ToSet
<1>5. ASSUME NEW x \in ToSet(t) PROVE x \in ToSet(u)
  <2>1. PICK n \in 1 .. Len(t) : t[n] = x
    BY <1>2 DEF ToSet
  <2>2. n + l \in 1 .. l + Len(t) /\ ~(n + l <= l) /\ (n + l) - l = n
    BY <2>1, <1>2
  <2>3. u[n + l] = x /\ n + l \in DOMAIN u
    BY <2>1, <2>2, <1>1
  <2> QED
    BY <2>3 DEF ToSet
<1>6. ToSet(u) = ToSet(s) \cup ToSet(t)
  BY <1>3, <1>4, <1>5
<1> QED
  BY <1>6 DEF u

LEMMA OnTileIs ==
    ASSUME NEW M \in MapStates, NEW t \in Tiles, NEW x
    PROVE  /\ OnTile(M, t, x) <=>
                 x \in ToSet(M.tops[t]) \/ x \in ToSet(M.standing[t]) \/ x \in ToSet(M.downs[t])
           /\ x \in Bodies => (OnTile(M, t, x) <=> Stands(M, t, x))
           /\ x \in TopItems => (OnTile(M, t, x) <=> x \in ToSet(M.tops[t]))
           /\ x \in DownItems => (OnTile(M, t, x) <=> x \in ToSet(M.downs[t]))
<1> DEFINE a == M.tops[t]
           b == M.standing[t]
           c == M.downs[t]
<1>1. /\ a \in Seq(TopItems) /\ b \in Seq(Bodies) /\ c \in Seq(DownItems)
      /\ a \in Seq(Things) /\ b \in Seq(Things) /\ c \in Seq(Things)
  BY MapFields
<1> HIDE DEF a, b, c
<1> DEFINE ab == a \o b
<1>2. ab \in Seq(Things)
  BY <1>1
<1>3. ToSet(ab) = ToSet(a) \cup ToSet(b)
  BY <1>1, JoinedSet
<1> HIDE DEF ab
<1>4. ToSet(ab \o c) = ToSet(ab) \cup ToSet(c)
  BY <1>1, <1>2, JoinedSet
<1>5. OnTile(M, t, x) <=> x \in ToSet(a) \/ x \in ToSet(b) \/ x \in ToSet(c)
  BY <1>3, <1>4 DEF OnTile, a, b, c, ab
<1>6. ToSet(a) \subseteq TopItems /\ ToSet(b) \subseteq Bodies /\ ToSet(c) \subseteq DownItems
  BY <1>1, InSeq
<1>7. Stands(M, t, x) <=> x \in ToSet(b)
  BY DEF Stands, b
<1>8. TopItems \cap DownItems = {} /\ Bodies \cap (TopItems \cup DownItems) = {}
  BY TileViewAssumption DEF TileViewAssumption
<1> QED
  BY <1>5, <1>6, <1>7, <1>8 DEF a, b, c

\* Where a creature is.
LEMMA BodyAt ==
    ASSUME NEW M, Placed(M), NEW c \in Bodies
    PROVE  /\ \A t \in Tiles : Stands(M, t, c) => TileOf(M, c) = t /\ InWorld(M, c)
           /\ InWorld(M, c) => TileOf(M, c) \in Tiles /\ Stands(M, TileOf(M, c), c)
           /\ InWorld(M, c) <=> \E t \in Tiles : Stands(M, t, c)
<1>1. M \in MapStates /\ \A t, u \in Tiles : Stands(M, t, c) /\ Stands(M, u, c) => t = u
  BY DEF Placed
<1>2. \A t \in Tiles : OnTile(M, t, c) <=> Stands(M, t, c)
  BY <1>1, OnTileIs
<1>3. InWorld(M, c) <=> \E t \in Tiles : OnTile(M, t, c)
  BY DEF InWorld, TilesOf
<1>4. InWorld(M, c) => TileOf(M, c) \in Tiles /\ OnTile(M, TileOf(M, c), c)
  BY <1>3 DEF TileOf
<1> QED
  BY <1>1, <1>2, <1>3, <1>4

LEMMA SameHome ==
    ASSUME NEW M, NEW N, Placed(M), Placed(N), NEW w \in Viewers,
           \A t \in Tiles : Stands(M, t, w) <=> Stands(N, t, w)
    PROVE  /\ InWorld(M, w) <=> InWorld(N, w)
           /\ InWorld(M, w) => TileOf(M, w) = TileOf(N, w)
           /\ \A t \in Tiles : CanSee(M, w, t) <=> CanSee(N, w, t)
<1>1. w \in Bodies
  BY DEF Bodies
<1>2. InWorld(M, w) <=> InWorld(N, w)
  BY <1>1, BodyAt
<1>3. ASSUME InWorld(M, w) PROVE TileOf(M, w) = TileOf(N, w)
  <2>1. TileOf(M, w) \in Tiles /\ Stands(M, TileOf(M, w), w)
    BY <1>1, <1>3, BodyAt
  <2>2. Stands(N, TileOf(M, w), w)
    BY <2>1
  <2> QED
    BY <1>1, <2>1, <2>2, BodyAt
<1> QED
  BY <1>2, <1>3 DEF CanSee

\* The stack as a player sees it.
LEMMA StackIs ==
    ASSUME NEW M \in MapStates, NEW w, NEW t \in Tiles
    PROVE  LET F == Kept(M.standing[t], Sees(M, w))
           IN  /\ Seen(M, w, M.standing[t]) = F /\ F \in Seq(Things)
               /\ Len(F) \in Nat /\ Len(F) <= Len(M.standing[t])
               /\ Stack(M, w, t) = (M.tops[t] \o F) \o M.downs[t]
               /\ Stack(M, w, t) \in Seq(Things)
               /\ Len(Stack(M, w, t)) = Len(M.tops[t]) + Len(F) + Len(M.downs[t])
               /\ Len(Stack(M, w, t)) <= ThingCount(M, t)
<1> DEFINE F == Kept(M.standing[t], Sees(M, w))
           a == M.tops[t]
           b == M.standing[t]
           c == M.downs[t]
<1>1. b \in Seq(Bodies) /\ a \in Seq(Things) /\ b \in Seq(Things) /\ c \in Seq(Things)
  BY MapFields
<1>2. F \in Seq(Things) /\ Len(F) \in Nat /\ Len(F) <= Len(b)
  BY <1>1, KeptIs
<1>3. Seen(M, w, b) = F
  <2>1. \A n \in DOMAIN b : CanSeeCreature(M, w, b[n]) <=> b[n] \in Sees(M, w)
    BY <1>1, InSeq DEF Sees
  <2>2. {n \in DOMAIN b : CanSeeCreature(M, w, b[n])} = {n \in DOMAIN b : b[n] \in Sees(M, w)}
    BY <2>1
  <2> QED
    BY <2>2 DEF Seen, Kept
<1> HIDE DEF F
<1>4. Stack(M, w, t) = (a \o F) \o c
  BY <1>3 DEF Stack
<1> HIDE DEF a, b, c
<1>5. a \o F \in Seq(Things) /\ Len(a \o F) = Len(a) + Len(F)
  BY <1>1, <1>2
<1>6. (a \o F) \o c \in Seq(Things) /\ Len((a \o F) \o c) = Len(a \o F) + Len(c)
  BY <1>1, <1>5
<1>7. ThingCount(M, t) = Len(a) + Len(b) + Len(c)
  BY DEF ThingCount, a, b, c
<1>8. Len(a) \in Nat /\ Len(b) \in Nat /\ Len(c) \in Nat
  BY <1>1
<1>9. Len(Stack(M, w, t)) = Len(a) + Len(F) + Len(c) /\ Len(Stack(M, w, t)) <= ThingCount(M, t)
  BY <1>2, <1>4, <1>5, <1>6, <1>7, <1>8
<1>10. Stack(M, w, t) \in Seq(Things)
  BY <1>4, <1>6
<1> QED
  BY <1>2, <1>3, <1>4, <1>9, <1>10 DEF F, a, b, c

\* A list of creatures without those that became visible or invisible.
LEMMA SameSeen ==
    ASSUME NEW s \in Seq(Bodies), NEW P, NEW Q, \A x \in ToSet(s) : x \in P <=> x \in Q
    PROVE  Kept(s, P) = Kept(s, Q)
<1>1. \A n \in DOMAIN s : s[n] \in P <=> s[n] \in Q
  BY InSeq
<1>2. {n \in DOMAIN s : s[n] \in P} = {n \in DOMAIN s : s[n] \in Q}
  BY <1>1
<1> QED
  BY <1>2 DEF Kept

-----------------------------------------------------------------------------
(* One more thing on a tile, at place n of what a player sees.             *)

Grown(M, N, w, t, x, n) ==
    \E a \in Seq(Things), b \in Seq(Things) :
        /\ Stack(M, w, t) = a \o b /\ Stack(N, w, t) = a \o <<x>> \o b /\ n = Len(a) + 1

\* Lists of things put one after the other, of which only this is needed:
Lists == Seq(Things)
Cat(a, b) == a \o b

LEMMA CatIs ==
    /\ \A a, b \in Lists : Cat(a, b) \in Lists /\ Len(Cat(a, b)) = Len(a) + Len(b)
    /\ \A a, b, c \in Lists : Cat(Cat(a, b), c) = Cat(a, Cat(b, c))
<1>1. ASSUME NEW a \in Lists, NEW b \in Lists, NEW c \in Lists
      PROVE  Cat(Cat(a, b), c) = Cat(a, Cat(b, c))
  BY Assoc DEF Lists, Cat
<1>2. ASSUME NEW a \in Lists, NEW b \in Lists
      PROVE  Cat(a, b) \in Lists /\ Len(Cat(a, b)) = Len(a) + Len(b)
  BY Cats DEF Lists, Cat
<1> QED
  BY <1>1, <1>2

LEMMA RegroupTop ==
    ASSUME NEW a \in Lists, NEW o \in Lists, NEW b \in Lists, NEW f \in Lists, NEW d \in Lists
    PROVE  /\ Cat(b, Cat(f, d)) \in Lists
           /\ Cat(Cat(Cat(a, b), f), d) = Cat(a, Cat(b, Cat(f, d)))
           /\ Cat(Cat(Cat(Cat(a, o), b), f), d) = Cat(Cat(a, o), Cat(b, Cat(f, d)))
<1>1. \A u, v \in Lists : Cat(u, v) \in Lists
  BY CatIs
<1>2. \A u, v, z \in Lists : Cat(Cat(u, v), z) = Cat(u, Cat(v, z))
  BY CatIs
<1>3. Cat(f, d) \in Lists /\ Cat(b, Cat(f, d)) \in Lists
  BY <1>1
<1>4. \A u \in Lists : Cat(Cat(Cat(u, b), f), d) = Cat(u, Cat(b, Cat(f, d)))
  <2>1. TAKE u \in Lists
  <2>2. Cat(u, b) \in Lists
    BY <1>1
  <2>3. Cat(Cat(Cat(u, b), f), d) = Cat(Cat(u, b), Cat(f, d))
    BY <2>2, <1>2
  <2>4. Cat(Cat(u, b), Cat(f, d)) = Cat(u, Cat(b, Cat(f, d)))
    BY <1>3, <1>2
  <2> QED
    BY <2>3, <2>4
<1>5. Cat(a, o) \in Lists
  BY <1>1
<1> QED
  BY <1>3, <1>4, <1>5

LEMMA RegroupBody ==
    ASSUME NEW h \in Lists, NEW p \in Lists, NEW o \in Lists, NEW q \in Lists, NEW d \in Lists
    PROVE  /\ Cat(h, p) \in Lists /\ Cat(q, d) \in Lists /\ Len(Cat(h, p)) = Len(h) + Len(p)
           /\ Cat(Cat(h, Cat(p, q)), d) = Cat(Cat(h, p), Cat(q, d))
           /\ Cat(Cat(h, Cat(Cat(p, o), q)), d) = Cat(Cat(Cat(h, p), o), Cat(q, d))
<1>1. \A u, v \in Lists : Cat(u, v) \in Lists
  BY CatIs
<1>2. \A u, v, z \in Lists : Cat(Cat(u, v), z) = Cat(u, Cat(v, z))
  BY CatIs
<1>3. Len(Cat(h, p)) = Len(h) + Len(p)
  BY CatIs
<1>4. \A u \in Lists : Cat(Cat(h, Cat(u, q)), d) = Cat(Cat(h, u), Cat(q, d))
  <2>1. TAKE u \in Lists
  <2>2. Cat(h, u) \in Lists
    BY <1>1
  <2>3. Cat(h, Cat(u, q)) = Cat(Cat(h, u), q)
    BY <1>2
  <2>4. Cat(Cat(Cat(h, u), q), d) = Cat(Cat(h, u), Cat(q, d))
    BY <2>2, <1>2
  <2> QED
    BY <2>3, <2>4
<1>5. Cat(p, o) \in Lists /\ Cat(h, p) \in Lists /\ Cat(q, d) \in Lists
  BY <1>1
<1>6. Cat(h, Cat(p, o)) = Cat(Cat(h, p), o)
  BY <1>2
<1>7. Cat(Cat(h, Cat(p, q)), d) = Cat(Cat(h, p), Cat(q, d))
  BY <1>4
<1>8. Cat(Cat(h, Cat(Cat(p, o), q)), d) = Cat(Cat(h, Cat(p, o)), Cat(q, d))
  BY <1>4, <1>5
<1> QED
  BY <1>3, <1>5, <1>6, <1>7, <1>8

LEMMA RegroupDown ==
    ASSUME NEW h \in Lists, NEW a \in Lists, NEW o \in Lists, NEW b \in Lists
    PROVE  /\ Cat(h, a) \in Lists /\ Len(Cat(h, a)) = Len(h) + Len(a)
           /\ Cat(h, Cat(a, b)) = Cat(Cat(h, a), b)
           /\ Cat(h, Cat(Cat(a, o), b)) = Cat(Cat(Cat(h, a), o), b)
  BY CatIs

LEMMA CatGrows ==
    ASSUME NEW M, NEW N, NEW w, NEW t, NEW x, NEW a \in Lists, NEW b \in Lists,
           Stack(M, w, t) = Cat(a, b), Stack(N, w, t) = Cat(Cat(a, <<x>>), b)
    PROVE  Grown(M, N, w, t, x, Len(a) + 1)
  BY DEF Grown, Cat, Lists

LEMMA TopGrows ==
    ASSUME NEW M \in MapStates, NEW N \in MapStates, NEW w, NEW t \in Tiles, NEW x \in Things,
           NEW a \in Seq(Things), NEW b \in Seq(Things),
           M.tops[t] = a \o b, N.tops[t] = a \o <<x>> \o b, M.downs[t] = N.downs[t],
           Kept(M.standing[t], Sees(M, w)) = Kept(N.standing[t], Sees(N, w))
    PROVE  Grown(M, N, w, t, x, Len(a) + 1)
<1> DEFINE F == Kept(M.standing[t], Sees(M, w))
           D == M.downs[t]
           o == <<x>>
<1>1. a \in Lists /\ b \in Lists /\ D \in Lists /\ o \in Lists
  BY MapFields DEF Lists
<1>2. F \in Lists /\ Stack(M, w, t) = Cat(Cat(Cat(a, b), F), D)
  BY StackIs DEF Lists, Cat
<1>3. Stack(N, w, t) = Cat(Cat(Cat(Cat(a, o), b), F), D)
  BY StackIs DEF Cat
<1> HIDE DEF F, D
<1>4. Cat(b, Cat(F, D)) \in Lists /\ Stack(M, w, t) = Cat(a, Cat(b, Cat(F, D)))
  <2> HIDE DEF o
  <2> QED
    BY <1>1, <1>2, RegroupTop
<1>5. Stack(N, w, t) = Cat(Cat(a, <<x>>), Cat(b, Cat(F, D)))
  <2> HIDE DEF o
  <2>1. Stack(N, w, t) = Cat(Cat(a, o), Cat(b, Cat(F, D)))
    BY <1>1, <1>2, <1>3, RegroupTop
  <2> QED
    BY <2>1 DEF o
<1> QED
  BY <1>1, <1>4, <1>5, CatGrows

LEMMA BodyGrows ==
    ASSUME NEW M \in MapStates, NEW N \in MapStates, NEW w, NEW t \in Tiles, NEW x \in Things,
           NEW p \in Seq(Things), NEW q \in Seq(Things),
           M.tops[t] = N.tops[t], M.downs[t] = N.downs[t],
           Kept(M.standing[t], Sees(M, w)) = p \o q,
           Kept(N.standing[t], Sees(N, w)) = p \o <<x>> \o q
    PROVE  Grown(M, N, w, t, x, Len(M.tops[t]) + Len(p) + 1)
<1> DEFINE T == M.tops[t]
           D == M.downs[t]
           o == <<x>>
<1>1. T \in Lists /\ p \in Lists /\ q \in Lists /\ D \in Lists /\ o \in Lists
  BY MapFields DEF Lists
<1>2. Stack(M, w, t) = Cat(Cat(T, Cat(p, q)), D)
  BY StackIs DEF Cat
<1>3. Stack(N, w, t) = Cat(Cat(T, Cat(Cat(p, o), q)), D)
  BY StackIs DEF Cat
<1> HIDE DEF T, D
<1>4. /\ Cat(T, p) \in Lists /\ Cat(q, D) \in Lists /\ Len(Cat(T, p)) = Len(T) + Len(p)
      /\ Stack(M, w, t) = Cat(Cat(T, p), Cat(q, D))
  <2> HIDE DEF o
  <2> QED
    BY <1>1, <1>2, RegroupBody
<1>5. Stack(N, w, t) = Cat(Cat(Cat(T, p), <<x>>), Cat(q, D))
  <2> HIDE DEF o
  <2>1. Stack(N, w, t) = Cat(Cat(Cat(T, p), o), Cat(q, D))
    BY <1>1, <1>3, RegroupBody
  <2> QED
    BY <2>1 DEF o
<1>6. Grown(M, N, w, t, x, Len(Cat(T, p)) + 1)
  BY <1>4, <1>5, CatGrows
<1> QED
  BY <1>4, <1>6 DEF T

LEMMA DownGrows ==
    ASSUME NEW M \in MapStates, NEW N \in MapStates, NEW w, NEW t \in Tiles, NEW x \in Things,
           NEW a \in Seq(Things), NEW b \in Seq(Things),
           M.downs[t] = a \o b, N.downs[t] = a \o <<x>> \o b, M.tops[t] = N.tops[t],
           Kept(M.standing[t], Sees(M, w)) = Kept(N.standing[t], Sees(N, w))
    PROVE  Grown(M, N, w, t, x, Len(M.tops[t] \o Kept(M.standing[t], Sees(M, w))) + Len(a) + 1)
<1> DEFINE h == M.tops[t] \o Kept(M.standing[t], Sees(M, w))
           o == <<x>>
<1>1. a \in Lists /\ b \in Lists /\ o \in Lists
  BY DEF Lists
<1>2. h \in Lists
  <2>1. M.tops[t] \in Seq(Things) /\ Kept(M.standing[t], Sees(M, w)) \in Seq(Things)
    BY MapFields, StackIs
  <2> QED
    BY <2>1, Cats DEF Lists
<1>3. Stack(M, w, t) = Cat(h, Cat(a, b))
  BY StackIs DEF Cat
<1>4. Stack(N, w, t) = Cat(h, Cat(Cat(a, o), b))
  BY StackIs DEF Cat
<1> HIDE DEF h
<1>5. /\ Cat(h, a) \in Lists /\ Len(Cat(h, a)) = Len(h) + Len(a)
      /\ Stack(M, w, t) = Cat(Cat(h, a), b)
  <2> HIDE DEF o
  <2> QED
    BY <1>1, <1>2, <1>3, RegroupDown
<1>6. Stack(N, w, t) = Cat(Cat(Cat(h, a), <<x>>), b)
  <2> HIDE DEF o
  <2>1. Stack(N, w, t) = Cat(Cat(Cat(h, a), o), b)
    BY <1>1, <1>2, <1>4, RegroupDown
  <2> QED
    BY <2>1 DEF o
<1>7. Grown(M, N, w, t, x, Len(Cat(h, a)) + 1)
  BY <1>1, <1>5, <1>6, CatGrows
<1> QED
  BY <1>5, <1>7 DEF h

-----------------------------------------------------------------------------
(* What is shown of a tile stays right when the client makes of what it    *)
(* showed what the stack became.                                           *)

Missing(M, w, t) == [viewer |-> w, tile |-> t] \in M.missing

\* w saw tile t before, and does not leave it when it is full.
KeepsSight(M, N, w, t) ==
    CanSee(N, w, t) =>
        /\ CanSee(M, w, t)
        /\ TileOf(M, w) = t /\ Len(Stack(M, w, t)) > Limit => TileOf(N, w) = t
        /\ Missing(M, w, t) => Missing(N, w, t)

LEMMA Keeps ==
    ASSUME NEW M, NEW N, NEW w, NEW t, Right(M, w, t), KeepsSight(M, N, w, t),
           M.view[w][t] = Cut(Stack(M, w, t)) => N.view[w][t] = Cut(Stack(N, w, t)),
           Len(Stack(M, w, t)) > Limit => Len(Stack(N, w, t)) > Limit
    PROVE  Right(N, w, t)
<1> SUFFICES ASSUME CanSee(N, w, t), ~Missing(N, w, t) PROVE Shows(N, w, t)
  BY DEF Right, Missing
<1>1. /\ CanSee(M, w, t) /\ ~Missing(M, w, t)
      /\ TileOf(M, w) = t /\ Len(Stack(M, w, t)) > Limit => TileOf(N, w) = t
  BY DEF KeepsSight
<1>2. Shows(M, w, t)
  BY <1>1 DEF Right, Missing
<1> QED
  BY <1>1, <1>2 DEF Shows

LEMMA Same ==
    ASSUME NEW M, NEW N, NEW w, NEW t, Right(M, w, t), KeepsSight(M, N, w, t),
           M.view[w][t] = N.view[w][t], Stack(M, w, t) = Stack(N, w, t)
    PROVE  Right(N, w, t)
  BY Keeps

LEMMA GrownIs ==
    ASSUME NEW M, NEW N, NEW w, NEW t, NEW x \in Things, NEW n, Grown(M, N, w, t, x, n)
    PROVE  /\ n \in Nat \ {0}
           /\ Len(Stack(M, w, t)) \in Nat /\ Len(Stack(N, w, t)) = Len(Stack(M, w, t)) + 1
           /\ Inserted(Cut(Stack(M, w, t)), Told(n), x) = Cut(Stack(N, w, t))
           /\ Len(Stack(N, w, t)) <= Limit =>
                 /\ Removed(Cut(Stack(N, w, t)), Told(n)) = Cut(Stack(M, w, t))
                 /\ Removed(Cut(Stack(N, w, t)), n) = Cut(Stack(M, w, t))
<1>1. PICK a \in Seq(Things) : \E b \in Seq(Things) :
          Stack(M, w, t) = a \o b /\ Stack(N, w, t) = a \o <<x>> \o b /\ n = Len(a) + 1
  BY DEF Grown
<1>2. PICK b \in Seq(Things) :
          Stack(M, w, t) = a \o b /\ Stack(N, w, t) = a \o <<x>> \o b /\ n = Len(a) + 1
  BY <1>1
<1> HIDE DEF Things
<1>3. Len(a \o b) = Len(a) + Len(b) /\ Len(a \o <<x>> \o b) = Len(a) + Len(b) + 1
  BY Cats, With
<1>4. Len(a) \in Nat /\ Len(b) \in Nat
  OBVIOUS
<1>5. Inserted(Cut(a \o b), Told(Len(a) + 1), x) = Cut(a \o <<x>> \o b)
  BY LimitOK, Insertion
<1>6. Len(a) + Len(b) + 1 <= Limit =>
          /\ Removed(Cut(a \o <<x>> \o b), Told(Len(a) + 1)) = Cut(a \o b)
          /\ Removed(Cut(a \o <<x>> \o b), Len(a) + 1) = Cut(a \o b)
  BY LimitOK, Removal
<1>7. n \in Nat \ {0} /\ Len(Stack(M, w, t)) \in Nat /\ Len(Stack(N, w, t)) = Len(Stack(M, w, t)) + 1
  BY <1>2, <1>3, <1>4
<1>8. Inserted(Cut(Stack(M, w, t)), Told(n), x) = Cut(Stack(N, w, t))
  BY <1>2, <1>5
<1>9. Len(Stack(N, w, t)) <= Limit =>
          /\ Removed(Cut(Stack(N, w, t)), Told(n)) = Cut(Stack(M, w, t))
          /\ Removed(Cut(Stack(N, w, t)), n) = Cut(Stack(M, w, t))
  BY <1>2, <1>3, <1>6
<1> QED
  BY <1>7, <1>8, <1>9

LEMMA RightInsert ==
    ASSUME NEW M, NEW N, NEW w, NEW t, NEW x \in Things, NEW n, Grown(M, N, w, t, x, n),
           Right(M, w, t), KeepsSight(M, N, w, t),
           N.view[w][t] = Inserted(M.view[w][t], Told(n), x)
    PROVE  Right(N, w, t)
<1>1. /\ Len(Stack(M, w, t)) \in Nat /\ Len(Stack(N, w, t)) = Len(Stack(M, w, t)) + 1
      /\ Inserted(Cut(Stack(M, w, t)), Told(n), x) = Cut(Stack(N, w, t))
  BY GrownIs
<1>2. Limit \in Nat
  BY LimitOK DEF LimitIs
<1>3. Len(Stack(M, w, t)) > Limit => Len(Stack(N, w, t)) > Limit
  BY <1>1, <1>2
<1>4. M.view[w][t] = Cut(Stack(M, w, t)) => N.view[w][t] = Cut(Stack(N, w, t))
  BY <1>1
<1> QED
  BY <1>3, <1>4, Keeps

LEMMA RightRemove ==
    ASSUME NEW M, NEW N, NEW w, NEW t, NEW x \in Things, NEW n, Grown(N, M, w, t, x, n),
           Right(M, w, t), KeepsSight(M, N, w, t), Len(Stack(M, w, t)) <= Limit,
           \/ N.view[w][t] = Removed(M.view[w][t], Told(n))
           \/ N.view[w][t] = Removed(M.view[w][t], n)
    PROVE  Right(N, w, t)
<1>1. /\ Len(Stack(N, w, t)) \in Nat /\ Len(Stack(M, w, t)) = Len(Stack(N, w, t)) + 1
      /\ Removed(Cut(Stack(M, w, t)), Told(n)) = Cut(Stack(N, w, t))
      /\ Removed(Cut(Stack(M, w, t)), n) = Cut(Stack(N, w, t))
  BY GrownIs
<1>2. Limit \in Nat
  BY LimitOK DEF LimitIs
<1>3. ~(Len(Stack(M, w, t)) > Limit)
  BY <1>1, <1>2
<1>4. M.view[w][t] = Cut(Stack(M, w, t)) => N.view[w][t] = Cut(Stack(N, w, t))
  BY <1>1
<1> QED
  BY <1>3, <1>4, Keeps

\* A creature that arrives on foot stands before the other creatures.
LEMMA RightArrive ==
    ASSUME NEW M \in MapStates, NEW N \in MapStates, NEW w, NEW t \in Tiles, NEW x \in Bodies,
           M.tops[t] = N.tops[t], M.downs[t] = N.downs[t],
           Kept(N.standing[t], Sees(N, w)) = <<x>> \o Kept(M.standing[t], Sees(M, w)),
           Right(M, w, t), KeepsSight(M, N, w, t),
           N.view[w][t] = Arrived(M.view[w][t], x)
    PROVE  Right(N, w, t)
<1> DEFINE T == M.tops[t]
           D == M.downs[t]
           F == Kept(M.standing[t], Sees(M, w))
           o == <<x>>
<1>1. x \in Things
  BY DEF Things
<1>2. T \in Lists /\ D \in Lists /\ F \in Lists /\ o \in Lists
  <2>1. T \in Seq(Things) /\ D \in Seq(Things) /\ M.standing[t] \in Seq(Things)
    BY MapFields
  <2>2. F \in Seq(Things)
    BY <2>1, KeptIs
  <2> HIDE DEF F, T, D, Things
  <2>3. o \in Seq(Things)
    BY <1>1
  <2> QED
    BY <2>1, <2>2, <2>3 DEF Lists
<1>3. Stack(M, w, t) = Cat(Cat(T, F), D)
  BY StackIs DEF Cat
<1>4. Stack(N, w, t) = Cat(Cat(T, Cat(o, F)), D)
  BY StackIs DEF Cat
<1>5. \A n \in DOMAIN T : T[n] \in TopItems
  BY MapFields, InSeq
<1>6. \A n \in DOMAIN Cat(F, D) : Cat(F, D)[n] \notin TopItems
  <2>1. F \in Seq(Bodies) /\ D \in Seq(DownItems)
    BY MapFields, KeptIs
  <2>2. \A n \in DOMAIN F : F[n] \notin TopItems
    BY <2>1, TileViewAssumption DEF TileViewAssumption
  <2>3. \A n \in DOMAIN D : D[n] \notin TopItems
    BY <2>1, TileViewAssumption DEF TileViewAssumption
  <2>4. /\ DOMAIN Cat(F, D) = 1 .. Len(F) + Len(D)
        /\ \A n \in 1 .. Len(F) + Len(D) :
               Cat(F, D)[n] = IF n <= Len(F) THEN F[n] ELSE D[n - Len(F)]
    <3> HIDE DEF F, D, Things
    <3>1. F \in Seq(Things) /\ D \in Seq(Things)
      BY <1>2 DEF Lists
    <3> QED
      BY <3>1, Cats DEF Cat
  <2>5. DOMAIN F = 1 .. Len(F) /\ DOMAIN D = 1 .. Len(D) /\ Len(F) \in Nat /\ Len(D) \in Nat
    BY <2>1
  <2> HIDE DEF F, D
  <2>6. ASSUME NEW n \in 1 .. Len(F) + Len(D) PROVE Cat(F, D)[n] \notin TopItems
    <3>1. CASE n <= Len(F)
      <4>1. n \in DOMAIN F
        BY <2>5, <3>1
      <4> QED
        BY <4>1, <3>1, <2>2, <2>4
    <3>2. CASE ~(n <= Len(F))
      <4>1. n - Len(F) \in DOMAIN D
        BY <2>5, <3>2
      <4> QED
        BY <4>1, <3>2, <2>3, <2>4
    <3> QED
      BY <3>1, <3>2
  <2> QED
    BY <2>4, <2>6
<1> HIDE DEF T, D, F
<1>7. Cat(F, D) \in Lists /\ Stack(M, w, t) = Cat(T, Cat(F, D))
  BY <1>2, <1>3, CatIs
<1>8. Stack(N, w, t) = Cat(Cat(T, o), Cat(F, D))
  <2> HIDE DEF o
  <2>1. Cat(T, o) \in Lists
    BY <1>2, CatIs
  <2>2. Cat(T, Cat(o, F)) = Cat(Cat(T, o), F)
    BY <1>2, CatIs
  <2>3. Cat(Cat(Cat(T, o), F), D) = Cat(Cat(T, o), Cat(F, D))
    BY <1>2, <2>1, CatIs
  <2> QED
    BY <1>4, <2>2, <2>3
<1>9. Grown(M, N, w, t, x, Len(T) + 1)
  <2>1. Stack(N, w, t) = Cat(Cat(T, <<x>>), Cat(F, D))
    BY <1>8 DEF o
  <2> QED
    BY <1>2, <1>7, <2>1, CatGrows
<1>10. /\ Len(Stack(M, w, t)) \in Nat /\ Len(Stack(N, w, t)) = Len(Stack(M, w, t)) + 1
  BY <1>1, <1>9, GrownIs
<1>11. Arrived(Cut(Stack(M, w, t)), x) = Cut(Stack(N, w, t))
  <2> DEFINE b == Cat(F, D)
  <2>1. T \in Seq(Things) /\ b \in Seq(Things)
    BY <1>2, <1>7 DEF Lists
  <2>2. \A n \in DOMAIN b : b[n] \notin TopItems
    BY <1>6
  <2> HIDE DEF b
  <2>3. Arrived(Cut(T \o b), x) = Cut(T \o <<x>> \o b)
    BY <2>1, <2>2, <1>1, <1>5, LimitOK, Arrival
  <2>4. Stack(M, w, t) = T \o b /\ Stack(N, w, t) = T \o <<x>> \o b
    BY <1>7, <1>8 DEF b, Cat, o
  <2> QED
    BY <2>3, <2>4
<1>12. M.view[w][t] = Cut(Stack(M, w, t)) => N.view[w][t] = Cut(Stack(N, w, t))
  BY <1>11
<1>13. Limit \in Nat
  BY LimitOK DEF LimitIs
<1>14. Len(Stack(M, w, t)) > Limit => Len(Stack(N, w, t)) > Limit
  BY <1>10, <1>13
<1> QED
  BY <1>12, <1>14, Keeps

-----------------------------------------------------------------------------
(* Maps of the same things, and tiles of the same things.                  *)

LEMMA SameStack ==
    ASSUME NEW M \in MapStates, NEW N \in MapStates, NEW w, NEW t \in Tiles,
           M.tops[t] = N.tops[t], M.downs[t] = N.downs[t],
           Kept(M.standing[t], Sees(M, w)) = Kept(N.standing[t], Sees(N, w))
    PROVE  Stack(M, w, t) = Stack(N, w, t)
  BY StackIs

Alike(M, N) ==
    /\ M.tops = N.tops /\ M.standing = N.standing
    /\ M.downs = N.downs /\ M.hidden = N.hidden

LEMMA AlikeIs ==
    ASSUME NEW M, NEW N \in MapStates, Placed(M), Alike(M, N)
    PROVE  /\ Placed(N)
           /\ \A w \in Viewers :
                 /\ InWorld(M, w) <=> InWorld(N, w)
                 /\ InWorld(M, w) => TileOf(M, w) = TileOf(N, w)
           /\ \A w \in Viewers, t \in Tiles :
                 /\ CanSee(M, w, t) <=> CanSee(N, w, t)
                 /\ Stack(M, w, t) = Stack(N, w, t)
           /\ \A t \in Tiles : ThingCount(M, t) = ThingCount(N, t)
<1>1. \A t, c : Stands(M, t, c) <=> Stands(N, t, c)
  BY DEF Alike, Stands
<1>2. Placed(N)
  BY <1>1 DEF Placed, Alike
<1>3. \A w \in Viewers :
          /\ InWorld(M, w) <=> InWorld(N, w)
          /\ InWorld(M, w) => TileOf(M, w) = TileOf(N, w)
          /\ \A t \in Tiles : CanSee(M, w, t) <=> CanSee(N, w, t)
  BY <1>1, <1>2, SameHome
<1>4. \A t \in Tiles : ThingCount(M, t) = ThingCount(N, t)
  BY DEF ThingCount, Alike
<1>5. ASSUME NEW w \in Viewers, NEW t \in Tiles PROVE Stack(M, w, t) = Stack(N, w, t)
  <2>1. Sees(M, w) = Sees(N, w)
    BY DEF Sees, CanSeeCreature, Alike
  <2>2. M \in MapStates
    BY DEF Placed
  <2> QED
    BY <2>1, <2>2, SameStack DEF Alike
<1> QED
  BY <1>2, <1>3, <1>4, <1>5

-----------------------------------------------------------------------------
(* The messages: what they leave a client with, and which tile is resent.  *)

LEMMA InsertType ==
    ASSUME NEW S, NEW s \in Seq(S), NEW k \in 1 .. Len(s) + 1, NEW x \in S
    PROVE  InsertAt(s, k, x) \in Seq(S)
<1> DEFINE p == PartBefore(s, k)
           q == PartFrom(s, k)
<1>1. s \in Seq(S) /\ k \in 1 .. Len(s) + 1 /\ x \in S
  OBVIOUS
<1>2. /\ p \in Seq(S) /\ q \in Seq(S) /\ Len(p) = k - 1 /\ Len(q) = Len(s) - k + 1
      /\ s = p \o q /\ InsertAt(s, k, x) = p \o <<x>> \o q
  <2>1. Opened(S, s, k, x, p, q)
    BY ONLY <1>1, SplitInsert
  <2> HIDE DEF p, q
  <2> QED
    BY ONLY <2>1 DEF Opened
<1> HIDE DEF p, q
<1>3. p \o <<x>> \o q \in Seq(S)
  BY <1>2, With
<1> QED
  BY <1>2, <1>3

LEMMA InsertedIs ==
    ASSUME LimitIs, NEW S, NEW v \in Seq(S), NEW k \in Nat, NEW x \in S
    PROVE  Inserted(v, k, x) \in Seq(S)
<1> DEFINE p == IF k > Len(v) THEN Len(v) + 1 ELSE k
<1>1. CASE k = 0
  BY <1>1 DEF Inserted
<1>2. CASE k # 0
  <2>1. p \in 1 .. Len(v) + 1
    BY <1>2
  <2> HIDE DEF p
  <2>4. InsertAt(v, p, x) \in Seq(S)
    BY <2>1, InsertType
  <2>5. Cut(InsertAt(v, p, x)) \in Seq(S)
    BY <2>4, CutIs
  <2> QED
    BY <2>5, <1>2 DEF Inserted, p
<1> QED
  BY <1>1, <1>2

LEMMA MessageTypes ==
    ASSUME NEW v \in Seq(Things), NEW x \in Things, NEW n \in Nat
    PROVE  /\ Inserted(v, n, x) \in Seq(Things) /\ Removed(v, n) \in Seq(Things)
           /\ Replaced(v, n, x) \in Seq(Things) /\ Arrived(v, x) \in Seq(Things)
<1> HIDE DEF Things
<1>1. ASSUME NEW k \in Nat PROVE Inserted(v, k, x) \in Seq(Things)
  BY LimitOK, InsertedIs
<1>2. Removed(v, n) \in Seq(Things)
  <2>1. CASE n \in DOMAIN v
    <3> DEFINE a == SubSeq(v, 1, n - 1)
               b == SubSeq(v, n + 1, Len(v))
    <3>1. a \in Seq(Things) /\ b \in Seq(Things) /\ RemoveAt(v, n) = a \o b
      BY <2>1, Split
    <3> HIDE DEF a, b
    <3> QED
      BY <2>1, <3>1, Cats DEF Removed
  <2>2. CASE n \notin DOMAIN v
    BY <2>2 DEF Removed
  <2> QED
    BY <2>1, <2>2
<1>3. Replaced(v, n, x) \in Seq(Things)
  BY DEF Replaced
<1>4. Arrived(v, x) \in Seq(Things)
  <2> DEFINE B == {k \in DOMAIN v : v[k] \in TopItems}
  <2>1. IsFiniteSet(B)
    <3>1. B \in SUBSET (1 .. Len(v)) /\ Len(v) \in Nat
      OBVIOUS
    <3> HIDE DEF B
    <3>2. IsFiniteSet(1 .. Len(v))
      BY <3>1, FS_Interval
    <3> QED
      BY <3>1, <3>2, FS_Subset
  <2>2. Cardinality(B) + 1 \in Nat
    BY <2>1, FS_CardinalityType
  <2> HIDE DEF B
  <2>3. Inserted(v, Cardinality(B) + 1, x) \in Seq(Things)
    BY <2>2, <1>1
  <2> QED
    BY <2>3 DEF Arrived, B
<1> QED
  BY <1>1, <1>2, <1>3, <1>4

LEMMA DescribedIs ==
    ASSUME NEW M \in MapStates, NEW w \in Viewers, NEW t \in Tiles
    PROVE  /\ Described(M, w, t) \in Seq(Things)
           /\ \/ Described(M, w, t) = Cut(Stack(M, w, t))
              \/ TileOf(M, w) = t /\ w \notin Exact /\ Len(Stack(M, w, t)) > Limit
<1> DEFINE all == Stack(M, w, t)
           front == SubSeq(all, 1, Limit - 1)
<1>1. all \in Seq(Things) /\ w \in Things /\ Limit \in Nat /\ Limit > 2
  BY StackIs, LimitOK DEF Things, Bodies, LimitIs
<1> HIDE DEF all, Things
<1>2. Cut(all) \in Seq(Things)
  BY <1>1, LimitOK, CutIs
<1>3. ASSUME Len(all) > Limit PROVE Append(front, w) \in Seq(Things)
  <2>1. Limit - 1 \in 1 .. Len(all)
    BY <1>1, <1>3
  <2>2. front \in Seq(Things)
    BY <2>1, <1>1
  <2> HIDE DEF front
  <2> QED
    BY <2>2, <1>1
<1>4. Described(M, w, t) =
        IF TileOf(M, w) = t /\ w \notin Exact /\ Len(all) > Limit /\ ~Contains(front, w)
        THEN Append(front, w) ELSE Cut(all)
  BY DEF Described, all
<1> HIDE DEF front
<1>5. Described(M, w, t) \in Seq(Things)
  BY <1>2, <1>3, <1>4
<1>6. \/ Described(M, w, t) = Cut(all)
      \/ TileOf(M, w) = t /\ w \notin Exact /\ Len(all) > Limit
  BY <1>4
<1> QED
  BY <1>5, <1>6 DEF all

\* Every client that sees tile t changes what it shows of it to f[w].
Sent(M, t, f) ==
    [M EXCEPT !.view = [w \in Viewers |->
        IF CanSee(M, w, t) THEN [M.view[w] EXCEPT ![t] = f[w]] ELSE M.view[w]]]

LEMMA SentIs ==
    ASSUME NEW M \in MapStates, NEW t \in Tiles, NEW f,
           \A w \in Viewers : CanSee(M, w, t) => f[w] \in Seq(Things)
    PROVE  /\ Sent(M, t, f) \in MapStates /\ Alike(M, Sent(M, t, f))
           /\ Sent(M, t, f).missing = M.missing
           /\ \A w \in Viewers, s \in Tiles :
                 Sent(M, t, f).view[w][s] =
                     IF CanSee(M, w, t) /\ s = t THEN f[w] ELSE M.view[w][s]
<1> DEFINE N == Sent(M, t, f)
           V == [w \in Viewers |->
                    IF CanSee(M, w, t) THEN [M.view[w] EXCEPT ![t] = f[w]] ELSE M.view[w]]
<1>1. N = [M EXCEPT !.view = V]
  BY DEF Sent
<1>2. M.view \in [Viewers -> [Tiles -> Seq(Things)]]
  BY DEF MapStates
<1> HIDE DEF Things
<1>3. ASSUME NEW w \in Viewers
      PROVE  /\ V[w] \in [Tiles -> Seq(Things)]
             /\ \A s \in Tiles :
                   V[w][s] = IF CanSee(M, w, t) /\ s = t THEN f[w] ELSE M.view[w][s]
  <2>1. M.view[w] \in [Tiles -> Seq(Things)]
    BY <1>2
  <2>2. CASE CanSee(M, w, t)
    <3>1. V[w] = [M.view[w] EXCEPT ![t] = f[w]] /\ f[w] \in Seq(Things)
      BY <2>2
    <3> HIDE DEF V
    <3> QED
      BY <3>1, <2>1, <2>2
  <2>3. CASE ~CanSee(M, w, t)
    <3>1. V[w] = M.view[w]
      BY <2>3
    <3> HIDE DEF V
    <3> QED
      BY <3>1, <2>1, <2>3
  <2> QED
    BY <2>2, <2>3
<1>4. V \in [Viewers -> [Tiles -> Seq(Things)]]
  BY <1>3
<1> HIDE DEF V
<1>5. N \in MapStates /\ N.view = V /\ N.missing = M.missing
  BY <1>1, <1>4 DEF MapStates
<1>6. Alike(M, N)
  BY <1>1 DEF Alike, MapStates
<1> QED
  BY <1>3, <1>5, <1>6

LEMMA UpdateTile ==
    ASSUME NEW M, NEW t \in Tiles, Placed(M)
    PROVE  LET N == SendUpdateTile(M, t)
           IN  /\ N \in MapStates /\ Alike(M, N) /\ N.missing \subseteq M.missing
               /\ \A w \in Viewers : CanSee(N, w, t) => Right(N, w, t)
               /\ \A w \in Viewers, s \in Tiles : s # t /\ Right(M, w, s) => Right(N, w, s)
<1> DEFINE f == [w \in Viewers |-> Described(M, w, t)]
           K == Sent(M, t, f)
           Z == {m \in M.missing : ~(m.tile = t /\ CanSee(M, m.viewer, t))}
           N == SendUpdateTile(M, t)
<1>1. M \in MapStates
  BY DEF Placed
<1>2. \A w \in Viewers : CanSee(M, w, t) => f[w] \in Seq(Things)
  BY <1>1, DescribedIs
<1>3. /\ K \in MapStates /\ Alike(M, K) /\ K.missing = M.missing
      /\ \A w \in Viewers, s \in Tiles :
            K.view[w][s] = IF CanSee(M, w, t) /\ s = t THEN f[w] ELSE M.view[w][s]
  <2> HIDE DEF f
  <2> QED
    BY <1>1, <1>2, SentIs
<1>4. K = Send(M, t, LAMBDA w : Described(M, w, t))
  BY DEF Sent, Send
<1>5. N = [K EXCEPT !.missing = Z]
  BY <1>4 DEF SendUpdateTile
<1>6. Z \subseteq M.missing /\ M.missing \in SUBSET Pairs
  BY <1>1 DEF MapStates
<1>7. \A w \in Viewers, s \in Tiles :
          [viewer |-> w, tile |-> s] \in Z <=> Missing(M, w, s) /\ ~(s = t /\ CanSee(M, w, t))
  BY DEF Missing
<1> HIDE DEF K, Z, f
<1>8. N \in MapStates /\ N.missing = Z /\ N.view = K.view
  BY <1>3, <1>5, <1>6 DEF MapStates
<1>9. Alike(M, N)
  BY <1>3, <1>5 DEF Alike, MapStates
<1> HIDE DEF N
<1>10. /\ \A w \in Viewers : InWorld(M, w) => TileOf(M, w) = TileOf(N, w)
       /\ \A w \in Viewers, s \in Tiles :
             (CanSee(M, w, s) <=> CanSee(N, w, s)) /\ Stack(M, w, s) = Stack(N, w, s)
  BY <1>8, <1>9, AlikeIs
<1>11. ASSUME NEW w \in Viewers, CanSee(N, w, t) PROVE Right(N, w, t)
  <2>1. CanSee(M, w, t) /\ InWorld(M, w)
    BY <1>10, <1>11 DEF CanSee
  <2>2. N.view[w][t] = Described(M, w, t)
    BY <2>1, <1>3, <1>8 DEF f
  <2>3. \/ Described(M, w, t) = Cut(Stack(M, w, t))
        \/ TileOf(M, w) = t /\ w \notin Exact /\ Len(Stack(M, w, t)) > Limit
    BY <1>1, DescribedIs
  <2>4. Stack(M, w, t) = Stack(N, w, t) /\ TileOf(M, w) = TileOf(N, w)
    BY <1>10, <2>1
  <2> QED
    BY <2>2, <2>3, <2>4 DEF Right, Shows
<1>12. ASSUME NEW w \in Viewers, NEW s \in Tiles, s # t, Right(M, w, s) PROVE Right(N, w, s)
  <2>1. KeepsSight(M, N, w, s)
    BY <1>7, <1>8, <1>10, <1>12 DEF KeepsSight, Missing, CanSee
  <2>2. M.view[w][s] = N.view[w][s]
    BY <1>3, <1>8, <1>12
  <2>3. Stack(M, w, s) = Stack(N, w, s)
    BY <1>10
  <2> QED
    BY <2>1, <2>2, <2>3, <1>12, Same
<1>13. N.missing \subseteq M.missing
  BY <1>6, <1>8
<1> QED
  BY <1>8, <1>9, <1>11, <1>12, <1>13 DEF N

LEMMA TileUpdated ==
    ASSUME NEW M, NEW t \in Tiles, Placed(M),
           \A w \in Viewers, s \in Tiles : s # t => Right(M, w, s)
    PROVE  Good(SendUpdateTile(M, t)) /\ Alike(M, SendUpdateTile(M, t))
<1> DEFINE N == SendUpdateTile(M, t)
<1>1. /\ N \in MapStates /\ Alike(M, N)
      /\ \A w \in Viewers : CanSee(N, w, t) => Right(N, w, t)
      /\ \A w \in Viewers, s \in Tiles : s # t /\ Right(M, w, s) => Right(N, w, s)
  BY UpdateTile
<1> HIDE DEF N
<1>2. Placed(N)
  BY <1>1, AlikeIs
<1>3. \A w \in Viewers, s \in Tiles : ~CanSee(N, w, s) => Right(N, w, s)
  BY DEF Right
<1>4. \A w \in Viewers, s \in Tiles : Right(N, w, s)
  BY <1>1, <1>3
<1> QED
  BY <1>1, <1>2, <1>4 DEF Good, N

\* After a removal: a tile with so many things that one may come into view is resent.
LEMMA Notified ==
    ASSUME NEW M, NEW t \in Tiles, Nearly(M, t)
    PROVE  Good(PostRemoveNotification(M, t)) /\ Alike(M, PostRemoveNotification(M, t))
<1>1. Placed(M) /\ \A w \in Viewers, s \in Tiles : s # t => Right(M, w, s)
  BY DEF Nearly
<1>2. CASE ThingCount(M, t) > Limit - 2
  BY <1>1, <1>2, TileUpdated DEF PostRemoveNotification
<1>3. CASE ~(ThingCount(M, t) > Limit - 2)
  <2>1. M \in MapStates
    BY <1>1 DEF Placed
  <2>2. /\ Len(M.tops[t]) \in Nat /\ Len(M.standing[t]) \in Nat /\ Len(M.downs[t]) \in Nat
        /\ Limit \in Nat
    BY <2>1, MapFields, LimitOK DEF LimitIs
  <2>3. ThingCount(M, t) <= Limit - 2
    <3>1. ThingCount(M, t) \in Nat
      <4> DEFINE x == Len(M.tops[t])
                 y == Len(M.standing[t])
                 z == Len(M.downs[t])
      <4>1. x \in Nat /\ y \in Nat /\ z \in Nat
        BY <2>2
      <4>2. ThingCount(M, t) = x + y + z
        BY DEF ThingCount
      <4> HIDE DEF x, y, z
      <4> QED
        BY <4>1, <4>2
    <3> QED
      BY <3>1, <2>2, <1>3
  <2>4. Good(M)
    BY <1>1, <2>3 DEF Good, Nearly
  <2> QED
    BY <1>3, <2>4 DEF PostRemoveNotification, Alike
<1> QED
  BY <1>2, <1>3

-----------------------------------------------------------------------------
(* Items come and go: nobody moves.                                        *)

LEMMA SameBodies ==
    ASSUME NEW M, NEW N \in MapStates, Placed(M), N.standing = M.standing, N.hidden = M.hidden,
           \A t \in Tiles : Distinct(N.tops[t]) /\ Distinct(N.downs[t])
    PROVE  /\ Placed(N)
           /\ \A w \in Viewers :
                 /\ InWorld(M, w) => TileOf(M, w) = TileOf(N, w)
                 /\ Sees(M, w) = Sees(N, w)
                 /\ \A t \in Tiles : CanSee(M, w, t) <=> CanSee(N, w, t)
<1>1. \A t, c : Stands(M, t, c) <=> Stands(N, t, c)
  BY DEF Stands
<1>2. Placed(N)
  BY <1>1 DEF Placed
<1>3. \A w \in Viewers :
          /\ InWorld(M, w) => TileOf(M, w) = TileOf(N, w)
          /\ \A t \in Tiles : CanSee(M, w, t) <=> CanSee(N, w, t)
  BY <1>1, <1>2, SameHome
<1>4. \A w \in Viewers : Sees(M, w) = Sees(N, w)
  BY DEF Sees, CanSeeCreature
<1> QED
  BY <1>2, <1>3, <1>4

\* N has item i on tile t, and M is the same without it.
OneMore(M, N, t, i) ==
    /\ M.standing = N.standing /\ M.hidden = N.hidden
    /\ \A s \in Tiles : s # t => M.tops[s] = N.tops[s] /\ M.downs[s] = N.downs[s]
    /\ \E a \in Seq(Things), b \in Seq(Things) :
          \/ /\ i \in TopItems /\ M.downs[t] = N.downs[t]
             /\ M.tops[t] = a \o b /\ N.tops[t] = a \o <<i>> \o b
          \/ /\ i \in DownItems /\ M.tops[t] = N.tops[t]
             /\ M.downs[t] = a \o b /\ N.downs[t] = a \o <<i>> \o b

ItemPlace(M, w, t, i) ==
    IF i \in TopItems THEN IndexOf(M.tops[t], i)
    ELSE Len(M.tops[t] \o Seen(M, w, M.standing[t])) + IndexOf(M.downs[t], i)

LEMMA ItemGrows ==
    ASSUME NEW M, NEW N, Placed(M), Placed(N), NEW t \in Tiles, NEW i, OneMore(M, N, t, i),
           NEW w \in Viewers
    PROVE  /\ Grown(M, N, w, t, i, ItemPlace(N, w, t, i))
           /\ StackposOfItem(N, w, t, i) = Told(ItemPlace(N, w, t, i))
           /\ ItemPlace(N, w, t, i) \in Nat
           /\ \A s \in Tiles : s # t => Stack(M, w, s) = Stack(N, w, s)
<1>1. M \in MapStates /\ N \in MapStates /\ Distinct(N.tops[t]) /\ Distinct(N.downs[t])
  BY DEF Placed
<1>2. /\ M.standing = N.standing /\ M.hidden = N.hidden
      /\ \A s \in Tiles : s # t => M.tops[s] = N.tops[s] /\ M.downs[s] = N.downs[s]
  BY DEF OneMore
<1>3. PICK a \in Seq(Things) : \E b \in Seq(Things) :
          \/ /\ i \in TopItems /\ M.downs[t] = N.downs[t]
             /\ M.tops[t] = a \o b /\ N.tops[t] = a \o <<i>> \o b
          \/ /\ i \in DownItems /\ M.tops[t] = N.tops[t]
             /\ M.downs[t] = a \o b /\ N.downs[t] = a \o <<i>> \o b
  BY DEF OneMore
<1>4. PICK b \in Seq(Things) :
          \/ /\ i \in TopItems /\ M.downs[t] = N.downs[t]
             /\ M.tops[t] = a \o b /\ N.tops[t] = a \o <<i>> \o b
          \/ /\ i \in DownItems /\ M.tops[t] = N.tops[t]
             /\ M.downs[t] = a \o b /\ N.downs[t] = a \o <<i>> \o b
  BY <1>3
<1>5. Sees(M, w) = Sees(N, w)
  BY <1>2 DEF Sees, CanSeeCreature
<1>6. \A s \in Tiles : Kept(M.standing[s], Sees(M, w)) = Kept(N.standing[s], Sees(N, w))
  BY <1>2, <1>5
<1>7. \A s \in Tiles : s # t => Stack(M, w, s) = Stack(N, w, s)
  BY <1>1, <1>2, <1>6, SameStack
<1>8. StackposOfItem(N, w, t, i) = Told(ItemPlace(N, w, t, i))
  BY DEF StackposOfItem, ItemPlace
<1>9. TopItems \cap DownItems = {} /\ TopItems \subseteq Things /\ DownItems \subseteq Things
  BY TileViewAssumption DEF TileViewAssumption, Things
<1>10. Len(a) \in Nat
  OBVIOUS
<1> HIDE DEF Things
<1>11. CASE /\ i \in TopItems /\ M.downs[t] = N.downs[t]
            /\ M.tops[t] = a \o b /\ N.tops[t] = a \o <<i>> \o b
  <2>1. i \in Things
    BY <1>9, <1>11
  <2>2. IndexOf(N.tops[t], i) = Len(a) + 1
    BY <2>1, <1>1, <1>11, DistinctWith
  <2>3. Grown(M, N, w, t, i, Len(a) + 1)
    BY <2>1, <1>1, <1>6, <1>11, TopGrows
  <2>4. ItemPlace(N, w, t, i) = Len(a) + 1
    BY <2>2, <1>11 DEF ItemPlace
  <2> QED
    BY <2>3, <2>4, <1>7, <1>8, <1>10
<1>12. CASE /\ i \in DownItems /\ M.tops[t] = N.tops[t]
            /\ M.downs[t] = a \o b /\ N.downs[t] = a \o <<i>> \o b
  <2>1. i \in Things /\ i \notin TopItems
    BY <1>9, <1>12
  <2>2. IndexOf(N.downs[t], i) = Len(a) + 1
    BY <2>1, <1>1, <1>12, DistinctWith
  <2> DEFINE F == Kept(M.standing[t], Sees(M, w))
             l == Len(M.tops[t] \o F)
  <2>3. Grown(M, N, w, t, i, l + Len(a) + 1)
    BY <2>1, <1>1, <1>6, <1>12, DownGrows
  <2>4. Seen(N, w, N.standing[t]) = F
    BY <1>1, <1>6, StackIs
  <2>5. l \in Nat
    <3>1. M.tops[t] \in Seq(Things) /\ F \in Seq(Things)
      BY <1>1, MapFields, StackIs
    <3> HIDE DEF F
    <3>2. M.tops[t] \o F \in Seq(Things)
      BY <3>1, Cats
    <3> QED
      BY <3>2
  <2>6. ItemPlace(N, w, t, i) = l + (Len(a) + 1)
    BY <2>1, <2>2, <2>4, <1>12 DEF ItemPlace
  <2> HIDE DEF l
  <2>7. ItemPlace(N, w, t, i) = l + Len(a) + 1 /\ l + Len(a) + 1 \in Nat
    BY <2>5, <2>6, <1>10
  <2> QED
    BY <2>3, <2>7, <1>7, <1>8
<1> QED
  BY <1>4, <1>11, <1>12

\* An item is put on tile t, and the clients are told.
LEMMA ItemAdded ==
    ASSUME NEW M, NEW P, Good(M), Placed(P), NEW t \in Tiles, NEW i \in TopItems \cup DownItems,
           OneMore(M, P, t, i), P.view = M.view, P.missing = M.missing
    PROVE  Good(SendAddTileItem(P, t, i)) /\ Alike(P, SendAddTileItem(P, t, i))
<1> DEFINE n == [w \in Viewers |-> ItemPlace(P, w, t, i)]
           f == [w \in Viewers |-> Inserted(P.view[w][t], StackposOfItem(P, w, t, i), i)]
           N == SendAddTileItem(P, t, i)
<1>1. Placed(M) /\ M \in MapStates /\ P \in MapStates
  BY DEF Good, Placed
<1>2. \A w \in Viewers :
          /\ Grown(M, P, w, t, i, n[w])
          /\ StackposOfItem(P, w, t, i) = Told(n[w])
          /\ n[w] \in Nat
          /\ \A s \in Tiles : s # t => Stack(M, w, s) = Stack(P, w, s)
  BY <1>1, ItemGrows
<1>3. i \in Things
  BY DEF Things
<1>4. \A w \in Viewers : f[w] \in Seq(Things) /\ f[w] = Inserted(M.view[w][t], Told(n[w]), i)
  <2> TAKE w \in Viewers
  <2>1. f[w] = Inserted(M.view[w][t], Told(n[w]), i)
    BY <1>2
  <2>2. Told(n[w]) \in Nat
    BY <1>2 DEF Told
  <2>3. M.view[w][t] \in Seq(Things)
    BY <1>1 DEF MapStates
  <2> HIDE DEF n, f
  <2>4. Inserted(M.view[w][t], Told(n[w]), i) \in Seq(Things)
    BY <2>2, <2>3, <1>3, MessageTypes
  <2> QED
    BY <2>1, <2>4
<1>5. N = Sent(P, t, f)
  BY DEF SendAddTileItem, Send, Sent
<1> HIDE DEF n, f, N
<1>6. /\ N \in MapStates /\ Alike(P, N) /\ N.missing = P.missing
      /\ \A w \in Viewers, s \in Tiles :
            N.view[w][s] = IF CanSee(P, w, t) /\ s = t THEN f[w] ELSE P.view[w][s]
  BY <1>1, <1>4, <1>5, SentIs
<1>7. /\ Placed(N)
      /\ \A w \in Viewers :
            /\ InWorld(P, w) <=> InWorld(N, w)
            /\ InWorld(P, w) => TileOf(P, w) = TileOf(N, w)
      /\ \A w \in Viewers, s \in Tiles :
            (CanSee(P, w, s) <=> CanSee(N, w, s)) /\ Stack(P, w, s) = Stack(N, w, s)
  BY <1>6, AlikeIs
<1>8. \A w \in Viewers :
          /\ InWorld(M, w) => TileOf(M, w) = TileOf(P, w)
          /\ \A s \in Tiles : CanSee(M, w, s) <=> CanSee(P, w, s)
  <2>1. M.standing = P.standing /\ M.hidden = P.hidden
    BY DEF OneMore
  <2>2. \A s \in Tiles : Distinct(P.tops[s]) /\ Distinct(P.downs[s])
    BY DEF Placed
  <2> QED
    BY <2>1, <2>2, <1>1, SameBodies
<1>9. ASSUME NEW w \in Viewers, NEW s \in Tiles PROVE Right(N, w, s)
  <2>1. SUFFICES ASSUME CanSee(N, w, s) PROVE Right(N, w, s)
    BY DEF Right
  <2>2. KeepsSight(M, N, w, s)
    BY <1>6, <1>7, <1>8 DEF KeepsSight, Missing, CanSee
  <2>3. Right(M, w, s)
    BY DEF Good
  <2>4. CASE s = t
    <3>1. Grown(M, N, w, t, i, n[w])
      BY <1>2, <1>7 DEF Grown
    <3>2. N.view[w][t] = Inserted(M.view[w][t], Told(n[w]), i)
      BY <2>1, <2>4, <1>4, <1>6, <1>7
    <3> QED
      BY <3>1, <3>2, <2>2, <2>3, <2>4, <1>3, RightInsert
  <2>5. CASE s # t
    <3>1. Stack(M, w, s) = Stack(N, w, s) /\ M.view[w][s] = N.view[w][s]
      BY <2>5, <1>2, <1>6, <1>7
    <3> QED
      BY <3>1, <2>2, <2>3, Same
  <2> QED
    BY <2>4, <2>5
<1>10. Good(N)
  BY <1>7, <1>9 DEF Good
<1> QED
  BY <1>6, <1>10 DEF N

\* What is left of the stack may be short of a thing only if there are many.
LEMMA ItemTaken ==
    ASSUME NEW M, NEW P, Good(M), Placed(P), NEW t \in Tiles, NEW i \in TopItems \cup DownItems,
           OneMore(P, M, t, i), P.missing = M.missing,
           \A w \in Viewers, s \in Tiles :
              P.view[w][s] = IF CanSee(M, w, t) /\ s = t
                             THEN Removed(M.view[w][t], StackposOfItem(M, w, t, i))
                             ELSE M.view[w][s]
    PROVE  Nearly(P, t)
<1>1. Placed(M) /\ M \in MapStates /\ P \in MapStates
  BY DEF Good, Placed
<1>2. i \in Things
  BY DEF Things
<1>3. \A w \in Viewers :
          /\ InWorld(M, w) => TileOf(M, w) = TileOf(P, w)
          /\ \A s \in Tiles : CanSee(M, w, s) <=> CanSee(P, w, s)
  <2>1. M.standing = P.standing /\ M.hidden = P.hidden
    BY DEF OneMore
  <2>2. \A s \in Tiles : Distinct(P.tops[s]) /\ Distinct(P.downs[s])
    BY DEF Placed
  <2> QED
    BY <2>1, <2>2, <1>1, SameBodies
<1>4. Limit \in Nat /\ Limit > 2
  BY LimitOK DEF LimitIs
<1>5. ASSUME NEW w \in Viewers, NEW s \in Tiles, s # t \/ ThingCount(P, t) <= Limit - 2
      PROVE  Right(P, w, s)
  <2>1. SUFFICES ASSUME CanSee(P, w, s) PROVE Right(P, w, s)
    BY DEF Right
  <2>2. KeepsSight(M, P, w, s)
    BY <1>3 DEF KeepsSight, Missing, CanSee
  <2>3. Right(M, w, s)
    BY DEF Good
  <2> DEFINE n == ItemPlace(M, w, t, i)
  <2>4. /\ Grown(P, M, w, t, i, n) /\ StackposOfItem(M, w, t, i) = Told(n)
        /\ \A u \in Tiles : u # t => Stack(P, w, u) = Stack(M, w, u)
    BY <1>1, ItemGrows
  <2> HIDE DEF n
  <2>5. CASE s = t
    <3>1. /\ Len(Stack(P, w, t)) \in Nat /\ Len(Stack(M, w, t)) = Len(Stack(P, w, t)) + 1
      BY <2>4, <1>2, GrownIs
    <3>2. Len(Stack(P, w, t)) <= ThingCount(P, t)
      BY <1>1, StackIs
    <3>3. ThingCount(P, t) <= Limit - 2
      BY <1>5, <2>5
    <3>4. ThingCount(P, t) \in Nat
      <4> DEFINE x == Len(P.tops[t])
                 y == Len(P.standing[t])
                 z == Len(P.downs[t])
      <4>1. x \in Nat /\ y \in Nat /\ z \in Nat
        BY <1>1, MapFields
      <4>2. ThingCount(P, t) = x + y + z
        BY DEF ThingCount
      <4> HIDE DEF x, y, z
      <4> QED
        BY <4>1, <4>2
    <3>5. Len(Stack(M, w, t)) <= Limit
      BY <3>1, <3>2, <3>3, <3>4, <1>4
    <3>6. P.view[w][t] = Removed(M.view[w][t], Told(n))
      BY <2>1, <2>4, <2>5, <1>3
    <3> QED
      BY <3>5, <3>6, <2>2, <2>3, <2>4, <2>5, <1>2, RightRemove
  <2>6. CASE s # t
    <3>1. Stack(M, w, s) = Stack(P, w, s) /\ M.view[w][s] = P.view[w][s]
      BY <2>4, <2>6
    <3> QED
      BY <3>1, <2>2, <2>3, Same
  <2> QED
    BY <2>5, <2>6
<1> QED
  BY <1>5 DEF Nearly

LEMMA WithoutIs ==
    ASSUME NEW S, NEW s \in Seq(S), NEW x, Distinct(s)
    PROVE  /\ Without(s, x) \in Seq(S) /\ Distinct(Without(s, x))
           /\ ToSet(Without(s, x)) = ToSet(s) \ {x}
<1>1. CASE x \notin ToSet(s)
  BY <1>1, WithoutNone
<1>2. CASE x \in ToSet(s)
  <2>1. x \in S
    BY <1>2, WithoutSome
  <2>2. PICK a \in Seq(S) : \E b \in Seq(S) : Between(s, x, a, b)
    BY <1>2, WithoutSome
  <2>3. PICK b \in Seq(S) : Between(s, x, a, b)
    BY <2>2
  <2>4. s = a \o <<x>> \o b /\ Without(s, x) = a \o b
    BY <2>3 DEF Between
  <2>5. /\ ToSet(a \o <<x>> \o b) = ToSet(a \o b) \cup {x}
        /\ Distinct(a \o <<x>> \o b) <=> Distinct(a \o b) /\ x \notin ToSet(a \o b)
    BY <2>1, DistinctWith
  <2>6. a \o b \in Seq(S)
    BY Cats
  <2> QED
    BY <2>4, <2>5, <2>6
<1> QED
  BY <1>1, <1>2

ItemOn(M, t, i) == i \in ToSet(M.tops[t]) \/ i \in ToSet(M.downs[t])

LEMMA ThingRemoved ==
    ASSUME NEW M, Good(M), NEW t \in Tiles, NEW i \in TopItems \cup DownItems, ItemOn(M, t, i)
    PROVE  LET P == RemoveThing(M, t, i)
           IN  /\ Nearly(P, t) /\ P.standing = M.standing
               /\ \A j : ItemOn(P, t, j) => ItemOn(M, t, j)
<1> DEFINE f == [w \in Viewers |-> Removed(M.view[w][t], StackposOfItem(M, w, t, i))]
           K == Sent(M, t, f)
           T == [M.tops EXCEPT ![t] = Without(M.tops[t], i)]
           D == [M.downs EXCEPT ![t] = Without(M.downs[t], i)]
           P == RemoveThing(M, t, i)
<1>1. Placed(M) /\ M \in MapStates
  BY DEF Good, Placed
<1>2. i \in Things /\ TopItems \cap DownItems = {}
  BY TileViewAssumption DEF Things, TileViewAssumption
<1>3. /\ M.tops \in [Tiles -> Seq(TopItems)] /\ M.downs \in [Tiles -> Seq(DownItems)]
      /\ M.tops[t] \in Seq(TopItems) /\ M.downs[t] \in Seq(DownItems)
      /\ Distinct(M.tops[t]) /\ Distinct(M.downs[t])
  BY <1>1 DEF MapStates, Placed
<1>4. /\ Without(M.tops[t], i) \in Seq(TopItems) /\ Distinct(Without(M.tops[t], i))
      /\ ToSet(Without(M.tops[t], i)) = ToSet(M.tops[t]) \ {i}
      /\ Without(M.downs[t], i) \in Seq(DownItems) /\ Distinct(Without(M.downs[t], i))
      /\ ToSet(Without(M.downs[t], i)) = ToSet(M.downs[t]) \ {i}
  BY <1>3, WithoutIs
<1>5. /\ T \in [Tiles -> Seq(TopItems)] /\ D \in [Tiles -> Seq(DownItems)]
      /\ T[t] = Without(M.tops[t], i) /\ D[t] = Without(M.downs[t], i)
      /\ \A s \in Tiles : s # t => T[s] = M.tops[s] /\ D[s] = M.downs[s]
  BY <1>3, <1>4
<1>6. \A w \in Viewers : CanSee(M, w, t) => f[w] \in Seq(Things)
  <2> TAKE w \in Viewers
  <2> SUFFICES f[w] \in Seq(Things)
    OBVIOUS
  <2>1. M.view[w][t] \in Seq(Things)
    BY <1>1 DEF MapStates
  <2>2. f[w] = Removed(M.view[w][t], StackposOfItem(M, w, t, i))
    OBVIOUS
  <2> HIDE DEF f
  <2>3. StackposOfItem(M, w, t, i) \in Nat => Removed(M.view[w][t], StackposOfItem(M, w, t, i)) \in Seq(Things)
    BY <2>1, <1>2, MessageTypes
  <2>4. StackposOfItem(M, w, t, i) \notin Nat => Removed(M.view[w][t], StackposOfItem(M, w, t, i)) = M.view[w][t]
    BY <2>1 DEF Removed
  <2> QED
    BY <2>1, <2>2, <2>3, <2>4
<1>7. K = Send(M, t, LAMBDA w : Removed(M.view[w][t], StackposOfItem(M, w, t, i)))
  BY DEF Sent, Send
<1>8. \A w \in Viewers : f[w] = Removed(M.view[w][t], StackposOfItem(M, w, t, i))
  OBVIOUS
<1> HIDE DEF f
<1>9. /\ K \in MapStates /\ Alike(M, K) /\ K.missing = M.missing
      /\ \A w \in Viewers, s \in Tiles :
            K.view[w][s] = IF CanSee(M, w, t) /\ s = t THEN f[w] ELSE M.view[w][s]
  BY <1>1, <1>6, SentIs
<1> HIDE DEF K
<1>10. P = [K EXCEPT !.tops = T, !.downs = D]
  BY <1>7, <1>9 DEF RemoveThing, Alike
<1> HIDE DEF T, D, P
<1>11. /\ P \in MapStates /\ P.tops = T /\ P.downs = D /\ P.view = K.view /\ P.missing = M.missing
       /\ P.standing = M.standing /\ P.hidden = M.hidden
  <2>1. /\ P \in MapStates /\ P.tops = T /\ P.downs = D /\ P.view = K.view /\ P.missing = K.missing
        /\ P.standing = K.standing /\ P.hidden = K.hidden
    BY <1>5, <1>9, <1>10 DEF MapStates
  <2> QED
    BY <2>1, <1>9 DEF Alike
<1>12. \A s \in Tiles : Distinct(P.tops[s]) /\ Distinct(P.downs[s])
  BY <1>1, <1>4, <1>5, <1>11 DEF Placed
<1>13. Placed(P)
  BY <1>1, <1>11, <1>12, SameBodies
<1>14. OneMore(P, M, t, i)
  <2>1. \A s \in Tiles : s # t => P.tops[s] = M.tops[s] /\ P.downs[s] = M.downs[s]
    BY <1>5, <1>11
  <2>2. \E a \in Seq(Things), b \in Seq(Things) :
          \/ /\ i \in TopItems /\ P.downs[t] = M.downs[t]
             /\ P.tops[t] = a \o b /\ M.tops[t] = a \o <<i>> \o b
          \/ /\ i \in DownItems /\ P.tops[t] = M.tops[t]
             /\ P.downs[t] = a \o b /\ M.downs[t] = a \o <<i>> \o b
    <3>0. \A x \in ToSet(M.tops[t]) : x \in TopItems
      BY <1>3, InSeq
    <3>1. \A x \in ToSet(M.downs[t]) : x \in DownItems
      BY <1>3, InSeq
    <3>2. M.tops[t] \in Seq(Things) /\ M.downs[t] \in Seq(Things)
      BY <1>1, MapFields
    <3>3. CASE i \in ToSet(M.tops[t])
      <4>1. i \in TopItems /\ i \notin ToSet(M.downs[t])
        BY <3>0, <3>1, <3>3, <1>2
      <4>2. Without(M.downs[t], i) = M.downs[t]
        BY <4>1, <3>2, WithoutNone
      <4>3. PICK a \in Seq(Things) : \E b \in Seq(Things) : Between(M.tops[t], i, a, b)
        BY <3>2, <3>3, WithoutSome
      <4>4. PICK b \in Seq(Things) : Between(M.tops[t], i, a, b)
        BY <4>3
      <4>5. M.tops[t] = a \o <<i>> \o b /\ P.tops[t] = a \o b /\ P.downs[t] = M.downs[t]
        BY <4>2, <4>4, <1>5, <1>11 DEF Between
      <4> QED
        BY <4>1, <4>5
    <3>4. CASE i \in ToSet(M.downs[t])
      <4>1. i \in DownItems /\ i \notin ToSet(M.tops[t])
        BY <3>0, <3>1, <3>4, <1>2
      <4>2. Without(M.tops[t], i) = M.tops[t]
        BY <4>1, <3>2, WithoutNone
      <4>3. PICK a \in Seq(Things) : \E b \in Seq(Things) : Between(M.downs[t], i, a, b)
        BY <3>2, <3>4, WithoutSome
      <4>4. PICK b \in Seq(Things) : Between(M.downs[t], i, a, b)
        BY <4>3
      <4>5. M.downs[t] = a \o <<i>> \o b /\ P.downs[t] = a \o b /\ P.tops[t] = M.tops[t]
        BY <4>2, <4>4, <1>5, <1>11 DEF Between
      <4> QED
        BY <4>1, <4>5
    <3> QED
      BY <3>3, <3>4 DEF ItemOn
  <2> QED
    BY <2>1, <2>2, <1>11 DEF OneMore
<1>15. \A w \in Viewers, s \in Tiles :
          P.view[w][s] = IF CanSee(M, w, t) /\ s = t
                         THEN Removed(M.view[w][t], StackposOfItem(M, w, t, i))
                         ELSE M.view[w][s]
  BY <1>8, <1>9, <1>11
<1>16. Nearly(P, t)
  BY <1>11, <1>13, <1>14, <1>15, ItemTaken
<1>17. \A j : ItemOn(P, t, j) => ItemOn(M, t, j)
  BY <1>4, <1>5, <1>11 DEF ItemOn
<1> QED
  BY <1>11, <1>16, <1>17 DEF P

LEMMA ThingGone ==
    ASSUME NEW M, Good(M), NEW t \in Tiles, NEW i \in TopItems \cup DownItems, ItemOn(M, t, i)
    PROVE  LET N == PostRemoveNotification(RemoveThing(M, t, i), t)
           IN  Good(N) /\ \A j : ItemOn(N, t, j) => ItemOn(M, t, j)
<1> DEFINE P == RemoveThing(M, t, i)
           N == PostRemoveNotification(P, t)
<1>1. Nearly(P, t) /\ \A j : ItemOn(P, t, j) => ItemOn(M, t, j)
  BY ThingRemoved
<1> HIDE DEF P
<1>2. Good(N) /\ Alike(P, N)
  BY <1>1, Notified
<1>3. \A j : ItemOn(N, t, j) => ItemOn(M, t, j)
  BY <1>1, <1>2 DEF ItemOn, Alike
<1> QED
  BY <1>2, <1>3 DEF P

LEMMA SameParts ==
    ASSUME NEW S, NEW a \in Seq(S), NEW b \in Seq(S), NEW c \in Seq(S), NEW d \in Seq(S),
           Len(a) = Len(c), a \o b = c \o d
    PROVE  a = c /\ b = d
<1> DEFINE u == a \o b
           v == c \o d
<1>1. /\ Len(u) = Len(a) + Len(b)
      /\ \A n \in 1 .. Len(a) + Len(b) : u[n] = IF n <= Len(a) THEN a[n] ELSE b[n - Len(a)]
  BY Cats
<1>2. /\ Len(v) = Len(c) + Len(d)
      /\ \A n \in 1 .. Len(c) + Len(d) : v[n] = IF n <= Len(c) THEN c[n] ELSE d[n - Len(c)]
  BY Cats
<1>3. u = v /\ Len(a) \in Nat /\ Len(b) \in Nat /\ Len(d) \in Nat /\ Len(c) = Len(a)
  OBVIOUS
<1> HIDE DEF u, v
<1>4. Len(b) = Len(d)
  BY <1>1, <1>2, <1>3
<1>5. \A n \in 1 .. Len(a) : a[n] = c[n]
  <2> TAKE n \in 1 .. Len(a)
  <2>1. n \in 1 .. Len(a) + Len(b) /\ n <= Len(a) /\ n \in 1 .. Len(c) + Len(d) /\ n <= Len(c)
    BY <1>3, <1>4
  <2> QED
    BY <2>1, <1>1, <1>2, <1>3
<1>6. \A n \in 1 .. Len(b) : b[n] = d[n]
  <2> TAKE n \in 1 .. Len(b)
  <2> DEFINE m == Len(a) + n
  <2>1. /\ m \in 1 .. Len(a) + Len(b) /\ ~(m <= Len(a)) /\ m - Len(a) = n
        /\ m \in 1 .. Len(c) + Len(d) /\ ~(m <= Len(c)) /\ m - Len(c) = n
    BY <1>3, <1>4
  <2> HIDE DEF m
  <2>2. u[m] = b[n]
    BY <2>1, <1>1
  <2>3. v[m] = d[n]
    BY <2>1, <1>2
  <2> QED
    BY <2>2, <2>3, <1>3
<1>7. a = c
  BY <1>3, <1>5, SameSeq
<1>8. b = d
  BY <1>4, <1>6, SameSeq
<1> QED
  BY <1>7, <1>8

\* With one thing instead of another at the same place.
LEMMA Exchanged ==
    ASSUME NEW K, NEW M, NEW N, NEW w, NEW t, NEW x \in Things, NEW y \in Things, NEW n,
           Grown(K, M, w, t, x, n), Grown(K, N, w, t, y, n)
    PROVE  /\ Replaced(Cut(Stack(M, w, t)), Told(n), y) = Cut(Stack(N, w, t))
           /\ Len(Stack(M, w, t)) = Len(Stack(N, w, t))
<1>1. PICK a \in Seq(Things) : \E b \in Seq(Things) :
          Stack(K, w, t) = a \o b /\ Stack(M, w, t) = a \o <<x>> \o b /\ n = Len(a) + 1
  BY DEF Grown
<1>2. PICK b \in Seq(Things) :
          Stack(K, w, t) = a \o b /\ Stack(M, w, t) = a \o <<x>> \o b /\ n = Len(a) + 1
  BY <1>1
<1>3. PICK c \in Seq(Things) : \E d \in Seq(Things) :
          Stack(K, w, t) = c \o d /\ Stack(N, w, t) = c \o <<y>> \o d /\ n = Len(c) + 1
  BY DEF Grown
<1>4. PICK d \in Seq(Things) :
          Stack(K, w, t) = c \o d /\ Stack(N, w, t) = c \o <<y>> \o d /\ n = Len(c) + 1
  BY <1>3
<1> HIDE DEF Things
<1>5. Len(a) = Len(c)
  <2>1. Len(a) \in Nat /\ Len(c) \in Nat
    OBVIOUS
  <2>2. Len(a) + 1 = Len(c) + 1
    BY <1>2, <1>4
  <2> QED
    BY <2>1, <2>2
<1>6. a = c /\ b = d
  BY <1>2, <1>4, <1>5, SameParts
<1>7. Stack(N, w, t) = a \o <<y>> \o b
  BY <1>4, <1>6
<1>8. Replaced(Cut(a \o <<x>> \o b), Told(Len(a) + 1), y) = Cut(a \o <<y>> \o b)
  BY LimitOK, Replacement
<1>9. Len(a \o <<x>> \o b) = Len(a) + Len(b) + 1 /\ Len(a \o <<y>> \o b) = Len(a) + Len(b) + 1
  BY With
<1> QED
  BY <1>2, <1>7, <1>8, <1>9

\* An item becomes another that stands in its place.
LEMMA ItemChanged ==
    ASSUME NEW K, NEW M, NEW P, Placed(K), Good(M), Placed(P), NEW t \in Tiles,
           NEW i \in TopItems \cup DownItems, NEW j \in TopItems \cup DownItems,
           OneMore(K, M, t, i), OneMore(K, P, t, j),
           \A w \in Viewers : ItemPlace(M, w, t, i) = ItemPlace(P, w, t, j),
           P.view = M.view, P.missing = M.missing
    PROVE  Good(SendUpdateTileItem(P, t, j))
<1> DEFINE n == [w \in Viewers |-> ItemPlace(P, w, t, j)]
           f == [w \in Viewers |-> Replaced(P.view[w][t], StackposOfItem(P, w, t, j), j)]
           N == SendUpdateTileItem(P, t, j)
<1>1. Placed(M) /\ M \in MapStates /\ P \in MapStates
  BY DEF Good, Placed
<1>2. i \in Things /\ j \in Things
  BY DEF Things
<1>3. \A w \in Viewers :
          /\ Grown(K, P, w, t, j, n[w])
          /\ StackposOfItem(P, w, t, j) = Told(n[w])
          /\ n[w] \in Nat
          /\ \A s \in Tiles : s # t => Stack(K, w, s) = Stack(P, w, s)
  BY <1>1, ItemGrows
<1>4. \A w \in Viewers :
          /\ Grown(K, M, w, t, i, n[w])
          /\ \A s \in Tiles : s # t => Stack(K, w, s) = Stack(M, w, s)
  BY <1>1, ItemGrows
<1>5. \A w \in Viewers :
          /\ Replaced(Cut(Stack(M, w, t)), Told(n[w]), j) = Cut(Stack(P, w, t))
          /\ Len(Stack(M, w, t)) = Len(Stack(P, w, t))
  <2> HIDE DEF n
  <2> QED
    BY <1>2, <1>3, <1>4, Exchanged
<1>6. \A w \in Viewers : f[w] \in Seq(Things) /\ f[w] = Replaced(M.view[w][t], Told(n[w]), j)
  <2> TAKE w \in Viewers
  <2>1. f[w] = Replaced(M.view[w][t], Told(n[w]), j)
    BY <1>3
  <2>2. Told(n[w]) \in Nat
    BY <1>3 DEF Told
  <2>3. M.view[w][t] \in Seq(Things)
    BY <1>1 DEF MapStates
  <2> HIDE DEF n, f
  <2>4. Replaced(M.view[w][t], Told(n[w]), j) \in Seq(Things)
    BY <2>2, <2>3, <1>2, MessageTypes
  <2> QED
    BY <2>1, <2>4
<1>7. N = Sent(P, t, f)
  BY DEF SendUpdateTileItem, Send, Sent
<1> HIDE DEF n, f, N
<1>8. /\ N \in MapStates /\ Alike(P, N) /\ N.missing = P.missing
      /\ \A w \in Viewers, s \in Tiles :
            N.view[w][s] = IF CanSee(P, w, t) /\ s = t THEN f[w] ELSE P.view[w][s]
  BY <1>1, <1>6, <1>7, SentIs
<1>9. /\ Placed(N)
      /\ \A w \in Viewers :
            /\ InWorld(P, w) <=> InWorld(N, w)
            /\ InWorld(P, w) => TileOf(P, w) = TileOf(N, w)
      /\ \A w \in Viewers, s \in Tiles :
            (CanSee(P, w, s) <=> CanSee(N, w, s)) /\ Stack(P, w, s) = Stack(N, w, s)
  BY <1>8, AlikeIs
<1>10. \A w \in Viewers :
          /\ InWorld(M, w) => TileOf(M, w) = TileOf(P, w)
          /\ \A s \in Tiles : CanSee(M, w, s) <=> CanSee(P, w, s)
  <2>1. M.standing = P.standing /\ M.hidden = P.hidden
    BY DEF OneMore
  <2>2. \A s \in Tiles : Distinct(P.tops[s]) /\ Distinct(P.downs[s])
    BY DEF Placed
  <2> QED
    BY <2>1, <2>2, <1>1, SameBodies
<1>11. ASSUME NEW w \in Viewers, NEW s \in Tiles PROVE Right(N, w, s)
  <2>1. SUFFICES ASSUME CanSee(N, w, s) PROVE Right(N, w, s)
    BY DEF Right
  <2>2. KeepsSight(M, N, w, s)
    BY <1>8, <1>9, <1>10 DEF KeepsSight, Missing, CanSee
  <2>3. Right(M, w, s)
    BY DEF Good
  <2>4. CASE s = t
    <3>1. Stack(N, w, t) = Stack(P, w, t)
      BY <1>9
    <3>2. N.view[w][t] = Replaced(M.view[w][t], Told(n[w]), j)
      BY <2>1, <2>4, <1>6, <1>8, <1>9
    <3>3. M.view[w][t] = Cut(Stack(M, w, t)) => N.view[w][t] = Cut(Stack(N, w, t))
      BY <3>1, <3>2, <1>5
    <3>4. Len(Stack(M, w, t)) = Len(Stack(N, w, t))
      BY <3>1, <1>5
    <3> QED
      BY <3>3, <3>4, <2>2, <2>3, <2>4, Keeps
  <2>5. CASE s # t
    <3>1. Stack(M, w, s) = Stack(N, w, s) /\ M.view[w][s] = N.view[w][s]
      BY <2>5, <1>3, <1>4, <1>8, <1>9
    <3> QED
      BY <3>1, <2>2, <2>3, Same
  <2> QED
    BY <2>4, <2>5
<1> QED
  BY <1>9, <1>11 DEF Good, N

\* A list with x between a and b, and r with y instead.
Changed(S, s, r, x, y, a, b) ==
    /\ Swapped(s, r, x, y, a, b)
    /\ a \o b \in Seq(S) /\ Distinct(a \o b) /\ r \in Seq(S) /\ Distinct(r)
    /\ IndexOf(s, x) = Len(a) + 1 /\ IndexOf(r, y) = Len(a) + 1

LEMMA RenamedList ==
    ASSUME NEW S, NEW s \in Seq(S), Distinct(s), NEW x \in ToSet(s), NEW y \in S, y \notin ToSet(s)
    PROVE  \E a \in Seq(S) : \E b \in Seq(S) : Changed(S, s, Renamed(s, x, y), x, y, a, b)
<1> DEFINE r == Renamed(s, x, y)
<1>1. x \in S
  BY InSeq
<1>2. PICK a \in Seq(S) : \E b \in Seq(S) : Swapped(s, r, x, y, a, b)
  BY RenamedIs
<1>3. PICK b \in Seq(S) : Swapped(s, r, x, y, a, b)
  BY <1>2
<1> HIDE DEF r
<1>4. s = a \o <<x>> \o b /\ r = a \o <<y>> \o b
  BY <1>3 DEF Swapped
<1>5. /\ ToSet(a \o <<x>> \o b) = ToSet(a \o b) \cup {x}
      /\ Distinct(a \o <<x>> \o b) <=> Distinct(a \o b) /\ x \notin ToSet(a \o b)
      /\ Distinct(a \o <<x>> \o b) => IndexOf(a \o <<x>> \o b, x) = Len(a) + 1
  BY <1>1, DistinctWith
<1>6. Distinct(a \o b) /\ IndexOf(s, x) = Len(a) + 1 /\ y \notin ToSet(a \o b)
  BY <1>4, <1>5
<1>7. /\ Distinct(a \o <<y>> \o b) <=> Distinct(a \o b) /\ y \notin ToSet(a \o b)
      /\ Distinct(a \o <<y>> \o b) => IndexOf(a \o <<y>> \o b, y) = Len(a) + 1
  BY DistinctWith
<1>8. Distinct(r) /\ IndexOf(r, y) = Len(a) + 1
  BY <1>4, <1>6, <1>7
<1>9. a \o b \in Seq(S) /\ a \o <<y>> \o b \in Seq(S)
  BY Cats, With
<1>10. Changed(S, s, r, x, y, a, b)
  BY <1>3, <1>4, <1>6, <1>8, <1>9 DEF Changed
<1> QED
  BY <1>10 DEF r

\* A list with x put at place k, between a and b.
Parts(s, k, x, a, b) == s = a \o b /\ InsertAt(s, k, x) = a \o <<x>> \o b

LEMMA InsertParts ==
    ASSUME NEW S, NEW s \in Seq(S), NEW k \in 1 .. Len(s) + 1, NEW x \in S
    PROVE  \E a \in Seq(S) : \E b \in Seq(S) : Parts(s, k, x, a, b)
<1> DEFINE p == PartBefore(s, k)
           q == PartFrom(s, k)
<1>1. s \in Seq(S) /\ k \in 1 .. Len(s) + 1 /\ x \in S
  OBVIOUS
<1>2. /\ p \in Seq(S) /\ q \in Seq(S) /\ Len(p) = k - 1 /\ Len(q) = Len(s) - k + 1
      /\ s = p \o q /\ InsertAt(s, k, x) = p \o <<x>> \o q
  <2>1. Opened(S, s, k, x, p, q)
    BY ONLY <1>1, SplitInsert
  <2> HIDE DEF p, q
  <2> QED
    BY ONLY <2>1 DEF Opened
<1> HIDE DEF p, q
<1> QED
  BY <1>2 DEF Parts

LEMMA ThingReplaced ==
    ASSUME NEW M, Good(M), NEW t \in Tiles,
           NEW i \in TopItems \cup DownItems, NEW j \in TopItems \cup DownItems,
           ItemOn(M, t, i), ~ItemOn(M, t, j), i \in TopItems <=> j \in TopItems
    PROVE  Good(ReplaceThing(M, t, i, j))
<1> DEFINE T == [M.tops EXCEPT ![t] = Renamed(M.tops[t], i, j)]
           D == [M.downs EXCEPT ![t] = Renamed(M.downs[t], i, j)]
           P == [M EXCEPT !.tops = T, !.downs = D]
<1>1. Placed(M) /\ M \in MapStates
  BY DEF Good, Placed
<1>2. ReplaceThing(M, t, i, j) = SendUpdateTileItem(P, t, j)
  <2>1. M.tops \in [Tiles -> Seq(TopItems)] /\ M.downs \in [Tiles -> Seq(DownItems)]
    BY <1>1 DEF MapStates
  <2> QED
    BY <2>1 DEF ReplaceThing, Renamed
<1>3. /\ M.tops \in [Tiles -> Seq(TopItems)] /\ M.downs \in [Tiles -> Seq(DownItems)]
      /\ M.tops[t] \in Seq(TopItems) /\ M.downs[t] \in Seq(DownItems)
      /\ \A s \in Tiles : Distinct(M.tops[s]) /\ Distinct(M.downs[s])
  BY <1>1 DEF MapStates, Placed
<1>4. /\ j \notin ToSet(M.tops[t]) /\ j \notin ToSet(M.downs[t])
      /\ i \in ToSet(M.tops[t]) \/ i \in ToSet(M.downs[t])
  BY DEF ItemOn
<1>5. TopItems \cap DownItems = {} /\ TopItems \subseteq Things /\ DownItems \subseteq Things
  BY TileViewAssumption DEF TileViewAssumption, Things
<1>6. /\ \A x \in ToSet(M.tops[t]) : x \in TopItems
      /\ \A x \in ToSet(M.downs[t]) : x \in DownItems
  BY <1>3, InSeq
<1>7. CASE i \in ToSet(M.tops[t])
  <2>1. i \in TopItems /\ j \in TopItems /\ i \notin ToSet(M.downs[t])
    BY <1>5, <1>6, <1>7
  <2>2. PICK a \in Seq(TopItems) : \E b \in Seq(TopItems) :
          Changed(TopItems, M.tops[t], Renamed(M.tops[t], i, j), i, j, a, b)
    BY <2>1, <1>3, <1>4, <1>7, RenamedList
  <2>20. PICK b \in Seq(TopItems) :
          Changed(TopItems, M.tops[t], Renamed(M.tops[t], i, j), i, j, a, b)
    BY <2>2
  <2>3. /\ M.tops[t] = a \o <<i>> \o b /\ Renamed(M.tops[t], i, j) = a \o <<j>> \o b
        /\ a \o b \in Seq(TopItems) /\ Distinct(a \o b)
        /\ Renamed(M.tops[t], i, j) \in Seq(TopItems) /\ Distinct(Renamed(M.tops[t], i, j))
        /\ IndexOf(M.tops[t], i) = Len(a) + 1 /\ IndexOf(Renamed(M.tops[t], i, j), j) = Len(a) + 1
    BY <2>20 DEF Changed, Swapped
  <2> DEFINE T0 == [M.tops EXCEPT ![t] = a \o b]
             K == [M EXCEPT !.tops = T0]
  <2>4. /\ T0 \in [Tiles -> Seq(TopItems)] /\ T0[t] = a \o b
        /\ \A s \in Tiles : s # t => T0[s] = M.tops[s]
        /\ T \in [Tiles -> Seq(TopItems)] /\ T[t] = a \o <<j>> \o b
        /\ \A s \in Tiles : s # t => T[s] = M.tops[s]
    BY <1>3, <2>3
  <2>5. Renamed(M.downs[t], i, j) = M.downs[t]
    <3>1. M.downs[t] \in Seq(Things) /\ j \in Things
      BY <1>1, <1>5, <2>1, MapFields
    <3> QED
      BY <3>1, <2>1, RenamedIs
  <2>6. D = M.downs
    BY <2>5, <1>3
  <2> HIDE DEF T0, T, D
  <2>7. /\ K \in MapStates /\ K.tops = T0 /\ K.downs = M.downs
        /\ K.standing = M.standing /\ K.hidden = M.hidden
    BY <2>4, <1>1 DEF MapStates
  <2>8. /\ P \in MapStates /\ P.tops = T /\ P.downs = M.downs
        /\ P.standing = M.standing /\ P.hidden = M.hidden
        /\ P.view = M.view /\ P.missing = M.missing
    BY <2>4, <2>6, <1>1, <1>3 DEF MapStates
  <2> HIDE DEF K, P
  <2>9. Placed(K)
    <3>1. \A s \in Tiles : Distinct(K.tops[s]) /\ Distinct(K.downs[s])
      BY <1>3, <2>3, <2>4, <2>7
    <3> QED
      BY <3>1, <1>1, <2>7, SameBodies
  <2>10. Placed(P)
    <3>1. \A s \in Tiles : Distinct(P.tops[s]) /\ Distinct(P.downs[s])
      BY <1>3, <2>3, <2>4, <2>8
    <3> QED
      BY <3>1, <1>1, <2>8, SameBodies
  <2>11. a \in Seq(Things) /\ b \in Seq(Things)
    BY <1>5
  <2>12. OneMore(K, M, t, i)
    <3> HIDE DEF Things
    <3> QED
      BY <2>1, <2>3, <2>4, <2>7, <2>11 DEF OneMore
  <2>13. OneMore(K, P, t, j)
    <3> HIDE DEF Things
    <3> QED
      BY <2>1, <2>3, <2>4, <2>7, <2>8, <2>11 DEF OneMore
  <2>14. \A w \in Viewers : ItemPlace(M, w, t, i) = ItemPlace(P, w, t, j)
    BY <2>1, <2>3, <2>4, <2>8 DEF ItemPlace
  <2>15. Good(SendUpdateTileItem(P, t, j))
    BY <2>8, <2>9, <2>10, <2>12, <2>13, <2>14, ItemChanged
  <2> QED
    BY <2>15, <1>2
<1>8. CASE i \in ToSet(M.downs[t])
  <2>1. /\ i \in DownItems /\ j \in DownItems /\ i \notin ToSet(M.tops[t])
        /\ i \notin TopItems /\ j \notin TopItems
    BY <1>5, <1>6, <1>8
  <2>2. PICK a \in Seq(DownItems) : \E b \in Seq(DownItems) :
          Changed(DownItems, M.downs[t], Renamed(M.downs[t], i, j), i, j, a, b)
    BY <2>1, <1>3, <1>4, <1>8, RenamedList
  <2>20. PICK b \in Seq(DownItems) :
          Changed(DownItems, M.downs[t], Renamed(M.downs[t], i, j), i, j, a, b)
    BY <2>2
  <2>3. /\ M.downs[t] = a \o <<i>> \o b /\ Renamed(M.downs[t], i, j) = a \o <<j>> \o b
        /\ a \o b \in Seq(DownItems) /\ Distinct(a \o b)
        /\ Renamed(M.downs[t], i, j) \in Seq(DownItems) /\ Distinct(Renamed(M.downs[t], i, j))
        /\ IndexOf(M.downs[t], i) = Len(a) + 1 /\ IndexOf(Renamed(M.downs[t], i, j), j) = Len(a) + 1
    BY <2>20 DEF Changed, Swapped
  <2> DEFINE D0 == [M.downs EXCEPT ![t] = a \o b]
             K == [M EXCEPT !.downs = D0]
  <2>4. /\ D0 \in [Tiles -> Seq(DownItems)] /\ D0[t] = a \o b
        /\ \A s \in Tiles : s # t => D0[s] = M.downs[s]
        /\ D \in [Tiles -> Seq(DownItems)] /\ D[t] = a \o <<j>> \o b
        /\ \A s \in Tiles : s # t => D[s] = M.downs[s]
    BY <1>3, <2>3
  <2>5. Renamed(M.tops[t], i, j) = M.tops[t]
    <3>1. M.tops[t] \in Seq(Things) /\ j \in Things
      BY <1>1, <1>5, <2>1, MapFields
    <3> QED
      BY <3>1, <2>1, RenamedIs
  <2>6. T = M.tops
    BY <2>5, <1>3
  <2> HIDE DEF D0, T, D
  <2>7. /\ K \in MapStates /\ K.downs = D0 /\ K.tops = M.tops
        /\ K.standing = M.standing /\ K.hidden = M.hidden
    BY <2>4, <1>1 DEF MapStates
  <2>8. /\ P \in MapStates /\ P.downs = D /\ P.tops = M.tops
        /\ P.standing = M.standing /\ P.hidden = M.hidden
        /\ P.view = M.view /\ P.missing = M.missing
    BY <2>4, <2>6, <1>1, <1>3 DEF MapStates
  <2> HIDE DEF K, P
  <2>9. Placed(K)
    <3>1. \A s \in Tiles : Distinct(K.tops[s]) /\ Distinct(K.downs[s])
      BY <1>3, <2>3, <2>4, <2>7
    <3> QED
      BY <3>1, <1>1, <2>7, SameBodies
  <2>10. Placed(P)
    <3>1. \A s \in Tiles : Distinct(P.tops[s]) /\ Distinct(P.downs[s])
      BY <1>3, <2>3, <2>4, <2>8
    <3> QED
      BY <3>1, <1>1, <2>8, SameBodies
  <2>11. a \in Seq(Things) /\ b \in Seq(Things)
    BY <1>5
  <2>12. OneMore(K, M, t, i)
    <3> HIDE DEF Things
    <3> QED
      BY <2>1, <2>3, <2>4, <2>7, <2>11 DEF OneMore
  <2>13. OneMore(K, P, t, j)
    <3> HIDE DEF Things
    <3> QED
      BY <2>1, <2>3, <2>4, <2>7, <2>8, <2>11 DEF OneMore
  <2>14. \A w \in Viewers : ItemPlace(M, w, t, i) = ItemPlace(P, w, t, j)
    <3> TAKE w \in Viewers
    <3>1. Sees(M, w) = Sees(P, w)
      BY <2>8 DEF Sees, CanSeeCreature
    <3>2. Seen(M, w, M.standing[t]) = Seen(P, w, P.standing[t])
      BY <3>1, <1>1, <2>8, StackIs
    <3> QED
      BY <3>2, <2>1, <2>3, <2>4, <2>8 DEF ItemPlace
  <2>15. Good(SendUpdateTileItem(P, t, j))
    BY <2>8, <2>9, <2>10, <2>12, <2>13, <2>14, ItemChanged
  <2> QED
    BY <2>15, <1>2
<1> QED
  BY <1>4, <1>7, <1>8

\* A new top item goes before those of its order, another item before the others.
LEMMA ThingPut ==
    ASSUME NEW M, Good(M), NEW t \in Tiles, NEW i \in TopItems \cup DownItems, ~ItemOn(M, t, i)
    PROVE  Good(Put(M, t, i))
<1>1. Placed(M) /\ M \in MapStates
  BY DEF Good, Placed
<1>2. /\ M.tops \in [Tiles -> Seq(TopItems)] /\ M.downs \in [Tiles -> Seq(DownItems)]
      /\ M.tops[t] \in Seq(TopItems) /\ M.downs[t] \in Seq(DownItems)
      /\ \A s \in Tiles : Distinct(M.tops[s]) /\ Distinct(M.downs[s])
  BY <1>1 DEF MapStates, Placed
<1>3. i \notin ToSet(M.tops[t]) /\ i \notin ToSet(M.downs[t])
  BY DEF ItemOn
<1>4. TopItems \cap DownItems = {} /\ TopItems \subseteq Things /\ DownItems \subseteq Things
  BY TileViewAssumption DEF TileViewAssumption, Things
<1>5. CASE i \in TopItems
  <2> DEFINE s == M.tops[t]
             k == TopPlace(M, t, i)
             T == [M.tops EXCEPT ![t] = InsertAt(s, k, i)]
             P == [M EXCEPT !.tops = T]
  <2>1. Put(M, t, i) = SendAddTileItem(P, t, i)
    BY <1>5 DEF Put
  <2>2. k \in 1 .. Len(s) + 1
    <3> DEFINE B == {n \in DOMAIN s : order[s[n]] < order[i]}
    <3>1. B \subseteq 1 .. Len(s) /\ Len(s) \in Nat
      BY <1>2
    <3>2. k = Cardinality(B) + 1
      BY DEF TopPlace
    <3> HIDE DEF B, s, k
    <3>3. IsFiniteSet(1 .. Len(s)) /\ Cardinality(1 .. Len(s)) = Len(s)
      BY <3>1, FS_Interval
    <3>4. IsFiniteSet(B) /\ Cardinality(B) <= Len(s)
      BY <3>1, <3>3, FS_Subset
    <3>5. Cardinality(B) \in Nat
      BY <3>4, FS_CardinalityType
    <3> QED
      BY <3>1, <3>2, <3>4, <3>5
  <2>3. s \in Seq(TopItems)
    BY <1>2
  <2> HIDE DEF s, k
  <2>4. s \in Seq(TopItems) /\ k \in 1 .. Len(s) + 1 /\ i \in TopItems
    BY <2>2, <2>3, <1>5
  <2>14. PICK a \in Seq(TopItems) : \E b \in Seq(TopItems) : Parts(s, k, i, a, b)
    BY <2>4, InsertParts
  <2>15. PICK b \in Seq(TopItems) : Parts(s, k, i, a, b)
    BY <2>14
  <2>5. s = a \o b /\ InsertAt(s, k, i) = a \o <<i>> \o b
    BY <2>15 DEF Parts
  <2>6. /\ a \o <<i>> \o b \in Seq(TopItems)
        /\ Distinct(a \o <<i>> \o b) <=> Distinct(a \o b) /\ i \notin ToSet(a \o b)
    BY <1>5, <2>5, With, DistinctWith
  <2>7. Distinct(a \o b) /\ i \notin ToSet(a \o b)
    BY <1>2, <1>3, <2>5 DEF s
  <2>8. /\ T \in [Tiles -> Seq(TopItems)] /\ T[t] = a \o <<i>> \o b
        /\ \A u \in Tiles : u # t => T[u] = M.tops[u]
    BY <1>2, <2>5, <2>6
  <2> HIDE DEF T
  <2>9. /\ P \in MapStates /\ P.tops = T /\ P.downs = M.downs
        /\ P.standing = M.standing /\ P.hidden = M.hidden
        /\ P.view = M.view /\ P.missing = M.missing
    BY <2>8, <1>1 DEF MapStates
  <2> HIDE DEF P
  <2>10. \A u \in Tiles : Distinct(P.tops[u]) /\ Distinct(P.downs[u])
    BY <1>2, <2>6, <2>7, <2>8, <2>9
  <2>11. Placed(P)
    BY <2>9, <2>10, <1>1, SameBodies
  <2>12. M.tops[t] = a \o b /\ a \in Seq(Things) /\ b \in Seq(Things)
    BY <1>4, <2>5 DEF s
  <2>13. OneMore(M, P, t, i)
    <3> HIDE DEF Things
    <3> QED
      BY <1>5, <2>8, <2>9, <2>12 DEF OneMore
  <2> QED
    BY <2>1, <2>9, <2>11, <2>13, ItemAdded
<1>6. CASE i \notin TopItems
  <2> DEFINE s == M.downs[t]
             a == <<>>
             D == [M.downs EXCEPT ![t] = <<i>> \o s]
             P == [M EXCEPT !.downs = D]
  <2>1. Put(M, t, i) = SendAddTileItem(P, t, i)
    BY <1>6 DEF Put
  <2>2. i \in DownItems /\ s \in Seq(DownItems)
    BY <1>2, <1>6
  <2> HIDE DEF s
  <2>3. s = a \o s /\ <<i>> \o s = a \o <<i>> \o s /\ a \in Seq(DownItems)
    BY <2>2
  <2>4. /\ a \o <<i>> \o s \in Seq(DownItems)
        /\ Distinct(a \o <<i>> \o s) <=> Distinct(a \o s) /\ i \notin ToSet(a \o s)
    <3> HIDE DEF a
    <3> QED
      BY <2>2, <2>3, With, DistinctWith
  <2>5. Distinct(a \o s) /\ i \notin ToSet(a \o s)
    BY <1>2, <1>3, <2>3 DEF s
  <2> HIDE DEF a
  <2>6. /\ D \in [Tiles -> Seq(DownItems)] /\ D[t] = a \o <<i>> \o s
        /\ \A u \in Tiles : u # t => D[u] = M.downs[u]
    BY <1>2, <2>3, <2>4
  <2> HIDE DEF D
  <2>7. /\ P \in MapStates /\ P.downs = D /\ P.tops = M.tops
        /\ P.standing = M.standing /\ P.hidden = M.hidden
        /\ P.view = M.view /\ P.missing = M.missing
    BY <2>6, <1>1 DEF MapStates
  <2> HIDE DEF P
  <2>8. \A u \in Tiles : Distinct(P.tops[u]) /\ Distinct(P.downs[u])
    BY <1>2, <2>4, <2>5, <2>6, <2>7
  <2>9. Placed(P)
    BY <2>7, <2>8, <1>1, SameBodies
  <2>10. M.downs[t] = a \o s /\ a \in Seq(Things) /\ s \in Seq(Things)
    BY <1>4, <2>2, <2>3 DEF s
  <2>11. OneMore(M, P, t, i)
    <3> HIDE DEF Things
    <3> QED
      BY <2>2, <2>6, <2>7, <2>10 DEF OneMore
  <2> QED
    BY <2>1, <2>7, <2>9, <2>11, ItemAdded
<1> QED
  BY <1>5, <1>6

\* What the new item drives out goes first.
LEMMA ThingAdded ==
    ASSUME NEW M, Good(M), NEW t \in Tiles, NEW i \in TopItems \cup DownItems, ~ItemOn(M, t, i)
    PROVE  Good(AddThing(M, t, i))
<1> DEFINE old == Outdated(M, t, i)
           o == CHOOSE x \in old : TRUE
           R == PostRemoveNotification(RemoveThing(M, t, o), t)
           Q == IF i \in Splashes THEN SendUpdateTile(R, t) ELSE R
<1>1. CASE old = {}
  BY <1>1, ThingPut DEF AddThing
<1>2. CASE old # {} /\ old \cap Lasting # {}
  BY <1>2 DEF AddThing
<1>3. CASE old # {} /\ old \cap Lasting = {}
  <2>1. AddThing(M, t, i) = Put(Q, t, i)
    BY <1>3 DEF AddThing
  <2>2. o \in old
    BY <1>3
  <2>3. o \in TopItems \cup DownItems /\ ItemOn(M, t, o)
    <3>1. Splashes \subseteq TopItems /\ Fields \subseteq DownItems
      BY TileViewAssumption DEF TileViewAssumption
    <3> HIDE DEF o
    <3> QED
      BY <2>2, <3>1 DEF Outdated, ItemOn
  <2> HIDE DEF o
  <2>4. Good(R) /\ \A j : ItemOn(R, t, j) => ItemOn(M, t, j)
    BY <2>3, ThingGone
  <2> HIDE DEF R
  <2>5. Good(Q) /\ \A j : ItemOn(Q, t, j) => ItemOn(R, t, j)
    <3>1. Placed(R) /\ \A w \in Viewers, s \in Tiles : s # t => Right(R, w, s)
      BY <2>4 DEF Good
    <3>2. Good(SendUpdateTile(R, t)) /\ Alike(R, SendUpdateTile(R, t))
      BY <3>1, TileUpdated
    <3> QED
      BY <2>4, <3>2 DEF Alike, ItemOn
  <2> HIDE DEF Q
  <2>6. ~ItemOn(Q, t, i)
    BY <2>4, <2>5
  <2> QED
    BY <2>1, <2>5, <2>6, ThingPut
<1> QED
  BY <1>1, <1>2, <1>3

-----------------------------------------------------------------------------
(* Creatures in a list, and what players see of it.                        *)

\* c is in s, once, between a and b.
Around(s, c, a, b) == Between(s, c, a, b) /\ c \notin ToSet(a) /\ c \notin ToSet(b)

LEMMA BodyParts ==
    ASSUME NEW s \in Seq(Bodies), Distinct(s), NEW c \in ToSet(s)
    PROVE  c \in Bodies /\ \E a \in Seq(Bodies) : \E b \in Seq(Bodies) : Around(s, c, a, b)
<1> HIDE DEF Bodies
<1>1. c \in Bodies
  BY InSeq
<1>2. PICK a \in Seq(Bodies) : \E b \in Seq(Bodies) : Between(s, c, a, b)
  BY WithoutSome
<1>3. PICK b \in Seq(Bodies) : Between(s, c, a, b)
  BY <1>2
<1>4. s = a \o <<c>> \o b
  BY <1>3 DEF Between
<1>5. Distinct(a \o <<c>> \o b) <=> Distinct(a \o b) /\ c \notin ToSet(a \o b)
  BY <1>1, DistinctWith
<1>6. ToSet(a \o b) = ToSet(a) \cup ToSet(b)
  BY JoinedSet
<1>7. c \notin ToSet(a) /\ c \notin ToSet(b)
  BY <1>4, <1>5, <1>6
<1>8. Around(s, c, a, b)
  BY <1>3, <1>7 DEF Around
<1> QED
  BY <1>1, <1>8

Amid(a, c, b) == a \o <<c>> \o b

LEMMA KeptAround ==
    ASSUME NEW a \in Seq(Bodies), NEW b \in Seq(Bodies), NEW c \in Bodies, NEW P
    PROVE  /\ c \in P => Kept(Amid(a, c, b), P) = Amid(Kept(b, P), c, Kept(a, P))
           /\ c \notin P => Kept(Amid(a, c, b), P) = Kept(b, P) \o Kept(a, P)
           /\ Kept(a \o b, P) = Kept(b, P) \o Kept(a, P)
           /\ Kept(a, P) \in Seq(Things) /\ Kept(b, P) \in Seq(Things)
<1> DEFINE A == Kept(a, P)
           B == Kept(b, P)
           o == <<c>>
           C == Kept(o, P)
           ao == a \o o
<1>1. a \in Seq(Bodies) /\ b \in Seq(Bodies) /\ c \in Bodies
  OBVIOUS
<1>2. \A s \in Seq(Bodies) : s \in Seq(Things)
  BY DEF Things
<1> HIDE DEF Bodies, Things
<1>3. o \in Seq(Bodies)
  OBVIOUS
<1>4. C = IF c \in P THEN o ELSE <<>>
  BY <1>1, KeptOne
<1> HIDE DEF o
<1>5. A \in Seq(Bodies) /\ B \in Seq(Bodies)
  BY KeptIs
<1>6. ao \in Seq(Bodies)
  BY <1>3, Cats
<1>7. Kept(ao, P) = C \o A
  BY <1>1, <1>3, KeptJoined
<1> HIDE DEF C, A, B, ao
<1>8. Kept(ao \o b, P) = B \o Kept(ao, P)
  BY <1>1, <1>6, KeptJoined DEF B
<1>9. Kept(a \o b, P) = B \o A
  BY <1>1, KeptJoined DEF A, B
<1>10. ASSUME c \in P PROVE Kept(ao \o b, P) = B \o o \o A
  <2>1. Kept(ao \o b, P) = B \o (o \o A)
    BY <1>4, <1>7, <1>8, <1>10
  <2>0. o \in Seq(Bodies) /\ A \in Seq(Bodies) /\ B \in Seq(Bodies)
    BY <1>3, <1>5
  <2>2. (B \o o) \o A = B \o (o \o A)
    BY ONLY <2>0, Assoc, SMTT(30)
  <2> QED
    BY <2>1, <2>2
<1>11. ASSUME c \notin P PROVE Kept(ao \o b, P) = B \o A
  <2>1. Kept(ao \o b, P) = B \o (<<>> \o A)
    BY <1>4, <1>7, <1>8, <1>11
  <2>2. <<>> \o A = A
    BY <1>5
  <2> QED
    BY <2>1, <2>2
<1> QED
  BY <1>2, <1>5, <1>9, <1>10, <1>11 DEF A, B, ao, o, Amid

\* A player who sees c, and otherwise what was seen before.
SameBut(M, N, w, c) == \A x \in Bodies : x # c => (x \in Sees(M, w) <=> x \in Sees(N, w))

LEMMA BodyGrown ==
    ASSUME NEW M \in MapStates, NEW N \in MapStates, NEW t \in Tiles, NEW c \in Bodies, NEW w \in Viewers,
           Distinct(N.standing[t]), Stands(N, t, c), SameBut(M, N, w, c),
           M.tops[t] = N.tops[t], M.downs[t] = N.downs[t],
           \/ M.standing[t] = Without(N.standing[t], c)
           \/ M.standing[t] = N.standing[t] /\ c \notin Sees(M, w)
    PROVE  /\ c \in Sees(N, w) => Grown(M, N, w, t, c, ClientIndexOfCreature(N, w, t, c))
           /\ c \notin Sees(N, w) => Stack(M, w, t) = Stack(N, w, t)
<1> DEFINE s == N.standing[t]
           U == Sees(M, w)
           V == Sees(N, w)
<1>1. s \in Seq(Bodies) /\ c \in ToSet(s) /\ Distinct(s)
  BY MapFields DEF Stands
<1>2. c \in Things
  BY DEF Things
<1>3. \A x \in Bodies : x # c => (x \in U <=> x \in V)
  BY DEF SameBut
<1>4. \/ M.standing[t] = Without(s, c)
      \/ M.standing[t] = s /\ c \notin U
  OBVIOUS
<1> HIDE DEF s, U, V, Bodies, Things
<1>5. PICK a \in Seq(Bodies) : \E b \in Seq(Bodies) : Around(s, c, a, b)
  BY <1>1, BodyParts
<1>6. PICK b \in Seq(Bodies) : Around(s, c, a, b)
  BY <1>5
<1>7. /\ s = a \o <<c>> \o b /\ Without(s, c) = a \o b
      /\ b = SubSeq(s, IndexOf(s, c) + 1, Len(s))
      /\ c \notin ToSet(a) /\ c \notin ToSet(b)
  BY <1>6 DEF Around, Between
<1>8. Kept(a, U) = Kept(a, V) /\ Kept(b, U) = Kept(b, V)
  <2>1. \A x \in ToSet(a) : x \in Bodies /\ x # c
    BY <1>7, InSeq
  <2>2. \A x \in ToSet(b) : x \in Bodies /\ x # c
    BY <1>7, InSeq
  <2>3. \A x \in ToSet(a) : x \in U <=> x \in V
    BY <2>1, <1>3
  <2>4. \A x \in ToSet(b) : x \in U <=> x \in V
    BY <2>2, <1>3
  <2> QED
    BY <2>3, <2>4, SameSeen
<1> DEFINE A == Kept(a, V)
           B == Kept(b, V)
<1>9. A \in Seq(Things) /\ B \in Seq(Things)
  BY KeptAround
<1>10. Kept(M.standing[t], U) = B \o A
  <2>0. a \in Seq(Bodies) /\ b \in Seq(Bodies) /\ c \in Bodies
    OBVIOUS
  <2>1. Kept(a \o b, U) = Kept(b, U) \o Kept(a, U)
    BY ONLY <2>0, KeptAround
  <2>2. c \notin U => Kept(Amid(a, c, b), U) = Kept(b, U) \o Kept(a, U)
    BY ONLY <2>0, KeptAround
  <2>3. s = Amid(a, c, b)
    BY <1>7 DEF Amid
  <2> QED
    BY <2>1, <2>2, <2>3, <1>4, <1>7, <1>8
<1>11. /\ c \in V => Kept(s, V) = B \o <<c>> \o A
       /\ c \notin V => Kept(s, V) = B \o A
  <2>1. /\ c \in V => Kept(Amid(a, c, b), V) = Amid(B, c, A)
        /\ c \notin V => Kept(Amid(a, c, b), V) = B \o A
    BY KeptAround
  <2>2. s = Amid(a, c, b)
    BY <1>7 DEF Amid
  <2>3. Amid(B, c, A) = B \o <<c>> \o A
    BY DEF Amid
  <2> QED
    BY <2>1, <2>2, <2>3
<1>12. Seen(N, w, b) = B
  <2>1. \A n \in DOMAIN b : CanSeeCreature(N, w, b[n]) <=> b[n] \in V
    BY InSeq DEF V, Sees
  <2>2. {n \in DOMAIN b : CanSeeCreature(N, w, b[n])} = {n \in DOMAIN b : b[n] \in V}
    BY <2>1
  <2> QED
    BY <2>2 DEF Seen, Kept
<1> HIDE DEF A, B
<1>13. ClientIndexOfCreature(N, w, t, c) = Len(N.tops[t]) + Len(B) + 1
  BY <1>7, <1>12 DEF ClientIndexOfCreature, s
<1>14. ASSUME c \in V PROVE Grown(M, N, w, t, c, ClientIndexOfCreature(N, w, t, c))
  <2>1. Kept(M.standing[t], Sees(M, w)) = B \o A /\ Kept(N.standing[t], Sees(N, w)) = B \o <<c>> \o A
    BY <1>10, <1>11, <1>14 DEF s, U, V
  <2>2. Grown(M, N, w, t, c, Len(M.tops[t]) + Len(B) + 1)
    BY <2>1, <1>2, <1>9, BodyGrows
  <2> QED
    BY <2>2, <1>13
<1>15. ASSUME c \notin V PROVE Stack(M, w, t) = Stack(N, w, t)
  <2>1. Kept(M.standing[t], Sees(M, w)) = Kept(N.standing[t], Sees(N, w))
    BY <1>10, <1>11, <1>15 DEF s, U, V
  <2> QED
    BY <2>1, SameStack
<1> QED
  BY <1>14, <1>15 DEF V

\* The last to come is seen first, and goes without a trace.
LEMMA LastBody ==
    ASSUME NEW s \in Seq(Bodies), NEW c \in Bodies, c \notin ToSet(s), Distinct(s), NEW P
    PROVE  LET r == Append(s, c)
           IN  /\ r \in Seq(Bodies) /\ Distinct(r) /\ ToSet(r) = ToSet(s) \cup {c}
               /\ Without(r, c) = s
               /\ c \in P => Kept(r, P) = <<c>> \o Kept(s, P)
<1> DEFINE r == Append(s, c)
           e == <<>>
<1> HIDE DEF Bodies
<1>1. r = s \o <<c>> \o e /\ s \o e = s /\ r \in Seq(Bodies) /\ e \in Seq(Bodies)
  BY AppendIs
<1>8. s \in Seq(Bodies) /\ e \in Seq(Bodies) /\ c \in Bodies
  BY <1>1
<1>2. Kept(e, P) = <<>>
  BY KeptNone
<1> HIDE DEF r, e
<1>3. /\ ToSet(s \o <<c>> \o e) = ToSet(s \o e) \cup {c}
      /\ Distinct(s \o <<c>> \o e) <=> Distinct(s \o e) /\ c \notin ToSet(s \o e)
      /\ Distinct(s \o <<c>> \o e) => IndexOf(s \o <<c>> \o e, c) = Len(s) + 1
  BY <1>8, DistinctWith
<1>4. Distinct(r) /\ ToSet(r) = ToSet(s) \cup {c} /\ IndexOf(r, c) = Len(s) + 1
  BY <1>1, <1>3
<1>5. RemoveAt(s \o <<c>> \o e, Len(s) + 1) = s \o e
  <2>1. Closes(s, e, c)
    BY ONLY <1>8, SplitsOf
  <2> QED
    BY ONLY <2>1 DEF Closes
<1>6. Without(r, c) = s
  <2>1. c \in ToSet(r)
    BY <1>4
  <2>2. Contains(r, c)
    BY <2>1, <1>1, InList
  <2> QED
    BY <2>2, <1>1, <1>4, <1>5 DEF Without
<1>7. ASSUME c \in P PROVE Kept(r, P) = <<c>> \o Kept(s, P)
  <2>1. Kept(Amid(s, c, e), P) = Amid(Kept(e, P), c, Kept(s, P))
    BY <1>8, <1>7, KeptAround
  <2>2. Amid(s, c, e) = r
    BY <1>1 DEF Amid
  <2>3. Amid(Kept(e, P), c, Kept(s, P)) = <<>> \o <<c>> \o Kept(s, P)
    BY <1>2 DEF Amid
  <2>4. <<>> \o <<c>> = <<c>>
    OBVIOUS
  <2> QED
    BY <2>1, <2>2, <2>3, <2>4
<1> QED
  BY <1>1, <1>4, <1>6, <1>7 DEF r

-----------------------------------------------------------------------------
(* Creatures come, are shown and hidden, and go.                           *)

LEMMA MapDescribed ==
    ASSUME NEW M, Placed(M), NEW w \in Viewers,
           \A v \in Viewers, t \in Tiles : v # w => Right(M, v, t)
    PROVE  Good(SendMapDescription(M, w)) /\ Alike(M, SendMapDescription(M, w))
<1> DEFINE D == [t \in Tiles |-> IF CanSee(M, w, t) THEN Described(M, w, t) ELSE <<>>]
           V == [M.view EXCEPT ![w] = D]
           Z == {m \in M.missing : m.viewer # w}
           N == SendMapDescription(M, w)
<1>1. M \in MapStates
  BY DEF Placed
<1>2. M.view \in [Viewers -> [Tiles -> Seq(Things)]] /\ M.missing \in SUBSET Pairs
  BY <1>1 DEF MapStates
<1>3. N = [M EXCEPT !.view = V, !.missing = Z]
  BY DEF SendMapDescription
<1>4. D \in [Tiles -> Seq(Things)] /\ \A t \in Tiles : CanSee(M, w, t) => D[t] = Described(M, w, t)
  <2>1. \A t \in Tiles : D[t] \in Seq(Things)
    <3> TAKE t \in Tiles
    <3>1. Described(M, w, t) \in Seq(Things)
      BY <1>1, DescribedIs
    <3>2. <<>> \in Seq(Things)
      OBVIOUS
    <3>3. D[t] = IF CanSee(M, w, t) THEN Described(M, w, t) ELSE <<>>
      OBVIOUS
    <3> HIDE DEF D, Things
    <3> QED
      BY <3>1, <3>2, <3>3
  <2> QED
    BY <2>1
<1> HIDE DEF D
<1>5. V \in [Viewers -> [Tiles -> Seq(Things)]] /\ V[w] = D /\ \A v \in Viewers : v # w => V[v] = M.view[v]
  BY <1>2, <1>4
<1>6. Z \in SUBSET Pairs
  BY <1>2
<1>7. \A v \in Viewers, t \in Tiles :
          [viewer |-> v, tile |-> t] \in Z <=> Missing(M, v, t) /\ v # w
  BY DEF Missing
<1> HIDE DEF V, Z, N
<1>8. N \in MapStates /\ N.view = V /\ N.missing = Z /\ Alike(M, N)
  <2>1. N \in MapStates /\ N.view = V /\ N.missing = Z
    BY <1>1, <1>3, <1>5, <1>6 DEF MapStates
  <2>2. Alike(M, N)
    BY <1>1, <1>3 DEF Alike, MapStates
  <2> QED
    BY <2>1, <2>2
<1>9. /\ Placed(N)
      /\ \A v \in Viewers :
            /\ InWorld(M, v) <=> InWorld(N, v)
            /\ InWorld(M, v) => TileOf(M, v) = TileOf(N, v)
      /\ \A v \in Viewers, s \in Tiles :
            (CanSee(M, v, s) <=> CanSee(N, v, s)) /\ Stack(M, v, s) = Stack(N, v, s)
  BY <1>8, AlikeIs
<1>10. ASSUME NEW v \in Viewers, NEW t \in Tiles PROVE Right(N, v, t)
  <2>1. SUFFICES ASSUME CanSee(N, v, t) PROVE Right(N, v, t)
    BY DEF Right
  <2>2. CanSee(M, v, t) /\ TileOf(M, v) = TileOf(N, v) /\ Stack(M, v, t) = Stack(N, v, t)
    BY <2>1, <1>9 DEF CanSee
  <2>3. CASE v = w
    <3>1. N.view[v][t] = Described(M, v, t)
      BY <2>2, <2>3, <1>4, <1>5, <1>8
    <3>2. \/ Described(M, v, t) = Cut(Stack(M, v, t))
          \/ TileOf(M, v) = t /\ v \notin Exact /\ Len(Stack(M, v, t)) > Limit
      BY <1>1, DescribedIs
    <3> QED
      BY <3>1, <3>2, <2>2 DEF Right, Shows
  <2>4. CASE v # w
    <3>1. Right(M, v, t)
      BY <2>4
    <3>2. KeepsSight(M, N, v, t)
      BY <2>2, <2>4, <1>7, <1>8 DEF KeepsSight, Missing
    <3>3. M.view[v][t] = N.view[v][t]
      BY <2>4, <1>5, <1>8
    <3> QED
      BY <3>1, <3>2, <3>3, <2>2, Same
  <2> QED
    BY <2>3, <2>4
<1>11. Good(N)
  BY <1>9, <1>10 DEF Good
<1> QED
  BY <1>8, <1>11 DEF N

\* A creature is told to those who did not see it before.
LEMMA BodyTold ==
    ASSUME NEW M, NEW P, Good(M), Placed(P), NEW t \in Tiles, NEW c \in Bodies,
           NEW W \in SUBSET Viewers, NEW to \in SUBSET Viewers,
           P.view = M.view, P.missing = M.missing,
           \A w \in W :
              /\ InWorld(M, w) => TileOf(M, w) = TileOf(P, w)
              /\ \A s \in Tiles : CanSee(M, w, s) <=> CanSee(P, w, s)
              /\ \A s \in Tiles : s # t => Stack(M, w, s) = Stack(P, w, s)
              /\ w \notin to => Stack(M, w, t) = Stack(P, w, t),
           \A w \in to : Grown(M, P, w, t, c, ClientIndexOfCreature(P, w, t, c))
    PROVE  LET N == SendAddCreature(P, t, c, to)
           IN  /\ N \in MapStates /\ Placed(N) /\ Alike(P, N)
               /\ \A w \in W, s \in Tiles : Right(N, w, s)
<1> DEFINE n == [w \in Viewers |-> ClientIndexOfCreature(P, w, t, c)]
           f == [w \in Viewers |-> IF w \in to
                                   THEN Inserted(P.view[w][t], StackposOfCreature(P, w, t, c), c)
                                   ELSE P.view[w][t]]
           N == SendAddCreature(P, t, c, to)
<1>1. Placed(M) /\ M \in MapStates /\ P \in MapStates
  BY DEF Good, Placed
<1>2. c \in Things
  BY DEF Things
<1>3. \A w \in to : Grown(M, P, w, t, c, n[w]) /\ StackposOfCreature(P, w, t, c) = Told(n[w])
  BY DEF StackposOfCreature
<1>4. \A w \in to : n[w] \in Nat
  <2> HIDE DEF n
  <2> QED
    BY <1>2, <1>3, GrownIs
<1>5. \A w \in Viewers : f[w] \in Seq(Things)
  <2> TAKE w \in Viewers
  <2>1. f[w] = IF w \in to THEN Inserted(M.view[w][t], Told(n[w]), c) ELSE M.view[w][t]
    BY <1>3
  <2>2. w \in to => Told(n[w]) \in Nat
    BY <1>4 DEF Told
  <2>3. M.view[w][t] \in Seq(Things)
    BY <1>1 DEF MapStates
  <2> HIDE DEF n, f
  <2>4. w \in to => Inserted(M.view[w][t], Told(n[w]), c) \in Seq(Things)
    BY <2>2, <2>3, <1>2, MessageTypes
  <2> QED
    BY <2>1, <2>3, <2>4
<1>6. /\ \A w \in to : f[w] = Inserted(M.view[w][t], Told(n[w]), c)
      /\ \A w \in Viewers \ to : f[w] = M.view[w][t]
  BY <1>3
<1>7. N = Sent(P, t, f)
  BY DEF SendAddCreature, Send, Sent
<1> HIDE DEF n, f, N
<1>8. /\ N \in MapStates /\ Alike(P, N) /\ N.missing = P.missing
      /\ \A w \in Viewers, s \in Tiles :
            N.view[w][s] = IF CanSee(P, w, t) /\ s = t THEN f[w] ELSE P.view[w][s]
  BY <1>1, <1>5, <1>7, SentIs
<1>9. /\ Placed(N)
      /\ \A w \in Viewers :
            /\ InWorld(P, w) <=> InWorld(N, w)
            /\ InWorld(P, w) => TileOf(P, w) = TileOf(N, w)
      /\ \A w \in Viewers, s \in Tiles :
            (CanSee(P, w, s) <=> CanSee(N, w, s)) /\ Stack(P, w, s) = Stack(N, w, s)
  BY <1>8, AlikeIs
<1>10. ASSUME NEW w \in W, NEW s \in Tiles PROVE Right(N, w, s)
  <2>1. SUFFICES ASSUME CanSee(N, w, s) PROVE Right(N, w, s)
    BY DEF Right
  <2>0. w \in Viewers
    OBVIOUS
  <2>2. CanSee(P, w, s) /\ CanSee(M, w, s) /\ InWorld(M, w) /\ InWorld(P, w)
    BY <2>0, <2>1, <1>9 DEF CanSee
  <2>3. KeepsSight(M, N, w, s)
    BY <2>0, <2>2, <1>8, <1>9 DEF KeepsSight, Missing
  <2>4. Right(M, w, s)
    BY <2>0 DEF Good
  <2>5. CASE s = t /\ w \in to
    <3>1. Grown(M, N, w, t, c, n[w])
      BY <2>0, <2>5, <1>3, <1>9 DEF Grown
    <3>2. N.view[w][t] = Inserted(M.view[w][t], Told(n[w]), c)
      BY <2>0, <2>2, <2>5, <1>6, <1>8
    <3> QED
      BY <3>1, <3>2, <2>3, <2>4, <2>5, <1>2, RightInsert
  <2>6. CASE ~(s = t /\ w \in to)
    <3>1. Stack(M, w, s) = Stack(N, w, s)
      BY <2>0, <2>6, <1>9
    <3>2. M.view[w][s] = N.view[w][s]
      BY <2>0, <2>6, <1>6, <1>8
    <3> QED
      BY <3>1, <3>2, <2>3, <2>4, Same
  <2> QED
    BY <2>5, <2>6
<1> QED
  BY <1>8, <1>9, <1>10 DEF N

\* The lists are right, hidden creatures apart.
Settled(M) ==
    /\ M \in MapStates
    /\ \A t \in Tiles : Distinct(M.tops[t]) /\ Distinct(M.standing[t]) /\ Distinct(M.downs[t])
    /\ \A t, u \in Tiles, c \in Bodies : Stands(M, t, c) /\ Stands(M, u, c) => t = u

\* Where everybody stands with c on t as well.
LEMMA StandsOnIs ==
    ASSUME NEW M, Settled(M), NEW t \in Tiles, NEW c \in Bodies, \A s \in Tiles : ~Stands(M, s, c),
           \A x \in M.hidden : x = c \/ \E s \in Tiles : Stands(M, s, x)
    PROVE  LET P == StandsOn(M, t, c)
           IN  /\ P \in MapStates /\ Placed(P)
               /\ P.tops = M.tops /\ P.downs = M.downs /\ P.hidden = M.hidden
               /\ P.view = M.view /\ P.missing = M.missing
               /\ \A s \in Tiles : s # t => P.standing[s] = M.standing[s]
               /\ P.standing[t] = Append(M.standing[t], c)
               /\ Without(P.standing[t], c) = M.standing[t]
               /\ \A s \in Tiles : \A x : Stands(P, s, x) <=> Stands(M, s, x) \/ (s = t /\ x = c)
<1> DEFINE r == Append(M.standing[t], c)
           B == [M.standing EXCEPT ![t] = r]
           P == StandsOn(M, t, c)
<1>1. M \in MapStates
  BY DEF Settled
<1>2. /\ M.standing \in [Tiles -> Seq(Bodies)] /\ M.standing[t] \in Seq(Bodies)
      /\ Distinct(M.standing[t]) /\ c \notin ToSet(M.standing[t])
  BY <1>1 DEF MapStates, Settled, Stands
<1>3. /\ r \in Seq(Bodies) /\ Distinct(r) /\ ToSet(r) = ToSet(M.standing[t]) \cup {c}
      /\ Without(r, c) = M.standing[t]
  BY <1>2, LastBody
<1> HIDE DEF r
<1>4. /\ B \in [Tiles -> Seq(Bodies)] /\ B[t] = r
      /\ \A s \in Tiles : s # t => B[s] = M.standing[s]
  BY <1>2, <1>3
<1>5. P = [M EXCEPT !.standing = B]
  BY DEF StandsOn, r
<1> HIDE DEF B, P
<1>6. /\ P \in MapStates /\ P.standing = B /\ P.tops = M.tops /\ P.downs = M.downs
      /\ P.hidden = M.hidden /\ P.view = M.view /\ P.missing = M.missing
  BY <1>1, <1>4, <1>5 DEF MapStates
<1>7. \A s \in Tiles : \A x : Stands(P, s, x) <=> Stands(M, s, x) \/ (s = t /\ x = c)
  BY <1>3, <1>4, <1>6 DEF Stands
<1>8. Placed(P)
  <2>1. \A s \in Tiles : Distinct(P.tops[s]) /\ Distinct(P.standing[s]) /\ Distinct(P.downs[s])
    BY <1>3, <1>4, <1>6 DEF Settled
  <2>2. \A s, u \in Tiles, x \in Bodies : Stands(P, s, x) /\ Stands(P, u, x) => s = u
    BY <1>7 DEF Settled
  <2>3. \A x \in P.hidden : \E s \in Tiles : Stands(P, s, x)
    BY <1>6, <1>7
  <2> QED
    BY <2>1, <2>2, <2>3, <1>6 DEF Placed
<1> QED
  BY <1>3, <1>4, <1>6, <1>7, <1>8 DEF P, r

LEMMA Came ==
    ASSUME NEW M, Good(M), NEW t \in Tiles, NEW c \in Bodies, ~InWorld(M, c)
    PROVE  LET N == SendAddCreature(StandsOn(M, t, c), t, c, Viewers \ {c})
           IN  Good(IF c \in Viewers THEN SendMapDescription(N, c) ELSE N)
<1> DEFINE P == StandsOn(M, t, c)
           to == Viewers \ {c}
           N == SendAddCreature(P, t, c, to)
<1>1. Placed(M) /\ M \in MapStates
  BY DEF Good, Placed
<1>2. \A s \in Tiles : ~Stands(M, s, c)
  BY <1>1, BodyAt
<1>3. /\ P \in MapStates /\ Placed(P)
      /\ P.tops = M.tops /\ P.downs = M.downs /\ P.hidden = M.hidden
      /\ P.view = M.view /\ P.missing = M.missing
      /\ \A s \in Tiles : s # t => P.standing[s] = M.standing[s]
      /\ P.standing[t] = Append(M.standing[t], c)
      /\ Without(P.standing[t], c) = M.standing[t]
      /\ \A s \in Tiles : \A x : Stands(P, s, x) <=> Stands(M, s, x) \/ (s = t /\ x = c)
  <2>1. Settled(M) /\ \A x \in M.hidden : x = c \/ \E s \in Tiles : Stands(M, s, x)
    BY <1>1 DEF Placed, Settled
  <2> QED
    BY <2>1, <1>2, StandsOnIs
<1>4. c \notin M.hidden
  BY <1>1, <1>2 DEF Placed
<1> HIDE DEF P
<1>5. \A w \in Viewers : Sees(M, w) = Sees(P, w) /\ c \in Sees(P, w)
  BY <1>3, <1>4 DEF Sees, CanSeeCreature
<1>6. ASSUME NEW w \in to
      PROVE  /\ InWorld(M, w) => TileOf(M, w) = TileOf(P, w)
             /\ \A s \in Tiles : CanSee(M, w, s) <=> CanSee(P, w, s)
             /\ \A s \in Tiles : s # t => Stack(M, w, s) = Stack(P, w, s)
             /\ Grown(M, P, w, t, c, ClientIndexOfCreature(P, w, t, c))
  <2>1. w \in Viewers /\ w # c
    OBVIOUS
  <2>2. \A s \in Tiles : Stands(M, s, w) <=> Stands(P, s, w)
    BY <2>1, <1>3
  <2>3. /\ InWorld(M, w) => TileOf(M, w) = TileOf(P, w)
        /\ \A s \in Tiles : CanSee(M, w, s) <=> CanSee(P, w, s)
    BY <2>1, <2>2, <1>1, <1>3, SameHome
  <2>4. \A s \in Tiles : s # t => Stack(M, w, s) = Stack(P, w, s)
    BY <2>1, <1>1, <1>3, <1>5, SameStack
  <2>5. Grown(M, P, w, t, c, ClientIndexOfCreature(P, w, t, c))
    <3>1. Distinct(P.standing[t]) /\ Stands(P, t, c) /\ SameBut(M, P, w, c) /\ c \in Sees(P, w)
      BY <2>1, <1>3, <1>5 DEF Placed, SameBut
    <3> QED
      BY <2>1, <3>1, <1>1, <1>3, BodyGrown
  <2> QED
    BY <2>3, <2>4, <2>5
<1>7. /\ N \in MapStates /\ Placed(N) /\ Alike(P, N)
      /\ \A w \in to, s \in Tiles : Right(N, w, s)
  <2>1. to \in SUBSET Viewers
    OBVIOUS
  <2> HIDE DEF to
  <2> QED
    BY <2>1, <1>3, <1>6, BodyTold
<1> HIDE DEF N
<1>8. CASE c \in Viewers
  <2>1. \A v \in Viewers, s \in Tiles : v # c => Right(N, v, s)
    BY <1>7
  <2>2. Good(SendMapDescription(N, c))
    BY <2>1, <1>7, <1>8, MapDescribed
  <2> QED
    BY <2>2, <1>8 DEF N, P
<1>9. CASE c \notin Viewers
  <2>1. Good(N)
    BY <1>7, <1>9 DEF Good
  <2> QED
    BY <2>1, <1>9 DEF N, P
<1> QED
  BY <1>8, <1>9

LEMMA DepartsIs ==
    ASSUME NEW M, Placed(M), NEW t \in Tiles, NEW c \in Bodies, Stands(M, t, c)
    PROVE  LET P == Departs(M, t, c)
           IN  /\ P \in MapStates /\ Settled(P)
               /\ P.tops = M.tops /\ P.downs = M.downs /\ P.hidden = M.hidden
               /\ P.view = M.view /\ P.missing = M.missing
               /\ \A s \in Tiles : s # t => P.standing[s] = M.standing[s]
               /\ P.standing[t] = Without(M.standing[t], c)
               /\ \A s \in Tiles : \A x : Stands(P, s, x) <=> Stands(M, s, x) /\ x # c
               /\ \A x \in P.hidden : x = c \/ \E s \in Tiles : Stands(P, s, x)
<1> DEFINE r == Without(M.standing[t], c)
           B == [M.standing EXCEPT ![t] = r]
           P == Departs(M, t, c)
<1>1. M \in MapStates
  BY DEF Placed
<1>2. /\ M.standing \in [Tiles -> Seq(Bodies)] /\ M.standing[t] \in Seq(Bodies)
      /\ Distinct(M.standing[t])
  BY <1>1 DEF MapStates, Placed
<1>3. r \in Seq(Bodies) /\ Distinct(r) /\ ToSet(r) = ToSet(M.standing[t]) \ {c}
  BY <1>2, WithoutIs
<1>4. \A s \in Tiles : s # t => ~Stands(M, s, c)
  BY DEF Placed
<1> HIDE DEF r
<1>5. /\ B \in [Tiles -> Seq(Bodies)] /\ B[t] = r
      /\ \A s \in Tiles : s # t => B[s] = M.standing[s]
  BY <1>2, <1>3
<1>6. P = [M EXCEPT !.standing = B]
  BY DEF Departs, r
<1> HIDE DEF B, P
<1>7. /\ P \in MapStates /\ P.standing = B /\ P.tops = M.tops /\ P.downs = M.downs
      /\ P.hidden = M.hidden /\ P.view = M.view /\ P.missing = M.missing
  BY <1>1, <1>5, <1>6 DEF MapStates
<1>8. \A s \in Tiles : \A x : Stands(P, s, x) <=> Stands(M, s, x) /\ x # c
  BY <1>3, <1>4, <1>5, <1>7 DEF Stands
<1>9. Settled(P)
  <2>1. \A s \in Tiles : Distinct(P.tops[s]) /\ Distinct(P.standing[s]) /\ Distinct(P.downs[s])
    BY <1>3, <1>5, <1>7 DEF Placed
  <2>2. \A s, u \in Tiles, x \in Bodies : Stands(P, s, x) /\ Stands(P, u, x) => s = u
    BY <1>8 DEF Placed
  <2> QED
    BY <2>1, <2>2, <1>7 DEF Settled
<1>10. \A x \in P.hidden : x = c \/ \E s \in Tiles : Stands(P, s, x)
  BY <1>7, <1>8 DEF Placed
<1> QED
  BY <1>5, <1>7, <1>8, <1>9, <1>10 DEF P, r

LEMMA RemovedIs ==
    ASSUME NEW v \in Seq(Things), NEW n
    PROVE  Removed(v, n) \in Seq(Things)
<1>1. CASE n \in DOMAIN v
  <2>1. n \in Nat
    BY <1>1
  <2>2. PICK x \in Things : TRUE
    BY <1>1
  <2> HIDE DEF Things
  <2> QED
    BY <2>1, <2>2, MessageTypes
<1>2. CASE n \notin DOMAIN v
  BY <1>2 DEF Removed
<1> QED
  BY <1>1, <1>2

\* What w shows of t without c, which w saw there.
LEMMA RightLess ==
    ASSUME NEW M \in MapStates, NEW P \in MapStates, NEW t \in Tiles, NEW c \in Bodies, NEW w \in Viewers,
           Grown(P, M, w, t, c, ClientIndexOfCreature(M, w, t, c)),
           Right(M, w, t), ThingCount(P, t) <= Limit - 2,
           CanSee(P, w, t) => CanSee(M, w, t) /\ (Missing(M, w, t) => Missing(P, w, t)),
           \/ P.view[w][t] = Removed(M.view[w][t], StackposOfCreature(M, w, t, c))
           \/ P.view[w][t] = Removed(M.view[w][t], ClientIndexOfCreature(M, w, t, c))
    PROVE  Right(P, w, t)
<1> DEFINE n == ClientIndexOfCreature(M, w, t, c)
<1>1. StackposOfCreature(M, w, t, c) = Told(n)
  BY DEF StackposOfCreature
<1> HIDE DEF n
<1>2. c \in Things /\ Grown(P, M, w, t, c, n)
  BY DEF Things, n
<1>3. /\ Len(Stack(P, w, t)) \in Nat /\ Len(Stack(M, w, t)) = Len(Stack(P, w, t)) + 1
  BY <1>2, GrownIs
<1>4. Len(Stack(P, w, t)) <= ThingCount(P, t)
  BY StackIs
<1>5. ThingCount(P, t) \in Nat
  <2> DEFINE x == Len(P.tops[t])
             y == Len(P.standing[t])
             z == Len(P.downs[t])
  <2>1. x \in Nat /\ y \in Nat /\ z \in Nat
    BY MapFields
  <2>2. ThingCount(P, t) = x + y + z
    BY DEF ThingCount
  <2> HIDE DEF x, y, z
  <2> QED
    BY <2>1, <2>2
<1>6. Limit \in Nat /\ Limit > 2
  BY LimitOK DEF LimitIs
<1>7. Len(Stack(M, w, t)) <= Limit
  BY <1>3, <1>4, <1>5, <1>6
<1>8. \/ P.view[w][t] = Removed(M.view[w][t], Told(n))
      \/ P.view[w][t] = Removed(M.view[w][t], n)
  BY <1>1 DEF n
<1>9. KeepsSight(M, P, w, t)
  <2>1. Len(Stack(M, w, t)) \in Nat
    BY StackIs
  <2>2. ~(Len(Stack(M, w, t)) > Limit)
    BY <2>1, <1>6, <1>7
  <2> QED
    BY <2>2 DEF KeepsSight
<1> QED
  BY <1>2, <1>7, <1>8, <1>9, RightRemove

\* The map without c, before the tile left is sent again.
Vanished(M, t, c) ==
    LET sent == Send(M, t, LAMBDA w :
                    IF CanSeeCreature(M, w, c)
                    THEN Removed(M.view[w][t], StackposOfCreature(M, w, t, c)) ELSE M.view[w][t])
    IN  [Departs(sent, t, c) EXCEPT !.hidden = @ \ {c}]

LEMMA NearlyAfterGone ==
    ASSUME NEW M, Good(M), NEW t \in Tiles, NEW c \in Bodies, Stands(M, t, c)
    PROVE  LET P == Vanished(M, t, c)
           IN  Nearly(P, t) /\ \A s \in Tiles : ~Stands(P, s, c)
<1> DEFINE f == [w \in Viewers |->
                    IF CanSeeCreature(M, w, c)
                    THEN Removed(M.view[w][t], StackposOfCreature(M, w, t, c)) ELSE M.view[w][t]]
           K == Sent(M, t, f)
           sent == Send(M, t, LAMBDA w :
                           IF CanSeeCreature(M, w, c)
                           THEN Removed(M.view[w][t], StackposOfCreature(M, w, t, c)) ELSE M.view[w][t])
           D == Departs(K, t, c)
           H == M.hidden \ {c}
           P == [Departs(sent, t, c) EXCEPT !.hidden = @ \ {c}]
<1>1. Placed(M) /\ M \in MapStates
  BY DEF Good, Placed
<1>2. \A w \in Viewers : f[w] \in Seq(Things)
  <2> TAKE w \in Viewers
  <2>1. M.view[w][t] \in Seq(Things)
    BY <1>1 DEF MapStates
  <2>2. f[w] = IF CanSeeCreature(M, w, c)
               THEN Removed(M.view[w][t], StackposOfCreature(M, w, t, c)) ELSE M.view[w][t]
    OBVIOUS
  <2> HIDE DEF f
  <2>3. Removed(M.view[w][t], StackposOfCreature(M, w, t, c)) \in Seq(Things)
    BY <2>1, RemovedIs
  <2> QED
    BY <2>1, <2>2, <2>3
<1>3. K = sent
  BY DEF Sent, Send
<1>4. /\ \A w \in Viewers : CanSeeCreature(M, w, c) => f[w] = Removed(M.view[w][t], StackposOfCreature(M, w, t, c))
      /\ \A w \in Viewers : ~CanSeeCreature(M, w, c) => f[w] = M.view[w][t]
  OBVIOUS
<1> HIDE DEF f
<1>5. /\ K \in MapStates /\ Alike(M, K) /\ K.missing = M.missing
      /\ \A w \in Viewers, s \in Tiles :
            K.view[w][s] = IF CanSee(M, w, t) /\ s = t THEN f[w] ELSE M.view[w][s]
  BY <1>1, <1>2, SentIs
<1> HIDE DEF K, sent
<1>6. Placed(K) /\ Stands(K, t, c)
  <2>1. Placed(K)
    BY <1>1, <1>5, AlikeIs
  <2> QED
    BY <2>1, <1>5 DEF Stands, Alike
<1>7. /\ D \in MapStates /\ Settled(D)
      /\ D.tops = K.tops /\ D.downs = K.downs /\ D.hidden = K.hidden
      /\ D.view = K.view /\ D.missing = K.missing
      /\ \A s \in Tiles : s # t => D.standing[s] = K.standing[s]
      /\ D.standing[t] = Without(K.standing[t], c)
      /\ \A s \in Tiles : \A x : Stands(D, s, x) <=> Stands(K, s, x) /\ x # c
      /\ \A x \in D.hidden : x = c \/ \E s \in Tiles : Stands(D, s, x)
  BY <1>6, DepartsIs
<1> HIDE DEF D
<1>8. D.hidden = M.hidden
  BY <1>5, <1>7 DEF Alike
<1>9. P = [D EXCEPT !.hidden = H]
  BY <1>3, <1>7, <1>8 DEF D
<1> HIDE DEF P
<1>10. /\ P \in MapStates /\ P.hidden = H /\ P.tops = D.tops /\ P.standing = D.standing /\ P.downs = D.downs
       /\ P.view = D.view /\ P.missing = D.missing
  <2>1. H \in SUBSET Bodies
    BY <1>1 DEF MapStates
  <2> HIDE DEF H
  <2> QED
    BY <2>1, <1>7, <1>9 DEF MapStates
<1>11. /\ P.tops = M.tops /\ P.downs = M.downs /\ P.missing = M.missing
       /\ \A s \in Tiles : s # t => P.standing[s] = M.standing[s]
       /\ P.standing[t] = Without(M.standing[t], c)
       /\ \A s \in Tiles : \A x : Stands(P, s, x) <=> Stands(M, s, x) /\ x # c
       /\ \A w \in Viewers, s \in Tiles :
            P.view[w][s] = IF CanSee(M, w, t) /\ s = t THEN f[w] ELSE M.view[w][s]
  BY <1>5, <1>7, <1>10 DEF Alike, Stands
<1>12. Placed(P)
  <2>1. \A s \in Tiles : Distinct(P.tops[s]) /\ Distinct(P.standing[s]) /\ Distinct(P.downs[s])
    BY <1>7, <1>10 DEF Settled
  <2>2. \A s, u \in Tiles, x \in Bodies : Stands(P, s, x) /\ Stands(P, u, x) => s = u
    BY <1>11, <1>1 DEF Placed
  <2>3. \A x \in P.hidden : \E s \in Tiles : Stands(P, s, x)
    BY <1>1, <1>10, <1>11 DEF Placed
  <2> QED
    BY <2>1, <2>2, <2>3, <1>10 DEF Placed
<1>13. ASSUME NEW w \in Viewers, NEW s \in Tiles, s # t \/ ThingCount(P, t) <= Limit - 2
       PROVE  Right(P, w, s)
  <2>1. SUFFICES ASSUME CanSee(P, w, s) PROVE Right(P, w, s)
    BY DEF Right
  <2>2. w # c
    <3>1. \A u \in Tiles : ~Stands(P, u, c)
      BY <1>11
    <3>2. InWorld(P, w) /\ w \in Bodies
      BY <2>1 DEF CanSee, Bodies
    <3> QED
      BY <3>1, <3>2, <1>12, BodyAt
  <2>3. /\ InWorld(M, w) => TileOf(M, w) = TileOf(P, w)
        /\ \A u \in Tiles : CanSee(M, w, u) <=> CanSee(P, w, u)
    <3>1. \A u \in Tiles : Stands(M, u, w) <=> Stands(P, u, w)
      BY <2>2, <1>11
    <3> QED
      BY <3>1, <1>1, <1>12, SameHome
  <2>4. KeepsSight(M, P, w, s)
    BY <2>1, <2>3, <1>11 DEF KeepsSight, Missing, CanSee
  <2>5. Right(M, w, s)
    BY DEF Good
  <2>6. SameBut(P, M, w, c)
    BY <1>10 DEF SameBut, Sees, CanSeeCreature
  <2>7. CASE s = t
    <3>1. /\ c \in Sees(M, w) => Grown(P, M, w, t, c, ClientIndexOfCreature(M, w, t, c))
          /\ c \notin Sees(M, w) => Stack(P, w, t) = Stack(M, w, t)
      <4>1. Distinct(M.standing[t])
        BY <1>1 DEF Placed
      <4> QED
        BY <4>1, <2>6, <1>1, <1>10, <1>11, BodyGrown
    <3>2. c \in Sees(M, w) <=> CanSeeCreature(M, w, c)
      BY DEF Sees
    <3>3. P.view[w][t] = f[w]
      BY <2>1, <2>3, <2>7, <1>11
    <3>4. CASE CanSeeCreature(M, w, c)
      <4>1. P.view[w][t] = Removed(M.view[w][t], StackposOfCreature(M, w, t, c))
        BY <3>3, <3>4, <1>4
      <4>2. ThingCount(P, t) <= Limit - 2
        BY <1>13, <2>7
      <4>3. /\ Right(M, w, t)
            /\ CanSee(P, w, t) => CanSee(M, w, t) /\ (Missing(M, w, t) => Missing(P, w, t))
        BY <2>4, <2>5, <2>7 DEF KeepsSight
      <4>4. Grown(P, M, w, t, c, ClientIndexOfCreature(M, w, t, c))
        BY <3>1, <3>2, <3>4
      <4> QED
        BY <4>1, <4>2, <4>3, <4>4, <2>7, <1>1, <1>10, RightLess
    <3>5. CASE ~CanSeeCreature(M, w, c)
      <4>1. P.view[w][s] = M.view[w][s] /\ Stack(M, w, s) = Stack(P, w, s)
        BY <3>1, <3>2, <3>3, <3>5, <2>7, <1>4
      <4> QED
        BY <4>1, <2>4, <2>5, Same
    <3> QED
      BY <3>4, <3>5
  <2>8. CASE s # t
    <3>1. Kept(M.standing[s], Sees(M, w)) = Kept(P.standing[s], Sees(P, w))
      <4>1. M.standing[s] \in Seq(Bodies) /\ P.standing[s] = M.standing[s]
        BY <2>8, <1>1, <1>11, MapFields
      <4>2. \A x \in ToSet(M.standing[s]) : x \in Bodies /\ x # c
        BY <4>1, <2>8, <1>1, InSeq DEF Placed, Stands
      <4>3. \A x \in ToSet(M.standing[s]) : x \in Sees(M, w) <=> x \in Sees(P, w)
        BY <4>2, <2>6 DEF SameBut
      <4> QED
        BY <4>1, <4>3, SameSeen
    <3>2. Stack(M, w, s) = Stack(P, w, s)
      BY <3>1, <1>1, <1>10, <1>11, SameStack
    <3>3. M.view[w][s] = P.view[w][s]
      BY <2>8, <1>11
    <3> QED
      BY <3>2, <3>3, <2>4, <2>5, Same
  <2> QED
    BY <2>7, <2>8
<1>14. Nearly(P, t)
  BY <1>12, <1>13 DEF Nearly
<1>15. \A s \in Tiles : ~Stands(P, s, c)
  BY <1>11
<1> QED
  BY <1>14, <1>15 DEF P, sent, Vanished

\* A player who left shows nothing.
LEMMA ViewForgotten ==
    ASSUME NEW G, Good(G), NEW c \in Viewers, \A s \in Tiles : ~Stands(G, s, c)
    PROVE  Good([G EXCEPT !.view[c] = [u \in Tiles |-> <<>>],
                          !.missing = {m \in G.missing : m.viewer # c}])
<1> DEFINE E == [u \in Tiles |-> <<>>]
           V == [G.view EXCEPT ![c] = E]
           Z == {m \in G.missing : m.viewer # c}
           N == [G EXCEPT !.view = V, !.missing = Z]
<1>1. Placed(G) /\ G \in MapStates
  BY DEF Good, Placed
<1>2. G.view \in [Viewers -> [Tiles -> Seq(Things)]] /\ G.missing \in SUBSET Pairs
  BY <1>1 DEF MapStates
<1>3. E \in [Tiles -> Seq(Things)]
  OBVIOUS
<1> HIDE DEF E
<1>4. V \in [Viewers -> [Tiles -> Seq(Things)]] /\ \A w \in Viewers : w # c => V[w] = G.view[w]
  BY <1>2, <1>3
<1>5. Z \in SUBSET Pairs
  BY <1>2
<1>6. \A w \in Viewers, s \in Tiles : w # c => ([viewer |-> w, tile |-> s] \in Z <=> Missing(G, w, s))
  BY DEF Missing
<1> HIDE DEF V, Z
<1>7. N \in MapStates /\ N.view = V /\ N.missing = Z
  BY <1>1, <1>4, <1>5 DEF MapStates
<1>8. Alike(G, N)
  BY <1>1 DEF Alike, MapStates
<1>9. [G EXCEPT !.view[c] = [u \in Tiles |-> <<>>],
                !.missing = {m \in G.missing : m.viewer # c}] = N
  BY DEF V, Z, E
<1> HIDE DEF N
<1>10. /\ Placed(N)
       /\ \A v \in Viewers :
             /\ InWorld(G, v) <=> InWorld(N, v)
             /\ InWorld(G, v) => TileOf(G, v) = TileOf(N, v)
       /\ \A v \in Viewers, s \in Tiles :
             (CanSee(G, v, s) <=> CanSee(N, v, s)) /\ Stack(G, v, s) = Stack(N, v, s)
  BY <1>1, <1>7, <1>8, AlikeIs
<1>11. ASSUME NEW w \in Viewers, NEW s \in Tiles PROVE Right(N, w, s)
  <2>1. SUFFICES ASSUME CanSee(N, w, s) PROVE Right(N, w, s)
    BY DEF Right
  <2>2. InWorld(G, w) /\ CanSee(G, w, s) /\ TileOf(G, w) = TileOf(N, w)
    BY <2>1, <1>10 DEF CanSee
  <2>3. w # c
    <3>1. c \in Bodies
      BY DEF Bodies
    <3> QED
      BY <3>1, <2>2, <1>1, BodyAt
  <2>4. Right(G, w, s)
    BY DEF Good
  <2>5. KeepsSight(G, N, w, s)
    BY <2>2, <2>3, <1>6, <1>7 DEF KeepsSight, Missing
  <2>6. G.view[w][s] = N.view[w][s] /\ Stack(G, w, s) = Stack(N, w, s)
    BY <2>3, <1>4, <1>7, <1>10
  <2> QED
    BY <2>4, <2>5, <2>6, Same
<1>12. Good(N)
  BY <1>10, <1>11 DEF Good
<1> QED
  BY <1>9, <1>12

LEMMA ForgottenAfter ==
    ASSUME NEW P, NEW t \in Tiles, Nearly(P, t), NEW c \in Bodies, \A s \in Tiles : ~Stands(P, s, c)
    PROVE  LET G == PostRemoveNotification(P, t)
           IN  Good(IF c \in Viewers
                    THEN [G EXCEPT !.view[c] = [u \in Tiles |-> <<>>],
                                   !.missing = {m \in G.missing : m.viewer # c}]
                    ELSE G)
<1> DEFINE G == PostRemoveNotification(P, t)
<1>1. Good(G) /\ Alike(P, G)
  BY Notified
<1> HIDE DEF G
<1>2. \A s \in Tiles : ~Stands(G, s, c)
  BY <1>1 DEF Alike, Stands
<1>3. CASE c \in Viewers
  <2>1. Good([G EXCEPT !.view[c] = [u \in Tiles |-> <<>>],
                       !.missing = {m \in G.missing : m.viewer # c}])
    BY <1>1, <1>2, <1>3, ViewForgotten
  <2> QED
    BY <2>1, <1>3 DEF G
<1>4. CASE c \notin Viewers
  BY <1>1, <1>4 DEF G
<1> QED
  BY <1>3, <1>4

\* Tiles where c is not look as before when only c became visible or invisible.
LEMMA SameElsewhere ==
    ASSUME NEW M, NEW P \in MapStates, Placed(M), NEW w \in Viewers, NEW c, SameBut(P, M, w, c),
           NEW s \in Tiles, ~Stands(M, s, c),
           M.standing[s] = P.standing[s], M.tops[s] = P.tops[s], M.downs[s] = P.downs[s]
    PROVE  Stack(M, w, s) = Stack(P, w, s)
<1>1. M \in MapStates
  BY DEF Placed
<1>2. M.standing[s] \in Seq(Bodies)
  BY <1>1, MapFields
<1>3. \A x \in ToSet(M.standing[s]) : x \in Bodies /\ x # c
  BY <1>2, InSeq DEF Stands
<1>4. \A x \in ToSet(M.standing[s]) : x \in Sees(M, w) <=> x \in Sees(P, w)
  BY <1>3 DEF SameBut
<1>5. Kept(M.standing[s], Sees(M, w)) = Kept(P.standing[s], Sees(P, w))
  BY <1>2, <1>4, SameSeen
<1> QED
  BY <1>1, <1>5, SameStack

\* Who hides leaves the clients that do not see him short of what comes into view.
LEMMA HiddenWell ==
    ASSUME NEW M, Good(M), NEW t \in Tiles, NEW c \in Bodies, Stands(M, t, c), c \notin M.hidden
    PROVE  LET blind == {w \in Viewers \ (Sensing \cup {c}) : CanSee(M, w, t)}
               sent == Send(M, t, LAMBDA w :
                           IF w \in blind THEN Removed(M.view[w][t], StackposOfCreature(M, w, t, c))
                           ELSE M.view[w][t])
           IN  Good([sent EXCEPT
                       !.hidden = @ \cup {c},
                       !.missing = M.missing \cup {[viewer |-> w, tile |-> t] :
                                       w \in {v \in blind : Len(Stack(M, v, t)) > Limit}}])
<1> DEFINE blind == {w \in Viewers \ (Sensing \cup {c}) : CanSee(M, w, t)}
           f == [w \in Viewers |->
                    IF w \in blind THEN Removed(M.view[w][t], StackposOfCreature(M, w, t, c))
                    ELSE M.view[w][t]]
           K == Sent(M, t, f)
           sent == Send(M, t, LAMBDA w :
                           IF w \in blind THEN Removed(M.view[w][t], StackposOfCreature(M, w, t, c))
                           ELSE M.view[w][t])
           H == M.hidden \cup {c}
           Z == M.missing \cup {[viewer |-> w, tile |-> t] :
                                       w \in {v \in blind : Len(Stack(M, v, t)) > Limit}}
           P == [K EXCEPT !.hidden = H, !.missing = Z]
<1>1. Placed(M) /\ M \in MapStates
  BY DEF Good, Placed
<1>2. \A w \in Viewers : f[w] \in Seq(Things)
  <2> TAKE w \in Viewers
  <2>1. M.view[w][t] \in Seq(Things)
    BY <1>1 DEF MapStates
  <2>2. f[w] = IF w \in blind
               THEN Removed(M.view[w][t], StackposOfCreature(M, w, t, c)) ELSE M.view[w][t]
    OBVIOUS
  <2> HIDE DEF f
  <2>3. Removed(M.view[w][t], StackposOfCreature(M, w, t, c)) \in Seq(Things)
    BY <2>1, RemovedIs
  <2> QED
    BY <2>1, <2>2, <2>3
<1>3. K = sent
  BY DEF Sent, Send
<1>4. /\ \A w \in blind : f[w] = Removed(M.view[w][t], StackposOfCreature(M, w, t, c))
      /\ \A w \in Viewers \ blind : f[w] = M.view[w][t]
  OBVIOUS
<1> HIDE DEF f
<1>5. /\ K \in MapStates /\ Alike(M, K) /\ K.missing = M.missing
      /\ \A w \in Viewers, s \in Tiles :
            K.view[w][s] = IF CanSee(M, w, t) /\ s = t THEN f[w] ELSE M.view[w][s]
  BY <1>1, <1>2, SentIs
<1> HIDE DEF K, sent
<1>6. H \in SUBSET Bodies /\ Z \in SUBSET Pairs
  <2>1. M.hidden \in SUBSET Bodies /\ M.missing \in SUBSET Pairs
    BY <1>1 DEF MapStates
  <2> QED
    BY <2>1 DEF Pairs
<1>7. \A w \in Viewers, s \in Tiles :
          /\ Missing(M, w, s) => [viewer |-> w, tile |-> s] \in Z
          /\ s = t /\ w \in blind /\ Len(Stack(M, w, t)) > Limit => [viewer |-> w, tile |-> s] \in Z
  BY DEF Missing
<1>8. P = [sent EXCEPT !.hidden = @ \cup {c}, !.missing = Z]
  BY <1>3, <1>5 DEF Alike
<1> HIDE DEF Z
<1>9. /\ P \in MapStates /\ P.hidden = H /\ P.missing = Z /\ P.view = K.view
      /\ P.tops = M.tops /\ P.standing = M.standing /\ P.downs = M.downs
  <2>1. /\ P \in MapStates /\ P.hidden = H /\ P.missing = Z /\ P.view = K.view
        /\ P.tops = K.tops /\ P.standing = K.standing /\ P.downs = K.downs
    <3> HIDE DEF H
    <3> QED
      BY <1>5, <1>6 DEF MapStates
  <2> QED
    BY <2>1, <1>5 DEF Alike
<1> HIDE DEF P
<1>10. \A s, x : Stands(P, s, x) <=> Stands(M, s, x)
  BY <1>9 DEF Stands
<1>11. Placed(P)
  <2>1. \A x \in P.hidden : \E s \in Tiles : Stands(P, s, x)
    BY <1>1, <1>9, <1>10 DEF Placed
  <2> QED
    BY <2>1, <1>1, <1>9, <1>10 DEF Placed
<1>12. ASSUME NEW w \in Viewers, NEW s \in Tiles PROVE Right(P, w, s)
  <2>1. SUFFICES ASSUME CanSee(P, w, s) PROVE Right(P, w, s)
    BY DEF Right
  <2>2. /\ InWorld(M, w) => TileOf(M, w) = TileOf(P, w)
        /\ \A u \in Tiles : CanSee(M, w, u) <=> CanSee(P, w, u)
    BY <1>1, <1>10, <1>11, SameHome
  <2>3. KeepsSight(M, P, w, s)
    BY <2>1, <2>2, <1>7, <1>9 DEF KeepsSight, Missing, CanSee
  <2>4. Right(M, w, s)
    BY DEF Good
  <2>5. SameBut(P, M, w, c)
    BY <1>9 DEF SameBut, Sees, CanSeeCreature
  <2>6. CASE s = t /\ w \in blind
    <3>1. c \in Sees(M, w) /\ c \notin Sees(P, w)
      BY <2>6, <1>9 DEF Sees, CanSeeCreature
    <3>2. Distinct(M.standing[t])
      BY <1>1 DEF Placed
    <3>3. Grown(P, M, w, t, c, ClientIndexOfCreature(M, w, t, c))
      BY <3>1, <3>2, <2>5, <1>1, <1>9, BodyGrown
    <3>4. P.view[w][t] = Removed(M.view[w][t], Told(ClientIndexOfCreature(M, w, t, c)))
      BY <2>1, <2>2, <2>6, <1>4, <1>5, <1>9 DEF StackposOfCreature
    <3>5. CASE Len(Stack(M, w, t)) > Limit
      <4>1. Missing(P, w, t)
        BY <3>5, <2>6, <1>7, <1>9 DEF Missing
      <4> QED
        BY <4>1, <2>6 DEF Right, Missing
    <3>6. CASE ~(Len(Stack(M, w, t)) > Limit)
      <4>1. Len(Stack(M, w, t)) \in Nat /\ Limit \in Nat
        BY <1>1, StackIs, LimitOK DEF LimitIs
      <4>2. Len(Stack(M, w, t)) <= Limit
        BY <4>1, <3>6
      <4>3. c \in Things
        BY DEF Things
      <4> QED
        BY <4>2, <4>3, <3>3, <3>4, <2>3, <2>4, <2>6, RightRemove
    <3> QED
      BY <3>5, <3>6
  <2>7. CASE s = t /\ w \notin blind
    <3>1. Sees(M, w) = Sees(P, w)
      BY <2>1, <2>2, <2>7, <1>9 DEF Sees, CanSeeCreature
    <3>2. Stack(M, w, s) = Stack(P, w, s)
      BY <3>1, <1>1, <1>9, SameStack
    <3>3. M.view[w][s] = P.view[w][s]
      BY <2>7, <1>4, <1>5, <1>9
    <3> QED
      BY <3>2, <3>3, <2>3, <2>4, Same
  <2>8. CASE s # t
    <3>1. ~Stands(M, s, c)
      BY <2>8, <1>1 DEF Placed
    <3>2. Stack(M, w, s) = Stack(P, w, s)
      BY <3>1, <2>5, <1>1, <1>9, SameElsewhere
    <3>3. M.view[w][s] = P.view[w][s]
      BY <2>8, <1>5, <1>9
    <3> QED
      BY <3>2, <3>3, <2>3, <2>4, Same
  <2> QED
    BY <2>6, <2>7, <2>8
<1>13. Good(P)
  BY <1>11, <1>12 DEF Good
<1> QED
  BY <1>8, <1>13 DEF Z, sent

\* Who appears is told to those who could not see him.
LEMMA Shown ==
    ASSUME NEW M, Good(M), NEW t \in Tiles, NEW c \in Bodies, Stands(M, t, c), c \in M.hidden
    PROVE  Good(SendAddCreature([M EXCEPT !.hidden = @ \ {c}], t, c, Viewers \ (Sensing \cup {c})))
<1> DEFINE H == M.hidden \ {c}
           P == [M EXCEPT !.hidden = H]
           to == Viewers \ (Sensing \cup {c})
           N == SendAddCreature(P, t, c, to)
<1>1. Placed(M) /\ M \in MapStates
  BY DEF Good, Placed
<1>2. H \in SUBSET Bodies
  BY <1>1 DEF MapStates
<1>3. P = [M EXCEPT !.hidden = @ \ {c}]
  OBVIOUS
<1>4. /\ P \in MapStates /\ P.hidden = H /\ P.missing = M.missing /\ P.view = M.view
      /\ P.tops = M.tops /\ P.standing = M.standing /\ P.downs = M.downs
  <2> HIDE DEF H
  <2> QED
    BY <1>1, <1>2 DEF MapStates
<1> HIDE DEF P
<1>5. \A s, x : Stands(P, s, x) <=> Stands(M, s, x)
  BY <1>4 DEF Stands
<1>6. Placed(P)
  BY <1>1, <1>4, <1>5 DEF Placed
<1>7. ASSUME NEW w \in Viewers
      PROVE  /\ InWorld(M, w) => TileOf(M, w) = TileOf(P, w)
             /\ \A s \in Tiles : CanSee(M, w, s) <=> CanSee(P, w, s)
             /\ \A s \in Tiles : s # t => Stack(M, w, s) = Stack(P, w, s)
             /\ w \notin to => Stack(M, w, t) = Stack(P, w, t)
             /\ w \in to => Grown(M, P, w, t, c, ClientIndexOfCreature(P, w, t, c))
  <2>1. /\ InWorld(M, w) => TileOf(M, w) = TileOf(P, w)
        /\ \A s \in Tiles : CanSee(M, w, s) <=> CanSee(P, w, s)
    BY <1>1, <1>5, <1>6, SameHome
  <2>2. SameBut(P, M, w, c) /\ SameBut(M, P, w, c)
    BY <1>4 DEF SameBut, Sees, CanSeeCreature
  <2>3. ASSUME NEW s \in Tiles, s # t PROVE Stack(M, w, s) = Stack(P, w, s)
    <3>1. ~Stands(M, s, c)
      BY <2>3, <1>1 DEF Placed
    <3> QED
      BY <3>1, <2>2, <1>1, <1>4, SameElsewhere
  <2>4. ASSUME w \notin to PROVE Stack(M, w, t) = Stack(P, w, t)
    <3>1. Sees(M, w) = Sees(P, w)
      BY <2>4, <1>4 DEF Sees, CanSeeCreature
    <3> QED
      BY <3>1, <1>1, <1>4, SameStack
  <2>5. ASSUME w \in to PROVE Grown(M, P, w, t, c, ClientIndexOfCreature(P, w, t, c))
    <3>1. c \in Sees(P, w) /\ c \notin Sees(M, w)
      BY <2>5, <1>4 DEF Sees, CanSeeCreature
    <3>2. Distinct(P.standing[t]) /\ Stands(P, t, c)
      BY <1>5, <1>6 DEF Placed
    <3> QED
      BY <3>1, <3>2, <2>2, <1>1, <1>4, BodyGrown
  <2> QED
    BY <2>1, <2>3, <2>4, <2>5
<1>8. to \in SUBSET Viewers /\ Viewers \in SUBSET Viewers
  OBVIOUS
<1> HIDE DEF to
<1>9. \A w \in to : Grown(M, P, w, t, c, ClientIndexOfCreature(P, w, t, c))
  BY <1>7, <1>8
<1>10. /\ N \in MapStates /\ Placed(N) /\ Alike(P, N)
       /\ \A w \in Viewers, s \in Tiles : Right(N, w, s)
  BY <1>4, <1>6, <1>7, <1>8, <1>9, BodyTold
<1> HIDE DEF N
<1>11. Good(N)
  BY <1>10 DEF Good
<1> QED
  BY <1>3, <1>11 DEF N, to

-----------------------------------------------------------------------------
(* A creature moves.                                                       *)

Near(s, t) == s - t \in -Sight .. Sight

LEMMA OwnMoveIs ==
    ASSUME NEW N \in MapStates, NEW w \in Viewers, NEW t \in Tiles, NEW u \in Tiles, NEW n, NEW teleport
    PROVE  LET O == OwnMove(N, w, t, u, n, teleport)
           IN  /\ O.view[w] \in [Tiles -> Seq(Things)]
               /\ \A s \in Tiles : CanSee(N, w, s) =>
                     \/ O.view[w][s] = Described(N, w, s)
                     \/ /\ Near(s, t) /\ (Missing(N, w, s) => Missing(O, w, s))
                        /\ \/ s = t /\ O.view[w][s] = Removed(N.view[w][s], n)
                           \/ s # t /\ s = u /\ O.view[w][s] = Arrived(N.view[w][s], w)
                           \/ s # t /\ s # u /\ O.view[w][s] = N.view[w][s]
<1> DEFINE O == OwnMove(N, w, t, u, n, teleport)
           E == [s \in Tiles |-> IF CanSee(N, w, s) THEN Described(N, w, s) ELSE <<>>]
           D == [s \in Tiles |->
                IF ~CanSee(N, w, s) THEN <<>>
                ELSE IF s - t \notin -Sight .. Sight THEN Described(N, w, s)
                ELSE IF s = t THEN Removed(N.view[w][t], n)
                ELSE IF s = u THEN Arrived(N.view[w][u], w)
                ELSE N.view[w][s]]
           Z == {m \in N.missing : m.viewer = w => CanSee(N, w, m.tile)}
<1>1. N.view \in [Viewers -> [Tiles -> Seq(Things)]] /\ w \in Things
  BY DEF MapStates, Things, Bodies
<1>2. \A s \in Tiles : Described(N, w, s) \in Seq(Things)
  BY DescribedIs
<1>3. \A s \in Tiles : N.view[w][s] \in Seq(Things)
  BY <1>1
<1>4. \A s \in Tiles : Removed(N.view[w][s], n) \in Seq(Things) /\ Arrived(N.view[w][s], w) \in Seq(Things)
  <2> TAKE s \in Tiles
  <2>1. 0 \in Nat
    OBVIOUS
  <2>2. Arrived(N.view[w][s], w) \in Seq(Things)
    BY <2>1, <1>1, <1>3, MessageTypes
  <2>3. Removed(N.view[w][s], n) \in Seq(Things)
    BY <1>3, RemovedIs
  <2> QED
    BY <2>2, <2>3
<1>5. <<>> \in Seq(Things)
  OBVIOUS
<1> HIDE DEF Things
<1>6. E \in [Tiles -> Seq(Things)]
  BY <1>2, <1>5
<1>7. ASSUME NEW s \in Tiles
      PROVE  /\ D[s] \in Seq(Things)
             /\ CanSee(N, w, s) =>
                  \/ D[s] = Described(N, w, s)
                  \/ /\ Near(s, t)
                     /\ \/ s = t /\ D[s] = Removed(N.view[w][s], n)
                        \/ s # t /\ s = u /\ D[s] = Arrived(N.view[w][s], w)
                        \/ s # t /\ s # u /\ D[s] = N.view[w][s]
  <2>1. D[s] = IF ~CanSee(N, w, s) THEN <<>>
               ELSE IF ~Near(s, t) THEN Described(N, w, s)
               ELSE IF s = t THEN Removed(N.view[w][s], n)
               ELSE IF s = u THEN Arrived(N.view[w][s], w)
               ELSE N.view[w][s]
    BY DEF Near
  <2> HIDE DEF D
  <2> QED
    BY <2>1, <1>2, <1>3, <1>4, <1>5
<1>8. D \in [Tiles -> Seq(Things)]
  BY <1>7
<1> HIDE DEF D, E
<1>9. CASE n > Limit \/ teleport
  <2>1. O = SendMapDescription(N, w)
    BY <1>9 DEF OwnMove
  <2>2. O.view = [N.view EXCEPT ![w] = E]
    BY <2>1 DEF SendMapDescription, E, MapStates
  <2>3. O.view[w] = E
    BY <2>2, <1>1
  <2>4. \A s \in Tiles : CanSee(N, w, s) => E[s] = Described(N, w, s)
    BY DEF E
  <2> HIDE DEF O
  <2>5. \A s \in Tiles : CanSee(N, w, s) => O.view[w][s] = Described(N, w, s)
    BY <2>3, <2>4
  <2>6. O.view[w] \in [Tiles -> Seq(Things)]
    BY <2>3, <1>6
  <2> QED
    BY <2>5, <2>6 DEF O
<1>10. CASE ~(n > Limit \/ teleport)
  <2>1. O = [N EXCEPT !.view[w] = D, !.missing = Z]
    BY <1>10 DEF OwnMove, D
  <2>2. O.view = [N.view EXCEPT ![w] = D] /\ O.missing = Z
    <3> HIDE DEF Z
    <3> QED
      BY <2>1 DEF MapStates
  <2>3. O.view[w] = D
    BY <2>2, <1>1
  <2>4. \A s \in Tiles : CanSee(N, w, s) => (Missing(N, w, s) => Missing(O, w, s))
    BY <2>2 DEF Missing
  <2> HIDE DEF O
  <2>5. O.view[w] \in [Tiles -> Seq(Things)]
    BY <2>3, <1>8
  <2>6. ASSUME NEW s \in Tiles, CanSee(N, w, s)
        PROVE  \/ O.view[w][s] = Described(N, w, s)
               \/ /\ Near(s, t) /\ (Missing(N, w, s) => Missing(O, w, s))
                  /\ \/ s = t /\ O.view[w][s] = Removed(N.view[w][s], n)
                     \/ s # t /\ s = u /\ O.view[w][s] = Arrived(N.view[w][s], w)
                     \/ s # t /\ s # u /\ O.view[w][s] = N.view[w][s]
    BY <2>3, <2>4, <2>6, <1>7
  <2> QED
    BY <2>5, <2>6 DEF O
<1> QED
  BY <1>9, <1>10

LEMMA OtherMoveIs ==
    ASSUME NEW N \in MapStates, NEW w \in Viewers, NEW c \in Bodies, NEW t \in Tiles, NEW u \in Tiles, t # u,
           NEW n, NEW teleport, StackposOfCreature(N, w, u, c) \in Nat
    PROVE  LET O == OtherMove(N, w, c, t, u, n, teleport)
           IN  /\ O.view[w] \in [Tiles -> Seq(Things)] /\ O.missing = N.missing
               /\ CanSee(N, w, t) => O.view[w][t] = Removed(N.view[w][t], n)
               /\ CanSee(N, w, u) =>
                     \/ O.view[w][u] = Arrived(N.view[w][u], c)
                     \/ O.view[w][u] = Inserted(N.view[w][u], StackposOfCreature(N, w, u, c), c)
               /\ \A s \in Tiles : s # t /\ s # u => O.view[w][s] = N.view[w][s]
<1> DEFINE O == OtherMove(N, w, c, t, u, n, teleport)
           p == StackposOfCreature(N, w, u, c)
           v == N.view[w]
           vt == IF CanSee(N, w, t) THEN [v EXCEPT ![t] = Removed(v[t], n)] ELSE v
           left == IF CanSee(N, w, t) THEN [N EXCEPT !.view[w][t] = Removed(N.view[w][t], n)] ELSE N
           both == CanSee(N, w, t) /\ CanSee(N, w, u) /\ ~teleport /\ n <= Limit
           x == IF both THEN Arrived(v[u], c) ELSE Inserted(v[u], p, c)
           vu == IF CanSee(N, w, u) THEN [vt EXCEPT ![u] = x] ELSE vt
<1>1. N.view \in [Viewers -> [Tiles -> Seq(Things)]] /\ c \in Things
  BY DEF MapStates, Things
<1>2. v \in [Tiles -> Seq(Things)] /\ v[t] \in Seq(Things) /\ v[u] \in Seq(Things)
  BY <1>1
<1>3. Removed(v[t], n) \in Seq(Things)
  <2> HIDE DEF v
  <2> QED
    BY <1>2, RemovedIs
<1>4. x \in Seq(Things)
  <2> HIDE DEF v, p
  <2>1. p \in Nat
    BY DEF p
  <2>2. Arrived(v[u], c) \in Seq(Things) /\ Inserted(v[u], p, c) \in Seq(Things)
    BY <2>1, <1>1, <1>2, MessageTypes
  <2> QED
    BY <2>2
<1> HIDE DEF Things
<1>5. /\ vt \in [Tiles -> Seq(Things)]
      /\ CanSee(N, w, t) => vt[t] = Removed(v[t], n)
      /\ \A s \in Tiles : s # t => vt[s] = v[s]
  <2> HIDE DEF v
  <2> QED
    BY <1>2, <1>3
<1> HIDE DEF vt, x
<1>6. /\ vu \in [Tiles -> Seq(Things)]
      /\ CanSee(N, w, u) => vu[u] = x
      /\ \A s \in Tiles : s # u => vu[s] = vt[s]
  <2> HIDE DEF v
  <2> QED
    BY <1>4, <1>5
<1>7. left \in MapStates /\ left.view = [N.view EXCEPT ![w] = vt] /\ left.missing = N.missing
  <2>1. CASE CanSee(N, w, t)
    <3>1. left = [N EXCEPT !.view = [N.view EXCEPT ![w] = vt]]
      BY <2>1, <1>1 DEF vt
    <3> HIDE DEF left
    <3>2. [N.view EXCEPT ![w] = vt] \in [Viewers -> [Tiles -> Seq(Things)]]
      BY <1>1, <1>5
    <3> QED
      BY <3>1, <3>2 DEF MapStates
  <2>2. CASE ~CanSee(N, w, t)
    <3>1. left = N /\ vt = N.view[w]
      BY <2>2 DEF vt
    <3>2. [N.view EXCEPT ![w] = vt] = N.view
      BY <3>1, <1>1
    <3> HIDE DEF left
    <3> QED
      BY <3>1, <3>2
  <2> QED
    BY <2>1, <2>2
<1> HIDE DEF left
<1>8. left.view[w] = vt /\ left.view[w][u] = v[u]
  BY <1>1, <1>5, <1>7
<1>9. O.view[w] = vu /\ O.missing = N.missing
  <2>1. CASE CanSee(N, w, u)
    <3>1. O = [left EXCEPT !.view[w][u] = x]
      <4>1. CASE both
        <5>1. x = Arrived(left.view[w][u], c)
          BY <4>1, <1>8 DEF x
        <5>2. O = [left EXCEPT !.view[w][u] = Arrived(left.view[w][u], c)]
          BY <4>1 DEF OtherMove, left
        <5> QED
          BY <5>1, <5>2
      <4>2. CASE ~both
        <5>1. x = Inserted(left.view[w][u], p, c)
          BY <4>2, <1>8 DEF x
        <5>2. O = [left EXCEPT !.view[w][u] = Inserted(left.view[w][u], p, c)]
          BY <4>2, <2>1 DEF OtherMove, left
        <5> QED
          BY <5>1, <5>2
      <4> QED
        BY <4>1, <4>2
    <3> HIDE DEF O
    <3>2. O = [left EXCEPT !.view = [left.view EXCEPT ![w] = [left.view[w] EXCEPT ![u] = x]]]
      BY <3>1, <1>7 DEF MapStates
    <3>3. /\ O.view = [left.view EXCEPT ![w] = [left.view[w] EXCEPT ![u] = x]]
          /\ O.missing = left.missing
      BY <3>2, <1>7 DEF MapStates
    <3>4. left.view \in [Viewers -> [Tiles -> Seq(Things)]]
      BY <1>7 DEF MapStates
    <3>5. O.view[w] = [vt EXCEPT ![u] = x]
      BY <3>3, <3>4, <1>8
    <3> QED
      BY <3>3, <3>5, <2>1, <1>7
  <2>2. CASE ~CanSee(N, w, u)
    <3>1. O = left
      BY <2>2 DEF OtherMove, left
    <3> QED
      BY <3>1, <2>2, <1>7, <1>8
  <2> QED
    BY <2>1, <2>2
<1> HIDE DEF O, vu, p
<1>10. CanSee(N, w, t) => O.view[w][t] = Removed(N.view[w][t], n)
  BY <1>5, <1>6, <1>9
<1>11. CanSee(N, w, u) =>
          \/ O.view[w][u] = Arrived(N.view[w][u], c)
          \/ O.view[w][u] = Inserted(N.view[w][u], p, c)
  BY <1>6, <1>9 DEF x
<1>12. \A s \in Tiles : s # t /\ s # u => O.view[w][s] = N.view[w][s]
  BY <1>5, <1>6, <1>9
<1> QED
  BY <1>6, <1>9, <1>10, <1>11, <1>12 DEF O, p

LEMMA DescribedRight ==
    ASSUME NEW P, NEW A \in MapStates, Placed(P), Alike(P, A), NEW w \in Viewers, NEW s \in Tiles,
           CanSee(A, w, s) => A.view[w][s] = Described(P, w, s)
    PROVE  Right(A, w, s)
<1>1. /\ \A v \in Viewers :
            /\ InWorld(P, v) <=> InWorld(A, v)
            /\ InWorld(P, v) => TileOf(P, v) = TileOf(A, v)
      /\ \A v \in Viewers, u \in Tiles :
            (CanSee(P, v, u) <=> CanSee(A, v, u)) /\ Stack(P, v, u) = Stack(A, v, u)
  BY AlikeIs
<1>2. SUFFICES ASSUME CanSee(A, w, s) PROVE Right(A, w, s)
  BY DEF Right
<1>3. TileOf(P, w) = TileOf(A, w) /\ Stack(P, w, s) = Stack(A, w, s)
  BY <1>1, <1>2 DEF CanSee
<1>4. P \in MapStates
  BY DEF Placed
<1>5. \/ Described(P, w, s) = Cut(Stack(P, w, s))
      \/ TileOf(P, w) = s /\ w \notin Exact /\ Len(Stack(P, w, s)) > Limit
  BY <1>4, DescribedIs
<1> QED
  BY <1>2, <1>3, <1>5 DEF Right, Shows

\* Who stands where after the step.
LEMMA MovedIs ==
    ASSUME NEW M, Placed(M), NEW t \in Tiles, NEW u \in Tiles, t # u, NEW c \in Bodies, Stands(M, t, c)
    PROVE  LET P == StandsOn(Departs(M, t, c), u, c)
           IN  /\ P \in MapStates /\ Placed(P)
               /\ P.tops = M.tops /\ P.downs = M.downs /\ P.hidden = M.hidden
               /\ P.view = M.view /\ P.missing = M.missing
               /\ \A s \in Tiles : s # t /\ s # u => P.standing[s] = M.standing[s]
               /\ P.standing[t] = Without(M.standing[t], c)
               /\ P.standing[u] = Append(M.standing[u], c)
               /\ M.standing[u] = Without(P.standing[u], c)
               /\ \A s \in Tiles : \A x :
                     Stands(P, s, x) <=> (Stands(M, s, x) /\ x # c) \/ (s = u /\ x = c)
<1> DEFINE D == Departs(M, t, c)
           P == StandsOn(D, u, c)
<1>1. /\ D \in MapStates /\ Settled(D)
      /\ D.tops = M.tops /\ D.downs = M.downs /\ D.hidden = M.hidden
      /\ D.view = M.view /\ D.missing = M.missing
      /\ \A s \in Tiles : s # t => D.standing[s] = M.standing[s]
      /\ D.standing[t] = Without(M.standing[t], c)
      /\ \A s \in Tiles : \A x : Stands(D, s, x) <=> Stands(M, s, x) /\ x # c
      /\ \A x \in D.hidden : x = c \/ \E s \in Tiles : Stands(D, s, x)
  BY DepartsIs
<1> HIDE DEF D
<1>2. \A s \in Tiles : ~Stands(D, s, c)
  BY <1>1
<1>3. /\ P \in MapStates /\ Placed(P)
      /\ P.tops = D.tops /\ P.downs = D.downs /\ P.hidden = D.hidden
      /\ P.view = D.view /\ P.missing = D.missing
      /\ \A s \in Tiles : s # u => P.standing[s] = D.standing[s]
      /\ P.standing[u] = Append(D.standing[u], c)
      /\ Without(P.standing[u], c) = D.standing[u]
      /\ \A s \in Tiles : \A x : Stands(P, s, x) <=> Stands(D, s, x) \/ (s = u /\ x = c)
  BY <1>1, <1>2, StandsOnIs
<1> HIDE DEF P
<1>4. D.standing[u] = M.standing[u]
  BY <1>1
<1>5. \A s \in Tiles : \A x :
          Stands(P, s, x) <=> (Stands(M, s, x) /\ x # c) \/ (s = u /\ x = c)
  BY <1>1, <1>3
<1>6. \A s \in Tiles : s # t /\ s # u => P.standing[s] = M.standing[s]
  BY <1>1, <1>3
<1> QED
  BY <1>1, <1>3, <1>4, <1>5, <1>6 DEF P, D

ToldOf(M, c) == {w \in Viewers : InWorld(M, w) /\ CanSeeCreature(M, w, c)}

\* P is M after c went from t to u.
Moved(M, P, t, u, c) ==
    /\ P.tops = M.tops /\ P.downs = M.downs /\ P.hidden = M.hidden
    /\ P.view = M.view /\ P.missing = M.missing
    /\ \A s \in Tiles : s # t /\ s # u => P.standing[s] = M.standing[s]
    /\ P.standing[t] = Without(M.standing[t], c)
    /\ P.standing[u] = Append(M.standing[u], c)
    /\ M.standing[u] = Without(P.standing[u], c)
    /\ \A s \in Tiles : \A x :
          Stands(P, s, x) <=> (Stands(M, s, x) /\ x # c) \/ (s = u /\ x = c)

\* What A has the clients of the others show after that, and the client of c.
OthersShow(M, P, A, t, u, c) ==
    /\ \A w \in Viewers, s \in Tiles : w \notin ToldOf(M, c) =>
          A.view[w][s] = M.view[w][s] /\ (Missing(M, w, s) => Missing(A, w, s))
    /\ \A w \in ToldOf(M, c), s \in Tiles : w # c /\ CanSee(P, w, s) =>
          /\ Missing(M, w, s) => Missing(A, w, s)
          /\ s = t => A.view[w][s] = Removed(M.view[w][s], ClientIndexOfCreature(M, w, t, c))
          /\ s = u =>
                \/ A.view[w][s] = Arrived(M.view[w][s], c)
                \/ A.view[w][s] = Inserted(M.view[w][s], StackposOfCreature(P, w, u, c), c)
          /\ s # t /\ s # u => A.view[w][s] = M.view[w][s]
OwnShows(M, P, A, t, u, c) ==
    c \in Viewers => \A s \in Tiles : CanSee(P, c, s) =>
        \/ A.view[c][s] = Described(P, c, s)
        \/ /\ Near(s, t) /\ (Missing(M, c, s) => Missing(A, c, s))
           /\ \/ s = t /\ A.view[c][s] = Removed(M.view[c][s], ClientIndexOfCreature(M, c, t, c))
              \/ s # t /\ s = u /\ A.view[c][s] = Arrived(M.view[c][s], c)
              \/ s # t /\ s # u /\ A.view[c][s] = M.view[c][s]

\* What the clients make of a step from t to u: A is the map after it.
LEMMA NearlyAfterStep ==
    ASSUME NEW M, NEW P, NEW A \in MapStates, Good(M), Placed(P),
           NEW t \in Tiles, NEW u \in Tiles, t # u, NEW c \in Bodies, Stands(M, t, c),
           Moved(M, P, t, u, c), Alike(P, A),
           OthersShow(M, P, A, t, u, c), OwnShows(M, P, A, t, u, c)
    PROVE  Nearly(A, t)
<1> USE DEF Moved, OthersShow, OwnShows
<1>1. Placed(M) /\ M \in MapStates /\ P \in MapStates /\ c \in Things
  BY DEF Good, Placed, Things
<1>2. /\ Placed(A)
      /\ \A w \in Viewers :
            /\ InWorld(P, w) <=> InWorld(A, w)
            /\ InWorld(P, w) => TileOf(P, w) = TileOf(A, w)
      /\ \A w \in Viewers, s \in Tiles :
            (CanSee(P, w, s) <=> CanSee(A, w, s)) /\ Stack(P, w, s) = Stack(A, w, s)
  BY AlikeIs
<1>3. /\ A.tops = M.tops /\ A.downs = M.downs /\ A.hidden = M.hidden
      /\ A.standing[t] = Without(M.standing[t], c)
      /\ A.standing[u] = Append(M.standing[u], c)
      /\ M.standing[u] = Without(A.standing[u], c)
      /\ \A s \in Tiles : s # t /\ s # u => A.standing[s] = M.standing[s]
      /\ Stands(A, u, c)
  BY DEF Alike, Stands
<1>4. ~Stands(M, u, c)
  BY <1>1 DEF Placed
<1>5. \A w \in Viewers : SameBut(M, A, w, c) /\ SameBut(A, M, w, c) /\ Sees(M, w) = Sees(A, w)
  BY <1>3 DEF SameBut, Sees, CanSeeCreature
<1>6. \A w \in Viewers :
          /\ c \in Sees(M, w) => /\ Grown(A, M, w, t, c, ClientIndexOfCreature(M, w, t, c))
                                 /\ Grown(M, A, w, u, c, ClientIndexOfCreature(A, w, u, c))
          /\ c \notin Sees(M, w) => Stack(A, w, t) = Stack(M, w, t) /\ Stack(M, w, u) = Stack(A, w, u)
  <2> TAKE w \in Viewers
  <2>1. Distinct(M.standing[t]) /\ Distinct(A.standing[u])
    BY <1>1, <1>2 DEF Placed
  <2>2. /\ c \in Sees(M, w) => Grown(A, M, w, t, c, ClientIndexOfCreature(M, w, t, c))
        /\ c \notin Sees(M, w) => Stack(A, w, t) = Stack(M, w, t)
    BY <2>1, <1>1, <1>3, <1>5, BodyGrown
  <2>3. /\ c \in Sees(A, w) => Grown(M, A, w, u, c, ClientIndexOfCreature(A, w, u, c))
        /\ c \notin Sees(A, w) => Stack(M, w, u) = Stack(A, w, u)
    <3>1. /\ M \in MapStates /\ A \in MapStates /\ u \in Tiles /\ c \in Bodies /\ w \in Viewers
          /\ Distinct(A.standing[u]) /\ Stands(A, u, c) /\ SameBut(M, A, w, c)
          /\ M.tops[u] = A.tops[u] /\ M.downs[u] = A.downs[u]
          /\ M.standing[u] = Without(A.standing[u], c)
      BY <2>1, <1>1, <1>3, <1>5
    <3> QED
      BY ONLY <3>1, BodyGrown
  <2> QED
    BY <2>2, <2>3, <1>5
<1>7. \A w \in Viewers, s \in Tiles : s # t /\ s # u => Stack(M, w, s) = Stack(A, w, s)
  BY <1>1, <1>3, <1>5, SameStack
<1>8. \A w \in Viewers : c \in Sees(M, w) <=> CanSeeCreature(M, w, c)
  BY DEF Sees
<1>9. \A w \in Viewers : c \in Sees(M, w) =>
          Kept(A.standing[u], Sees(A, w)) = <<c>> \o Kept(M.standing[u], Sees(M, w))
  <2>1. M.standing[u] \in Seq(Bodies) /\ Distinct(M.standing[u]) /\ c \notin ToSet(M.standing[u])
    BY <1>1, <1>4, MapFields DEF Placed, Stands
  <2>2. \A Q : c \in Q => Kept(Append(M.standing[u], c), Q) = <<c>> \o Kept(M.standing[u], Q)
    BY <2>1, LastBody
  <2> QED
    BY <2>2, <1>3, <1>5
<1>10. ASSUME NEW w \in Viewers, w # c, NEW s \in Tiles, s # t \/ ThingCount(A, t) <= Limit - 2
       PROVE  Right(A, w, s)
  <2>1. SUFFICES ASSUME CanSee(A, w, s) PROVE Right(A, w, s)
    BY DEF Right
  <2>2. /\ InWorld(M, w) <=> InWorld(A, w)
        /\ InWorld(M, w) => TileOf(M, w) = TileOf(A, w)
        /\ CanSee(M, w, s) <=> CanSee(A, w, s)
    <3>1. \A r \in Tiles : Stands(M, r, w) <=> Stands(A, r, w)
      BY <1>10 DEF Alike, Stands
    <3> QED
      BY <3>1, <1>1, <1>2, SameHome
  <2>3. CanSee(M, w, s) /\ CanSee(P, w, s) /\ InWorld(M, w) /\ TileOf(M, w) = TileOf(A, w)
    BY <2>1, <2>2, <1>2 DEF CanSee
  <2>4. Right(M, w, s)
    BY DEF Good
  <2>5. CASE CanSeeCreature(M, w, c)
    <3>1. w \in ToldOf(M, c) /\ c \in Sees(M, w)
      BY <2>3, <2>5, <1>8 DEF ToldOf
    <3>2. /\ Missing(M, w, s) => Missing(A, w, s)
          /\ s = t => A.view[w][s] = Removed(M.view[w][s], ClientIndexOfCreature(M, w, t, c))
          /\ s = u =>
                \/ A.view[w][s] = Arrived(M.view[w][s], c)
                \/ A.view[w][s] = Inserted(M.view[w][s], StackposOfCreature(P, w, u, c), c)
          /\ s # t /\ s # u => A.view[w][s] = M.view[w][s]
      BY <3>1, <2>3, <1>10
    <3>3. KeepsSight(M, A, w, s)
      BY <3>2, <2>3 DEF KeepsSight
    <3>4. CASE s = t
      BY <3>1, <3>2, <3>4, <2>3, <2>4, <1>1, <1>6, <1>10, RightLess
    <3>5. CASE s = u
      <4>1. CASE A.view[w][s] = Arrived(M.view[w][s], c)
        BY <4>1, <3>1, <3>3, <3>5, <2>4, <1>1, <1>3, <1>9, RightArrive
      <4>2. CASE A.view[w][s] = Inserted(M.view[w][s], StackposOfCreature(P, w, u, c), c)
        <5> DEFINE n == ClientIndexOfCreature(A, w, u, c)
        <5>1. StackposOfCreature(P, w, u, c) = Told(n)
          <6>1. \A v : Seen(P, w, v) = Seen(A, w, v)
            BY DEF Seen, CanSeeCreature, Alike
          <6> QED
            BY <6>1 DEF StackposOfCreature, ClientIndexOfCreature, Alike
        <5>2. Grown(M, A, w, u, c, n)
          BY <3>1, <1>6
        <5> HIDE DEF n
        <5> QED
          BY <5>1, <5>2, <4>2, <3>3, <3>5, <2>4, <1>1, RightInsert
      <4> QED
        BY <4>1, <4>2, <3>2, <3>5
    <3>6. CASE s # t /\ s # u
      BY <3>2, <3>3, <3>6, <2>4, <1>7, Same
    <3> QED
      BY <3>4, <3>5, <3>6
  <2>6. CASE ~CanSeeCreature(M, w, c)
    <3>1. w \notin ToldOf(M, c) /\ c \notin Sees(M, w)
      BY <2>6, <1>8 DEF ToldOf
    <3>2. A.view[w][s] = M.view[w][s] /\ (Missing(M, w, s) => Missing(A, w, s))
      BY <3>1
    <3>3. KeepsSight(M, A, w, s)
      BY <3>2, <2>3 DEF KeepsSight
    <3>4. Stack(M, w, s) = Stack(A, w, s)
      BY <3>1, <1>6, <1>7
    <3> QED
      BY <3>2, <3>3, <3>4, <2>4, Same
  <2> QED
    BY <2>5, <2>6
<1>11. ASSUME c \in Viewers, NEW s \in Tiles, s # t \/ ThingCount(A, t) <= Limit - 2
       PROVE  Right(A, c, s)
  <2>1. SUFFICES ASSUME CanSee(A, c, s) PROVE Right(A, c, s)
    BY DEF Right
  <2>2. CanSee(P, c, s)
    BY <2>1, <1>2, <1>11
  <2>3. InWorld(M, c) /\ TileOf(M, c) = t /\ TileOf(A, c) = u
    BY <1>1, <1>2, <1>3, BodyAt
  <2>4. Right(M, c, s)
    BY <1>11 DEF Good
  <2>5. c \in Sees(M, c)
    BY <1>8, <1>11 DEF CanSeeCreature
  <2>6. \/ A.view[c][s] = Described(P, c, s)
        \/ /\ Near(s, t) /\ (Missing(M, c, s) => Missing(A, c, s))
           /\ \/ s = t /\ A.view[c][s] = Removed(M.view[c][s], ClientIndexOfCreature(M, c, t, c))
              \/ s # t /\ s = u /\ A.view[c][s] = Arrived(M.view[c][s], c)
              \/ s # t /\ s # u /\ A.view[c][s] = M.view[c][s]
    BY <2>2, <1>11
  <2>7. CASE A.view[c][s] = Described(P, c, s)
    BY <2>7, <1>11, DescribedRight
  <2>8. ASSUME Near(s, t) PROVE CanSee(M, c, s)
    <3>1. t - s \in -Sight .. Sight
      BY <2>8, TileViewAssumption DEF Near, TileViewAssumption
    <3> QED
      BY <3>1, <2>3 DEF CanSee
  <2>9. CASE /\ Near(s, t) /\ (Missing(M, c, s) => Missing(A, c, s))
             /\ s = t /\ A.view[c][s] = Removed(M.view[c][s], ClientIndexOfCreature(M, c, t, c))
    BY <2>4, <2>5, <2>8, <2>9, <1>1, <1>6, <1>11, RightLess
  <2>10. CASE /\ Near(s, t) /\ (Missing(M, c, s) => Missing(A, c, s))
              /\ s # t /\ s = u /\ A.view[c][s] = Arrived(M.view[c][s], c)
    <3>1. KeepsSight(M, A, c, s)
      BY <2>3, <2>8, <2>10 DEF KeepsSight
    <3> QED
      BY <3>1, <2>4, <2>5, <2>10, <1>1, <1>3, <1>9, <1>11, RightArrive
  <2>11. CASE /\ Near(s, t) /\ (Missing(M, c, s) => Missing(A, c, s))
              /\ s # t /\ s # u /\ A.view[c][s] = M.view[c][s]
    <3>1. KeepsSight(M, A, c, s)
      BY <2>3, <2>8, <2>11 DEF KeepsSight
    <3>2. Stack(M, c, s) = Stack(A, c, s)
      BY <2>11, <1>7, <1>11
    <3> QED
      BY <3>1, <3>2, <2>4, <2>11, Same
  <2> QED
    BY <2>6, <2>7, <2>9, <2>10, <2>11
<1> QED
  BY <1>2, <1>10, <1>11 DEF Nearly

\* The map after a step from t to u, before the tile left is sent again.
Walk(M, t, u, c, teleport) ==
    LET moved == StandsOn(Departs(M, t, c), u, c)
        told == {w \in Viewers : InWorld(M, w) /\ CanSeeCreature(M, w, c)}
        index == [w \in told |-> ClientIndexOfCreature(M, w, t, c)]
        of(w) == IF w = c THEN OwnMove(moved, w, t, u, index[w], teleport)
                 ELSE OtherMove(moved, w, c, t, u, index[w], teleport)
    IN  [moved EXCEPT
           !.view = [w \in Viewers |-> IF w \in told THEN of(w).view[w] ELSE M.view[w]],
           !.missing = {m \in M.missing : m.viewer \in told => m \in of(m.viewer).missing}]

LEMMA Walked ==
    ASSUME NEW M, Good(M), NEW t \in Tiles, NEW u \in Tiles, t # u,
           NEW c \in Bodies, Stands(M, t, c), NEW teleport
    PROVE  Good(PostRemoveNotification(Walk(M, t, u, c, teleport), t))
<1> DEFINE P == StandsOn(Departs(M, t, c), u, c)
           T == {w \in Viewers : InWorld(M, w) /\ CanSeeCreature(M, w, c)}
           index == [w \in T |-> ClientIndexOfCreature(M, w, t, c)]
           of(w) == IF w = c THEN OwnMove(P, w, t, u, index[w], teleport)
                    ELSE OtherMove(P, w, c, t, u, index[w], teleport)
           V == [w \in Viewers |-> IF w \in T THEN of(w).view[w] ELSE M.view[w]]
           L == {m \in M.missing : m.viewer \in T => m \in of(m.viewer).missing}
           A == [P EXCEPT !.view = V, !.missing = L]
<1>1. Placed(M) /\ M \in MapStates /\ c \in Things
  BY DEF Good, Placed, Things
<1>2. /\ P \in MapStates /\ Placed(P)
      /\ P.tops = M.tops /\ P.downs = M.downs /\ P.hidden = M.hidden
      /\ P.view = M.view /\ P.missing = M.missing
      /\ \A s \in Tiles : s # t /\ s # u => P.standing[s] = M.standing[s]
      /\ P.standing[t] = Without(M.standing[t], c)
      /\ P.standing[u] = Append(M.standing[u], c)
      /\ M.standing[u] = Without(P.standing[u], c)
      /\ \A s \in Tiles : \A x :
            Stands(P, s, x) <=> (Stands(M, s, x) /\ x # c) \/ (s = u /\ x = c)
  BY <1>1, MovedIs
<1> HIDE DEF P
<1>3. T = ToldOf(M, c) /\ T \subseteq Viewers
  BY DEF ToldOf
<1>4. \A w \in T : index[w] = ClientIndexOfCreature(M, w, t, c)
  OBVIOUS
<1>5. c \in Viewers => c \in T
  BY <1>1, BodyAt DEF CanSeeCreature
<1>6. \A w \in T : CanSeeCreature(M, w, c)
  OBVIOUS
<1> HIDE DEF T, index
<1>7. \A w \in T : StackposOfCreature(P, w, u, c) \in Nat
  <2> TAKE w \in T
  <2> w \in Viewers
    BY <1>3
  <2>1. c \in Sees(P, w)
    BY <1>2, <1>6 DEF Sees, CanSeeCreature
  <2>2. SameBut(M, P, w, c)
    BY <1>2 DEF SameBut, Sees, CanSeeCreature
  <2>3. Distinct(P.standing[u]) /\ Stands(P, u, c)
    BY <1>2 DEF Placed
  <2>4. Grown(M, P, w, u, c, ClientIndexOfCreature(P, w, u, c))
    BY <2>1, <2>2, <2>3, <1>1, <1>2, BodyGrown
  <2>5. ClientIndexOfCreature(P, w, u, c) \in Nat
    BY <2>4, <1>1, GrownIs
  <2> QED
    BY <2>5 DEF StackposOfCreature, Told
<1>8. \A w \in T : w # c =>
          /\ of(w).view[w] \in [Tiles -> Seq(Things)] /\ of(w).missing = P.missing
          /\ CanSee(P, w, t) => of(w).view[w][t] = Removed(P.view[w][t], index[w])
          /\ CanSee(P, w, u) =>
                \/ of(w).view[w][u] = Arrived(P.view[w][u], c)
                \/ of(w).view[w][u] = Inserted(P.view[w][u], StackposOfCreature(P, w, u, c), c)
          /\ \A s \in Tiles : s # t /\ s # u => of(w).view[w][s] = P.view[w][s]
  <2> SUFFICES ASSUME NEW w \in T, w # c
      PROVE  LET O == OtherMove(P, w, c, t, u, index[w], teleport)
             IN  /\ O.view[w] \in [Tiles -> Seq(Things)] /\ O.missing = P.missing
                 /\ CanSee(P, w, t) => O.view[w][t] = Removed(P.view[w][t], index[w])
                 /\ CanSee(P, w, u) =>
                       \/ O.view[w][u] = Arrived(P.view[w][u], c)
                       \/ O.view[w][u] = Inserted(P.view[w][u], StackposOfCreature(P, w, u, c), c)
                 /\ \A s \in Tiles : s # t /\ s # u => O.view[w][s] = P.view[w][s]
    OBVIOUS
  <2>1. StackposOfCreature(P, w, u, c) \in Nat /\ w \in Viewers
    BY <1>3, <1>7
  <2> QED
    BY <2>1, <1>2, OtherMoveIs
<1>9. c \in Viewers =>
          /\ of(c).view[c] \in [Tiles -> Seq(Things)]
          /\ \A s \in Tiles : CanSee(P, c, s) =>
                \/ of(c).view[c][s] = Described(P, c, s)
                \/ /\ Near(s, t) /\ (Missing(P, c, s) => Missing(of(c), c, s))
                   /\ \/ s = t /\ of(c).view[c][s] = Removed(P.view[c][s], index[c])
                      \/ s # t /\ s = u /\ of(c).view[c][s] = Arrived(P.view[c][s], c)
                      \/ s # t /\ s # u /\ of(c).view[c][s] = P.view[c][s]
  <2> SUFFICES ASSUME c \in Viewers
      PROVE  LET O == OwnMove(P, c, t, u, index[c], teleport)
             IN  /\ O.view[c] \in [Tiles -> Seq(Things)]
                 /\ \A s \in Tiles : CanSee(P, c, s) =>
                       \/ O.view[c][s] = Described(P, c, s)
                       \/ /\ Near(s, t) /\ (Missing(P, c, s) => Missing(O, c, s))
                          /\ \/ s = t /\ O.view[c][s] = Removed(P.view[c][s], index[c])
                             \/ s # t /\ s = u /\ O.view[c][s] = Arrived(P.view[c][s], c)
                             \/ s # t /\ s # u /\ O.view[c][s] = P.view[c][s]
    OBVIOUS
  <2> QED
    BY <1>2, OwnMoveIs
<1> HIDE DEF of
<1>10. V \in [Viewers -> [Tiles -> Seq(Things)]]
  <2> SUFFICES ASSUME NEW w \in Viewers
      PROVE  (IF w \in T THEN of(w).view[w] ELSE M.view[w]) \in [Tiles -> Seq(Things)]
    OBVIOUS
  <2>1. M.view[w] \in [Tiles -> Seq(Things)]
    BY <1>1 DEF MapStates
  <2> QED
    BY <2>1, <1>8, <1>9
<1>11. L \subseteq M.missing /\ L \in SUBSET Pairs
  BY <1>1 DEF MapStates
<1>12. \A w \in T : V[w] = of(w).view[w]
  BY <1>3
<1>13. \A w \in Viewers : w \notin T => V[w] = M.view[w]
  OBVIOUS
<1>14. \A w \in Viewers, s \in Tiles :
          Missing(M, w, s) /\ (w \in T => Missing(of(w), w, s)) => [viewer |-> w, tile |-> s] \in L
  BY DEF Missing
<1> HIDE DEF V, L
<1>15. /\ A \in MapStates /\ Alike(P, A) /\ A.view = V /\ A.missing = L
  <2>1. /\ A.view = V /\ A.missing = L /\ A.tops = P.tops /\ A.standing = P.standing
        /\ A.downs = P.downs /\ A.hidden = P.hidden
    BY <1>2 DEF MapStates
  <2>2. A \in MapStates
    BY <1>2, <1>10, <1>11 DEF MapStates
  <2> QED
    BY <2>1, <2>2 DEF Alike
<1> HIDE DEF A
<1>16. \A w \in Viewers, s \in Tiles : w \notin ToldOf(M, c) =>
           A.view[w][s] = M.view[w][s] /\ (Missing(M, w, s) => Missing(A, w, s))
  BY <1>3, <1>13, <1>14, <1>15 DEF Missing
<1>17. \A w \in ToldOf(M, c), s \in Tiles : w # c /\ CanSee(P, w, s) =>
           /\ Missing(M, w, s) => Missing(A, w, s)
           /\ s = t => A.view[w][s] = Removed(M.view[w][s], ClientIndexOfCreature(M, w, t, c))
           /\ s = u =>
                 \/ A.view[w][s] = Arrived(M.view[w][s], c)
                 \/ A.view[w][s] = Inserted(M.view[w][s], StackposOfCreature(P, w, u, c), c)
           /\ s # t /\ s # u => A.view[w][s] = M.view[w][s]
  <2> SUFFICES ASSUME NEW w \in T, NEW s \in Tiles, w # c, CanSee(P, w, s)
      PROVE  /\ Missing(M, w, s) => Missing(A, w, s)
             /\ s = t => A.view[w][s] = Removed(M.view[w][s], ClientIndexOfCreature(M, w, t, c))
             /\ s = u =>
                   \/ A.view[w][s] = Arrived(M.view[w][s], c)
                   \/ A.view[w][s] = Inserted(M.view[w][s], StackposOfCreature(P, w, u, c), c)
             /\ s # t /\ s # u => A.view[w][s] = M.view[w][s]
    BY <1>3
  <2>0. w \in Viewers
    BY <1>3
  <2>1. of(w).missing = M.missing
    BY <1>2, <1>8
  <2>2. Missing(M, w, s) => Missing(A, w, s)
    BY <2>0, <2>1, <1>14, <1>15 DEF Missing
  <2>3. A.view[w] = of(w).view[w] /\ P.view = M.view
    BY <1>2, <1>12, <1>15
  <2>4. s = t => A.view[w][s] = Removed(M.view[w][s], ClientIndexOfCreature(M, w, t, c))
    BY <2>3, <1>4, <1>8
  <2>5. s = u =>
            \/ A.view[w][s] = Arrived(M.view[w][s], c)
            \/ A.view[w][s] = Inserted(M.view[w][s], StackposOfCreature(P, w, u, c), c)
    BY <2>3, <1>8
  <2>6. s # t /\ s # u => A.view[w][s] = M.view[w][s]
    BY <2>3, <1>8
  <2> QED
    BY <2>2, <2>4, <2>5, <2>6
<1>18. c \in Viewers => \A s \in Tiles : CanSee(P, c, s) =>
           \/ A.view[c][s] = Described(P, c, s)
           \/ /\ Near(s, t) /\ (Missing(M, c, s) => Missing(A, c, s))
              /\ \/ s = t /\ A.view[c][s] = Removed(M.view[c][s], ClientIndexOfCreature(M, c, t, c))
                 \/ s # t /\ s = u /\ A.view[c][s] = Arrived(M.view[c][s], c)
                 \/ s # t /\ s # u /\ A.view[c][s] = M.view[c][s]
  <2> SUFFICES ASSUME c \in Viewers, NEW s \in Tiles, CanSee(P, c, s)
      PROVE  \/ A.view[c][s] = Described(P, c, s)
             \/ /\ Near(s, t) /\ (Missing(M, c, s) => Missing(A, c, s))
                /\ \/ s = t /\ A.view[c][s] = Removed(M.view[c][s], ClientIndexOfCreature(M, c, t, c))
                   \/ s # t /\ s = u /\ A.view[c][s] = Arrived(M.view[c][s], c)
                   \/ s # t /\ s # u /\ A.view[c][s] = M.view[c][s]
    OBVIOUS
  <2>1. A.view[c] = of(c).view[c] /\ P.view = M.view /\ index[c] = ClientIndexOfCreature(M, c, t, c)
    BY <1>2, <1>4, <1>5, <1>12, <1>15
  <2>2. Missing(P, c, s) <=> Missing(M, c, s)
    BY <1>2 DEF Missing
  <2>3. Missing(M, c, s) /\ Missing(of(c), c, s) => Missing(A, c, s)
    BY <1>14, <1>15 DEF Missing
  <2> QED
    BY <2>1, <2>2, <2>3, <1>9
<1>19. Nearly(A, t)
  <2>1. A \in MapStates /\ Placed(P) /\ Alike(P, A)
    BY <1>2, <1>15
  <2>2. Moved(M, P, t, u, c)
    BY <1>2 DEF Moved
  <2>3. OthersShow(M, P, A, t, u, c)
    BY <1>16, <1>17 DEF OthersShow
  <2>4. OwnShows(M, P, A, t, u, c)
    BY <1>18 DEF OwnShows
  <2> QED
    BY <2>1, <2>2, <2>3, <2>4, NearlyAfterStep
<1>20. Good(PostRemoveNotification(A, t))
  BY <1>19, Notified
<1>21. A = Walk(M, t, u, c, teleport)
  BY DEF Walk, A, V, L, of, index, T, P
<1> QED
  BY <1>20, <1>21

-----------------------------------------------------------------------------
(* The steps.                                                              *)
LEMMA BecomesIs ==
    ASSUME NEW M \in MapStates, Becomes(M)
    PROVE  Map' = M
<1>1. M = [tops |-> M.tops, standing |-> M.standing, downs |-> M.downs,
           hidden |-> M.hidden, view |-> M.view, missing |-> M.missing]
  BY DEF MapStates
<1> QED
  BY <1>1 DEF Becomes, Map

LEMMA BecomesGood ==
    ASSUME NEW M, Good(M), Becomes(M)
    PROVE  TileViewInv'
<1>1. Map' = M
  BY BecomesIs DEF Good, Placed
<1>2. Good(Map')
  BY <1>1
<1> QED
  BY <1>2 DEF TileViewInv, Good, Placed, Right, MapStates, Stands, Shows, Pairs

LEMMA HomeIs ==
    ASSUME NEW x, InWorld(Map, x)
    PROVE  TileOf(Map, x) \in Tiles /\ OnTile(Map, TileOf(Map, x), x)
  BY DEF InWorld, TilesOf, TileOf

LEMMA AddItemGood ==
    ASSUME TileViewInv, NEW t \in Tiles, NEW i \in TopItems \cup DownItems, AddItem(t, i)
    PROVE  TileViewInv'
<1>1. Good(Map) /\ Map \in MapStates
  BY DEF TileViewInv, Good, Placed
<1>2. ~OnTile(Map, t, i)
  BY DEF AddItem, InWorld, TilesOf
<1>3. ~ItemOn(Map, t, i)
  BY <1>1, <1>2, OnTileIs DEF ItemOn
<1>4. Good(AddThing(Map, t, i))
  BY <1>1, <1>3, ThingAdded
<1> QED
  BY <1>4, BecomesGood DEF AddItem

LEMMA ItemAt ==
    ASSUME TileViewInv, NEW i \in TopItems \cup DownItems, InWorld(Map, i)
    PROVE  /\ Good(Map) /\ Map \in MapStates
           /\ TileOf(Map, i) \in Tiles /\ ItemOn(Map, TileOf(Map, i), i)
<1>1. Good(Map) /\ Map \in MapStates
  BY DEF TileViewInv, Good, Placed
<1>2. TileOf(Map, i) \in Tiles /\ OnTile(Map, TileOf(Map, i), i)
  BY HomeIs
<1>3. i \in ToSet(Map.tops[TileOf(Map, i)]) \/ i \in ToSet(Map.downs[TileOf(Map, i)])
  BY <1>1, <1>2, OnTileIs
<1> QED
  BY <1>1, <1>2, <1>3 DEF ItemOn

LEMMA RemoveItemGood ==
    ASSUME TileViewInv, NEW i \in TopItems \cup DownItems, RemoveItem(i)
    PROVE  TileViewInv'
<1> DEFINE t == TileOf(Map, i)
<1>1. Good(Map) /\ t \in Tiles /\ ItemOn(Map, t, i)
  BY ItemAt DEF RemoveItem
<1>2. Becomes(PostRemoveNotification(RemoveThing(Map, t, i), t))
  BY DEF RemoveItem
<1> HIDE DEF t
<1>3. Good(PostRemoveNotification(RemoveThing(Map, t, i), t))
  BY <1>1, ThingGone
<1> QED
  BY <1>2, <1>3, BecomesGood

LEMMA TransformItemGood ==
    ASSUME TileViewInv, NEW i \in TopItems \cup DownItems, NEW j \in TopItems \cup DownItems,
           TransformItem(i, j)
    PROVE  TileViewInv'
<1> DEFINE t == TileOf(Map, i)
<1>1. Good(Map) /\ Map \in MapStates /\ t \in Tiles /\ ItemOn(Map, t, i)
  BY ItemAt DEF TransformItem
<1>2. /\ Becomes(PostRemoveNotification(ReplaceThing(Map, t, i, j), t))
      /\ i \in TopItems <=> j \in TopItems
      /\ ~InWorld(Map, j)
  BY DEF TransformItem
<1> HIDE DEF t
<1>3. ~OnTile(Map, t, j)
  BY <1>1, <1>2 DEF InWorld, TilesOf
<1>4. ~ItemOn(Map, t, j)
  BY <1>1, <1>3, OnTileIs DEF ItemOn
<1>5. Good(ReplaceThing(Map, t, i, j))
  BY <1>1, <1>2, <1>4, ThingReplaced
<1>6. Nearly(ReplaceThing(Map, t, i, j), t)
  BY <1>5 DEF Good, Nearly
<1>7. Good(PostRemoveNotification(ReplaceThing(Map, t, i, j), t))
  BY <1>1, <1>6, Notified
<1> QED
  BY <1>2, <1>7, BecomesGood

LEMMA PlaceCreatureGood ==
    ASSUME TileViewInv, NEW c \in Bodies, NEW t \in Tiles, PlaceCreature(c, t)
    PROVE  TileViewInv'
<1> DEFINE N == SendAddCreature(StandsOn(Map, t, c), t, c, Viewers \ {c})
           G == IF c \in Viewers THEN SendMapDescription(N, c) ELSE N
<1>1. Good(Map) /\ ~InWorld(Map, c)
  BY DEF TileViewInv, PlaceCreature
<1>2. Good(G)
  BY <1>1, Came
<1>3. Becomes(G)
  BY DEF PlaceCreature
<1> HIDE DEF G
<1> QED
  BY <1>2, <1>3, BecomesGood

LEMMA CreatureAt ==
    ASSUME TileViewInv, NEW c \in Bodies, InWorld(Map, c)
    PROVE  /\ Good(Map) /\ Map.view = view /\ Map.missing = missing /\ Map.hidden = hidden
           /\ TileOf(Map, c) \in Tiles /\ Stands(Map, TileOf(Map, c), c)
<1>1. Good(Map) /\ Placed(Map)
  BY DEF TileViewInv, Good
<1>2. TileOf(Map, c) \in Tiles /\ Stands(Map, TileOf(Map, c), c)
  BY <1>1, BodyAt
<1>3. Map.view = view /\ Map.missing = missing /\ Map.hidden = hidden
  BY DEF Map
<1> QED
  BY <1>1, <1>2, <1>3

LEMMA RemoveCreatureGood ==
    ASSUME TileViewInv, NEW c \in Bodies, RemoveCreature(c)
    PROVE  TileViewInv'
<1> DEFINE t == TileOf(Map, c)
           P == Vanished(Map, t, c)
           G == PostRemoveNotification(P, t)
           R == IF c \in Viewers
                THEN [G EXCEPT !.view[c] = [u \in Tiles |-> <<>>],
                               !.missing = {m \in G.missing : m.viewer # c}]
                ELSE G
<1>1. Good(Map) /\ Map.view = view /\ t \in Tiles /\ Stands(Map, t, c)
  BY CreatureAt DEF RemoveCreature
<1>2. Becomes(R)
  BY <1>1 DEF RemoveCreature, Vanished, Send
<1> HIDE DEF t
<1>3. Nearly(P, t) /\ \A s \in Tiles : ~Stands(P, s, c)
  BY <1>1, NearlyAfterGone
<1> HIDE DEF P
<1>4. Good(R)
  BY <1>1, <1>3, ForgottenAfter
<1> HIDE DEF R
<1> QED
  BY <1>2, <1>4, BecomesGood

LEMMA MoveCreatureGood ==
    ASSUME TileViewInv, NEW c \in Bodies, NEW u \in Tiles, NEW forced \in BOOLEAN,
           MoveCreature(c, u, forced)
    PROVE  TileViewInv'
<1> DEFINE t == TileOf(Map, c)
           teleport == forced \/ u - t \notin {-1, 1}
           N == PostRemoveNotification(Walk(Map, t, u, c, teleport), t)
<1>1. /\ Good(Map) /\ Map.view = view /\ Map.missing = missing
      /\ t \in Tiles /\ Stands(Map, t, c) /\ t # u
  BY CreatureAt DEF MoveCreature
<1>2. Becomes(N)
  BY <1>1 DEF MoveCreature, Walk
<1> HIDE DEF t, teleport
<1>3. Good(N)
  BY <1>1, Walked
<1> HIDE DEF N
<1> QED
  BY <1>2, <1>3, BecomesGood

LEMMA HideGood ==
    ASSUME TileViewInv, NEW c \in Bodies, Hide(c)
    PROVE  TileViewInv'
<1> DEFINE t == TileOf(Map, c)
           blind == {w \in Viewers \ (Sensing \cup {c}) : CanSee(Map, w, t)}
           sent == Send(Map, t, LAMBDA w :
                       IF w \in blind THEN Removed(Map.view[w][t], StackposOfCreature(Map, w, t, c))
                       ELSE Map.view[w][t])
           G == [sent EXCEPT
                   !.hidden = @ \cup {c},
                   !.missing = Map.missing \cup {[viewer |-> w, tile |-> t] :
                                   w \in {v \in blind : Len(Stack(Map, v, t)) > Limit}}]
<1>1. /\ Good(Map) /\ Map.view = view /\ Map.missing = missing
      /\ t \in Tiles /\ Stands(Map, t, c) /\ c \notin Map.hidden
  BY CreatureAt DEF Hide
<1>2. Becomes(G)
  BY <1>1 DEF Hide, Send
<1> HIDE DEF t
<1>3. Good(G)
  BY <1>1, HiddenWell
<1> HIDE DEF G
<1> QED
  BY <1>2, <1>3, BecomesGood

LEMMA ShowGood ==
    ASSUME TileViewInv, NEW c \in Bodies, Show(c)
    PROVE  TileViewInv'
<1> DEFINE t == TileOf(Map, c)
           G == SendAddCreature([Map EXCEPT !.hidden = @ \ {c}], t, c, Viewers \ (Sensing \cup {c}))
<1>1. Good(Map) /\ t \in Tiles /\ Stands(Map, t, c) /\ c \in Map.hidden
  BY CreatureAt DEF Show
<1>2. Becomes(G)
  BY DEF Show
<1> HIDE DEF t
<1>3. Good(G)
  BY <1>1, Shown
<1> HIDE DEF G
<1> QED
  BY <1>2, <1>3, BecomesGood

LEMMA ReconnectGood ==
    ASSUME TileViewInv, NEW w \in Viewers, Reconnect(w)
    PROVE  TileViewInv'
<1>1. Good(Map)
  BY DEF TileViewInv
<1>2. Good(SendMapDescription(Map, w))
  BY <1>1, MapDescribed DEF Good
<1> QED
  BY <1>2, BecomesGood DEF Reconnect

LEMMA TileViewInitGood == TileViewInit => TileViewInv
<1> SUFFICES ASSUME TileViewInit PROVE Good(Map)
  BY DEF TileViewInv
<1>1. /\ Map.tops = [t \in Tiles |-> <<>>] /\ Map.standing = [t \in Tiles |-> <<>>]
      /\ Map.downs = [t \in Tiles |-> <<>>] /\ Map.hidden = {} /\ Map.missing = {}
      /\ Map.view = [w \in Viewers |-> [t \in Tiles |-> <<>>]]
  BY DEF TileViewInit, Map
<1>2. Map \in MapStates
  <2>1. \A S : <<>> \in Seq(S)
    OBVIOUS
  <2>2. Map = [tops |-> Map.tops, standing |-> Map.standing, downs |-> Map.downs,
               hidden |-> Map.hidden, view |-> Map.view, missing |-> Map.missing]
    BY DEF Map
  <2>3. /\ Map.tops \in [Tiles -> Seq(TopItems)] /\ Map.standing \in [Tiles -> Seq(Bodies)]
        /\ Map.downs \in [Tiles -> Seq(DownItems)]
    BY <1>1, <2>1
  <2>4. Map.view \in [Viewers -> [Tiles -> Seq(Things)]]
    BY <1>1, <2>1
  <2> HIDE DEF Map
  <2> QED
    BY <1>1, <2>2, <2>3, <2>4 DEF MapStates
<1> HIDE DEF Map
<1>3. Distinct(<<>>) /\ \A x : x \notin ToSet(<<>>)
  BY DEF Distinct, ToSet
<1>4. \A t \in Tiles : Map.tops[t] = <<>> /\ Map.standing[t] = <<>> /\ Map.downs[t] = <<>>
  BY <1>1
<1>5. \A t \in Tiles : \A c : ~Stands(Map, t, c)
  BY <1>3, <1>4 DEF Stands
<1>6. Placed(Map)
  BY <1>1, <1>2, <1>3, <1>4, <1>5 DEF Placed
<1>7. \A w \in Viewers : ~InWorld(Map, w)
  BY <1>5, <1>6, BodyAt DEF Bodies
<1> QED
  BY <1>6, <1>7 DEF Good, Right, CanSee

LEMMA TileViewNextGood == TileViewInv /\ [TileViewNext]_tileVars => TileViewInv'
<1> SUFFICES ASSUME TileViewInv, [TileViewNext]_tileVars PROVE TileViewInv'
  OBVIOUS
<1>1. CASE \E t \in Tiles, i \in TopItems \cup DownItems : AddItem(t, i)
  BY <1>1, AddItemGood
<1>2. CASE \E i \in TopItems \cup DownItems : RemoveItem(i)
  BY <1>2, RemoveItemGood
<1>3. CASE \E i, j \in TopItems \cup DownItems : TransformItem(i, j)
  BY <1>3, TransformItemGood
<1>4. CASE \E c \in Bodies, t \in Tiles : PlaceCreature(c, t)
  BY <1>4, PlaceCreatureGood
<1>5. CASE \E c \in Bodies : RemoveCreature(c)
  BY <1>5, RemoveCreatureGood
<1>6. CASE \E c \in Bodies, t \in Tiles, forced \in BOOLEAN : MoveCreature(c, t, forced)
  BY <1>6, MoveCreatureGood
<1>7. CASE \E c \in Beasts \cup Sensing : Hide(c) \/ Show(c)
  <2>1. Beasts \cup Sensing \subseteq Bodies
    BY TileViewAssumption DEF TileViewAssumption, Bodies
  <2> QED
    BY <1>7, <2>1, HideGood, ShowGood
<1>8. CASE \E w \in Viewers : Reconnect(w)
  BY <1>8, ReconnectGood
<1>9. CASE UNCHANGED tileVars
  <2>1. Map' = Map
    BY <1>9 DEF tileVars, Map
  <2>2. Good(Map')
    BY <2>1 DEF TileViewInv
  <2> QED
    BY <2>2 DEF TileViewInv, Good, Placed, Right, MapStates, Stands, Shows, Pairs
<1> QED
  BY <1>1, <1>2, <1>3, <1>4, <1>5, <1>6, <1>7, <1>8, <1>9 DEF TileViewNext

LEMMA TileViewInvExact == TileViewInv => ViewsExact
<1> SUFFICES ASSUME TileViewInv, NEW w \in Viewers, NEW t \in Tiles,
                    CanSee(Map, w, t), [viewer |-> w, tile |-> t] \notin missing
    PROVE  \/ view[w][t] = Cut(Stack(Map, w, t))
           \/ TileOf(Map, w) = t /\ w \notin Exact /\ Len(Stack(Map, w, t)) > Limit
  BY DEF ViewsExact
<1>1. Right(Map, w, t)
  BY DEF TileViewInv, Good
<1>2. Map.view = view /\ Map.missing = missing
  BY DEF Map
<1> QED
  BY <1>1, <1>2 DEF Right, Shows

\* Every list of a tile is one of distinct things, a creature stands on one tile at
\* most, and every client shows each tile as TileViewInv says: kept by items that
\* are added, removed or transformed (Tile::addThing, removeThing, replaceThing),
\* and by creatures that come, go, move, hide and appear.
THEOREM TilesInvariant == TileViewSpec => []TileViewInv
<1> QED
  BY TileViewInitGood, TileViewNextGood, PTL DEF TileViewSpec

\* A client shows a tile as it is, up to Limit things: what Tile::getStackposOfItem and
\* getStackposOfCreature tell it names the things that were meant, and every thing
\* that comes into view is sent by Tile::postRemoveNotification.
THEOREM ViewsStayExact == TileViewSpec => []ViewsExact
<1> QED
  BY TilesInvariant, TileViewInvExact, PTL
=============================================================================
