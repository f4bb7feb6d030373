------------------------------ MODULE MCStore -------------------------------
(***************************************************************************)
(* The instances of Database, WorldSave and Decay that TLC checks: the     *)
(* handle to the database, what is saved through it, and what happens to   *)
(* items in memory meanwhile.  The three have no state in common, and a    *)
(* behaviour takes the steps of the one chosen at its start.  One of the   *)
(* world ends when all belongings are torn, or a rent was forgotten and    *)
(* taken again: nothing more is claimed of it, and neither of the two      *)
(* depends on the other.                                                   *)
(***************************************************************************)
EXTENDS Database, WorldSave, Decay, TLC

CONSTANTS corpse, bones, ring, ringOff,     \* kinds of items
          a                                 \* who starts with all belongings

VARIABLE focus

MCTables == <<"players", "murders", "items", "depot">>
MCKinds == {corpse, bones, ring, ringOff}
Time == corpse :> 8 @@ bones :> 8 @@ ring :> 16 @@ ringOff :> 0
To == corpse :> bones @@ bones :> Gone @@ ring :> Gone @@ ringOff :> Stays
Changes == {<<corpse, bones>>, <<ring, ringOff>>, <<ringOff, ring>>}

Claimed == tornItems # Belongings /\ \A p \in Inhabitants : rents[p] < 2

MCInit ==
    /\ focus \in {"handle", "save", "decay"}
    /\ HInit /\ WorldSaveInit /\ DecayInit
    /\ row[a] = Belongings

MCNext ==
    /\ UNCHANGED focus
    /\ \/ focus = "handle" /\ HNext /\ UNCHANGED <<saveVars, decayVars>>
       \/ focus = "save" /\ Claimed /\ WorldSaveNext /\ UNCHANGED <<hvars, decayVars>>
       \/ focus = "decay" /\ DecayNext /\ UNCHANGED <<hvars, saveVars>>

MCSpec == MCInit /\ [][MCNext]_<<hvars, saveVars, decayVars, focus>>

Interchangeable == Permutations(Writers) \cup Permutations(Items)
=============================================================================
