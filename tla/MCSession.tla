----------------------------- MODULE MCSession ------------------------------
(***************************************************************************)
(* The instances of Session, Accounts and Characters that TLC checks.  A   *)
(* session only reads the account and the character it logs in with; the   *)
(* modules have no state in common, and a behaviour takes the steps of the *)
(* one chosen at its start.  Protocols and players are interchangeable.    *)
(***************************************************************************)
EXTENDS Session, Accounts, Characters, TLC

VARIABLE focus

MCInit ==
    /\ focus \in {"session", "accounts", "characters"}
    /\ Init /\ AccountsInit /\ CharactersInit

MCNext ==
    /\ UNCHANGED focus
    /\ \/ focus = "session" /\ Next /\ UNCHANGED <<accountVars, characterVars>>
       \/ focus = "accounts" /\ AccountsNext /\ UNCHANGED <<vars, characterVars>>
       \/ focus = "characters" /\ CharactersNext /\ UNCHANGED <<vars, accountVars>>

MCSpec == MCInit /\ [][MCNext]_<<vars, accountVars, characterVars, focus>>

Interchangeable == Permutations(Protocols)
=============================================================================
