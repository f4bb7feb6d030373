------------------------------- MODULE Accounts -------------------------------
(***************************************************************************)
(* The accounts of the web API (webapp/server/src/index.ts): registration, *)
(* the recovery keys of the first login, forgotten passwords and their     *)
(* reset.  Every query is a step, requests interleave between two awaits,  *)
(* and a request may be cut off anywhere: the process restarts, or its     *)
(* client has gone before the answer.                                      *)
(*                                                                         *)
(* A recovery key is the login that generated it and its slot; a token is  *)
(* the number of its assignment.  Both stand for their hashes, which are   *)
(* what the table holds.  Passwords are left out: who logs in knows it.    *)
(***************************************************************************)
EXTENDS Integers, FiniteSets, FiniteSetsExt

CONSTANTS
    Emails,
    Calls,     \* requests served at the same time
    Slots,        \* recovery keys of an account, five in the code
    MaxAccount,        \* bound on the accounts
    MaxSecret,    \* bound on the sets of keys and on the tokens ever made
    NoAccount

AccountIds == 1 .. MaxAccount
\* Zero is an empty column: no key, no token.
AccountRow == [email : Emails, initialized : BOOLEAN, keys : [Slots -> 0 .. MaxSecret],
        token : 0 .. MaxSecret, live : BOOLEAN, via : Slots \cup {0}]

ASSUME AccountsAssumption ==
    /\ Slots \subseteq Nat \ {0} /\ MaxAccount \in Nat /\ MaxSecret \in Nat
    /\ NoAccount \notin AccountRow

VARIABLES
    accounts,     \* the table accounts, by id
    call,      \* where each request is
    generated,    \* the number of sets of keys and of tokens made
    issued,
    shown,        \* [account, set of keys] that reached a client
    sent,         \* tokens that reached a client
    origin,       \* history: of each token, the account and the key it came from
    spent,        \* history: those that have completed a reset,
    twice,        \* and those that did it with a token or key already spent
    overlapped,   \* those spent while another request had them in hand
    raced         \* history: e-mails and accounts, whose registrations or first
                  \* logins came between each other's queries

history == <<shown, sent, origin, spent, twice, overlapped, raced>>
accountVars == <<accounts, call, generated, issued, history>>

AccountsUsed == {i \in AccountIds : accounts[i] # NoAccount}
NoCall == [step |-> "idle"]

\* SELECT ... WHERE LOWER(`email`) = LOWER(?) LIMIT 1
WithEmail(e) == {i \in AccountsUsed : accounts[i].email = e}

Origin(n, i, s, k) == [token |-> n, id |-> i, slot |-> s, key |-> k]
\* The same token, or two tokens made from the same key of the same account.
SameSecret(o, q) ==
    \/ o.token = q.token
    \/ o.slot # 0 /\ o.id = q.id /\ o.slot = q.slot /\ o.key = q.key

GoesTo(r, state) == call' = [call EXCEPT ![r] = state]
Answers(r) == GoesTo(r, NoCall)
\* Another request is at this step with this value.
Meanwhile(r, step, field, v) ==
    \E q \in Calls \ {r} : call[q].step = step /\ call[q][field] = v

AccountsInit ==
    /\ accounts = [i \in AccountIds |-> NoAccount]
    /\ call = [r \in Calls |-> NoCall]
    /\ generated = 0 /\ issued = 0
    /\ shown = {} /\ sent = {}
    /\ origin = {} /\ spent = {} /\ twice = {} /\ overlapped = {} /\ raced = {}

-----------------------------------------------------------------------------
(* POST /api/register                                                      *)

\* "Este e-mail já está registado."
Refused(e) == WithEmail(e) # {}
RegisterLooksUp(r, e) ==
    /\ call[r] = NoCall /\ ~Refused(e)
    /\ GoesTo(r, [step |-> "register", email |-> e])
    /\ UNCHANGED <<accounts, generated, issued, history>>

\* LOCK TABLES `accounts` WRITE keeps every other query away until the row is
\* in: MAX(`id`) + 1 and the INSERT are one step.
RegisterInserts(r) ==
    LET e == call[r].email
        id == Max(AccountsUsed \cup {0}) + 1 IN
    /\ call[r].step = "register" /\ id \in AccountIds
    /\ accounts' = [accounts EXCEPT ![id] =
          [email |-> e, initialized |-> FALSE, keys |-> [s \in Slots |-> 0],
           token |-> 0, live |-> FALSE, via |-> 0]]
    /\ raced' = IF Meanwhile(r, "register", "email", e)
                     THEN raced \cup {[email |-> e]} ELSE raced
    /\ Answers(r)
    /\ UNCHANGED <<generated, issued, shown, sent, origin, spent, twice, overlapped>>

-----------------------------------------------------------------------------
(* POST /api/login                                                         *)

\* The first login of an account, as the row read says, generates its keys.
LoginReads(r, i) ==
    /\ call[r] = NoCall /\ i \in AccountsUsed
    /\ ~accounts[i].initialized
    /\ generated < MaxSecret
    /\ generated' = generated + 1
    /\ GoesTo(r, [step |-> "login", id |-> i, keys |-> generated + 1])
    /\ UNCHANGED <<accounts, issued, history>>

KeysStored_unmarked(i, k) ==
    [accounts EXCEPT ![i].keys = [s \in Slots |-> k]]
KeysStored(i, k) ==
    [accounts EXCEPT ![i].keys = [s \in Slots |-> k], ![i].initialized = TRUE]
LoginStores(r) ==
    LET i == call[r].id IN
    /\ call[r].step = "login"
    /\ accounts' = KeysStored(i, call[r].keys)
    /\ raced' = IF Meanwhile(r, "login", "id", i)
                     THEN raced \cup {[id |-> i]} ELSE raced
    /\ GoesTo(r, [call[r] EXCEPT !.step = "login answer"])
    /\ UNCHANGED <<generated, issued, shown, sent, origin, spent, twice, overlapped>>

\* recoveryKeys in the answer, the only time they are shown.
LoginAnswers(r) ==
    /\ call[r].step = "login answer"
    /\ shown' = shown \cup {[id |-> call[r].id, keys |-> call[r].keys]}
    /\ Answers(r)
    /\ UNCHANGED <<accounts, generated, issued, sent, origin, spent, twice, overlapped, raced>>

-----------------------------------------------------------------------------
(* POST /api/forgot-password                                               *)

\* With the e-mail alone: a token that will be mailed.
ForgotReads(r, i) ==
    /\ call[r] = NoCall /\ i \in AccountsUsed
    /\ GoesTo(r, [step |-> "forgot", id |-> i, via |-> 0, secrets |-> {}])
    /\ UNCHANGED <<accounts, generated, issued, history>>

\* With a key that some client was shown: the slot whose hash it matches.
ForgotMatchesKey(r, i, s) ==
    /\ call[r] = NoCall /\ i \in AccountsUsed
    /\ accounts[i].initialized
    /\ [id |-> i, keys |-> accounts[i].keys[s]] \in shown
    /\ GoesTo(r, [step |-> "forgot", id |-> i, via |-> s,
                 secrets |-> {Origin(0, i, s, accounts[i].keys[s])}])
    /\ UNCHANGED <<accounts, generated, issued, history>>

\* assignPasswordResetToken: the last token replaces any other.
ForgotAssigns(r) ==
    LET i == call[r].id IN
    /\ call[r].step = "forgot" /\ issued < MaxSecret
    /\ issued' = issued + 1
    /\ accounts' = [accounts EXCEPT ![i].token = issued + 1, ![i].live = TRUE,
                                    ![i].via = call[r].via]
    /\ origin' = origin \cup
          (IF call[r].via = 0 THEN {Origin(issued + 1, i, 0, 0)}
           ELSE {[o EXCEPT !.token = issued + 1] : o \in call[r].secrets})
    /\ GoesTo(r, [step |-> "forgot answer", token |-> issued + 1])
    /\ UNCHANGED <<generated, shown, sent, spent, twice, overlapped, raced>>

\* The mail, or resetToken in the answer.
ForgotAnswers(r) ==
    /\ call[r].step = "forgot answer"
    /\ sent' = sent \cup {call[r].token}
    /\ Answers(r)
    /\ UNCHANGED <<accounts, generated, issued, shown, origin, spent, twice, overlapped, raced>>

\* `web_pwreset_expires` passes.
TokenExpires(i) ==
    /\ i \in AccountsUsed /\ accounts[i].live
    /\ accounts' = [accounts EXCEPT ![i].live = FALSE]
    /\ UNCHANGED <<call, generated, issued, history>>

-----------------------------------------------------------------------------
(* POST /api/reset-password                                                *)

\* A live token's row and slot are read ...
ResetReads(r, i) ==
    /\ call[r] = NoCall /\ i \in AccountsUsed
    /\ accounts[i].live /\ accounts[i].token \in sent
    /\ GoesTo(r, [step |-> "reset", id |-> i, via |-> accounts[i].via,
                 secrets |-> {q \in origin : q.token = accounts[i].token}])
    /\ UNCHANGED <<accounts, generated, issued, history>>

KeyColumn_kept(i, s) == accounts[i].keys
\* The key the token came from is used up.
KeyColumn(i, s) == [u \in Slots |-> IF u = s THEN 0 ELSE accounts[i].keys[u]]

\* ... and the row is updated by its id, whatever its token is by now.
ResetUpdates(r) ==
    LET i == call[r].id
        spends == call[r].secrets IN
    /\ call[r].step = "reset"
    /\ accounts' = [accounts EXCEPT ![i].token = 0, ![i].live = FALSE, ![i].via = 0,
                                    ![i].keys = KeyColumn(i, call[r].via)]
    /\ spent' = spent \cup spends
    /\ twice' = twice \cup {s \in spends : \E o \in spent : SameSecret(s, o)}
    /\ overlapped' = overlapped \cup
          {s \in spends : \E q \in Calls \ {r} :
                             /\ call[q].step \in {"forgot", "reset"}
                             /\ \E o \in call[q].secrets : SameSecret(s, o)}
    /\ Answers(r)
    /\ UNCHANGED <<generated, issued, shown, sent, origin, raced>>

\* The API restarts, or the connection of the client or of MySQL breaks: what
\* the request has done stays.
CutOff(r) ==
    /\ call[r] # NoCall
    /\ Answers(r)
    /\ UNCHANGED <<accounts, generated, issued, history>>

AccountsNext ==
    \/ \E r \in Calls :
          \/ RegisterInserts(r) \/ LoginStores(r) \/ LoginAnswers(r)
          \/ ForgotAssigns(r) \/ ForgotAnswers(r) \/ ResetUpdates(r) \/ CutOff(r)
          \/ \E e \in Emails : RegisterLooksUp(r, e)
          \/ \E i \in AccountIds : LoginReads(r, i) \/ ForgotReads(r, i) \/ ResetReads(r, i)
          \/ \E i \in AccountIds, s \in Slots : ForgotMatchesKey(r, i, s)
    \/ \E i \in AccountIds : TokenExpires(i)

AccountsSpec == AccountsInit /\ [][AccountsNext]_accountVars
-----------------------------------------------------------------------------
AccountsTypeOK ==
    /\ accounts \in [AccountIds -> AccountRow \cup {NoAccount}]
    /\ shown \in SUBSET [id : AccountIds, keys : 1 .. MaxSecret]
    /\ sent \subseteq 1 .. issued

\* Two accounts have the same e-mail only if one was registered between the
\* look-up and the insertion of the other (index.ts looks the e-mail up before
\* it locks the table), and a client holds recovery keys that are not those of
\* the account only if two first logins overlapped: otherwise the keys it was
\* shown, once, are the ones stored, but for those used up.  A token or a
\* recovery key resets a password twice only if another request had read it
\* before the reset that used it up: the reset updates the row by its id and
\* checks neither again.
TwiceByOverlapOnly ==
    /\ AccountsTypeOK
    /\ \A i, j \in AccountsUsed :
          i # j /\ accounts[i].email = accounts[j].email => [email |-> accounts[i].email] \in raced
    /\ \A h \in shown : [id |-> h.id] \notin raced =>
          \A s \in Slots : accounts[h.id].keys[s] \in {0, h.keys}
    /\ \A s \in twice : \E o \in overlapped : SameSecret(s, o)
=============================================================================
