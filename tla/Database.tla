------------------------------ MODULE Database ------------------------------
(***************************************************************************)
(* The one MySQL handle of the game server (database.h, database.cpp) and  *)
(* what it is shared for: the dispatcher thread saves a player in a        *)
(* transaction (IOLoginData::savePlayer), other threads execute single     *)
(* queries.  A recursive mutex guards the handle, a lost connection is     *)
(* retried until it is back, and rows are inserted in batches that should  *)
(* fit a packet, but may not.                                              *)
(*                                                                         *)
(* The server is external: a connection that breaks rolls its transaction  *)
(* back and reconnects, by itself, outside of any; a statement that is     *)
(* longer than a packet is refused, or ends the connection.  A save writes *)
(* its number, its version, into every row.                                *)
(***************************************************************************)
EXTENDS Integers, Sequences, FiniteSets, SequencesExt

CONSTANTS
    Writers,       \* threads with a single query each
    Tables,        \* sequence: the first is updated, the others are refilled
    Keyed,         \* tables with a unique key: player_items, player_storage
    Untransacted,  \* MyISAM: player_murders
    Rows,          \* rows of a player in a table
    Lengths,       \* of a row
    QueryLength,   \* of "INSERT INTO ... VALUES "
    MaxPacket,     \* Database::maxPacketSize
    MaxSaves, MaxLosses,
    Saver, Free

TableSet == Range(Tables)

ASSUME DatabaseAssumption ==
    /\ Tables \in Seq(TableSet) /\ Len(Tables) > 1 /\ IsInjective(Tables)
    /\ Keyed \subseteq TableSet /\ Untransacted \subseteq TableSet
    /\ Rows \in Nat \ {0} /\ MaxSaves \in Nat /\ MaxLosses \in Nat
    /\ QueryLength \in Nat /\ MaxPacket \in Nat /\ QueryLength <= MaxPacket
    /\ \A l \in Lengths : l \in Nat /\ QueryLength + l <= MaxPacket
    /\ Saver \notin Writers /\ Free \notin Writers \cup {Saver}

VARIABLES
    databaseLock,  \* its holder
    link,          \* the connection to the server
    open,          \* the server has a transaction open for it,
    work, disk,    \* sees this, and has committed that
    writer,        \* where each writer is
    save,          \* where savePlayer is
    saved,         \* history: the version of the last save that returned true
    slipped,       \* history: writers that ran between BEGIN and the lock,
    repeated,      \* writers whose query ran, but whose answer was lost
    torn,          \* history: a save went on after its transaction was lost
    losses         \* of connections, so far

server == <<link, open, work, disk, losses>>
hvars == <<databaseLock, server, writer, save, saved, slipped, repeated, torn>>

RowNumbers == 1 .. Rows
Versions == 0 .. MaxSaves
NoBatch == [rows |-> {}, counted |-> QueryLength, size |-> QueryLength]
Whole(v) == {<<v, i>> : i \in RowNumbers}
InTransaction == save.pc \in {"between", "update", "delete", "rows", "flush", "commit"}

HInit ==
    /\ databaseLock = Free
    /\ link = "up" /\ open = FALSE /\ losses = 0
    /\ disk = [rows |-> [t \in TableSet |-> Whole(0)], count |-> [w \in Writers |-> 0]]
    /\ work = disk
    /\ writer = [w \in Writers |-> "new"]
    /\ save = [pc |-> "idle", version |-> 0, table |-> 1, row |-> 0, batch |-> NoBatch]
    /\ saved = 0
    /\ slipped = {} /\ repeated = {} /\ torn = FALSE

-----------------------------------------------------------------------------
(* The server                                                              *)

\* Outside of a transaction a statement is committed at once; a table that
\* knows none commits it anyway.
Applied(d) ==
    /\ work' = d
    /\ disk' = IF open
               THEN [disk EXCEPT !.rows = [t \in TableSet |->
                        IF t \in Untransacted THEN d.rows[t] ELSE disk.rows[t]]]
               ELSE d

\* The connection is gone, its transaction rolled back.
Broken ==
    /\ losses < MaxLosses /\ losses' = losses + 1
    /\ link' = "down" /\ open' = FALSE

LinkBreaks ==
    /\ link = "up" /\ Broken
    /\ work' = disk
    /\ UNCHANGED <<databaseLock, disk, writer, save, saved, slipped, repeated, torn>>

\* mysql_real_query in the loop of executeQuery and storeQuery: after the
\* errors of a lost connection it is tried again every second, and the client
\* library reconnects.  BEGIN is not sent again.
Reconnects ==
    /\ link = "down" /\ databaseLock # Free
    /\ link' = "up"
    /\ torn' = (torn \/ InTransaction)
    /\ UNCHANGED <<databaseLock, open, work, disk, losses, writer, save, saved, slipped, repeated>>

\* The statement has run, its answer is lost, and it will be sent again.
AnswerLost(d) ==
    /\ link = "up" /\ Broken
    /\ LET kept == IF open THEN [disk EXCEPT !.rows = [t \in TableSet |->
                        IF t \in Untransacted THEN d.rows[t] ELSE disk.rows[t]]]
                   ELSE d
       IN work' = kept /\ disk' = kept

-----------------------------------------------------------------------------
(* Single queries: executeQuery                                            *)

MayLock_always == TRUE
MayLock == databaseLock = Free

WriterLocks(w) ==
    /\ writer[w] = "new" /\ MayLock
    /\ writer' = [writer EXCEPT ![w] = "query"]
    /\ databaseLock' = w
    /\ UNCHANGED <<server, save, saved, slipped, repeated, torn>>

\* As in `balance` = `balance` + n.
Counted(w) == [work EXCEPT !.count[w] = @ + 1]

WriterExecutes(w) ==
    /\ writer[w] = "query" /\ link = "up"
    /\ \/ writer' = [writer EXCEPT ![w] = "true"] /\ Applied(Counted(w))
       \/ writer' = [writer EXCEPT ![w] = "false"] /\ UNCHANGED <<work, disk>>
    /\ slipped' = IF save.pc = "between" THEN slipped \cup {w} ELSE slipped
    /\ databaseLock' = Free
    /\ UNCHANGED <<link, open, losses, save, saved, repeated, torn>>

WriterLosesAnswer(w) ==
    /\ writer[w] = "query"
    /\ AnswerLost(Counted(w))
    /\ repeated' = repeated \cup {w}
    /\ UNCHANGED <<databaseLock, writer, save, saved, slipped, torn>>

-----------------------------------------------------------------------------
(* savePlayer                                                              *)

SaveGoes(pc) == save' = [save EXCEPT !.pc = pc]
KeepWriters == UNCHANGED <<writer, slipped, repeated>>

SaveStarts ==
    /\ save.pc = "idle" /\ save.version < MaxSaves /\ MayLock
    /\ databaseLock' = Saver
    /\ save' = [pc |-> "begin", version |-> save.version + 1, table |-> 1, row |-> 0,
                batch |-> NoBatch]
    /\ KeepWriters /\ UNCHANGED <<server, saved, torn>>

\* beginTransaction(): executeQuery("BEGIN"), which commits what was open, and
\* gives the lock back.
Begins ==
    /\ save.pc = "begin" /\ link = "up"
    /\ open' = TRUE /\ disk' = work
    /\ databaseLock' = Free
    /\ SaveGoes("between")
    /\ KeepWriters /\ UNCHANGED <<link, work, losses, saved, torn>>

\* BEGIN is refused: DBTransaction::begin has set STATE_START all the same, and
\* its destructor rolls back and unlocks without the lock.
BeginFails ==
    /\ save.pc = "begin" /\ link = "up"
    /\ databaseLock' = Free
    /\ SaveGoes("no begin")
    /\ KeepWriters /\ UNCHANGED <<server, saved, torn>>

\* mysql_rollback on a handle another thread may be using leaves it as it was or
\* out of step, which ends the connection; the mutex refuses to be unlocked by
\* a thread that does not hold it.
RollsBackUnlocked ==
    /\ save.pc = "no begin"
    /\ \/ UNCHANGED server
       \/ databaseLock # Free /\ link = "up" /\ Broken /\ work' = disk /\ UNCHANGED disk
    /\ SaveGoes("idle")
    /\ KeepWriters /\ UNCHANGED <<databaseLock, saved, torn>>

\* databaseLock.lock(), after another thread or not.
LocksTransaction ==
    /\ save.pc = "between" /\ MayLock
    /\ databaseLock' = Saver
    /\ SaveGoes("update")
    /\ KeepWriters /\ UNCHANGED <<server, saved, torn>>

Table == Tables[save.table]
NextTable ==
    IF save.table = Len(Tables) THEN [save EXCEPT !.pc = "commit"]
    ELSE [save EXCEPT !.pc = "delete", !.table = @ + 1]

\* A statement of the save: it runs, or runs and is sent again, or fails, after
\* which savePlayer returns false.
Statement(d, next) ==
    /\ databaseLock = Saver
    /\ \/ link = "up" /\ Applied(d) /\ save' = next /\ UNCHANGED <<link, open, losses>>
       \/ AnswerLost(d) /\ UNCHANGED save
       \/ link = "up" /\ SaveGoes("rollback") /\ UNCHANGED server
    /\ KeepWriters /\ UNCHANGED <<databaseLock, saved, torn>>

UpdatesPlayer ==
    /\ save.pc = "update"
    /\ Statement([work EXCEPT !.rows[Table] = Whole(save.version)], NextTable)

DeletesRows ==
    /\ save.pc = "delete"
    /\ Statement([work EXCEPT !.rows[Table] = {}],
                 [save EXCEPT !.pc = "rows", !.row = 1, !.batch = NoBatch])

\* DBInsert::addRow: the length is counted first; the batch is executed if that
\* is too long for a packet, and the count starts again without the new row.
\* What is sent has a comma and two parentheses more for each row.
Batched(b, i, l) ==
    [rows |-> b.rows \cup {i}, counted |-> b.counted + l,
     size |-> b.size + l + (IF b.rows = {} THEN 2 ELSE 3)]
Starts(i, l) == [rows |-> {i}, counted |-> QueryLength, size |-> QueryLength + l + 2]
TooLong_ignored(b, l) == FALSE
TooLong(b, l) == b.counted + l > MaxPacket

Inserted(b) == [work EXCEPT !.rows[Table] = @ \cup {<<save.version, i>> : i \in b.rows}]
Duplicate(b) ==
    Table \in Keyed /\ \E r \in work.rows[Table] : r[2] \in b.rows
Fails ==
    /\ link = "up" /\ SaveGoes("rollback")
    /\ KeepWriters /\ UNCHANGED <<databaseLock, server, saved, torn>>

\* The server ends the connection over a statement it cannot take in; that looks
\* like any lost connection, and the statement will be sent again.
Refused ==
    /\ link = "up" /\ Broken /\ work' = disk
    /\ KeepWriters /\ UNCHANGED <<databaseLock, disk, save, saved, torn>>

Insert(b, next) ==
    IF b.size > MaxPacket THEN Fails \/ Refused
    ELSE IF Duplicate(b) THEN Fails
    ELSE Statement(Inserted(b), next)

AfterRow(b) ==
    [save EXCEPT !.batch = b, !.row = @ + 1,
                 !.pc = IF save.row = Rows THEN "flush" ELSE "rows"]
AddsRow(l) ==
    /\ save.pc = "rows"
    /\ IF TooLong(save.batch, l) /\ save.batch.rows # {}
       THEN Insert(save.batch, AfterRow(Starts(save.row, l)))
       ELSE /\ save' = AfterRow(Batched(save.batch, save.row, l))
            /\ KeepWriters /\ UNCHANGED <<databaseLock, server, saved, torn>>

\* DBInsert::execute, after the last row.
Flushes ==
    /\ save.pc = "flush"
    /\ Insert(save.batch, [NextTable EXCEPT !.batch = NoBatch])

\* commit() unlocks whether it succeeds or not.  It is not tried again: with the
\* connection lost it fails, or, when a new one has been used already, does
\* nothing and succeeds.
Commits ==
    /\ save.pc = "commit"
    /\ \/ /\ link = "up" /\ disk' = work /\ open' = FALSE
          /\ saved' = save.version
          /\ UNCHANGED <<link, work, losses>>
       \/ link = "down" /\ UNCHANGED <<server, saved>>
       \/ /\ link = "down" /\ torn /\ link' = "up"
          /\ saved' = save.version
          /\ UNCHANGED <<open, work, disk, losses>>
       \/ \* Done, but its answer is lost.
          /\ link = "up" /\ Broken /\ disk' = work
          /\ UNCHANGED <<work, saved>>
    /\ databaseLock' = Free
    /\ SaveGoes("idle")
    /\ KeepWriters /\ UNCHANGED torn

RolledBack_not == work' = work /\ UNCHANGED <<open, disk>>
RolledBack == work' = disk /\ open' = FALSE /\ UNCHANGED disk

\* ~DBTransaction, after a statement failed.
RollsBack ==
    /\ save.pc = "rollback"
    /\ RolledBack
    /\ databaseLock' = Free
    /\ SaveGoes("idle")
    /\ KeepWriters /\ UNCHANGED <<link, losses, saved, torn>>

WriterStep(w) == WriterLocks(w) \/ WriterExecutes(w)
SaveStep ==
    \/ SaveStarts \/ Begins \/ BeginFails \/ RollsBackUnlocked \/ LocksTransaction
    \/ UpdatesPlayer \/ DeletesRows \/ (\E l \in Lengths : AddsRow(l))
    \/ Flushes \/ Commits \/ RollsBack

HNext ==
    \/ \E w \in Writers : WriterStep(w) \/ WriterLosesAnswer(w)
    \/ SaveStep
    \/ LinkBreaks
    \/ Reconnects

HSpec == HInit /\ [][HNext]_hvars
-----------------------------------------------------------------------------
HTypeOK ==
    /\ databaseLock \in Writers \cup {Saver, Free}
    /\ \A d \in {work, disk} :
          /\ d.rows \in [TableSet -> SUBSET (Versions \X RowNumbers)]
          /\ d.count \in [Writers -> 0 .. 1 + MaxLosses]
    /\ ~open => work = disk

Separators(rows) == IF rows = {} THEN 0 ELSE 3 * Cardinality(rows) - 1

\* A save is all or nothing: as long as no save went on after its transaction
\* was lost (executeQuery retries on a new connection, outside of it), the
\* transactional tables hold one version, not older than the last save that
\* returned true.  A statement is longer than addRow counted by exactly the row it
\* began with, if another batch went before it, and the commas and parentheses
\* between its rows: what was counted fits a packet, what is sent need not.
SaveTornByRetryOnly ==
    /\ HTypeOK
    /\ ~torn => \E v \in saved .. save.version :
          \A t \in TableSet \ Untransacted : disk.rows[t] = Whole(v)
    /\ \E l \in {0} \cup Lengths :
          save.batch.size = save.batch.counted + l + Separators(save.batch.rows)
    /\ save.batch.counted <= MaxPacket

\* A query that executeQuery reports as done is in the database once, whatever
\* becomes of the transactions of the other threads, unless it ran between
\* their BEGIN and their lock or its first answer was lost.
AcknowledgedOnce ==
    \A w \in Writers : writer[w] = "true" =>
       /\ disk.count[w] = 0 => w \in slipped
       /\ disk.count[w] > 1 => w \in repeated
=============================================================================
