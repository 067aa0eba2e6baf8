--------------------------- MODULE AnnotationStore --------------------------
(***************************************************************************)
(* The annotations of a session (qtrace-store): an SQLite database that    *)
(* every command of the service opens, uses for one transaction and closes *)
(* (annotations.rs), through a VFS that works on held descriptors and      *)
(* proves at every call that the names are still bound to them             *)
(* (annotation_vfs.rs).  SQLite is external: the calls it makes on the VFS *)
(* are modelled, with the write-ahead log as the last committed content.   *)
(*                                                                         *)
(* The database is in "main"; "wal" and "journal" are its sidecars.  What  *)
(* is deleted is renamed into quarantine, where it stays.  A file has its  *)
(* content and the content of its last fsync; `disk` holds what the names  *)
(* may be after a power loss.                                              *)
(***************************************************************************)
EXTENDS Integers, Sequences, FiniteSets

CONSTANTS
    Stores,          \* commands that may run at a time
    Process,         \* the processes they may be in: functions on Stores
    MAX_QUARANTINES,
    MaxOps,          \* bound: commands
    MaxFaults        \* bound: cancellations, crashes and replaced databases

AnnotationAssumption ==
    MAX_QUARANTINES \in Nat /\ MaxOps \in Nat /\ MaxFaults \in Nat

VARIABLES
    names,       \* the file of each leaf; 0 is none
    quarantine,  \* how many files are in quarantine
    disk,        \* what the names may be on the disk
    files,       \* files by number
    flocks,      \* POSIX locks: file to process
    owners,      \* PROCESS_LOCKS of each process: file to store
    store,       \* the commands under way
    process,     \* the process of each command
    truth,       \* history: the comments that a reader may find
    ops, faults

vars == <<names, quarantine, disk, files, flocks, owners, store, process,
          truth, ops, faults>>

CURRENT_SCHEMA == 3
Nothing == [schema |-> -1, row |-> 0]      \* of a file that is empty
NoTables == [schema |-> 0, row |-> 0]
Leaves == {"main", "wal", "journal"}
Idle == [at |-> "idle", row |-> 0, expected |-> 0, main |-> 0, wal |-> 0,
         mainDir |-> FALSE, walDir |-> FALSE, persist |-> FALSE, seen |-> Nothing]

NewFile(content) == [content |-> content, stable |-> content]

Init ==
    /\ \/ names = [l \in Leaves |-> 0] /\ files = <<>> /\ truth = {0}
       \/ \E schema \in 1..CURRENT_SCHEMA, row \in {0, 1} :
              /\ schema = 1 => row = 0
              /\ names = [l \in Leaves |-> IF l = "main" THEN 1 ELSE 0]
              /\ files = <<NewFile([schema |-> schema, row |-> row])>>
              /\ truth = {row}
    /\ quarantine = 0 /\ disk = {names} /\ flocks = <<>>
    /\ process \in Process
    /\ owners = [p \in {process[s] : s \in Stores} |-> <<>>]
    /\ store = [s \in Stores |-> Idle] /\ ops = 0 /\ faults = 0
-----------------------------------------------------------------------------
At(s, place) == store[s].at = place
Goes(s, place) == store' = [store EXCEPT ![s].at = place]
Without(f, x) == [y \in DOMAIN f \ {x} |-> f[y]]
With(f, x, value) == [y \in DOMAIN f \union {x} |-> IF y = x THEN value ELSE f[y]]
Fault == faults < MaxFaults /\ faults' = faults + 1

(* verify_file: the name is still that of the held file.                   *)
VerifyFile(s, leaf) == names[leaf] = store[s][leaf]

(* DescriptorVfs::verify_bindings: of every file that was opened.          *)
VerifyBindings(s) ==
    \A leaf \in {"main", "wal"} : store[s][leaf] # 0 => names[leaf] = store[s][leaf]

Binds(leaf, file) ==
    /\ names' = [names EXCEPT ![leaf] = file]
    /\ disk' = disk \union {names'}

SyncsNames == disk' = {names}

(* What a connection reads: the log if it holds anything, else the         *)
(* database.                                                               *)
Content(s) == IF files[store[s].wal].content # Nothing THEN files[store[s].wal].content
              ELSE files[store[s].main].content

(* xClose of the descriptors a command holds.  The process gives up its    *)
(* POSIX lock on the database, whichever command has taken it.             *)
Closes(s) ==
    LET main == store[s].main
        p == process[s]
        owner == main \in DOMAIN owners[p] /\ owners[p][main] = s
    IN  /\ flocks' = IF main \in DOMAIN flocks /\ flocks[main] = p
                     THEN Without(flocks, main) ELSE flocks
        /\ owners' = IF owner THEN [owners EXCEPT ![p] = Without(@, main)] ELSE owners
        /\ store' = [store EXCEPT ![s] = Idle]

Fails(s) == Closes(s) /\ UNCHANGED <<names, quarantine, disk, files>>
-----------------------------------------------------------------------------
(* AnnotationStore::open_guarded: inspect_database_leaf and                *)
(* open_database_leaf, which starts again when another made the database.  *)
Open(s, row) ==
    /\ At(s, "idle") /\ ops < MaxOps /\ ops' = ops + 1
    /\ store' = [store EXCEPT ![s] = [Idle EXCEPT !.at = "inspect", !.row = row]]
    /\ UNCHANGED <<names, quarantine, disk, files, flocks, owners, process, truth, faults>>

Inspect(s) ==
    /\ At(s, "inspect")
    /\ store' = [store EXCEPT ![s].at = "leaf", ![s].expected = names.main]
    /\ UNCHANGED <<names, quarantine, disk, files, flocks, owners, process, truth, ops, faults>>

OpenLeaf(s) ==
    /\ At(s, "leaf")
    /\ LET main == names.main
           new == Len(files) + 1
       IN  \/ /\ store[s].expected = 0 /\ main = 0
              /\ files' = Append(files, NewFile(Nothing))
              /\ Binds("main", new)
              /\ store' = [store EXCEPT ![s].at = "sidecars", ![s].main = new,
                                        ![s].mainDir = TRUE]
              /\ UNCHANGED <<flocks, owners>>
           \/ /\ store[s].expected = 0 /\ main # 0
              /\ Goes(s, "inspect")
              /\ UNCHANGED <<names, disk, files, flocks, owners>>
           \/ /\ store[s].expected # 0 /\ main = store[s].expected
              /\ store' = [store EXCEPT ![s].at = "sidecars", ![s].main = main]
              /\ UNCHANGED <<names, disk, files, flocks, owners>>
           \/ /\ store[s].expected # 0 /\ main # store[s].expected
              /\ Closes(s) /\ UNCHANGED <<names, disk, files>>
    /\ UNCHANGED <<quarantine, process, truth, ops, faults>>

(* inspect_sidecars and DescriptorVfs::register with inspect_quarantines,  *)
(* then the open of the database with the leaf verified.                   *)
Sidecars(s) ==
    /\ At(s, "sidecars")
    /\ IF quarantine > MAX_QUARANTINES \/ ~VerifyFile(s, "main") THEN Fails(s)
       ELSE Goes(s, "lock") /\ UNCHANGED <<names, quarantine, disk, files, flocks, owners>>
    /\ UNCHANGED <<process, truth, ops, faults>>

(* file_lock with acquire_process_lock: first the table of this process,   *)
(* then the POSIX lock.  A database that is locked is SQLITE_BUSY, and the *)
(* busy timeout of a guarded open is zero.                                 *)
Lock(s) ==
    /\ At(s, "lock")
    /\ LET main == store[s].main
           p == process[s]
           busy == \/ main \in DOMAIN owners[p]
                   \/ main \in DOMAIN flocks /\ flocks[main] # p
       IN  IF busy \/ ~VerifyFile(s, "main") THEN Fails(s)
           ELSE /\ owners' = [owners EXCEPT ![p] = With(@, main, s)]
                /\ flocks' = With(flocks, main, p)
                /\ Goes(s, "recover")
                /\ UNCHANGED <<names, quarantine, disk, files>>
    /\ UNCHANGED <<process, truth, ops, faults>>

(* A journal that a crash left is not played back: file_check_reserved     *)
(* finds the lock of this connection in PROCESS_LOCKS, and SQLite takes    *)
(* the journal for one in use.  A new database gets its first page.        *)
FindJournal(s) ==
    /\ At(s, "recover")
    /\ Goes(s, IF files[store[s].main].content = Nothing THEN "journal" ELSE "wal")
    /\ UNCHANGED <<names, quarantine, disk, files, flocks, owners, process, truth, ops, faults>>

(* PRAGMA journal_mode=WAL of a new database: its first page is written    *)
(* under a rollback journal, which is synced as created.                   *)
CreateJournal(s) ==
    /\ At(s, "journal")
    /\ IF names.journal # 0 THEN SyncsNames /\ UNCHANGED <<names, files>>
       ELSE /\ files' = Append(files, NewFile(Nothing))
            /\ names' = [names EXCEPT !.journal = Len(files) + 1]
            /\ disk' = {names'}
    /\ Goes(s, "first")
    /\ UNCHANGED <<quarantine, flocks, owners, process, truth, ops, faults>>

(* file_sync of the database: fsync and, for one that was created, the     *)
(* directory.                                                              *)
FirstPage(s) ==
    /\ At(s, "first")
    /\ IF ~VerifyFile(s, "main") THEN Fails(s)
       ELSE /\ files' = [files EXCEPT ![store[s].main] = NewFile(NoTables)]
            /\ IF store[s].mainDir THEN SyncsNames ELSE UNCHANGED disk
            /\ store' = [store EXCEPT ![s].at = "unjournal", ![s].mainDir = FALSE]
            /\ UNCHANGED <<names, quarantine, flocks, owners>>
    /\ UNCHANGED <<process, truth, ops, faults>>

(* vfs_delete: rename_to_quarantine with the fsync of the directory.       *)
Deletes(leaf) ==
    /\ names' = [names EXCEPT ![leaf] = 0]
    /\ quarantine' = quarantine + 1
    /\ disk' = {names'}

DeleteJournal(s) ==
    /\ At(s, "unjournal")
    /\ IF quarantine >= MAX_QUARANTINES \/ names.journal = 0 THEN Fails(s)
       ELSE Deletes("journal") /\ Goes(s, "wal") /\ UNCHANGED <<files, flocks, owners>>
    /\ UNCHANGED <<process, truth, ops, faults>>

(* open_sidecar of the log; configure_persistent_wal.                      *)
OpenWal(s) ==
    /\ At(s, "wal")
    /\ LET new == Len(files) + 1
           opened == IF names.wal # 0 THEN names.wal ELSE new
       IN  /\ IF names.wal # 0 THEN UNCHANGED <<names, disk, files>>
              ELSE Binds("wal", new) /\ files' = Append(files, NewFile(Nothing))
           /\ store' = [store EXCEPT ![s].at = "migrate", ![s].wal = opened,
                            ![s].walDir = (names.wal = 0), ![s].persist = TRUE]
    /\ UNCHANGED <<quarantine, flocks, owners, process, truth, ops, faults>>

(* The rows of a legacy database are copied into the tables of the current *)
(* schema.                                                                 *)
Migrated(content) ==
    CASE content.schema \in {0, 1} -> [schema |-> CURRENT_SCHEMA, row |-> 0]
      [] content.schema = 2 -> [content EXCEPT !.schema = CURRENT_SCHEMA]
      [] OTHER -> content

(* A transaction is written to the log: file_write, with the file verified *)
(* before and after.  Then file_sync, again verified before and after: the *)
(* transaction is committed.                                               *)
Writes(s, content, next) ==
    IF ~VerifyFile(s, "wal") THEN Fails(s)
    ELSE /\ files' = [files EXCEPT ![store[s].wal].content = content]
         /\ Goes(s, next)
         /\ UNCHANGED <<names, quarantine, disk, flocks, owners>>

(* The commit is acknowledged.  A command that found a log, made by one    *)
(* that failed before it synced its name, does not sync the name either:   *)
(* the comment may be lost until it is carried over (Close).               *)
Acknowledges(s) ==
    truth' = IF ~store[s].walDir /\ \E n \in disk : n.wal # store[s].wal
             THEN truth \union {Content(s).row} ELSE {Content(s).row}

(* Mutation: the directory of a log that was created is not synced.        *)
SyncsFileOnly(s, next) ==
    IF ~VerifyFile(s, "wal") THEN Fails(s)
    ELSE /\ files' = [files EXCEPT ![store[s].wal].stable = files[store[s].wal].content]
         /\ store' = [store EXCEPT ![s].at = next, ![s].seen = Content(s)]
         /\ UNCHANGED <<names, quarantine, disk, flocks, owners>>

Syncs(s, next) ==
    IF ~VerifyFile(s, "wal") THEN Fails(s)
    ELSE /\ files' = [files EXCEPT ![store[s].wal].stable = files[store[s].wal].content]
         /\ IF store[s].walDir THEN SyncsNames ELSE UNCHANGED disk
         /\ store' = [store EXCEPT ![s].at = next, ![s].walDir = FALSE,
                                   ![s].seen = Content(s)]
         /\ UNCHANGED <<names, quarantine, flocks, owners>>

(* migrate: one transaction, which a database of the current schema leaves *)
(* as it is.  Every file_read verifies the database.                       *)
Migrate(s) ==
    /\ At(s, "migrate")
    /\ LET content == Content(s)
       IN  IF ~VerifyFile(s, "main") THEN Fails(s)
           ELSE IF content.schema = CURRENT_SCHEMA
           THEN /\ store' = [store EXCEPT ![s].at = "verify", ![s].seen = content]
                /\ UNCHANGED <<names, quarantine, disk, files, flocks, owners>>
           ELSE Writes(s, Migrated(content), "migrated")
    /\ UNCHANGED <<process, truth, ops, faults>>

SyncMigration(s) ==
    /\ At(s, "migrated") /\ Syncs(s, "verify")
    /\ UNCHANGED <<process, truth, ops, faults>>

(* verify_bindings at the end of the open and before the transaction.      *)
Begin(s) ==
    /\ At(s, "verify")
    /\ IF VerifyBindings(s)
       THEN Goes(s, "open") /\ UNCHANGED <<names, quarantine, disk, files, flocks, owners>>
       ELSE Fails(s)
    /\ UNCHANGED <<process, truth, ops, faults>>

(* put_event_annotation or delete_event_annotation, and commit: each       *)
(* verifies the bindings first.                                            *)
Put(s) ==
    /\ At(s, "open")
    /\ IF VerifyBindings(s)
       THEN /\ Writes(s, [store[s].seen EXCEPT !.row = store[s].row], "written")
            /\ truth' = truth \union {store[s].row}
       ELSE Fails(s) /\ UNCHANGED truth
    /\ UNCHANGED <<process, ops, faults>>

Commit(s) ==
    /\ At(s, "written") /\ Syncs(s, "close")
    /\ IF VerifyFile(s, "wal") THEN Acknowledges(s) ELSE UNCHANGED truth
    /\ UNCHANGED <<process, ops, faults>>

(* A command that reads, or whose transaction is rolled back.              *)
Read(s) ==
    /\ At(s, "open") /\ Goes(s, "close")
    /\ UNCHANGED <<names, quarantine, disk, files, flocks, owners, process, truth, ops, faults>>

(* Connection::close: the log is synced, carried over into the database    *)
(* and, if it is not to stay, deleted; a failure leaves it as it is.       *)
Close(s) ==
    /\ At(s, "close")
    /\ IF ~VerifyFile(s, "main") \/ ~VerifyFile(s, "wal") THEN Fails(s) /\ UNCHANGED truth
       ELSE /\ files' = [files EXCEPT ![store[s].main] = NewFile(Content(s)),
                                      ![store[s].wal] = NewFile(@.content)]
            /\ IF store[s].persist \/ quarantine >= MAX_QUARANTINES
               THEN UNCHANGED <<names, quarantine, disk>> ELSE Deletes("wal")
            /\ truth' = {Content(s).row}
            /\ Closes(s)
    /\ UNCHANGED <<process, ops, faults>>
-----------------------------------------------------------------------------
(* The guard says no before the transaction is written: the command fails. *)
Cancel(s) ==
    /\ store[s].at \in {"inspect", "leaf", "sidecars", "lock", "recover", "migrate",
                        "verify", "open"}
    /\ Fault /\ Fails(s)
    /\ UNCHANGED <<process, truth, ops>>

(* A process dies, with its locks.                                         *)
Crash(p) ==
    /\ \E s \in Stores : process[s] = p /\ ~At(s, "idle")
    /\ Fault
    /\ store' = [s \in Stores |-> IF process[s] = p THEN Idle ELSE store[s]]
    /\ owners' = [owners EXCEPT ![p] = <<>>]
    /\ flocks' = [f \in {g \in DOMAIN flocks : flocks[g] # p} |-> flocks[f]]
    /\ UNCHANGED <<names, quarantine, disk, files, process, truth, ops>>

PowerLoss ==
    /\ Fault
    /\ names' \in disk /\ disk' = {names'}
    /\ files' = [f \in DOMAIN files |-> NewFile(files[f].stable)]
    /\ store' = [s \in Stores |-> Idle]
    /\ owners' = [p \in DOMAIN owners |-> <<>>] /\ flocks' = <<>>
    /\ UNCHANGED <<quarantine, process, truth, ops>>

(* The user puts a copy of the database in its place.                      *)
Replace ==
    /\ names.main # 0 /\ Fault
    /\ files' = Append(files, NewFile([schema |-> CURRENT_SCHEMA, row |-> 0]))
    /\ names' = [l \in Leaves |-> IF l = "main" THEN Len(files) + 1 ELSE 0]
    /\ disk' = {names'} /\ truth' = {0}
    /\ UNCHANGED <<quarantine, flocks, owners, store, process, ops>>

Opens(s) == \/ Inspect(s) \/ OpenLeaf(s) \/ Sidecars(s) \/ Lock(s) \/ FindJournal(s)
            \/ CreateJournal(s) \/ FirstPage(s) \/ DeleteJournal(s) \/ OpenWal(s)
Works(s) == \/ Migrate(s) \/ SyncMigration(s) \/ Begin(s) \/ Put(s) \/ Commit(s)
            \/ Read(s) \/ Close(s)

Next == \/ \E s \in Stores : (\E row \in {0, 2} : Open(s, row)) \/ Opens(s) \/ Works(s)
                            \/ Cancel(s)
        \/ \E p \in DOMAIN owners : Crash(p)
        \/ PowerLoss \/ Replace

Spec == Init /\ [][Next]_vars
-----------------------------------------------------------------------------
(* Whoever opens the annotations finds the last committed comment, of      *)
(* whatever schema it was, or one whose commit failed or was cut off       *)
(* later: no crash, power loss or replaced database makes a command say    *)
(* that it stored what is not there (file_sync, verify_file and migrate).  *)
CommittedIsFound ==
    \A s \in Stores : store[s].at \in {"verify", "open"} /\ VerifyBindings(s)
                          => store[s].seen.row \in truth

(* What is in quarantine is the journal of a new database, of the attempts *)
(* to make it: opening and closing again and again never fills it, and the *)
(* annotations stay open to use (configure_persistent_wal).                *)
QuarantineIsBounded == quarantine <= 1 + faults

(* A database is used by one command at a time, of whichever process:      *)
(* locking_mode=EXCLUSIVE keeps the index of the log in the memory of its  *)
(* only user (acquire_process_lock).                                       *)
Using(s) == store[s].at \notin {"idle", "inspect", "leaf", "sidecars", "lock"}
OneUser == \A s, t \in Stores : s # t /\ Using(s) /\ Using(t)
                                    => store[s].main # store[t].main
=============================================================================
