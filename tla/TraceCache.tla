----------------------------- MODULE TraceCache -----------------------------
(***************************************************************************)
(* The index cache of one artifact (qtrace-store): TraceStore::open_or_    *)
(* build looks the cache up, builds and publishes it when there is none    *)
(* that validates, and opens what it published.  Several opens, of one     *)
(* analyzer or of several, share the directory the cache key names.        *)
(*                                                                         *)
(* A directory has the leaves index.qtc (`final`), .publish.lock (`lock`)  *)
(* and random temporary names; a temporary name is the number of the       *)
(* object it was created for.  `disk` holds what a power loss may leave of *)
(* a directory: every state since its last fsync.  The bytes of a cache    *)
(* are its parts, each as written or not.                                  *)
(***************************************************************************)
EXTENDS Integers, Sequences, FiniteSets, FiniteSetsExt

CONSTANTS
    Procs,        \* callers of open_or_build
    MaxOpens,     \* bound: calls
    MaxFaults,    \* bound: cancellations, failed calls, crashes and damage
    Faults        \* the faults of this instance

CacheAssumption == MaxOpens \in Nat /\ MaxFaults \in Nat

VARIABLES
    dirs,     \* directories by number: the leaves, and whether it was removed
    bound,    \* the directory that the cache key names; 0 is none
    disk,     \* per directory, what may be on the disk
    files,    \* objects by number: caches and locks
    flocks,   \* the lock objects that are locked, with their holders
    proc,     \* the callers
    told,     \* history: what failed publications said of their cache
    opens, faults

vars == <<dirs, bound, disk, files, flocks, proc, told, opens, faults>>

Sections == {"event_kinds", "event_keys", "padding", "index"}
Parts == Sections \union {"header", "manifest"}
Removed == [final |-> 0, lock |-> 0, temps |-> <<>>, removed |-> TRUE]
Empty == [Removed EXCEPT !.removed = FALSE]
File(parts, synced, rot) ==
    [parts |-> parts, synced |-> synced, rot |-> rot, stamp |-> 0]
Idle == [at |-> "idle", round |-> "first", dir |-> 0, file |-> 0, stamp |-> 0,
         verdict |-> "none", lock |-> 0, own |-> 0, displaced |-> 0,
         outcome |-> "none"]

Init ==
    /\ \/ /\ bound = 0 /\ dirs = <<>> /\ files = <<>>
       \/ /\ bound = 1 /\ dirs = <<[Empty EXCEPT !.final = 1]>>
          /\ \E lost \in {{}, {"index"}, {"header"}} :
                 files = <<File(Parts \ lost, TRUE, lost # {})>>
    /\ disk = [d \in DOMAIN dirs |-> {dirs[d]}]
    /\ flocks = <<>> /\ proc = [p \in Procs |-> Idle] /\ told = {}
    /\ opens = 0 /\ faults = 0
-----------------------------------------------------------------------------
(* What validate_file says of the bytes: the header and the manifest, then *)
(* the layout, the checksum and the payload of every section and the zero  *)
(* bytes between them (validate_sections), then the rows and the catalog   *)
(* (prepare_sections, decode_sections).                                    *)
ValidHeader(parts) == "header" \in parts
ValidManifest(parts) == "manifest" \in parts
ZeroPadding(parts) == "padding" \in parts
ChecksumSection(parts, section) == section \in parts
ValidateSections(parts) ==
    /\ \A section \in Sections \ {"padding"} : ChecksumSection(parts, section)
    /\ ZeroPadding(parts)
PrepareSections(parts) == {"event_kinds", "event_keys"} \subseteq parts
DecodeSections(parts) == "index" \in parts

ValidateFile(parts) ==
    IF /\ ValidHeader(parts) /\ ValidManifest(parts) /\ ValidateSections(parts)
       /\ PrepareSections(parts) /\ DecodeSections(parts)
    THEN "ready" ELSE "rebuild"

(* probe_identity: a damaged cache is known by its header and manifest.    *)
ProbesAsOwn(parts) == ValidHeader(parts) /\ ValidManifest(parts)

(* CacheDirectory::verify and PublicationLock::verify.                     *)
DirectoryHolds(p) == bound = proc[p].dir
LockHolds(p) == dirs[proc[p].dir].lock = proc[p].lock

(* What the names are bound to; 0 is a name that does not exist.           *)
Named(d, name) == IF name \in DOMAIN dirs[d].temps THEN dirs[d].temps[name] ELSE 0
Without(f, x) == [y \in DOMAIN f \ {x} |-> f[y]]
With(f, x, value) == [y \in DOMAIN f \union {x} |-> IF y = x THEN value ELSE f[y]]
-----------------------------------------------------------------------------
(* Steps of a caller.                                                      *)
At(p, place) == proc[p].at = place
Goes(p, place) == proc' = [proc EXCEPT ![p].at = place]

(* A change of the names of a directory: what is on the disk is any state  *)
(* since the last fsync.  A rename or an unlink changes the stamp of the   *)
(* objects it moves.                                                       *)
Renames(d, states, moved) ==
    /\ dirs' = [dirs EXCEPT ![d] = states[Len(states)]]
    /\ disk' = [disk EXCEPT ![d] = @ \union {states[i] : i \in DOMAIN states}]
    /\ files' = [f \in DOMAIN files |->
                    IF f \in moved THEN [files[f] EXCEPT !.stamp = @ + 1] ELSE files[f]]

Names == <<dirs, disk, files>>
SyncsDirectory(d) == disk' = [disk EXCEPT ![d] = {dirs[d]}]

Unlocked(p) == LET held == {l \in DOMAIN flocks : flocks[l] = p}
               IN  [l \in DOMAIN flocks \ held |-> flocks[l]]

(* A fault of a kind the instance has.                                     *)
Fault(kind) == kind \in Faults /\ faults < MaxFaults /\ faults' = faults + 1
NoFault == faults' = faults

(* open_or_build returns an error.  When the cache this call published     *)
(* could not be opened it is taken back first (remove_published).          *)
Reopening(p) == proc[p].round = "reopen"
Errs(p) ==
    IF Reopening(p) /\ proc[p].outcome = "Published" /\ proc[p].at # "removed"
    THEN proc' = [proc EXCEPT ![p].at = "lock", ![p].round = "remove"]
    ELSE proc' = [proc EXCEPT ![p].at = "failed"]

(* Mutation: the lock is kept by a publication that failed.                *)
PublishErrsLocked(p, state) ==
    /\ proc' = [proc EXCEPT ![p].at = "failed"]
    /\ told' = told \union {[file |-> proc[p].own, state |-> state]}
    /\ UNCHANGED flocks

(* The publication ends in an error that says whether its cache may be     *)
(* visible; the lock is released.                                          *)
PublishErrs(p, state) ==
    /\ proc' = [proc EXCEPT ![p].at = "failed"]
    /\ told' = told \union {[file |-> proc[p].own, state |-> state]}
    /\ flocks' = Unlocked(p)

Uncertain(p) == PublishErrs(p, "VisibleDurabilityUncertain") /\ UNCHANGED Names

(* ... before the temporary was renamed: remove_if_armed.                  *)
TemporaryErrs(p) ==
    LET d == proc[p].dir
        own == proc[p].own
    IN  /\ PublishErrs(p, "NoVisibleFinal")
        /\ IF Named(d, own) = own
           THEN Renames(d, <<[dirs[d] EXCEPT !.temps = Without(@, own)]>>, {own})
           ELSE UNCHANGED Names
-----------------------------------------------------------------------------
(* CacheReader::open.                                                      *)
Start(p) ==
    /\ At(p, "idle") \/ At(p, "failed") \/ At(p, "ready")
    /\ opens < MaxOpens /\ opens' = opens + 1
    /\ proc' = [proc EXCEPT ![p] = [Idle EXCEPT !.at = "lookup"]]
    /\ UNCHANGED <<dirs, bound, disk, files, flocks, told, faults>>

Misses(p) == IF Reopening(p) THEN Errs(p) ELSE Goes(p, "build")

Lookup(p) ==
    /\ At(p, "lookup")
    /\ IF bound = 0 THEN Misses(p)
       ELSE proc' = [proc EXCEPT ![p].at = "open", ![p].dir = bound]
    /\ UNCHANGED <<dirs, bound, disk, files, flocks, told, opens, faults>>

OpenFinal(p) ==
    /\ At(p, "open")
    /\ LET final == dirs[proc[p].dir].final
       IN  IF final = 0 THEN Misses(p)
           ELSE proc' = [proc EXCEPT ![p].at = "validate", ![p].file = final,
                                     ![p].stamp = files[final].stamp]
    /\ UNCHANGED <<dirs, bound, disk, files, flocks, told, opens, faults>>

Validate(p) ==
    /\ At(p, "validate")
    /\ proc' = [proc EXCEPT ![p].at = "verdict",
                            ![p].verdict = ValidateFile(files[proc[p].file].parts)]
    /\ UNCHANGED <<dirs, bound, disk, files, flocks, told, opens, faults>>

Unchanged(p) == files[proc[p].file].stamp = proc[p].stamp

Verdict(p) ==
    /\ At(p, "verdict")
    /\ IF ~DirectoryHolds(p) \/ ~Unchanged(p) THEN Errs(p)
       ELSE IF proc[p].verdict = "ready" THEN Goes(p, "ready") ELSE Misses(p)
    /\ UNCHANGED <<dirs, bound, disk, files, flocks, told, opens, faults>>
-----------------------------------------------------------------------------
(* The index is built (IndexBuilder::build) and the directory is opened    *)
(* (CacheDirectory::open): one that has to be made is made under a         *)
(* temporary name and then given the key, unless another has it by then.   *)
OpenDirectory(p) ==
    /\ At(p, "build")
    /\ IF bound # 0
       THEN /\ proc' = [proc EXCEPT ![p].at = "lock", ![p].dir = bound]
            /\ UNCHANGED <<dirs, disk>>
       ELSE /\ dirs' = Append(dirs, Empty) /\ disk' = Append(disk, {Empty})
            /\ proc' = [proc EXCEPT ![p].at = "name", ![p].dir = Len(dirs) + 1]
    /\ UNCHANGED <<bound, files, flocks, told, opens, faults>>

NameDirectory(p) ==
    /\ At(p, "name")
    /\ IF bound = 0
       THEN bound' = proc[p].dir /\ Goes(p, "lock") /\ UNCHANGED <<dirs, disk>>
       ELSE /\ dirs' = [dirs EXCEPT ![proc[p].dir] = Removed]
            /\ disk' = [disk EXCEPT ![proc[p].dir] = {Removed}]
            /\ proc' = [proc EXCEPT ![p].at = "lock", ![p].dir = bound]
            /\ UNCHANGED bound
    /\ UNCHANGED <<files, flocks, told, opens, faults>>

(* PublicationLock::acquire.  A lock file that cannot be set up is removed *)
(* (finalize_created_regular_leaf).                                        *)
OpenLock(p) ==
    /\ At(p, "lock")
    /\ LET d == proc[p].dir
           new == Len(files) + 1
       IN  \/ /\ dirs[d].lock # 0
              /\ proc' = [proc EXCEPT ![p].at = "flock", ![p].lock = dirs[d].lock]
              /\ UNCHANGED Names
           \/ /\ dirs[d].lock = 0 /\ ~dirs[d].removed
              /\ files' = Append(files, File({}, TRUE, FALSE))
              /\ dirs' = [dirs EXCEPT ![d].lock = new]
              /\ disk' = [disk EXCEPT ![d] = @ \union {dirs'[d]}]
              /\ proc' = [proc EXCEPT ![p].at = "setup", ![p].lock = new]
           \/ /\ dirs[d].lock = 0 /\ dirs[d].removed
              /\ Goes(p, "failed") /\ UNCHANGED Names
    /\ UNCHANGED <<bound, flocks, told, opens, faults>>

SetupLock(p) ==
    /\ At(p, "setup")
    /\ \/ NoFault /\ Goes(p, "flock") /\ UNCHANGED Names
       \/ /\ Fault("setup") /\ Goes(p, "failed")
          /\ IF LockHolds(p)
             THEN Renames(proc[p].dir, <<[dirs[proc[p].dir] EXCEPT !.lock = 0]>>, {})
             ELSE UNCHANGED Names
    /\ UNCHANGED <<bound, flocks, told, opens>>

Flock(p) ==
    /\ At(p, "flock")
    /\ proc[p].lock \notin DOMAIN flocks
    /\ IF LockHolds(p)
       THEN /\ flocks' = With(flocks, proc[p].lock, p)
            /\ Goes(p, IF proc[p].round = "remove" THEN "remove" ELSE "temporary")
       ELSE Goes(p, "failed") /\ UNCHANGED flocks
    /\ UNCHANGED <<dirs, bound, disk, files, told, opens, faults>>
-----------------------------------------------------------------------------
(* publish_locked: the temporary, its sections, manifest and header, and   *)
(* its fsync.                                                              *)
CreateTemporary(p) ==
    /\ At(p, "temporary")
    /\ LET d == proc[p].dir
           new == Len(files) + 1
       IN  IF dirs[d].removed
           THEN Goes(p, "failed") /\ flocks' = Unlocked(p) /\ UNCHANGED Names
           ELSE /\ files' = Append(files, File({}, FALSE, FALSE))
                /\ dirs' = [dirs EXCEPT ![d].temps = With(@, new, new)]
                /\ disk' = [disk EXCEPT ![d] = @ \union {dirs'[d]}]
                /\ proc' = [proc EXCEPT ![p].at = "write", ![p].own = new]
                /\ UNCHANGED flocks
    /\ UNCHANGED <<bound, told, opens, faults>>

(* write_sections, then the manifest, then the header in place of the      *)
(* zero bytes that were written first.                                     *)
WriteCache(p) ==
    /\ At(p, "write")
    /\ files' = [files EXCEPT ![proc[p].own].parts = Sections \union {"manifest", "header"}]
    /\ Goes(p, "sync")
    /\ UNCHANGED <<dirs, bound, disk, flocks, told, opens, faults>>

(* Mutation: the temporary is not synced.                                  *)
SyncTemporaryNever(p) ==
    /\ At(p, "sync")
    /\ Goes(p, "inspect")
    /\ UNCHANGED <<dirs, bound, disk, files, flocks, told, opens, faults>>

SyncTemporary(p) ==
    /\ At(p, "sync")
    /\ files' = [files EXCEPT ![proc[p].own].synced = TRUE]
    /\ Goes(p, "inspect")
    /\ UNCHANGED <<dirs, bound, disk, flocks, told, opens, faults>>

(* inspect_final, after the directory and the lock were verified.          *)
FinalState(d) ==
    LET final == dirs[d].final
    IN  IF final = 0 THEN "Missing"
        ELSE IF ValidateFile(files[final].parts) = "ready" THEN "Valid"
        ELSE IF ProbesAsOwn(files[final].parts) THEN "CorruptSame" ELSE "conflict"

InspectFinal(p) ==
    /\ At(p, "inspect")
    /\ LET state == FinalState(proc[p].dir)
       IN  IF ~DirectoryHolds(p) \/ ~LockHolds(p) \/ state = "conflict"
           THEN TemporaryErrs(p)
           ELSE /\ proc' = [proc EXCEPT
                       ![p].at = CASE state = "Valid" -> "adopt"
                                   [] state = "Missing" -> "rename"
                                   [] state = "CorruptSame" -> "exchange",
                       ![p].displaced = dirs[proc[p].dir].final]
                /\ UNCHANGED <<Names, flocks, told>>
    /\ UNCHANGED <<bound, opens, faults>>

(* A valid cache is there already: the temporary goes, whatever follows.   *)
Adopt(p) ==
    /\ At(p, "adopt")
    /\ LET d == proc[p].dir
           own == proc[p].own
       IN  IF Named(d, own) # own THEN PublishErrs(p, "NoVisibleFinal") /\ UNCHANGED Names
           ELSE /\ Renames(d, <<[dirs[d] EXCEPT !.temps = Without(@, own)]>>, {own})
                /\ Goes(p, "adopted") /\ UNCHANGED <<flocks, told>>
    /\ UNCHANGED <<bound, opens, faults>>

Publishes(p, outcome) ==
    /\ proc' = [proc EXCEPT ![p].at = "lookup", ![p].round = "reopen",
                            ![p].outcome = outcome]
    /\ flocks' = Unlocked(p)
    /\ UNCHANGED told

Adopted(p) ==
    /\ At(p, "adopted")
    /\ \/ /\ ~DirectoryHolds(p) \/ ~LockHolds(p)
          /\ PublishErrs(p, "NoVisibleFinal") /\ NoFault /\ UNCHANGED disk
       \/ /\ DirectoryHolds(p) /\ LockHolds(p)
          /\ NoFault /\ SyncsDirectory(proc[p].dir) /\ Publishes(p, "Existing")
       \/ /\ DirectoryHolds(p) /\ LockHolds(p)
          /\ Fault("fsync") /\ PublishErrs(p, "VisibleDurabilityUncertain")
          /\ UNCHANGED disk
    /\ UNCHANGED <<dirs, bound, files, opens>>
-----------------------------------------------------------------------------
(* There is none: renameat2(NOREPLACE).  There is a damaged one: EXCHANGE, *)
(* which leaves it under the name of the temporary.                        *)
Rename(p) ==
    /\ At(p, "rename")
    /\ LET d == proc[p].dir
           own == proc[p].own
       IN  IF dirs[d].final # 0 \/ Named(d, own) = 0 THEN TemporaryErrs(p)
           ELSE /\ Renames(d, <<[dirs[d] EXCEPT !.final = own,
                                                !.temps = Without(@, own)]>>, {own})
                /\ Goes(p, "checkpoint") /\ UNCHANGED <<flocks, told>>
    /\ UNCHANGED <<bound, opens, faults>>

Swapped(d, own) == [dirs[d] EXCEPT !.final = Named(d, own), !.temps[own] = dirs[d].final]

Exchange(p) ==
    /\ At(p, "exchange")
    /\ LET d == proc[p].dir
           own == proc[p].own
       IN  IF dirs[d].final = 0 \/ Named(d, own) = 0 THEN TemporaryErrs(p)
           ELSE /\ Renames(d, <<Swapped(d, own)>>, {own, dirs[d].final})
                /\ Goes(p, "checkpoint") /\ UNCHANGED <<flocks, told>>
    /\ UNCHANGED <<bound, opens, faults>>

(* verify_transaction_bindings.                                            *)
BindingsHold(p) ==
    /\ LockHolds(p)
    /\ dirs[proc[p].dir].final = proc[p].own
    /\ proc[p].displaced # 0 => Named(proc[p].dir, proc[p].own) = proc[p].displaced

(* The checkpoint after the rename: a cancelled or displaced publication   *)
(* is rolled back.                                                         *)
Checkpoint(p) ==
    /\ At(p, "checkpoint")
    /\ \/ Fault("cancel") /\ Goes(p, "rollback") /\ UNCHANGED <<flocks, told>>
       \/ /\ NoFault /\ ~DirectoryHolds(p)
          /\ Goes(p, "rollback") /\ UNCHANGED <<flocks, told>>
       \/ /\ NoFault /\ DirectoryHolds(p) /\ ~LockHolds(p)
          /\ PublishErrs(p, "VisibleDurabilityUncertain")
       \/ /\ NoFault /\ DirectoryHolds(p) /\ LockHolds(p)
          /\ Goes(p, "commit") /\ UNCHANGED <<flocks, told>>
    /\ UNCHANGED <<dirs, bound, disk, files, opens>>

(* commit_transaction, with the fsync of the directory.                    *)
Commit(p) ==
    /\ At(p, "commit")
    /\ \/ /\ ~BindingsHold(p) /\ NoFault
          /\ PublishErrs(p, "VisibleDurabilityUncertain") /\ UNCHANGED disk
       \/ /\ BindingsHold(p) /\ NoFault
          /\ SyncsDirectory(proc[p].dir) /\ Goes(p, "committed") /\ UNCHANGED <<flocks, told>>
       \/ /\ BindingsHold(p) /\ Fault("fsync")
          /\ Goes(p, "rollback") /\ UNCHANGED <<disk, flocks, told>>
    /\ UNCHANGED <<dirs, bound, files, opens>>

Committed(p) ==
    /\ At(p, "committed")
    /\ LET d == proc[p].dir
           own == proc[p].own
       IN  \/ ~BindingsHold(p) /\ Uncertain(p)
           \/ /\ BindingsHold(p) /\ ~DirectoryHolds(p)
              /\ Goes(p, "rollback") /\ UNCHANGED <<Names, flocks, told>>
           \/ /\ BindingsHold(p) /\ DirectoryHolds(p) /\ proc[p].displaced = 0
              /\ Publishes(p, "Published") /\ UNCHANGED Names
           \/ /\ BindingsHold(p) /\ DirectoryHolds(p) /\ proc[p].displaced # 0
              /\ Renames(d, <<[dirs[d] EXCEPT !.temps = Without(@, own)]>>,
                         {proc[p].displaced})
              /\ Goes(p, "cleaned") /\ UNCHANGED <<flocks, told>>
    /\ UNCHANGED <<bound, opens, faults>>

Cleaned(p) ==
    /\ At(p, "cleaned")
    /\ \/ /\ NoFault /\ SyncsDirectory(proc[p].dir)
          /\ IF LockHolds(p) /\ DirectoryHolds(p) /\ dirs[proc[p].dir].final = proc[p].own
             THEN Publishes(p, "Published")
             ELSE PublishErrs(p, "VisibleDurabilityUncertain")
       \/ /\ Fault("fsync") /\ PublishErrs(p, "VisibleDurabilityUncertain")
          /\ UNCHANGED disk
    /\ UNCHANGED <<dirs, bound, files, opens>>
-----------------------------------------------------------------------------
(* rollback_transaction and its fsync.                                     *)
Rollback(p) ==
    /\ At(p, "rollback")
    /\ LET d == proc[p].dir
           own == proc[p].own
       IN  \/ ~BindingsHold(p) /\ Uncertain(p)
           \/ /\ BindingsHold(p)
              /\ IF proc[p].displaced = 0
                 THEN Renames(d, <<[dirs[d] EXCEPT !.final = 0]>>, {own})
                 ELSE Renames(d, <<Swapped(d, own),
                                   [Swapped(d, own) EXCEPT !.temps = Without(@, own)]>>,
                              {own, proc[p].displaced})
              /\ Goes(p, "rolledback") /\ UNCHANGED <<flocks, told>>
    /\ UNCHANGED <<bound, opens, faults>>

RolledBack(p) ==
    /\ At(p, "rolledback")
    /\ \/ /\ NoFault /\ SyncsDirectory(proc[p].dir) /\ PublishErrs(p, "NoVisibleFinal")
       \/ /\ Fault("fsync") /\ PublishErrs(p, "VisibleDurabilityUncertain")
          /\ UNCHANGED disk
    /\ UNCHANGED <<dirs, bound, files, opens>>

(* remove_published, with the lock taken again.                            *)
(* Mutation: what has the name by now is removed.                          *)
RemovePublishedByName(p) ==
    /\ At(p, "remove")
    /\ LET d == proc[p].dir
       IN  IF ~DirectoryHolds(p) \/ ~LockHolds(p) \/ dirs[d].final = 0
           THEN Goes(p, "failed") /\ flocks' = Unlocked(p) /\ UNCHANGED Names
           ELSE /\ Renames(d, <<[dirs[d] EXCEPT !.final = 0]>>, {dirs[d].final})
                /\ Goes(p, "removed") /\ UNCHANGED flocks
    /\ UNCHANGED <<bound, told, opens, faults>>

RemovePublished(p) ==
    /\ At(p, "remove")
    /\ LET d == proc[p].dir
       IN  IF ~DirectoryHolds(p) \/ ~LockHolds(p) \/ dirs[d].final # proc[p].own
           THEN Goes(p, "failed") /\ flocks' = Unlocked(p) /\ UNCHANGED Names
           ELSE /\ Renames(d, <<[dirs[d] EXCEPT !.final = 0]>>, {proc[p].own})
                /\ Goes(p, "removed") /\ UNCHANGED flocks
    /\ UNCHANGED <<bound, told, opens, faults>>

(* The fsync of the removal, or its failure, and the error of the reopen.  *)
PublishedRemoved(p) ==
    /\ At(p, "removed")
    /\ \/ NoFault /\ SyncsDirectory(proc[p].dir)
       \/ Fault("fsync") /\ UNCHANGED disk
    /\ flocks' = Unlocked(p) /\ Goes(p, "failed")
    /\ UNCHANGED <<dirs, bound, files, told, opens>>
-----------------------------------------------------------------------------
(* The guard says no: the job was cancelled or its budget is used up.      *)
Cancel(p) ==
    /\ Fault("cancel")
    /\ \/ /\ proc[p].at \in {"lookup", "validate", "build", "temporary"}
             \/ (proc[p].at \in {"lock", "flock"} /\ proc[p].round # "remove")
          /\ Errs(p) /\ flocks' = Unlocked(p) /\ UNCHANGED <<Names, told>>
       \/ /\ proc[p].at \in {"write", "sync", "inspect"}
          /\ TemporaryErrs(p)
    /\ UNCHANGED <<bound, opens>>

(* A process ends: its locks are released, its names stay.                 *)
Crash(p) ==
    /\ Fault("crash") /\ proc[p].at \notin {"idle", "failed"}
    /\ proc' = [proc EXCEPT ![p] = Idle] /\ flocks' = Unlocked(p)
    /\ told' = told \union {[file |-> proc[p].own, state |-> "Crashed"]}
    /\ UNCHANGED <<dirs, bound, disk, files, opens>>

(* The machine stops: any state of a directory since its last fsync, and   *)
(* of an object that was not synced, nothing.                              *)
PowerLoss ==
    /\ Fault("power")
    /\ proc' = [p \in Procs |-> Idle] /\ flocks' = <<>>
    /\ \E kept \in {k \in [DOMAIN disk -> UNION {disk[d] : d \in DOMAIN disk}] :
                       \A d \in DOMAIN disk : k[d] \in disk[d]} : dirs' = kept
    /\ disk' = [d \in DOMAIN dirs |-> {dirs'[d]}]
    /\ files' = [f \in DOMAIN files |->
                    IF files[f].synced THEN files[f] ELSE [files[f] EXCEPT !.parts = {}]]
    /\ told' = told \union {[file |-> f, state |-> "Crashed"] : f \in DOMAIN files}
    /\ UNCHANGED <<bound, opens>>

(* A part of a cache goes bad on the disk.                                 *)
Rot ==
    /\ Fault("rot")
    /\ bound # 0 /\ dirs[bound].final # 0
    /\ \E part \in {"padding", "manifest"} :
           files' = [files EXCEPT ![dirs[bound].final].parts = @ \ {part},
                                  ![dirs[bound].final].rot = TRUE]
    /\ UNCHANGED <<dirs, bound, disk, flocks, proc, told, opens>>

(* Somebody clears the cache: the directory of the key and its leaves go.  *)
Clear ==
    /\ Fault("clear")
    /\ bound # 0 /\ bound' = 0
    /\ Renames(bound, <<Removed>>, DOMAIN files)
    /\ UNCHANGED <<flocks, proc, told, opens>>
-----------------------------------------------------------------------------
Reads(p) == Lookup(p) \/ OpenFinal(p) \/ Validate(p) \/ Verdict(p)
Prepares(p) == \/ OpenDirectory(p) \/ NameDirectory(p) \/ OpenLock(p) \/ SetupLock(p)
               \/ CreateTemporary(p) \/ WriteCache(p)
               \/ SyncTemporary(p) \/ InspectFinal(p)
Settles(p) == \/ Adopt(p) \/ Adopted(p) \/ Rename(p) \/ Exchange(p) \/ Checkpoint(p)
              \/ Commit(p) \/ Committed(p) \/ Cleaned(p) \/ Rollback(p) \/ RolledBack(p)
              \/ RemovePublished(p) \/ PublishedRemoved(p)
Steps(p) == Reads(p) \/ Prepares(p) \/ Settles(p)

Next == \/ \E p \in Procs : Start(p) \/ Steps(p) \/ Flock(p) \/ Cancel(p) \/ Crash(p)
        \/ PowerLoss \/ Rot \/ Clear

(* A running open goes on; flock is polled, so it is got when the lock is  *)
(* free again and again.                                                   *)
Fairness == \A p \in Procs : WF_vars(Steps(p)) /\ SF_vars(Flock(p))
Spec == Init /\ [][Next]_vars /\ Fairness
-----------------------------------------------------------------------------
Running(p) == proc[p].at \notin {"idle", "failed", "ready"}

(* States of a directory that a reader finds, now or after a power loss.   *)
Findable(d) == disk[d] \union {dirs[d]}

(* What has the name of the cache, now or after a power loss, was written  *)
(* to its end, unless it went bad later: readers and publishers, which     *)
(* refuse for good to replace what they cannot recognize, never meet half  *)
(* a cache (publish_locked).                                               *)
FinalIsWhole ==
    \A d \in DOMAIN dirs : \A s \in Findable(d) :
        s.final # 0 => files[s.final].rot \/ (files[s.final].parts = Parts
                                              /\ files[s.final].synced)

(* A publication that failed with NoVisibleFinal has left no cache, not    *)
(* even one that comes back after a power loss (rollback_after_error).     *)
FailureIsHidden ==
    \A t \in told : t.state = "NoVisibleFinal" /\ t.file # 0 =>
        \A d \in DOMAIN dirs : \A s \in Findable(d) : s.final # t.file

(* The temporary names are of publications that are going on, that crashed *)
(* or that said that they do not know (OwnedTemporary).                    *)
TemporariesAreOwned ==
    \A d \in DOMAIN dirs : \A name \in DOMAIN dirs[d].temps :
        \/ \E p \in Procs : proc[p].own = name /\ Running(p)
        \/ \E t \in told : t.file = name /\ t.state # "NoVisibleFinal"

(* A cache that validates is replaced by nothing, and is removed by the    *)
(* call that published it alone, or with its directory (the lock, inspect_ *)
(* final and the receipts).                                                *)
ValidIsKept ==
    [][\A d \in DOMAIN dirs :
           LET final == dirs[d].final
           IN  final # 0 /\ files[final].parts = Parts /\ dirs'[d].final # final
                   => \/ dirs'[d].final # 0 /\ files'[dirs'[d].final].parts = Parts
                      \/ \E p \in Procs : proc[p].own = final
                                          /\ proc[p].at \in {"rollback", "remove"}
                      \/ bound' = 0 \/ faults' > faults]_vars

(* Every open comes to an end, whoever crashes or is cancelled while it    *)
(* holds the lock.                                                         *)
OpensEnd == \A p \in Procs : Running(p) ~> ~Running(p)
=============================================================================
