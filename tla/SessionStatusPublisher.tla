----------------------- MODULE SessionStatusPublisher -----------------------
(***************************************************************************)
(* SessionStatusPublisher (core/session_status.cpp): the status file is    *)
(* replaced by a transaction of renames in one directory, so that a crash  *)
(* or a failed system call at any point leaves the old or the new status.  *)
(* One step per system call that changes or syncs the directory.           *)
(*                                                                         *)
(* The directory is kept twice: `live` is what open, access and rename see *)
(* and `images` is what a power loss may leave.  An operation joins every  *)
(* image or none until the directory is fsynced, in any combination with   *)
(* the other operations not yet synced.  Every file is fsynced before it is*)
(* renamed, so a name that exists has its content, except a copy caught    *)
(* half written.  The temporary file has a name no one reads again, and is *)
(* not in the directory of the model.                                      *)
(***************************************************************************)
EXTENDS Integers, TLC

CONSTANTS
    MaxPublish,        \* bound: snapshots that reach the temporary file
    MaxFaults,         \* bound: system calls that fail
    MaxCrashes,        \* bound: process deaths and power losses
    Absent, Partial, Marker

PublisherAssumption ==
    /\ MaxPublish \in Nat /\ MaxFaults \in Nat /\ MaxCrashes \in Nat
    /\ {Absent, Partial, Marker} \intersect Int = {}

VARIABLES
    live,              \* the directory: name -> content
    images,            \* the directories a power loss may leave
    pc,                \* the next system call
    caller,            \* who called recover_pending_transaction
    had_previous,      \* had_previous of publish
    opened,            \* opened_
    attempt,           \* the version of the snapshot in the temporary file
    stable,            \* history: main when it last was nobody's transaction
    acked,             \* history: the last version publish returned true for
    clean,             \* history: no system call of this operation has failed
    faults, crashes    \* bounds

directory == <<live, images>>
progress == <<pc, caller, had_previous, opened>>
history == <<attempt, stable, acked>>
vars == <<directory, progress, history, clean, faults, crashes>>

Names == {"main", "backup", "prepare", "restore", "rollback", "commit"}
Directory(main, backup, restore) ==
    [n \in Names |-> CASE n = "main" -> main [] n = "backup" -> backup
                       [] n = "restore" -> restore [] OTHER -> Absent]

(* No status yet, or what a publisher without markers left: version 0,     *)
(* version 1 in place of it with the backup retained, or a copy it never   *)
(* renamed.                                                                *)
Init ==
    /\ live \in {Directory(Absent, Absent, Absent), Directory(0, Absent, Absent),
                 Directory(1, 0, Absent), Directory(1, 0, Partial),
                 Directory(Absent, Absent, Partial)}
    /\ images = {live}
    /\ pc = "idle" /\ caller = "none" /\ had_previous = FALSE /\ opened = FALSE
    /\ attempt = IF live["main"] = Absent THEN 0 ELSE live["main"]
    /\ stable = IF live["backup"] = Absent THEN live["main"] ELSE live["backup"]
    /\ acked = stable
    /\ clean = TRUE /\ faults = 0 /\ crashes = 0

Exists(name) == live[name] # Absent
-----------------------------------------------------------------------------
(* System calls.                                                           *)
Fault == faults < MaxFaults /\ faults' = faults + 1 /\ clean' = FALSE
NoFault == UNCHANGED <<faults, clean>>

Goto(to) == pc' = to /\ UNCHANGED <<caller, had_previous, opened>>

(* An operation on the directory: names -> contents.                       *)
Apply(change) ==
    /\ live' = change @@ live
    /\ images' = images \union {change @@ d : d \in images}

Renamed(from, to) == (from :> Absent) @@ (to :> live[from])
Unlinked(name) == name :> Absent

Fails(to) == Fault /\ Goto(to) /\ UNCHANGED directory

Step(at, change, to, bail) ==
    /\ pc = at
    /\ \/ Apply(change) /\ NoFault /\ Goto(to)
       \/ Fails(bail)
    /\ UNCHANGED <<history, crashes>>

Sync(at, to, bail) ==
    /\ pc = at
    /\ \/ images' = {live} /\ UNCHANGED live /\ NoFault /\ Goto(to)
       \/ Fails(bail)
    /\ UNCHANGED <<history, crashes>>

(* create_marker up to its directory sync: the marker stays when its own   *)
(* fsync fails.                                                            *)
CreateMarker(at, name, to, bail) ==
    /\ pc = at
    /\ IF Exists(name)
       THEN Goto(bail) /\ NoFault /\ UNCHANGED directory
       ELSE \/ Apply(name :> Marker) /\ NoFault /\ Goto(to)
            \/ Apply(name :> Marker) /\ Fault /\ Goto(bail)
            \/ Fails(bail)
    /\ UNCHANGED <<history, crashes>>

(* copy_regular_file: create, then write and fsync; a failure unlinks.     *)
CopyCreate(at, target, to, bail) ==
    /\ pc = at
    /\ IF Exists(target)
       THEN Goto(bail) /\ NoFault /\ UNCHANGED directory
       ELSE \/ Apply(target :> Partial) /\ NoFault /\ Goto(to)
            \/ Fails(bail)
    /\ UNCHANGED <<history, crashes>>

Filled(d, target, content) ==
    IF d[target] = Partial THEN [d EXCEPT ![target] = content] ELSE d

CopyFill(at, source, target, to, bail) ==
    /\ pc = at
    /\ \/ /\ live' = Filled(live, target, live[source])
          /\ images' = {Filled(d, target, live[source]) : d \in images}
          /\ NoFault /\ Goto(to)
       \/ Apply(Unlinked(target)) /\ Fault /\ Goto(bail)
    /\ UNCHANGED <<history, crashes>>
-----------------------------------------------------------------------------
(* recover_pending_transaction.  The existence flags it reads are those of *)
(* `live`, which nobody else changes.                                      *)
AfterCommit == IF ~Exists("main") THEN "unrecovered"
               ELSE IF Exists("backup") \/ Exists("restore") THEN "cleanup"
               ELSE "closing"

AfterRollback == IF ~Exists("backup") THEN "unpublish"
                 ELSE IF Exists("restore") THEN "unrestore" ELSE "restore_create"

AfterInspection ==
    CASE Exists("rollback") -> AfterRollback
      [] Exists("commit") -> AfterCommit
      [] Exists("backup") -> "mark_rollback"
      [] Exists("main") -> "mark_commit"
      [] Exists("restore") -> "drop_restore"
      [] OTHER -> "closing"

(* Mutation: a copy that was never completed counts as a backup.           *)
InspectIgnoringPrepare ==
    /\ pc = "inspect"
    /\ \/ /\ Goto(IF Exists("rollback") /\ Exists("commit") THEN "unrecovered"
                  ELSE AfterInspection)
          /\ NoFault
       \/ Fault /\ Goto("unrecovered")
    /\ UNCHANGED <<directory, history, crashes>>

Inspect ==
    /\ pc = "inspect"
    /\ \/ /\ Goto(IF Exists("rollback") /\ Exists("commit") THEN "unrecovered"
                  ELSE IF Exists("prepare") THEN "unprepare"
                  ELSE AfterInspection)
          /\ NoFault
       \/ Fault /\ Goto("unrecovered")
    /\ UNCHANGED <<directory, history, crashes>>

DropPrepare ==
    \/ Step("unprepare", Unlinked("prepare"), "unprepare_sync", "unrecovered")
    \/ Sync("unprepare_sync", AfterInspection, "unrecovered")

(* States without a marker.                                                *)
Migrate ==
    \/ CreateMarker("mark_rollback", "rollback", "rollback_sync", "unrecovered")
    \/ Sync("rollback_sync", AfterRollback, "unrecovered")
    \/ CreateMarker("mark_commit", "commit", "commit_mark_sync", "unrecovered")
    \/ Sync("commit_mark_sync", AfterCommit, "unrecovered")
    \/ Step("drop_restore", Unlinked("restore"), "drop_restore_sync", "unrecovered")
    \/ Sync("drop_restore_sync", "closing", "unrecovered")

(* Rollback with no status before it: absence is restored and the marker   *)
(* is kept.                                                                *)
RollBackToNothing ==
    \/ Step("unpublish", Unlinked("main"),
            IF Exists("restore") THEN "unpublish_restore" ELSE "unpublish_sync",
            "unrecovered")
    \/ Step("unpublish_restore", Unlinked("restore"), "unpublish_sync",
            "unrecovered")
    \/ Sync("unpublish_sync", "closing", "unrecovered")

(* Mutation: the backup itself is renamed over main.                       *)
RollBackByRename ==
    \/ Step("unrestore", Unlinked("restore"), "restore_create", "unrecovered")
    \/ Step("restore_create", Renamed("backup", "main"), "restore_sync",
            "unrecovered")
    \/ Sync("restore_sync", "recommit", "unrecovered")
    \/ Step("recommit", Renamed("rollback", "commit"), "recommit_sync",
            "unrecovered")
    \/ Sync("recommit_sync", AfterCommit, "unrecovered")

(* Rollback to the backup, through a copy of it.                           *)
RollBack ==
    \/ Step("unrestore", Unlinked("restore"), "restore_create", "unrecovered")
    \/ CopyCreate("restore_create", "restore", "restore_fill", "unrecovered")
    \/ CopyFill("restore_fill", "backup", "restore", "restore", "unrecovered")
    \/ Step("restore", Renamed("restore", "main"), "restore_sync", "unrecovered")
    \/ Sync("restore_sync", "recommit", "unrecovered")
    \/ Step("recommit", Renamed("rollback", "commit"), "recommit_sync",
            "unrecovered")
    \/ Sync("recommit_sync", AfterCommit, "unrecovered")

(* Main is committed: the copies go, after the marker is durable.          *)
AfterCleanup == IF Exists("restore") THEN "cleanup_restore" ELSE "cleanup_sync"

CleanUp ==
    \/ Sync("cleanup", IF Exists("backup") THEN "cleanup_backup" ELSE AfterCleanup,
            "unrecovered")
    \/ Step("cleanup_backup", Unlinked("backup"), AfterCleanup, "unrecovered")
    \/ Step("cleanup_restore", Unlinked("restore"), "cleanup_sync", "unrecovered")
    \/ Sync("cleanup_sync", "closing", "unrecovered")

(* The directory descriptor is closed and recover returns to its caller.   *)
Recovered ==
    /\ pc = "closing"
    /\ \/ /\ NoFault /\ UNCHANGED crashes
          /\ stable' = live["main"] /\ UNCHANGED <<attempt, acked>>
          /\ pc' = CASE caller = "open" -> "idle" [] caller = "publish" -> "write"
                     [] OTHER -> "failed"
          /\ opened' = TRUE
          /\ UNCHANGED <<caller, had_previous>>
       \/ Fault /\ Goto("unrecovered") /\ UNCHANGED <<history, crashes>>
    /\ UNCHANGED directory

Unrecovered ==
    /\ pc = "unrecovered"
    /\ Goto("failed") /\ NoFault
    /\ UNCHANGED <<directory, history, crashes>>

Recovery == Inspect \/ DropPrepare \/ Migrate \/ RollBackToNothing \/ RollBack
            \/ CleanUp \/ Recovered \/ Unrecovered
-----------------------------------------------------------------------------
(* open and publish begin with a recovery.                                 *)
Open ==
    /\ pc = "idle"
    /\ pc' = "inspect" /\ caller' = "open" /\ opened' = FALSE
    /\ clean' = TRUE
    /\ UNCHANGED <<directory, had_previous, history, faults, crashes>>

Publish ==
    /\ pc = "idle" /\ opened
    /\ attempt < MaxPublish
    /\ pc' = "inspect" /\ caller' = "publish"
    /\ clean' = TRUE
    /\ UNCHANGED <<directory, had_previous, opened, history, faults, crashes>>

(* Serialize and write the temporary file, then see whether main exists.   *)
WriteTemporary ==
    /\ pc = "write"
    /\ \/ /\ attempt' = attempt + 1 /\ NoFault
          /\ had_previous' = Exists("main")
          /\ pc' = CASE Exists("main") /\ Exists("commit") -> "backup_create"
                     [] Exists("main") /\ ~Exists("commit") -> "failed"
                     [] ~Exists("main") /\ Exists("rollback") -> "swap"
                     [] OTHER -> "mark"
          /\ UNCHANGED <<caller, opened, stable, acked>>
       \/ Fault /\ Goto("failed") /\ UNCHANGED history
    /\ UNCHANGED <<directory, crashes>>

(* recover_pending_transaction on an error path; its result is ignored.    *)
Abandon ==
    /\ pc = "abandon"
    /\ pc' = "inspect" /\ caller' = "abandon"
    /\ NoFault
    /\ UNCHANGED <<directory, had_previous, opened, history, crashes>>

(* A completed backup is durable before the marker says rollback.          *)
BackUp ==
    \/ CopyCreate("backup_create", "prepare", "backup_fill", "failed")
    \/ CopyFill("backup_fill", "main", "prepare", "backup", "failed")
    \/ Step("backup", Renamed("prepare", "backup"), "backup_sync", "unprepared")
    \/ Sync("backup_sync", "unmark", "failed")
    \/ Step("unmark", Renamed("commit", "rollback"), "unmark_sync", "abandon")
    \/ Sync("unmark_sync", "swap", "abandon")

(* The prepared copy is unlinked when it cannot be renamed.                *)
Unprepare == Step("unprepared", Unlinked("prepare"), "failed", "failed")

MarkFirst ==
    \/ CreateMarker("mark", "rollback", "mark_sync", "failed")
    \/ Sync("mark_sync", "swap", "failed")

Swap ==
    \/ Step("swap", "main" :> attempt, "swap_sync", "abandon")
    \/ Sync("swap_sync", "commit", "abandon")
    \/ Step("commit", Renamed("rollback", "commit"), "commit_sync", "abandon")
    \/ Sync("commit_sync", IF had_previous THEN "drop" ELSE "close", "abandon")

DropBackup ==
    \/ Step("drop", Unlinked("backup"), "drop_sync", "failed")
    \/ Sync("drop_sync", "close", "failed")

(* publish returns true.                                                   *)
Succeed ==
    /\ pc = "close"
    /\ \/ /\ Goto("idle") /\ NoFault
          /\ acked' = attempt /\ stable' = live["main"] /\ UNCHANGED attempt
       \/ Fault /\ Goto("failed") /\ UNCHANGED history
    /\ UNCHANGED <<directory, crashes>>

(* open or publish returns false.                                          *)
ReturnFailure ==
    /\ pc = "failed"
    /\ Goto("idle")
    /\ NoFault /\ UNCHANGED <<directory, history, crashes>>

Transaction == WriteTemporary \/ Abandon \/ BackUp \/ Unprepare \/ MarkFirst
               \/ Swap \/ DropBackup \/ Succeed \/ ReturnFailure
-----------------------------------------------------------------------------
(* The process dies, alone or with the device; the next one opens anew.    *)
Crash ==
    /\ crashes < MaxCrashes
    /\ crashes' = crashes + 1
    /\ pc' = "idle" /\ caller' = "none" /\ had_previous' = FALSE
    /\ opened' = FALSE
    /\ NoFault /\ UNCHANGED history

ProcessDeath == Crash /\ UNCHANGED directory

PowerLoss == /\ Crash
             /\ live' \in images
             /\ images' = {live'}

Next == Open \/ Publish \/ Recovery \/ Transaction \/ ProcessDeath \/ PowerLoss

Spec == Init /\ [][Next]_vars
-----------------------------------------------------------------------------
(* The reader of main sees a whole status at every instant, also after a   *)
(* power loss and before any recovery: the one before the transaction or   *)
(* the one it publishes.  Until a first publication is acknowledged there  *)
(* may be none: recovery does not sync the marker of a first status, so a  *)
(* power loss can undo a status that later operations already built on.    *)
MainIsOldOrNew ==
    \A d \in images : \/ d["main"] \in {stable, attempt}
                      \/ acked = Absent /\ d["main"] = Absent

(* A status for which publish returned true is never lost to an older one, *)
(* and never disappears.                                                   *)
AcknowledgedSurvives ==
    acked # Absent => \A d \in images : d["main"] # Absent /\ d["main"] >= acked

(* open and publish fail only when one of their own system calls failed:   *)
(* no sequence of earlier failures and crashes wedges the transaction.     *)
FailureNeedsFault == pc = "failed" => ~clean

(* Between operations of an open publisher whose last one succeeded the    *)
(* directory is settled: main is durable, there is one marker and no copy. *)
(* (The marker itself may not be durable yet.)                             *)
SettledWhenDone ==
    pc = "idle" /\ opened /\ clean =>
        /\ \A d \in images : d["main"] = live["main"]
        /\ \A name \in {"backup", "prepare", "restore"} : ~Exists(name)
        /\ Exists("main") => Exists("commit") /\ ~Exists("rollback")
=============================================================================
