--------------------------- MODULE QtraceService ----------------------------
(***************************************************************************)
(* The service behind the trace viewer (qtrace-ui/crates/qtrace-service):  *)
(* the job registry (jobs.rs), the workspaces and their projections        *)
(* (service.rs, workspace.rs), and the analysis slots of a workspace.      *)
(*                                                                         *)
(* Each command runs on a thread of the blocking pool.  A critical section *)
(* of the registry, of the workspace table or of a slot is one step, and   *)
(* so is a reading of a cancellation flag that is used after the section.  *)
(* What a request computes (indexes, projections, trees) is left out; that *)
(* it may take long, fail, or be cancelled is not.                         *)
(***************************************************************************)
EXTENDS Integers, Sequences, FiniteSets

CONSTANTS
    Threads,        \* threads that run commands
    Nobody,         \* no thread, no value
    MaxActive,      \* MAX_ACTIVE of begin_bounded
    MaxRetained,    \* MAX_RETAINED of begin_bounded
    KeepOfWorkspace,\* terminal jobs kept by prune_workspace
    KeepTerminal,   \* terminal jobs kept by prune_terminal
    MaxProjections, \* projections kept by a workspace
    MaxArtifacts,   \* bound: artifacts of an opened session
    Trees,          \* timelines and threads a call tree is asked for
    MaxOpens, MaxRequests, MaxCloses   \* bounds: opens, queries and closings

ASSUME ServiceAssumption ==
    /\ Nobody \notin Threads
    /\ {MaxActive, MaxRetained, MaxProjections, MaxArtifacts, MaxOpens,
        MaxRequests, MaxCloses, KeepOfWorkspace, KeepTerminal} \subseteq Nat
    /\ MaxActive > 0 /\ MaxRetained >= MaxActive

VARIABLES
    jobs,        \* JobRegistry.jobs: the listed jobs
    next_job,    \* JobRegistry.next
    cancelled,   \* the jobs whose cancellation flag is set, listed or not
    workspaces,  \* QtraceService.workspaces: the open ones
    next_id,     \* the last workspace or projection number given out
    closed,      \* workspaces whose own cancellation flag is set
    slots,       \* the register replay and the call tree of each workspace
    thread,      \* what each thread is doing
    asked        \* how many commands of each kind there have been

service_vars == <<jobs, next_job, cancelled, workspaces, next_id, closed, slots,
                  thread, asked>>

Idle == [at |-> "idle", ws |-> 0, job |-> 0, left |-> 0, got |-> FALSE, pair |-> <<>>,
         generation |-> 0, projection |-> 0, key |-> Nobody, result |-> "none",
         seen |-> FALSE]

WorkspaceId == 1..(MaxOpens + MaxRequests)
Slot == WorkspaceId \X {"replay", "tree"}

ServiceInit ==
    /\ jobs = <<>> /\ next_job = 0 /\ cancelled = {}
    /\ workspaces = <<>> /\ next_id = 0 /\ closed = {}
    /\ slots = [s \in Slot |-> [holder |-> Nobody, value |-> Nobody]]
    /\ thread = [t \in Threads |-> Idle]
    /\ asked = [open |-> 0, request |-> 0, close |-> 0]

At(t, place) == thread[t].at = place
Goes(t, place) == thread' = [thread EXCEPT ![t].at = place]
Only(f, S) == [y \in DOMAIN f \intersect S |-> f[y]]
Without(f, S) == Only(f, DOMAIN f \ S)
With(f, x, v) == [y \in DOMAIN f \union {x} |-> IF y = x THEN v ELSE f[y]]

Asks(kind, limit) == /\ asked[kind] < limit
                     /\ asked' = [asked EXCEPT ![kind] = @ + 1]
-----------------------------------------------------------------------------
(* The job registry.  A job is Running until it is Completed, Cancelled or *)
(* Failed.                                                                 *)
Running(j) == jobs[j].state = "Running"
RunningJobs == {j \in DOMAIN jobs : Running(j)}
Ended(js) == {j \in js : ~Running(j)}

(* The jobs that go when only the `keep` youngest of `js` may stay.        *)
Oldest(js, keep) == {j \in js : Cardinality({i \in js : i > j}) >= keep}

(* begin_bounded: the entries that make room for a new one, and whether    *)
(* there is room.                                                          *)
Evicted ==
    IF Cardinality(DOMAIN jobs) < MaxRetained THEN {}
    ELSE Oldest(Ended(DOMAIN jobs), Cardinality(Ended(DOMAIN jobs)) - 1)

Admits == /\ Cardinality(RunningJobs) < MaxActive
          /\ Cardinality(DOMAIN jobs \ Evicted) < MaxRetained

Begin(w) ==
    /\ jobs' = With(Without(jobs, Evicted), next_job + 1,
                    [workspace |-> w, state |-> "Running"])
    /\ next_job' = next_job + 1

(* finish and set_state: a job that is no longer listed is left alone.     *)
FinalState(result, seen) ==
    IF result = "cancelled" \/ (result = "ok" /\ seen) THEN "Cancelled"
    ELSE IF result = "ok" THEN "Completed" ELSE "Failed"

Pruned(w, all) ==
    LET ended == Ended(DOMAIN jobs)
        own == Oldest({j \in ended : jobs[j].workspace = w}, KeepOfWorkspace)
    IN  own \union IF all THEN Oldest(ended \ own, KeepTerminal) ELSE {}
-----------------------------------------------------------------------------
(* The end of a job's command: what came of it, the reading of the flag,   *)
(* the registry's finish, and the pruning.                                 *)
Ends(t, result) ==
    thread' = [thread EXCEPT ![t].at = "finish", ![t].result = result,
                             ![t].pair = <<>>]

FinishReads(t) ==
    /\ At(t, "finish")
    /\ thread' = [thread EXCEPT ![t].at = "set", ![t].seen = thread[t].job \in cancelled]
    /\ UNCHANGED <<jobs, next_job, cancelled, workspaces, next_id, closed, slots, asked>>

(* Mutation: a command that failed is not recorded.                        *)
FinishSetsOnSuccess(t) ==
    /\ At(t, "set")
    /\ jobs' = IF thread[t].job \in DOMAIN jobs /\ thread[t].result # "failed"
               THEN [jobs EXCEPT ![thread[t].job].state =
                         FinalState(thread[t].result, thread[t].seen)]
               ELSE jobs
    /\ Goes(t, "prune")
    /\ UNCHANGED <<next_job, cancelled, workspaces, next_id, closed, slots, asked>>

FinishSets(t) ==
    /\ At(t, "set")
    /\ jobs' = IF thread[t].job \in DOMAIN jobs
               THEN [jobs EXCEPT ![thread[t].job].state =
                         FinalState(thread[t].result, thread[t].seen)]
               ELSE jobs
    /\ Goes(t, "prune")
    /\ UNCHANGED <<next_job, cancelled, workspaces, next_id, closed, slots, asked>>

Prune(t) ==
    /\ At(t, "prune")
    /\ jobs' = Without(jobs, Pruned(thread[t].ws, thread[t].projection = 0))
    /\ thread' = [thread EXCEPT ![t] = Idle]
    /\ UNCHANGED <<next_job, cancelled, workspaces, next_id, closed, slots, asked>>

CancelSeen(t) == thread[t].job \in cancelled
Listed(t) == thread[t].job \in DOMAIN jobs
-----------------------------------------------------------------------------
(* open_selected.  A workspace number, a job, discovery of the session     *)
(* under a guard that reads the flag; then publish_session, whose          *)
(* set_progress fails when the job is no longer listed.                    *)
OpenBegin(t) ==
    /\ At(t, "idle") /\ Asks("open", MaxOpens)
    /\ next_id' = next_id + 1
    /\ IF Admits
       THEN /\ Begin(next_id + 1)
            /\ thread' = [thread EXCEPT ![t].at = "discover", ![t].ws = next_id + 1,
                                        ![t].job = next_job + 1]
       ELSE UNCHANGED <<jobs, next_job, thread>>
    /\ UNCHANGED <<cancelled, workspaces, closed, slots>>

Discover(t) ==
    /\ At(t, "discover")
    /\ \/ CancelSeen(t) /\ Ends(t, "cancelled")
       \/ Ends(t, "failed")
       \/ ~Listed(t) /\ Ends(t, "failed")
       \/ /\ Listed(t)
          /\ \E n \in 0..MaxArtifacts :
                thread' = [thread EXCEPT ![t].at = "pair", ![t].left = n]
    /\ UNCHANGED <<jobs, next_job, cancelled, workspaces, next_id, closed, slots, asked>>

(* open_artifacts takes the artifacts two at a time; join_pair prepares    *)
(* both at once and waits for both before it reports an error.             *)
StartPair(t) ==
    /\ At(t, "pair") /\ thread[t].left > 0 /\ thread[t].pair = <<>>
    /\ \/ CancelSeen(t) /\ Ends(t, "cancelled")
       \/ /\ ~CancelSeen(t)
          /\ thread' = [thread EXCEPT ![t].pair =
                            [i \in 1..(IF thread[t].left = 1 THEN 1 ELSE 2) |-> "running"]]
    /\ UNCHANGED <<jobs, next_job, cancelled, workspaces, next_id, closed, slots, asked>>

(* prepare_artifact: an artifact of a bad format is rejected, and only a   *)
(* cancellation or an exhausted budget ends the whole open.                *)
PrepareArtifact(t) ==
    /\ At(t, "pair")
    /\ \E i \in DOMAIN thread[t].pair,
          outcome \in {"indexed", "rejected", "failed"}
                      \union {c \in {"cancelled"} : CancelSeen(t)} :
          /\ thread[t].pair[i] = "running"
          /\ thread' = [thread EXCEPT ![t].pair[i] = outcome]
    /\ UNCHANGED <<jobs, next_job, cancelled, workspaces, next_id, closed, slots, asked>>

JoinPair(t) ==
    /\ At(t, "pair") /\ thread[t].pair # <<>>
    /\ \A i \in DOMAIN thread[t].pair : thread[t].pair[i] # "running"
    /\ LET pair == thread[t].pair
           errors == {i \in DOMAIN pair : pair[i] \in {"failed", "cancelled"}}
       IN  \/ \E i \in errors : (\A j \in errors : i <= j) /\ Ends(t, pair[i])
           \/ errors = {} /\ ~Listed(t) /\ Ends(t, "failed")
           \/ /\ errors = {} /\ Listed(t)
              /\ thread' = [thread EXCEPT
                     ![t].pair = <<>>, ![t].left = @ - Len(pair),
                     ![t].got = @ \/ \E i \in DOMAIN pair : pair[i] = "indexed"]
    /\ UNCHANGED <<jobs, next_job, cancelled, workspaces, next_id, closed, slots, asked>>

(* The rest of publish_session: no artifact, too large an answer, or the   *)
(* flag seen a last time; then the workspace is inserted.                  *)
CheckSession(t) ==
    /\ At(t, "pair") /\ thread[t].left = 0 /\ thread[t].pair = <<>>
    /\ \/ Ends(t, "failed")
       \/ thread[t].got /\ CancelSeen(t) /\ Ends(t, "cancelled")
       \/ thread[t].got /\ ~CancelSeen(t) /\ Goes(t, "insert")
    /\ UNCHANGED <<jobs, next_job, cancelled, workspaces, next_id, closed, slots, asked>>

InsertWorkspace(t) ==
    /\ At(t, "insert")
    /\ workspaces' = With(workspaces, thread[t].ws,
                          [generation |-> 0, current |-> 0, projections |-> <<>>])
    /\ Ends(t, "ok")
    /\ UNCHANGED <<jobs, next_job, cancelled, next_id, closed, slots, asked>>
-----------------------------------------------------------------------------
(* create_projection and create_projection_task.  prepare_projection holds *)
(* the workspace table while it enters the job and takes a generation.     *)
PrepareProjection(t) ==
    /\ At(t, "idle") /\ Asks("request", MaxRequests)
    /\ \E w \in DOMAIN workspaces :
          IF Admits
          THEN /\ Begin(w)
               /\ workspaces' = [workspaces EXCEPT ![w].generation = @ + 1]
               /\ next_id' = next_id + 1
               /\ thread' = [thread EXCEPT ![t].at = "progress", ![t].ws = w,
                                 ![t].job = next_job + 1,
                                 ![t].generation = workspaces[w].generation + 1,
                                 ![t].projection = next_id + 1]
          ELSE UNCHANGED <<jobs, next_job, workspaces, next_id, thread>>
    /\ UNCHANGED <<cancelled, closed, slots>>

(* set_progress before the build: an unlisted job is given up unfinished.  *)
StartProjection(t) ==
    /\ At(t, "progress")
    /\ IF Listed(t) THEN Goes(t, "project") ELSE thread' = [thread EXCEPT ![t] = Idle]
    /\ UNCHANGED <<jobs, next_job, cancelled, workspaces, next_id, closed, slots, asked>>

(* build_and_publish_projection up to its last look at the flag: it polls  *)
(* the flag while the projection is computed.                              *)
BuildProjection(t) ==
    /\ At(t, "project")
    /\ Ends(t, "failed") \/ (~CancelSeen(t) /\ Goes(t, "publish"))
    /\ UNCHANGED <<jobs, next_job, cancelled, workspaces, next_id, closed, slots, asked>>

BuildProjectionCancelled(t) ==
    /\ At(t, "project") /\ CancelSeen(t) /\ Ends(t, "cancelled")
    /\ UNCHANGED <<jobs, next_job, cancelled, workspaces, next_id, closed, slots, asked>>

(* The projections that stay: the oldest ones go first, never the current. *)
Kept(projections, current) ==
    LET others == {p \in DOMAIN projections : p # current}
        older(p) == {q \in others : projections[q] > projections[p]}
        room == MaxProjections - Cardinality(DOMAIN projections \ others)
    IN  {p \in DOMAIN projections : p = current \/ Cardinality(older(p)) < room}

(* The last section of build_and_publish_projection.  Mutation: whichever  *)
(* projection comes last becomes the current one.                          *)
PublishProjectionAnyway(t) ==
    /\ At(t, "publish")
    /\ LET w == thread[t].ws  p == thread[t].projection IN
       IF w \notin DOMAIN workspaces
       THEN Ends(t, "failed") /\ UNCHANGED workspaces
       ELSE LET all == With(workspaces[w].projections, p, thread[t].generation)
            IN  /\ workspaces' = [workspaces EXCEPT
                       ![w].current = p,
                       ![w].projections = Only(all, Kept(all, p))]
                /\ Ends(t, "ok")
    /\ UNCHANGED <<jobs, next_job, cancelled, next_id, closed, slots, asked>>

PublishProjection(t) ==
    /\ At(t, "publish")
    /\ LET w == thread[t].ws  p == thread[t].projection IN
       IF w \notin DOMAIN workspaces
       THEN Ends(t, "failed") /\ UNCHANGED workspaces
       ELSE LET item == workspaces[w]
                current == IF item.generation = thread[t].generation THEN p
                           ELSE item.current
                all == With(item.projections, p, thread[t].generation)
            IN  /\ workspaces' = [workspaces EXCEPT
                       ![w].current = current,
                       ![w].projections = Only(all, Kept(all, current))]
                /\ Ends(t, "ok")
    /\ UNCHANGED <<jobs, next_job, cancelled, next_id, closed, slots, asked>>
-----------------------------------------------------------------------------
(* get_register_state and get_call_tree: the workspace is looked up, its   *)
(* slot is locked and kept locked while the replay or the tree is built.   *)
(* A call tree of another timeline is dropped first.  A further page of a  *)
(* tree that names the tree it continues only reads the slot, or is told   *)
(* that it holds another: it changes nothing and is left out.              *)
Query(t) ==
    /\ At(t, "idle") /\ Asks("request", MaxRequests)
    /\ \E w \in DOMAIN workspaces, key \in Trees \union {"replay"} :
          thread' = [thread EXCEPT ![t].at = "slot", ![t].ws = w, ![t].key = key]
    /\ UNCHANGED <<jobs, next_job, cancelled, workspaces, next_id, closed, slots>>

SlotOf(t) == <<thread[t].ws, IF thread[t].key = "replay" THEN "replay" ELSE "tree">>
ClosedSeen(t) == thread[t].ws \in closed

TakeSlot(t) ==
    /\ At(t, "slot") /\ slots[SlotOf(t)].holder = Nobody
    /\ IF ClosedSeen(t) \/ slots[SlotOf(t)].value = thread[t].key
       THEN thread' = [thread EXCEPT ![t] = Idle] /\ UNCHANGED slots
       ELSE /\ slots' = [slots EXCEPT ![SlotOf(t)] = [holder |-> t, value |-> Nobody]]
            /\ Goes(t, "build")
    /\ UNCHANGED <<jobs, next_job, cancelled, workspaces, next_id, closed, asked>>

BuildAnalysis(t) == /\ At(t, "build") /\ ~ClosedSeen(t) /\ Goes(t, "store")
                    /\ UNCHANGED <<jobs, next_job, cancelled, workspaces, next_id,
                                   closed, slots, asked>>

(* The build fails, or sees the flag: the lock goes and the slot is empty. *)
Releases(t) == /\ slots' = [slots EXCEPT ![SlotOf(t)].holder = Nobody]
               /\ thread' = [thread EXCEPT ![t] = Idle]
               /\ UNCHANGED <<jobs, next_job, cancelled, workspaces, next_id, closed,
                              asked>>

BuildFails(t) == At(t, "build") /\ Releases(t)

(* Mutation: the analysis does not look at the flag.                       *)
BuildCancelledDeaf(t) == At(t, "build") /\ UNCHANGED service_vars

BuildCancelled(t) == At(t, "build") /\ ClosedSeen(t) /\ Releases(t)

StoreAnalysis(t) ==
    /\ At(t, "store")
    /\ slots' = [slots EXCEPT ![SlotOf(t)] = [holder |-> Nobody, value |-> thread[t].key]]
    /\ thread' = [thread EXCEPT ![t] = Idle]
    /\ UNCHANGED <<jobs, next_job, cancelled, workspaces, next_id, closed, asked>>
-----------------------------------------------------------------------------
(* close_workspace: the flags of the listed jobs; the workspace and its    *)
(* own flag; the entries of its jobs.  The number of a workspace that is   *)
(* still being opened is known from list_jobs.                             *)
Known == DOMAIN workspaces \union {jobs[j].workspace : j \in DOMAIN jobs}

CloseCancels(t) ==
    /\ At(t, "idle") /\ Asks("close", MaxCloses)
    /\ \E w \in Known :
          /\ cancelled' = cancelled \union {j \in DOMAIN jobs : jobs[j].workspace = w}
          /\ thread' = [thread EXCEPT ![t].at = "remove", ![t].ws = w]
    /\ UNCHANGED <<jobs, next_job, workspaces, next_id, closed, slots>>

CloseRemoves(t) ==
    /\ At(t, "remove")
    /\ workspaces' = Without(workspaces, {thread[t].ws})
    /\ closed' = closed \union ({thread[t].ws} \intersect DOMAIN workspaces)
    /\ Goes(t, "unlist")
    /\ UNCHANGED <<jobs, next_job, cancelled, next_id, slots, asked>>

CloseUnlists(t) ==
    /\ At(t, "unlist")
    /\ jobs' = Without(jobs, {j \in DOMAIN jobs : jobs[j].workspace = thread[t].ws})
    /\ thread' = [thread EXCEPT ![t] = Idle]
    /\ UNCHANGED <<next_job, cancelled, workspaces, next_id, closed, slots, asked>>

(* cancel_job, and cancel_all when the application exits.                  *)
CancelJob(j) ==
    /\ j \in DOMAIN jobs /\ Running(j) /\ j \notin cancelled
    /\ cancelled' = cancelled \union {j}
    /\ UNCHANGED <<jobs, next_job, workspaces, next_id, closed, slots, thread, asked>>

CancelAll ==
    /\ ~(DOMAIN jobs \subseteq cancelled /\ DOMAIN workspaces \subseteq closed)
    /\ cancelled' = cancelled \union DOMAIN jobs
    /\ closed' = closed \union DOMAIN workspaces
    /\ UNCHANGED <<jobs, next_job, workspaces, next_id, slots, thread, asked>>
-----------------------------------------------------------------------------
Open(t) == \/ OpenBegin(t) \/ Discover(t) \/ StartPair(t) \/ PrepareArtifact(t)
           \/ JoinPair(t) \/ CheckSession(t) \/ InsertWorkspace(t)
Project(t) == \/ PrepareProjection(t) \/ StartProjection(t) \/ BuildProjection(t)
              \/ BuildProjectionCancelled(t) \/ PublishProjection(t)
Analyse(t) == \/ Query(t) \/ TakeSlot(t) \/ BuildAnalysis(t) \/ BuildFails(t)
              \/ BuildCancelled(t) \/ StoreAnalysis(t)
Close(t) == CloseCancels(t) \/ CloseRemoves(t) \/ CloseUnlists(t)
FinishJob(t) == FinishReads(t) \/ FinishSets(t) \/ Prune(t)

ServiceNext ==
    \/ \E t \in Threads :
           Open(t) \/ Project(t) \/ Analyse(t) \/ Close(t) \/ FinishJob(t)
    \/ \E j \in DOMAIN jobs : CancelJob(j)
    \/ CancelAll

(* A thread that is in the middle of a command runs on.  How long a        *)
(* projection or an analysis computes is not known: only the polls of the  *)
(* flag are certain to come, so nothing is assumed of BuildProjection,     *)
(* BuildAnalysis and BuildFails.                                           *)
Proceeds(t) ==
    /\ ~At(t, "idle")
    /\ \/ Discover(t) \/ StartPair(t) \/ PrepareArtifact(t) \/ JoinPair(t)
       \/ CheckSession(t) \/ InsertWorkspace(t)
       \/ StartProjection(t) \/ BuildProjectionCancelled(t) \/ PublishProjection(t)
       \/ BuildCancelled(t) \/ StoreAnalysis(t)
       \/ CloseRemoves(t) \/ CloseUnlists(t) \/ FinishJob(t)

Fairness == \A t \in Threads :
    WF_service_vars(Proceeds(t)) /\ SF_service_vars(TakeSlot(t))
ServiceSpec == ServiceInit /\ [][ServiceNext]_service_vars /\ Fairness
-----------------------------------------------------------------------------
(* Every listed running job has a thread that will end it, so a place      *)
(* among the MaxActive is never lost for good (begin_bounded, and the      *)
(* error paths of open_selected and create_projection).                    *)
NoLostPlace ==
    \A j \in RunningJobs : \E t \in Threads : thread[t].job = j

(* A step never evicts a job that still runs: only closing its             *)
(* workspace unlists it (the eviction of begin_bounded and the prunings).  *)
RunningStaysListed ==
    \A j \in RunningJobs \ DOMAIN jobs' :
        \E t \in Threads : At(t, "unlist") /\ thread[t].ws = jobs[j].workspace

(* A projection that was asked for earlier never replaces one asked for    *)
(* later as the current one, whatever the order in which they complete,    *)
(* and the current projection is never evicted.                            *)
CurrentAdvances ==
    \A w \in DOMAIN workspaces \intersect DOMAIN workspaces' :
        LET was == workspaces[w]  is == workspaces'[w]
        IN  is.current # was.current =>
                /\ is.current \in DOMAIN is.projections
                /\ was.current # 0 =>
                      /\ was.current \in DOMAIN was.projections
                      /\ is.projections[is.current] > was.projections[was.current]

(* Once a workspace is closed nothing of it stays listed, although its     *)
(* threads may still run and its jobs may have been entered after the      *)
(* flags were set (close_workspace against prepare_projection).            *)
ClosedIsUnlisted ==
    \A j \in DOMAIN jobs :
        LET w == jobs[j].workspace
        IN  w \in closed /\ w \notin DOMAIN workspaces =>
                \E t \in Threads : At(t, "unlist") /\ thread[t].ws = w

(* Every listed running job has a thread that will end it, so a place      *)
(* among the MaxActive is never lost for good; and once a workspace is     *)
(* closed nothing of it stays listed, although its threads may still run.  *)
JobListIsTruthful == NoLostPlace /\ ClosedIsUnlisted

(* The registry never evicts a job that still runs: only closing its       *)
(* workspace unlists it.  A projection that was asked for earlier never    *)
(* replaces one asked for later as the current one, whatever the order in  *)
(* which they complete.                                                    *)
NothingIsTakenBack == [][RunningStaysListed /\ CurrentAdvances]_service_vars

(* A command whose flag is set ends: cancelling a job, closing a workspace *)
(* or leaving the application stops projections, replays and call trees,   *)
(* those that wait for a slot included.                                    *)
CancelledEnds ==
    \A t \in Threads :
        (IF thread[t].job # 0 THEN CancelSeen(t)
         ELSE thread[t].key # Nobody /\ ClosedSeen(t)) ~> At(t, "idle")
=============================================================================
