------------------------- MODULE QtraceServiceProofs -------------------------
(***************************************************************************)
(* Proofs about the service behind the trace viewer: the job list tells    *)
(* the truth, and nothing that was shown is taken back.  They hold for any *)
(* set of threads and every limit of the registry and the workspaces.      *)
(***************************************************************************)
EXTENDS QtraceService, TLAPS

Opening == {"discover", "pair", "insert"}
Projecting == {"progress", "project", "publish"}
JobAt == Opening \union Projecting \union {"finish", "set"}
PlainAt == {"idle", "slot", "build", "store", "remove", "unlist"}
Places == JobAt \union PlainAt \union {"prune"}
Outcomes == {"running", "indexed", "rejected", "failed", "cancelled"}

Command ==
    [at : Places, ws : Nat, job : Nat, left : Int,
     got : BOOLEAN, pair : Seq(Outcomes), generation : Nat, projection : Nat,
     key : Trees \union {"replay", Nobody},
     result : {"none", "ok"} \union Outcomes, seen : BOOLEAN]

Jobs == [workspace : Nat, state : {"Running", "Completed", "Cancelled", "Failed"}]
Views == UNION {[S -> Nat] : S \in SUBSET Nat}
Workspaces == [generation : Nat, current : Nat, projections : Views]

(* The shape of the state, and the numbers that have been given out.       *)
ServiceTypeOK ==
    /\ thread \in [Threads -> Command]
    /\ jobs \in [DOMAIN jobs -> Jobs]
    /\ workspaces \in [DOMAIN workspaces -> Workspaces]
    /\ next_job \in Nat /\ next_id \in Nat
    /\ DOMAIN jobs \subseteq 1..next_job
    /\ DOMAIN workspaces \subseteq 1..next_id /\ closed \subseteq 1..next_id
    /\ \A t \in Threads : thread[t].job <= next_job /\ thread[t].ws <= next_id
    /\ \A j \in DOMAIN jobs : jobs[j].workspace \in 1..next_id

(* A job has one thread, and a thread that does nothing for a job has none.*)
JobsAreOwned ==
    /\ \A t, u \in Threads :
          thread[t].job = thread[u].job /\ thread[t].job # 0 => t = u
    /\ \A t \in Threads : thread[t].at \in PlainAt => thread[t].job = 0

(* The thread of a job that is listed as running is still to end it.       *)
RunningIsHeld ==
    \A j \in RunningJobs :
        \E t \in Threads : thread[t].job = j /\ thread[t].at \in JobAt

(* The number of a workspace that is being opened is nobody else's.        *)
OpensAreNew ==
    \A t \in Threads : thread[t].at \in Opening =>
        /\ thread[t].ws # 0 /\ thread[t].ws \notin DOMAIN workspaces
        /\ \A u \in Threads : thread[u].at \in Opening \union Projecting
                              /\ thread[u].ws = thread[t].ws => u = t

(* A projection that is being built has a generation of its own.           *)
GenerationsAreNew ==
    \A t \in Threads : thread[t].at \in Projecting =>
        /\ \A u \in Threads : /\ thread[u].at \in Projecting
                              /\ thread[u].ws = thread[t].ws
                              /\ thread[u].generation = thread[t].generation
                              => u = t
        /\ thread[t].ws \in DOMAIN workspaces =>
              /\ thread[t].generation <= workspaces[thread[t].ws].generation
              /\ \A p \in DOMAIN workspaces[thread[t].ws].projections :
                    workspaces[thread[t].ws].projections[p] # thread[t].generation

(* The current projection is there, and no generation is ahead of the      *)
(* last that was given out.                                                *)
ViewsAreKept ==
    \A w \in DOMAIN workspaces :
        /\ workspaces[w].current # 0 =>
              workspaces[w].current \in DOMAIN workspaces[w].projections
        /\ \A p \in DOMAIN workspaces[w].projections :
              workspaces[w].projections[p] <= workspaces[w].generation

SvInv == /\ ServiceTypeOK /\ JobsAreOwned /\ RunningIsHeld /\ ClosedIsUnlisted
         /\ OpensAreNew /\ GenerationsAreNew /\ ViewsAreKept
-----------------------------------------------------------------------------
(* What a step does to the thread that takes it.                           *)
Becomes(t, c) == c \in Command /\ thread' = [thread EXCEPT ![t] = c]

Tables == <<jobs, next_job, workspaces, next_id, closed>>

(* The thread goes on with the same job, workspace and generation.         *)
GoesOn(t, c) ==
    /\ Becomes(t, c)
    /\ c.job = thread[t].job /\ c.ws = thread[t].ws
    /\ c.generation = thread[t].generation
    /\ c.at \in Opening => thread[t].at \in Opening
    /\ c.at \in Projecting => thread[t].at \in Projecting
    /\ thread[t].at \in JobAt => c.at \in JobAt
    /\ c.at \in PlainAt => thread[t].at \in PlainAt
    /\ thread[t].at # "unlist"

(* The thread is done with its job, or had none.                           *)
LetsGo(t, c) ==
    /\ Becomes(t, c)
    /\ c.at \in PlainAt \union {"prune"} /\ c.ws <= next_id
    /\ c.job \in {0, thread[t].job} /\ (c.at \in PlainAt => c.job = 0)

(* Jobs end or go, that of thread t among them, and all those of the       *)
(* workspace it has closed.                                                *)
FewerJobs(t) ==
    /\ jobs' \in [DOMAIN jobs' -> Jobs] /\ DOMAIN jobs' \subseteq DOMAIN jobs
    /\ \A j \in DOMAIN jobs' :
          /\ jobs'[j].workspace = jobs[j].workspace
          /\ jobs'[j].state = "Running" => Running(j) /\ j # thread[t].job
          /\ At(t, "unlist") => jobs'[j].workspace # thread[t].ws

(* Views are functions on sets of numbers.                                 *)
LEMMA ViewShape == \A f : f \in Views <=> /\ DOMAIN f \subseteq Nat
                                         /\ f \in [DOMAIN f -> Nat]
<1>. TAKE f
<1>1. f \in Views => DOMAIN f \subseteq Nat /\ f \in [DOMAIN f -> Nat]
  BY Zenon DEF Views
<1>2. DOMAIN f \subseteq Nat /\ f \in [DOMAIN f -> Nat] => f \in Views
  BY DEF Views
<1>. QED  BY <1>1, <1>2

LEMMA Placed ==
    /\ "idle" \in Places /\ "discover" \in Places /\ "pair" \in Places
    /\ "progress" \in Places /\ "finish" \in Places /\ "set" \in Places
    /\ "prune" \in Places /\ "remove" \in Places /\ "unlist" \in Places
    /\ "slot" \in Places /\ \A to \in JobAt \union PlainAt : to \in Places
BY DEF Places, JobAt, PlainAt, Opening, Projecting

LEMMA NothingPrepared == <<>> \in Seq(Outcomes)
OBVIOUS

(* The other threads are as they were.                                     *)
LEMMA OthersStay ==
    ASSUME ServiceTypeOK, NEW t \in Threads, NEW c, Becomes(t, c)
    PROVE  /\ thread' \in [Threads -> Command]
           /\ thread'[t] = c
           /\ \A u \in Threads : u # t => thread'[u] = thread[u]
BY DEF ServiceTypeOK, Becomes

(* Threads keep their jobs, and what they do with them.                    *)
LEMMA OwnersStay ==
    ASSUME JobsAreOwned, RunningIsHeld, jobs' = jobs,
           \A u \in Threads :
               /\ thread'[u].job = thread[u].job
               /\ thread[u].at \in JobAt => thread'[u].at \in JobAt
               /\ thread'[u].at \in PlainAt => thread[u].at \in PlainAt
    PROVE  JobsAreOwned' /\ RunningIsHeld'
<1>1. JobsAreOwned'
  BY DEF JobsAreOwned
<1>2. RunningIsHeld'
  BY DEF RunningIsHeld, RunningJobs, Running
<1>. QED  BY <1>1, <1>2

LEMMA GoesOnInv ==
    ASSUME SvInv, NEW t \in Threads, NEW c, GoesOn(t, c), UNCHANGED Tables
    PROVE  SvInv'
<1>. USE DEF SvInv
<1>1. /\ thread' \in [Threads -> Command]
      /\ thread'[t] = c
      /\ \A u \in Threads : u # t => thread'[u] = thread[u]
  BY OthersStay DEF GoesOn
<1>2. \A u \in Threads :
        /\ thread'[u].job = thread[u].job /\ thread'[u].ws = thread[u].ws
        /\ thread'[u].generation = thread[u].generation
        /\ thread'[u].at \in Opening => thread[u].at \in Opening
        /\ thread'[u].at \in Projecting => thread[u].at \in Projecting
        /\ thread[u].at \in JobAt => thread'[u].at \in JobAt
        /\ thread'[u].at \in PlainAt => thread[u].at \in PlainAt
        /\ thread[u].at = "unlist" => thread'[u].at = "unlist"
  BY <1>1 DEF GoesOn
<1>3. /\ jobs' = jobs /\ next_job' = next_job /\ workspaces' = workspaces
      /\ next_id' = next_id /\ closed' = closed
  BY DEF Tables
<1>4. ServiceTypeOK'
  BY <1>1, <1>2, <1>3 DEF ServiceTypeOK
<1>5. JobsAreOwned' /\ RunningIsHeld'
  BY <1>2, <1>3, OwnersStay
<1>7. ClosedIsUnlisted'
  <2>1. SUFFICES ASSUME NEW j \in DOMAIN jobs, jobs[j].workspace \in closed,
                        jobs[j].workspace \notin DOMAIN workspaces
                 PROVE  \E u \in Threads : /\ thread'[u].at = "unlist"
                                           /\ thread'[u].ws = jobs[j].workspace
    BY Zenon, <1>3 DEF ClosedIsUnlisted, At
  <2>2. PICK u \in Threads : /\ thread[u].at = "unlist"
                             /\ thread[u].ws = jobs[j].workspace
    BY Zenon, <2>1 DEF ClosedIsUnlisted, At
  <2>. QED  BY Zenon, <1>2, <2>2
<1>8. OpensAreNew'
  BY <1>2, <1>3 DEF OpensAreNew
<1>9. GenerationsAreNew'
  BY <1>2, <1>3 DEF GenerationsAreNew
<1>10. ViewsAreKept'
  BY <1>3 DEF ViewsAreKept
<1>. QED  BY <1>4, <1>5, <1>7, <1>8, <1>9, <1>10

LEMMA LetsGoInv ==
    ASSUME SvInv, NEW t \in Threads, NEW c, LetsGo(t, c), FewerJobs(t),
           UNCHANGED <<next_job, workspaces, next_id, closed>>
    PROVE  SvInv'
<1>. USE DEF SvInv
<1>1. /\ thread' \in [Threads -> Command]
      /\ thread'[t] = c
      /\ \A u \in Threads : u # t => thread'[u] = thread[u]
  BY OthersStay DEF LetsGo
<1>2. /\ c.job \in {0, thread[t].job} /\ (c.at \in PlainAt => c.job = 0)
      /\ c.ws <= next_id
      /\ c.at \notin Opening /\ c.at \notin Projecting /\ c.at \notin JobAt
  BY DEF LetsGo, PlainAt, Opening, Projecting, JobAt
<1>3. /\ next_job' = next_job /\ workspaces' = workspaces
      /\ next_id' = next_id /\ closed' = closed
  OBVIOUS
<1>4. ServiceTypeOK'
  <2>1. c.job <= next_job
    BY <1>2 DEF ServiceTypeOK
  <2>2. \A u \in Threads : thread'[u].job <= next_job /\ thread'[u].ws <= next_id
    BY <1>1, <1>2, <2>1 DEF ServiceTypeOK
  <2>3. /\ jobs' \in [DOMAIN jobs' -> Jobs] /\ DOMAIN jobs' \subseteq 1..next_job
        /\ \A j \in DOMAIN jobs' : jobs'[j].workspace \in 1..next_id
    BY DEF FewerJobs, ServiceTypeOK
  <2>. QED  BY <1>1, <1>3, <2>2, <2>3 DEF ServiceTypeOK
<1>5. JobsAreOwned'
  BY <1>1, <1>2 DEF JobsAreOwned
<1>6. RunningIsHeld'
  <2>. SUFFICES ASSUME NEW j \in DOMAIN jobs', jobs'[j].state = "Running"
                PROVE  \E u \in Threads : thread'[u].job = j /\ thread'[u].at \in JobAt
    BY DEF RunningIsHeld, RunningJobs, Running
  <2>1. j \in RunningJobs /\ j # thread[t].job
    BY DEF FewerJobs, RunningJobs
  <2>2. PICK u \in Threads : thread[u].job = j /\ thread[u].at \in JobAt
    BY <2>1 DEF RunningIsHeld
  <2>3. u # t
    BY <2>1, <2>2
  <2>. QED  BY <1>1, <2>2, <2>3
<1>7. ClosedIsUnlisted'
  <2>. SUFFICES ASSUME NEW j \in DOMAIN jobs', jobs'[j].workspace \in closed,
                       jobs'[j].workspace \notin DOMAIN workspaces
                PROVE  \E u \in Threads : /\ thread'[u].at = "unlist"
                                          /\ thread'[u].ws = jobs'[j].workspace
    BY <1>3 DEF ClosedIsUnlisted, At
  <2>1. j \in DOMAIN jobs /\ jobs'[j].workspace = jobs[j].workspace
    BY DEF FewerJobs
  <2>2. PICK u \in Threads : thread[u].at = "unlist"
                             /\ thread[u].ws = jobs[j].workspace
    BY <2>1 DEF ClosedIsUnlisted, At
  <2>3. u # t
    BY <2>1, <2>2 DEF FewerJobs, At
  <2>. QED  BY <1>1, <2>1, <2>2, <2>3
<1>8. OpensAreNew'
  BY <1>1, <1>2, <1>3 DEF OpensAreNew
<1>9. GenerationsAreNew'
  BY <1>1, <1>2, <1>3 DEF GenerationsAreNew
<1>10. ViewsAreKept'
  BY <1>3 DEF ViewsAreKept
<1>. QED  BY <1>4, <1>5, <1>6, <1>7, <1>8, <1>9, <1>10

LEMMA SameJobs ==
    ASSUME SvInv, NEW t \in Threads, UNCHANGED jobs,
           thread[t].job \notin RunningJobs, thread[t].at # "unlist"
    PROVE  FewerJobs(t)
BY DEF FewerJobs, SvInv, ServiceTypeOK, RunningJobs, Running, At

(* A command ends, or takes its next step.                                 *)
LEMMA EndsGoesOn ==
    ASSUME SvInv, NEW t \in Threads, thread[t].at \in JobAt,
           NEW r \in {"ok"} \union Outcomes, Ends(t, r)
    PROVE  \E c : GoesOn(t, c)
<1>. DEFINE c == [thread[t] EXCEPT !.at = "finish", !.result = r, !.pair = <<>>]
<1>1. thread[t] \in Command /\ thread \in [Threads -> Command]
  BY DEF SvInv, ServiceTypeOK
<1>2. c \in Command
  BY Zenon, <1>1, Placed, NothingPrepared DEF Command
<1>3. thread' = [thread EXCEPT ![t] = c]
  BY Zenon DEF Ends
<1>4. /\ c.at = "finish" /\ c.job = thread[t].job /\ c.ws = thread[t].ws
      /\ c.generation = thread[t].generation
  BY <1>1 DEF Command
<1>. HIDE DEF c
<1>5. GoesOn(t, c)
  BY <1>2, <1>3, <1>4
  DEF GoesOn, Becomes, JobAt, Opening, Projecting, PlainAt
<1>. QED  BY <1>5

LEMMA GoesGoesOn ==
    ASSUME SvInv, NEW t \in Threads, NEW to, Goes(t, to),
           \/ thread[t].at \in Opening /\ to \in Opening
           \/ thread[t].at \in Projecting /\ to \in Projecting
           \/ thread[t].at = "build" /\ to = "store"
           \/ thread[t].at = "slot" /\ to = "build"
    PROVE  \E c : GoesOn(t, c)
<1>. DEFINE c == [thread[t] EXCEPT !.at = to]
<1>1. thread[t] \in Command /\ thread \in [Threads -> Command]
  BY DEF SvInv, ServiceTypeOK
<1>2. c \in Command
  <2>1. to \in Places
    BY Placed DEF JobAt, PlainAt
  <2>. QED  BY Zenon, <1>1, <2>1 DEF Command
<1>3. thread' = [thread EXCEPT ![t] = c]
  BY DEF Goes
<1>4. /\ c.at = to /\ c.job = thread[t].job /\ c.ws = thread[t].ws
      /\ c.generation = thread[t].generation
  BY <1>1 DEF Command
<1>. HIDE DEF c
<1>5. GoesOn(t, c)
  BY <1>2, <1>3, <1>4
  DEF GoesOn, Becomes, JobAt, Opening, Projecting, PlainAt
<1>. QED  BY <1>5

(* Changes inside the preparation of the artifacts.                        *)
LEMMA PairGoesOn ==
    ASSUME SvInv, NEW t \in Threads, thread[t].at \in Opening,
           NEW c \in Command, c.at \in Opening, thread' = [thread EXCEPT ![t] = c],
           c.job = thread[t].job, c.ws = thread[t].ws,
           c.generation = thread[t].generation
    PROVE  GoesOn(t, c)
BY DEF GoesOn, Becomes, JobAt, Opening, Projecting, PlainAt

LEMMA OneResult == \A S : \A q \in Seq(S) : \A i \in DOMAIN q, v \in S :
                       [q EXCEPT ![i] = v] \in Seq(S)
OBVIOUS

LEMMA OpenStays ==
    ASSUME SvInv, NEW t \in Threads,
           \/ Discover(t) \/ StartPair(t) \/ PrepareArtifact(t) \/ JoinPair(t)
           \/ CheckSession(t)
    PROVE  SvInv' /\ UNCHANGED Tables
<1>1. UNCHANGED Tables
  BY Zenon DEF Discover, StartPair, PrepareArtifact, JoinPair, CheckSession, Tables
<1>2. thread[t] \in Command /\ thread \in [Threads -> Command]
  BY DEF SvInv, ServiceTypeOK
<1>3. thread[t].at \in Opening
  BY Zenon DEF Discover, StartPair, PrepareArtifact, JoinPair, CheckSession, At, Opening
<1>4. thread[t].at \in JobAt
  BY <1>3 DEF JobAt
<1>5. CASE \E r \in {"ok"} \union Outcomes : Ends(t, r)
  BY <1>1, <1>4, <1>5, EndsGoesOn, GoesOnInv
<1>6. CASE Goes(t, "insert")
  BY <1>1, <1>3, <1>6, GoesGoesOn, GoesOnInv DEF Opening
<1>7. ASSUME NEW n \in Nat,
             thread' = [thread EXCEPT ![t].at = "pair", ![t].left = n]
      PROVE  SvInv'
  <2>. DEFINE c == [thread[t] EXCEPT !.at = "pair", !.left = n]
  <2>0. n \in Int
    OBVIOUS
  <2>1. c \in Command /\ c.at = "pair"
    BY Zenon, <1>2, <2>0, Placed DEF Command
  <2>2. /\ c.job = thread[t].job /\ c.ws = thread[t].ws
        /\ c.generation = thread[t].generation
    BY <1>2 DEF Command
  <2>3. thread' = [thread EXCEPT ![t] = c]
    BY Zenon, <1>7
  <2>. HIDE DEF c
  <2>. QED  BY Zenon, <1>1, <1>3, <2>1, <2>2, <2>3, PairGoesOn, GoesOnInv DEF Opening
<1>8. ASSUME NEW q \in Seq(Outcomes), thread' = [thread EXCEPT ![t].pair = q]
      PROVE  SvInv'
  <2>. DEFINE c == [thread[t] EXCEPT !.pair = q]
  <2>1. c \in Command /\ c.at = thread[t].at
    BY Zenon, <1>2 DEF Command
  <2>2. /\ c.job = thread[t].job /\ c.ws = thread[t].ws
        /\ c.generation = thread[t].generation
    BY <1>2 DEF Command
  <2>3. thread' = [thread EXCEPT ![t] = c]
    BY <1>8
  <2>. HIDE DEF c
  <2>. QED  BY Zenon, <1>1, <1>3, <2>1, <2>2, <2>3, PairGoesOn, GoesOnInv
<1>9. ASSUME Discover(t) PROVE SvInv'
  <2>1. CASE \E r \in {"ok"} \union Outcomes : Ends(t, r)
    BY <1>5, <2>1
  <2>2. CASE \E n \in 0..MaxArtifacts :
                thread' = [thread EXCEPT ![t].at = "pair", ![t].left = n]
    <3>1. \A n \in 0..MaxArtifacts : n \in Nat
      BY ServiceAssumption
    <3>. QED  BY Zenon, <1>7, <2>2, <3>1
  <2>. QED  BY <1>9, <2>1, <2>2 DEF Discover, Outcomes
<1>10. ASSUME StartPair(t) PROVE SvInv'
  <2>1. CASE Ends(t, "cancelled")
    BY <1>5, <2>1 DEF Outcomes
  <2>2. [i \in 1..(IF thread[t].left = 1 THEN 1 ELSE 2) |-> "running"] \in Seq(Outcomes)
    BY DEF Outcomes
  <2>3. CASE thread' = [thread EXCEPT ![t].pair =
                [i \in 1..(IF thread[t].left = 1 THEN 1 ELSE 2) |-> "running"]]
    BY Zenon, <1>8, <2>2, <2>3
  <2>. QED  BY <1>10, <2>1, <2>3 DEF StartPair
<1>11. ASSUME PrepareArtifact(t) PROVE SvInv'
  <2>1. thread[t].pair \in Seq(Outcomes)
    BY <1>2 DEF Command
  <2>2. PICK i \in DOMAIN thread[t].pair, v \in Outcomes :
           thread' = [thread EXCEPT ![t].pair[i] = v]
    BY Zenon, <1>11 DEF PrepareArtifact, Outcomes
  <2>3. [thread[t].pair EXCEPT ![i] = v] \in Seq(Outcomes)
    BY <2>1, OneResult
  <2>4. thread' = [thread EXCEPT ![t].pair = [thread[t].pair EXCEPT ![i] = v]]
    BY <2>2
  <2>. QED  BY Zenon, <1>8, <2>3, <2>4
<1>12. ASSUME JoinPair(t) PROVE SvInv'
  <2>1. thread[t].pair \in Seq(Outcomes)
    BY <1>2 DEF Command
  <2>2. CASE \E i \in DOMAIN thread[t].pair : Ends(t, thread[t].pair[i])
    <3>1. \A i \in DOMAIN thread[t].pair : thread[t].pair[i] \in Outcomes
      BY <2>1
    <3>. QED  BY Zenon, <1>5, <2>2, <3>1
  <2>3. CASE Ends(t, "failed")
    BY <1>5, <2>3 DEF Outcomes
  <2>4. ASSUME thread' = [thread EXCEPT
                  ![t].pair = <<>>, ![t].left = @ - Len(thread[t].pair),
                  ![t].got = @ \/ \E i \in DOMAIN thread[t].pair :
                                      thread[t].pair[i] = "indexed"]
        PROVE  SvInv'
    <3>. DEFINE found == thread[t].got \/ \E i \in DOMAIN thread[t].pair :
                                              thread[t].pair[i] = "indexed"
                rest == thread[t].left - Len(thread[t].pair)
                c == [thread[t] EXCEPT !.pair = <<>>, !.left = rest, !.got = found]
    <3>1. found \in BOOLEAN /\ rest \in Int /\ <<>> \in Seq(Outcomes)
      BY <1>2, <2>1 DEF Command
    <3>2. thread' = [thread EXCEPT ![t] = c]
      BY Zenon, <2>4
    <3>. HIDE DEF found, rest
    <3>3. c \in Command /\ c.at = thread[t].at
      BY Zenon, <1>2, <3>1 DEF Command
    <3>4. /\ c.job = thread[t].job /\ c.ws = thread[t].ws
          /\ c.generation = thread[t].generation
      BY <1>2 DEF Command
    <3>. HIDE DEF c
    <3>. QED  BY Zenon, <1>1, <1>3, <3>2, <3>3, <3>4, PairGoesOn, GoesOnInv
  <2>. QED  BY Zenon, <1>12, <2>2, <2>3, <2>4 DEF JoinPair
<1>13. ASSUME CheckSession(t) PROVE SvInv'
  BY <1>5, <1>6, <1>13 DEF CheckSession, Outcomes
<1>. QED  BY <1>1, <1>9, <1>10, <1>11, <1>12, <1>13
-----------------------------------------------------------------------------
(* The empty command.                                                      *)
LEMMA IdleCommand ==
    Idle \in Command /\ Idle.job = 0 /\ Idle.at = "idle" /\ Idle.ws = 0
BY Placed, NothingPrepared DEF Idle, Command, Outcomes

LEMMA IdleLetsGo ==
    ASSUME SvInv, NEW t \in Threads, thread' = [thread EXCEPT ![t] = Idle]
    PROVE  LetsGo(t, Idle)
BY IdleCommand DEF LetsGo, Becomes, PlainAt, SvInv, ServiceTypeOK

(* Job 0 is never listed.                                                  *)
LEMMA NoJobZero == ASSUME SvInv PROVE 0 \notin DOMAIN jobs /\ 0 \notin RunningJobs
BY DEF SvInv, ServiceTypeOK, RunningJobs

LEMMA PlainIsFree ==
    ASSUME SvInv, NEW t \in Threads, thread[t].at \in PlainAt
    PROVE  thread[t].job = 0 /\ thread[t].job \notin RunningJobs
BY NoJobZero DEF SvInv, JobsAreOwned

LEMMA ProjectionStays ==
    ASSUME SvInv, NEW t \in Threads,
           \/ StartProjection(t) \/ BuildProjection(t)
           \/ BuildProjectionCancelled(t)
    PROVE  SvInv' /\ UNCHANGED Tables
<1>1. UNCHANGED Tables
  BY DEF StartProjection, BuildProjection, BuildProjectionCancelled, Tables
<1>2. thread[t].at \in Projecting /\ thread[t].at \in JobAt
  BY DEF StartProjection, BuildProjection, BuildProjectionCancelled, At,
         Projecting, JobAt
<1>3. CASE \E r \in {"ok"} \union Outcomes : Ends(t, r)
  BY <1>1, <1>2, <1>3, EndsGoesOn, GoesOnInv
<1>4. CASE \E to \in Projecting : Goes(t, to)
  BY Zenon, <1>1, <1>2, <1>4, GoesGoesOn, GoesOnInv
<1>5. CASE ~Listed(t) /\ thread' = [thread EXCEPT ![t] = Idle]
  <2>1. thread[t].job \notin RunningJobs
    BY <1>5 DEF Listed, RunningJobs
  <2>2. thread[t].at # "unlist"
    BY <1>2 DEF Projecting
  <2>. QED  BY Zenon, <1>1, <1>5, <2>1, <2>2, SameJobs, IdleLetsGo, LetsGoInv DEF Tables
<1>. QED  BY <1>1, <1>3, <1>4, <1>5
          DEF StartProjection, BuildProjection, BuildProjectionCancelled,
              Projecting, Outcomes

(* The analyses and the beginning of a closing touch neither table.        *)
LEMMA AnalyseStays ==
    ASSUME SvInv, NEW t \in Threads, Analyse(t) \/ CloseCancels(t)
    PROVE  SvInv' /\ UNCHANGED Tables
<1>1. UNCHANGED Tables
  BY Zenon DEF Analyse, CloseCancels, Query, TakeSlot, BuildAnalysis, BuildFails,
         BuildCancelled, StoreAnalysis, Releases, Tables
<1>2. thread[t] \in Command /\ thread \in [Threads -> Command]
  BY DEF SvInv, ServiceTypeOK
<1>3. thread[t].at \in PlainAt /\ thread[t].at # "unlist"
  BY Zenon DEF Analyse, CloseCancels, Query, TakeSlot, BuildAnalysis, BuildFails,
         BuildCancelled, StoreAnalysis, Releases, At, PlainAt
<1>4. thread[t].job = 0 /\ thread[t].job \notin RunningJobs
  BY <1>3, PlainIsFree
<1>5. CASE thread' = [thread EXCEPT ![t] = Idle]
  BY Zenon, <1>1, <1>3, <1>4, <1>5, SameJobs, IdleLetsGo, LetsGoInv DEF Tables
<1>6. CASE \/ At(t, "build") /\ Goes(t, "store")
           \/ At(t, "slot") /\ Goes(t, "build")
  BY <1>1, <1>6, GoesGoesOn, GoesOnInv DEF At
<1>7. ASSUME NEW to \in PlainAt, NEW w \in 1..next_id, NEW key,
             key \in Trees \union {"replay", Nobody},
             thread' = [thread EXCEPT ![t].at = to, ![t].ws = w, ![t].key = key]
      PROVE  SvInv'
  <2>. DEFINE c == [thread[t] EXCEPT !.at = to, !.ws = w, !.key = key]
  <2>1. w \in Nat /\ w <= next_id
    BY DEF SvInv, ServiceTypeOK
  <2>2. c \in Command /\ c.at = to /\ c.ws = w /\ c.job = thread[t].job
    BY Zenon, <1>2, <1>7, <2>1, Placed DEF Command
  <2>3. thread' = [thread EXCEPT ![t] = c]
    BY Zenon, <1>7
  <2>. HIDE DEF c
  <2>4. LetsGo(t, c)
    BY <1>4, <2>1, <2>2, <2>3 DEF LetsGo, Becomes
  <2>. QED  BY <1>1, <1>3, <1>4, <2>4, SameJobs, LetsGoInv DEF Tables
<1>8. ASSUME Query(t) PROVE SvInv'
  <2>1. PICK w \in DOMAIN workspaces, key \in Trees \union {"replay"} :
           thread' = [thread EXCEPT ![t].at = "slot", ![t].ws = w, ![t].key = key]
    BY Zenon, <1>8 DEF Query
  <2>2. w \in 1..next_id
    BY DEF SvInv, ServiceTypeOK
  <2>. QED  BY Zenon, <1>7, <2>1, <2>2 DEF PlainAt
<1>9. ASSUME CloseCancels(t) PROVE SvInv'
  <2>1. PICK w \in Known :
           thread' = [thread EXCEPT ![t].at = "remove", ![t].ws = w]
    BY Zenon, <1>9 DEF CloseCancels
  <2>2. w \in 1..next_id
    BY DEF SvInv, ServiceTypeOK, Known
  <2>3. thread[t].key \in Trees \union {"replay", Nobody}
    BY <1>2 DEF Command
  <2>4. thread' = [thread EXCEPT ![t].at = "remove", ![t].ws = w,
                                 ![t].key = thread[t].key]
    BY Zenon, <1>2, <2>1 DEF Command
  <2>. QED  BY Zenon, <1>7, <2>2, <2>3, <2>4 DEF PlainAt
<1>. QED  BY <1>1, <1>5, <1>6, <1>8, <1>9
          DEF Analyse, TakeSlot, BuildAnalysis, BuildFails, BuildCancelled,
              StoreAnalysis, Releases

(* The flags of jobs are not part of the invariant; those of workspaces    *)
(* are only set for open ones.                                             *)
LEMMA CancelStays ==
    ASSUME SvInv, CancelAll \/ \E j \in DOMAIN jobs : CancelJob(j)
    PROVE  SvInv' /\ UNCHANGED <<jobs, next_job, workspaces, next_id, thread>>
<1>1. UNCHANGED <<jobs, next_job, workspaces, next_id, thread>>
  BY DEF CancelAll, CancelJob
<1>2. closed' = closed \/ closed' = closed \union DOMAIN workspaces
  BY DEF CancelAll, CancelJob
<1>3. ServiceTypeOK'
  BY <1>1, <1>2 DEF SvInv, ServiceTypeOK
<1>4. JobsAreOwned'
  BY <1>1 DEF SvInv, JobsAreOwned
<1>5. RunningIsHeld'
  BY <1>1 DEF SvInv, RunningIsHeld, RunningJobs, Running
<1>6. ClosedIsUnlisted'
  BY <1>1, <1>2 DEF SvInv, ClosedIsUnlisted, At
<1>7. OpensAreNew' /\ GenerationsAreNew' /\ ViewsAreKept'
  BY Zenon, <1>1 DEF SvInv, OpensAreNew, GenerationsAreNew, ViewsAreKept
<1>. QED  BY <1>1, <1>3, <1>4, <1>5, <1>6, <1>7 DEF SvInv
-----------------------------------------------------------------------------
(* The jobs that go when room is made are no longer running.               *)
LEMMA EvictedEnded == Evicted \subseteq DOMAIN jobs \ RunningJobs
BY DEF Evicted, Oldest, Ended, RunningJobs

LEMMA PrunedEnded ==
    ASSUME NEW w, NEW all
    PROVE  Pruned(w, all) \subseteq DOMAIN jobs \ RunningJobs
BY DEF Pruned, Oldest, Ended, RunningJobs

LEMMA WithoutIs ==
    ASSUME NEW f, NEW S
    PROVE  /\ DOMAIN Without(f, S) = DOMAIN f \ S
           /\ \A x \in DOMAIN f \ S : Without(f, S)[x] = f[x]
BY DEF Without, Only

LEMMA WithoutIn ==
    ASSUME NEW f, NEW S, NEW Q, \A x \in DOMAIN f : f[x] \in Q
    PROVE  Without(f, S) \in [DOMAIN f \ S -> Q]
BY DEF Without, Only

LEMMA WithIn ==
    ASSUME NEW f, NEW x, NEW Q, NEW v \in Q, \A y \in DOMAIN f : f[y] \in Q
    PROVE  With(f, x, v) \in [DOMAIN f \union {x} -> Q]
BY DEF With

LEMMA FinishReadsStays ==
    ASSUME SvInv, NEW t \in Threads, FinishReads(t)
    PROVE  SvInv' /\ UNCHANGED Tables
<1>1. UNCHANGED Tables
  BY DEF FinishReads, Tables
<1>. DEFINE c == [thread[t] EXCEPT !.at = "set",
                                   !.seen = thread[t].job \in cancelled]
<1>2. thread[t] \in Command /\ thread \in [Threads -> Command]
  BY DEF SvInv, ServiceTypeOK
<1>3. c \in Command
  <2>1. (thread[t].job \in cancelled) \in BOOLEAN
    BY SMT
  <2>. QED  BY Zenon, <1>2, <2>1, Placed DEF Command
<1>4. thread' = [thread EXCEPT ![t] = c]
  BY Zenon DEF FinishReads
<1>5. /\ c.at = "set" /\ c.job = thread[t].job /\ c.ws = thread[t].ws
      /\ c.generation = thread[t].generation
  BY <1>2 DEF Command
<1>6. thread[t].at = "finish"
  BY DEF FinishReads, At
<1>. HIDE DEF c
<1>7. GoesOn(t, c)
  BY <1>3, <1>4, <1>5, <1>6
  DEF GoesOn, Becomes, JobAt, Opening, Projecting, PlainAt
<1>. QED  BY <1>1, <1>7, GoesOnInv

LEMMA FinishSetsStays ==
    ASSUME SvInv, NEW t \in Threads, FinishSets(t)
    PROVE  SvInv'
<1>. DEFINE c == [thread[t] EXCEPT !.at = "prune"]
            final == FinalState(thread[t].result, thread[t].seen)
<1>1. thread[t] \in Command /\ thread \in [Threads -> Command]
  BY DEF SvInv, ServiceTypeOK
<1>2. c \in Command /\ c.at = "prune" /\ c.job = thread[t].job /\ c.ws = thread[t].ws
  BY Zenon, <1>1, Placed DEF Command
<1>3. thread' = [thread EXCEPT ![t] = c]
  BY DEF FinishSets, Goes
<1>4. thread[t].at = "set"
  BY DEF FinishSets, At
<1>5. final \in {"Completed", "Cancelled", "Failed"}
  BY DEF FinalState
<1>6. jobs' = IF thread[t].job \in DOMAIN jobs
              THEN [jobs EXCEPT ![thread[t].job].state = final] ELSE jobs
  BY DEF FinishSets
<1>. HIDE DEF c, final
<1>7. LetsGo(t, c)
  BY <1>2, <1>3 DEF LetsGo, Becomes, PlainAt, SvInv, ServiceTypeOK
<1>8. jobs \in [DOMAIN jobs -> Jobs]
  BY DEF SvInv, ServiceTypeOK
<1>9. CASE thread[t].job \in DOMAIN jobs
  <2>1. DOMAIN jobs' = DOMAIN jobs /\ jobs' \in [DOMAIN jobs -> Jobs]
    BY <1>5, <1>6, <1>8, <1>9 DEF Jobs
  <2>2. \A j \in DOMAIN jobs : jobs'[j].workspace = jobs[j].workspace
    BY <1>6, <1>8, <1>9 DEF Jobs
  <2>3. \A j \in DOMAIN jobs : j # thread[t].job => jobs'[j] = jobs[j]
    BY <1>6, <1>8, <1>9
  <2>4. jobs'[thread[t].job].state = final
    BY <1>6, <1>8, <1>9 DEF Jobs
  <2>5. FewerJobs(t)
    BY <1>4, <1>5, <2>1, <2>2, <2>3, <2>4 DEF FewerJobs, Running, At
  <2>. QED  BY <1>7, <2>5, LetsGoInv DEF FinishSets
<1>10. CASE thread[t].job \notin DOMAIN jobs
  <2>1. UNCHANGED jobs /\ thread[t].job \notin RunningJobs
    BY <1>6, <1>10 DEF RunningJobs
  <2>. QED  BY <1>4, <1>7, <2>1, SameJobs, LetsGoInv DEF FinishSets
<1>. QED  BY <1>9, <1>10

(* A thread that prunes has ended its job.                                 *)
LEMMA PrunerHasEnded ==
    ASSUME SvInv, NEW t \in Threads, thread[t].at = "prune"
    PROVE  thread[t].job \notin RunningJobs
<1>. SUFFICES ASSUME thread[t].job \in RunningJobs PROVE FALSE
  OBVIOUS
<1>1. PICK u \in Threads : thread[u].job = thread[t].job /\ thread[u].at \in JobAt
  BY DEF SvInv, RunningIsHeld
<1>2. u = t
  BY <1>1, NoJobZero DEF SvInv, JobsAreOwned
<1>. QED  BY <1>1, <1>2 DEF JobAt, Opening, Projecting

(* Jobs are taken off the list.                                            *)
LEMMA UnlistedAre ==
    ASSUME SvInv, NEW t \in Threads, NEW S, jobs' = Without(jobs, S),
           thread[t].job \notin RunningJobs \ S,
           At(t, "unlist") =>
               \A j \in DOMAIN jobs \ S : jobs[j].workspace # thread[t].ws
    PROVE  FewerJobs(t)
<1>1. /\ DOMAIN jobs' = DOMAIN jobs \ S
      /\ \A j \in DOMAIN jobs \ S : jobs'[j] = jobs[j]
  BY DEF Without, Only
<1>2. \A j \in DOMAIN jobs : jobs[j] \in Jobs
  BY DEF SvInv, ServiceTypeOK
<1>3. jobs' \in [DOMAIN jobs' -> Jobs]
  BY Zenon, <1>1, <1>2, WithoutIn
<1>. QED  BY <1>1, <1>3 DEF FewerJobs, RunningJobs, Running

LEMMA PruneStays ==
    ASSUME SvInv, NEW t \in Threads, Prune(t)
    PROVE  SvInv'
<1>1. thread[t].at = "prune" /\ thread' = [thread EXCEPT ![t] = Idle]
  BY DEF Prune, At
<1>2. FewerJobs(t)
  BY Zenon, <1>1, PrunerHasEnded, UnlistedAre DEF Prune, At
<1>. QED  BY Zenon, <1>1, <1>2, IdleLetsGo, LetsGoInv DEF Prune

LEMMA CloseUnlistsStays ==
    ASSUME SvInv, NEW t \in Threads, CloseUnlists(t)
    PROVE  SvInv'
<1>1. thread[t].at = "unlist" /\ thread' = [thread EXCEPT ![t] = Idle]
  BY DEF CloseUnlists, At
<1>2. FewerJobs(t)
  BY Zenon, <1>1, PlainIsFree, UnlistedAre DEF CloseUnlists, PlainAt
<1>. QED  BY Zenon, <1>1, <1>2, IdleLetsGo, LetsGoInv DEF CloseUnlists
-----------------------------------------------------------------------------
(* A workspace comes, goes, or changes; the jobs stay.                     *)
LEMMA InsertStays ==
    ASSUME SvInv, NEW t \in Threads, InsertWorkspace(t)
    PROVE  /\ SvInv' /\ UNCHANGED jobs
           /\ \A w \in DOMAIN workspaces :
                 w \in DOMAIN workspaces' /\ workspaces'[w] = workspaces[w]
<1>. DEFINE w == thread[t].ws
            item == [generation |-> 0, current |-> 0, projections |-> <<>>]
<1>1. PICK c : GoesOn(t, c) /\ c.at = "finish"
  <2>1. PICK c : GoesOn(t, c)
    BY Zenon, EndsGoesOn DEF InsertWorkspace, At, JobAt, Opening
  <2>2. thread'[t].at = "finish" /\ thread'[t] = c
    BY Zenon, <2>1, OthersStay DEF InsertWorkspace, Ends, GoesOn, SvInv, ServiceTypeOK, Command
  <2>. QED  BY <2>1, <2>2
<1>2. /\ thread' \in [Threads -> Command]
      /\ thread'[t] = c
      /\ \A u \in Threads : u # t => thread'[u] = thread[u]
  BY Zenon, <1>1, OthersStay DEF SvInv, GoesOn
<1>3. \A u \in Threads :
        /\ thread'[u].job = thread[u].job /\ thread'[u].ws = thread[u].ws
        /\ thread'[u].generation = thread[u].generation
        /\ thread'[u].at \in Opening => thread[u].at \in Opening /\ u # t
        /\ thread'[u].at \in Projecting => thread[u].at \in Projecting /\ u # t
        /\ thread[u].at \in JobAt => thread'[u].at \in JobAt
        /\ thread'[u].at \in PlainAt => thread[u].at \in PlainAt
        /\ thread[u].at = "unlist" => thread'[u].at = "unlist"
  BY Zenon, <1>1, <1>2 DEF GoesOn, Opening, Projecting
<1>4. thread[t].at \in Opening
  BY Zenon DEF InsertWorkspace, At, Opening
<1>5. w \notin DOMAIN workspaces
  BY <1>4 DEF SvInv, OpensAreNew
<1>6. /\ DOMAIN workspaces' = DOMAIN workspaces \union {w}
      /\ workspaces'[w] = item
      /\ \A x \in DOMAIN workspaces : workspaces'[x] = workspaces[x]
  BY Zenon, <1>5 DEF InsertWorkspace, With
<1>7. /\ jobs' = jobs /\ next_job' = next_job /\ next_id' = next_id
      /\ closed' = closed
  BY DEF InsertWorkspace
<1>8. w \in 1..next_id
  <2>1. w \in Nat /\ w <= next_id
    BY DEF SvInv, ServiceTypeOK, Command
  <2>2. w # 0
    BY Zenon, <1>4 DEF SvInv, OpensAreNew
  <2>. QED  BY <2>1, <2>2 DEF SvInv, ServiceTypeOK
<1>. HIDE DEF w
<1>9. item \in Workspaces
  <2>1. <<>> \in Views
    <3>1. <<>> \in [{} -> Nat]
      OBVIOUS
    <3>. QED  BY Zenon, <3>1 DEF Views
  <2>. QED  BY <2>1 DEF Workspaces
<1>10. ServiceTypeOK'
  <2>1. \A x \in DOMAIN workspaces : workspaces[x] \in Workspaces
    BY DEF SvInv, ServiceTypeOK
  <2>2. workspaces' \in [DOMAIN workspaces' -> Workspaces]
    BY Zenon, <1>6, <1>9, <2>1, WithIn DEF InsertWorkspace, w
  <2>. QED  BY Zenon, <1>2, <1>3, <1>6, <1>7, <1>8, <2>2 DEF SvInv, ServiceTypeOK
<1>11. JobsAreOwned' /\ RunningIsHeld'
  BY Zenon, <1>3, <1>7, OwnersStay DEF SvInv
<1>13. ClosedIsUnlisted'
  BY <1>3, <1>6, <1>7 DEF SvInv, ClosedIsUnlisted, At
<1>14. \A u \in Threads : u # t /\ thread[u].at \in Opening \union Projecting
                          => thread[u].ws # w
  BY <1>4 DEF SvInv, OpensAreNew, w
<1>15. OpensAreNew'
  BY <1>3, <1>6, <1>14 DEF SvInv, OpensAreNew
<1>16. GenerationsAreNew'
  BY <1>3, <1>6, <1>14 DEF SvInv, GenerationsAreNew
<1>17. ViewsAreKept'
  <2>1. DOMAIN item.projections = {} /\ item.current = 0
    OBVIOUS
  <2>. QED  BY Zenon, <1>6, <2>1 DEF SvInv, ViewsAreKept
<1>. QED  BY Zenon, <1>6, <1>7, <1>10, <1>11, <1>13, <1>15, <1>16, <1>17 DEF SvInv

LEMMA CloseRemovesStays ==
    ASSUME SvInv, NEW t \in Threads, CloseRemoves(t)
    PROVE  /\ SvInv' /\ UNCHANGED jobs
           /\ \A w \in DOMAIN workspaces' :
                 w \in DOMAIN workspaces /\ workspaces'[w] = workspaces[w]
<1>. DEFINE w == thread[t].ws
            c == [thread[t] EXCEPT !.at = "unlist"]
<1>1. thread[t] \in Command /\ thread \in [Threads -> Command]
  BY DEF SvInv, ServiceTypeOK
<1>2. thread[t].at = "remove" /\ thread' = [thread EXCEPT ![t] = c]
  BY DEF CloseRemoves, At, Goes
<1>3. /\ c \in Command /\ c.at = "unlist" /\ c.job = thread[t].job
      /\ c.ws = w
  BY Zenon, <1>1, Placed DEF Command
<1>. HIDE DEF c
<1>4. /\ thread' \in [Threads -> Command]
      /\ thread'[t] = c
      /\ \A u \in Threads : u # t => thread'[u] = thread[u]
  BY Zenon, <1>2, <1>3, OthersStay DEF SvInv, Becomes
<1>5. \A u \in Threads :
        /\ thread'[u].job = thread[u].job /\ thread'[u].ws = thread[u].ws
        /\ thread'[u].at \in JobAt <=> thread[u].at \in JobAt
        /\ thread'[u].at \in PlainAt <=> thread[u].at \in PlainAt
        /\ thread[u].at = "unlist" => thread'[u].at = "unlist"
  BY <1>2, <1>3, <1>4 DEF JobAt, PlainAt, Opening, Projecting
<1>6. \A u \in Threads : thread'[u].at \in Opening \union Projecting
                         => thread'[u] = thread[u]
  BY <1>3, <1>4 DEF Opening, Projecting
<1>7. /\ DOMAIN workspaces' = DOMAIN workspaces \ {w}
      /\ \A x \in DOMAIN workspaces' : workspaces'[x] = workspaces[x]
  BY DEF CloseRemoves, Without, Only
<1>8. /\ jobs' = jobs /\ next_job' = next_job /\ next_id' = next_id
      /\ closed \subseteq closed'
      /\ closed' \subseteq closed \union ({w} \intersect DOMAIN workspaces)
  BY DEF CloseRemoves
<1>9. ServiceTypeOK'
  <2>1. \A x \in DOMAIN workspaces : workspaces[x] \in Workspaces
    BY DEF SvInv, ServiceTypeOK
  <2>2. workspaces' \in [DOMAIN workspaces' -> Workspaces]
    BY Zenon, <1>7, <2>1, WithoutIn DEF CloseRemoves
  <2>3. DOMAIN workspaces' \subseteq 1..next_id /\ closed' \subseteq 1..next_id
    BY <1>7, <1>8 DEF SvInv, ServiceTypeOK
  <2>. QED  BY Zenon, <1>4, <1>5, <1>8, <2>2, <2>3 DEF SvInv, ServiceTypeOK
<1>10. JobsAreOwned' /\ RunningIsHeld'
  BY Zenon, <1>5, <1>8, OwnersStay DEF SvInv
<1>12. ClosedIsUnlisted'
  <2>. SUFFICES ASSUME NEW j \in DOMAIN jobs, jobs[j].workspace \in closed',
                       jobs[j].workspace \notin DOMAIN workspaces'
                PROVE  \E u \in Threads : /\ thread'[u].at = "unlist"
                                          /\ thread'[u].ws = jobs[j].workspace
    BY <1>8 DEF ClosedIsUnlisted, At
  <2>1. CASE jobs[j].workspace = w
    BY Zenon, <1>3, <1>4, <2>1
  <2>2. CASE jobs[j].workspace # w
    <3>1. jobs[j].workspace \in closed /\ jobs[j].workspace \notin DOMAIN workspaces
      BY <1>7, <1>8, <2>2
    <3>2. PICK u \in Threads : thread[u].at = "unlist"
                               /\ thread[u].ws = jobs[j].workspace
      BY <3>1 DEF SvInv, ClosedIsUnlisted, At
    <3>. QED  BY <1>5, <3>2
  <2>. QED  BY <2>1, <2>2
<1>13. OpensAreNew'
  BY Zenon, <1>6, <1>7 DEF SvInv, OpensAreNew
<1>14. GenerationsAreNew'
  BY <1>6, <1>7 DEF SvInv, GenerationsAreNew
<1>15. ViewsAreKept'
  BY Zenon, <1>7 DEF SvInv, ViewsAreKept
<1>. QED  BY Zenon, <1>7, <1>8, <1>9, <1>10, <1>12, <1>13, <1>14, <1>15 DEF SvInv

(* What the last section of a projection does to its workspace.            *)
Publishes(w, p, g, is) ==
    /\ is \in Workspaces /\ is.generation = workspaces[w].generation
    /\ is.current = (IF workspaces[w].generation = g THEN p
                     ELSE workspaces[w].current)
    /\ \A q \in DOMAIN is.projections :
          \/ q = p /\ is.projections[q] = g
          \/ /\ q \in DOMAIN workspaces[w].projections
             /\ is.projections[q] = workspaces[w].projections[q]
    /\ is.current # 0 => is.current \in DOMAIN is.projections
    /\ workspaces[w].generation = g =>
          p \in DOMAIN is.projections /\ is.projections[p] = g

LEMMA PublishIs ==
    ASSUME SvInv, NEW t \in Threads, PublishProjection(t),
           thread[t].ws \in DOMAIN workspaces
    PROVE  \E is : /\ Publishes(thread[t].ws, thread[t].projection,
                                thread[t].generation, is)
                   /\ workspaces' = [workspaces EXCEPT ![thread[t].ws] = is]
<1>. DEFINE w == thread[t].ws
            p == thread[t].projection
            g == thread[t].generation
            item == workspaces[w]
            current == IF item.generation = g THEN p ELSE item.current
            all == With(item.projections, p, g)
            kept == Only(all, Kept(all, current))
            is == [item EXCEPT !.current = current, !.projections = kept]
<1>1. /\ item \in Workspaces /\ p \in Nat /\ g \in Nat
      /\ workspaces \in [DOMAIN workspaces -> Workspaces]
  BY DEF SvInv, ServiceTypeOK, Command
<1>2. workspaces' = [workspaces EXCEPT ![w] = is]
  BY <1>1 DEF PublishProjection
<1>3. /\ DOMAIN all = DOMAIN item.projections \union {p}
      /\ all[p] = g
      /\ \A y \in DOMAIN item.projections : y # p => all[y] = item.projections[y]
  BY Zenon DEF With
<1>4. /\ DOMAIN item.projections \subseteq Nat
      /\ item.projections \in [DOMAIN item.projections -> Nat]
      /\ item.current \in Nat /\ item.generation \in Nat
  BY <1>1, ViewShape DEF Workspaces
<1>5. current # 0 => current \in DOMAIN all
  BY Zenon, <1>3 DEF SvInv, ViewsAreKept
<1>6. /\ DOMAIN kept = DOMAIN all \intersect Kept(all, current)
      /\ \A y \in DOMAIN kept : kept[y] = all[y]
      /\ kept = [y \in DOMAIN kept |-> kept[y]]
  BY Zenon DEF Only
<1>7. current \in DOMAIN all => current \in Kept(all, current)
  BY Zenon DEF Kept
<1>. HIDE DEF all
<1>8. kept \in Views
  <2>. HIDE DEF kept
  <2>0. DOMAIN all \subseteq Nat /\ \A y \in DOMAIN all : all[y] \in Nat
    BY <1>1, <1>3, <1>4
  <2>1. DOMAIN kept \subseteq Nat /\ \A y \in DOMAIN kept : kept[y] \in Nat
    BY Zenon, <1>6, <2>0
  <2>2. kept \in [DOMAIN kept -> Nat]
    BY <1>6, <2>1
  <2>. QED  BY <2>1, <2>2, ViewShape
<1>. HIDE DEF kept
<1>9. current \in Nat
  BY <1>1, <1>4
<1>10. /\ is \in Workspaces /\ is.generation = item.generation
       /\ is.current = current /\ is.projections = kept
  BY Zenon, <1>1, <1>8, <1>9 DEF Workspaces
<1>11. \A q \in DOMAIN kept : \/ q = p /\ kept[q] = g
                              \/ /\ q \in DOMAIN item.projections
                                 /\ kept[q] = item.projections[q]
  BY Zenon, <1>3, <1>6
<1>12. current # 0 => current \in DOMAIN kept
  BY Zenon, <1>5, <1>6, <1>7
<1>13. item.generation = g => p \in DOMAIN kept /\ kept[p] = g
  BY Zenon, <1>3, <1>6, <1>7
<1>. HIDE DEF is
<1>14. Publishes(w, p, g, is)
  BY Zenon, <1>10, <1>11, <1>12, <1>13 DEF Publishes
<1>. QED  BY Zenon, <1>2, <1>14

LEMMA PublishStays ==
    ASSUME SvInv, NEW t \in Threads, PublishProjection(t)
    PROVE  SvInv' /\ UNCHANGED jobs /\ CurrentAdvances
<1>. DEFINE w == thread[t].ws
            p == thread[t].projection
            g == thread[t].generation
<1>1. thread[t].at = "publish"
  BY DEF PublishProjection, At
<1>2. PICK c : GoesOn(t, c) /\ c.at = "finish"
  <2>1. PICK c : GoesOn(t, c)
    BY <1>1, EndsGoesOn DEF PublishProjection, JobAt, Projecting, Outcomes
  <2>2. thread'[t].at = "finish" /\ thread'[t] = c
    BY <2>1, OthersStay
    DEF PublishProjection, Ends, GoesOn, SvInv, ServiceTypeOK, Command
  <2>. QED  BY <2>1, <2>2
<1>3. /\ jobs' = jobs /\ next_job' = next_job /\ next_id' = next_id
      /\ closed' = closed
  BY DEF PublishProjection
<1>4. CASE w \notin DOMAIN workspaces
  <2>1. workspaces' = workspaces
    BY <1>4 DEF PublishProjection
  <2>2. SvInv'
    BY <1>2, <1>3, <2>1, GoesOnInv DEF Tables
  <2>3. CurrentAdvances
    BY <2>1 DEF CurrentAdvances
  <2>. QED  BY <1>3, <2>2, <2>3
<1>5. CASE w \in DOMAIN workspaces
  <2>1. PICK is : /\ Publishes(w, p, g, is)
                  /\ workspaces' = [workspaces EXCEPT ![w] = is]
    BY <1>5, PublishIs
  <2>2. workspaces \in [DOMAIN workspaces -> Workspaces]
    BY DEF SvInv, ServiceTypeOK
  <2>3. /\ DOMAIN workspaces' = DOMAIN workspaces /\ workspaces'[w] = is
        /\ \A x \in DOMAIN workspaces : x # w => workspaces'[x] = workspaces[x]
        /\ workspaces' \in [DOMAIN workspaces' -> Workspaces]
    BY Zenon, <1>5, <2>1, <2>2 DEF Publishes
  <2>4. /\ thread' \in [Threads -> Command]
        /\ thread'[t] = c
        /\ \A u \in Threads : u # t => thread'[u] = thread[u]
    BY <1>2, OthersStay DEF SvInv, GoesOn
  <2>5. \A u \in Threads :
          /\ thread'[u].job = thread[u].job /\ thread'[u].ws = thread[u].ws
          /\ thread'[u].generation = thread[u].generation
          /\ thread'[u].at \in Opening => thread[u].at \in Opening
          /\ thread'[u].at \in Projecting => thread[u].at \in Projecting /\ u # t
          /\ thread[u].at \in JobAt => thread'[u].at \in JobAt
          /\ thread'[u].at \in PlainAt => thread[u].at \in PlainAt
          /\ thread[u].at = "unlist" => thread'[u].at = "unlist"
    BY Zenon, <1>2, <2>4 DEF GoesOn, Projecting
  <2>6. /\ g \in Nat /\ g <= workspaces[w].generation
        /\ workspaces[w].generation \in Nat
        /\ \A q \in DOMAIN workspaces[w].projections :
              workspaces[w].projections[q] # g
    <3>1. thread[t].at \in Projecting
      BY <1>1 DEF Projecting
    <3>2. g \in Nat /\ workspaces[w].generation \in Nat
      BY Zenon, <1>5, <2>2 DEF SvInv, ServiceTypeOK, Command, Workspaces
    <3>. QED  BY Zenon, <1>5, <3>1, <3>2 DEF SvInv, GenerationsAreNew
  <2>7. ServiceTypeOK'
    BY Zenon, <1>3, <2>3, <2>4, <2>5 DEF SvInv, ServiceTypeOK
  <2>8. JobsAreOwned' /\ RunningIsHeld'
    BY Zenon, <1>3, <2>5, OwnersStay DEF SvInv
  <2>10. ClosedIsUnlisted'
    BY <1>3, <2>3, <2>5 DEF SvInv, ClosedIsUnlisted, At
  <2>11. OpensAreNew'
    BY <2>3, <2>5 DEF SvInv, OpensAreNew
  <2>12. GenerationsAreNew'
    <3>. SUFFICES ASSUME NEW u \in Threads, thread'[u].at \in Projecting
                  PROVE  /\ \A v \in Threads :
                              /\ thread'[v].at \in Projecting
                              /\ thread'[v].ws = thread'[u].ws
                              /\ thread'[v].generation = thread'[u].generation
                              => v = u
                         /\ thread'[u].ws \in DOMAIN workspaces' =>
                              /\ thread'[u].generation
                                    <= workspaces'[thread'[u].ws].generation
                              /\ \A q \in DOMAIN workspaces'[thread'[u].ws].projections :
                                    workspaces'[thread'[u].ws].projections[q]
                                       # thread'[u].generation
      BY Zenon DEF GenerationsAreNew
    <3>1. u # t /\ thread[u].at \in Projecting
      BY <2>5
    <3>2. \A v \in Threads : /\ thread'[v].at \in Projecting
                             /\ thread'[v].ws = thread'[u].ws
                             /\ thread'[v].generation = thread'[u].generation
                             => v = u
      BY Zenon, <2>5, <3>1 DEF SvInv, GenerationsAreNew
    <3>3. CASE thread[u].ws = w
      <4>1. thread[u].generation # g
        BY Zenon, <1>1, <3>1, <3>3 DEF SvInv, GenerationsAreNew, Projecting
      <4>2. /\ thread[u].generation <= workspaces[w].generation
            /\ \A q \in DOMAIN workspaces[w].projections :
                  workspaces[w].projections[q] # thread[u].generation
        BY Zenon, <1>5, <3>1, <3>3 DEF SvInv, GenerationsAreNew
      <4>. QED  BY <2>1, <2>3, <2>5, <3>2, <3>3, <4>1, <4>2 DEF Publishes
    <3>4. CASE thread[u].ws # w
      <4>1. thread[u].ws \in DOMAIN workspaces =>
                /\ thread[u].generation <= workspaces[thread[u].ws].generation
                /\ \A q \in DOMAIN workspaces[thread[u].ws].projections :
                      workspaces[thread[u].ws].projections[q] # thread[u].generation
        BY Zenon, <3>1 DEF SvInv, GenerationsAreNew
      <4>. QED  BY <2>3, <2>5, <3>2, <3>4, <4>1
    <3>. QED  BY Zenon, <3>3, <3>4
  <2>13. ViewsAreKept'
    <3>1. /\ is.current # 0 => is.current \in DOMAIN is.projections
          /\ \A q \in DOMAIN is.projections : is.projections[q] <= is.generation
      BY Zenon, <1>5, <2>1, <2>6 DEF Publishes, SvInv, ViewsAreKept
    <3>. QED  BY Zenon, <2>3, <3>1 DEF SvInv, ViewsAreKept
  <2>14. CurrentAdvances
    <3>. SUFFICES ASSUME NEW x \in DOMAIN workspaces,
                         workspaces'[x].current # workspaces[x].current
                  PROVE  LET was == workspaces[x]  now == workspaces'[x]
                         IN  /\ now.current \in DOMAIN now.projections
                             /\ was.current # 0 =>
                                  /\ was.current \in DOMAIN was.projections
                                  /\ now.projections[now.current]
                                        > was.projections[was.current]
      BY Zenon DEF CurrentAdvances
    <3>1. x = w
      BY <2>3
    <3>2. /\ workspaces[w].generation = g /\ is.current = p
          /\ p \in DOMAIN is.projections /\ is.projections[p] = g
      BY Zenon, <2>1, <2>3, <3>1 DEF Publishes
    <3>3. workspaces[w].current # 0 =>
             /\ workspaces[w].current \in DOMAIN workspaces[w].projections
             /\ workspaces[w].projections[workspaces[w].current] <= g
             /\ workspaces[w].projections[workspaces[w].current] # g
      BY Zenon, <1>5, <2>6, <3>2 DEF SvInv, ViewsAreKept
    <3>4. /\ DOMAIN workspaces[w].projections \subseteq Nat
          /\ workspaces[w].projections \in [DOMAIN workspaces[w].projections -> Nat]
      BY <1>5, <2>2, ViewShape DEF Workspaces
    <3>. QED  BY <2>3, <2>6, <3>1, <3>2, <3>3, <3>4
  <2>. QED  BY <1>3, <2>7, <2>8, <2>10, <2>11, <2>12, <2>13, <2>14 DEF SvInv
<1>. QED  BY <1>4, <1>5
-----------------------------------------------------------------------------
(* A command with a job begins.                                            *)
Starts(t, c) ==
    /\ Becomes(t, c)
    /\ c.at \in {"discover", "progress"} /\ c.job = next_job + 1
    /\ c.ws \in 1..next_id' /\ next_id' = next_id + 1
    /\ Begin(c.ws)
    /\ DOMAIN workspaces' = DOMAIN workspaces
    /\ workspaces' \in [DOMAIN workspaces -> Workspaces]
    /\ UNCHANGED closed
    /\ c.ws \notin DOMAIN workspaces => c.ws \notin closed

LEMMA BeginIs ==
    ASSUME SvInv, NEW w \in Nat, Begin(w)
    PROVE  /\ next_job' = next_job + 1
           /\ DOMAIN jobs' = (DOMAIN jobs \ Evicted) \union {next_job + 1}
           /\ jobs'[next_job + 1] = [workspace |-> w, state |-> "Running"]
           /\ \A j \in DOMAIN jobs \ Evicted : jobs'[j] = jobs[j]
           /\ jobs' \in [DOMAIN jobs' -> Jobs]
<1>. DEFINE rest == Without(jobs, Evicted)
            new == [workspace |-> w, state |-> "Running"]
<1>1. /\ DOMAIN rest = DOMAIN jobs \ Evicted
      /\ \A x \in DOMAIN jobs \ Evicted : rest[x] = jobs[x]
  BY WithoutIs
<1>2. next_job + 1 \notin DOMAIN jobs /\ next_job \in Nat
  BY DEF SvInv, ServiceTypeOK
<1>3. /\ DOMAIN jobs' = DOMAIN rest \union {next_job + 1}
      /\ jobs'[next_job + 1] = new
      /\ \A y \in DOMAIN rest : y # next_job + 1 => jobs'[y] = rest[y]
  BY DEF Begin, With
<1>. HIDE DEF rest
<1>4. \A j \in DOMAIN jobs \ Evicted : jobs'[j] = jobs[j]
  BY <1>1, <1>2, <1>3
<1>5. new \in Jobs /\ \A j \in DOMAIN jobs : jobs[j] \in Jobs
  BY DEF Jobs, SvInv, ServiceTypeOK
<1>6. jobs' \in [DOMAIN jobs' -> Jobs]
  <2>1. \A x \in DOMAIN rest : rest[x] \in Jobs
    BY <1>1, <1>5
  <2>2. jobs' = With(rest, next_job + 1, new)
    BY DEF Begin, rest
  <2>. QED  BY Zenon, <1>3, <1>5, <2>1, <2>2, WithIn
<1>. QED  BY <1>1, <1>3, <1>4, <1>6 DEF Begin

LEMMA StartsStays ==
    ASSUME SvInv, NEW t \in Threads, NEW c, thread[t].at = "idle", Starts(t, c)
    PROVE  /\ ServiceTypeOK' /\ JobsAreOwned' /\ RunningIsHeld' /\ ClosedIsUnlisted'
           /\ RunningStaysListed
<1>1. /\ thread' \in [Threads -> Command] /\ c \in Command
      /\ thread'[t] = c
      /\ \A u \in Threads : u # t => thread'[u] = thread[u]
  BY Zenon, OthersStay DEF Starts, SvInv, Becomes
<1>2. /\ c.at \in JobAt /\ c.at \notin PlainAt /\ c.job = next_job + 1
      /\ c.ws \in 1..(next_id + 1) /\ next_id' = next_id + 1
      /\ c.ws \in Nat /\ next_job \in Nat /\ next_id \in Nat
  BY Zenon, <1>1 DEF Starts, JobAt, PlainAt, Opening, Projecting, SvInv, ServiceTypeOK,
              Command
<1>3. /\ next_job' = next_job + 1
      /\ DOMAIN jobs' = (DOMAIN jobs \ Evicted) \union {next_job + 1}
      /\ jobs'[next_job + 1] = [workspace |-> c.ws, state |-> "Running"]
      /\ \A j \in DOMAIN jobs \ Evicted : jobs'[j] = jobs[j]
      /\ jobs' \in [DOMAIN jobs' -> Jobs]
  BY Zenon, <1>2, BeginIs DEF Starts
<1>4. ServiceTypeOK'
  <2>1. \A u \in Threads : thread'[u].job <= next_job' /\ thread'[u].ws <= next_id'
    <3>. TAKE u \in Threads
    <3>1. thread[u] \in Command /\ thread[u].job <= next_job /\ thread[u].ws <= next_id
      BY DEF SvInv, ServiceTypeOK
    <3>2. thread[u].job \in Nat /\ thread[u].ws \in Nat
      BY <3>1 DEF Command
    <3>3. CASE u = t
      BY <1>1, <1>2, <1>3, <3>3
    <3>4. CASE u # t
      BY <1>1, <1>2, <1>3, <3>1, <3>2, <3>4
    <3>. QED  BY <3>3, <3>4
  <2>2. DOMAIN jobs' \subseteq 1..next_job'
    BY <1>2, <1>3 DEF SvInv, ServiceTypeOK
  <2>3. \A j \in DOMAIN jobs' : jobs'[j].workspace \in 1..next_id'
    BY <1>2, <1>3 DEF SvInv, ServiceTypeOK
  <2>4. /\ DOMAIN workspaces' \subseteq 1..next_id' /\ closed' \subseteq 1..next_id'
        /\ workspaces' \in [DOMAIN workspaces' -> Workspaces]
    BY <1>2 DEF Starts, SvInv, ServiceTypeOK
  <2>5. next_job' \in Nat /\ next_id' \in Nat
    BY <1>2, <1>3
  <2>. QED  BY <1>1, <1>3, <2>1, <2>2, <2>3, <2>4, <2>5 DEF ServiceTypeOK
<1>5. JobsAreOwned'
  <2>1. \A u \in Threads : thread[u].job \in Nat /\ thread[u].job <= next_job
    BY DEF SvInv, ServiceTypeOK, Command
  <2>2. \A u \in Threads : u # t => thread'[u].job # next_job + 1
    BY <1>1, <1>2, <2>1
  <2>. QED  BY <1>1, <1>2, <2>2 DEF SvInv, JobsAreOwned
<1>6. RunningIsHeld'
  <2>. SUFFICES ASSUME NEW j \in DOMAIN jobs', jobs'[j].state = "Running"
                PROVE  \E u \in Threads : thread'[u].job = j /\ thread'[u].at \in JobAt
    BY DEF RunningIsHeld, RunningJobs, Running
  <2>1. CASE j = next_job + 1
    BY <1>1, <1>2, <2>1
  <2>2. CASE j # next_job + 1
    <3>1. j \in RunningJobs
      BY <1>3, <2>2 DEF RunningJobs, Running
    <3>2. PICK u \in Threads : thread[u].job = j /\ thread[u].at \in JobAt
      BY <3>1 DEF SvInv, RunningIsHeld
    <3>3. u # t
      BY <3>2 DEF JobAt, Opening, Projecting
    <3>. QED  BY <1>1, <3>2, <3>3
  <2>. QED  BY <2>1, <2>2
<1>7. ClosedIsUnlisted'
  <2>. SUFFICES ASSUME NEW j \in DOMAIN jobs', jobs'[j].workspace \in closed,
                       jobs'[j].workspace \notin DOMAIN workspaces
                PROVE  \E u \in Threads : /\ thread'[u].at = "unlist"
                                          /\ thread'[u].ws = jobs'[j].workspace
    BY Zenon DEF ClosedIsUnlisted, At, Starts
  <2>1. j # next_job + 1
    BY <1>3 DEF Starts
  <2>2. PICK u \in Threads : thread[u].at = "unlist"
                             /\ thread[u].ws = jobs[j].workspace
    BY <1>3, <2>1 DEF SvInv, ClosedIsUnlisted, At
  <2>3. u # t
    BY <2>2
  <2>. QED  BY <1>1, <1>3, <2>1, <2>2, <2>3
<1>8. RunningStaysListed
  BY <1>3, EvictedEnded DEF RunningStaysListed, RunningJobs
<1>. QED  BY <1>4, <1>5, <1>6, <1>7, <1>8

(* A workspace number is given out and nothing else happens.               *)
LEMMA NumberStays ==
    ASSUME SvInv, next_id' \in {next_id, next_id + 1},
           UNCHANGED <<jobs, next_job, thread, workspaces, closed>>
    PROVE  SvInv' /\ RunningStaysListed /\ CurrentAdvances
<1>1. ServiceTypeOK'
  <2>1. next_id \in Nat /\ next_id' \in Nat /\ next_id <= next_id'
    BY DEF SvInv, ServiceTypeOK
  <2>2. \A x \in 1..next_id : x \in 1..next_id'
    BY <2>1
  <2>3. \A u \in Threads : thread[u].ws \in Nat /\ thread[u].ws <= next_id'
    BY <2>1 DEF SvInv, ServiceTypeOK, Command
  <2>. QED  BY <2>1, <2>2, <2>3 DEF SvInv, ServiceTypeOK
<1>2. JobsAreOwned' /\ RunningIsHeld' /\ ClosedIsUnlisted'
  BY Zenon DEF SvInv, JobsAreOwned, RunningIsHeld, RunningJobs, Running, ClosedIsUnlisted, At
<1>3. OpensAreNew' /\ GenerationsAreNew' /\ ViewsAreKept'
  BY Zenon DEF SvInv, OpensAreNew, GenerationsAreNew, ViewsAreKept
<1>4. RunningStaysListed /\ CurrentAdvances
  BY Zenon DEF RunningStaysListed, CurrentAdvances, RunningJobs
<1>. QED  BY <1>1, <1>2, <1>3, <1>4 DEF SvInv

LEMMA OpenBeginStays ==
    ASSUME SvInv, NEW t \in Threads, OpenBegin(t)
    PROVE  SvInv' /\ RunningStaysListed /\ CurrentAdvances
<1>1. CASE ~Admits
  BY <1>1, NumberStays DEF OpenBegin
<1>2. CASE Admits
  <2>. DEFINE c == [thread[t] EXCEPT !.at = "discover", !.ws = next_id + 1,
                                     !.job = next_job + 1]
  <2>1. /\ thread[t] \in Command /\ thread \in [Threads -> Command]
        /\ next_id \in Nat /\ next_job \in Nat
        /\ closed \subseteq 1..next_id /\ DOMAIN workspaces \subseteq 1..next_id
        /\ workspaces \in [DOMAIN workspaces -> Workspaces]
    BY DEF SvInv, ServiceTypeOK
  <2>2. c \in Command /\ c.at = "discover" /\ c.ws = next_id + 1 /\ c.job = next_job + 1
    <3>1. next_id + 1 \in Nat /\ next_job + 1 \in Nat
      BY <2>1
    <3>. QED  BY Zenon, <2>1, <3>1, Placed DEF Command
  <2>3. /\ thread[t].at = "idle" /\ thread' = [thread EXCEPT ![t] = c]
        /\ Begin(next_id + 1) /\ next_id' = next_id + 1
        /\ workspaces' = workspaces /\ closed' = closed
    BY Zenon, <1>2 DEF OpenBegin, At
  <2>. HIDE DEF c
  <2>4. Starts(t, c)
    BY <2>1, <2>2, <2>3 DEF Starts, Becomes
  <2>5. /\ ServiceTypeOK' /\ JobsAreOwned' /\ RunningIsHeld' /\ ClosedIsUnlisted'
        /\ RunningStaysListed
    BY <2>3, <2>4, StartsStays
  <2>6. /\ thread'[t] = c
        /\ \A u \in Threads : u # t => thread'[u] = thread[u]
    BY Zenon, <2>2, <2>3, OthersStay DEF SvInv, Becomes
  <2>7. \A u \in Threads : thread[u].ws # next_id + 1
    BY <2>1 DEF SvInv, ServiceTypeOK, Command
  <2>8. OpensAreNew'
    BY <2>1, <2>2, <2>3, <2>6, <2>7 DEF SvInv, OpensAreNew
  <2>9. GenerationsAreNew'
    BY <2>2, <2>3, <2>6 DEF SvInv, GenerationsAreNew, Projecting
  <2>10. ViewsAreKept' /\ CurrentAdvances
    BY Zenon, <2>3 DEF SvInv, ViewsAreKept, CurrentAdvances
  <2>. QED  BY <2>5, <2>8, <2>9, <2>10 DEF SvInv
<1>. QED  BY <1>1, <1>2

LEMMA PrepareStays ==
    ASSUME SvInv, NEW t \in Threads, PrepareProjection(t)
    PROVE  SvInv' /\ RunningStaysListed /\ CurrentAdvances
<1>1. CASE ~Admits
  BY <1>1, NumberStays DEF PrepareProjection
<1>2. CASE Admits
  <2>1. PICK w \in DOMAIN workspaces :
          /\ Begin(w)
          /\ workspaces' = [workspaces EXCEPT ![w].generation = @ + 1]
          /\ next_id' = next_id + 1
          /\ thread' = [thread EXCEPT ![t].at = "progress", ![t].ws = w,
                            ![t].job = next_job + 1,
                            ![t].generation = workspaces[w].generation + 1,
                            ![t].projection = next_id + 1]
    BY Zenon, <1>2 DEF PrepareProjection
  <2>. DEFINE g == workspaces[w].generation + 1
              c == [thread[t] EXCEPT !.at = "progress", !.ws = w,
                        !.job = next_job + 1, !.generation = g,
                        !.projection = next_id + 1]
  <2>2. /\ thread[t] \in Command /\ thread \in [Threads -> Command]
        /\ next_id \in Nat /\ next_job \in Nat
        /\ w \in 1..next_id /\ w \in Nat
        /\ workspaces \in [DOMAIN workspaces -> Workspaces]
        /\ workspaces[w] \in Workspaces
    BY DEF SvInv, ServiceTypeOK
  <2>3. workspaces[w].generation \in Nat /\ g \in Nat
    BY <2>2 DEF Workspaces
  <2>4. thread[t].at = "idle" /\ closed' = closed
    BY DEF PrepareProjection, At
  <2>5. thread' = [thread EXCEPT ![t] = c]
    BY Zenon, <2>1
  <2>6. /\ DOMAIN workspaces' = DOMAIN workspaces
        /\ workspaces'[w].generation = g
        /\ workspaces'[w].current = workspaces[w].current
        /\ workspaces'[w].projections = workspaces[w].projections
        /\ \A x \in DOMAIN workspaces : x # w => workspaces'[x] = workspaces[x]
        /\ workspaces' \in [DOMAIN workspaces -> Workspaces]
    BY <2>1, <2>2, <2>3 DEF Workspaces
  <2>. HIDE DEF g
  <2>7. /\ c \in Command /\ c.at = "progress" /\ c.ws = w
        /\ c.job = next_job + 1 /\ c.generation = g
    <3>1. next_id + 1 \in Nat /\ next_job + 1 \in Nat
      BY <2>2
    <3>. QED  BY Zenon, <2>2, <2>3, <3>1, Placed DEF Command
  <2>. HIDE DEF c
  <2>8. Starts(t, c)
    <3>1. w \in 1..next_id' /\ Begin(c.ws)
      BY <2>1, <2>2, <2>7
    <3>2. DOMAIN workspaces' = DOMAIN workspaces /\ c.ws \in DOMAIN workspaces
      BY Zenon, <2>6, <2>7
    <3>. QED  BY Zenon, <2>1, <2>4, <2>5, <2>6, <2>7, <3>1, <3>2 DEF Starts, Becomes
  <2>9. /\ ServiceTypeOK' /\ JobsAreOwned' /\ RunningIsHeld' /\ ClosedIsUnlisted'
        /\ RunningStaysListed
    BY Zenon, <2>4, <2>8, StartsStays
  <2>10. /\ thread'[t] = c
         /\ \A u \in Threads : u # t => thread'[u] = thread[u]
    BY Zenon, <2>5, <2>7, OthersStay DEF SvInv, Becomes
  <2>11. OpensAreNew'
    BY <2>6, <2>7, <2>10 DEF SvInv, OpensAreNew, Opening, Projecting
  <2>12. \A u \in Threads : thread[u].at \in Projecting /\ thread[u].ws = w
             => thread[u].generation \in Nat /\ thread[u].generation < g
    <3>. TAKE u \in Threads
    <3>1. thread[u].generation \in Nat
      BY DEF SvInv, ServiceTypeOK, Command
    <3>2. thread[u].at \in Projecting /\ thread[u].ws = w
             => thread[u].generation <= workspaces[w].generation
      BY Zenon DEF SvInv, GenerationsAreNew
    <3>. QED  BY <2>3, <3>1, <3>2 DEF g
  <2>13. \A q \in DOMAIN workspaces[w].projections :
             workspaces[w].projections[q] \in Nat /\ workspaces[w].projections[q] < g
    <3>1. /\ workspaces[w].projections \in [DOMAIN workspaces[w].projections -> Nat]
          /\ \A q \in DOMAIN workspaces[w].projections :
                workspaces[w].projections[q] <= workspaces[w].generation
      BY <2>2, ViewShape DEF SvInv, ViewsAreKept, Workspaces
    <3>. QED  BY <2>3, <3>1 DEF g
  <2>14. GenerationsAreNew'
    <3>. SUFFICES ASSUME NEW u \in Threads, thread'[u].at \in Projecting
                  PROVE  /\ \A v \in Threads :
                              /\ thread'[v].at \in Projecting
                              /\ thread'[v].ws = thread'[u].ws
                              /\ thread'[v].generation = thread'[u].generation
                              => v = u
                         /\ thread'[u].ws \in DOMAIN workspaces' =>
                              /\ thread'[u].generation
                                    <= workspaces'[thread'[u].ws].generation
                              /\ \A q \in DOMAIN workspaces'[thread'[u].ws].projections :
                                    workspaces'[thread'[u].ws].projections[q]
                                       # thread'[u].generation
      BY Zenon DEF GenerationsAreNew
    <3>1. CASE u = t
      <4>1. \A v \in Threads : /\ thread'[v].at \in Projecting
                               /\ thread'[v].ws = w /\ thread'[v].generation = g
                               => v = t
        BY <2>3, <2>10, <2>12
      <4>. QED  BY <2>3, <2>6, <2>7, <2>10, <2>13, <3>1, <4>1
    <3>2. CASE u # t
      <4>1. thread'[u] = thread[u] /\ thread[u].at \in Projecting
        BY <2>10, <3>2
      <4>2. thread[u].ws = w => thread[u].generation # g
        BY <2>3, <2>12, <4>1
      <4>3. \A v \in Threads : /\ thread'[v].at \in Projecting
                               /\ thread'[v].ws = thread[u].ws
                               /\ thread'[v].generation = thread[u].generation
                               => v = u
        BY Zenon, <2>7, <2>10, <4>1, <4>2 DEF SvInv, GenerationsAreNew
      <4>4. thread[u].ws \in DOMAIN workspaces =>
                /\ thread[u].generation <= workspaces[thread[u].ws].generation
                /\ \A q \in DOMAIN workspaces[thread[u].ws].projections :
                      workspaces[thread[u].ws].projections[q] # thread[u].generation
        BY Zenon, <4>1 DEF SvInv, GenerationsAreNew
      <4>5. CASE thread[u].ws = w
        BY <2>3, <2>6, <2>12, <4>1, <4>3, <4>4, <4>5
      <4>6. CASE thread[u].ws # w
        BY <2>6, <4>1, <4>3, <4>4, <4>6
      <4>. QED  BY Zenon, <4>5, <4>6
    <3>. QED  BY Zenon, <3>1, <3>2
  <2>15. ViewsAreKept'
    <3>1. \A q \in DOMAIN workspaces'[w].projections :
             workspaces'[w].projections[q] <= workspaces'[w].generation
      BY <2>3, <2>6, <2>13
    <3>2. workspaces'[w].current # 0 =>
             workspaces'[w].current \in DOMAIN workspaces'[w].projections
      BY Zenon, <2>6 DEF SvInv, ViewsAreKept
    <3>. QED  BY Zenon, <2>6, <3>1, <3>2 DEF SvInv, ViewsAreKept
  <2>16. CurrentAdvances
    BY Zenon, <2>6 DEF CurrentAdvances
  <2>. QED  BY <2>9, <2>11, <2>14, <2>15, <2>16 DEF SvInv
<1>. QED  BY <1>1, <1>2
-----------------------------------------------------------------------------
LEMMA SameTables ==
    ASSUME SvInv, UNCHANGED <<jobs, workspaces>>
    PROVE  RunningStaysListed /\ CurrentAdvances
BY DEF RunningStaysListed, CurrentAdvances, RunningJobs

(* Every step keeps the invariant and takes nothing back.                  *)
LEMMA ServiceStep ==
    ASSUME SvInv, ServiceNext
    PROVE  SvInv' /\ RunningStaysListed /\ CurrentAdvances
<1>1. CASE CancelAll \/ \E j \in DOMAIN jobs : CancelJob(j)
  BY <1>1, CancelStays, SameTables
<1>2. ASSUME NEW t \in Threads, Open(t)
      PROVE  SvInv' /\ RunningStaysListed /\ CurrentAdvances
  <2>1. CASE OpenBegin(t)
    BY <2>1, OpenBeginStays
  <2>2. CASE InsertWorkspace(t)
    BY Zenon, <2>2, InsertStays DEF RunningStaysListed, CurrentAdvances, RunningJobs
  <2>3. CASE \/ Discover(t) \/ StartPair(t) \/ PrepareArtifact(t) \/ JoinPair(t)
             \/ CheckSession(t)
    BY <2>3, OpenStays, SameTables DEF Tables
  <2>. QED  BY <1>2, <2>1, <2>2, <2>3 DEF Open
<1>3. ASSUME NEW t \in Threads, Project(t)
      PROVE  SvInv' /\ RunningStaysListed /\ CurrentAdvances
  <2>1. CASE PrepareProjection(t)
    BY <2>1, PrepareStays
  <2>2. CASE PublishProjection(t)
    BY <2>2, PublishStays DEF RunningStaysListed, RunningJobs
  <2>3. CASE \/ StartProjection(t) \/ BuildProjection(t)
             \/ BuildProjectionCancelled(t)
    BY <2>3, ProjectionStays, SameTables DEF Tables
  <2>. QED  BY <1>3, <2>1, <2>2, <2>3 DEF Project
<1>4. ASSUME NEW t \in Threads, Analyse(t) \/ CloseCancels(t)
      PROVE  SvInv' /\ RunningStaysListed /\ CurrentAdvances
  BY <1>4, AnalyseStays, SameTables DEF Tables
<1>5. ASSUME NEW t \in Threads, CloseRemoves(t)
      PROVE  SvInv' /\ RunningStaysListed /\ CurrentAdvances
  BY Zenon, <1>5, CloseRemovesStays DEF RunningStaysListed, CurrentAdvances, RunningJobs
<1>6. ASSUME NEW t \in Threads, CloseUnlists(t)
      PROVE  SvInv' /\ RunningStaysListed /\ CurrentAdvances
  <2>1. RunningStaysListed
    <3>1. DOMAIN jobs' = DOMAIN jobs \ {j \in DOMAIN jobs :
                                           jobs[j].workspace = thread[t].ws}
      BY Zenon, <1>6, WithoutIs DEF CloseUnlists
    <3>. QED  BY Zenon, <1>6, <3>1 DEF RunningStaysListed, RunningJobs, CloseUnlists
  <2>2. CurrentAdvances
    BY <1>6 DEF CloseUnlists, CurrentAdvances
  <2>. QED  BY <1>6, <2>1, <2>2, CloseUnlistsStays
<1>7. ASSUME NEW t \in Threads, FinishJob(t)
      PROVE  SvInv' /\ RunningStaysListed /\ CurrentAdvances
  <2>1. CASE FinishReads(t)
    BY <2>1, FinishReadsStays, SameTables DEF Tables
  <2>2. CASE FinishSets(t)
    <3>1. DOMAIN jobs' = DOMAIN jobs /\ workspaces' = workspaces
      BY <2>2 DEF FinishSets, SvInv, ServiceTypeOK
    <3>. QED  BY <2>2, <3>1, FinishSetsStays
              DEF RunningStaysListed, CurrentAdvances, RunningJobs
  <2>3. CASE Prune(t)
    <3>1. /\ DOMAIN jobs' = DOMAIN jobs \ Pruned(thread[t].ws, thread[t].projection = 0)
          /\ workspaces' = workspaces
      BY Zenon, <2>3, WithoutIs DEF Prune
    <3>2. RunningStaysListed
      BY Zenon, <3>1, PrunedEnded DEF RunningStaysListed, RunningJobs
    <3>3. CurrentAdvances
      BY Zenon, <3>1 DEF CurrentAdvances
    <3>. QED  BY <2>3, <3>2, <3>3, PruneStays
  <2>. QED  BY <1>7, <2>1, <2>2, <2>3 DEF FinishJob
<1>. QED  BY <1>1, <1>2, <1>3, <1>4, <1>5, <1>6, <1>7 DEF ServiceNext, Close

LEMMA ServiceStutter ==
    ASSUME SvInv, UNCHANGED service_vars
    PROVE  SvInv'
<1>1. UNCHANGED <<jobs, next_job, thread, workspaces, next_id, closed>>
  BY DEF service_vars
<1>2. next_id \in Nat
  BY DEF SvInv, ServiceTypeOK
<1>. QED  BY <1>1, <1>2, NumberStays

LEMMA ServiceInitInv == ServiceInit => SvInv
<1>. SUFFICES ASSUME ServiceInit PROVE SvInv
  OBVIOUS
<1>1. /\ DOMAIN jobs = {} /\ DOMAIN workspaces = {} /\ closed = {}
      /\ next_job = 0 /\ next_id = 0
      /\ jobs \in [DOMAIN jobs -> Jobs]
      /\ workspaces \in [DOMAIN workspaces -> Workspaces]
  BY DEF ServiceInit
<1>2. \A t \in Threads : thread[t] = Idle
  BY Zenon DEF ServiceInit
<1>3. thread \in [Threads -> Command]
  BY Zenon, IdleCommand DEF ServiceInit
<1>4. ServiceTypeOK
  BY <1>1, <1>2, <1>3, IdleCommand DEF ServiceTypeOK
<1>5. JobsAreOwned
  BY <1>2, IdleCommand DEF JobsAreOwned
<1>6. RunningIsHeld /\ ClosedIsUnlisted /\ ViewsAreKept
  BY <1>1 DEF RunningIsHeld, RunningJobs, ClosedIsUnlisted, ViewsAreKept
<1>7. OpensAreNew /\ GenerationsAreNew
  BY Zenon, <1>2, IdleCommand DEF OpensAreNew, GenerationsAreNew, Opening, Projecting
<1>. QED  BY <1>4, <1>5, <1>6, <1>7 DEF SvInv

(* The inductive invariant of the service.                                 *)
THEOREM ServiceInvariant == ServiceSpec => []SvInv
<1>1. SvInv /\ [ServiceNext]_service_vars => SvInv'
  BY ServiceStep, ServiceStutter
<1>. QED  BY <1>1, ServiceInitInv, PTL DEF ServiceSpec

(* Every listed running job has a thread that will end it, and nothing of  *)
(* a closed workspace stays listed, for any number of threads, commands    *)
(* and retained jobs.                                                      *)
THEOREM JobListStaysTruthful == ServiceSpec => []JobListIsTruthful
<1>1. SvInv => JobListIsTruthful
  BY DEF SvInv, RunningIsHeld, JobListIsTruthful, NoLostPlace
<1>. QED  BY <1>1, ServiceInvariant, PTL

(* No step unlists a running job but the closing of its workspace, and the *)
(* current projection of a workspace is only replaced by one that was      *)
(* asked for later, in whatever order they complete.                       *)
THEOREM NothingGoesBack == ServiceSpec => NothingIsTakenBack
<1>1. SvInv /\ [ServiceNext]_service_vars
          => [RunningStaysListed /\ CurrentAdvances]_service_vars
  BY ServiceStep
<1>. QED  BY <1>1, ServiceInvariant, PTL DEF ServiceSpec, NothingIsTakenBack
=============================================================================
