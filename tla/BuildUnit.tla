----------------------------- MODULE BuildUnit -----------------------------
(***************************************************************************)
(* One Build is several images: the web process's and one for every        *)
(* workload that declares a build of its own.  The build reconciler        *)
(* creates a Job for each, watches them and ends the Build; POST           *)
(* /builds/{name}/cancel ends it from the API; the cluster's job           *)
(* controller runs the Jobs and collects them an hour after they finished. *)
(*                                                                         *)
(* One step is one write, with the reads it rests on.  The reconciler has  *)
(* one worker, so one pass at a time.  Both writers update the Build's     *)
(* status at the resourceVersion they read: fresh names those whose copy   *)
(* no write has overtaken.                                                 *)
(***************************************************************************)
EXTENDS Integers, Sequences, FiniteSets

CONSTANTS
    Build,          \* Build objects, each of a project of its own
    Images,         \* the images a unit may have in plan order, the web one first
    Declared,       \* workloads each project declares a build for at the start
    Concurrency,    \* spec.builds.concurrency
    MaxUpsets       \* bound on edits, cancel requests and failures together

Web == Images[1]
Image == {Images[i] : i \in 1..Len(Images)}
Workload == Image \ {Web}

ASSUME BuildUnitAssumption ==
    /\ Images \in Seq(Image) /\ Len(Images) > 0
    /\ \A i, j \in 1..Len(Images) : Images[i] = Images[j] => i = j
    /\ Declared \in [Build -> SUBSET Workload]
    /\ Concurrency \in Nat \ {0} /\ MaxUpsets \in Nat

VARIABLES
    phase,      \* status.phase of a Build, "none" before anything looked at it
    started,    \* status.workloads: what the Build recorded starting
    stalled,    \* its Stalled condition
    noPod,      \* status.failure says JobHasNoPod
    fresh,      \* who holds the Build at its current resourceVersion
    job,        \* the Job behind each image
    release,    \* the images frozen on the Release, {} while there is none
    declared,   \* the workloads each project declares a build for now
    pass,       \* the reconciler's pass
    cancel,     \* the cancel request in flight
    edits, cancels, faults,     \* changes of the project, requests and failures so far
    pushed      \* history variable: images the build's Jobs have pushed

status == <<phase, started, stalled, noPod, fresh>>
bounds == <<edits, cancels, faults>>
vars == <<status, job, release, declared, pass, cancel, bounds, pushed>>

Terminal == {"Succeeded", "Failed", "Cancelled", "Skipped"}

\* A Job has no pod yet (for moments, past the grace, past the deadline), has
\* one, or has ended.
Podless == {"pending", "late", "overdue"}
Ended   == {"complete", "failed"}

Pass(pc, b, plans, todo) == [pc |-> pc, build |-> b, plans |-> plans, todo |-> todo]
NoPass == Pass("idle", CHOOSE b \in Build : TRUE, {}, {})

First(S) ==
    Images[CHOOSE i \in 1..Len(Images) :
              Images[i] \in S /\ \A j \in 1..(i - 1) : Images[j] \notin S]

Upset == edits + cancels + faults < MaxUpsets

Current(b) == "reconciler" \in fresh[b]
Write(b) == fresh' = [fresh EXCEPT ![b] = {}]
LetGo(b, who) == fresh' = [fresh EXCEPT ![b] = @ \ {who}]

-----------------------------------------------------------------------------
(* What a pass makes of a Build                                            *)

\* buildPlansFor: the web process and the declared workloads.
Planned(b) == {Web} \cup declared[b]

\* plansUnderway: what the Build recorded, or a new plan where it recorded
\* nothing.
Underway(b) == {Web} \cup (IF started[b] = {} THEN declared[b] ELSE started[b])

\* Mutant: a Job that is not there counts as done.
NoneOutstanding(b, plans) == \A w \in plans : job[b][w] \in {"complete", "none"}

AllComplete(b, plans) == \A w \in plans : job[b][w] = "complete"

\* pendingJob: the first Job that has not finished, else the web process's.
PendingJob(b, plans) ==
    LET open == {w \in plans : job[b][w] \notin {"complete", "none"}}
    IN  job[b][IF open = {} THEN Web ELSE First(open)]

\* Mutant: a Job without a pod is reported and never ended.
ReportForever(b, plans) ==
    LET pending == PendingJob(b, plans)
    IN  CASE pending \in {"late", "overdue"} /\ ~stalled[b] -> "flag"
          [] pending \notin Podless /\ stalled[b] -> "unflag"
          [] phase[b] # "Running" -> "mark"
          [] OTHER -> "idle"

\* observeRunning: what there is to write about a unit still going.
Running(b, plans) ==
    LET pending == PendingJob(b, plans)
    IN  CASE pending = "overdue" -> "stall"
          [] pending = "late" /\ ~stalled[b] -> "flag"
          [] pending \notin Podless /\ stalled[b] -> "unflag"
          [] phase[b] # "Running" -> "mark"
          [] OTHER -> "idle"

\* Where a pass goes once it has read the Build, the project and the Jobs.
Route(b) ==
    IF job[b][Web] = "none" THEN "prepare"
    ELSE IF \E w \in Underway(b) : job[b][w] = "failed" THEN "fail"
    ELSE IF AllComplete(b, Underway(b)) THEN "release"
    ELSE Running(b, Underway(b))

\* The Jobs the outcomes hold, which the end of a stalled build takes along.
Found(b) == {w \in Underway(b) : job[b][w] # "none"}

Begin(b) ==
    /\ pass.pc = "idle" /\ phase[b] \notin Terminal
    /\ pass' = CASE Route(b) = "prepare" -> Pass("prepare", b, Planned(b), {})
                 [] Route(b) = "idle" -> NoPass
                 [] Route(b) = "stall" -> Pass("stall", b, Underway(b), Found(b))
                 [] OTHER -> Pass(Route(b), b, Underway(b), {})
    /\ fresh' = [fresh EXCEPT ![b] = IF Route(b) = "idle" THEN @ ELSE @ \cup {"reconciler"}]
    /\ UNCHANGED <<phase, started, stalled, noPod, job, release, declared, cancel, bounds,
                   pushed>>

\* A Connection, a Secret or the source cannot be read: the Build waits.
Park(b) ==
    /\ pass.pc = "idle" /\ phase[b] \notin Terminal /\ Upset
    /\ phase' = [phase EXCEPT ![b] = IF @ = "none" THEN "Queued" ELSE @]
    /\ Write(b)
    /\ faults' = faults + 1
    /\ UNCHANGED <<started, stalled, noPod, job, release, declared, pass, cancel,
                   edits, cancels, pushed>>

-----------------------------------------------------------------------------
(* Starting a unit                                                         *)

\* The commit is refused, cannot be built, or changed nothing.
Refuse ==
    /\ pass.pc = "prepare" /\ Current(pass.build)
    /\ \E p \in {"Failed", "Skipped"} : phase' = [phase EXCEPT ![pass.build] = p]
    /\ stalled' = [stalled EXCEPT ![pass.build] =
                      IF phase'[pass.build] = "Failed" THEN FALSE ELSE @]
    /\ Write(pass.build) /\ pass' = NoPass
    /\ UNCHANGED <<started, noPod, job, release, declared, cancel, bounds, pushed>>

\* Mutant: the limit itself still counts as a free slot.
SlotsInclusive(b) == Cardinality({c \in Build \ {b} : phase[c] = "Running"}) <= Concurrency

\* gateConcurrency: fewer of the others are Running than may be.
FreeSlot(b) == Cardinality({c \in Build \ {b} : phase[c] = "Running"}) < Concurrency

Enqueue ==
    /\ pass.pc = "prepare" /\ ~FreeSlot(pass.build)
    /\ IF Current(pass.build) /\ phase[pass.build] # "Queued"
       THEN phase' = [phase EXCEPT ![pass.build] = "Queued"] /\ Write(pass.build)
       ELSE LetGo(pass.build, "reconciler") /\ UNCHANGED phase
    /\ pass' = NoPass
    /\ UNCHANGED <<started, stalled, noPod, job, release, declared, cancel, bounds,
                   pushed>>

Admit ==
    /\ pass.pc = "prepare" /\ FreeSlot(pass.build)
    /\ pass' = Pass("create", pass.build, pass.plans, pass.plans)
    /\ UNCHANGED <<status, job, release, declared, cancel, bounds, pushed>>

\* The builds could not be listed: the gate stands open.
AdmitUnlisted ==
    /\ pass.pc = "prepare" /\ Upset
    /\ pass' = Pass("create", pass.build, pass.plans, pass.plans)
    /\ faults' = faults + 1
    /\ UNCHANGED <<status, job, release, declared, cancel, edits, cancels, pushed>>

\* createJob, in plan order; a Job that is there already is kept.
CreateJob ==
    /\ pass.pc = "create"
    /\ LET b == pass.build
           w == First(pass.todo)
       IN  /\ job' = [job EXCEPT ![b][w] = IF @ = "none" THEN "pending" ELSE @]
           /\ pass' = IF pass.todo = {w} THEN Pass("started", b, pass.plans, {})
                      ELSE Pass("create", b, pass.plans, pass.todo \ {w})
    /\ UNCHANGED <<status, release, declared, cancel, bounds, pushed>>

Started ==
    /\ pass.pc = "started" /\ Current(pass.build)
    /\ phase' = [phase EXCEPT ![pass.build] = "Running"]
    /\ started' = [started EXCEPT ![pass.build] = pass.plans \ {Web}]
    /\ Write(pass.build) /\ pass' = NoPass
    /\ UNCHANGED <<stalled, noPod, job, release, declared, cancel, bounds, pushed>>

-----------------------------------------------------------------------------
(* Watching it and ending it                                               *)

Report ==
    /\ pass.pc \in {"flag", "unflag", "mark"} /\ Current(pass.build)
    /\ phase' = [phase EXCEPT ![pass.build] = "Running"]
    /\ stalled' = [stalled EXCEPT ![pass.build] =
                      IF pass.pc = "mark" THEN @ ELSE pass.pc = "flag"]
    /\ Write(pass.build) /\ pass' = NoPass
    /\ UNCHANGED <<started, noPod, job, release, declared, cancel, bounds, pushed>>

\* fail: one image failed, or what was built cannot be released.
Fail ==
    /\ pass.pc \in {"fail", "release"} /\ Current(pass.build)
    /\ phase' = [phase EXCEPT ![pass.build] = "Failed"]
    /\ started' = [started EXCEPT ![pass.build] = pass.plans \ {Web}]
    /\ stalled' = [stalled EXCEPT ![pass.build] = FALSE]
    /\ Write(pass.build) /\ pass' = NoPass
    /\ UNCHANGED <<noPod, job, release, declared, cancel, bounds, pushed>>

\* A Job without a pod past the deadline: the Build is failed first.
StallFails ==
    /\ pass.pc = "stall" /\ Current(pass.build)
    /\ phase' = [phase EXCEPT ![pass.build] = "Failed"]
    /\ stalled' = [stalled EXCEPT ![pass.build] = FALSE]
    /\ noPod' = [noPod EXCEPT ![pass.build] = TRUE]
    /\ Write(pass.build)
    /\ pass' = Pass("sweep", pass.build, pass.plans, pass.todo)
    /\ UNCHANGED <<started, job, release, declared, cancel, bounds, pushed>>

\* deleteStalledJobs, one Job a step; a delete that fails is passed over.
DeleteStalledJob ==
    /\ pass.pc = "sweep"
    /\ LET b == pass.build
           w == First(pass.todo)
       IN  /\ \/ job' = [job EXCEPT ![b][w] = "none"] /\ UNCHANGED faults
              \/ Upset /\ faults' = faults + 1 /\ UNCHANGED job
           /\ pass' = IF pass.todo = {w} THEN NoPass
                      ELSE Pass("sweep", b, pass.plans, pass.todo \ {w})
    /\ UNCHANGED <<status, release, declared, cancel, edits, cancels, pushed>>

\* succeed: the Release freezes the images; one that exists is left as it is.
CreateRelease ==
    /\ pass.pc = "release"
    /\ release' = [release EXCEPT ![pass.build] = IF @ = {} THEN pass.plans ELSE @]
    /\ pass' = Pass("succeed", pass.build, pass.plans, {})
    /\ UNCHANGED <<status, job, declared, cancel, bounds, pushed>>

\* Mutant: the Stalled condition stays on.
SucceededStalled ==
    /\ pass.pc = "succeed" /\ Current(pass.build)
    /\ phase' = [phase EXCEPT ![pass.build] = "Succeeded"]
    /\ started' = [started EXCEPT ![pass.build] = pass.plans \ {Web}]
    /\ Write(pass.build) /\ pass' = NoPass
    /\ UNCHANGED <<stalled, noPod, job, release, declared, cancel, bounds, pushed>>

\* Mutant: the write is made whatever came between.
SucceededAnyway ==
    /\ pass.pc = "succeed"
    /\ phase' = [phase EXCEPT ![pass.build] = "Succeeded"]
    /\ started' = [started EXCEPT ![pass.build] = pass.plans \ {Web}]
    /\ stalled' = [stalled EXCEPT ![pass.build] = FALSE]
    /\ Write(pass.build) /\ pass' = NoPass
    /\ UNCHANGED <<noPod, job, release, declared, cancel, bounds, pushed>>

Succeeded ==
    /\ pass.pc = "succeed" /\ Current(pass.build)
    /\ phase' = [phase EXCEPT ![pass.build] = "Succeeded"]
    /\ started' = [started EXCEPT ![pass.build] = pass.plans \ {Web}]
    /\ stalled' = [stalled EXCEPT ![pass.build] = FALSE]
    /\ Write(pass.build) /\ pass' = NoPass
    /\ UNCHANGED <<noPod, job, release, declared, cancel, bounds, pushed>>

\* A status write at a version that has moved on ends the pass.
Conflict ==
    /\ pass.pc \in {"prepare", "started", "flag", "unflag", "mark", "fail", "release",
                    "stall", "succeed"}
    /\ ~Current(pass.build)
    /\ pass' = NoPass
    /\ UNCHANGED <<status, job, release, declared, cancel, bounds, pushed>>

-----------------------------------------------------------------------------
(* POST /builds/{name}/cancel                                              *)

CancelBuild(b) ==
    /\ Upset /\ cancel[b] = "none" /\ phase[b] \notin Terminal
    /\ cancel' = [cancel EXCEPT ![b] = "delete"]
    /\ fresh' = [fresh EXCEPT ![b] = @ \cup {"cancel"}]
    /\ cancels' = cancels + 1
    /\ UNCHANGED <<phase, started, stalled, noPod, job, release, declared, pass,
                   edits, faults, pushed>>

\* The Job under the Build's own name is deleted, which is the web process's.
CancelDeletesJob(b) ==
    /\ cancel[b] = "delete"
    /\ job' = [job EXCEPT ![b][Web] = "none"]
    /\ cancel' = [cancel EXCEPT ![b] = "write"]
    /\ UNCHANGED <<status, release, declared, pass, bounds, pushed>>

\* The phase is written, or refused because the reconciler wrote since.
CancelWrites(b) ==
    /\ cancel[b] = "write"
    /\ IF "cancel" \in fresh[b]
       THEN phase' = [phase EXCEPT ![b] = "Cancelled"] /\ Write(b)
       ELSE UNCHANGED <<phase, fresh>>
    /\ cancel' = [cancel EXCEPT ![b] = "none"]
    /\ UNCHANGED <<started, stalled, noPod, job, release, declared, pass, bounds,
                   pushed>>

-----------------------------------------------------------------------------
(* The cluster, the project and failures                                   *)

PodStarts(b, w) ==
    /\ job[b][w] \in Podless
    /\ job' = [job EXCEPT ![b][w] = "active"]
    /\ UNCHANGED <<status, release, declared, pass, cancel, bounds, pushed>>

\* The grace passes without a pod, and then the deadline.
Ages(b, w) ==
    /\ job[b][w] \in {"pending", "late"} /\ phase[b] \notin Terminal
    /\ job' = [job EXCEPT ![b][w] = IF @ = "pending" THEN "late" ELSE "overdue"]
    /\ UNCHANGED <<status, release, declared, pass, cancel, bounds, pushed>>

JobCompletes(b, w) ==
    /\ job[b][w] = "active"
    /\ job' = [job EXCEPT ![b][w] = "complete"]
    /\ pushed' = [pushed EXCEPT ![b] = @ \cup {w}]
    /\ UNCHANGED <<status, release, declared, pass, cancel, bounds>>

JobFails(b, w) ==
    /\ job[b][w] = "active"
    /\ job' = [job EXCEPT ![b][w] = "failed"]
    /\ UNCHANGED <<status, release, declared, pass, cancel, bounds, pushed>>

\* A unit at rest: none of its Jobs runs and a pass finds nothing to write, or
\* the web process's Job is gone and another unit's turn is awaited.
AtRest(b) ==
    /\ \A v \in Image : job[b][v] \in {"none"} \cup Ended
    /\ Route(b) \in {"idle", "prepare"}

\* ttlSecondsAfterFinished.  A Job runs for less than the hour a finished one
\* is kept and the reconciler looks every 30 seconds, so a Job is collected
\* from a unit at rest; from any other after an outage, or under a timeout set
\* above the hour, which is one of the failures counted.
Collect(b, w) ==
    /\ phase[b] \notin Terminal /\ job[b][w] \in Ended
    /\ ~(pass.pc # "idle" /\ pass.build = b)
    /\ \/ AtRest(b) /\ UNCHANGED faults
       \/ ~AtRest(b) /\ Upset /\ faults' = faults + 1
    /\ job' = [job EXCEPT ![b][w] = "none"]
    /\ UNCHANGED <<status, release, declared, pass, cancel, edits, cancels, pushed>>

\* Somebody changes the project's workloads.
EditProject(b) ==
    /\ Upset
    /\ \E W \in SUBSET Workload \ {declared[b]} : declared' = [declared EXCEPT ![b] = W]
    /\ edits' = edits + 1
    /\ UNCHANGED <<status, job, release, pass, cancel, cancels, faults, pushed>>

\* A call fails or the manager restarts: the pass ends where it stands, and is
\* retried long before anything is collected.
Drop ==
    /\ Upset /\ pass.pc # "idle"
    /\ pass' = NoPass /\ LetGo(pass.build, "reconciler")
    /\ faults' = faults + 1
    /\ UNCHANGED <<phase, started, stalled, noPod, job, release, declared, cancel, edits, cancels, pushed>>

\* The replica that serves a cancel request goes away.
DropCancel(b) ==
    /\ cancel[b] # "none"
    /\ cancel' = [cancel EXCEPT ![b] = "none"] /\ LetGo(b, "cancel")
    /\ UNCHANGED <<phase, started, stalled, noPod, job, release, declared, pass, bounds,
                   pushed>>

-----------------------------------------------------------------------------
(* The specification                                                       *)

Init ==
    /\ phase = [b \in Build |-> "none"]
    /\ started = [b \in Build |-> {}]
    /\ stalled = [b \in Build |-> FALSE] /\ noPod = [b \in Build |-> FALSE]
    /\ fresh = [b \in Build |-> {}]
    /\ job = [b \in Build |-> [w \in Image |-> "none"]]
    /\ release = [b \in Build |-> {}]
    /\ declared = Declared
    /\ pass = NoPass
    /\ cancel = [b \in Build |-> "none"]
    /\ edits = 0 /\ cancels = 0 /\ faults = 0
    /\ pushed = [b \in Build |-> {}]

PassNext ==
    \/ Refuse \/ Enqueue \/ Admit \/ AdmitUnlisted \/ CreateJob \/ Started \/ Report
    \/ Fail \/ StallFails \/ DeleteStalledJob \/ CreateRelease \/ Succeeded \/ Conflict

CancelNext(b) == CancelDeletesJob(b) \/ CancelWrites(b)

Next ==
    \/ PassNext \/ Drop
    \/ \E b \in Build :
          \/ Begin(b) \/ Park(b) \/ CancelBuild(b) \/ CancelNext(b) \/ DropCancel(b)
          \/ EditProject(b)
          \/ \E w \in Image :
                \/ PodStarts(b, w) \/ Ages(b, w)
                \/ JobCompletes(b, w) \/ JobFails(b, w) \/ Collect(b, w)

Spec == Init /\ [][Next]_vars

\* Every open Build is visited again and again (a watch, a requeue after at
\* most 30 seconds, a queue that is served in order); a pass and a request run
\* on; time passes for a Job without a pod, which may never get one; a Job with
\* a pod ends, by its deadline at the latest, and one that ended is collected.
Fairness ==
    /\ \A b \in Build : SF_vars(Begin(b)) /\ WF_vars(CancelNext(b))
    /\ WF_vars(PassNext)
    /\ \A b \in Build, w \in Image :
          /\ WF_vars(Ages(b, w))
          /\ WF_vars(JobCompletes(b, w) \/ JobFails(b, w))
          /\ WF_vars(Collect(b, w))

FairSpec == Spec /\ Fairness

-----------------------------------------------------------------------------
(* Properties                                                              *)

\* Every object and every pass holds values of its type, and a pass that
\* creates or deletes Jobs has one left to go to.
TypeOK ==
    /\ phase \in [Build -> {"none", "Queued", "Running"} \cup Terminal]
    /\ started \in [Build -> SUBSET Workload]
    /\ stalled \in [Build -> BOOLEAN] /\ noPod \in [Build -> BOOLEAN]
    /\ fresh \in [Build -> SUBSET {"reconciler", "cancel"}]
    /\ job \in [Build -> [Image -> {"none", "active"} \cup Podless \cup Ended]]
    /\ release \in [Build -> SUBSET Image]
    /\ declared \in [Build -> SUBSET Workload]
    /\ pass \in {NoPass} \cup
                [pc : {"prepare", "create", "started", "flag", "unflag", "mark", "fail",
                       "stall", "sweep", "release", "succeed"},
                 build : Build, plans : SUBSET Image, todo : SUBSET Image]
    /\ pass.pc \in {"create", "sweep"} => pass.todo # {}
    /\ cancel \in [Build -> {"none", "delete", "write"}]
    /\ edits \in Nat /\ cancels \in Nat /\ faults \in Nat
    /\ pushed \in [Build -> SUBSET Image]

\* "One commit, one coordinated release": a Release freezes only images its
\* build pushed and, where nobody edited the project meanwhile, all images of
\* the unit, whether or not a pass was dropped half-way through creating the
\* Jobs, a Job was collected or the build started over.
ReleasedWhole ==
    \A b \in Build :
        /\ release[b] \subseteq pushed[b]
        /\ edits = 0 /\ release[b] # {} => release[b] = Planned(b)

StaysOver ==
    \A b \in Build : phase[b] \in Terminal =>
        /\ phase'[b] = phase[b]
        /\ \A w \in Image : phase[b] # "Cancelled" /\ job[b][w] = "none" =>
              job'[b][w] = "none"

\* A Build that is over stays what it is, though the reconciler and a cancel
\* request end it from two sides; and one the reconciler ended is never
\* started again, though ending a stall takes away the Jobs whose absence
\* means "not started".
OverStaysOver == [][StaysOver]_vars

\* As long as no call fails, no more Builds are Running than the platform's
\* concurrency, builds that start over included.
RunningWithinLimit ==
    faults = 0 => Cardinality({b \in Build : phase[b] = "Running"}) <= Concurrency

\* No Build carries a fault report on a build that worked: the Stalled
\* condition is gone from one that succeeded or failed, also where it was
\* raised and the Jobs ended between two passes.
StallCleared ==
    \A b \in Build : phase[b] \in {"Succeeded", "Failed"} => ~stalled[b]

\* "Running" is never the last thing a build has to say for itself: every Build
\* ends, with Jobs that never get a pod, units started by halves, and
\* workloads added while it runs.
BuildsEnd == \A b \in Build : <>(phase[b] \in Terminal)
=============================================================================
