----------------------------- MODULE DeployTasks -----------------------------
(***************************************************************************)
(* The deploy tasks of one Environment: the Jobs (a schema migration is    *)
(* the usual one) a release declares, which run once per deploy, in order, *)
(* and before the release serves anything.                                 *)
(*                                                                         *)
(* The environment reconciler holds nothing between passes.  It remembers  *)
(* a task by its row in status.processes, the number of runs started and   *)
(* how the last one went, and by the Job, whose name is made of that       *)
(* number.  A pass reads the Environment, brings each task up to date and  *)
(* either stops there, having written the rows, or applies the Deployment  *)
(* and then writes them.  Beside it the target release moves, a person     *)
(* asks for a task to be run again, and the kubelet and the job controller *)
(* decide what becomes of a Job.  One step is one call to the API server.  *)
(*                                                                         *)
(* The Environment is read from the informer's cache, which in a lagging   *)
(* behaviour trails the API server by any number of writes.  Jobs are read *)
(* as they are: the Job informer is taken to have caught up.               *)
(***************************************************************************)
EXTENDS Integers, Sequences, FiniteSets

CONSTANTS
    Task,           \* names of deploy tasks
    Release,        \* the releases the environment is moved between
    Declares,       \* the tasks a release declares, in order
    RunsHere,       \* those of them that run in this type of environment
    FirstRelease,   \* the target when the environment appears
    Lagging,        \* may the cache fall behind: the choices explored
    TaskRunHistory, \* finished runs of a task that are kept
    MaxUpsets,      \* bound on moves, retries, lost Jobs and dropped passes,
                    \* for a lagging behaviour and for one that is not
    MaxRuns         \* bound on the number in a run's name

None == 0   \* no release

Run == Task \X (1..MaxRuns)

ASSUME DeployTasksAssumption ==
    /\ IsFiniteSet(Task)
    /\ Release \subseteq Nat \ {None} /\ FirstRelease \in Release
    /\ Declares \in [Release -> Seq(Task)]
    /\ \A r \in Release : \A i, j \in DOMAIN Declares[r] :
          Declares[r][i] = Declares[r][j] => i = j
    /\ RunsHere \in [Release -> SUBSET Task]
    /\ Lagging \subseteq BOOLEAN
    /\ TaskRunHistory \in Nat /\ MaxUpsets \in [Lagging -> Nat] /\ MaxRuns \in Nat

VARIABLES
    target,     \* spec.releaseRef
    rows,       \* status.processes, the deploy tasks' rows
    jobs,       \* what became of each run's Job
    serving,    \* the release the Deployment runs
    pass,       \* the reconciler's pass, with its copy of the Environment
    lagging,    \* whether the cache falls behind in this behaviour
    envSeen,    \* the Environment in the cache
    envBehind,  \* the Environment was written since it was cached
    upsets,     \* moves, retries, lost Jobs and dropped passes so far
    owed,       \* history: runs of each task its deploys and retries account for
    started,    \* history: Jobs of each task that were ever created
    newest      \* history: the run of each task created last

cache  == <<lagging, envSeen, envBehind>>
ghosts == <<owed, started, newest>>
vars   == <<target, rows, jobs, serving, pass, cache, upsets, ghosts>>

-----------------------------------------------------------------------------
(***************************************************************************)
(* Rows, Jobs and passes                                                   *)
(***************************************************************************)

\* A row: the release the last run was for, its number, how it went.
Row(r, n, phase) == [release |-> r, attempt |-> n, phase |-> phase]
NoRow == Row(None, 0, "none")

\* refused: its pod is one the kubelet will not start; late: it did after all.
Unfinished == {"refused", "running", "late"}
Finished   == {"succeeded", "failed"}

\* A Job says it is running for as long as it is not finished, refused or not.
RunOf(job) ==
    CASE job \in Unfinished  -> "Running"
      [] job = "succeeded"   -> "Succeeded"
      [] job = "failed"      -> "Failed"

\* Mutant: the Job's own word is copied into the row.
ObservedRaw(job) == job

\* The pod tells a run the kubelet will not start from one that takes long.
Observed(job) == IF job = "refused" THEN "Failed" ELSE RunOf(job)

\* out: "clear", the release may be applied; "waiting" and "failed" block it.
Pass(pc, r, rs, next, out, refused, current) ==
    [pc |-> pc, release |-> r, rows |-> rs, next |-> next, out |-> out,
     refused |-> refused, current |-> current]
Idle == Pass("idle", None, [t \in Task |-> NoRow], 1, "clear", {}, FALSE)

Upset == upsets < MaxUpsets[lagging] /\ upsets' = upsets + 1

\* A write to the Environment: every other copy of it is an old one now.
EnvWritten == envBehind' = TRUE /\ UNCHANGED <<lagging, envSeen>>

-----------------------------------------------------------------------------
(***************************************************************************)
(* A pass: the tasks of the release, one after the other                   *)
(***************************************************************************)

\* The pass goes on to the next task, or past the last of them.
Goto(p) ==
    pass' = [p EXCEPT !.pc = IF p.next <= Len(Declares[p.release]) THEN "tasks"
                             ELSE IF p.out = "clear" THEN "apply" ELSE "verdict"]

Begin ==
    /\ pass.pc = "idle"
    /\ LET env == IF lagging THEN envSeen ELSE [target |-> target, rows |-> rows]
           current == ~lagging \/ ~envBehind
       IN  Goto(Pass("tasks", env.target, env.rows, 1, "clear", {}, current))
    /\ UNCHANGED <<target, rows, jobs, serving, cache, upsets, ghosts>>

Here    == Declares[pass.release][pass.next]
HereRow == pass.rows[Here]
AtTask(t) == pass.pc = "tasks" /\ Here = t

\* The next task starts from the row and the outcome this one left.
Done(row, out) ==
    [pass EXCEPT !.rows[Here] = row, !.out = out, !.next = @ + 1]

\* Declared and not run here: its history goes, the number in its name stays.
Suspend(t) ==
    /\ AtTask(t) /\ t \notin RunsHere[pass.release]
    /\ Goto(Done(Row(None, HereRow.attempt, "none"), pass.out))
    /\ UNCHANGED <<target, rows, jobs, serving, cache, upsets, ghosts>>

Behind(t) ==
    /\ AtTask(t) /\ t \in RunsHere[pass.release] /\ pass.out # "clear"
    /\ Goto(Done(HereRow, pass.out))
    /\ UNCHANGED <<target, rows, jobs, serving, cache, upsets, ghosts>>

Turn(t) == AtTask(t) /\ t \in RunsHere[pass.release] /\ pass.out = "clear"

ThisDeploys == HereRow.release = pass.release /\ HereRow.phase # "none"
HereJob == IF HereRow.attempt = 0 THEN "absent" ELSE jobs[<<Here, HereRow.attempt>>]

\* What the row says after a look at its Job, if there is one.
Looked == IF HereJob = "absent" THEN HereRow
          ELSE [HereRow EXCEPT !.phase = Observed(HereJob)]

\* A run its pod was refused to is ended by this pass, once that is on record.
WithRefused(p) ==
    IF HereJob = "refused" THEN [p EXCEPT !.refused = @ \cup {<<Here, HereRow.attempt>>}]
    ELSE p

\* Mutant: a failure is a warning.
OutcomeLenient(phase) == IF phase = "Running" THEN "waiting" ELSE "clear"

\* What a run's phase means for the deploy.
Outcome(phase) ==
    CASE phase = "Succeeded" -> "clear"
      [] phase = "Failed"    -> "failed"
      [] OTHER               -> "waiting"

\* The run was this deploy's, and its Job gone is only a fault while it ran.
ObserveRun(t) ==
    /\ Turn(t) /\ ThisDeploys
    /\ ~(HereJob = "absent" /\ HereRow.phase = "Running")
    /\ Goto(WithRefused(Done(Looked, Outcome(Looked.phase))))
    /\ UNCHANGED <<target, rows, jobs, serving, cache, upsets, ghosts>>

\* The run the deploy before this one made is waited for, not killed.
AwaitPreviousRun(t) ==
    /\ Turn(t) /\ ~ThisDeploys
    /\ HereRow.phase = "Running" /\ HereJob # "absent" /\ Looked.phase = "Running"
    /\ Goto(Done(Looked, "waiting"))
    /\ UNCHANGED <<target, rows, jobs, serving, cache, upsets, ghosts>>

\* Mutant: the previous deploy's run is not waited for.
RunDueRacing == ThisDeploys => HereJob = "absent" /\ HereRow.phase = "Running"

\* Mutant: a verdict does not outlive its Job.
RunDueAgain ==
    IF ThisDeploys THEN HereJob = "absent"
    ELSE ~(HereRow.phase = "Running" /\ HereJob # "absent" /\ Looked.phase = "Running")

\* A run is due when none was made for this deploy, the previous deploy's being
\* over, or when the one made is gone and no verdict was reached.
RunDue ==
    IF ThisDeploys THEN HereJob = "absent" /\ HereRow.phase = "Running"
    ELSE ~(HereRow.phase = "Running" /\ HereJob # "absent" /\ Looked.phase = "Running")

\* Finished runs of the task beyond the history, the one just started apart.
Outlived(t, n) ==
    LET done == {m \in 1..MaxRuns \ {n} : jobs[<<t, m>>] \in Finished}
    IN  {<<t, m>> : m \in {k \in done : Cardinality({l \in done : l > k}) >= TaskRunHistory}}

\* The previous deploy's run may have been found refused on the way here.
RunStarted(row) ==
    LET p == Done(row, "waiting")
    IN  Goto(IF ~ThisDeploys /\ HereRow.phase = "Running" THEN WithRefused(p) ELSE p)

\* The latest run of a task, and whether the row of the deploy it was made for
\* came to name it.
Created(n, r) == [attempt |-> n, release |-> r, ok |-> FALSE, recorded |-> FALSE]

\* The Job is created, with a pod that the kubelet starts or one it refuses.
StartRun(t) ==
    /\ Turn(t) /\ RunDue
    /\ HereRow.attempt < MaxRuns
    /\ LET n == HereRow.attempt + 1 IN
       /\ jobs[<<t, n>>] = "absent"
       /\ \E fate \in {"running", "refused"} :
             jobs' = [j \in Run |-> IF j = <<t, n>> THEN fate
                                    ELSE IF j \in Outlived(t, n) THEN "absent" ELSE jobs[j]]
       /\ started' = [started EXCEPT ![t] = @ + 1]
       /\ newest' = [newest EXCEPT ![t] = Created(n, pass.release)]
       /\ RunStarted(Row(pass.release, n, "Running"))
    /\ UNCHANGED <<target, rows, serving, cache, upsets, owed>>

\* Mutant: a name that is taken is an error.
AdoptNothing(t) ==
    /\ Turn(t) /\ RunDue
    /\ HereRow.attempt < MaxRuns /\ jobs[<<t, HereRow.attempt + 1>>] # "absent"
    /\ pass' = Idle
    /\ UNCHANGED <<target, rows, jobs, serving, cache, upsets, ghosts>>

\* The name is taken: the Job is read back and is this deploy's run.
AdoptRun(t) ==
    /\ Turn(t) /\ RunDue
    /\ HereRow.attempt < MaxRuns
    /\ LET n == HereRow.attempt + 1 IN
       /\ jobs[<<t, n>>] # "absent"
       /\ jobs' = [j \in Run |-> IF j \in Outlived(t, n) THEN "absent" ELSE jobs[j]]
       /\ RunStarted(Row(pass.release, n, RunOf(jobs[<<t, n>>])))
    /\ UNCHANGED <<target, rows, serving, cache, upsets, ghosts>>

-----------------------------------------------------------------------------
(***************************************************************************)
(* A pass: what comes of it                                                *)
(***************************************************************************)

\* The deploy is blocked: the rows are written, and then refused Jobs go.
WriteVerdict ==
    /\ pass.pc = "verdict" /\ pass.current
    /\ rows' = pass.rows
    /\ EnvWritten
    /\ pass' = IF pass.refused = {} THEN Idle ELSE [pass EXCEPT !.pc = "delete"]
    /\ newest' = [t \in Task |->
           IF pass.rows[t].attempt = newest[t].attempt /\ pass.rows[t].release = newest[t].release
           THEN [newest[t] EXCEPT !.recorded = TRUE] ELSE newest[t]]
    /\ UNCHANGED <<target, jobs, serving, upsets, owed, started>>

DeleteRefused ==
    /\ pass.pc = "delete"
    /\ jobs' = [j \in Run |-> IF j \in pass.refused THEN "absent" ELSE jobs[j]]
    /\ pass' = Idle
    /\ UNCHANGED <<target, rows, serving, cache, upsets, ghosts>>

\* Every task of the release has run for it: the Deployment moves.
ApplyDeployment ==
    /\ pass.pc = "apply"
    /\ serving' = pass.release
    /\ pass' = [pass EXCEPT !.pc = "status"]
    /\ UNCHANGED <<target, rows, jobs, cache, upsets, ghosts>>

\* The rows written then are those of the tasks the release declares.
WriteStatus ==
    /\ pass.pc = "status" /\ pass.current
    /\ rows' = [t \in Task |-> IF \E i \in DOMAIN Declares[pass.release] :
                                     Declares[pass.release][i] = t
                               THEN pass.rows[t] ELSE NoRow]
    /\ EnvWritten
    /\ pass' = Idle
    /\ UNCHANGED <<target, jobs, serving, upsets, ghosts>>

\* The Environment moved since it was read: the write is refused.
Conflict ==
    /\ pass.pc \in {"verdict", "status"} /\ ~pass.current
    /\ pass' = Idle
    /\ UNCHANGED <<target, rows, jobs, serving, cache, upsets, ghosts>>

\* An error or a restart of the manager; a refused Job not deleted is one too.
Drop ==
    /\ pass.pc # "idle"
    /\ Upset
    /\ pass' = Idle
    /\ UNCHANGED <<target, rows, jobs, serving, cache, ghosts>>

-----------------------------------------------------------------------------
(***************************************************************************)
(* Everybody else                                                          *)
(***************************************************************************)

\* A build, a promotion, a rollback: whoever moves the target.
Move(r) ==
    /\ r # target
    /\ Upset
    /\ target' = r
    /\ owed' = [t \in Task |-> owed[t] + 1]
    /\ pass' = [pass EXCEPT !.current = FALSE]
    /\ EnvWritten
    /\ UNCHANGED <<rows, jobs, serving, started, newest>>

\* POST .../processes/{task}/run, which is refused while the row says it runs.
Retry(t) ==
    /\ \E i \in DOMAIN Declares[target] : Declares[target][i] = t
    /\ t \in RunsHere[target] /\ rows[t] # NoRow /\ rows[t].phase # "Running"
    /\ Upset
    /\ rows' = [rows EXCEPT ![t].release = None]
    /\ owed' = [owed EXCEPT ![t] = @ + 1]
    /\ pass' = [pass EXCEPT !.current = FALSE]
    /\ EnvWritten
    /\ UNCHANGED <<target, jobs, serving, started, newest>>

JobBecomes(j, state) ==
    /\ jobs' = [jobs EXCEPT ![j] = state]
    /\ UNCHANGED <<target, rows, serving, pass, cache, started>>

\* What was missing appears, and a run already given up on starts.
PodStartsLate(j) ==
    /\ jobs[j] = "refused" /\ JobBecomes(j, "late")
    /\ UNCHANGED <<upsets, owed, newest>>

JobSucceeds(j) ==
    /\ jobs[j] \in {"running", "late"} /\ JobBecomes(j, "succeeded")
    /\ newest' = IF newest[j[1]].attempt = j[2] THEN [newest EXCEPT ![j[1]].ok = TRUE] ELSE newest
    /\ UNCHANGED <<upsets, owed>>

\* The program failed, or the task's own timeout passed.
JobFails(j) ==
    /\ jobs[j] \in Unfinished /\ JobBecomes(j, "failed")
    /\ UNCHANGED <<upsets, owed, newest>>

JobLost(j) ==
    /\ jobs[j] # "absent" /\ JobBecomes(j, "absent")
    /\ Upset
    /\ owed' = [owed EXCEPT ![j[1]] = @ + 1]
    /\ UNCHANGED newest

EnvSync ==
    /\ lagging /\ envBehind
    /\ envSeen' = [target |-> target, rows |-> rows] /\ envBehind' = FALSE
    /\ UNCHANGED <<target, rows, jobs, serving, pass, lagging, upsets, ghosts>>

-----------------------------------------------------------------------------
Init ==
    /\ target = FirstRelease
    /\ rows = [t \in Task |-> NoRow]
    /\ jobs = [j \in Run |-> "absent"]
    /\ serving = None
    /\ pass = Idle
    /\ envSeen = [target |-> target, rows |-> rows] /\ envBehind = FALSE
    /\ lagging \in Lagging
    /\ upsets = 0
    /\ owed = [t \in Task |-> 1]
    /\ started = [t \in Task |-> 0]
    /\ newest = [t \in Task |-> Created(0, None)]

TaskStep(t) ==
    \/ Suspend(t) \/ Behind(t) \/ ObserveRun(t) \/ AwaitPreviousRun(t)
    \/ StartRun(t) \/ AdoptRun(t)

PassStep ==
    \/ Begin \/ \E t \in Task : TaskStep(t)
    \/ WriteVerdict \/ DeleteRefused \/ ApplyDeployment \/ WriteStatus \/ Conflict

JobEnds(j) == JobSucceeds(j) \/ JobFails(j)

Next ==
    \/ PassStep \/ Drop
    \/ \E r \in Release : Move(r)
    \/ \E t \in Task : Retry(t)
    \/ \E j \in Run : PodStartsLate(j) \/ JobEnds(j) \/ JobLost(j)
    \/ EnvSync

(***************************************************************************)
(* The work queue keeps asking for a pass (a blocked deploy is requeued,   *)
(* and each write and each Job's change wakes one), the cache catches up,  *)
(* and a Job whose pod runs ends by itself or at the task's timeout.       *)
(***************************************************************************)
Fairness ==
    /\ WF_vars(PassStep)
    /\ WF_vars(EnvSync)
    /\ \A j \in Run : WF_vars(jobs[j] # "refused" /\ JobEnds(j))

Spec == Init /\ [][Next]_vars /\ Fairness

-----------------------------------------------------------------------------
(***************************************************************************)
(* Properties                                                              *)
(***************************************************************************)
Name  == Release \cup {None}
RowType == [release : Name, attempt : 0..MaxRuns, phase : {"none", "Running", "Succeeded", "Failed"}]
JobState == {"absent"} \cup Unfinished \cup Finished

\* The types of the variables.
TypeOK ==
    /\ target \in Release /\ serving \in Name
    /\ rows \in [Task -> RowType]
    /\ jobs \in [Run -> JobState]
    /\ pass.pc \in {"idle", "tasks", "verdict", "delete", "apply", "status"}
    /\ pass.release \in Name /\ pass.rows \in [Task -> RowType]
    /\ pass.next \in Nat /\ pass.out \in {"clear", "waiting", "failed"}
    /\ pass.refused \subseteq Run /\ pass.current \in BOOLEAN
    /\ lagging \in BOOLEAN /\ envBehind \in BOOLEAN
    /\ envSeen \in [target : Release, rows : [Task -> RowType]]
    /\ upsets \in 0..MaxUpsets[lagging]
    /\ owed \in [Task -> Nat] /\ started \in [Task -> Nat]
    /\ newest \in [Task -> [attempt : 0..MaxRuns, release : Name, ok : BOOLEAN, recorded : BOOLEAN]]

Needed(r) == {t \in RunsHere[r] : \E i \in DOMAIN Declares[r] : Declares[r][i] = t}

\* A release takes traffic only after the latest run of each of its tasks was
\* made for it and succeeded: nothing is applied over a migration still going,
\* one that failed or another deploy's (reconcileDeployTasks before
\* applyDeployment).
RunFirst(r) == \A t \in Needed(r) : newest[t].ok /\ newest[t].release = r
MigratedForIt == [][serving' # serving => RunFirst(serving')]_vars

\* One deploy runs a task once, unless somebody asks again or removes the Job,
\* whatever conflicts, restarts and refusals come between (startDeployTask).
RunOncePerDeploy ==
    ~lagging => \A t \in Task : started[t] <= owed[t]

\* Of a task no release takes out of this environment, no two runs go at once:
\* the previous deploy's is waited for.  A run the kubelet had refused, and whose
\* Job was left behind, is the exception, and so is a cache several writes old,
\* by which a number is used again (advanceDeployTask).
OneRunAtATime ==
    ~lagging =>
        \A t \in Task : (\A r \in Release : t \in Needed(r)) =>
            Cardinality({n \in 1..MaxRuns : jobs[<<t, n>>] = "running"}) <= 1

Before(r, t) ==
    {Declares[r][k] : k \in {i \in DOMAIN Declares[r] :
                               \E j \in DOMAIN Declares[r] : i < j /\ Declares[r][j] = t}}

\* The tasks whose row and numbers stay, there being no release that does not
\* declare them.
Kept == {t \in Task : \A r \in Release : \E i \in DOMAIN Declares[r] : Declares[r][i] = t}

\* Neither traffic nor a task gets ahead of the runs its release declares before
\* it: a release serves only after its own runs succeeded, and a task starts only
\* when the latest run of each earlier one has (reconcileDeployTasks before
\* applyDeployment, in the order of ConfigSnapshot.Processes).  Runs no row ever
\* came to name, the pass that created them having lost its status write, are
\* excepted, and so are those of a task some release does not declare.
EarlierRunsFirst ==
    [][~lagging =>
          /\ serving' # serving => \A t \in Needed(serving') \cap Kept :
                newest[t].recorded => newest[t].ok /\ newest[t].release = serving'
          /\ \A t \in Task : started'[t] # started[t] =>
                LET r == newest'[t].release
                IN  \A b \in Before(r, t) \cap RunsHere[r] \cap Kept :
                       newest[b].recorded => newest[b].ok]_vars

Stopped == \E t \in Task : rows[t].release = target /\ rows[t].phase = "Failed"

\* A deploy does not hang: its release comes to serve, or a task's failure is
\* on record and waits for a person (awaitingDeployTasks, refuseRun).
DeployEnds == <>[](serving = target \/ Stopped)
=============================================================================
