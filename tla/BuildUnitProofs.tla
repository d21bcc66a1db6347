--------------------------- MODULE BuildUnitProofs ---------------------------
(***************************************************************************)
(* What BuildUnit guarantees for every number of Builds and images, every  *)
(* concurrency and every number of edits, requests and failures: a Build   *)
(* that is over stays over and carries no fault report, a Release freezes  *)
(* whole units only, and while no call fails the concurrency holds.        *)
(***************************************************************************)
EXTENDS BuildUnit, FiniteSetTheorems, TLAPS

PhaseName == {"none", "Queued", "Running"} \cup Terminal
JobState  == {"none", "active"} \cup Podless \cup Ended

\* The types the argument reads.
OverTypes ==
    /\ phase \in [Build -> PhaseName]
    /\ stalled \in [Build -> BOOLEAN]
    /\ fresh \in [Build -> SUBSET {"reconciler", "cancel"}]
    /\ job \in [Build -> [Image -> JobState]]
    /\ pass.pc # "idle" => pass.build \in Build

\* Whoever holds a Build at its current version read it open.
CopiesOpen == \A b \in Build : fresh[b] # {} => phase[b] \notin Terminal

\* A pass finds the Build it works on open, or cancelled under its hands; only
\* the sweep of a stall works on one that it ended itself.
PassOpen ==
    pass.pc \notin {"idle", "sweep"} => phase[pass.build] \notin Terminal \ {"Cancelled"}

OverInv == OverTypes /\ CopiesOpen /\ PassOpen

-----------------------------------------------------------------------------

\* No Build has been looked at.
LEMMA OverInit == Init => OverInv
BY DEF Init, OverInv, OverTypes, CopiesOpen, PassOpen, PhaseName, JobState, NoPass, Pass

\* A step that changes none of phase, fresh and pass, and moves Jobs within
\* their states, preserves the invariant.
LEMMA OverJobs ==
    ASSUME OverInv, UNCHANGED <<phase, stalled, fresh, pass>>,
           job' \in [Build -> [Image -> JobState]]
    PROVE  OverInv'
BY DEF OverInv, OverTypes, CopiesOpen, PassOpen

\* A step that ends the pass, or leaves it at the same Build, and writes nothing.
LEMMA OverPass ==
    ASSUME OverInv, UNCHANGED <<phase, stalled, job>>,
           fresh' \in [Build -> SUBSET {"reconciler", "cancel"}],
           \A b \in Build : fresh'[b] \subseteq fresh[b],
           \/ pass'.pc = "idle"
           \/ pass'.build = pass.build /\ pass.pc \notin {"idle", "sweep"}
    PROVE  OverInv'
BY DEF OverInv, OverTypes, CopiesOpen, PassOpen

\* A status write that was accepted and ends the pass.
LEMMA OverWrite ==
    ASSUME OverInv, UNCHANGED job, NEW b \in Build, Write(b),
           phase' \in [Build -> PhaseName], stalled' \in [Build -> BOOLEAN],
           \A c \in Build \ {b} : phase'[c] = phase[c],
           \/ pass'.pc = "idle"
           \/ pass'.pc = "sweep" /\ pass'.build \in Build
           \/ UNCHANGED pass /\ (phase'[b] \in Terminal => phase'[b] = "Cancelled")
    PROVE  OverInv'
<1>1. fresh' = [fresh EXCEPT ![b] = {}]
  BY DEF Write
<1>2. OverTypes'
  BY <1>1 DEF OverInv, OverTypes
<1>3. CopiesOpen'
  BY <1>1 DEF OverInv, OverTypes, CopiesOpen
<1>4. PassOpen'
  BY DEF OverInv, OverTypes, PassOpen
<1> QED
  BY <1>2, <1>3, <1>4 DEF OverInv

-----------------------------------------------------------------------------

\* The reconciler's pass.  Every status write is made by a holder of the current
\* version, so its Build was open.
LEMMA OverPassNext ==
    ASSUME OverInv, PassNext
    PROVE  OverInv'
<1> DEFINE b == pass.build
<1>0. ASSUME pass.pc # "idle" PROVE b \in Build
  BY <1>0 DEF OverInv, OverTypes
<1>1. CASE Refuse
  <2>1. b \in Build
    BY <1>0, <1>1 DEF Refuse
  <2>2. Write(b) /\ pass'.pc = "idle" /\ UNCHANGED job
    BY <1>1 DEF Refuse, NoPass, Pass
  <2>3. /\ phase' \in [Build -> PhaseName]
        /\ \A c \in Build \ {b} : phase'[c] = phase[c]
    BY <1>1, <2>1 DEF Refuse, OverInv, OverTypes, PhaseName, Terminal
  <2>4. stalled' \in [Build -> BOOLEAN]
    BY <1>1, <2>1 DEF Refuse, OverInv, OverTypes
  <2> QED
    BY <2>1, <2>2, <2>3, <2>4, OverWrite
<1>2. CASE Enqueue
  <2>1. b \in Build
    BY <1>0, <1>2 DEF Enqueue
  <2>2. pass'.pc = "idle" /\ UNCHANGED <<job, stalled>>
    BY <1>2 DEF Enqueue, NoPass, Pass
  <2>3. CASE Current(b) /\ phase[b] # "Queued"
    <3>1. phase' = [phase EXCEPT ![b] = "Queued"] /\ Write(b)
      BY <1>2, <2>3 DEF Enqueue
    <3>2. /\ phase' \in [Build -> PhaseName]
          /\ \A c \in Build \ {b} : phase'[c] = phase[c]
      BY <3>1 DEF OverInv, OverTypes, PhaseName
    <3>3. stalled' \in [Build -> BOOLEAN]
      BY <2>2 DEF OverInv, OverTypes
    <3> QED
      BY <2>1, <2>2, <3>1, <3>2, <3>3, OverWrite
  <2>4. CASE ~(Current(b) /\ phase[b] # "Queued")
    <3>1. LetGo(b, "reconciler") /\ UNCHANGED phase
      BY <1>2, <2>4 DEF Enqueue
    <3>2. /\ fresh' \in [Build -> SUBSET {"reconciler", "cancel"}]
          /\ \A c \in Build : fresh'[c] \subseteq fresh[c]
      BY <2>1, <3>1 DEF LetGo, OverInv, OverTypes
    <3> QED
      BY <2>2, <3>1, <3>2, OverPass
  <2> QED
    BY <2>3, <2>4
<1>3. CASE Admit \/ AdmitUnlisted \/ CreateRelease
  <2>1. UNCHANGED <<phase, stalled, fresh, job>>
    BY <1>3 DEF Admit, AdmitUnlisted, CreateRelease, status
  <2>2. pass'.build = pass.build /\ pass.pc \notin {"idle", "sweep"}
    BY <1>3 DEF Admit, AdmitUnlisted, CreateRelease, Pass
  <2>3. fresh' \in [Build -> SUBSET {"reconciler", "cancel"}]
    BY <2>1 DEF OverInv, OverTypes
  <2> QED
    BY <2>1, <2>2, <2>3, OverPass
<1>4. CASE CreateJob
  <2>1. b \in Build /\ pass.pc = "create"
    BY <1>0, <1>4 DEF CreateJob
  <2>2. UNCHANGED <<phase, stalled, fresh>>
    BY <1>4 DEF CreateJob, status
  <2>3. PICK w : job' = [job EXCEPT ![b][w] = IF job[b][w] = "none" THEN "pending" ELSE job[b][w]]
    BY <1>4 DEF CreateJob
  <2>4. job' \in [Build -> [Image -> JobState]]
    BY <2>1, <2>3 DEF OverInv, OverTypes, JobState, Podless, Ended
  <2>5. pass'.build = pass.build
    BY <1>4 DEF CreateJob, Pass
  <2> QED
    BY <2>1, <2>2, <2>4, <2>5 DEF OverInv, OverTypes, CopiesOpen, PassOpen
<1>5. CASE Started \/ Fail \/ Succeeded
  <2>1. b \in Build
    BY <1>0, <1>5 DEF Started, Fail, Succeeded
  <2>2. Write(b) /\ pass'.pc = "idle" /\ UNCHANGED job
    BY <1>5 DEF Started, Fail, Succeeded, NoPass, Pass
  <2>3. /\ phase' \in [Build -> PhaseName]
        /\ \A c \in Build \ {b} : phase'[c] = phase[c]
    BY <1>5, <2>1 DEF Started, Fail, Succeeded, OverInv, OverTypes, PhaseName, Terminal
  <2>4. stalled' \in [Build -> BOOLEAN]
    BY <1>5, <2>1 DEF Started, Fail, Succeeded, OverInv, OverTypes
  <2> QED
    BY <2>1, <2>2, <2>3, <2>4, OverWrite
<1>6. CASE Report
  <2>1. b \in Build
    BY <1>0, <1>6 DEF Report
  <2>2. Write(b) /\ pass'.pc = "idle" /\ UNCHANGED job
    BY <1>6 DEF Report, NoPass, Pass
  <2>3. /\ phase' \in [Build -> PhaseName]
        /\ \A c \in Build \ {b} : phase'[c] = phase[c]
    BY <1>6, <2>1 DEF Report, OverInv, OverTypes, PhaseName
  <2>4. stalled' \in [Build -> BOOLEAN]
    BY <1>6, <2>1 DEF Report, OverInv, OverTypes
  <2> QED
    BY <2>1, <2>2, <2>3, <2>4, OverWrite
<1>7. CASE StallFails
  <2>1. b \in Build
    BY <1>0, <1>7 DEF StallFails
  <2>2. Write(b) /\ pass'.pc = "sweep" /\ pass'.build = b /\ UNCHANGED job
    BY <1>7 DEF StallFails, Pass
  <2>3. /\ phase' \in [Build -> PhaseName]
        /\ \A c \in Build \ {b} : phase'[c] = phase[c]
    BY <1>7, <2>1 DEF StallFails, OverInv, OverTypes, PhaseName, Terminal
  <2>4. stalled' \in [Build -> BOOLEAN]
    BY <1>7, <2>1 DEF StallFails, OverInv, OverTypes
  <2> QED
    BY <2>1, <2>2, <2>3, <2>4, OverWrite
<1>8. CASE DeleteStalledJob
  <2>1. b \in Build /\ pass.pc = "sweep"
    BY <1>0, <1>8 DEF DeleteStalledJob
  <2>2. UNCHANGED <<phase, stalled, fresh>>
    BY <1>8 DEF DeleteStalledJob, status
  <2>3. job' = job \/ \E w : job' = [job EXCEPT ![b][w] = "none"]
    BY <1>8 DEF DeleteStalledJob
  <2>4. job' \in [Build -> [Image -> JobState]]
    <3>1. CASE job' = job
      BY <3>1 DEF OverInv, OverTypes
    <3>2. ASSUME NEW w, job' = [job EXCEPT ![b][w] = "none"]
          PROVE  job' \in [Build -> [Image -> JobState]]
      BY <2>1, <3>2 DEF OverInv, OverTypes, JobState
    <3> QED
      BY <2>3, <3>1, <3>2
  <2>5. pass'.pc = "idle" \/ (pass'.pc = "sweep" /\ pass'.build = b)
    BY <1>8 DEF DeleteStalledJob, NoPass, Pass
  <2> QED
    BY <2>1, <2>2, <2>4, <2>5 DEF OverInv, OverTypes, CopiesOpen, PassOpen
<1>9. CASE Conflict
  <2>1. pass'.pc = "idle" /\ UNCHANGED <<phase, stalled, fresh, job>>
    BY <1>9 DEF Conflict, NoPass, Pass, status
  <2>2. fresh' \in [Build -> SUBSET {"reconciler", "cancel"}]
    BY <2>1 DEF OverInv, OverTypes
  <2> QED
    BY <2>1, <2>2, OverPass
<1> QED
  BY <1>1, <1>2, <1>3, <1>4, <1>5, <1>6, <1>7, <1>8, <1>9 DEF PassNext

\* The visit that starts a pass, and the one that parks the Build.
LEMMA OverVisit ==
    ASSUME OverInv, NEW b \in Build, Begin(b) \/ Park(b)
    PROVE  OverInv'
<1>1. CASE Begin(b)
  <2>1. phase[b] \notin Terminal /\ UNCHANGED <<phase, stalled, job>>
    BY <1>1 DEF Begin
  <2>2. /\ fresh' \in [Build -> SUBSET {"reconciler", "cancel"}]
        /\ \A c \in Build \ {b} : fresh'[c] = fresh[c]
    BY <1>1 DEF Begin, OverInv, OverTypes
  <2>3. pass'.pc = "idle" \/ pass'.build = b
    BY <1>1 DEF Begin, NoPass, Pass
  <2> QED
    BY <2>1, <2>2, <2>3 DEF OverInv, OverTypes, CopiesOpen, PassOpen
<1>2. CASE Park(b)
  <2>1. phase[b] \notin Terminal /\ Write(b) /\ pass.pc = "idle" /\ UNCHANGED <<stalled, job, pass>>
    BY <1>2 DEF Park
  <2>2. /\ phase' \in [Build -> PhaseName]
        /\ \A c \in Build \ {b} : phase'[c] = phase[c]
    BY <1>2 DEF Park, OverInv, OverTypes, PhaseName
  <2>3. stalled' \in [Build -> BOOLEAN]
    BY <2>1 DEF OverInv, OverTypes
  <2> QED
    BY <2>1, <2>2, <2>3, OverWrite
<1> QED
  BY <1>1, <1>2

\* The cancel request.
LEMMA OverCancel ==
    ASSUME OverInv, NEW b \in Build, CancelBuild(b) \/ CancelNext(b) \/ DropCancel(b)
    PROVE  OverInv'
<1>1. CASE CancelBuild(b)
  <2>1. phase[b] \notin Terminal /\ UNCHANGED <<phase, stalled, job, pass>>
    BY <1>1 DEF CancelBuild
  <2>2. /\ fresh' \in [Build -> SUBSET {"reconciler", "cancel"}]
        /\ \A c \in Build \ {b} : fresh'[c] = fresh[c]
    BY <1>1 DEF CancelBuild, OverInv, OverTypes
  <2> QED
    BY <2>1, <2>2 DEF OverInv, OverTypes, CopiesOpen, PassOpen
<1>2. CASE CancelDeletesJob(b)
  <2>1. UNCHANGED <<phase, stalled, fresh, pass>>
    BY <1>2 DEF CancelDeletesJob, status
  <2>2. job' \in [Build -> [Image -> JobState]]
    BY <1>2 DEF CancelDeletesJob, OverInv, OverTypes, JobState
  <2> QED
    BY <2>1, <2>2, OverJobs
<1>3. CASE CancelWrites(b)
  <2>1. UNCHANGED <<stalled, job, pass>>
    BY <1>3 DEF CancelWrites
  <2>2. CASE "cancel" \in fresh[b]
    <3>1. phase' = [phase EXCEPT ![b] = "Cancelled"] /\ Write(b)
      BY <1>3, <2>2 DEF CancelWrites
    <3>2. /\ phase' \in [Build -> PhaseName] /\ phase'[b] = "Cancelled"
          /\ \A c \in Build \ {b} : phase'[c] = phase[c]
      BY <3>1 DEF OverInv, OverTypes, PhaseName, Terminal
    <3>3. stalled' \in [Build -> BOOLEAN]
      BY <2>1 DEF OverInv, OverTypes
    <3> QED
      BY <2>1, <3>1, <3>2, <3>3, OverWrite
  <2>3. CASE "cancel" \notin fresh[b]
    <3>1. UNCHANGED <<phase, fresh>>
      BY <1>3, <2>3 DEF CancelWrites
    <3> QED
      BY <2>1, <3>1 DEF OverInv, OverTypes, CopiesOpen, PassOpen
  <2> QED
    BY <2>2, <2>3
<1>4. CASE DropCancel(b)
  <2>1. LetGo(b, "cancel") /\ UNCHANGED <<phase, stalled, job, pass>>
    BY <1>4 DEF DropCancel
  <2>2. /\ fresh' \in [Build -> SUBSET {"reconciler", "cancel"}]
        /\ \A c \in Build : fresh'[c] \subseteq fresh[c]
    BY <2>1 DEF LetGo, OverInv, OverTypes
  <2> QED
    BY <2>1, <2>2 DEF OverInv, OverTypes, CopiesOpen, PassOpen
<1> QED
  BY <1>1, <1>2, <1>3, <1>4 DEF CancelNext

\* The cluster.
LEMMA OverCluster ==
    ASSUME OverInv, NEW b \in Build, NEW w \in Image,
           \/ PodStarts(b, w) \/ Ages(b, w)
           \/ JobCompletes(b, w) \/ JobFails(b, w) \/ Collect(b, w)
    PROVE  OverInv'
<1>1. UNCHANGED <<phase, stalled, fresh, pass>>
  BY DEF PodStarts, Ages, JobCompletes, JobFails, Collect, status
<1>2. PICK state \in JobState : job' = [job EXCEPT ![b][w] = state]
  BY DEF PodStarts, Ages, JobCompletes, JobFails, Collect, JobState, Podless, Ended
<1>3. job' \in [Build -> [Image -> JobState]]
  BY <1>2 DEF OverInv, OverTypes
<1> QED
  BY <1>1, <1>3, OverJobs

\* One step of anybody.
LEMMA OverNext == OverInv /\ [Next]_vars => OverInv'
<1> SUFFICES ASSUME OverInv, [Next]_vars PROVE OverInv'
  OBVIOUS
<1>1. CASE PassNext
  BY <1>1, OverPassNext
<1>2. CASE Drop
  <2>1. pass.pc # "idle" /\ pass'.pc = "idle" /\ LetGo(pass.build, "reconciler")
    BY <1>2 DEF Drop, NoPass, Pass
  <2>2. UNCHANGED <<phase, stalled, job>>
    BY <1>2 DEF Drop
  <2>3. /\ fresh' \in [Build -> SUBSET {"reconciler", "cancel"}]
        /\ \A c \in Build : fresh'[c] \subseteq fresh[c]
    BY <2>1 DEF LetGo, OverInv, OverTypes
  <2> QED
    BY <2>1, <2>2, <2>3, OverPass
<1>3. ASSUME NEW b \in Build, Begin(b) \/ Park(b) PROVE OverInv'
  BY <1>3, OverVisit
<1>4. ASSUME NEW b \in Build, CancelBuild(b) \/ CancelNext(b) \/ DropCancel(b) PROVE OverInv'
  BY <1>4, OverCancel
<1>5. ASSUME NEW b \in Build, EditProject(b) PROVE OverInv'
  BY <1>5 DEF EditProject, status, OverInv, OverTypes, CopiesOpen, PassOpen
<1>6. ASSUME NEW b \in Build, NEW w \in Image,
             \/ PodStarts(b, w) \/ Ages(b, w)
             \/ JobCompletes(b, w) \/ JobFails(b, w) \/ Collect(b, w)
      PROVE  OverInv'
  BY <1>6, OverCluster
<1>7. CASE UNCHANGED vars
  BY <1>7 DEF vars, status, OverInv, OverTypes, CopiesOpen, PassOpen
<1> QED
  BY <1>1, <1>2, <1>3, <1>4, <1>5, <1>6, <1>7 DEF Next

-----------------------------------------------------------------------------

\* Of a Build that is over, a pass can write nothing: its copy is not current.
LEMMA PassKeepsOver ==
    ASSUME OverInv, PassNext, NEW c \in Build, phase[c] \in Terminal
    PROVE  phase'[c] = phase[c]
<1> DEFINE b == pass.build
<1>0. fresh[c] = {}
  BY DEF OverInv, OverTypes, CopiesOpen
<1>1. CASE \/ Refuse \/ Started \/ Report \/ Fail \/ StallFails \/ Succeeded
  <2>1. "reconciler" \in fresh[b] /\ b \in Build
    BY <1>1 DEF Refuse, Started, Report, Fail, StallFails, Succeeded, Current,
                OverInv, OverTypes
  <2>2. b # c
    BY <1>0, <2>1
  <2> QED
    BY <1>1, <2>1, <2>2 DEF Refuse, Started, Report, Fail, StallFails, Succeeded,
                            OverInv, OverTypes
<1>2. CASE Enqueue
  <2>1. CASE Current(b) /\ phase[b] # "Queued"
    <3>1. b # c /\ b \in Build
      BY <1>0, <1>2, <2>1 DEF Current, Enqueue, OverInv, OverTypes
    <3> QED
      BY <1>2, <2>1, <3>1 DEF Enqueue, OverInv, OverTypes
  <2>2. CASE ~(Current(b) /\ phase[b] # "Queued")
    BY <1>2, <2>2 DEF Enqueue
  <2> QED
    BY <2>1, <2>2
<1>3. CASE \/ Admit \/ AdmitUnlisted \/ CreateJob \/ DeleteStalledJob \/ CreateRelease
           \/ Conflict
  BY <1>3 DEF Admit, AdmitUnlisted, CreateJob, DeleteStalledJob, CreateRelease, Conflict,
              status
<1> QED
  BY <1>1, <1>2, <1>3 DEF PassNext

\* A pass creates Jobs for an open Build, or one that was just cancelled.
LEMMA PassStartsOpen ==
    ASSUME OverInv, PassNext, NEW c \in Build, NEW w \in Image,
           phase[c] \in Terminal \ {"Cancelled"}, job[c][w] = "none"
    PROVE  job'[c][w] = "none"
<1>1. CASE CreateJob
  <2>1. pass.build \in Build /\ pass.build # c
    BY <1>1 DEF CreateJob, OverInv, OverTypes, PassOpen
  <2>2. \E v : job' = [job EXCEPT ![pass.build][v] =
                          IF job[pass.build][v] = "none" THEN "pending" ELSE job[pass.build][v]]
    BY <1>1 DEF CreateJob
  <2> QED
    BY <2>1, <2>2 DEF OverInv, OverTypes
<1>2. CASE DeleteStalledJob
  <2>1. job' = job \/ \E v : job' = [job EXCEPT ![pass.build][v] = "none"]
    BY <1>2 DEF DeleteStalledJob
  <2>2. pass.build \in Build
    BY <1>2 DEF DeleteStalledJob, OverInv, OverTypes
  <2>3. ASSUME NEW v, job' = [job EXCEPT ![pass.build][v] = "none"]
        PROVE  job'[c][w] = "none"
    BY <2>2, <2>3 DEF OverInv, OverTypes
  <2> QED
    BY <2>1, <2>3
<1>3. CASE ~CreateJob /\ ~DeleteStalledJob
  BY <1>3 DEF PassNext, Refuse, Enqueue, Admit, AdmitUnlisted, Started, Report, Fail,
              StallFails, CreateRelease, Succeeded, Conflict
<1> QED
  BY <1>1, <1>2, <1>3

\* What one step may do to a Build that is over.
LEMMA OverStep ==
    ASSUME OverInv, [Next]_vars
    PROVE  StaysOver
<1> SUFFICES ASSUME NEW c \in Build, phase[c] \in Terminal
             PROVE  /\ phase'[c] = phase[c]
                    /\ \A w \in Image : phase[c] # "Cancelled" /\ job[c][w] = "none" =>
                          job'[c][w] = "none"
  BY DEF StaysOver
<1>0. fresh[c] = {}
  BY DEF OverInv, OverTypes, CopiesOpen
<1>1. CASE PassNext
  BY <1>1, PassKeepsOver, PassStartsOpen
<1>2. CASE Drop
  BY <1>2 DEF Drop
<1>3. ASSUME NEW b \in Build, Begin(b) \/ Park(b) \/ CancelBuild(b) \/ DropCancel(b)
                              \/ EditProject(b)
      PROVE  phase'[c] = phase[c] /\ job' = job
  BY <1>3 DEF Begin, Park, CancelBuild, DropCancel, EditProject, status, OverInv, OverTypes
<1>4. ASSUME NEW b \in Build, CancelDeletesJob(b)
      PROVE  /\ phase'[c] = phase[c]
             /\ \A w \in Image : job[c][w] = "none" => job'[c][w] = "none"
  BY <1>4 DEF CancelDeletesJob, status, OverInv, OverTypes
<1>5. ASSUME NEW b \in Build, CancelWrites(b) PROVE phase'[c] = phase[c] /\ job' = job
  <2>1. job' = job
    BY <1>5 DEF CancelWrites
  <2>2. CASE "cancel" \in fresh[b]
    BY <1>0, <1>5, <2>2 DEF CancelWrites, OverInv, OverTypes
  <2>3. CASE "cancel" \notin fresh[b]
    BY <1>5, <2>3 DEF CancelWrites
  <2> QED
    BY <2>1, <2>2, <2>3
<1>6. ASSUME NEW b \in Build, NEW v \in Image,
             \/ PodStarts(b, v) \/ Ages(b, v)
             \/ JobCompletes(b, v) \/ JobFails(b, v) \/ Collect(b, v)
      PROVE  /\ phase'[c] = phase[c]
             /\ \A w \in Image : job[c][w] = "none" => job'[c][w] = "none"
  <2>1. job[b][v] # "none" /\ UNCHANGED phase
    BY <1>6 DEF PodStarts, Ages, JobCompletes, JobFails, Collect, status, Podless, Ended
  <2>2. PICK state : job' = [job EXCEPT ![b][v] = state]
    BY <1>6 DEF PodStarts, Ages, JobCompletes, JobFails, Collect
  <2> QED
    BY <2>1, <2>2 DEF OverInv, OverTypes
<1>7. CASE UNCHANGED vars
  BY <1>7 DEF vars, status
<1> QED
  BY <1>1, <1>2, <1>3, <1>4, <1>5, <1>6, <1>7 DEF Next, CancelNext

\* For every number of Builds, requests and failures: a phase that says a Build
\* is over is never written over by the reconciler or by cancelBuild, and none of
\* the Jobs of a Build the reconciler ended is created again.
THEOREM OverForGood == Spec => OverStaysOver
<1>1. OverInv /\ [Next]_vars => [StaysOver]_vars
  BY OverStep
<1> QED
  BY OverInit, OverNext, <1>1, PTL DEF Spec, OverStaysOver

-----------------------------------------------------------------------------

\* A step keeps StallCleared when the Build it writes ends with the condition
\* gone, or does not end in Succeeded or Failed.
LEMMA ClearedWrite ==
    ASSUME StallCleared, OverTypes, NEW b \in Build,
           \A c \in Build \ {b} : phase'[c] = phase[c] /\ stalled'[c] = stalled[c],
           phase'[b] \in {"Succeeded", "Failed"} => ~stalled'[b]
    PROVE  StallCleared'
BY DEF StallCleared

\* Every step that ends a Build clears the condition, and the one that raises it
\* leaves the Build Running.
LEMMA ClearedNext == OverInv /\ StallCleared /\ [Next]_vars => StallCleared'
<1> SUFFICES ASSUME OverInv, StallCleared, [Next]_vars PROVE StallCleared'
  OBVIOUS
<1> USE DEF OverInv
<1> DEFINE b == pass.build
<1>1. CASE Refuse
  <2>1. b \in Build
    BY <1>1 DEF Refuse, OverTypes
  <2>2. \A c \in Build \ {b} : phase'[c] = phase[c] /\ stalled'[c] = stalled[c]
    BY <1>1, <2>1 DEF Refuse, OverTypes
  <2>3. phase'[b] = "Succeeded" => FALSE
    BY <1>1, <2>1 DEF Refuse, OverTypes
  <2>4. phase'[b] = "Failed" => ~stalled'[b]
    BY <1>1, <2>1 DEF Refuse, OverTypes
  <2> QED
    BY <2>1, <2>2, <2>3, <2>4, ClearedWrite
<1>2. CASE Fail \/ StallFails \/ Succeeded
  <2>1. b \in Build
    BY <1>2 DEF Fail, StallFails, Succeeded, OverTypes
  <2>2. \A c \in Build \ {b} : phase'[c] = phase[c] /\ stalled'[c] = stalled[c]
    BY <1>2, <2>1 DEF Fail, StallFails, Succeeded, OverTypes
  <2>3. ~stalled'[b]
    BY <1>2, <2>1 DEF Fail, StallFails, Succeeded, OverTypes
  <2> QED
    BY <2>1, <2>2, <2>3, ClearedWrite
<1>3. CASE Report \/ Started
  <2>1. b \in Build
    BY <1>3 DEF Report, Started, OverTypes
  <2>2. \A c \in Build \ {b} : phase'[c] = phase[c] /\ stalled'[c] = stalled[c]
    BY <1>3, <2>1 DEF Report, Started, OverTypes
  <2>3. phase'[b] = "Running"
    BY <1>3, <2>1 DEF Report, Started, OverTypes
  <2> QED
    BY <2>1, <2>2, <2>3, ClearedWrite
<1>4. CASE Enqueue
  <2>1. b \in Build /\ UNCHANGED stalled
    BY <1>4 DEF Enqueue, OverTypes
  <2>2. phase' = phase \/ phase' = [phase EXCEPT ![b] = "Queued"]
    BY <1>4 DEF Enqueue
  <2> QED
    BY <2>1, <2>2 DEF OverTypes, StallCleared
<1>5. CASE \/ Admit \/ AdmitUnlisted \/ CreateJob \/ DeleteStalledJob \/ CreateRelease
           \/ Conflict \/ Drop \/ UNCHANGED vars
  <2>1. UNCHANGED <<phase, stalled>>
    BY <1>5 DEF Admit, AdmitUnlisted, CreateJob, DeleteStalledJob, CreateRelease, Conflict,
                Drop, vars, status
  <2> QED
    BY <2>1 DEF StallCleared
<1>6. ASSUME NEW c \in Build, Park(c) PROVE StallCleared'
  <2>1. UNCHANGED stalled /\ phase[c] \notin Terminal
    BY <1>6 DEF Park
  <2>2. phase' = [phase EXCEPT ![c] = IF phase[c] = "none" THEN "Queued" ELSE phase[c]]
    BY <1>6 DEF Park
  <2> QED
    BY <2>1, <2>2 DEF OverTypes, StallCleared, Terminal
<1>7. ASSUME NEW c \in Build, CancelWrites(c) PROVE StallCleared'
  <2>1. UNCHANGED stalled
    BY <1>7 DEF CancelWrites
  <2>2. phase' = phase \/ phase' = [phase EXCEPT ![c] = "Cancelled"]
    BY <1>7 DEF CancelWrites
  <2> QED
    BY <2>1, <2>2 DEF OverTypes, StallCleared
<1>8. ASSUME NEW c \in Build, \/ Begin(c) \/ CancelBuild(c) \/ CancelDeletesJob(c)
                              \/ DropCancel(c) \/ EditProject(c)
      PROVE  StallCleared'
  <2>1. UNCHANGED <<phase, stalled>>
    BY <1>8 DEF Begin, CancelBuild, CancelDeletesJob, DropCancel, EditProject, status
  <2> QED
    BY <2>1 DEF StallCleared
<1>9. ASSUME NEW c \in Build, NEW w \in Image,
             \/ PodStarts(c, w) \/ Ages(c, w)
             \/ JobCompletes(c, w) \/ JobFails(c, w) \/ Collect(c, w)
      PROVE  StallCleared'
  <2>1. UNCHANGED <<phase, stalled>>
    BY <1>9 DEF PodStarts, Ages, JobCompletes, JobFails, Collect, status
  <2> QED
    BY <2>1 DEF StallCleared
<1> QED
  BY <1>1, <1>2, <1>3, <1>4, <1>5, <1>6, <1>7, <1>8, <1>9 DEF Next, PassNext, CancelNext

\* clearStall, for every number of Builds: no Build that succeeded or failed says
\* it is stalled, whatever happened between two looks at its Jobs.
THEOREM StallGone == Spec => []StallCleared
<1>1. Init => StallCleared
  BY DEF Init, StallCleared
<1> QED
  BY OverInit, OverNext, <1>1, ClearedNext, PTL DEF Spec
-----------------------------------------------------------------------------
(* Types                                                                   *)

PassType ==
    [pc : {"prepare", "create", "started", "flag", "unflag", "mark", "fail", "stall",
           "sweep", "release", "succeed"},
     build : Build, plans : SUBSET Image, todo : SUBSET Image]

\* A pass that is about to create Jobs plans the web process's at least, and one
\* that is about to end a stalled build has found that Job.
TypeInv ==
    /\ TypeOK
    /\ pass.pc = "prepare" => pass.plans # {}
    /\ pass.pc = "stall" => pass.todo # {}

\* A step between two reads of the reconciler, taken with the pass's type alone.
LEMMA TypeOfPass ==
    ASSUME TypeInv, pass'.pc \notin {"prepare", "stall"},
           pass' = NoPass \/ pass' \in PassType,
           pass'.pc \in {"create", "sweep"} => pass'.todo # {},
           /\ phase' \in [Build -> PhaseName]
           /\ started' \in [Build -> SUBSET Workload]
           /\ stalled' \in [Build -> BOOLEAN] /\ noPod' \in [Build -> BOOLEAN]
           /\ fresh' \in [Build -> SUBSET {"reconciler", "cancel"}]
           /\ job' \in [Build -> [Image -> JobState]]
           /\ release' \in [Build -> SUBSET Image],
           UNCHANGED <<declared, cancel, edits, cancels, pushed>>, faults' \in Nat
    PROVE  TypeInv'
BY DEF TypeInv, TypeOK, PassType, PhaseName, JobState

\* What a pass works on, and what writing the Build or letting go of it leaves.
LEMMA PassTypes ==
    ASSUME TypeInv, pass.pc # "idle"
    PROVE  /\ pass \in PassType /\ pass.build \in Build
           /\ pass.plans \subseteq Image /\ pass.todo \subseteq Image
           /\ pass.plans \ {Web} \in SUBSET Workload
           /\ \A w : pass.todo \ {w} \subseteq Image
BY DEF TypeInv, TypeOK, PassType, NoPass, Pass, Workload

\* A function stays one of Job states when a Job state is put into it.
LEMMA JobPut ==
    ASSUME NEW f \in [Image -> JobState], NEW w, NEW v, w \in Image => v \in JobState
    PROVE  [f EXCEPT ![w] = v] \in [Image -> JobState]
OBVIOUS

\* The reconciler's pass.
LEMMA PassNextTypes ==
    ASSUME TypeInv, PassNext
    PROVE  TypeInv'
<1> DEFINE b == pass.build
<1>1. pass.pc # "idle"
  BY DEF PassNext, Refuse, Enqueue, Admit, AdmitUnlisted, CreateJob, Started, Report,
     Fail, StallFails, DeleteStalledJob, CreateRelease, Succeeded, Conflict
<1>2. /\ pass \in PassType /\ b \in Build /\ pass.plans \subseteq Image
      /\ pass.todo \subseteq Image /\ pass.plans \ {Web} \in SUBSET Workload
      /\ \A w : pass.todo \ {w} \subseteq Image
  BY <1>1, PassTypes
<1>3. /\ phase \in [Build -> PhaseName] /\ started \in [Build -> SUBSET Workload]
      /\ stalled \in [Build -> BOOLEAN] /\ noPod \in [Build -> BOOLEAN]
      /\ fresh \in [Build -> SUBSET {"reconciler", "cancel"}]
      /\ job \in [Build -> [Image -> JobState]] /\ release \in [Build -> SUBSET Image]
      /\ faults \in Nat
  BY DEF TypeInv, TypeOK, PhaseName, JobState
<1>4. NoPass.pc = "idle"
  BY DEF NoPass, Pass
<1>5. Write(b) \/ LetGo(b, "reconciler") \/ UNCHANGED fresh =>
          fresh' \in [Build -> SUBSET {"reconciler", "cancel"}]
  BY <1>2, <1>3 DEF Write, LetGo
<1>6. {"Failed", "Skipped", "Queued", "Running", "Succeeded"} \subseteq PhaseName
  BY DEF PhaseName, Terminal
<1>7. CASE Refuse
  <2>1. phase' \in [Build -> PhaseName]
    BY <1>2, <1>3, <1>6, <1>7 DEF Refuse
  <2>2. stalled' \in [Build -> BOOLEAN]
    BY <1>2, <1>3, <1>7 DEF Refuse
  <2> QED BY <1>3, <1>4, <1>5, <1>7, <2>1, <2>2, TypeOfPass DEF Refuse, bounds
<1>8. CASE Enqueue
  <2>1. phase' \in [Build -> PhaseName]
    BY <1>2, <1>3, <1>6, <1>8 DEF Enqueue
  <2>2. fresh' \in [Build -> SUBSET {"reconciler", "cancel"}]
    BY <1>5, <1>8 DEF Enqueue
  <2> QED BY <1>3, <1>4, <1>8, <2>1, <2>2, TypeOfPass DEF Enqueue, bounds
<1>9. CASE Admit \/ AdmitUnlisted
  <2>1. pass' \in PassType /\ pass'.pc = "create" /\ pass'.todo # {}
    BY <1>2, <1>9 DEF Admit, AdmitUnlisted, Pass, PassType, TypeInv
  <2>2. UNCHANGED <<status, job, release, declared, cancel, edits, cancels, pushed>>
        /\ faults' \in Nat
    BY <1>3, <1>9 DEF Admit, AdmitUnlisted, bounds
  <2> QED BY <1>3, <2>1, <2>2, TypeOfPass DEF status
<1>10. CASE CreateJob
  <2> DEFINE w == First(pass.todo)
  <2>1. job' \in [Build -> [Image -> JobState]]
    <3> DEFINE v == IF job[b][w] = "none" THEN "pending" ELSE job[b][w]
    <3>1. job' = [job EXCEPT ![b] = [job[b] EXCEPT ![w] = v]]
      BY <1>2, <1>3, <1>10 DEF CreateJob
    <3>2. w \in Image => v \in JobState
      BY <1>2, <1>3 DEF JobState, Podless
    <3> HIDE DEF w, v
    <3>3. [job[b] EXCEPT ![w] = v] \in [Image -> JobState]
      BY <1>2, <1>3, <3>2, JobPut
    <3> QED BY <1>2, <1>3, <3>1, <3>3
  <2>2. pass' \in PassType /\ pass'.pc \in {"started", "create"}
        /\ (pass'.pc = "create" => pass'.todo # {})
    <3>1. pass.todo # {}
      BY <1>10 DEF CreateJob, TypeInv, TypeOK
    <3> QED BY <1>2, <1>10, <3>1 DEF CreateJob, Pass, PassType
  <2> QED BY <1>3, <1>10, <2>1, <2>2, TypeOfPass DEF CreateJob, status, bounds
<1>11. CASE Started
  <2>1. /\ phase' \in [Build -> PhaseName] /\ started' \in [Build -> SUBSET Workload]
    BY <1>2, <1>3, <1>6, <1>11 DEF Started
  <2> QED BY <1>3, <1>4, <1>5, <1>11, <2>1, TypeOfPass DEF Started, bounds
<1>12. CASE Report
  <2>1. phase' \in [Build -> PhaseName] /\ stalled' \in [Build -> BOOLEAN]
    BY <1>2, <1>3, <1>6, <1>12 DEF Report
  <2> QED BY <1>3, <1>4, <1>5, <1>12, <2>1, TypeOfPass DEF Report, bounds
<1>13. CASE Fail \/ Succeeded
  <2>1. /\ phase' \in [Build -> PhaseName] /\ started' \in [Build -> SUBSET Workload]
        /\ stalled' \in [Build -> BOOLEAN]
    BY <1>2, <1>3, <1>6, <1>13 DEF Fail, Succeeded
  <2>2. /\ Write(b) /\ pass' = NoPass
        /\ UNCHANGED <<noPod, job, release, declared, cancel, bounds, pushed>>
    BY <1>13 DEF Fail, Succeeded
  <2> QED BY <1>3, <1>4, <1>5, <2>1, <2>2, TypeOfPass DEF bounds
<1>14. CASE StallFails
  <2>1. /\ phase' \in [Build -> PhaseName] /\ stalled' \in [Build -> BOOLEAN]
        /\ noPod' \in [Build -> BOOLEAN]
    BY <1>2, <1>3, <1>6, <1>14 DEF StallFails
  <2>2. pass' \in PassType /\ pass'.pc = "sweep" /\ pass'.todo # {}
    BY <1>2, <1>14 DEF StallFails, Pass, PassType, TypeInv
  <2> QED BY <1>3, <1>5, <1>14, <2>1, <2>2, TypeOfPass DEF StallFails, bounds
<1>15. CASE DeleteStalledJob
  <2> DEFINE w == First(pass.todo)
  <2>1. job' \in [Build -> [Image -> JobState]] /\ faults' \in Nat
    <3>1. [job[b] EXCEPT ![w] = "none"] \in [Image -> JobState]
      BY <1>2, <1>3 DEF JobState
    <3>2. job' = [job EXCEPT ![b] = [@ EXCEPT ![w] = "none"]] \/ job' = job
      BY <1>15 DEF DeleteStalledJob
    <3>3. faults' \in Nat
      BY <1>3, <1>15 DEF DeleteStalledJob
    <3> HIDE DEF w
    <3> QED BY <1>2, <1>3, <3>1, <3>2, <3>3
  <2>2. /\ pass' = NoPass \/ pass' \in PassType
        /\ pass'.pc \in {"idle", "sweep"} /\ (pass'.pc = "sweep" => pass'.todo # {})
    <3>1. pass.todo # {}
      BY <1>15 DEF DeleteStalledJob, TypeInv, TypeOK
    <3> QED BY <1>2, <1>4, <1>15, <3>1 DEF DeleteStalledJob, Pass, PassType
  <2> QED BY <1>3, <1>15, <2>1, <2>2, TypeOfPass DEF DeleteStalledJob, status
<1>16. CASE CreateRelease
  <2>1. release' \in [Build -> SUBSET Image]
    BY <1>2, <1>3, <1>16 DEF CreateRelease
  <2>2. pass' \in PassType /\ pass'.pc = "succeed"
    BY <1>2, <1>16 DEF CreateRelease, Pass, PassType
  <2> QED BY <1>3, <1>16, <2>1, <2>2, TypeOfPass DEF CreateRelease, status, bounds
<1>17. CASE Conflict
  BY <1>3, <1>4, <1>17, TypeOfPass DEF Conflict, status, bounds
<1> QED
  BY <1>7, <1>8, <1>9, <1>10, <1>11, <1>12, <1>13, <1>14, <1>15, <1>16, <1>17 DEF PassNext

\* A pass begins with what it read: the unit's images, the web process's among them.
LEMMA BeginTypes ==
    ASSUME TypeInv, NEW b \in Build, Begin(b)
    PROVE  TypeInv'
<1>1. Web \in Image
  BY BuildUnitAssumption DEF Web, Image
<1>2. Planned(b) \subseteq Image /\ Underway(b) \subseteq Image /\ Web \in Planned(b)
      /\ Web \in Underway(b) /\ Found(b) \subseteq Image
  BY <1>1 DEF Planned, Underway, Found, Workload, TypeInv, TypeOK
<1>3. Route(b) \in {"prepare", "fail", "release", "stall", "flag", "unflag", "mark", "idle"}
      /\ (Route(b) # "prepare" => Web \in Found(b))
  BY <1>2 DEF Route, Running, Found
<1>4. fresh' \in [Build -> SUBSET {"reconciler", "cancel"}]
  BY DEF Begin, TypeInv, TypeOK
<1>5. /\ pass' \in {NoPass} \cup PassType /\ pass'.pc \notin {"create", "sweep"}
      /\ pass'.pc = "prepare" => pass'.plans # {}
      /\ pass'.pc = "stall" => pass'.todo # {}
  <2>1. CASE Route(b) = "prepare"
    BY <1>2, <2>1 DEF Begin, Pass, PassType
  <2>2. CASE Route(b) = "idle"
    BY <2>2 DEF Begin, NoPass, Pass
  <2>3. CASE Route(b) = "stall"
    BY <1>2, <1>3, <2>3 DEF Begin, Pass, PassType
  <2>4. CASE Route(b) \notin {"prepare", "idle", "stall"}
    <3>1. pass' = Pass(Route(b), b, Underway(b), {})
      BY <2>4 DEF Begin
    <3> QED BY <1>2, <1>3, <2>4, <3>1 DEF Pass, PassType
  <2> QED BY <2>1, <2>2, <2>3, <2>4
<1> QED BY <1>4, <1>5 DEF Begin, TypeInv, TypeOK, PassType, bounds

\* No pass and no Job-by-Job step of the reconciler: requests, edits, the cluster.
LEMMA AroundTypes ==
    ASSUME TypeInv, NEW b \in Build, NEW w \in Image,
           \/ Park(b) \/ CancelBuild(b) \/ CancelNext(b) \/ DropCancel(b) \/ EditProject(b)
           \/ PodStarts(b, w) \/ Ages(b, w) \/ JobCompletes(b, w) \/ JobFails(b, w)
           \/ Collect(b, w)
    PROVE  TypeInv'
<1>1. Web \in Image
  BY BuildUnitAssumption DEF Web, Image
<1>2. ASSUME NEW v \in Image, NEW s \in JobState, job' = [job EXCEPT ![b][v] = s]
      PROVE  job' \in [Build -> [Image -> JobState]]
  BY <1>2 DEF TypeInv, TypeOK, JobState
<1>3. {"none", "active", "late", "overdue", "complete", "failed"} \subseteq JobState
  BY DEF JobState, Podless, Ended
<1>4. CASE Park(b)
  <2>1. phase' \in [Build -> PhaseName]
    BY <1>4 DEF Park, TypeInv, TypeOK, PhaseName
  <2> QED BY <1>4, <2>1 DEF Park, Write, TypeInv, TypeOK, PhaseName, bounds
<1>5. CASE CancelWrites(b)
  <2>1. phase' \in [Build -> PhaseName]
    BY <1>5 DEF CancelWrites, TypeInv, TypeOK, PhaseName, Terminal
  <2>2. fresh' \in [Build -> SUBSET {"reconciler", "cancel"}]
    BY <1>5 DEF CancelWrites, Write, TypeInv, TypeOK
  <2>3. cancel' \in [Build -> {"none", "delete", "write"}]
    BY <1>5 DEF CancelWrites, TypeInv, TypeOK
  <2> QED BY <1>5, <2>1, <2>2, <2>3 DEF CancelWrites, TypeInv, TypeOK, PhaseName, bounds
<1>6. CASE CancelBuild(b)
  <2>1. /\ fresh' \in [Build -> SUBSET {"reconciler", "cancel"}]
        /\ cancel' \in [Build -> {"none", "delete", "write"}]
    BY <1>6 DEF CancelBuild, TypeInv, TypeOK
  <2> QED BY <1>6, <2>1 DEF CancelBuild, TypeInv, TypeOK
<1>7. CASE DropCancel(b)
  <2>1. /\ fresh' \in [Build -> SUBSET {"reconciler", "cancel"}]
        /\ cancel' \in [Build -> {"none", "delete", "write"}]
    BY <1>7 DEF DropCancel, LetGo, TypeInv, TypeOK
  <2> QED BY <1>7, <2>1 DEF DropCancel, TypeInv, TypeOK, bounds
<1>8. CASE EditProject(b)
  <2>1. declared' \in [Build -> SUBSET Workload]
    BY <1>8 DEF EditProject, TypeInv, TypeOK
  <2> QED BY <1>8, <2>1 DEF EditProject, TypeInv, TypeOK, status
<1>9. CASE CancelDeletesJob(b)
  <2>1. job' \in [Build -> [Image -> JobState]]
    BY <1>1, <1>2, <1>3, <1>9 DEF CancelDeletesJob
  <2> QED BY <1>9, <2>1 DEF CancelDeletesJob, TypeInv, TypeOK, JobState, status, bounds
<1>10. CASE \/ PodStarts(b, w) \/ Ages(b, w) \/ JobCompletes(b, w) \/ JobFails(b, w)
            \/ Collect(b, w)
  <2>1. job' \in [Build -> [Image -> JobState]]
    BY <1>2, <1>3, <1>10 DEF PodStarts, Ages, JobCompletes, JobFails, Collect
  <2>2. /\ UNCHANGED <<status, release, declared, pass, cancel, edits, cancels>>
        /\ faults' \in Nat /\ pushed' \in [Build -> SUBSET Image]
    BY <1>10 DEF PodStarts, Ages, JobCompletes, JobFails, Collect, bounds, TypeInv, TypeOK
  <2> QED BY <2>1, <2>2 DEF TypeInv, TypeOK, JobState, status
<1> QED BY <1>4, <1>5, <1>6, <1>7, <1>8, <1>9, <1>10 DEF CancelNext

\* Nothing has been looked at, and no pass is under way.
LEMMA TypeInit == Init => TypeInv
BY BuildUnitAssumption DEF Init, TypeInv, TypeOK, NoPass, Pass

\* One step of anybody.
LEMMA TypeNext == TypeInv /\ [Next]_vars => TypeInv'
<1> SUFFICES ASSUME TypeInv, [Next]_vars PROVE TypeInv'
  OBVIOUS
<1>1. CASE UNCHANGED vars
  BY <1>1 DEF vars, status, bounds, TypeInv, TypeOK
<1>2. CASE Drop
  BY <1>2 DEF Drop, LetGo, TypeInv, TypeOK, NoPass, Pass
<1>3. Web \in Image
  BY BuildUnitAssumption DEF Web, Image
<1> QED BY <1>1, <1>2, <1>3, PassNextTypes, BeginTypes, AroundTypes DEF Next

\* Every reachable state is well typed: in particular a pass that creates a unit's Jobs,
\* or deletes those of a stalled one, always has one left to go to.
THEOREM TypeCorrect == Spec => []TypeOK
<1>1. TypeInv => TypeOK
  BY DEF TypeInv
<1> QED BY <1>1, TypeInit, TypeNext, PTL DEF Spec
-----------------------------------------------------------------------------
(* One commit, one coordinated release                                     *)

\* What a Job completed, it pushed, and a pass that releases planned nothing else.
PushedInv ==
    /\ \A b \in Build : \A w \in Image : job[b][w] = "complete" => w \in pushed[b]
    /\ pass.pc = "release" => pass.plans \subseteq pushed[pass.build]
    /\ \A b \in Build : release[b] \subseteq pushed[b]

\* While nobody edits a project, what a Build recorded starting, what a pass plans
\* and what a Release freezes are all the one unit the project declares.
UnitInv ==
    edits = 0 =>
        /\ \A b \in Build : started[b] \in {{}, declared[b]}
        /\ \A b \in Build : release[b] \in {{}, Planned(b)}
        /\ pass.pc # "idle" => pass.plans = Planned(pass.build)

\* A pass reads Jobs and records that are complete before it plans a Release.
LEMMA BeginPlans ==
    ASSUME TypeInv, NEW b \in Build, Begin(b)
    PROVE  /\ Web \in Image /\ Underway(b) \subseteq Image
           /\ pass'.pc # "idle" => pass'.build = b /\ pass'.plans \in {Planned(b), Underway(b)}
           /\ pass'.pc = "release" =>
                 pass'.plans = Underway(b) /\ AllComplete(b, Underway(b))
<1>1. Web \in Image
  BY BuildUnitAssumption DEF Web, Image
<1>2. Underway(b) \subseteq Image
  BY <1>1 DEF Underway, Workload, TypeInv, TypeOK
<1>3. CASE Route(b) = "prepare"
  BY <1>1, <1>2, <1>3 DEF Begin, Pass
<1>4. CASE Route(b) = "idle"
  BY <1>1, <1>2, <1>4 DEF Begin, Pass, NoPass
<1>5. CASE Route(b) = "stall"
  BY <1>1, <1>2, <1>5 DEF Begin, Pass
<1>6. CASE Route(b) \notin {"prepare", "idle", "stall"}
  <2>1. pass' = Pass(Route(b), b, Underway(b), {})
    BY <1>6 DEF Begin
  <2>2. Route(b) = "release" => AllComplete(b, Underway(b))
    BY DEF Route, Running
  <2> QED BY <1>1, <1>2, <2>1, <2>2 DEF Pass
<1> QED BY <1>3, <1>4, <1>5, <1>6

\* Every other step ends the pass or goes on with the plans it has, and only the
\* visit that reads the Jobs may turn a pass to releasing.
LEMMA PlansStay ==
    ASSUME TypeInv, [Next]_vars, \A b \in Build : ~Begin(b)
    PROVE  \/ pass'.pc = "idle"
           \/ /\ pass.pc # "idle" /\ pass'.build = pass.build /\ pass'.plans = pass.plans
              /\ pass'.pc = "release" => pass.pc = "release"
<1>1. CASE UNCHANGED pass
  BY <1>1
<1>2. CASE PassNext
  <2>1. CASE Refuse \/ Enqueue \/ Started \/ Report \/ Fail \/ Succeeded \/ Conflict
    <3>1. pass' = NoPass
      BY <2>1 DEF Refuse, Enqueue, Started, Report, Fail, Succeeded, Conflict
    <3> QED BY <3>1 DEF NoPass, Pass
  <2>2. CASE Admit \/ AdmitUnlisted \/ StallFails \/ CreateRelease
    BY <2>2 DEF Admit, AdmitUnlisted, StallFails, CreateRelease, Pass
  <2>3. CASE CreateJob
    BY <2>3 DEF CreateJob, Pass
  <2>4. CASE DeleteStalledJob
    BY <2>4 DEF DeleteStalledJob, Pass, NoPass
  <2> QED BY <1>2, <2>1, <2>2, <2>3, <2>4 DEF PassNext
<1>3. CASE Drop
  BY <1>3 DEF Drop, NoPass, Pass
<1> QED
  BY <1>1, <1>2, <1>3 DEF Next, Park, CancelBuild, CancelNext, CancelDeletesJob, CancelWrites,
     DropCancel, EditProject, PodStarts, Ages, JobCompletes, JobFails, Collect, vars

\* A Job is found complete only because it just completed, and then it pushed.
LEMMA CompletePushed ==
    ASSUME TypeInv, PushedInv, [Next]_vars, NEW b \in Build, NEW w \in Image,
           job'[b][w] = "complete"
    PROVE  w \in pushed'[b]
<1> USE DEF PushedInv
<1>1. /\ job \in [Build -> [Image -> JobState]] /\ pushed \in [Build -> SUBSET Image]
      /\ (pass.pc # "idle" => pass.build \in Build)
  BY PassTypes DEF TypeInv, TypeOK, JobState
<1>2. CASE job' = job /\ pushed' = pushed
  BY <1>2
<1>3. ASSUME NEW c, NEW v, NEW s, s # "complete" \/ job[c][v] = "complete",
             job' = [job EXCEPT ![c][v] = s], pushed' = pushed
      PROVE  w \in pushed'[b]
  <2>1. CASE c = b /\ v = w
    BY <1>1, <1>3, <2>1
  <2>2. CASE ~(c = b /\ v = w)
    BY <1>1, <1>3, <2>2
  <2> QED BY <2>1, <2>2
<1>4. CASE CreateJob
  BY <1>3, <1>4 DEF CreateJob
<1>5. CASE DeleteStalledJob
  <2>1. /\ \/ job' = [job EXCEPT ![pass.build][First(pass.todo)] = "none"]
           \/ UNCHANGED job
        /\ UNCHANGED pushed
    BY <1>5 DEF DeleteStalledJob
  <2> QED BY <1>2, <1>3, <2>1
<1>6. ASSUME NEW c \in Build, CancelDeletesJob(c) PROVE w \in pushed'[b]
  BY <1>3, <1>6 DEF CancelDeletesJob
<1>7. ASSUME NEW c \in Build, NEW v \in Image,
             PodStarts(c, v) \/ Ages(c, v) \/ JobFails(c, v) \/ Collect(c, v)
      PROVE  w \in pushed'[b]
  BY <1>3, <1>7 DEF PodStarts, Ages, JobFails, Collect
<1>8. ASSUME NEW c \in Build, NEW v \in Image, JobCompletes(c, v) PROVE w \in pushed'[b]
  BY <1>1, <1>8 DEF JobCompletes
<1>9. CASE UNCHANGED vars
  BY <1>2, <1>9 DEF vars
<1>10. CASE \/ Refuse \/ Enqueue \/ Admit \/ AdmitUnlisted \/ Started \/ Report \/ Fail
            \/ StallFails \/ CreateRelease \/ Succeeded \/ Conflict \/ Drop
  BY <1>2, <1>10 DEF Refuse, Enqueue, Admit, AdmitUnlisted, Started, Report, Fail, StallFails,
     CreateRelease, Succeeded, Conflict, Drop
<1>11. ASSUME NEW c \in Build, \/ Begin(c) \/ Park(c) \/ CancelBuild(c) \/ CancelWrites(c)
                                \/ DropCancel(c) \/ EditProject(c)
       PROVE  w \in pushed'[b]
  BY <1>2, <1>11 DEF Begin, Park, CancelBuild, CancelWrites, DropCancel, EditProject
<1> QED
  BY <1>4, <1>5, <1>6, <1>7, <1>8, <1>9, <1>10, <1>11 DEF Next, PassNext, CancelNext
\* Declared workloads stay while nobody edits a project.
LEMMA PlannedStays ==
    ASSUME TypeInv, [Next]_vars, edits' = 0
    PROVE  /\ edits = 0 /\ declared' = declared
           /\ \A b \in Build : Planned(b)' = Planned(b)
<1>1. CASE \E c \in Build : EditProject(c)
  BY <1>1 DEF EditProject, TypeInv, TypeOK
<1>2. CASE UNCHANGED <<edits, declared>>
  BY <1>2 DEF Planned
<1>3. CASE PassNext
  BY <1>2, <1>3 DEF PassNext, Refuse, Enqueue, Admit, AdmitUnlisted, CreateJob, Started,
     Report, Fail, StallFails, DeleteStalledJob, CreateRelease, Succeeded, Conflict, bounds
<1> QED
  BY <1>1, <1>2, <1>3 DEF Next, Drop, Begin, Park, CancelBuild, CancelNext, CancelDeletesJob,
     CancelWrites, DropCancel, PodStarts, Ages, JobCompletes, JobFails, Collect, vars, bounds

\* started is written by a pass, with the plans it has, the web process apart.
LEMMA RecordedStarting ==
    ASSUME TypeInv, [Next]_vars, NEW b \in Build
    PROVE  \/ started'[b] = started[b]
           \/ pass.pc # "idle" /\ pass.build = b /\ started'[b] = pass.plans \ {Web}
<1>1. CASE UNCHANGED started
  BY <1>1
<1>2. CASE Started \/ Fail \/ Succeeded
  BY <1>2 DEF Started, Fail, Succeeded, TypeInv, TypeOK
<1>3. CASE PassNext
  BY <1>1, <1>2, <1>3 DEF PassNext, Refuse, Enqueue, Admit, AdmitUnlisted, CreateJob,
     Report, StallFails, DeleteStalledJob, CreateRelease, Conflict, status
<1> QED
  BY <1>1, <1>3 DEF Next, Drop, Begin, Park, CancelBuild, CancelNext, CancelDeletesJob,
     CancelWrites, DropCancel, EditProject, PodStarts, Ages, JobCompletes, JobFails, Collect,
     vars, status

\* A Release is made by a pass that releases, of its plans, once.
LEMMA FrozenOnce ==
    ASSUME TypeInv, [Next]_vars, NEW b \in Build
    PROVE  \/ release'[b] = release[b]
           \/ pass.pc = "release" /\ pass.build = b /\ release'[b] = pass.plans
<1>1. CASE UNCHANGED release
  BY <1>1
<1>2. CASE CreateRelease
  BY <1>2 DEF CreateRelease, TypeInv, TypeOK
<1>3. CASE PassNext
  BY <1>1, <1>2, <1>3 DEF PassNext, Refuse, Enqueue, Admit, AdmitUnlisted, CreateJob, Started,
     Report, Fail, StallFails, DeleteStalledJob, Succeeded, Conflict
<1> QED
  BY <1>1, <1>3 DEF Next, Drop, Begin, Park, CancelBuild, CancelNext, CancelDeletesJob,
     CancelWrites, DropCancel, EditProject, PodStarts, Ages, JobCompletes, JobFails, Collect,
     vars

\* What was pushed stays pushed.
LEMMA PushedStays ==
    ASSUME TypeInv, [Next]_vars, NEW b \in Build
    PROVE  pushed[b] \subseteq pushed'[b]
<1>1. CASE UNCHANGED pushed
  BY <1>1
<1>2. CASE \E c \in Build, w \in Image : JobCompletes(c, w)
  BY <1>2 DEF JobCompletes, TypeInv, TypeOK
<1>3. CASE PassNext
  BY <1>1, <1>3 DEF PassNext, Refuse, Enqueue, Admit, AdmitUnlisted, CreateJob, Started,
     Report, Fail, StallFails, DeleteStalledJob, CreateRelease, Succeeded, Conflict
<1> QED
  BY <1>1, <1>2, <1>3 DEF Next, Drop, Begin, Park, CancelBuild, CancelNext, CancelDeletesJob,
     CancelWrites, DropCancel, EditProject, PodStarts, Ages, JobFails, Collect, vars

\* "One commit, one coordinated release", for every number of images, edits, requests
\* and failures: a Release freezes only what its Build pushed, and the whole unit
\* where nobody edited the project.
THEOREM WholeRelease == Spec => []ReleasedWhole
<1>1. Init => PushedInv /\ UnitInv
  BY DEF Init, PushedInv, UnitInv, NoPass, Pass
<1>2. ASSUME TypeInv, PushedInv, [Next]_vars PROVE PushedInv'
  <2>1. \A b \in Build : \A w \in Image : job'[b][w] = "complete" => w \in pushed'[b]
    BY <1>2, CompletePushed
  <2>2. pass'.pc = "release" => pass'.plans \subseteq pushed'[pass'.build]
    <3>1. ASSUME NEW b \in Build, Begin(b), pass'.pc = "release"
          PROVE  pass'.plans \subseteq pushed'[pass'.build]
      <4>1. /\ pass'.build = b /\ pass'.plans \subseteq Image
            /\ \A w \in pass'.plans : job[b][w] = "complete"
        BY <1>2, <3>1, BeginPlans DEF AllComplete
      <4>2. UNCHANGED pushed
        BY <3>1 DEF Begin
      <4> QED BY <1>2, <4>1, <4>2 DEF PushedInv
    <3>2. CASE \A b \in Build : ~Begin(b)
      BY <1>2, <3>2, PlansStay, PushedStays, PassTypes DEF PushedInv
    <3> QED BY <3>1, <3>2
  <2>3. \A b \in Build : release'[b] \subseteq pushed'[b]
    BY <1>2, FrozenOnce, PushedStays DEF PushedInv
  <2> QED BY <2>1, <2>2, <2>3 DEF PushedInv
<1>3. ASSUME TypeInv, UnitInv, [Next]_vars PROVE UnitInv'
  <2> SUFFICES ASSUME edits' = 0
               PROVE  /\ \A b \in Build : started'[b] \in {{}, declared'[b]}
                      /\ \A b \in Build : release'[b] \in {{}, Planned(b)'}
                      /\ pass'.pc # "idle" => pass'.plans = Planned(pass.build)'
    BY DEF UnitInv
  <2>1. /\ edits = 0 /\ declared' = declared
        /\ \A b \in Build : Planned(b)' = Planned(b)
    BY <1>3, PlannedStays
  <2>2. pass.pc # "idle" => /\ pass.build \in Build /\ pass.plans = Planned(pass.build)
                            /\ pass.plans \ {Web} = declared[pass.build]
    BY <1>3, <2>1, PassTypes DEF UnitInv, Planned, TypeInv, TypeOK, Workload
  <2>3. \A b \in Build : started'[b] \in {{}, declared'[b]}
    BY <1>3, <2>1, <2>2, RecordedStarting DEF UnitInv
  <2>4. \A b \in Build : release'[b] \in {{}, Planned(b)'}
    BY <1>3, <2>1, <2>2, FrozenOnce DEF UnitInv
  <2>5. pass'.pc # "idle" => pass'.plans = Planned(pass.build)'
    <3>1. ASSUME NEW b \in Build, Begin(b), pass'.pc # "idle"
          PROVE  pass'.plans = Planned(pass.build)'
      <4>1. Underway(b) = Planned(b)
        BY <1>3, <2>1 DEF Underway, Planned, UnitInv
      <4> QED BY <1>3, <2>1, <3>1, <4>1, BeginPlans DEF Planned
    <3>2. CASE \A b \in Build : ~Begin(b)
      BY <1>3, <2>1, <2>2, <3>2, PlansStay DEF Planned
    <3> QED BY <3>1, <3>2
  <2> QED BY <2>3, <2>4, <2>5
<1>4. TypeInv /\ PushedInv /\ UnitInv => ReleasedWhole
  BY DEF PushedInv, UnitInv, ReleasedWhole
<1> QED BY <1>1, <1>2, <1>3, <1>4, TypeInit, TypeNext, PTL DEF Spec
-----------------------------------------------------------------------------
(* The concurrency limit                                                   *)

RunningNow == {b \in Build : phase[b] = "Running"}
Others(b)  == {c \in Build \ {b} : phase[c] = "Running"}

\* A pass that may create a unit's Jobs.
Creating == pass.pc \in {"create", "started"}

\* The slot a pass was admitted to stays free until it takes it.
SlotKept ==
    /\ IsFiniteSet(RunningNow) /\ Cardinality(RunningNow) <= Concurrency
    /\ Creating => FreeSlot(pass.build)

\* A web process's Job is found only under a Build that took a slot, or whose pass
\* is about to.
JobsCounted ==
    \A b \in Build : job[b][Web] # "none" =>
        \/ phase[b] \in {"Running"} \cup Terminal
        \/ Creating /\ pass.build = b

\* What a pass decided on still holds when it writes: its copy is current, or its
\* Build is over.
DecisionHolds ==
    /\ pass.pc \notin {"idle", "sweep"} => Current(pass.build) \/ phase[pass.build] \in Terminal
    /\ pass.pc = "prepare" => job[pass.build][Web] = "none"
    /\ pass.pc \in {"flag", "unflag", "mark"} => phase[pass.build] \in {"Running"} \cup Terminal

LimitInv == faults = 0 => SlotKept /\ JobsCounted /\ DecisionHolds

\* The set counted while a Build is left aside.
LEMMA OthersCounted ==
    ASSUME NEW b \in Build
    PROVE  Others(b) = RunningNow \ {b} /\ (FreeSlot(b) <=> Cardinality(Others(b)) < Concurrency)
BY DEF Others, RunningNow, FreeSlot

\* Fewer Builds Running, and no fewer slots free.
LEMMA FewerRunning ==
    ASSUME IsFiniteSet(RunningNow), Cardinality(RunningNow) <= Concurrency,
           RunningNow' \subseteq RunningNow
    PROVE  /\ IsFiniteSet(RunningNow') /\ Cardinality(RunningNow') <= Concurrency
           /\ \A b \in Build : FreeSlot(b) => FreeSlot(b)'
<1>1. IsFiniteSet(RunningNow') /\ Cardinality(RunningNow') <= Cardinality(RunningNow)
  BY FS_Subset
<1>2. Cardinality(RunningNow) \in Nat /\ Cardinality(RunningNow') \in Nat /\ Concurrency \in Nat
  BY <1>1, FS_CardinalityType, BuildUnitAssumption
<1>3. ASSUME NEW b \in Build, FreeSlot(b) PROVE FreeSlot(b)'
  <2>1. Others(b) \subseteq RunningNow /\ Others(b)' \subseteq Others(b)
    BY OthersCounted DEF Others, RunningNow
  <2>2. IsFiniteSet(Others(b))
    BY <2>1, FS_Subset
  <2>3. IsFiniteSet(Others(b)') /\ Cardinality(Others(b)') <= Cardinality(Others(b))
    BY <2>1, <2>2, FS_Subset
  <2>4. Cardinality(Others(b)) \in Nat /\ Cardinality(Others(b)') \in Nat
    BY <2>2, <2>3, FS_CardinalityType
  <2>5. Cardinality(Others(b)) < Concurrency
    BY <1>3, OthersCounted
  <2>6. Cardinality(Others(b)') < Concurrency
    BY <1>2, <2>3, <2>4, <2>5
  <2> QED BY <2>6 DEF Others, FreeSlot
<1> QED BY <1>1, <1>2, <1>3

\* One more Build Running, in a slot that was free.
LEMMA OneMoreRunning ==
    ASSUME IsFiniteSet(RunningNow), NEW b \in Build, FreeSlot(b),
           RunningNow' = RunningNow \cup {b}
    PROVE  IsFiniteSet(RunningNow') /\ Cardinality(RunningNow') <= Concurrency
<1>1. IsFiniteSet(Others(b)) /\ b \notin Others(b) /\ RunningNow' = Others(b) \cup {b}
  BY OthersCounted, FS_RemoveElement
<1>2. /\ IsFiniteSet(RunningNow')
      /\ Cardinality(RunningNow') = Cardinality(Others(b)) + 1
  BY <1>1, FS_AddElement
<1>3. Cardinality(Others(b)) \in Nat /\ Cardinality(Others(b)) < Concurrency
  BY <1>1, FS_CardinalityType, OthersCounted
<1> QED BY <1>2, <1>3, BuildUnitAssumption
\* A step between passes or beside one that starts none of them, makes no Job and
\* lets no Build be Running that was not.
LEMMA LimitQuiet ==
    ASSUME SlotKept, JobsCounted, DecisionHolds, OverTypes,
           phase' \in [Build -> PhaseName],
           \A b \in Build : phase'[b] = phase[b] \/ phase'[b] \in Terminal,
           \A b \in Build : job'[b][Web] # "none" => job[b][Web] # "none",
           \/ /\ pass'.pc = "idle"
              /\ Creating => phase'[pass.build] \in {"Running"} \cup Terminal
           \/ /\ UNCHANGED pass
              /\ \A b \in Build : Current(b) => Current(b)' \/ phase'[b] \in Terminal
    PROVE  SlotKept' /\ JobsCounted' /\ DecisionHolds'
<1>1. RunningNow' \subseteq RunningNow
  BY DEF RunningNow, Terminal
<1>2. SlotKept'
  BY <1>1, FewerRunning DEF SlotKept, Creating, OverTypes
<1>3. JobsCounted'
  BY DEF JobsCounted, Creating
<1>4. DecisionHolds'
  BY DEF DecisionHolds, OverTypes
<1> QED BY <1>2, <1>3, <1>4
\* Only a pass that creates Jobs makes one.
LEMMA NoNewJob ==
    ASSUME TypeInv, [Next]_vars, ~CreateJob, NEW b \in Build, NEW w \in Image,
           job[b][w] = "none"
    PROVE  job'[b][w] = "none"
<1>1. /\ job \in [Build -> [Image -> JobState]]
      /\ (pass.pc # "idle" => pass.build \in Build)
  BY PassTypes DEF TypeInv, TypeOK, JobState
<1>2. ASSUME NEW c, NEW v, NEW s, s = "none" \/ job[c][v] # "none",
             job' = [job EXCEPT ![c][v] = s]
      PROVE  job'[b][w] = "none"
  <2>1. CASE c = b /\ v = w
    BY <1>1, <1>2, <2>1
  <2>2. CASE ~(c = b /\ v = w)
    BY <1>1, <1>2, <2>2
  <2> QED BY <2>1, <2>2
<1>3. CASE DeleteStalledJob
  <2>1. \/ job' = [job EXCEPT ![pass.build][First(pass.todo)] = "none"]
        \/ UNCHANGED job
    BY <1>3 DEF DeleteStalledJob
  <2> QED BY <1>2, <2>1
<1>4. ASSUME NEW c \in Build, CancelDeletesJob(c) PROVE job'[b][w] = "none"
  BY <1>2, <1>4 DEF CancelDeletesJob
<1>5. ASSUME NEW c \in Build, NEW v \in Image,
             \/ PodStarts(c, v) \/ Ages(c, v) \/ JobCompletes(c, v) \/ JobFails(c, v)
             \/ Collect(c, v)
      PROVE  job'[b][w] = "none"
  BY <1>2, <1>5 DEF PodStarts, Ages, JobCompletes, JobFails, Collect, Podless, Ended
<1>6. CASE \/ Refuse \/ Enqueue \/ Admit \/ AdmitUnlisted \/ Started \/ Report \/ Fail
           \/ StallFails \/ CreateRelease \/ Succeeded \/ Conflict \/ Drop
  BY <1>6 DEF Refuse, Enqueue, Admit, AdmitUnlisted, Started, Report, Fail, StallFails,
     CreateRelease, Succeeded, Conflict, Drop
<1>7. ASSUME NEW c \in Build, \/ Begin(c) \/ Park(c) \/ CancelBuild(c) \/ CancelWrites(c)
                               \/ DropCancel(c) \/ EditProject(c)
      PROVE  job'[b][w] = "none"
  BY <1>7 DEF Begin, Park, CancelBuild, CancelWrites, DropCancel, EditProject
<1>8. CASE UNCHANGED vars
  BY <1>8 DEF vars
<1> QED
  BY <1>3, <1>4, <1>5, <1>6, <1>7, <1>8 DEF Next, PassNext, CancelNext

\* The reconciler's pass, when the builds could be listed.
LEMMA PassLimit ==
    ASSUME SlotKept, JobsCounted, DecisionHolds, OverInv, OverTypes', TypeInv, PassNext,
           ~AdmitUnlisted
    PROVE  SlotKept' /\ JobsCounted' /\ DecisionHolds'
<1> DEFINE b == pass.build
<1>1. OverTypes /\ phase' \in [Build -> PhaseName]
  BY DEF OverInv, OverTypes
<1>2. NoPass.pc = "idle"
  BY DEF NoPass, Pass
<1>3. Web \in Image
  BY BuildUnitAssumption DEF Web, Image
<1>4. pass.pc # "idle" => b \in Build
  BY <1>1 DEF OverTypes
<1>5. ~CreateJob => \A c \in Build : job'[c][Web] # "none" => job[c][Web] # "none"
  BY <1>3, NoNewJob DEF Next
<1>6. CASE Refuse \/ Fail \/ Succeeded
  <2>1. /\ pass'.pc = "idle" /\ ~Creating /\ ~CreateJob
        /\ \A c \in Build : phase'[c] = phase[c] \/ phase'[c] \in Terminal
    BY <1>1, <1>2, <1>6 DEF Refuse, Fail, Succeeded, Creating, CreateJob, Terminal, OverTypes
  <2> QED BY <1>1, <1>5, <2>1, LimitQuiet
<1>7. CASE Enqueue
  <2>1. CASE UNCHANGED phase
    <3>1. pass'.pc = "idle" /\ ~Creating /\ ~CreateJob
      BY <1>2, <1>7 DEF Enqueue, Creating, CreateJob
    <3> QED BY <1>1, <1>5, <2>1, <3>1, LimitQuiet
  <2>2. CASE phase' = [phase EXCEPT ![b] = "Queued"]
    <3>1. pass.pc = "prepare" /\ pass'.pc = "idle" /\ job' = job /\ b \in Build
      BY <1>2, <1>4, <1>7 DEF Enqueue
    <3>2. RunningNow' \subseteq RunningNow
      BY <1>1, <2>2 DEF RunningNow, OverTypes
    <3>3. SlotKept'
      BY <3>1, <3>2, FewerRunning DEF SlotKept, Creating
    <3>4. JobsCounted'
      BY <1>1, <2>2, <3>1 DEF JobsCounted, Creating, DecisionHolds, OverTypes
    <3> QED BY <3>1, <3>3, <3>4 DEF DecisionHolds
  <2> QED BY <1>7, <2>1, <2>2 DEF Enqueue
<1>8. CASE Admit
  <2>1. /\ pass.pc = "prepare" /\ pass'.pc = "create" /\ pass'.build = b /\ FreeSlot(b)
        /\ UNCHANGED <<phase, fresh, job>>
    BY <1>8 DEF Admit, Pass, status
  <2>2. SlotKept'
    BY <2>1 DEF SlotKept, RunningNow, FreeSlot
  <2>3. JobsCounted' /\ DecisionHolds'
    BY <2>1 DEF JobsCounted, DecisionHolds, Creating, Current
  <2> QED BY <2>2, <2>3
<1>9. CASE CreateJob
  <2>1. /\ pass.pc = "create" /\ pass'.pc \in {"create", "started"} /\ pass'.build = b
        /\ UNCHANGED <<phase, fresh>>
    BY <1>9 DEF CreateJob, Pass, status
  <2>2. \A c \in Build \ {b} : job'[c] = job[c]
    BY <1>1, <1>9 DEF CreateJob, OverTypes
  <2>3. SlotKept'
    BY <2>1 DEF SlotKept, RunningNow, FreeSlot, Creating
  <2>4. JobsCounted' /\ DecisionHolds'
    BY <2>1, <2>2 DEF JobsCounted, DecisionHolds, Creating, Current
  <2> QED BY <2>3, <2>4
<1>10. CASE Started
  <2>1. /\ Creating /\ pass'.pc = "idle" /\ b \in Build /\ UNCHANGED job
        /\ phase' = [phase EXCEPT ![b] = "Running"]
    BY <1>2, <1>4, <1>10 DEF Started, Creating
  <2>2. RunningNow' = RunningNow \cup {b}
    BY <1>1, <2>1 DEF RunningNow, OverTypes
  <2>3. SlotKept'
    BY <2>1, <2>2, OneMoreRunning DEF SlotKept, Creating
  <2>4. JobsCounted'
    BY <1>1, <2>1 DEF JobsCounted, Creating, OverTypes
  <2> QED BY <2>1, <2>3, <2>4 DEF DecisionHolds
<1>11. CASE Report
  <2>1. /\ pass.pc \in {"flag", "unflag", "mark"} /\ Current(b) /\ b \in Build
        /\ pass'.pc = "idle" /\ phase' = [phase EXCEPT ![b] = "Running"]
    BY <1>2, <1>4, <1>11 DEF Report
  <2>2. phase[b] = "Running"
    BY <2>1 DEF DecisionHolds, Current, OverInv, CopiesOpen
  <2>3. phase' = phase /\ ~Creating /\ ~CreateJob
    BY <1>1, <2>1, <2>2 DEF OverTypes, Creating, CreateJob
  <2> QED BY <1>1, <1>5, <2>1, <2>3, LimitQuiet
<1>12. CASE StallFails
  <2>1. /\ pass'.pc = "sweep" /\ ~Creating /\ b \in Build /\ UNCHANGED job
        /\ phase' = [phase EXCEPT ![b] = "Failed"]
    BY <1>4, <1>12 DEF StallFails, Pass, Creating
  <2>2. RunningNow' \subseteq RunningNow
    BY <1>1, <2>1 DEF RunningNow, OverTypes
  <2>3. SlotKept'
    BY <2>1, <2>2, FewerRunning DEF SlotKept, Creating
  <2>4. JobsCounted'
    BY <1>1, <2>1 DEF JobsCounted, Creating, OverTypes, Terminal
  <2> QED BY <2>1, <2>3, <2>4 DEF DecisionHolds
<1>13. CASE DeleteStalledJob
  <2>1. /\ pass'.pc \in {"idle", "sweep"} /\ ~Creating /\ ~CreateJob
        /\ UNCHANGED phase
    BY <1>2, <1>13 DEF DeleteStalledJob, Pass, Creating, CreateJob, status
  <2>2. RunningNow' \subseteq RunningNow
    BY <2>1 DEF RunningNow
  <2>3. SlotKept'
    BY <2>1, <2>2, FewerRunning DEF SlotKept, Creating
  <2>4. JobsCounted'
    BY <1>5, <2>1 DEF JobsCounted, Creating
  <2> QED BY <2>1, <2>3, <2>4 DEF DecisionHolds
<1>14. CASE CreateRelease
  <2>1. /\ pass.pc = "release" /\ pass'.pc = "succeed" /\ pass'.build = b
        /\ UNCHANGED <<phase, fresh, job>>
    BY <1>14 DEF CreateRelease, Pass, status
  <2>2. SlotKept'
    BY <2>1 DEF SlotKept, RunningNow, Creating
  <2>3. JobsCounted' /\ DecisionHolds'
    BY <2>1 DEF JobsCounted, DecisionHolds, Creating, Current
  <2> QED BY <2>2, <2>3
<1>15. CASE Conflict
  <2>1. /\ pass'.pc = "idle" /\ ~CreateJob /\ UNCHANGED phase
        /\ phase[b] \in Terminal
    BY <1>2, <1>15 DEF Conflict, CreateJob, status, DecisionHolds
  <2> QED BY <1>1, <1>5, <2>1, LimitQuiet
<1> QED
  BY <1>6, <1>7, <1>8, <1>9, <1>10, <1>11, <1>12, <1>13, <1>14, <1>15 DEF PassNext
\* The visit that starts a pass.
LEMMA BeginLimit ==
    ASSUME SlotKept, JobsCounted, DecisionHolds, OverTypes, NEW b \in Build, Begin(b)
    PROVE  SlotKept' /\ JobsCounted' /\ DecisionHolds'
<1>1. /\ ~Creating /\ UNCHANGED <<phase, job>>
  BY DEF Begin, Creating
<1>2. /\ pass'.pc \in {"idle", Route(b)} /\ (pass'.pc # "idle" => pass'.build = b)
  BY DEF Begin, Pass, NoPass
<1>3. Route(b) \notin {"create", "started"}
  BY DEF Route, Running
<1>4. Route(b) # "idle" => Current(b)'
  BY DEF Begin, Current, OverTypes
<1>5. Route(b) = "prepare" <=> job[b][Web] = "none"
  BY DEF Route, Running
<1>6. SlotKept'
  BY <1>1, <1>2, <1>3 DEF SlotKept, RunningNow, Creating
<1>7. JobsCounted'
  BY <1>1 DEF JobsCounted, Creating
<1>8. DecisionHolds'
  BY <1>1, <1>2, <1>4, <1>5 DEF DecisionHolds, JobsCounted
<1> QED BY <1>6, <1>7, <1>8

\* One step of anybody, as long as no call fails.
LEMMA LimitNext ==
    ASSUME LimitInv, OverInv, OverInv', TypeInv, [Next]_vars
    PROVE  LimitInv'
<1> SUFFICES ASSUME faults' = 0 PROVE SlotKept' /\ JobsCounted' /\ DecisionHolds'
  BY DEF LimitInv
<1>1. /\ OverTypes /\ OverTypes' /\ Web \in Image /\ faults \in Nat
  BY BuildUnitAssumption DEF OverInv, Web, Image, TypeInv, TypeOK
<1>2. faults = 0 /\ ~AdmitUnlisted /\ ~Drop /\ \A b \in Build : ~Park(b)
  <2>1. ~AdmitUnlisted /\ ~Drop /\ \A b \in Build : ~Park(b)
    BY <1>1 DEF AdmitUnlisted, Drop, Park
  <2>2. CASE UNCHANGED faults
    BY <2>1, <2>2
  <2>3. CASE faults' = faults + 1
    BY <1>1, <2>3
  <2>4. CASE PassNext
    <3>1. UNCHANGED faults \/ faults' = faults + 1
      BY <2>1, <2>4 DEF PassNext, Refuse, Enqueue, Admit, CreateJob, Started, Report, Fail,
         StallFails, DeleteStalledJob, CreateRelease, Succeeded, Conflict, bounds
    <3> QED BY <2>2, <2>3, <3>1
  <2> QED
    BY <2>1, <2>2, <2>3, <2>4 DEF Next, Begin, CancelBuild, CancelNext, CancelDeletesJob,
       CancelWrites, DropCancel, EditProject, PodStarts, Ages, JobCompletes, JobFails, Collect,
       vars, bounds
<1>3. SlotKept /\ JobsCounted /\ DecisionHolds
  BY <1>2 DEF LimitInv
<1>4. phase' \in [Build -> PhaseName]
  BY <1>1 DEF OverTypes
<1>5. CASE PassNext
  BY <1>1, <1>2, <1>3, <1>5, PassLimit
<1>6. ASSUME NEW b \in Build, Begin(b) PROVE SlotKept' /\ JobsCounted' /\ DecisionHolds'
  BY <1>1, <1>3, <1>6, BeginLimit
<1>7. ASSUME NEW b \in Build, NEW w \in Image,
             \/ CancelBuild(b) \/ CancelNext(b) \/ DropCancel(b) \/ EditProject(b)
             \/ PodStarts(b, w) \/ Ages(b, w) \/ JobCompletes(b, w) \/ JobFails(b, w)
             \/ Collect(b, w)
      PROVE  SlotKept' /\ JobsCounted' /\ DecisionHolds'
  <2>1. UNCHANGED pass
    BY <1>7 DEF CancelBuild, CancelNext, CancelDeletesJob, CancelWrites, DropCancel, EditProject,
       PodStarts, Ages, JobCompletes, JobFails, Collect
  <2>2. \A c \in Build : phase'[c] = phase[c] \/ phase'[c] \in Terminal
    BY <1>1, <1>7 DEF CancelBuild, CancelNext, CancelDeletesJob, CancelWrites, DropCancel,
       EditProject, PodStarts, Ages, JobCompletes, JobFails, Collect, status, OverTypes, Terminal
  <2>3. \A c \in Build : Current(c) => Current(c)' \/ phase'[c] \in Terminal
    <3>1. CASE CancelWrites(b)
      BY <1>1, <3>1 DEF CancelWrites, Write, Current, OverTypes, Terminal
    <3>2. CASE CancelBuild(b)
      BY <1>1, <3>2 DEF CancelBuild, Current, OverTypes
    <3>3. CASE DropCancel(b)
      BY <1>1, <3>3 DEF DropCancel, LetGo, Current, OverTypes
    <3>4. CASE UNCHANGED fresh
      BY <3>4 DEF Current
    <3> QED BY <1>7, <3>1, <3>2, <3>3, <3>4 DEF CancelNext, CancelDeletesJob, EditProject,
       PodStarts, Ages, JobCompletes, JobFails, Collect, status
  <2>4. CASE CreateJob
    BY <1>1, <1>2, <1>3, <2>4, PassLimit DEF PassNext
  <2>5. CASE ~CreateJob
    <3>1. \A c \in Build : job'[c][Web] # "none" => job[c][Web] # "none"
      BY <1>1, <2>5, NoNewJob
    <3> QED BY <1>1, <1>3, <1>4, <2>1, <2>2, <2>3, <3>1, LimitQuiet
  <2> QED BY <2>4, <2>5
<1>8. CASE UNCHANGED vars
  <2>1. UNCHANGED <<pass, phase, fresh, job>>
    BY <1>8 DEF vars, status
  <2> QED BY <1>1, <1>3, <1>4, <2>1, LimitQuiet DEF Current
<1> QED BY <1>2, <1>5, <1>6, <1>7, <1>8, <1>1 DEF Next

\* gateConcurrency, for every number of Builds and every limit: as long as no call
\* fails, no more Builds are Running than the platform allows, those that start over
\* included.
THEOREM WithinLimit == Spec => []RunningWithinLimit
<1>1. Init => LimitInv
  <2> SUFFICES ASSUME Init PROVE SlotKept /\ JobsCounted /\ DecisionHolds
    BY DEF LimitInv
  <2>1. RunningNow = {} /\ pass.pc = "idle"
    BY DEF Init, RunningNow, NoPass, Pass
  <2>2. SlotKept
    BY <2>1, FS_EmptySet, BuildUnitAssumption DEF SlotKept, Creating
  <2>3. Web \in Image
    BY BuildUnitAssumption DEF Web, Image
  <2> QED BY <2>1, <2>2, <2>3 DEF Init, JobsCounted, DecisionHolds
<1>2. LimitInv => RunningWithinLimit
  BY DEF LimitInv, SlotKept, RunningWithinLimit, RunningNow
<1> QED
  BY <1>1, <1>2, LimitNext, OverInit, OverNext, TypeInit, TypeNext, PTL DEF Spec
=============================================================================
