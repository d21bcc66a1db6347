------------------------- MODULE DeployTasksProofs -------------------------
(***************************************************************************)
(* What DeployTasks guarantees for any tasks and releases, whichever tasks *)
(* a release declares or runs here, and any number of moves, retries, lost *)
(* Jobs and dropped passes: every state is well typed, and while the cache *)
(* keeps up a deploy runs a task once, one run of it at a time, and in the *)
(* order its release declares, before the release serves.                  *)
(***************************************************************************)
EXTENDS DeployTasks, FiniteSetTheorems, TLAPS

Outs == {"clear", "waiting", "failed"}
Pcs  == {"idle", "tasks", "verdict", "delete", "apply", "status"}

PassType ==
    [pc : Pcs, release : Name, rows : [Task -> RowType], next : Nat \ {0},
     out : Outs, refused : SUBSET Run, current : BOOLEAN]

\* The task a pass is at is one of those its release declares.
InTurn ==
    /\ pass.pc # "idle" => pass.release \in Release
    /\ pass.pc = "tasks" => pass.next \in DOMAIN Declares[pass.release]

TypeInv == TypeOK /\ pass \in PassType /\ lagging \in Lagging /\ InTurn

\* Rows are being brought up to date, or are about to be written.
Busy == pass.pc \in {"tasks", "verdict", "apply", "status"}

\* The pass has not come to t.
Ahead(t) == \A i \in DOMAIN Declares[pass.release] :
               i < pass.next => Declares[pass.release][i] # t

\* A run the pass is to end is not what its task waits for.
Past(row, m) == m < row.attempt \/ (m = row.attempt /\ row.phase = "Failed")

(***************************************************************************)
(* The pass's copy: it is of the release that is the target until somebody *)
(* writes, and of a task it has not come to it has the number and the      *)
(* phase of the row.                                                       *)
(***************************************************************************)
CopyInv ==
    /\ Busy =>
          /\ pass.current => pass.release = target
          /\ \A t \in Task : Ahead(t) =>
                /\ pass.rows[t].attempt = rows[t].attempt
                /\ pass.rows[t].phase = rows[t].phase
          /\ \A j \in pass.refused : ~Ahead(j[1]) /\ Past(pass.rows[j[1]], j[2])
    /\ pass.pc = "delete" => \A j \in pass.refused : Past(rows[j[1]], j[2])

\* By these rows a pass for r would create a Job of t.
Due(rs, r, t) ==
    /\ t \in Needed(r)
    /\ rs[t].attempt < MaxRuns /\ jobs[<<t, rs[t].attempt + 1>>] = "absent"
    /\ rs[t].release = r /\ rs[t].phase # "none" =>
          /\ rs[t].phase = "Running"
          /\ rs[t].attempt # 0 => jobs[<<t, rs[t].attempt>>] = "absent"

(***************************************************************************)
(* Every run is owed, and so is the one that would be made next, by the    *)
(* rows on record or by those of the pass.                                 *)
(***************************************************************************)
OwedAt(t) ==
    /\ started[t] <= owed[t]
    /\ Due(rows, target, t) => started[t] < owed[t]
    /\ Busy /\ Due(pass.rows, pass.release, t) => started[t] < owed[t]

OwedInv == \A t \in Task : OwedAt(t)

Going(t, m) == m \in 1..MaxRuns /\ jobs[<<t, m>>] = "running"

Always == {t \in Task : \A r \in Release : t \in Needed(r)}

\* A row that says its run is over says so of one that is.
OverIn(rs, t) == rs[t].phase # "Running" => ~Going(t, rs[t].attempt)

(***************************************************************************)
(* The run a row names or the one after it may be going, and not both; a   *)
(* pass that is one ahead of the row has left the row's run behind, over.  *)
(***************************************************************************)
OneAt(t) ==
    /\ \A m \in 1..MaxRuns : Going(t, m) => m \in {rows[t].attempt, rows[t].attempt + 1}
    /\ ~(Going(t, rows[t].attempt) /\ Going(t, rows[t].attempt + 1))
    /\ OverIn(rows, t)
    /\ Busy =>
          /\ OverIn(pass.rows, t)
          /\ \/ pass.rows[t].attempt = rows[t].attempt
             \/ /\ pass.rows[t].attempt = rows[t].attempt + 1
                /\ ~Going(t, rows[t].attempt)

OneInv == \A t \in Always : OneAt(t)

RunInv == ~lagging => CopyInv /\ OwedInv /\ OneInv

-----------------------------------------------------------------------------
(***************************************************************************)
(* Steps of a pass                                                         *)
(***************************************************************************)
LEMMA Assumed ==
    /\ None \notin Release
    /\ FirstRelease \in Release
    /\ Declares \in [Release -> Seq(Task)]
    /\ \A r \in Release : \A i, j \in DOMAIN Declares[r] :
          Declares[r][i] = Declares[r][j] => i = j
    /\ RunsHere \in [Release -> SUBSET Task]
    /\ Lagging \subseteq BOOLEAN
    /\ MaxUpsets \in [Lagging -> Nat] /\ MaxRuns \in Nat
BY DeployTasksAssumption DEF DeployTasksAssumption

\* What a pass does when it leaves a task with this row.
Advances(t, row) ==
    /\ pass' \in PassType
    /\ pass'.release = pass.release /\ pass'.current = pass.current
    /\ pass'.rows = [pass.rows EXCEPT ![t] = row]
    /\ pass'.next = pass.next + 1
    /\ pass'.pc \in {"tasks", "verdict", "apply"}
    /\ pass'.pc = "tasks" => pass'.next \in DOMAIN Declares[pass'.release]
    /\ pass'.pc = "apply" =>
          pass'.out = "clear" /\ ~(pass'.next <= Len(Declares[pass'.release]))
    /\ \/ pass'.refused = pass.refused
       \/ /\ pass'.refused = pass.refused \cup {<<t, pass.rows[t].attempt>>}
          /\ pass.rows[t].attempt # 0 /\ jobs[<<t, pass.rows[t].attempt>>] = "refused"

\* Goto decides on the place alone.
LEMMA GotoSets ==
    ASSUME NEW p \in PassType, p.release \in Release, Goto(p)
    PROVE  /\ pass' = [p EXCEPT !.pc = pass'.pc]
           /\ pass'.pc \in {"tasks", "verdict", "apply"}
           /\ pass'.pc = "tasks" => p.next \in DOMAIN Declares[p.release]
           /\ pass'.pc = "apply" => p.out = "clear" /\ ~(p.next <= Len(Declares[p.release]))
<1>1. /\ pass'.pc \in {"tasks", "verdict", "apply"} /\ pass' = [p EXCEPT !.pc = pass'.pc]
      /\ pass'.pc = "apply" => p.out = "clear" /\ ~(p.next <= Len(Declares[p.release]))
  BY DEF Goto, PassType
<1>2. p.next \in Nat \ {0} /\ Declares[p.release] \in Seq(Task)
  BY Assumed DEF PassType
<1>3. pass'.pc = "tasks" => p.next <= Len(Declares[p.release])
  BY DEF Goto, PassType
<1> QED BY <1>1, <1>2, <1>3

\* A step that leaves a task takes the pass on by one.
LEMMA Leaves ==
    ASSUME TypeInv, NEW t \in Task, AtTask(t), NEW row \in RowType, NEW out \in Outs,
           Goto(Done(row, out)) \/ Goto(WithRefused(Done(row, out)))
    PROVE  Advances(t, row)
<1> DEFINE d == Done(row, out)
           w == WithRefused(d)
<1>1. pass \in PassType /\ Here = t /\ pass.release \in Release
  BY DEF TypeInv, InTurn, AtTask
<1>2. d = [pass EXCEPT !.rows = [pass.rows EXCEPT ![t] = row], !.out = out,
                       !.next = pass.next + 1]
  BY <1>1 DEF Done, PassType
<1>3. /\ d \in PassType /\ d.release = pass.release /\ d.current = pass.current
      /\ d.rows = [pass.rows EXCEPT ![t] = row] /\ d.next = pass.next + 1
      /\ d.refused = pass.refused
  <2> DEFINE rs == [pass.rows EXCEPT ![t] = row]
  <2>1. rs \in [Task -> RowType] /\ pass.next + 1 \in Nat \ {0}
    BY <1>1 DEF PassType
  <2> HIDE DEF d, rs
  <2>2. d = [pass EXCEPT !.rows = rs, !.out = out, !.next = pass.next + 1]
    BY <1>2 DEF rs
  <2>3. /\ d \in PassType /\ d.release = pass.release /\ d.current = pass.current
        /\ d.rows = rs /\ d.next = pass.next + 1 /\ d.refused = pass.refused
    BY <1>1, <2>1, <2>2 DEF PassType
  <2> QED BY <2>3 DEF rs
<1>4. /\ w \in PassType /\ w.release = pass.release /\ w.current = pass.current
      /\ w.rows = [pass.rows EXCEPT ![t] = row] /\ w.next = pass.next + 1
      /\ \/ w.refused = pass.refused
         \/ /\ w.refused = pass.refused \cup {<<t, pass.rows[t].attempt>>}
            /\ pass.rows[t].attempt # 0 /\ jobs[<<t, pass.rows[t].attempt>>] = "refused"
  <2> HIDE DEF d
  <2>1. CASE HereJob # "refused"
    BY <1>3, <2>1 DEF WithRefused
  <2>2. CASE HereJob = "refused"
    <3>1. /\ HereRow = pass.rows[t]
          /\ pass.rows[t].attempt # 0 /\ jobs[<<t, pass.rows[t].attempt>>] = "refused"
      BY <1>1, <2>2 DEF HereJob, HereRow
    <3>2. pass.rows[t].attempt \in 0..MaxRuns
      BY <1>1 DEF PassType, RowType
    <3>3. <<t, pass.rows[t].attempt>> \in Run
      BY <3>1, <3>2, Assumed DEF Run
    <3>4. w = [d EXCEPT !.refused = d.refused \cup {<<t, pass.rows[t].attempt>>}]
      BY <1>1, <1>3, <2>2, <3>1 DEF WithRefused, PassType
    <3> QED BY <1>3, <3>1, <3>3, <3>4 DEF PassType
  <2> QED BY <2>1, <2>2
<1>5. PICK p \in {d, w} : Goto(p)
  OBVIOUS
<1> HIDE DEF d, w
<1>6. /\ p \in PassType /\ p.release = pass.release /\ p.current = pass.current
      /\ p.rows = [pass.rows EXCEPT ![t] = row] /\ p.next = pass.next + 1
      /\ \/ p.refused = pass.refused
         \/ /\ p.refused = pass.refused \cup {<<t, pass.rows[t].attempt>>}
            /\ pass.rows[t].attempt # 0 /\ jobs[<<t, pass.rows[t].attempt>>] = "refused"
  BY <1>3, <1>4, <1>5
<1>7. /\ pass' = [p EXCEPT !.pc = pass'.pc]
      /\ pass'.pc \in {"tasks", "verdict", "apply"}
      /\ pass'.pc = "tasks" => p.next \in DOMAIN Declares[p.release]
      /\ pass'.pc = "apply" => p.out = "clear" /\ ~(p.next <= Len(Declares[p.release]))
  BY <1>1, <1>5, <1>6, GotoSets
<1>8. /\ pass'.release = p.release /\ pass'.current = p.current /\ pass'.rows = p.rows
      /\ pass'.next = p.next /\ pass'.refused = p.refused /\ pass' \in PassType
      /\ pass'.out = p.out
  BY <1>6, <1>7 DEF PassType, Pcs
<1> QED BY <1>6, <1>7, <1>8 DEF Advances

\* What a pass sees of the task it is at.
LEMMA Sees ==
    ASSUME TypeInv, NEW t \in Task, AtTask(t)
    PROVE  /\ Here = t /\ HereRow = pass.rows[t] /\ HereRow \in RowType
           /\ pass.release \in Release
           /\ HereJob = IF HereRow.attempt = 0 THEN "absent" ELSE jobs[<<t, HereRow.attempt>>]
           /\ HereJob \in JobState
           /\ Looked \in RowType /\ Looked.release = HereRow.release
           /\ Looked.attempt = HereRow.attempt
           /\ HereJob = "absent" => Looked.phase = HereRow.phase
           /\ HereJob # "absent" => Looked.phase = Observed(HereJob)
<1>1. Here = t /\ HereRow = pass.rows[t] /\ HereRow \in RowType /\ pass.release \in Release
  BY DEF TypeInv, InTurn, AtTask, HereRow, PassType
<1>2. HereJob = IF HereRow.attempt = 0 THEN "absent" ELSE jobs[<<t, HereRow.attempt>>]
  BY <1>1 DEF HereJob
<1>3. HereJob \in JobState
  <2>1. HereRow.attempt \in 0..MaxRuns
    BY <1>1 DEF RowType
  <2>2. HereRow.attempt # 0 => <<t, HereRow.attempt>> \in Run
    BY <2>1, Assumed DEF Run
  <2>3. jobs \in [Run -> JobState] /\ "absent" \in JobState
    BY DEF TypeInv, TypeOK, JobState
  <2> QED BY <1>2, <2>2, <2>3
<1>4. CASE HereJob = "absent"
  BY <1>1, <1>2, <1>3, <1>4 DEF Looked
<1>5. CASE HereJob # "absent"
  <2>1. Observed(HereJob) \in {"none", "Running", "Succeeded", "Failed"}
    BY <1>3, <1>5 DEF Observed, RunOf, JobState, Unfinished, Finished
  <2>2. Looked = [HereRow EXCEPT !.phase = Observed(HereJob)]
    BY <1>5 DEF Looked
  <2> QED BY <1>1, <1>2, <1>3, <1>5, <2>1, <2>2 DEF RowType
<1> QED BY <1>4, <1>5

\* The row each step leaves a task with.
LEMMA Suspends ==
    ASSUME TypeInv, NEW t \in Task, Suspend(t)
    PROVE  Advances(t, Row(None, pass.rows[t].attempt, "none"))
<1>1. AtTask(t)
  BY DEF Suspend
<1>2. HereRow = pass.rows[t] /\ HereRow \in RowType
  BY <1>1, Sees
<1>3. Row(None, HereRow.attempt, "none") \in RowType /\ pass.out \in Outs
  BY <1>2 DEF Row, RowType, Name, TypeInv, PassType
<1> QED BY <1>1, <1>2, <1>3, Leaves DEF Suspend

LEMMA StaysBehind ==
    ASSUME TypeInv, NEW t \in Task, Behind(t)
    PROVE  Advances(t, pass.rows[t])
<1>1. AtTask(t) /\ Goto(Done(HereRow, pass.out))
  BY DEF Behind
<1>2. HereRow = pass.rows[t] /\ HereRow \in RowType /\ pass.out \in Outs
  BY <1>1, Sees DEF TypeInv, PassType
<1> QED BY <1>1, <1>2, Leaves

LEMMA Observes ==
    ASSUME TypeInv, NEW t \in Task, ObserveRun(t) \/ AwaitPreviousRun(t)
    PROVE  Advances(t, Looked)
<1>1. AtTask(t)
  BY DEF ObserveRun, AwaitPreviousRun, Turn
<1>2. Looked \in RowType
  BY <1>1, Sees
<1>3. CASE ObserveRun(t)
  <2>1. Outcome(Looked.phase) \in Outs
    BY <1>2 DEF Outcome, Outs, RowType
  <2> QED BY <1>1, <1>2, <1>3, <2>1, Leaves DEF ObserveRun
<1>4. CASE AwaitPreviousRun(t)
  <2>1. "waiting" \in Outs
    BY DEF Outs
  <2> QED BY <1>1, <1>2, <1>4, <2>1, Leaves DEF AwaitPreviousRun
<1> QED BY <1>3, <1>4

LEMMA RunLeaves ==
    ASSUME TypeInv, NEW t \in Task, AtTask(t), NEW row \in RowType, RunStarted(row)
    PROVE  Advances(t, row)
<1>1. "waiting" \in Outs
  BY DEF Outs
<1> QED BY <1>1, Leaves DEF RunStarted

LEMMA Starts ==
    ASSUME TypeInv, NEW t \in Task, StartRun(t)
    PROVE  /\ pass.rows[t].attempt + 1 \in 1..MaxRuns
           /\ Advances(t, Row(pass.release, pass.rows[t].attempt + 1, "Running"))
<1>1. AtTask(t) /\ HereRow.attempt < MaxRuns
  BY DEF StartRun, Turn
<1>2. HereRow = pass.rows[t] /\ HereRow \in RowType /\ pass.release \in Release
  BY <1>1, Sees
<1>3. HereRow.attempt + 1 \in 1..MaxRuns
  BY <1>1, <1>2, Assumed DEF RowType
<1>4. Row(pass.release, HereRow.attempt + 1, "Running") \in RowType
  BY <1>2, <1>3, Assumed DEF Row, RowType, Name
<1>5. RunStarted(Row(pass.release, HereRow.attempt + 1, "Running"))
  BY DEF StartRun
<1> QED BY <1>1, <1>2, <1>3, <1>4, <1>5, RunLeaves

LEMMA Adopts ==
    ASSUME TypeInv, NEW t \in Task, AdoptRun(t)
    PROVE  /\ pass.rows[t].attempt + 1 \in 1..MaxRuns
           /\ jobs[<<t, pass.rows[t].attempt + 1>>] # "absent"
           /\ RunOf(jobs[<<t, pass.rows[t].attempt + 1>>]) \in {"Running", "Succeeded", "Failed"}
           /\ Advances(t, Row(pass.release, pass.rows[t].attempt + 1,
                              RunOf(jobs[<<t, pass.rows[t].attempt + 1>>])))
<1>1. AtTask(t) /\ HereRow.attempt < MaxRuns
  BY DEF AdoptRun, Turn
<1>2. HereRow = pass.rows[t] /\ HereRow \in RowType /\ pass.release \in Release
  BY <1>1, Sees
<1>3. HereRow.attempt + 1 \in 1..MaxRuns
  BY <1>1, <1>2, Assumed DEF RowType
<1> DEFINE n == HereRow.attempt + 1
<1>4. jobs[<<t, n>>] # "absent" /\ RunStarted(Row(pass.release, n, RunOf(jobs[<<t, n>>])))
  BY DEF AdoptRun
<1> HIDE DEF n
<1>5. jobs[<<t, n>>] \in JobState
  BY <1>3 DEF TypeInv, TypeOK, Run, n
<1>6. RunOf(jobs[<<t, n>>]) \in {"Running", "Succeeded", "Failed"}
  BY <1>4, <1>5 DEF RunOf, JobState, Unfinished, Finished
<1>7. Row(pass.release, n, RunOf(jobs[<<t, n>>])) \in RowType
  BY <1>2, <1>3, <1>6, Assumed DEF Row, RowType, Name, n
<1>8. Advances(t, Row(pass.release, n, RunOf(jobs[<<t, n>>])))
  BY <1>1, <1>4, <1>7, RunLeaves
<1> QED BY <1>2, <1>3, <1>4, <1>6, <1>8 DEF n

-----------------------------------------------------------------------------
(***************************************************************************)
(* Types                                                                   *)
(***************************************************************************)
NewestType == [attempt : 0..MaxRuns, release : Name, ok : BOOLEAN, recorded : BOOLEAN]

World ==
    /\ target \in Release /\ serving \in Name
    /\ rows \in [Task -> RowType] /\ jobs \in [Run -> JobState]
    /\ lagging \in Lagging /\ envBehind \in BOOLEAN
    /\ envSeen \in [target : Release, rows : [Task -> RowType]]
    /\ upsets \in 0..MaxUpsets[lagging]
    /\ owed \in [Task -> Nat] /\ started \in [Task -> Nat]
    /\ newest \in [Task -> NewestType]

LEMMA TypeParts == TypeInv <=> World /\ pass \in PassType /\ InTurn
<1>1. TypeInv => World /\ pass \in PassType /\ InTurn
  BY DEF TypeInv, TypeOK, World, NewestType
<1>2. World /\ pass \in PassType /\ InTurn => TypeInv
  BY Assumed DEF TypeInv, TypeOK, World, NewestType, PassType, Pcs, Outs
<1> QED BY <1>1, <1>2

LEMMA TypePartsNext ==
    ASSUME World', pass' \in PassType, InTurn'
    PROVE  TypeInv'
BY Assumed DEF TypeInv, TypeOK, World, NewestType, PassType, Pcs, Outs

LEMMA IdlePass == Idle \in PassType /\ Idle.pc = "idle" /\ Idle.refused = {}
<1>1. NoRow \in RowType
  BY Assumed DEF NoRow, Row, RowType, Name
<1> QED BY <1>1 DEF Idle, Pass, PassType, Pcs, Outs, Name

LEMMA AdvancesInTurn ==
    ASSUME TypeInv, NEW t, NEW row, AtTask(t), Advances(t, row)
    PROVE  pass' \in PassType /\ InTurn'
BY DEF TypeInv, InTurn, AtTask, Advances

\* The Environment and the histories are left as they are by a pass at a task,
\* but for what a run created adds.
LEMMA BeginType ==
    ASSUME TypeInv, Begin
    PROVE  TypeInv'
<1> DEFINE env == IF lagging THEN envSeen ELSE [target |-> target, rows |-> rows]
           p == Pass("tasks", env.target, env.rows, 1, "clear", {}, ~lagging \/ ~envBehind)
<1>1. env.target \in Release /\ env.rows \in [Task -> RowType]
  BY DEF TypeInv, TypeOK
<1>2. Goto(p)
  BY DEF Begin
<1>3. p \in PassType /\ p.release \in Release
  <2> HIDE DEF env
  <2> QED BY <1>1 DEF Pass, PassType, Pcs, Outs, Name
<1> HIDE DEF p
<1>4. /\ pass' = [p EXCEPT !.pc = pass'.pc]
      /\ pass'.pc \in {"tasks", "verdict", "apply"}
      /\ pass'.pc = "tasks" => p.next \in DOMAIN Declares[p.release]
  BY <1>2, <1>3, GotoSets
<1>5. pass' \in PassType /\ pass'.release = p.release /\ pass'.next = p.next
  BY <1>3, <1>4 DEF PassType, Pcs
<1>6. InTurn'
  BY <1>3, <1>4, <1>5 DEF InTurn
<1>7. World'
  BY TypeParts DEF Begin, World, cache, ghosts
<1> QED BY <1>5, <1>6, <1>7, TypePartsNext

LEMMA JobsKept ==
    ASSUME TypeInv, NEW S, NEW j0 \in Run, NEW s \in JobState,
           jobs' = [j \in Run |-> IF j = j0 THEN s
                                  ELSE IF j \in S THEN "absent" ELSE jobs[j]]
    PROVE  jobs' \in [Run -> JobState]
BY DEF TypeInv, TypeOK, JobState

LEMMA TaskStepType ==
    ASSUME TypeInv, NEW t \in Task, TaskStep(t)
    PROVE  TypeInv'
<1>1. AtTask(t)
  BY DEF TaskStep, Suspend, Behind, ObserveRun, AwaitPreviousRun, StartRun, AdoptRun, Turn
<1>2. CASE Suspend(t)
  <2>1. pass' \in PassType /\ InTurn'
    BY <1>1, <1>2, Suspends, AdvancesInTurn
  <2>2. World'
    BY <1>2, TypeParts DEF Suspend, World, cache, ghosts
  <2> QED BY <2>1, <2>2, TypePartsNext
<1>3. CASE Behind(t)
  <2>1. pass' \in PassType /\ InTurn'
    BY <1>1, <1>3, StaysBehind, AdvancesInTurn
  <2>2. World'
    BY <1>3, TypeParts DEF Behind, World, cache, ghosts
  <2> QED BY <2>1, <2>2, TypePartsNext
<1>4. CASE ObserveRun(t) \/ AwaitPreviousRun(t)
  <2>1. pass' \in PassType /\ InTurn'
    BY <1>1, <1>4, Observes, AdvancesInTurn
  <2>2. World'
    BY <1>4, TypeParts DEF ObserveRun, AwaitPreviousRun, World, cache, ghosts
  <2> QED BY <2>1, <2>2, TypePartsNext
<1>5. CASE StartRun(t)
  <2> DEFINE n == HereRow.attempt + 1
  <2>1. pass' \in PassType /\ InTurn'
    BY <1>1, <1>5, Starts, AdvancesInTurn
  <2>2. n \in 1..MaxRuns /\ <<t, n>> \in Run /\ pass.release \in Name
    BY <1>1, <1>5, Starts, Sees DEF Run, Name
  <2>3. jobs' \in [Run -> JobState]
    <3>1. PICK fate \in {"running", "refused"} :
             jobs' = [j \in Run |-> IF j = <<t, n>> THEN fate
                                    ELSE IF j \in Outlived(t, n) THEN "absent" ELSE jobs[j]]
      BY <1>5 DEF StartRun
    <3>2. fate \in JobState
      BY DEF JobState, Unfinished
    <3> HIDE DEF n
    <3> QED BY <2>2, <3>1, <3>2, JobsKept
  <2>4. started' \in [Task -> Nat]
    BY <1>5 DEF StartRun, TypeInv, TypeOK
  <2>5. newest' \in [Task -> NewestType]
    <3>1. newest' = [newest EXCEPT ![t] = Created(n, pass.release)]
      BY <1>5 DEF StartRun
    <3>2. Created(n, pass.release) \in NewestType
      BY <2>2, Assumed DEF Created, NewestType
    <3>3. newest \in [Task -> NewestType]
      BY TypeParts DEF World
    <3> QED BY <3>1, <3>2, <3>3
  <2>6. World'
    BY <1>5, <2>3, <2>4, <2>5, TypeParts DEF StartRun, World, cache
  <2> QED BY <2>1, <2>6, TypePartsNext
<1>6. CASE AdoptRun(t)
  <2>1. pass' \in PassType /\ InTurn'
    BY <1>1, <1>6, Adopts, AdvancesInTurn
  <2>2. jobs' \in [Run -> JobState]
    BY <1>6 DEF AdoptRun, TypeInv, TypeOK, JobState
  <2>3. World'
    BY <1>6, <2>2, TypeParts DEF AdoptRun, World, cache, ghosts
  <2> QED BY <2>1, <2>3, TypePartsNext
<1> QED BY <1>2, <1>3, <1>4, <1>5, <1>6 DEF TaskStep

\* A pass that gives up, or is over, holds nothing.
LEMMA IdleNext ==
    ASSUME pass' = Idle
    PROVE  pass' \in PassType /\ InTurn'
BY IdlePass DEF InTurn

LEMMA WritesType ==
    ASSUME TypeInv, WriteVerdict \/ DeleteRefused \/ ApplyDeployment \/ WriteStatus
    PROVE  TypeInv'
<1>1. World /\ pass \in PassType /\ InTurn
  BY TypeParts
<1>2. CASE WriteVerdict
  <2>1. pass' = Idle \/ pass' = [pass EXCEPT !.pc = "delete"]
    BY <1>2 DEF WriteVerdict
  <2>2. pass' \in PassType /\ InTurn'
    <3>1. CASE pass' = [pass EXCEPT !.pc = "delete"]
      BY <1>1, <1>2, <3>1 DEF PassType, Pcs, InTurn, WriteVerdict
    <3> QED BY <2>1, <3>1, IdleNext
  <2>3. rows' \in [Task -> RowType]
    BY <1>1, <1>2 DEF WriteVerdict, PassType
  <2>4. newest' \in [Task -> NewestType]
    BY <1>1, <1>2 DEF WriteVerdict, World, NewestType
  <2>5. World'
    BY <1>1, <1>2, <2>3, <2>4 DEF WriteVerdict, EnvWritten, World
  <2> QED BY <2>2, <2>5, TypePartsNext
<1>3. CASE DeleteRefused
  <2>1. jobs' \in [Run -> JobState]
    BY <1>1, <1>3 DEF DeleteRefused, World, JobState
  <2>2. World'
    BY <1>1, <1>3, <2>1 DEF DeleteRefused, World, cache, ghosts
  <2> QED BY <1>3, <2>2, IdleNext, TypePartsNext DEF DeleteRefused
<1>4. CASE ApplyDeployment
  <2>1. pass' \in PassType /\ InTurn'
    BY <1>1, <1>4 DEF ApplyDeployment, PassType, Pcs, InTurn
  <2>2. World'
    BY <1>1, <1>4 DEF ApplyDeployment, World, PassType, cache, ghosts
  <2> QED BY <2>1, <2>2, TypePartsNext
<1>5. CASE WriteStatus
  <2>1. NoRow \in RowType
    BY Assumed DEF NoRow, Row, RowType, Name
  <2>2. rows' \in [Task -> RowType]
    BY <1>1, <1>5, <2>1 DEF WriteStatus, PassType
  <2>3. World'
    BY <1>1, <1>5, <2>2 DEF WriteStatus, World, EnvWritten, ghosts
  <2> QED BY <1>5, <2>3, IdleNext, TypePartsNext DEF WriteStatus
<1> QED BY <1>2, <1>3, <1>4, <1>5

\* One more thing happened to the Environment.
LEMMA UpsetCounts ==
    ASSUME World, Upset, lagging' = lagging
    PROVE  upsets' \in 0..MaxUpsets[lagging']
BY Assumed DEF World, Upset

LEMMA OthersType ==
    ASSUME TypeInv,
           \/ Conflict \/ Drop \/ EnvSync
           \/ \E r \in Release : Move(r)
           \/ \E t \in Task : Retry(t)
           \/ \E j \in Run : PodStartsLate(j) \/ JobEnds(j) \/ JobLost(j)
    PROVE  TypeInv'
<1>1. World /\ pass \in PassType /\ InTurn
  BY TypeParts
<1>2. CASE Conflict
  <2>1. World'
    BY <1>1, <1>2 DEF Conflict, World, cache, ghosts
  <2> QED BY <1>2, <2>1, IdleNext, TypePartsNext DEF Conflict
<1>3. CASE Drop
  <2>1. World'
    BY <1>1, <1>3, UpsetCounts DEF Drop, World, cache, ghosts
  <2> QED BY <1>3, <2>1, IdleNext, TypePartsNext DEF Drop
<1>4. CASE EnvSync
  <2>1. World'
    BY <1>1, <1>4 DEF EnvSync, World, ghosts
  <2>2. pass' \in PassType /\ InTurn'
    BY <1>1, <1>4 DEF EnvSync, InTurn
  <2> QED BY <2>1, <2>2, TypePartsNext
<1>5. ASSUME NEW r \in Release, Move(r) PROVE TypeInv'
  <2>1. owed' \in [Task -> Nat]
    BY <1>1, <1>5 DEF Move, World
  <2>2. World'
    BY <1>1, <1>5, <2>1, UpsetCounts DEF Move, EnvWritten, World
  <2>3. pass' \in PassType /\ InTurn'
    BY <1>1, <1>5 DEF Move, PassType, InTurn
  <2> QED BY <2>2, <2>3, TypePartsNext
<1>6. ASSUME NEW t \in Task, Retry(t) PROVE TypeInv'
  <2>1. owed' \in [Task -> Nat]
    BY <1>1, <1>6 DEF Retry, World
  <2>2. rows' \in [Task -> RowType]
    BY <1>1, <1>6 DEF Retry, World, RowType, Name
  <2>3. World'
    BY <1>1, <1>6, <2>1, <2>2, UpsetCounts DEF Retry, EnvWritten, World
  <2>4. pass' \in PassType /\ InTurn'
    BY <1>1, <1>6 DEF Retry, PassType, InTurn
  <2> QED BY <2>3, <2>4, TypePartsNext
<1>7. ASSUME NEW j \in Run, PodStartsLate(j) \/ JobEnds(j) \/ JobLost(j) PROVE TypeInv'
  <2>1. PICK s \in JobState : JobBecomes(j, s)
    BY <1>7 DEF PodStartsLate, JobEnds, JobSucceeds, JobFails, JobLost, JobState,
                Unfinished, Finished
  <2>2. jobs' \in [Run -> JobState]
    BY <1>1, <2>1 DEF JobBecomes, World
  <2>3. upsets' \in 0..MaxUpsets[lagging]
    BY <1>1, <1>7, <2>1, UpsetCounts
       DEF PodStartsLate, JobEnds, JobSucceeds, JobFails, JobLost, World, JobBecomes, cache
  <2>4. owed' \in [Task -> Nat]
    BY <1>1, <1>7
       DEF PodStartsLate, JobEnds, JobSucceeds, JobFails, JobLost, World, Run
  <2>5. newest' \in [Task -> NewestType]
    <3>1. j[1] \in Task
      BY DEF Run
    <3>2. newest' = newest \/ newest' = [newest EXCEPT ![j[1]].ok = TRUE]
      BY <1>7 DEF PodStartsLate, JobEnds, JobSucceeds, JobFails, JobLost
    <3>3. newest[j[1]] \in NewestType
      BY <1>1, <3>1 DEF World
    <3>4. [newest[j[1]] EXCEPT !.ok = TRUE] \in NewestType
      BY <3>3 DEF NewestType
    <3> QED BY <1>1, <3>2, <3>4 DEF World
  <2>6. World'
    BY <1>1, <2>1, <2>2, <2>3, <2>4, <2>5 DEF JobBecomes, World, cache
  <2>7. pass' \in PassType /\ InTurn'
    BY <1>1, <2>1 DEF JobBecomes, InTurn
  <2> QED BY <2>6, <2>7, TypePartsNext
<1> QED BY <1>2, <1>3, <1>4, <1>5, <1>6, <1>7

LEMMA TypeInit == Init => TypeInv
<1> SUFFICES ASSUME Init PROVE TypeInv
  OBVIOUS
<1>1. NoRow \in RowType /\ Created(0, None) \in NewestType
  BY Assumed DEF NoRow, Row, RowType, Name, Created, NewestType
<1>2. World
  <2>1. rows \in [Task -> RowType] /\ target \in Release
    BY <1>1, Assumed DEF Init
  <2>2. upsets \in 0..MaxUpsets[lagging] /\ lagging \in Lagging
    <3>1. lagging \in Lagging /\ upsets = 0
      BY DEF Init
    <3>2. MaxUpsets[lagging] \in Nat
      BY <3>1, Assumed
    <3> QED BY <3>1, <3>2
  <2>3. serving \in Name /\ jobs \in [Run -> JobState] /\ envBehind \in BOOLEAN
    BY DEF Init, JobState, Name
  <2>4. envSeen \in [target : Release, rows : [Task -> RowType]]
    BY <2>1 DEF Init
  <2>5. /\ owed \in [Task -> Nat] /\ started \in [Task -> Nat]
        /\ newest \in [Task -> NewestType]
    BY <1>1 DEF Init
  <2> QED BY <2>1, <2>2, <2>3, <2>4, <2>5 DEF World
<1>3. pass \in PassType /\ InTurn
  BY IdlePass DEF Init, InTurn
<1> QED BY <1>2, <1>3, TypeParts

LEMMA TypeNext == TypeInv /\ [Next]_vars => TypeInv'
<1>1. TypeInv /\ Next => TypeInv'
  BY BeginType, TaskStepType, WritesType, OthersType DEF Next, PassStep
<1>2. TypeInv /\ UNCHANGED vars => TypeInv'
  <2> SUFFICES ASSUME TypeInv, UNCHANGED vars PROVE TypeInv'
    OBVIOUS
  <2>1. World /\ pass \in PassType /\ InTurn
    BY TypeParts
  <2>2. World' /\ pass' \in PassType /\ InTurn'
    BY <2>1 DEF World, InTurn, vars, cache, ghosts
  <2> QED BY <2>2, TypePartsNext
<1> QED BY <1>1, <1>2

(***************************************************************************)
(* Every reachable state is well typed: a pass is always at a task its     *)
(* release declares, and ends only runs that have a number.                *)
(***************************************************************************)
THEOREM TypeCorrect == Spec => []TypeOK
<1>1. TypeInv => TypeOK
  BY DEF TypeInv
<1> QED BY <1>1, TypeInit, TypeNext, PTL DEF Spec

-----------------------------------------------------------------------------
(***************************************************************************)
(* A pass at a task                                                        *)
(***************************************************************************)

\* A pass has not been to the task it is at, and has been there afterwards.
LEMMA ComesOnce ==
    ASSUME TypeInv, NEW t \in Task, AtTask(t), NEW row, Advances(t, row)
    PROVE  /\ Ahead(t) /\ t \in {Declares[pass.release][i] : i \in DOMAIN Declares[pass.release]}
           /\ \A u \in Task : Ahead(u)' <=> Ahead(u) /\ u # t
<1> DEFINE d == Declares[pass.release]
<1>1. /\ pass.release \in Release /\ pass.next \in DOMAIN d /\ d[pass.next] = t
      /\ pass'.release = pass.release /\ pass'.next = pass.next + 1
  BY DEF TypeInv, InTurn, AtTask, Here, Advances
<1>2. d \in Seq(Task) /\ \A i, j \in DOMAIN d : d[i] = d[j] => i = j
  BY <1>1, Assumed
<1> HIDE DEF d
<1>3. \A i \in DOMAIN d : i \in Nat /\ (i < pass.next + 1 <=> i < pass.next \/ i = pass.next)
  BY <1>1, <1>2
<1>4. Ahead(t)
  BY <1>1, <1>2, <1>3 DEF Ahead, d
<1>5. ASSUME NEW u \in Task PROVE Ahead(u)' <=> Ahead(u) /\ u # t
  <2>1. Ahead(u)' <=> \A i \in DOMAIN d : i < pass.next + 1 => d[i] # u
    BY <1>1 DEF Ahead, d
  <2>2. Ahead(u) <=> \A i \in DOMAIN d : i < pass.next => d[i] # u
    BY DEF Ahead, d
  <2> QED BY <1>1, <1>3, <2>1, <2>2
<1> QED BY <1>1, <1>4, <1>5 DEF d

LEMMA CopyAdvances ==
    ASSUME TypeInv, CopyInv, NEW t \in Task, AtTask(t), NEW row, Advances(t, row),
           target' = target, rows' = rows,
           pass'.refused # pass.refused => Past(row, pass.rows[t].attempt)
    PROVE  CopyInv'
<1>1. Busy /\ pass'.pc \in {"tasks", "verdict", "apply"}
  BY DEF AtTask, Busy, Advances
<1>2. /\ pass.rows \in [Task -> RowType] /\ pass'.rows = [pass.rows EXCEPT ![t] = row]
      /\ pass'.release = pass.release /\ pass'.current = pass.current
  BY DEF TypeInv, PassType, Advances
<1>3. /\ Ahead(t) /\ \A u \in Task : Ahead(u)' <=> Ahead(u) /\ u # t
  BY ComesOnce
<1>4. pass'.current => pass'.release = target'
  BY <1>1, <1>2 DEF CopyInv
<1>5. ASSUME NEW u \in Task, Ahead(u)'
      PROVE  pass'.rows[u].attempt = rows'[u].attempt /\ pass'.rows[u].phase = rows'[u].phase
  BY <1>1, <1>2, <1>3, <1>5 DEF CopyInv
<1>6. ASSUME NEW j \in pass'.refused
      PROVE  ~Ahead(j[1])' /\ Past(pass'.rows[j[1]], j[2])
  <2>1. CASE j \in pass.refused
    <3>1. j[1] \in Task
      BY <2>1 DEF TypeInv, PassType, Run
    <3>2. ~Ahead(j[1]) /\ Past(pass.rows[j[1]], j[2])
      BY <1>1, <2>1 DEF CopyInv
    <3>3. pass'.rows[j[1]] = pass.rows[j[1]]
      BY <1>2, <1>3, <3>1, <3>2
    <3> QED BY <1>3, <3>1, <3>2, <3>3
  <2>2. CASE j \notin pass.refused
    <3>1. j = <<t, pass.rows[t].attempt>>
      BY <2>2 DEF Advances
    <3>2. Past(row, pass.rows[t].attempt) /\ pass'.rows[t] = row
      BY <1>2, <2>2
    <3> QED BY <1>3, <3>1, <3>2
  <2> QED BY <2>1, <2>2
<1> QED BY <1>1, <1>4, <1>5, <1>6 DEF CopyInv, Busy

\* A task that only passes on its row ends no run.
LEMMA EndsNothing ==
    ASSUME TypeInv, NEW t \in Task, Suspend(t) \/ Behind(t)
    PROVE  pass'.refused = pass.refused
<1>1. pass \in PassType
  BY DEF TypeInv
<1>2. PICK row, out : Goto(Done(row, out))
  BY DEF Suspend, Behind
<1>3. Done(row, out) = [pass EXCEPT !.rows[Here] = row, !.out = out, !.next = pass.next + 1]
  BY <1>1 DEF Done, PassType
<1>4. Done(row, out).refused = pass.refused /\ "refused" \in DOMAIN Done(row, out)
  BY <1>1, <1>3 DEF PassType
<1> QED BY <1>2, <1>4 DEF Goto

LEMMA CopyTask ==
    ASSUME TypeInv, CopyInv, NEW t \in Task, TaskStep(t)
    PROVE  CopyInv'
<1>1. AtTask(t)
  BY DEF TaskStep, Suspend, Behind, ObserveRun, AwaitPreviousRun, StartRun, AdoptRun, Turn
<1>2. target' = target /\ rows' = rows
  BY DEF TaskStep, Suspend, Behind, ObserveRun, AwaitPreviousRun, StartRun, AdoptRun
<1>3. CASE Suspend(t) \/ Behind(t)
  BY <1>1, <1>2, <1>3, Suspends, StaysBehind, EndsNothing, CopyAdvances
<1>4. CASE ObserveRun(t) \/ AwaitPreviousRun(t)
  <2>1. Advances(t, Looked)
    BY <1>4, Observes
  <2>2. ASSUME pass'.refused # pass.refused PROVE Past(Looked, pass.rows[t].attempt)
    <3>1. pass.rows[t].attempt # 0 /\ jobs[<<t, pass.rows[t].attempt>>] = "refused"
      BY <2>1, <2>2 DEF Advances
    <3>2. HereJob = "refused" /\ Looked.attempt = pass.rows[t].attempt
      BY <1>1, <3>1, Sees
    <3>3. Looked.phase = "Failed"
      BY <1>1, <3>2, Sees DEF Observed
    <3> QED BY <3>2, <3>3 DEF Past
  <2> QED BY <1>1, <1>2, <2>1, <2>2, CopyAdvances
<1>5. CASE StartRun(t) \/ AdoptRun(t)
  <2>1. PICK phase \in {"Running", "Succeeded", "Failed"} :
           Advances(t, Row(pass.release, pass.rows[t].attempt + 1, phase))
    BY <1>5, Starts, Adopts
  <2>2. pass.rows[t].attempt \in Nat
    BY DEF TypeInv, PassType, RowType
  <2>3. Past(Row(pass.release, pass.rows[t].attempt + 1, phase), pass.rows[t].attempt)
    BY <2>2 DEF Past, Row
  <2> QED BY <1>1, <1>2, <2>1, <2>3, CopyAdvances
<1> QED BY <1>3, <1>4, <1>5 DEF TaskStep

\* Where a pass is at a task, the others stand as they stood.
LEMMA OthersStand ==
    ASSUME TypeInv, NEW t \in Task, NEW row, AtTask(t), Advances(t, row),
           target' = target, rows' = rows, owed' = owed,
           NEW u \in Task, u # t, started'[u] = started[u],
           \A m \in 1..MaxRuns : jobs'[<<u, m>>] = jobs[<<u, m>>]
    PROVE  /\ OwedAt(u) => OwedAt(u)'
           /\ OneAt(u) => OneAt(u)'
<1>1. pass'.rows[u] = pass.rows[u] /\ pass'.release = pass.release /\ Busy
  BY DEF TypeInv, PassType, Advances, AtTask, Busy
<1>2. rows[u].attempt \in 0..MaxRuns /\ pass.rows[u].attempt \in 0..MaxRuns
  BY DEF TypeInv, TypeOK, RowType
<1>3. Due(rows, target, u)' => Due(rows, target, u)
  BY <1>2, Assumed DEF Due
<1>4. Due(pass.rows, pass.release, u)' => Due(pass.rows, pass.release, u)
  BY <1>1, <1>2, Assumed DEF Due
<1>5. ASSUME OwedAt(u) PROVE OwedAt(u)'
  BY <1>1, <1>3, <1>4, <1>5 DEF OwedAt
<1>6. \A m : Going(u, m)' <=> Going(u, m)
  BY DEF Going
<1>7. ASSUME OneAt(u) PROVE OneAt(u)'
  BY <1>1, <1>6, <1>7 DEF OneAt, OverIn
<1> QED BY <1>5, <1>7

\* A run is made or found under the next number, where none was going.
LEMMA NextRun ==
    ASSUME TypeInv, ~lagging, CopyInv, OwedInv, OneInv, NEW t \in Task,
           StartRun(t) \/ AdoptRun(t)
    PROVE  /\ pass.rows[t].attempt = rows[t].attempt
           /\ pass.rows[t].attempt \in Nat /\ pass.rows[t].attempt + 1 \in 1..MaxRuns
           /\ t \in Always => ~Going(t, pass.rows[t].attempt)
           /\ StartRun(t) => started[t] < owed[t]
<1>1. AtTask(t) /\ t \in RunsHere[pass.release] /\ RunDue
  BY DEF StartRun, AdoptRun, Turn
<1>2. /\ Here = t /\ HereRow = pass.rows[t] /\ pass.release \in Release
      /\ HereJob = IF HereRow.attempt = 0 THEN "absent" ELSE jobs[<<t, HereRow.attempt>>]
      /\ HereJob # "absent" => Looked.phase = Observed(HereJob)
  BY <1>1, Sees
<1>3. PICK row : Advances(t, row)
  BY Starts, Adopts
<1>4. Busy /\ Ahead(t) /\ t \in Needed(pass.release)
  BY <1>1, <1>2, <1>3, ComesOnce DEF Needed, AtTask, Busy
<1>5. pass.rows[t].attempt = rows[t].attempt /\ pass.rows[t].phase = rows[t].phase
  BY <1>4 DEF CopyInv
<1>6. pass.rows[t].attempt \in Nat /\ pass.rows[t].attempt + 1 \in 1..MaxRuns
  <2>1. pass.rows[t] \in RowType
    BY DEF TypeInv, PassType
  <2>2. pass.rows[t].attempt \in 0..MaxRuns
    BY <2>1 DEF RowType
  <2>3. pass.rows[t].attempt + 1 \in 1..MaxRuns
    BY Starts, Adopts
  <2> QED BY <2>2, <2>3, Assumed
<1>7. ASSUME t \in Always, Going(t, pass.rows[t].attempt) PROVE FALSE
  <2>1. HereRow.attempt # 0 /\ HereJob = "running"
    BY <1>2, <1>7 DEF Going
  <2>2. HereRow.phase = "Running"
    BY <1>2, <1>4, <1>7 DEF OneInv, OneAt, OverIn
  <2>3. Looked.phase = "Running"
    BY <1>2, <2>1 DEF Observed, RunOf, Unfinished
  <2> QED BY <1>1, <2>1, <2>2, <2>3 DEF RunDue
<1>8. ASSUME StartRun(t) PROVE started[t] < owed[t]
  <2>1. jobs[<<t, pass.rows[t].attempt + 1>>] = "absent" /\ pass.rows[t].attempt < MaxRuns
    BY <1>2, <1>8 DEF StartRun
  <2>2. pass.rows[t].release = pass.release /\ pass.rows[t].phase # "none" =>
           /\ pass.rows[t].phase = "Running"
           /\ pass.rows[t].attempt # 0 => jobs[<<t, pass.rows[t].attempt>>] = "absent"
    BY <1>1, <1>2 DEF RunDue, ThisDeploys
  <2>3. Due(pass.rows, pass.release, t)
    BY <1>4, <2>1, <2>2 DEF Due
  <2> QED BY <1>4, <2>3 DEF OwedInv, OwedAt
<1> QED BY <1>5, <1>6, <1>7, <1>8

\* What is pruned for a run is of its task, and is not the run.
LEMMA OutlivedNot ==
    ASSUME NEW t, NEW n, NEW j \in Outlived(t, n)
    PROVE  j[1] = t /\ j # <<t, n>>
<1>1. PICK m \in (1..MaxRuns) \ {n} : j = <<t, m>>
  BY DEF Outlived
<1> QED BY <1>1

\* Creating or finding a run touches the Jobs of that task only, and makes the one
\* under its number the only one that may newly be going.
LEMMA NextRunJobs ==
    ASSUME TypeInv, NEW t \in Task, StartRun(t) \/ AdoptRun(t)
    PROVE  /\ \A u \in Task \ {t} : \A m \in 1..MaxRuns : jobs'[<<u, m>>] = jobs[<<u, m>>]
           /\ jobs'[<<t, pass.rows[t].attempt + 1>>] # "absent"
           /\ AdoptRun(t) => jobs'[<<t, pass.rows[t].attempt + 1>>]
                              = jobs[<<t, pass.rows[t].attempt + 1>>]
           /\ StartRun(t) => jobs'[<<t, pass.rows[t].attempt + 1>>] \in {"running", "refused"}
           /\ \A m \in (1..MaxRuns) \ {pass.rows[t].attempt + 1} :
                 /\ jobs'[<<t, m>>] \in {jobs[<<t, m>>], "absent"}
                 /\ Going(t, m)' => Going(t, m)
<1> DEFINE n == HereRow.attempt + 1
<1>1. AtTask(t)
  BY DEF StartRun, AdoptRun, Turn
<1>2. HereRow = pass.rows[t]
  BY <1>1, Sees
<1>3. n \in 1..MaxRuns
  BY <1>2, Starts, Adopts
<1>4. ASSUME NEW j \in Run, j \in Outlived(t, n) PROVE j[1] = t /\ j # <<t, n>>
  BY <1>4, OutlivedNot
<1>5. \/ /\ AdoptRun(t) /\ jobs[<<t, n>>] # "absent"
         /\ jobs' = [j \in Run |-> IF j \in Outlived(t, n) THEN "absent" ELSE jobs[j]]
      \/ /\ StartRun(t) /\ jobs[<<t, n>>] = "absent"
         /\ \E fate \in {"running", "refused"} :
               jobs' = [j \in Run |-> IF j = <<t, n>> THEN fate
                                      ELSE IF j \in Outlived(t, n) THEN "absent" ELSE jobs[j]]
  BY DEF StartRun, AdoptRun
<1> HIDE DEF n
<1>6. <<t, n>> \in Run
  BY <1>3 DEF Run
<1>7. ASSUME NEW j \in Run, j # <<t, n>>
      PROVE  jobs'[j] \in {jobs[j], "absent"} /\ (j[1] # t => jobs'[j] = jobs[j])
  BY <1>4, <1>5, <1>7
<1>8. jobs'[<<t, n>>] # "absent" /\ (AdoptRun(t) => jobs'[<<t, n>>] = jobs[<<t, n>>])
  <2>1. <<t, n>> \notin Outlived(t, n)
    BY <1>4, <1>6
  <2>2. AdoptRun(t) => jobs[<<t, n>>] # "absent"
    BY DEF AdoptRun, n
  <2> QED BY <1>5, <1>6, <2>1, <2>2
<1>9. ASSUME NEW u \in Task \ {t}, NEW m \in 1..MaxRuns
      PROVE  jobs'[<<u, m>>] = jobs[<<u, m>>]
  <2>1. <<u, m>> \in Run /\ <<u, m>> # <<t, n>> /\ <<u, m>>[1] # t
    BY DEF Run
  <2> QED BY <1>7, <2>1
<1>10. ASSUME NEW m \in (1..MaxRuns) \ {n}
       PROVE  jobs'[<<t, m>>] \in {jobs[<<t, m>>], "absent"} /\ (Going(t, m)' => Going(t, m))
  <2>1. <<t, m>> \in Run /\ <<t, m>> # <<t, n>>
    BY DEF Run
  <2> QED BY <1>7, <2>1 DEF Going
<1>11. ASSUME StartRun(t) PROVE jobs'[<<t, n>>] \in {"running", "refused"}
  <2>1. jobs[<<t, n>>] = "absent"
    BY <1>11 DEF StartRun, n
  <2> QED BY <1>5, <1>6, <1>11, <2>1 DEF AdoptRun
<1> QED BY <1>2, <1>8, <1>9, <1>10, <1>11 DEF n

LEMMA RunTask ==
    ASSUME TypeInv, ~lagging, CopyInv, OwedInv, OneInv, NEW t \in Task, TaskStep(t)
    PROVE  OwedInv' /\ OneInv'
<1>1. AtTask(t)
  BY DEF TaskStep, Suspend, Behind, ObserveRun, AwaitPreviousRun, StartRun, AdoptRun, Turn
<1>2. target' = target /\ rows' = rows /\ owed' = owed
  BY DEF TaskStep, Suspend, Behind, ObserveRun, AwaitPreviousRun, StartRun, AdoptRun, ghosts
<1>3. PICK row : Advances(t, row)
  BY Suspends, StaysBehind, Observes, Starts, Adopts DEF TaskStep
<1>4. /\ Busy /\ Busy' /\ pass'.rows[t] = row /\ pass'.release = pass.release
      /\ pass.rows[t] \in RowType /\ rows[t] \in RowType
      /\ Ahead(t) /\ pass.rows[t].attempt = rows[t].attempt
      /\ pass.rows[t].phase = rows[t].phase
  <2>1. Busy /\ Busy' /\ pass'.rows[t] = row /\ pass'.release = pass.release
    BY <1>1, <1>3 DEF AtTask, Busy, Advances, TypeInv, PassType
  <2>2. pass.rows[t] \in RowType /\ rows[t] \in RowType
    BY DEF TypeInv, PassType, TypeOK
  <2>3. Ahead(t)
    BY <1>1, <1>3, ComesOnce
  <2> QED BY <2>1, <2>2, <2>3 DEF CopyInv
<1>5. OwedAt(t) /\ (t \in Always => OneAt(t))
  BY DEF OwedInv, OneInv
<1>6. CASE Suspend(t) \/ Behind(t) \/ ObserveRun(t) \/ AwaitPreviousRun(t)
  <2>1. jobs' = jobs /\ started' = started
    BY <1>6 DEF Suspend, Behind, ObserveRun, AwaitPreviousRun, ghosts
  <2>2. /\ row.attempt = pass.rows[t].attempt
        /\ Due(pass.rows, pass.release, t)' => Due(pass.rows, pass.release, t)
        /\ t \in Always => OverIn(pass.rows, t)'
    <3>1. CASE Suspend(t)
      <4>1. pass'.rows[t] = Row(None, pass.rows[t].attempt, "none")
        BY <3>1, Suspends, <1>4 DEF Advances, TypeInv, PassType
      <4>2. t \notin RunsHere[pass.release] /\ pass.release \in Release
        BY <1>1, <3>1, Sees DEF Suspend
      <4>3. t \notin Needed(pass.release)
        BY <4>2 DEF Needed
      <4> QED BY <1>4, <4>1, <4>2, <4>3 DEF Due, Row, Always
    <3>2. CASE Behind(t)
      <4>1. pass'.rows[t] = pass.rows[t]
        BY <3>2, StaysBehind, <1>4 DEF Advances, TypeInv, PassType
      <4>2. t \in Always => OverIn(pass.rows, t)
        BY <1>4, <1>5 DEF OneAt
      <4> QED BY <1>4, <2>1, <4>1, <4>2 DEF Due, OverIn, Going
    <3>3. CASE ObserveRun(t) \/ AwaitPreviousRun(t)
      <4>1. pass'.rows[t] = Looked
        BY <3>3, Observes, <1>4 DEF Advances, TypeInv, PassType
      <4>2. /\ HereRow = pass.rows[t] /\ HereJob \in JobState
            /\ HereJob = IF HereRow.attempt = 0 THEN "absent" ELSE jobs[<<t, HereRow.attempt>>]
            /\ Looked.release = HereRow.release /\ Looked.attempt = HereRow.attempt
            /\ HereJob = "absent" => Looked.phase = HereRow.phase
            /\ HereJob # "absent" => Looked.phase = Observed(HereJob)
        BY <1>1, Sees
      <4>3. t \in Always => OverIn(pass.rows, t)'
        <5>1. SUFFICES ASSUME t \in Always, Looked.phase # "Running",
                              Going(t, Looked.attempt)
                       PROVE  FALSE
          BY <2>1, <4>1 DEF OverIn, Going
        <5>2. HereJob = "running"
          BY <4>2, <5>1 DEF Going
        <5> QED BY <4>2, <5>1, <5>2 DEF Observed, RunOf, Unfinished
      <4>4. ASSUME Due(pass.rows, pass.release, t)'
            PROVE  Due(pass.rows, pass.release, t)
        <5>1. /\ t \in Needed(pass.release)
              /\ pass.rows[t].attempt < MaxRuns
              /\ jobs[<<t, pass.rows[t].attempt + 1>>] = "absent"
              /\ Looked.release = pass.release /\ Looked.phase # "none" =>
                    /\ Looked.phase = "Running"
                    /\ Looked.attempt # 0 => jobs[<<t, Looked.attempt>>] = "absent"
          BY <1>4, <2>1, <4>1, <4>2, <4>4 DEF Due
        <5>2. CASE ThisDeploys
          <6>1. ObserveRun(t) /\ ~(HereJob = "absent" /\ HereRow.phase = "Running")
            BY <3>3, <5>2 DEF ObserveRun, AwaitPreviousRun
          <6>2. Looked.release = pass.release /\ HereRow.phase # "none"
            BY <4>2, <5>2 DEF ThisDeploys
          <6>3. HereJob # "absent" => Looked.phase # "none"
            BY <4>2 DEF Observed, RunOf, JobState, Unfinished, Finished
          <6>4. HereJob = "absent" /\ Looked.phase = "Running"
            BY <4>2, <5>1, <6>2, <6>3
          <6> QED BY <4>2, <6>1, <6>4
        <5>3. CASE ~ThisDeploys
          BY <4>2, <5>1, <5>3 DEF Due, ThisDeploys
        <5> QED BY <5>2, <5>3
      <4> QED BY <4>1, <4>2, <4>3, <4>4, <1>4
    <3> QED BY <1>6, <3>1, <3>2, <3>3
  <2>3. OwedAt(t)'
    <3>1. Due(rows, target, t)' => Due(rows, target, t)
      BY <1>2, <2>1 DEF Due
    <3> QED BY <1>2, <1>4, <1>5, <2>1, <2>2, <3>1 DEF OwedAt
  <2>4. t \in Always => OneAt(t)'
    <3>1. \A m : Going(t, m)' <=> Going(t, m)
      BY <2>1 DEF Going
    <3>2. t \in Always => OverIn(rows, t)'
      BY <1>2, <1>5, <3>1 DEF OverIn, OneAt
    <3> QED BY <1>2, <1>4, <1>5, <2>2, <3>1, <3>2 DEF OneAt
  <2>5. ASSUME NEW u \in Task, u # t PROVE OwedAt(u)' /\ (u \in Always => OneAt(u)')
    BY <1>1, <1>2, <1>3, <2>1, <2>5, OthersStand DEF OwedInv, OneInv
  <2> QED BY <2>3, <2>4, <2>5 DEF OwedInv, OneInv, Always
<1>7. CASE StartRun(t) \/ AdoptRun(t)
  <2>0. PICK a \in Nat : a = pass.rows[t].attempt
    BY <1>7, NextRun
  <2>1. /\ a = rows[t].attempt /\ a \in Nat /\ a + 1 \in 1..MaxRuns
        /\ t \in Always => ~Going(t, a)
        /\ StartRun(t) => started[t] < owed[t]
    BY <1>7, <2>0, NextRun
  <2>2. /\ \A u \in Task \ {t} : \A m \in 1..MaxRuns : jobs'[<<u, m>>] = jobs[<<u, m>>]
        /\ jobs'[<<t, a + 1>>] # "absent"
        /\ AdoptRun(t) => jobs'[<<t, a + 1>>] = jobs[<<t, a + 1>>]
        /\ \A m \in (1..MaxRuns) \ {a + 1} : Going(t, m)' => Going(t, m)
    BY <1>7, <2>0, NextRunJobs
  <2>3. PICK phase \in {"Running", "Succeeded", "Failed"} :
           /\ pass'.rows[t] = Row(pass.release, a + 1, phase)
           /\ StartRun(t) \/ phase = RunOf(jobs[<<t, a + 1>>])
           /\ StartRun(t) => phase = "Running"
    <3>1. CASE StartRun(t)
      BY <3>1, <2>0, Starts DEF Advances, TypeInv, PassType
    <3>2. CASE AdoptRun(t)
      <4>1. ~StartRun(t)
        BY <1>1, <3>2 DEF StartRun, AdoptRun
      <4> QED BY <3>2, <4>1, <2>0, Adopts DEF Advances, TypeInv, PassType
    <3> QED BY <1>7, <3>1, <3>2
  <2>4. /\ started' = [started EXCEPT ![t] = started[t] + 1] \/ started' = started
        /\ started' # started => StartRun(t)
    BY <1>7 DEF StartRun, AdoptRun, ghosts
  <2>5. OwedAt(t)'
    <3>1. started'[t] <= owed'[t]
      BY <1>2, <1>5, <2>1, <2>4 DEF OwedAt, TypeInv, TypeOK
    <3>2. ~Due(rows, target, t)'
      BY <1>2, <2>1, <2>2 DEF Due
    <3>3. ~Due(pass.rows, pass.release, t)'
      BY <1>4, <2>1, <2>2, <2>3 DEF Due, Row
    <3> QED BY <3>1, <3>2, <3>3 DEF OwedAt
  <2>6. ASSUME t \in Always PROVE OneAt(t)'
    <3>1. \A m \in 1..MaxRuns : Going(t, m)' => m = a + 1
      BY <1>5, <2>1, <2>2, <2>6 DEF OneAt
    <3>2. ~Going(t, a)'
      BY <2>1, <3>1 DEF Going
    <3>3. OverIn(rows, t)'
      BY <1>2, <2>1, <3>2 DEF OverIn
    <3>4. OverIn(pass.rows, t)'
      <4>1. SUFFICES ASSUME phase # "Running", Going(t, a + 1)' PROVE FALSE
        BY <2>3 DEF OverIn, Row
      <4>2. jobs[<<t, a + 1>>] = "running" /\ phase = RunOf(jobs[<<t, a + 1>>])
        BY <1>7, <2>2, <2>3, <4>1 DEF Going
      <4> QED BY <4>1, <4>2 DEF RunOf, Unfinished
    <3>5. pass'.rows[t].attempt = rows'[t].attempt + 1 /\ rows'[t].attempt = a
      BY <1>2, <2>1, <2>3 DEF Row
    <3> QED BY <2>1, <3>1, <3>2, <3>3, <3>4, <3>5 DEF OneAt
  <2>7. ASSUME NEW u \in Task, u # t PROVE OwedAt(u)' /\ (u \in Always => OneAt(u)')
    <3>1. started'[u] = started[u]
      BY <2>4, <2>7 DEF TypeInv, TypeOK
    <3> QED BY <1>1, <1>2, <1>3, <2>2, <2>7, <3>1, OthersStand DEF OwedInv, OneInv
  <2> QED BY <2>5, <2>6, <2>7 DEF OwedInv, OneInv, Always
<1> QED BY <1>6, <1>7 DEF TaskStep

-----------------------------------------------------------------------------
(***************************************************************************)
(* Everything else                                                         *)
(***************************************************************************)
RunsOwned == CopyInv /\ OwedInv /\ OneInv

\* A pass that is dropped takes nothing with it.
LEMMA Dropped ==
    ASSUME TypeInv, RunsOwned, pass' = Idle, rows' = rows, target' = target,
           jobs' = jobs, owed' = owed, started' = started
    PROVE  RunsOwned'
<1>1. ~Busy' /\ pass'.pc # "delete"
  BY IdlePass DEF Busy
<1>2. CopyInv'
  BY <1>1 DEF CopyInv
<1>3. ASSUME NEW t \in Task PROVE OwedAt(t)'
  <2>1. Due(rows, target, t)' <=> Due(rows, target, t)
    BY DEF Due
  <2> QED BY <1>1, <2>1 DEF RunsOwned, OwedInv, OwedAt
<1>4. ASSUME NEW t \in Always PROVE OneAt(t)'
  <2>1. \A m : Going(t, m)' <=> Going(t, m)
    BY DEF Going
  <2>2. OneAt(t)
    BY DEF RunsOwned, OneInv
  <2> QED BY <1>1, <2>1, <2>2 DEF OneAt, OverIn
<1> QED BY <1>2, <1>3, <1>4 DEF RunsOwned, OwedInv, OneInv, Always

\* A pass starts with a copy of the Environment.
LEMMA BeginSets ==
    ASSUME TypeInv, ~lagging, Begin
    PROVE  /\ pass'.release = target /\ pass'.rows = rows /\ pass'.refused = {} /\ Busy'
           /\ pass'.pc \in {"tasks", "verdict", "apply"}
           /\ pass'.next = 1 /\ pass'.out = "clear"
           /\ pass'.pc = "apply" => ~(1 <= Len(Declares[target]))
<1> DEFINE p == Pass("tasks", target, rows, 1, "clear", {}, TRUE)
<1>1. Goto(p)
  BY DEF Begin
<1>2. p \in PassType /\ p.release \in Release
  BY DEF Pass, PassType, Pcs, Outs, Name, TypeInv, TypeOK
<1>3. /\ pass' = [p EXCEPT !.pc = pass'.pc] /\ pass'.pc \in {"tasks", "verdict", "apply"}
      /\ pass'.pc = "apply" => ~(p.next <= Len(Declares[p.release]))
  <2> HIDE DEF p
  <2> QED BY <1>1, <1>2, GotoSets
<1> QED BY <1>3 DEF Pass, Busy

LEMMA BeginRun ==
    ASSUME TypeInv, ~lagging, RunsOwned, Begin
    PROVE  RunsOwned'
<1>3. pass'.pc \in {"tasks", "verdict", "apply"}
  BY BeginSets
<1>4. pass'.release = target /\ pass'.rows = rows /\ pass'.refused = {} /\ Busy'
  BY BeginSets
<1>5. /\ rows' = rows /\ target' = target /\ jobs' = jobs /\ owed' = owed
      /\ started' = started
  BY DEF Begin, ghosts
<1>6. CopyInv'
  BY <1>3, <1>4, <1>5 DEF CopyInv
<1>7. ASSUME NEW t \in Task PROVE OwedAt(t)'
  <2>1. /\ Due(rows, target, t)' <=> Due(rows, target, t)
        /\ Due(pass.rows, pass.release, t)' <=> Due(rows, target, t)
    BY <1>4, <1>5 DEF Due
  <2> QED BY <1>5, <2>1 DEF RunsOwned, OwedInv, OwedAt
<1>8. ASSUME NEW t \in Always PROVE OneAt(t)'
  <2>1. \A m : Going(t, m)' <=> Going(t, m)
    BY <1>5 DEF Going
  <2>2. OneAt(t)
    BY DEF RunsOwned, OneInv
  <2>3. OverIn(rows, t)' /\ OverIn(pass.rows, t)'
    BY <1>4, <1>5, <2>1, <2>2 DEF OneAt, OverIn
  <2> QED BY <1>4, <1>5, <2>1, <2>2, <2>3 DEF OneAt
<1> QED BY <1>6, <1>7, <1>8 DEF RunsOwned, OwedInv, OneInv, Always

\* The rows of the pass become those on record.
LEMMA WriteRun ==
    ASSUME TypeInv, ~lagging, RunsOwned, WriteVerdict \/ WriteStatus
    PROVE  RunsOwned'
<1>1. /\ Busy /\ pass.release = target /\ pass.release \in Release
      /\ pass \in PassType
  BY DEF WriteVerdict, WriteStatus, Busy, RunsOwned, CopyInv, TypeInv, InTurn
<1>2. /\ ~Busy' /\ jobs' = jobs /\ target' = target /\ owed' = owed
      /\ started' = started
  BY <1>1, IdlePass DEF WriteVerdict, WriteStatus, Busy, ghosts, PassType
<1>3. ASSUME NEW t \in Task
      PROVE  rows'[t] = pass.rows[t] \/ t \notin Needed(target)
  <2>1. CASE WriteVerdict
    BY <2>1 DEF WriteVerdict
  <2>2. CASE WriteStatus
    BY <1>1, <2>2 DEF WriteStatus, Needed
  <2> QED BY <2>1, <2>2
<1>4. CopyInv'
  <2>1. SUFFICES ASSUME pass'.pc = "delete", NEW j \in pass'.refused
                 PROVE  Past(rows'[j[1]], j[2])
    BY <1>2 DEF CopyInv
  <2>2. WriteVerdict
    BY <2>1, IdlePass DEF WriteStatus
  <2>3. rows' = pass.rows /\ j \in pass.refused
    BY <1>1, <2>1, <2>2, IdlePass DEF WriteVerdict, PassType
  <2> QED BY <1>1, <2>3 DEF RunsOwned, CopyInv
<1>5. ASSUME NEW t \in Task PROVE OwedAt(t)'
  <2>1. Due(rows, target, t)' => Due(pass.rows, pass.release, t)
    BY <1>1, <1>2, <1>3 DEF Due
  <2>2. OwedAt(t)
    BY DEF RunsOwned, OwedInv
  <2> QED BY <1>1, <1>2, <2>1, <2>2 DEF OwedAt
<1>6. ASSUME NEW t \in Always PROVE OneAt(t)'
  <2>1. \A m : Going(t, m)' <=> Going(t, m)
    BY <1>2 DEF Going
  <2>2. rows'[t] = pass.rows[t]
    BY <1>1, <1>3 DEF Always
  <2>3. rows[t].attempt \in Nat
    <3>1. rows[t] \in RowType
      BY DEF TypeInv, TypeOK, Always
    <3> QED BY <3>1, Assumed DEF RowType
  <2>4. PICK a \in Nat : a = rows[t].attempt
    BY <2>3
  <2>5. /\ \A m \in 1..MaxRuns : Going(t, m) => m \in {a, a + 1}
        /\ ~(Going(t, a) /\ Going(t, a + 1))
        /\ OverIn(pass.rows, t)
        /\ \/ pass.rows[t].attempt = a
           \/ pass.rows[t].attempt = a + 1 /\ ~Going(t, a)
    BY <1>1, <2>4 DEF RunsOwned, OneInv, OneAt
  <2>6. OverIn(rows, t)'
    BY <2>1, <2>2, <2>5 DEF OverIn
  <2>7. CASE pass.rows[t].attempt = a
    BY <1>2, <2>1, <2>2, <2>5, <2>6, <2>7 DEF OneAt
  <2>8. CASE pass.rows[t].attempt = a + 1 /\ ~Going(t, a)
    <3>1. \A m \in 1..MaxRuns : Going(t, m) => m = a + 1
      BY <2>5, <2>8
    <3>2. ~Going(t, a + 1 + 1)
      BY <3>1, <2>4 DEF Going
    <3> QED BY <1>2, <2>1, <2>2, <2>6, <2>8, <3>1, <3>2 DEF OneAt
  <2> QED BY <2>5, <2>7, <2>8
<1> QED BY <1>4, <1>5, <1>6 DEF RunsOwned, OwedInv, OneInv, Always

\* The Jobs of refused runs go, none of which anybody waits for.
LEMMA DeleteRun ==
    ASSUME TypeInv, RunsOwned, DeleteRefused
    PROVE  RunsOwned'
<1>1. /\ pass.pc = "delete" /\ ~Busy' /\ pass'.pc # "delete" /\ target' = target
      /\ rows' = rows /\ owed' = owed /\ started' = started
      /\ jobs' = [j \in Run |-> IF j \in pass.refused THEN "absent" ELSE jobs[j]]
  BY IdlePass DEF DeleteRefused, Busy, ghosts
<1>2. CopyInv'
  BY <1>1 DEF CopyInv
<1>3. ASSUME NEW t \in Task PROVE OwedAt(t)'
  <2>1. PICK row \in RowType : row = rows[t]
    BY DEF TypeInv, TypeOK
  <2>2. row.attempt \in 0..MaxRuns /\ MaxRuns \in Nat
    BY Assumed DEF RowType
  <2>3. ASSUME Due(rows, target, t)' PROVE Due(rows, target, t)
    <3>1. /\ t \in Needed(target) /\ row.attempt < MaxRuns
          /\ jobs'[<<t, row.attempt + 1>>] = "absent"
          /\ row.release = target /\ row.phase # "none" =>
                /\ row.phase = "Running"
                /\ row.attempt # 0 => jobs'[<<t, row.attempt>>] = "absent"
      BY <1>1, <2>1, <2>3 DEF Due
    <3>2. jobs[<<t, row.attempt + 1>>] = "absent"
      <4>1. <<t, row.attempt + 1>> \in Run
        BY <2>2, <3>1 DEF Run
      <4>2. ASSUME <<t, row.attempt + 1>> \in pass.refused PROVE FALSE
        <5>1. Past(rows[t], row.attempt + 1)
          BY <1>1, <4>2 DEF RunsOwned, CopyInv
        <5> QED BY <2>1, <2>2, <5>1 DEF Past
      <4> QED BY <1>1, <3>1, <4>1, <4>2
    <3>3. ASSUME row.phase = "Running", row.attempt # 0,
                 jobs'[<<t, row.attempt>>] = "absent"
          PROVE  jobs[<<t, row.attempt>>] = "absent"
      <4>1. <<t, row.attempt>> \in Run
        BY <2>2, <3>3 DEF Run
      <4>2. ASSUME <<t, row.attempt>> \in pass.refused PROVE FALSE
        <5>1. Past(rows[t], row.attempt)
          BY <1>1, <4>2 DEF RunsOwned, CopyInv
        <5> QED BY <2>1, <2>2, <3>3, <5>1 DEF Past
      <4> QED BY <1>1, <3>3, <4>1, <4>2
    <3> QED BY <2>1, <3>1, <3>2, <3>3 DEF Due
  <2> QED BY <1>1, <2>3 DEF RunsOwned, OwedInv, OwedAt
<1>4. ASSUME NEW t \in Always PROVE OneAt(t)'
  <2>1. \A m : Going(t, m)' => Going(t, m)
    BY <1>1 DEF Going, Run, Always
  <2>2. OneAt(t)
    BY DEF RunsOwned, OneInv
  <2>3. OverIn(rows, t)'
    BY <1>1, <2>1, <2>2 DEF OneAt, OverIn
  <2> QED BY <1>1, <2>1, <2>2, <2>3 DEF OneAt
<1> QED BY <1>2, <1>3, <1>4 DEF RunsOwned, OwedInv, OneInv, Always

\* What others do leaves the pass its copy.  Where a task's row, its Jobs or the
\* target change, a run is owed for it; nothing but a pass makes a Job go.
LEMMA OthersRun ==
    ASSUME TypeInv, RunsOwned,
           pass'.rows = pass.rows, pass'.release = pass.release, pass'.next = pass.next,
           pass'.refused = pass.refused, Busy' <=> Busy,
           pass'.pc = "delete" <=> pass.pc = "delete",
           pass'.current => pass.current /\ target' = target,
           started' = started,
           \A t \in Task : /\ rows'[t].attempt = rows[t].attempt
                           /\ rows'[t].phase = rows[t].phase,
           \A t \in Task :
              \/ owed'[t] = owed[t] + 1
              \/ /\ owed'[t] = owed[t] /\ rows'[t] = rows[t] /\ target' = target
                 /\ \A m \in 1..MaxRuns :
                       jobs'[<<t, m>>] = "absent" => jobs[<<t, m>>] = "absent",
           \A t \in Task : \A m \in 1..MaxRuns :
              jobs'[<<t, m>>] = "running" => jobs[<<t, m>>] = "running"
    PROVE  RunsOwned'
<1>1. \A t : Ahead(t)' <=> Ahead(t)
  BY DEF Ahead
<1>2. \A j \in pass.refused : j[1] \in Task
  BY DEF TypeInv, PassType, Run
<1>3. CopyInv'
  <2>1. ASSUME Busy, pass'.current PROVE pass'.release = target'
    BY <2>1 DEF RunsOwned, CopyInv
  <2>2. ASSUME Busy, NEW t \in Task, Ahead(t)
        PROVE  /\ pass'.rows[t].attempt = rows'[t].attempt
               /\ pass'.rows[t].phase = rows'[t].phase
    BY <2>2 DEF RunsOwned, CopyInv
  <2>3. ASSUME Busy, NEW j \in pass.refused
        PROVE  ~Ahead(j[1]) /\ Past(pass'.rows[j[1]], j[2])
    BY <2>3 DEF RunsOwned, CopyInv
  <2>4. ASSUME pass.pc = "delete", NEW j \in pass.refused PROVE Past(rows'[j[1]], j[2])
    BY <1>2, <2>4 DEF RunsOwned, CopyInv, Past
  <2> QED BY <1>1, <2>1, <2>2, <2>3, <2>4 DEF CopyInv
<1>4. ASSUME NEW t \in Task PROVE OwedAt(t)'
  <2>1. OwedAt(t) /\ started[t] \in Nat /\ owed[t] \in Nat
    BY DEF RunsOwned, OwedInv, TypeInv, TypeOK
  <2>2. CASE owed'[t] = owed[t] + 1
    <3>1. started'[t] < owed'[t]
      BY <2>1, <2>2 DEF OwedAt
    <3> QED BY <2>1, <2>2, <3>1 DEF OwedAt
  <2>3. CASE /\ owed'[t] = owed[t] /\ rows'[t] = rows[t] /\ target' = target
             /\ \A m \in 1..MaxRuns :
                   jobs'[<<t, m>>] = "absent" => jobs[<<t, m>>] = "absent"
    <3>1. rows[t].attempt \in 0..MaxRuns /\ pass.rows[t].attempt \in 0..MaxRuns
      <4>1. rows[t] \in RowType /\ pass.rows[t] \in RowType
        BY DEF TypeInv, TypeOK
      <4> QED BY <4>1 DEF RowType
    <3>2. Due(rows, target, t)' => Due(rows, target, t)
      BY <2>3, <3>1, Assumed DEF Due
    <3>3. Due(pass.rows, pass.release, t)' => Due(pass.rows, pass.release, t)
      BY <2>3, <3>1, Assumed DEF Due
    <3> QED BY <2>1, <2>3, <3>2, <3>3 DEF OwedAt
  <2> QED BY <2>2, <2>3
<1>5. ASSUME NEW t \in Always PROVE OneAt(t)'
  <2>1. t \in Task /\ OneAt(t)
    BY DEF RunsOwned, OneInv, Always
  <2>2. \A m : Going(t, m)' => Going(t, m)
    BY <2>1 DEF Going
  <2>3. OverIn(rows, t)'
    BY <2>1, <2>2 DEF OneAt, OverIn
  <2>4. Busy => OverIn(pass.rows, t)'
    BY <2>1, <2>2 DEF OneAt, OverIn
  <2> QED BY <2>1, <2>2, <2>3, <2>4 DEF OneAt
<1> QED BY <1>3, <1>4, <1>5 DEF RunsOwned, OwedInv, OneInv, Always

LEMMA OthersKeepRuns ==
    ASSUME TypeInv, ~lagging, RunsOwned,
           \/ ApplyDeployment \/ Conflict \/ Drop \/ EnvSync
           \/ \E r \in Release : Move(r)
           \/ \E t \in Task : Retry(t)
           \/ \E j \in Run : PodStartsLate(j) \/ JobEnds(j) \/ JobLost(j)
    PROVE  RunsOwned'
<1>1. pass \in PassType /\ jobs \in [Run -> JobState] /\ owed \in [Task -> Nat]
  BY DEF TypeInv, TypeOK
<1>2. CASE ApplyDeployment
  BY <1>1, <1>2, OthersRun DEF ApplyDeployment, PassType, Busy, ghosts
<1>3. CASE Conflict \/ Drop
  BY <1>3, Dropped DEF Conflict, Drop, ghosts
<1>4. ~EnvSync
  BY DEF EnvSync
<1>5. ASSUME NEW r \in Release, Move(r) PROVE RunsOwned'
  BY <1>1, <1>5, OthersRun DEF Move, PassType, Busy
<1>6. ASSUME NEW t \in Task, Retry(t) PROVE RunsOwned'
  <2>1. rows \in [Task -> RowType]
    BY DEF TypeInv, TypeOK
  <2>2. \A u \in Task : /\ rows'[u].attempt = rows[u].attempt /\ rows'[u].phase = rows[u].phase
                        /\ u # t => rows'[u] = rows[u] /\ owed'[u] = owed[u]
                        /\ u = t => owed'[u] = owed[u] + 1
    BY <1>1, <1>6, <2>1 DEF Retry, RowType
  <2> QED BY <1>1, <1>6, <2>2, OthersRun DEF Retry, PassType, Busy
<1>7. ASSUME NEW j \in Run, PodStartsLate(j) \/ JobEnds(j) \/ JobLost(j) PROVE RunsOwned'
  <2>1. PICK s \in JobState : /\ JobBecomes(j, s) /\ s # "running"
                              /\ s = "absent" => JobLost(j)
    BY <1>7 DEF PodStartsLate, JobEnds, JobSucceeds, JobFails, JobLost, JobState,
                Unfinished, Finished
  <2>2. \A t \in Task : \A m \in 1..MaxRuns :
           /\ jobs'[<<t, m>>] = "running" => jobs[<<t, m>>] = "running"
           /\ jobs'[<<t, m>>] = "absent" =>
                 jobs[<<t, m>>] = "absent" \/ (s = "absent" /\ <<t, m>> = j)
    BY <1>1, <2>1 DEF JobBecomes, Run
  <2>3. \A t \in Task : owed'[t] = owed[t] \/ owed'[t] = owed[t] + 1
    BY <1>1, <1>7 DEF PodStartsLate, JobEnds, JobSucceeds, JobFails, JobLost
  <2>4. s = "absent" => owed'[j[1]] = owed[j[1]] + 1
    BY <1>1, <2>1 DEF JobLost, Run
  <2>5. \A t \in Task :
           \/ owed'[t] = owed[t] + 1
           \/ /\ owed'[t] = owed[t] /\ rows'[t] = rows[t] /\ target' = target
              /\ \A m \in 1..MaxRuns :
                    jobs'[<<t, m>>] = "absent" => jobs[<<t, m>>] = "absent"
    BY <2>1, <2>2, <2>3, <2>4 DEF JobBecomes
  <2>6. pass' = pass /\ rows' = rows /\ target' = target /\ started' = started
    BY <2>1 DEF JobBecomes
  <2> QED BY <2>2, <2>5, <2>6, OthersRun DEF Busy
<1> QED BY <1>2, <1>3, <1>4, <1>5, <1>6, <1>7

LEMMA RunInit == Init => RunInv
<1> SUFFICES ASSUME Init PROVE RunsOwned
  BY DEF RunInv, RunsOwned
<1>1. ~Busy /\ pass.pc # "delete"
  BY IdlePass DEF Init, Busy
<1>2. OwedInv
  BY <1>1 DEF Init, OwedInv, OwedAt
<1>3. \A t \in Task : \A m : ~Going(t, m)
  BY DEF Init, Going, Run
<1>4. OneInv
  BY <1>1, <1>3 DEF OneInv, OneAt, OverIn, Always
<1> QED BY <1>1, <1>2, <1>4 DEF RunsOwned, CopyInv

\* Whether the cache lags is settled once.
LEMMA LaggingStays == [Next]_vars => lagging' = lagging
BY DEF Next, PassStep, TaskStep, Begin, Suspend, Behind, ObserveRun, AwaitPreviousRun,
       StartRun, AdoptRun, WriteVerdict, DeleteRefused, ApplyDeployment, WriteStatus,
       Conflict, Drop, Move, Retry, PodStartsLate, JobEnds, JobSucceeds, JobFails,
       JobLost, JobBecomes, EnvSync, EnvWritten, cache, vars

LEMMA RunNext == TypeInv /\ RunInv /\ [Next]_vars => RunInv'
<1> SUFFICES ASSUME TypeInv, RunInv, [Next]_vars, ~lagging' PROVE RunsOwned'
  BY DEF RunInv, RunsOwned
<1>1. ~lagging
  BY LaggingStays
<1>2. RunsOwned
  BY <1>1 DEF RunInv, RunsOwned
<1>3. CASE Begin
  BY <1>1, <1>2, <1>3, BeginRun
<1>4. ASSUME NEW t \in Task, TaskStep(t) PROVE RunsOwned'
  BY <1>1, <1>2, <1>4, CopyTask, RunTask DEF RunsOwned
<1>5. CASE WriteVerdict \/ WriteStatus
  BY <1>1, <1>2, <1>5, WriteRun
<1>6. CASE DeleteRefused
  BY <1>2, <1>6, DeleteRun
<1>7. CASE \/ ApplyDeployment \/ Conflict \/ Drop \/ EnvSync
           \/ \E r \in Release : Move(r)
           \/ \E t \in Task : Retry(t)
           \/ \E j \in Run : PodStartsLate(j) \/ JobEnds(j) \/ JobLost(j)
  BY <1>1, <1>2, <1>7, OthersKeepRuns
<1>8. CASE UNCHANGED vars
  <2>1. owed \in [Task -> Nat]
    BY DEF TypeInv, TypeOK
  <2> QED BY <1>2, <1>8, <2>1, OthersRun DEF vars, cache, ghosts, Busy
<1> QED BY <1>3, <1>4, <1>5, <1>6, <1>7, <1>8 DEF Next, PassStep

-----------------------------------------------------------------------------
(***************************************************************************)
(* The order of a deploy                                                   *)
(***************************************************************************)

\* What a row may say, given the latest run of its task.
Vouches(row, run) ==
    /\ row.attempt <= run.attempt
    /\ row.attempt = run.attempt /\ row.phase = "Succeeded" => run.ok
    /\ run.recorded => row.attempt = run.attempt /\ row.release \in {run.release, None}

(***************************************************************************)
(* The latest run of a task has the number its row names or the next one,  *)
(* no Job has a greater one, and the row on record and the copy of the     *)
(* pass say of that run no more than is so.                                *)
(***************************************************************************)
LatestAt(t) ==
    /\ \A m \in 1..MaxRuns : jobs[<<t, m>>] # "absent" => m <= newest[t].attempt
    /\ newest[t].attempt <= rows[t].attempt + 1
    /\ newest[t].attempt # 0 /\ jobs[<<t, newest[t].attempt>>] = "succeeded" => newest[t].ok
    /\ Vouches(rows[t], newest[t])
    /\ Busy => /\ rows[t].attempt <= pass.rows[t].attempt
               /\ Vouches(pass.rows[t], newest[t])

\* By its copy, the pass has seen t succeed for its release.
HasRun(t) == pass.rows[t].phase = "Succeeded" /\ pass.rows[t].release = pass.release

\* A pass that nothing has stopped yet has seen every task before the one it is at.
ClearInv ==
    /\ pass.pc \in {"tasks", "apply"} /\ pass.out = "clear" =>
          \A i \in DOMAIN Declares[pass.release] :
             i < pass.next /\ Declares[pass.release][i] \in RunsHere[pass.release] =>
                HasRun(Declares[pass.release][i])
    /\ pass.pc = "apply" => pass.out = "clear" /\ ~(pass.next <= Len(Declares[pass.release]))

LatestInv == ~lagging => ClearInv /\ \A t \in Kept : LatestAt(t)

\* A task is left with the outcome its step says.
LEMMA LeavesOut ==
    ASSUME TypeInv, NEW row, NEW out,
           Goto(Done(row, out)) \/ Goto(WithRefused(Done(row, out)))
    PROVE  pass'.out = out
<1> DEFINE d == Done(row, out)
           w == WithRefused(d)
<1>1. pass \in PassType
  BY DEF TypeInv
<1>2. d = [pass EXCEPT !.rows[Here] = row, !.out = out, !.next = pass.next + 1]
  BY <1>1 DEF Done, PassType
<1>3. d.out = out /\ "out" \in DOMAIN d
  BY <1>1, <1>2 DEF PassType
<1> HIDE DEF d
<1>4. w.out = out /\ "out" \in DOMAIN w
  BY <1>3 DEF WithRefused
<1>5. PICK p \in {d, w} : Goto(p)
  BY DEF d
<1> HIDE DEF w
<1> QED BY <1>3, <1>4, <1>5 DEF Goto

\* Where the pass is clear after a task, it was before, and the task has run.
LEMMA ClearAfter ==
    ASSUME TypeInv, NEW t \in Task, TaskStep(t), pass'.out = "clear"
    PROVE  /\ pass.out = "clear"
           /\ t \in RunsHere[pass.release] =>
                 HereRow.release = pass.release /\ Looked.phase = "Succeeded"
                 /\ Advances(t, Looked)
<1>1. AtTask(t)
  BY DEF TaskStep, Suspend, Behind, ObserveRun, AwaitPreviousRun, StartRun, AdoptRun, Turn
<1>2. CASE Suspend(t)
  <2>1. t \notin RunsHere[pass.release] /\ pass'.out = pass.out
    BY <1>2, LeavesOut DEF Suspend
  <2> QED BY <2>1
<1>3. CASE Behind(t)
  <2>1. pass.out # "clear" /\ pass'.out = pass.out
    BY <1>3, LeavesOut DEF Behind
  <2> QED BY <2>1
<1>4. CASE ObserveRun(t)
  <2>1. pass.out = "clear" /\ ThisDeploys /\ pass'.out = Outcome(Looked.phase)
    BY <1>4, LeavesOut DEF ObserveRun, Turn
  <2>2. Looked.phase = "Succeeded"
    BY <2>1 DEF Outcome
  <2>3. Advances(t, Looked)
    BY <1>4, Observes
  <2> QED BY <2>1, <2>2, <2>3 DEF ThisDeploys
<1>5. CASE AwaitPreviousRun(t)
  <2>1. pass'.out = "waiting"
    BY <1>5, LeavesOut DEF AwaitPreviousRun
  <2> QED BY <2>1
<1>6. CASE StartRun(t) \/ AdoptRun(t)
  <2>1. PICK row : RunStarted(row)
    BY <1>6 DEF StartRun, AdoptRun
  <2>2. pass'.out = "waiting"
    BY <2>1, LeavesOut DEF RunStarted
  <2> QED BY <2>2
<1> QED BY <1>2, <1>3, <1>4, <1>5, <1>6 DEF TaskStep

LEMMA ClearTask ==
    ASSUME TypeInv, ClearInv, NEW t \in Task, TaskStep(t)
    PROVE  ClearInv'
<1>1. AtTask(t)
  BY DEF TaskStep, Suspend, Behind, ObserveRun, AwaitPreviousRun, StartRun, AdoptRun, Turn
<1>2. PICK row : Advances(t, row)
  BY Suspends, StaysBehind, Observes, Starts, Adopts DEF TaskStep
<1>3. /\ pass'.release = pass.release /\ pass'.next = pass.next + 1
      /\ pass'.rows = [pass.rows EXCEPT ![t] = row] /\ pass.rows \in [Task -> RowType]
      /\ pass.next \in Nat /\ pass.release \in Release
      /\ Declares[pass.release] \in Seq(Task)
  BY <1>1, <1>2, Assumed, Sees DEF Advances, TypeInv, PassType
<1>4. pass'.pc = "apply" =>
         pass'.out = "clear" /\ ~(pass'.next <= Len(Declares[pass'.release]))
  BY <1>2 DEF Advances
<1>5. ASSUME pass'.out = "clear", NEW i \in DOMAIN Declares[pass.release], i < pass.next + 1,
             Declares[pass.release][i] \in RunsHere[pass.release]
      PROVE  HasRun(Declares[pass.release][i])'
  <2>1. /\ pass.out = "clear"
        /\ t \in RunsHere[pass.release] =>
              HereRow.release = pass.release /\ Looked.phase = "Succeeded"
              /\ Advances(t, Looked)
    BY <1>5, ClearAfter
  <2>2. i \in Nat /\ (i < pass.next \/ i = pass.next)
    BY <1>3, <1>5
  <2>3. CASE i < pass.next
    <3>1. HasRun(Declares[pass.release][i])
      BY <1>1, <1>5, <2>1, <2>3 DEF ClearInv, AtTask
    <3>2. Declares[pass.release][i] # t
      BY <1>1, <1>2, <1>5, <2>3, ComesOnce DEF Ahead
    <3>3. Declares[pass.release][i] \in Task
      BY <1>3, <1>5
    <3> QED BY <1>3, <3>1, <3>2, <3>3 DEF HasRun
  <2>4. CASE i = pass.next
    <3>1. Declares[pass.release][i] = t
      BY <1>1, <2>4 DEF AtTask, Here
    <3>2. pass'.rows[t] = Looked /\ Looked.release = pass.release /\ Looked.phase = "Succeeded"
      BY <1>1, <1>3, <1>5, <2>1, <3>1, Sees DEF Advances
    <3> QED BY <1>3, <3>1, <3>2 DEF HasRun
  <2> QED BY <2>2, <2>3, <2>4
<1> QED BY <1>3, <1>4, <1>5 DEF ClearInv

\* Nothing else adds to what a pass has seen.
LEMMA ClearRest ==
    ASSUME TypeInv, ClearInv,
           \/ pass'.pc \notin {"tasks", "apply"}
           \/ /\ pass'.pc = pass.pc /\ pass'.out = pass.out /\ pass'.next = pass.next
              /\ pass'.release = pass.release /\ pass'.rows = pass.rows
    PROVE  ClearInv'
BY DEF ClearInv, HasRun

LEMMA ClearBegin ==
    ASSUME TypeInv, ~lagging, Begin
    PROVE  ClearInv'
<1>1. /\ pass'.next = 1 /\ pass'.out = "clear" /\ pass'.release = target
      /\ pass'.pc = "apply" => ~(1 <= Len(Declares[target]))
  BY BeginSets
<1>2. Declares[target] \in Seq(Task)
  BY Assumed DEF TypeInv, TypeOK
<1>3. \A i \in DOMAIN Declares[target] : ~(i < 1)
  BY <1>2
<1> QED BY <1>1, <1>3 DEF ClearInv

\* A task whose Jobs at most disappear or end, and whose latest run at most comes to
\* have succeeded, where its row at most loses the release it was for.
LEMMA StaysLatest ==
    ASSUME TypeInv, NEW t \in Task, LatestAt(t),
           \A m \in 1..MaxRuns : jobs'[<<t, m>>] # "absent" => jobs[<<t, m>>] # "absent",
           newest'[t].attempt = newest[t].attempt, newest'[t].release = newest[t].release,
           newest'[t].recorded = newest[t].recorded,
           newest[t].ok => newest'[t].ok,
           newest[t].attempt # 0 /\ jobs'[<<t, newest[t].attempt>>] = "succeeded" =>
              newest'[t].ok \/ jobs[<<t, newest[t].attempt>>] = "succeeded",
           rows'[t].attempt = rows[t].attempt, rows'[t].phase = rows[t].phase,
           rows'[t].release \in {rows[t].release, None},
           Busy' => Busy /\ pass'.rows[t] = pass.rows[t]
    PROVE  LatestAt(t)'
<1>1. Vouches(rows[t], newest[t])'
  BY DEF LatestAt, Vouches
<1>2. Busy' => Vouches(pass.rows[t], newest[t])'
  BY DEF LatestAt, Vouches
<1>3. \A m \in 1..MaxRuns : jobs'[<<t, m>>] # "absent" => m <= newest'[t].attempt
  BY DEF LatestAt
<1> QED BY <1>1, <1>2, <1>3 DEF LatestAt

\* A task its pass leaves with the number it came with.
LEMMA LookedLatest ==
    ASSUME TypeInv, NEW t \in Task, LatestAt(t), NEW row, AtTask(t), Advances(t, row),
           UNCHANGED <<rows, jobs, newest>>,
           row.attempt = pass.rows[t].attempt,
           row.release \in {pass.rows[t].release, None},
           row.phase = "Succeeded" =>
              \/ pass.rows[t].phase = "Succeeded"
              \/ row.attempt # 0 /\ jobs[<<t, row.attempt>>] = "succeeded"
    PROVE  LatestAt(t)'
<1>1. Busy /\ pass'.rows[t] = row
  BY DEF AtTask, Busy, Advances, TypeInv, PassType
<1>2. Vouches(row, newest[t])
  BY <1>1 DEF LatestAt, Vouches
<1> QED BY <1>1, <1>2 DEF LatestAt, Vouches

LEMMA SameNumber ==
    ASSUME TypeInv, NEW t \in Task, LatestAt(t),
           Suspend(t) \/ Behind(t) \/ ObserveRun(t) \/ AwaitPreviousRun(t)
    PROVE  LatestAt(t)'
<1>1. AtTask(t)
  BY DEF Suspend, Behind, ObserveRun, AwaitPreviousRun, Turn
<1>2. UNCHANGED <<rows, jobs, newest>>
  BY DEF Suspend, Behind, ObserveRun, AwaitPreviousRun, ghosts
<1>3. CASE Suspend(t)
  BY <1>1, <1>2, <1>3, Suspends, LookedLatest DEF Row
<1>4. CASE Behind(t)
  BY <1>1, <1>2, <1>4, StaysBehind, LookedLatest
<1>5. CASE ObserveRun(t) \/ AwaitPreviousRun(t)
  <2>1. Advances(t, Looked)
    BY <1>5, Observes
  <2>2. /\ Looked.attempt = pass.rows[t].attempt /\ Looked.release = pass.rows[t].release
        /\ HereJob \in JobState
        /\ HereJob = IF pass.rows[t].attempt = 0 THEN "absent"
                     ELSE jobs[<<t, pass.rows[t].attempt>>]
        /\ HereJob = "absent" => Looked.phase = pass.rows[t].phase
        /\ HereJob # "absent" => Looked.phase = Observed(HereJob)
    BY <1>1, Sees
  <2>3. ASSUME Looked.phase = "Succeeded", HereJob # "absent" PROVE HereJob = "succeeded"
    BY <2>2, <2>3 DEF Observed, RunOf, JobState, Unfinished, Finished
  <2>4. Looked.phase = "Succeeded" =>
           \/ pass.rows[t].phase = "Succeeded"
           \/ Looked.attempt # 0 /\ jobs[<<t, Looked.attempt>>] = "succeeded"
    BY <2>2, <2>3
  <2> QED BY <1>1, <1>2, <2>1, <2>2, <2>4, LookedLatest
<1> QED BY <1>3, <1>4, <1>5

\* The latest run is made under the next number, or found there.
LEMMA NextNumber ==
    ASSUME TypeInv, ~lagging, RunsOwned, NEW t \in Task, LatestAt(t),
           StartRun(t) \/ AdoptRun(t)
    PROVE  LatestAt(t)'
<1>1. AtTask(t) /\ rows' = rows
  BY DEF StartRun, AdoptRun, Turn
<1>2. PICK a \in Nat : /\ a = pass.rows[t].attempt /\ a = rows[t].attempt
                       /\ a + 1 \in 1..MaxRuns
  BY NextRun DEF RunsOwned
<1>3. /\ StartRun(t) => jobs'[<<t, a + 1>>] \in {"running", "refused"}
      /\ AdoptRun(t) => jobs'[<<t, a + 1>>] = jobs[<<t, a + 1>>]
      /\ \A m \in (1..MaxRuns) \ {a + 1} : jobs'[<<t, m>>] \in {jobs[<<t, m>>], "absent"}
  BY <1>2, NextRunJobs
<1>4. newest[t] \in NewestType
  BY TypeParts DEF World
<1>5. newest[t].attempt \in Nat
  BY <1>4, Assumed DEF NewestType
<1>6. CASE StartRun(t)
  <2>1. newest' = [newest EXCEPT ![t] = Created(a + 1, pass.release)]
    BY <1>1, <1>2, <1>6, Sees DEF StartRun
  <2>2. /\ newest'[t].attempt = a + 1 /\ newest'[t].ok = FALSE
        /\ newest'[t].recorded = FALSE
    BY <2>1, TypeParts DEF Created, World
  <2>3. /\ pass'.rows[t].attempt = a + 1 /\ pass'.rows[t].phase = "Running"
    <3>1. Advances(t, Row(pass.release, a + 1, "Running"))
      BY <1>2, <1>6, Starts
    <3>2. pass'.rows[t] = Row(pass.release, a + 1, "Running")
      BY <3>1 DEF Advances, TypeInv, PassType
    <3> QED BY <3>2 DEF Row
  <2>4. \A m \in 1..MaxRuns : jobs'[<<t, m>>] # "absent" => m <= a + 1
    BY <1>2, <1>3, <1>5 DEF LatestAt
  <2>5. Vouches(rows[t], newest[t])' /\ Vouches(pass.rows[t], newest[t])'
    BY <1>1, <1>2, <2>2, <2>3 DEF Vouches
  <2>6. jobs'[<<t, a + 1>>] # "succeeded"
    BY <1>3, <1>6
  <2> QED BY <1>1, <1>2, <2>2, <2>3, <2>4, <2>5, <2>6 DEF LatestAt
<1>7. CASE AdoptRun(t)
  <2>1. newest' = newest
    BY <1>7 DEF AdoptRun, ghosts
  <2>2. /\ jobs[<<t, a + 1>>] # "absent" /\ pass'.rows[t].attempt = a + 1
        /\ pass'.rows[t].phase = RunOf(jobs[<<t, a + 1>>])
    <3>1. /\ jobs[<<t, a + 1>>] # "absent"
          /\ Advances(t, Row(pass.release, a + 1, RunOf(jobs[<<t, a + 1>>])))
      BY <1>2, <1>7, Adopts
    <3>2. pass'.rows[t] = Row(pass.release, a + 1, RunOf(jobs[<<t, a + 1>>]))
      BY <3>1 DEF Advances, TypeInv, PassType
    <3> QED BY <3>1, <3>2 DEF Row
  <2>3. newest[t].attempt = a + 1 /\ ~newest[t].recorded
    BY <1>2, <1>5, <2>2 DEF LatestAt, Vouches
  <2>4. jobs[<<t, a + 1>>] \in JobState
    BY <1>2 DEF TypeInv, TypeOK, Run
  <2>5. jobs[<<t, a + 1>>] = "succeeded" => newest[t].ok
    BY <1>2, <2>3 DEF LatestAt
  <2>6. pass'.rows[t].phase = "Succeeded" => newest[t].ok
    BY <2>2, <2>4, <2>5 DEF RunOf, JobState, Unfinished, Finished
  <2>7. Vouches(rows[t], newest[t])' /\ Vouches(pass.rows[t], newest[t])'
    BY <1>1, <1>2, <2>1, <2>2, <2>3, <2>6 DEF Vouches
  <2>8. \A m \in 1..MaxRuns : jobs'[<<t, m>>] # "absent" => m <= a + 1
    BY <1>2, <1>3, <2>3 DEF LatestAt
  <2>9. jobs'[<<t, a + 1>>] = jobs[<<t, a + 1>>]
    BY <1>3, <1>7
  <2> QED BY <1>1, <1>2, <2>1, <2>2, <2>3, <2>5, <2>7, <2>8, <2>9 DEF LatestAt
<1> QED BY <1>6, <1>7

LEMMA TaskLatest ==
    ASSUME TypeInv, ~lagging, RunsOwned, \A t \in Kept : LatestAt(t),
           NEW u \in Task, TaskStep(u)
    PROVE  \A t \in Kept : LatestAt(t)'
<1>1. AtTask(u) /\ rows' = rows
  BY DEF TaskStep, Suspend, Behind, ObserveRun, AwaitPreviousRun, StartRun, AdoptRun, Turn
<1>2. PICK row : Advances(u, row)
  BY Suspends, StaysBehind, Observes, Starts, Adopts DEF TaskStep
<1>3. ASSUME NEW t \in Task \ {u}
      PROVE  /\ newest'[t] = newest[t] /\ \A m \in 1..MaxRuns : jobs'[<<t, m>>] = jobs[<<t, m>>]
             /\ Busy /\ pass'.rows[t] = pass.rows[t]
  <2>1. newest' = newest \/ newest' = [newest EXCEPT ![u] = newest'[u]]
    BY TypeParts DEF TaskStep, Suspend, Behind, ObserveRun, AwaitPreviousRun, StartRun,
                     AdoptRun, ghosts, World
  <2>2. \A m \in 1..MaxRuns : jobs'[<<t, m>>] = jobs[<<t, m>>]
    <3>1. jobs' = jobs \/ StartRun(u) \/ AdoptRun(u)
      BY DEF TaskStep, Suspend, Behind, ObserveRun, AwaitPreviousRun
    <3> QED BY <3>1, NextRunJobs
  <2>3. Busy /\ pass'.rows[t] = pass.rows[t]
    BY <1>1, <1>2 DEF AtTask, Busy, Advances, TypeInv, PassType
  <2>4. newest'[t] = newest[t]
    <3>1. newest \in [Task -> NewestType]
      BY TypeParts DEF World
    <3> QED BY <2>1, <3>1
  <2> QED BY <2>2, <2>3, <2>4
<1>4. ASSUME NEW t \in Kept, t # u PROVE LatestAt(t)'
  <2>1. t \in Task \ {u}
    BY <1>4 DEF Kept
  <2>2. /\ newest'[t] = newest[t] /\ \A m \in 1..MaxRuns : jobs'[<<t, m>>] = jobs[<<t, m>>]
        /\ Busy /\ pass'.rows[t] = pass.rows[t]
    BY <1>3, <2>1
  <2>3. newest[t].attempt # 0 => newest[t].attempt \in 1..MaxRuns
    BY <2>1, Assumed, TypeParts DEF World, NewestType
  <2> QED BY <1>1, <1>4, <2>1, <2>2, <2>3, StaysLatest
<1>5. u \in Kept => LatestAt(u)'
  BY SameNumber, NextNumber DEF TaskStep
<1> QED BY <1>4, <1>5 DEF Kept

\* The rows of the pass go on record.
LEMMA WriteLatest ==
    ASSUME TypeInv, NEW t \in Kept, LatestAt(t), WriteVerdict \/ WriteStatus
    PROVE  LatestAt(t)'
<1>1. t \in Task /\ Busy /\ pass \in PassType /\ pass.release \in Release
  BY DEF Kept, WriteVerdict, WriteStatus, Busy, TypeInv, InTurn
<1>2. jobs' = jobs /\ ~Busy'
  BY <1>1, IdlePass DEF WriteVerdict, WriteStatus, Busy, PassType
<1>3. rows'[t] = pass.rows[t]
  BY <1>1 DEF WriteVerdict, WriteStatus, Kept
<1>4. newest[t] \in NewestType
  BY <1>1, TypeParts DEF World
<1>5. \/ newest'[t] = newest[t]
      \/ /\ newest'[t] = [newest[t] EXCEPT !.recorded = TRUE]
         /\ pass.rows[t].attempt = newest[t].attempt
         /\ pass.rows[t].release = newest[t].release
  BY <1>1 DEF WriteVerdict, WriteStatus, ghosts
<1>6. /\ newest'[t].attempt = newest[t].attempt /\ newest'[t].ok = newest[t].ok
      /\ newest'[t].release = newest[t].release
      /\ newest'[t].recorded => newest[t].recorded \/
            (pass.rows[t].attempt = newest[t].attempt /\ pass.rows[t].release = newest[t].release)
  BY <1>4, <1>5 DEF NewestType
<1>7. Vouches(rows[t], newest[t])'
  BY <1>1, <1>3, <1>6 DEF LatestAt, Vouches
<1>8. newest'[t].attempt <= rows'[t].attempt + 1
  <2>1. /\ rows[t].attempt \in 0..MaxRuns /\ pass.rows[t].attempt \in 0..MaxRuns
        /\ newest[t].attempt \in 0..MaxRuns
    BY <1>1, <1>4 DEF TypeInv, TypeOK, PassType, RowType, NewestType
  <2> QED BY <1>1, <1>3, <1>6, <2>1, Assumed DEF LatestAt
<1> QED BY <1>2, <1>6, <1>7, <1>8 DEF LatestAt

LEMMA OthersLatest ==
    ASSUME TypeInv, ~lagging, NEW t \in Kept, LatestAt(t),
           \/ DeleteRefused \/ ApplyDeployment \/ Conflict \/ Drop \/ EnvSync
           \/ \E r \in Release : Move(r)
           \/ \E u \in Task : Retry(u)
           \/ \E j \in Run : PodStartsLate(j) \/ JobEnds(j) \/ JobLost(j)
    PROVE  LatestAt(t)'
<1>1. /\ t \in Task /\ pass \in PassType /\ jobs \in [Run -> JobState]
      /\ rows \in [Task -> RowType] /\ newest \in [Task -> NewestType]
  BY TypeParts DEF Kept, World
<1>2. newest[t].attempt # 0 => newest[t].attempt \in 1..MaxRuns
  BY <1>1, Assumed DEF NewestType
<1>3. CASE DeleteRefused
  <2>1. \A m \in 1..MaxRuns : jobs'[<<t, m>>] \in {jobs[<<t, m>>], "absent"}
    BY <1>1, <1>3 DEF DeleteRefused, Run
  <2>2. ~Busy'
    BY <1>3, IdlePass DEF DeleteRefused, Busy
  <2> QED BY <1>1, <1>2, <1>3, <2>1, <2>2, StaysLatest DEF DeleteRefused, ghosts
<1>4. CASE ApplyDeployment
  <2>1. Busy /\ pass'.rows = pass.rows
    BY <1>1, <1>4 DEF ApplyDeployment, PassType, Busy
  <2> QED BY <1>1, <1>4, <2>1, StaysLatest DEF ApplyDeployment, ghosts
<1>5. CASE Conflict \/ Drop
  <2>1. ~Busy'
    BY <1>5, IdlePass DEF Conflict, Drop, Busy
  <2> QED BY <1>1, <1>5, <2>1, StaysLatest DEF Conflict, Drop, ghosts
<1>6. ~EnvSync
  BY DEF EnvSync
<1>7. ASSUME NEW r \in Release, Move(r) PROVE LatestAt(t)'
  <2>1. pass'.pc = pass.pc /\ pass'.rows = pass.rows
    BY <1>1, <1>7 DEF Move, PassType
  <2> QED BY <1>1, <1>7, <2>1, StaysLatest DEF Move, Busy
<1>8. ASSUME NEW u \in Task, Retry(u) PROVE LatestAt(t)'
  <2>1. pass'.pc = pass.pc /\ pass'.rows = pass.rows
    BY <1>1, <1>8 DEF Retry, PassType
  <2>2. /\ rows'[t].attempt = rows[t].attempt /\ rows'[t].phase = rows[t].phase
        /\ rows'[t].release \in {rows[t].release, None}
    BY <1>1, <1>8 DEF Retry, RowType
  <2> QED BY <1>1, <1>8, <2>1, <2>2, StaysLatest DEF Retry, Busy
<1>9. ASSUME NEW j \in Run, PodStartsLate(j) \/ JobEnds(j) \/ JobLost(j) PROVE LatestAt(t)'
  <2>1. PICK s \in JobState : /\ JobBecomes(j, s)
                              /\ s # "absent" => jobs[j] # "absent"
                              /\ s = "succeeded" => JobSucceeds(j)
    BY <1>9 DEF PodStartsLate, JobEnds, JobSucceeds, JobFails, JobLost, JobState,
                Unfinished, Finished
  <2>2. /\ rows' = rows /\ pass' = pass /\ jobs' = [jobs EXCEPT ![j] = s]
    BY <2>1 DEF JobBecomes
  <2>3. \A m \in 1..MaxRuns : jobs'[<<t, m>>] # "absent" => jobs[<<t, m>>] # "absent"
    BY <1>1, <2>1, <2>2 DEF Run
  <2>4. newest' = newest \/ newest' = [newest EXCEPT ![j[1]].ok = TRUE]
    BY <1>9 DEF PodStartsLate, JobEnds, JobSucceeds, JobFails, JobLost
  <2>5. /\ newest'[t].attempt = newest[t].attempt /\ newest'[t].release = newest[t].release
        /\ newest'[t].recorded = newest[t].recorded /\ (newest[t].ok => newest'[t].ok)
    BY <1>1, <2>4 DEF NewestType
  <2>6. ASSUME newest[t].attempt # 0, jobs'[<<t, newest[t].attempt>>] = "succeeded"
        PROVE  newest'[t].ok \/ jobs[<<t, newest[t].attempt>>] = "succeeded"
    <3>1. CASE j = <<t, newest[t].attempt>> /\ s = "succeeded"
      <4>1. newest' = [newest EXCEPT ![t].ok = TRUE]
        BY <2>1, <3>1 DEF JobSucceeds
      <4> QED BY <1>1, <4>1 DEF NewestType
    <3>2. CASE ~(j = <<t, newest[t].attempt>> /\ s = "succeeded")
      <4>1. <<t, newest[t].attempt>> \in Run
        BY <1>1, <1>2, <2>6 DEF Run
      <4> QED BY <1>1, <2>2, <2>6, <3>2, <4>1
    <3> QED BY <3>1, <3>2
  <2>7. Busy' => Busy
    BY <2>2 DEF Busy
  <2> QED BY <1>1, <2>2, <2>3, <2>5, <2>6, <2>7, StaysLatest
<1> QED BY <1>3, <1>4, <1>5, <1>6, <1>7, <1>8, <1>9

LEMMA ClearOthers ==
    ASSUME TypeInv, ClearInv,
           \/ WriteVerdict \/ DeleteRefused \/ ApplyDeployment \/ WriteStatus
           \/ Conflict \/ Drop \/ EnvSync
           \/ \E r \in Release : Move(r)
           \/ \E u \in Task : Retry(u)
           \/ \E j \in Run : PodStartsLate(j) \/ JobEnds(j) \/ JobLost(j)
    PROVE  ClearInv'
<1>1. pass \in PassType
  BY DEF TypeInv
<1>2. \/ pass' = Idle \/ pass' = [pass EXCEPT !.pc = "delete"]
      \/ pass' = [pass EXCEPT !.pc = "status"]
      \/ pass' = [pass EXCEPT !.current = FALSE] \/ pass' = pass
  BY DEF WriteVerdict, DeleteRefused, ApplyDeployment, WriteStatus, Conflict, Drop, EnvSync,
         Move, Retry, PodStartsLate, JobEnds, JobSucceeds, JobFails, JobLost, JobBecomes
<1>3. \/ pass'.pc \notin {"tasks", "apply"}
      \/ /\ pass'.pc = pass.pc /\ pass'.out = pass.out /\ pass'.next = pass.next
         /\ pass'.release = pass.release /\ pass'.rows = pass.rows
  BY <1>1, <1>2, IdlePass DEF PassType
<1> QED BY <1>3, ClearRest

LEMMA LatestInit == Init => LatestInv
<1> SUFFICES ASSUME Init PROVE ClearInv /\ \A t \in Kept : LatestAt(t)
  BY DEF LatestInv
<1>1. pass.pc = "idle" /\ ~Busy
  BY IdlePass DEF Init, Busy
<1>2. ClearInv
  BY <1>1 DEF ClearInv
<1>3. ASSUME NEW t \in Kept PROVE LatestAt(t)
  <2>1. /\ rows[t] = NoRow /\ newest[t] = Created(0, None)
        /\ \A m \in 1..MaxRuns : jobs[<<t, m>>] = "absent"
    BY DEF Init, Run, Kept
  <2> QED BY <1>1, <2>1 DEF LatestAt, Vouches, NoRow, Row, Created
<1> QED BY <1>2, <1>3

LEMMA LatestNext == TypeInv /\ RunInv /\ LatestInv /\ [Next]_vars => LatestInv'
<1> SUFFICES ASSUME TypeInv, RunInv, LatestInv, [Next]_vars, ~lagging'
             PROVE  ClearInv' /\ \A t \in Kept : LatestAt(t)'
  BY DEF LatestInv, Kept
<1>1. ~lagging
  BY LaggingStays
<1>2. RunsOwned /\ ClearInv /\ \A t \in Kept : LatestAt(t)
  BY <1>1 DEF RunInv, RunsOwned, LatestInv
<1>3. CASE Begin
  <2>1. ASSUME NEW t \in Kept PROVE LatestAt(t)'
    <3>1. pass'.rows = rows
      BY <1>1, <1>3, BeginSets
    <3>2. rows' = rows /\ jobs' = jobs /\ newest' = newest
      BY <1>3 DEF Begin, ghosts
    <3>3. rows[t].attempt \in Nat
      BY Assumed DEF TypeInv, TypeOK, RowType, Kept
    <3> QED BY <1>2, <3>1, <3>2, <3>3 DEF LatestAt, Vouches
  <2> QED BY <1>1, <1>3, <2>1, ClearBegin
<1>4. ASSUME NEW u \in Task, TaskStep(u) PROVE ClearInv' /\ \A t \in Kept : LatestAt(t)'
  BY <1>1, <1>2, <1>4, ClearTask, TaskLatest
<1>5. CASE WriteVerdict \/ WriteStatus
  BY <1>2, <1>5, WriteLatest, ClearOthers
<1>6. CASE \/ DeleteRefused \/ ApplyDeployment \/ Conflict \/ Drop \/ EnvSync
           \/ \E r \in Release : Move(r)
           \/ \E t \in Task : Retry(t)
           \/ \E j \in Run : PodStartsLate(j) \/ JobEnds(j) \/ JobLost(j)
  BY <1>1, <1>2, <1>6, OthersLatest, ClearOthers
<1>7. CASE UNCHANGED vars
  <2>1. pass' = pass /\ rows' = rows /\ jobs' = jobs /\ newest' = newest
    BY <1>7 DEF vars, ghosts
  <2> QED BY <1>2, <2>1 DEF ClearInv, HasRun, LatestAt, Busy
<1> QED BY <1>3, <1>4, <1>5, <1>6, <1>7 DEF Next, PassStep

\* Traffic moves with the passes that saw every task of their release succeed.
LEMMA ServesLast ==
    ASSUME TypeInv, ClearInv, [Next]_vars, serving' # serving
    PROVE  /\ serving' = pass.release /\ pass.release \in Release /\ Busy
           /\ \A t \in Needed(pass.release) : HasRun(t)
<1>1. ApplyDeployment
  BY DEF Next, PassStep, TaskStep, Begin, Suspend, Behind, ObserveRun, AwaitPreviousRun,
         StartRun, AdoptRun, WriteVerdict, DeleteRefused, WriteStatus,
         Conflict, Drop, Move, Retry, PodStartsLate, JobEnds, JobSucceeds, JobFails,
         JobLost, JobBecomes, EnvSync, EnvWritten, cache, vars
<1>2. /\ serving' = pass.release /\ pass.pc = "apply" /\ pass.release \in Release /\ Busy
      /\ pass.next \in Nat
  BY <1>1 DEF ApplyDeployment, TypeInv, InTurn, Busy, PassType
<1>3. ASSUME NEW t \in Needed(pass.release) PROVE HasRun(t)
  <2>1. PICK i \in DOMAIN Declares[pass.release] : Declares[pass.release][i] = t
    BY DEF Needed
  <2>2. Declares[pass.release] \in Seq(Task)
    BY <1>2, Assumed
  <2>3. i < pass.next
    BY <1>2, <2>1, <2>2 DEF ClearInv
  <2> QED BY <1>2, <2>1, <2>3 DEF ClearInv, Needed
<1> QED BY <1>2, <1>3

\* A task is started by the passes that saw those before it succeed.
LEMMA StartsAfter ==
    ASSUME TypeInv, ClearInv, [Next]_vars, NEW t \in Task, started'[t] # started[t]
    PROVE  /\ Busy /\ newest'[t].release = pass.release /\ newest \in [Task -> NewestType]
           /\ \A b \in Before(pass.release, t) \cap RunsHere[pass.release] : HasRun(b)
<1>1. StartRun(t)
  <2>1. PICK u \in Task : StartRun(u)
    BY DEF Next, PassStep, TaskStep, Begin, Suspend, Behind, ObserveRun, AwaitPreviousRun,
           AdoptRun, WriteVerdict, DeleteRefused, ApplyDeployment, WriteStatus,
           Conflict, Drop, Move, Retry, PodStartsLate, JobEnds, JobSucceeds, JobFails,
           JobLost, JobBecomes, EnvSync, EnvWritten, ghosts, vars
  <2>2. started' = [started EXCEPT ![u] = started[u] + 1] /\ started \in [Task -> Nat]
    BY <2>1 DEF StartRun, TypeInv, TypeOK
  <2> QED BY <2>1, <2>2
<1>2. /\ AtTask(t) /\ pass.out = "clear" /\ Busy /\ pass.release \in Release
      /\ pass.pc = "tasks" /\ pass.next \in DOMAIN Declares[pass.release]
      /\ Declares[pass.release][pass.next] = t
  BY <1>1 DEF StartRun, Turn, AtTask, Here, Busy, TypeInv, InTurn
<1>3. newest \in [Task -> NewestType] /\ newest'[t].release = pass.release
  BY <1>1, TypeParts DEF StartRun, World, Created
<1>4. ASSUME NEW b \in Before(pass.release, t) \cap RunsHere[pass.release] PROVE HasRun(b)
  <2>1. PICK k, j \in DOMAIN Declares[pass.release] :
           k < j /\ Declares[pass.release][j] = t /\ b = Declares[pass.release][k]
    BY DEF Before
  <2>2. j = pass.next
    BY <1>2, <2>1, Assumed
  <2> QED BY <1>2, <2>1, <2>2 DEF ClearInv
<1> QED BY <1>2, <1>3, <1>4

-----------------------------------------------------------------------------
(***************************************************************************)
(* A deploy's runs                                                         *)
(***************************************************************************)

\* One deploy runs a task once: where the cache keeps up, no more Jobs of a task
\* are ever created than its deploys, the retries asked for and the Jobs lost
\* account for, whatever conflicts, restarts and refusals come between.
THEOREM OncePerDeploy == Spec => []RunOncePerDeploy
<1>1. RunInv => RunOncePerDeploy
  BY DEF RunInv, OwedInv, OwedAt, RunOncePerDeploy
<1> QED BY <1>1, TypeInit, TypeNext, RunInit, RunNext, PTL DEF Spec

\* Where the cache keeps up, no two runs of a task that every release runs here go
\* at once: the previous deploy's is waited for (advanceDeployTask).
THEOREM OneAtATime == Spec => []OneRunAtATime
<1>1. RunInv => OneRunAtATime
  <2> SUFFICES ASSUME RunInv, ~lagging, NEW t \in Task,
                      \A r \in Release : t \in Needed(r)
               PROVE  Cardinality({n \in 1..MaxRuns : jobs[<<t, n>>] = "running"}) <= 1
    BY DEF OneRunAtATime
  <2> DEFINE S == {n \in 1..MaxRuns : jobs[<<t, n>>] = "running"}
  <2>1. OneAt(t)
    BY DEF RunInv, OneInv, Always
  <2>2. \A m, n \in S : m = n
    BY <2>1 DEF OneAt, Going
  <2> HIDE DEF S
  <2>3. CASE S = {}
    <3>1. Cardinality(S) = 0
      BY <2>3, FS_EmptySet
    <3> QED BY <3>1 DEF S
  <2>4. CASE S # {}
    <3>1. PICK n : n \in S
      BY <2>4
    <3>2. S = {n}
      BY <2>2, <3>1
    <3>3. Cardinality(S) = 1
      BY <3>2, FS_Singleton
    <3> QED BY <3>3 DEF S
  <2> QED BY <2>3, <2>4
<1> QED BY <1>1, TypeInit, TypeNext, RunInit, RunNext, PTL DEF Spec

\* Where the cache keeps up, a release serves only after the latest recorded run of
\* each of its tasks was made for it and succeeded, and starts a task only after the
\* latest recorded run of each one before it did: reconcileDeployTasks before
\* applyDeployment, whatever is moved, retried, lost or dropped in between.
THEOREM InOrder == Spec => EarlierRunsFirst
<1>1. ASSUME TypeInv, LatestInv, [Next]_vars, ~lagging
      PROVE  /\ serving' # serving => \A t \in Needed(serving') \cap Kept :
                   newest[t].recorded => newest[t].ok /\ newest[t].release = serving'
             /\ \A t \in Task : started'[t] # started[t] =>
                   LET r == newest'[t].release
                   IN  \A b \in Before(r, t) \cap RunsHere[r] \cap Kept :
                          newest[b].recorded => newest[b].ok
  <2>1. ClearInv /\ \A t \in Kept : LatestAt(t)
    BY <1>1 DEF LatestInv
  <2>2. ASSUME Busy, NEW t \in Kept, HasRun(t), newest[t].recorded, pass.release \in Release
        PROVE  newest[t].ok /\ newest[t].release = pass.release
    BY <2>1, <2>2, Assumed DEF LatestAt, Vouches, HasRun
  <2>3. ASSUME serving' # serving, NEW t \in Needed(serving') \cap Kept, newest[t].recorded
        PROVE  newest[t].ok /\ newest[t].release = serving'
    BY <1>1, <2>1, <2>2, <2>3, ServesLast
  <2>4. ASSUME NEW t \in Task, started'[t] # started[t],
               NEW b \in Before(newest'[t].release, t) \cap RunsHere[newest'[t].release] \cap Kept,
               newest[b].recorded
        PROVE  newest[b].ok
    <3>1. Busy /\ HasRun(b)
      BY <1>1, <2>1, <2>4, StartsAfter
    <3> QED BY <2>1, <2>4, <3>1 DEF LatestAt, Vouches, HasRun
  <2> QED BY <2>3, <2>4
<1>2. TypeInv /\ LatestInv /\ [Next]_vars =>
         [~lagging =>
             /\ serving' # serving => \A t \in Needed(serving') \cap Kept :
                   newest[t].recorded => newest[t].ok /\ newest[t].release = serving'
             /\ \A t \in Task : started'[t] # started[t] =>
                   LET r == newest'[t].release
                   IN  \A b \in Before(r, t) \cap RunsHere[r] \cap Kept :
                          newest[b].recorded => newest[b].ok]_vars
  BY <1>1
<1> QED BY <1>2, TypeInit, TypeNext, RunInit, RunNext, LatestInit, LatestNext, PTL
        DEF Spec, EarlierRunsFirst

=============================================================================
