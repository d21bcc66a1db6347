------------------------ MODULE PlatformUpdateProofs ------------------------
(***************************************************************************)
(* PlatformUpdate, for any number of updates, versions, restarts and lost  *)
(* writes: one Job to an update, verdicts that are helm's, one helm at a   *)
(* time, and no version below one that succeeded.                          *)
(***************************************************************************)
EXTENDS PlatformUpdate, TLAPS, FiniteSetTheorems

-----------------------------------------------------------------------------
(* Types                                                                   *)

JobState == {"absent", "created", "helm", "applied", "complete", "failed"}

LEMMA TypeStep == TypeOK /\ [Next]_vars => TypeOK'
<1> SUFFICES ASSUME TypeOK, [Next]_vars PROVE TypeOK'
  OBVIOUS
<1> USE DEF TypeOK, JobState
<1>1. Version \subseteq Nat /\ FirstVersion \in Version /\ Update \subseteq Nat
  BY PlatformUpdateAssumption
<1>2. ASSUME Upset PROVE upsets' \in 0..MaxUpsets
  BY <1>2, PlatformUpdateAssumption DEF Upset
<1>3. CASE WriteRunning
  BY <1>3 DEF WriteRunning, Phase, ghosts
<1>4. ASSUME NEW u \in Update, PassOf(u) PROVE TypeOK'
  <2>1. CASE SkipFinished(u)
    BY <2>1 DEF SkipFinished, ghosts
  <2>2. CASE Refuse(u)
    BY <2>2 DEF Refuse, Conclude, Phase, ghosts
  <2>3. CASE Report(u)
    BY <2>3 DEF Report, Conclude, Verdict, Phase, ghosts
  <2>4. CASE AwaitOther(u)
    BY <2>4 DEF AwaitOther, Phase, ghosts
  <2>5. CASE AwaitUnsaid(u)
    BY <1>2, <2>5 DEF AwaitUnsaid, ghosts
  <2>6. CASE Launch(u)
    BY <1>2, <2>6 DEF Launch, ghosts
  <2>7. CASE Poll(u)
    BY <2>7 DEF Poll, Phase, ghosts
  <2> QED BY <1>4, <2>1, <2>2, <2>3, <2>4, <2>5, <2>6, <2>7 DEF PassOf
<1>5. ASSUME NEW u \in Update, NEW v \in Version, Request(u, v) PROVE TypeOK'
  BY <1>5 DEF Request, Phase, ghosts
<1>6. ASSUME NEW u \in Update, CacheSync(u) PROVE TypeOK'
  BY <1>6 DEF CacheSync, ghosts
<1>7. ASSUME NEW u \in Update, HelmStarts(u) PROVE TypeOK'
  BY <1>7 DEF HelmStarts, JobMoves
<1>8. ASSUME NEW u \in Update, HelmApplies(u) PROVE TypeOK'
  BY <1>8 DEF HelmApplies, JobMoves
<1>9. ASSUME NEW u \in Update, HelmEnds(u) PROVE TypeOK'
  BY <1>9 DEF HelmEnds, HelmSucceeds, HelmFails, JobMoves
<1>10. ASSUME NEW u \in Update, JobReaped(u) PROVE TypeOK'
  BY <1>2, <1>10 DEF JobReaped, JobMoves
<1>11. CASE ManagerReplaced \/ ManagerRestarts
  BY <1>2, <1>11 DEF ManagerReplaced, ManagerRestarts, NewLeader, Requested, ghosts
<1>12. CASE UNCHANGED vars
  BY <1>12 DEF vars, ghosts
<1> QED BY <1>3, <1>4, <1>5, <1>6, <1>7, <1>8, <1>9, <1>10, <1>11, <1>12 DEF Next

LEMMA TypeStart == Init => TypeOK
  BY PlatformUpdateAssumption DEF Init, TypeOK, Phase

\* Every object and every history of the platform's upgrades is of its type, whichever
\* manager runs Reconcile and however its cache trails.
THEOREM TypeCorrect == Spec => []TypeOK
  BY TypeStart, TypeStep, PTL DEF Spec
-----------------------------------------------------------------------------
(* The inductive invariant                                                 *)

Live == {"created", "helm", "applied"}

\* Updates are numbered as they come, and of one to come there is nothing.
Unheard ==
    /\ Requested = 1..Cardinality(Requested)
    /\ \A u \in Update : phase[u] = "absent" =>
          /\ seen[u] = "absent" /\ job[u] = "absent" /\ launching # u
          /\ starts[u] = 0 /\ u \notin finished

\* A verdict is final: no Job is made after it, since a pass that still sees the update
\* open has it refused again.
Settled ==
    \A u \in Update : Terminal(phase[u]) =>
        /\ launching # u /\ job[u] \notin Live
        /\ job[u] = "absent" /\ ~Terminal(Cached(u)) => ~Preflight(u)

\* What helm completed is told by the Job or by the verdict, but for a Job nobody read.
Told ==
    \A u \in Update :
        /\ job[u] = "complete" \/ phase[u] = "Succeeded" => u \in finished
        /\ u \notin unread =>
              /\ starts[u] <= 1
              /\ job[u] \in Live \cup {"failed"} \/ phase[u] = "Failed" => u \notin finished
              /\ job[u] = "absent" /\ ~Terminal(phase[u]) => starts[u] = 0 /\ u \notin finished

\* In a calm behaviour the gate sees every Job that is not over.
OneLive ==
    calm =>
        /\ \A u \in Update : job[u] \in Live => phase[u] = "Running" \/ launching = u
        /\ \A u, o \in Update : job[u] \in Live /\ job[o] \in Live => u = o

Done(u) == phase[u] = "Succeeded" \/ job[u] = "complete"

\* Nothing that is there, or that helm goes to or may go back to, is below what an
\* upgrade ended on.
NoneBelow ==
    calm =>
        /\ \A o \in Update : job[o] = "applied" => deployed = spec[o]
        /\ \A u \in Update : Done(u) =>
              /\ spec[u] <= deployed /\ spec[u] <= manager
              /\ \A o \in Update : /\ job[o] \in Live => spec[u] <= spec[o]
                                   /\ InHelm(job[o]) => spec[u] <= from[o]

UpdateInv == TypeOK /\ Unheard /\ Settled /\ Told /\ OneLive /\ NoneBelow
LEMMA InvStart == Init => UpdateInv
<1> SUFFICES ASSUME Init PROVE UpdateInv
  OBVIOUS
<1>1. Requested = {}
  BY DEF Init, Requested
<1>2. Unheard
  BY <1>1, FS_EmptySet, PlatformUpdateAssumption DEF Init, Unheard
<1>3. Settled /\ Told /\ OneLive /\ NoneBelow
  BY DEF Init, Settled, Told, OneLive, NoneBelow, Done, Terminal, Verdict, Live, InHelm
<1> QED BY <1>2, <1>3, TypeStart DEF UpdateInv

\* What asking for an update does to the numbers.
LEMMA RequestCounts ==
    ASSUME TypeOK, Unheard, NEW u \in Update, NEW v \in Version, Request(u, v)
    PROVE  phase[u] = "absent" /\ Requested' = 1..Cardinality(Requested')
<1>1. IsFiniteSet(Requested) /\ Cardinality(Requested) \in Nat
  BY PlatformUpdateAssumption, FS_Subset, FS_CardinalityType DEF Requested
<1> DEFINE n == Cardinality(Requested)
<1>2. u = n + 1 /\ Requested = 1..n
  BY DEF Request, Unheard
<1>3. u \notin Requested
  BY <1>1, <1>2
<1>4. Requested' = Requested \cup {u}
  BY <1>3 DEF Request, Requested, TypeOK
<1>5. Cardinality(Requested') = n + 1
  BY <1>1, <1>3, <1>4, FS_AddElement
<1>6. Requested' = 1..(n + 1)
  BY <1>1, <1>2, <1>4
<1> QED BY <1>3, <1>5, <1>6 DEF Requested

\* Nobody but a request makes an update that was not there.
LEMMA UnheardStep == UpdateInv /\ [Next]_vars => Unheard'
<1> SUFFICES ASSUME UpdateInv, [Next]_vars PROVE Unheard'
  OBVIOUS
<1> USE DEF UpdateInv
<1>1. ASSUME NEW u \in Update, NEW v \in Version, Request(u, v) PROVE Unheard'
  BY <1>1, RequestCounts DEF Request, Unheard, TypeOK, ghosts
<1> DEFINE Kept == \A u \in Update :
              /\ phase'[u] = "absent" <=> phase[u] = "absent"
              /\ phase[u] = "absent" => /\ seen'[u] = "absent" /\ job'[u] = "absent"
                                         /\ launching' # u
                                         /\ starts'[u] = 0 /\ u \notin finished'
<1>2. ASSUME Kept PROVE Unheard'
  <2>1. Requested' = Requested
    BY <1>2 DEF Requested
  <2> QED BY <1>2, <2>1 DEF Unheard
<1> USE DEF Unheard, TypeOK
<1>3. CASE WriteRunning
  <2>1. Kept BY <1>3, PlatformUpdateAssumption DEF WriteRunning, ghosts
  <2> QED BY <1>2, <2>1
<1>4. ASSUME NEW u \in Update, PassOf(u) PROVE Unheard'
  <2>1. CASE SkipFinished(u) \/ AwaitUnsaid(u)
    <3>1. Kept BY <2>1 DEF SkipFinished, AwaitUnsaid, ghosts
    <3> QED BY <1>2, <3>1
  <2>2. CASE Refuse(u) \/ Report(u) \/ AwaitOther(u) \/ Poll(u)
    <3>1. phase[u] # "absent"
      BY <2>2 DEF Refuse, Report, AwaitOther, Gated, Poll, Pass, Cached
    <3>2. Kept
      BY <2>2, <3>1 DEF Refuse, Report, AwaitOther, Poll, Conclude, JobOutcome, ghosts
    <3> QED BY <1>2, <3>2
  <2>3. CASE Launch(u)
    <3>1. phase[u] # "absent"
      BY <2>3 DEF Launch, Pass, Cached
    <3>2. Kept BY <2>3, <3>1 DEF Launch
    <3> QED BY <1>2, <3>2
  <2> QED BY <1>4, <2>1, <2>2, <2>3 DEF PassOf
<1>5. ASSUME NEW u \in Update, CacheSync(u) PROVE Unheard'
  <2>1. Kept BY <1>5 DEF CacheSync, ghosts
  <2> QED BY <1>2, <2>1
<1>6. ASSUME NEW u \in Update, HelmStarts(u) \/ HelmApplies(u) \/ HelmEnds(u) \/ JobReaped(u)
      PROVE  Unheard'
  <2>1. Kept
    BY <1>6 DEF HelmStarts, HelmApplies, HelmEnds, HelmSucceeds, HelmFails, JobReaped, JobMoves
  <2> QED BY <1>2, <2>1
<1>7. CASE ManagerReplaced \/ ManagerRestarts
  <2>1. Kept
    BY <1>7, PlatformUpdateAssumption DEF ManagerReplaced, ManagerRestarts, NewLeader, ghosts
  <2> QED BY <1>2, <2>1
<1>8. CASE UNCHANGED vars
  <2>1. Kept BY <1>8 DEF vars, ghosts
  <2> QED BY <1>2, <2>1
<1> QED BY <1>1, <1>3, <1>4, <1>5, <1>6, <1>7, <1>8 DEF Next
\* A verdict stands: whoever still sees the update open has it refused again.
LEMMA SettledStep == UpdateInv /\ [Next]_vars => Settled'
<1> SUFFICES ASSUME UpdateInv, [Next]_vars, NEW u \in Update, Terminal(phase'[u])
             PROVE  /\ launching' # u /\ job'[u] \notin Live
                    /\ job'[u] = "absent" /\ ~Terminal(Cached(u)') => ~Preflight(u)'
  BY DEF Settled, Cached, Preflight, Terminal, Verdict, Live
<1> DEFINE Stands == /\ launching' # u /\ job'[u] \notin Live
                     /\ job'[u] = "absent" /\ ~Terminal(Cached(u)') => ~Preflight(u)'
<1> USE DEF UpdateInv, TypeOK, Settled, Terminal, Verdict, Live, Cached, Preflight
<1>0. None \notin Update
  BY PlatformUpdateAssumption
<1>1. CASE WriteRunning
  BY <1>0, <1>1 DEF WriteRunning, Current, ghosts
<1>2. ASSUME NEW o \in Update, PassOf(o)
      PROVE  Stands
  <2>1. CASE SkipFinished(o) \/ AwaitUnsaid(o)
    BY <2>1 DEF SkipFinished, AwaitUnsaid, ghosts
  <2>2. CASE Refuse(o)
    BY <1>0, <2>2 DEF Refuse, Conclude, Pass, ghosts
  <2>3. CASE Report(o)
    BY <1>0, <2>3 DEF Report, Conclude, JobOutcome, Pass, ghosts
  <2>4. CASE AwaitOther(o) \/ Poll(o)
    BY <2>4 DEF AwaitOther, Poll, ghosts
  <2>5. CASE Launch(o)
    BY <2>5 DEF Launch, Pass
  <2> QED BY <1>2, <2>1, <2>2, <2>3, <2>4, <2>5 DEF PassOf
<1>3. ASSUME NEW o \in Update, NEW v \in Version, Request(o, v)
      PROVE  Stands
  BY <1>3 DEF Request, ghosts
<1>4. ASSUME NEW o \in Update, CacheSync(o)
      PROVE  Stands
  BY <1>4 DEF CacheSync, ghosts
<1>5. ASSUME NEW o \in Update, HelmStarts(o) \/ HelmApplies(o) \/ HelmEnds(o) \/ JobReaped(o)
      PROVE  Stands
  BY <1>5 DEF HelmStarts, HelmApplies, HelmEnds, HelmSucceeds, HelmFails, JobReaped, JobMoves, Current
<1>6. CASE ManagerReplaced \/ ManagerRestarts
  BY <1>0, <1>6 DEF ManagerReplaced, ManagerRestarts, NewLeader, ghosts
<1>7. CASE UNCHANGED vars
  BY <1>7 DEF vars, ghosts
<1> QED BY <1>1, <1>2, <1>3, <1>4, <1>5, <1>6, <1>7 DEF Next

LEMMA ToldStep == UpdateInv /\ [Next]_vars => Told'
<1> SUFFICES ASSUME UpdateInv, [Next]_vars PROVE Told'
  OBVIOUS
<1> USE DEF UpdateInv, TypeOK, Settled, Told, Terminal, Verdict, Live
<1>1. CASE WriteRunning
  BY <1>1 DEF WriteRunning, ghosts
<1>2. ASSUME NEW o \in Update, PassOf(o) PROVE Told'
  <2>1. CASE SkipFinished(o) \/ AwaitUnsaid(o)
    BY <2>1 DEF SkipFinished, AwaitUnsaid, ghosts
  <2>2. CASE Refuse(o)
    BY <2>2 DEF Refuse, Conclude, Pass, Current, ghosts
  <2>3. CASE Report(o)
    BY <2>3 DEF Report, Conclude, JobOutcome, Pass, ghosts
  <2>4. CASE AwaitOther(o) \/ Poll(o)
    BY <2>4 DEF AwaitOther, Gated, Poll, Pass, Current, ghosts
  <2>5. CASE Launch(o)
    <3>1. ~Terminal(phase[o])
      BY <2>5 DEF Launch, Pass
    <3> QED BY <2>5, <3>1 DEF Launch
  <2> QED BY <1>2, <2>1, <2>2, <2>3, <2>4, <2>5 DEF PassOf
<1>3. ASSUME NEW o \in Update, NEW v \in Version, Request(o, v) PROVE Told'
  BY <1>3, RequestCounts DEF Request, Unheard, ghosts
<1>4. ASSUME NEW o \in Update, CacheSync(o) PROVE Told'
  BY <1>4 DEF CacheSync, ghosts
<1>5. ASSUME NEW o \in Update, HelmStarts(o) \/ HelmApplies(o) PROVE Told'
  BY <1>5 DEF HelmStarts, HelmApplies, JobMoves
<1>6. ASSUME NEW o \in Update, HelmEnds(o) PROVE Told'
  BY <1>6 DEF HelmEnds, HelmSucceeds, HelmFails, JobMoves
<1>7. ASSUME NEW o \in Update, JobReaped(o) PROVE Told'
  BY <1>7 DEF JobReaped, JobMoves
<1>8. CASE ManagerReplaced \/ ManagerRestarts
  BY <1>8 DEF ManagerReplaced, ManagerRestarts, NewLeader, ghosts
<1>9. CASE UNCHANGED vars
  BY <1>9 DEF vars, ghosts
<1> QED BY <1>1, <1>2, <1>3, <1>4, <1>5, <1>6, <1>7, <1>8, <1>9 DEF Next
\* While the gate sees every Job that is not over, it is closed.
LEMMA OneLiveStep == UpdateInv /\ [Next]_vars => OneLive'
<1> SUFFICES ASSUME UpdateInv, [Next]_vars, calm' PROVE OneLive'
  BY DEF OneLive
<1>0. calm
  BY DEF Next, WriteRunning, PassOf, SkipFinished, Refuse, Report, Conclude, AwaitOther, AwaitUnsaid,
     Launch, Poll, Request, CacheSync, HelmStarts, HelmApplies, HelmEnds, HelmSucceeds, HelmFails,
     JobReaped, JobMoves, ManagerReplaced, ManagerRestarts, NewLeader, vars
<1> USE <1>0 DEF UpdateInv, TypeOK, OneLive, Live
<1>1. CASE WriteRunning
  BY <1>1 DEF WriteRunning, Current, Cached, ghosts
<1>2. ASSUME NEW o \in Update, PassOf(o) PROVE OneLive'
  <2>1. CASE SkipFinished(o) \/ AwaitUnsaid(o)
    BY <2>1 DEF SkipFinished, AwaitUnsaid, ghosts
  <2>2. CASE Refuse(o)
    BY <2>2 DEF Refuse, Conclude, ghosts
  <2>3. CASE Report(o)
    BY <2>3 DEF Report, Conclude, JobOutcome, Verdict, ghosts
  <2>4. CASE AwaitOther(o)
    BY <2>4 DEF AwaitOther, Gated, ghosts
  <2>5. CASE Launch(o)
    <3>1. \A u \in Update : job[u] \notin Live
      BY <2>5, PlatformUpdateAssumption DEF Launch, GateClosed, Pass, Cached
    <3> QED BY <2>5, <3>1 DEF Launch
  <2>6. CASE Poll(o)
    BY <2>6 DEF Poll, ghosts
  <2> QED BY <1>2, <2>1, <2>2, <2>3, <2>4, <2>5, <2>6 DEF PassOf
<1>3. ASSUME NEW o \in Update, NEW v \in Version, Request(o, v) PROVE OneLive'
  BY <1>3, RequestCounts DEF Request, Unheard, ghosts
<1>4. ASSUME NEW o \in Update, CacheSync(o) PROVE OneLive'
  BY <1>4 DEF CacheSync
<1>5. ASSUME NEW o \in Update, HelmStarts(o) \/ HelmApplies(o) \/ HelmEnds(o) \/ JobReaped(o)
      PROVE  OneLive'
  BY <1>5 DEF HelmStarts, HelmApplies, HelmEnds, HelmSucceeds, HelmFails, JobReaped, JobMoves
<1>6. CASE ManagerReplaced \/ ManagerRestarts
  BY <1>6, PlatformUpdateAssumption DEF ManagerReplaced, ManagerRestarts, NewLeader, ghosts
<1>7. CASE UNCHANGED vars
  BY <1>7 DEF vars, ghosts
<1> QED BY <1>1, <1>2, <1>3, <1>4, <1>5, <1>6, <1>7 DEF Next

\* A helm that ends leaves the manager at what it put there, and the next one goes higher.
LEMMA NoneBelowStep == UpdateInv /\ [Next]_vars => NoneBelow'
<1> SUFFICES ASSUME UpdateInv, [Next]_vars, calm' PROVE NoneBelow'
  BY DEF NoneBelow
<1>0. calm
  BY DEF Next, WriteRunning, PassOf, SkipFinished, Refuse, Report, Conclude, AwaitOther, AwaitUnsaid,
     Launch, Poll, Request, CacheSync, HelmStarts, HelmApplies, HelmEnds, HelmSucceeds, HelmFails,
     JobReaped, JobMoves, ManagerReplaced, ManagerRestarts, NewLeader, vars
<1>00. Version \subseteq Nat
  BY PlatformUpdateAssumption
<1> USE <1>0, <1>00 DEF UpdateInv, TypeOK, NoneBelow, Done, InHelm, Live
<1>1. CASE WriteRunning
  BY <1>1 DEF WriteRunning, ghosts
<1>2. ASSUME NEW o \in Update, PassOf(o) PROVE NoneBelow'
  <2>1. CASE SkipFinished(o) \/ AwaitUnsaid(o)
    BY <2>1 DEF SkipFinished, AwaitUnsaid, ghosts
  <2>2. CASE Refuse(o)
    BY <2>2 DEF Refuse, Conclude, ghosts
  <2>3. CASE Report(o)
    BY <2>3 DEF Report, Conclude, JobOutcome, Verdict, ghosts
  <2>4. CASE AwaitOther(o) \/ Poll(o)
    BY <2>4 DEF AwaitOther, Poll, ghosts
  <2>5. CASE Launch(o)
    <3>1. /\ job' = [job EXCEPT ![o] = "created"]
          /\ UNCHANGED <<spec, phase, from, deployed, manager>>
      BY <2>5 DEF Launch
    <3>2. \A u \in Update : Done(u)' => Done(u)
      BY <3>1
    <3>3. \A u \in Update : Done(u) => spec[u] <= spec[o]
      <4>1. spec[o] \in Nat /\ manager \in Nat /\ spec[o] > manager
        BY <2>5 DEF Launch, Preflight
      <4>2. ASSUME NEW u \in Update, Done(u) PROVE spec[u] \in Nat /\ spec[u] <= manager
        BY <4>2
      <4> QED BY <4>1, <4>2
    <3> QED BY <3>1, <3>2, <3>3
  <2> QED BY <1>2, <2>1, <2>2, <2>3, <2>4, <2>5 DEF PassOf
<1>3. ASSUME NEW o \in Update, NEW v \in Version, Request(o, v) PROVE NoneBelow'
  BY <1>3, RequestCounts DEF Request, Unheard, ghosts
<1>4. ASSUME NEW o \in Update, CacheSync(o) PROVE NoneBelow'
  BY <1>4 DEF CacheSync
<1>5. ASSUME NEW o \in Update, HelmStarts(o) PROVE NoneBelow'
  BY <1>5 DEF HelmStarts, JobMoves
<1>6. ASSUME NEW o \in Update, HelmApplies(o) PROVE NoneBelow'
  BY <1>6 DEF HelmApplies, JobMoves, OneLive
<1>7. ASSUME NEW o \in Update, HelmSucceeds(o) PROVE NoneBelow'
  BY <1>7 DEF HelmSucceeds, JobMoves, OneLive
<1>8. ASSUME NEW o \in Update, HelmFails(o) PROVE NoneBelow'
  BY <1>8 DEF HelmFails, JobMoves, OneLive
<1>9. ASSUME NEW o \in Update, JobReaped(o) PROVE NoneBelow'
  BY <1>9 DEF JobReaped, JobMoves
<1>10. CASE ManagerReplaced \/ ManagerRestarts
  BY <1>10 DEF ManagerReplaced, ManagerRestarts, NewLeader, ghosts
<1>11. CASE UNCHANGED vars
  BY <1>11 DEF vars, ghosts
<1> QED BY <1>1, <1>2, <1>3, <1>4, <1>5, <1>6, <1>7, <1>8, <1>9, <1>10, <1>11 DEF Next, HelmEnds

LEMMA InvStep == UpdateInv /\ [Next]_vars => UpdateInv'
  BY TypeStep, UnheardStep, SettledStep, ToldStep, OneLiveStep, NoneBelowStep DEF UpdateInv

-----------------------------------------------------------------------------
\* VerdictsAreHelms, for every instance: jobOutcome read by whichever manager is there
\* tells what helm did, unless the Job was reaped before any of them read it.
THEOREM VerdictsHold == Spec => []VerdictsAreHelms
<1>1. UpdateInv => VerdictsAreHelms
  BY DEF UpdateInv, Told, VerdictsAreHelms
<1> QED BY <1>1, InvStart, InvStep, PTL DEF Spec

\* OneHelmAtATime, for every instance: selfUpdateJobName gives an update one Job through
\* restarts, and gateConcurrentUpdates lets one helm at a time write the release.
THEOREM HelmAlone == Spec => []OneHelmAtATime
<1>1. UpdateInv => OneHelmAtATime
  <2> SUFFICES ASSUME UpdateInv PROVE OneHelmAtATime
    OBVIOUS
  <2> DEFINE S == {u \in Update : InHelm(job[u])}
  <2>1. ASSUME calm PROVE Cardinality(S) <= 1
    <3>1. \A u, o \in S : u = o
      BY <2>1 DEF UpdateInv, OneLive, Live, InHelm
    <3>2. S = {} \/ \E u : S = {u}
      BY <3>1
    <3>3. Cardinality(S) = 0 \/ Cardinality(S) = 1
      BY <3>2, FS_EmptySet, FS_Singleton, Zenon
    <3> QED BY <3>3
  <2> QED BY <2>1 DEF UpdateInv, Told, OneHelmAtATime
<1> QED BY <1>1, InvStart, InvStep, PTL DEF Spec

\* SuccessStays, for every instance: preflight and the gate together keep a later, a
\* queued or a rolled back upgrade from ending below one that succeeded.
THEOREM NeverTakenBack == Spec => []SuccessStays
<1>1. UpdateInv => SuccessStays
  BY PlatformUpdateAssumption DEF UpdateInv, TypeOK, NoneBelow, Done, SuccessStays
<1> QED BY <1>1, InvStart, InvStep, PTL DEF Spec
=============================================================================
