---------------------------- MODULE AddonProofs ----------------------------
(***************************************************************************)
(* Proofs about an entry of the addon catalogue.  Whose a release is, is   *)
(* kept in two places at different times: in a finished Job for an hour,   *)
(* and in the status from the pass that read the Job on.  CalmInv says how *)
(* the hand-over goes right: while the Job is there it names the version   *)
(* in the cluster, and once it may go, or the pins may move on, the status *)
(* says the same.                                                          *)
(***************************************************************************)
EXTENDS Addon, TLAPS

-----------------------------------------------------------------------------
(* The inductive invariant                                                 *)

\* A release belongs to somebody, and somebody else's was never the platform's.
Theirs ==
    /\ owner = "none" <=> level = "none"
    /\ owner = "them" => NoJobs /\ ~managed

\* Installing is for an Addon that is there, at this operator's pins, and is never
\* left half way; uninstalling is for one being deleted, and leaves nothing.
JobsFit ==
    /\ \A v \in Version : install[v] = "running" => addon = "live" /\ v = pin
    /\ install[pin] = "complete" => newest = pin
    /\ uninstall # "absent" => addon # "live"
    /\ uninstall = "running" => addon = "deleting" /\ managed
    /\ uninstall = "complete" => owner = "none"

\* What is the platform's while its Addon is there: whole or being installed, and
\* known by the Job, or by the status once the Job may be gone.
Known ==
    addon = "live" =>
        /\ managed => owner = "us" /\ level = "full"
        /\ owner = "us" => level = "full" \/ install[pin] = "running"
        /\ Evidence # None => owner = "us" /\ level = "full" /\ version = Evidence
        /\ owner = "us" /\ level = "full" /\ Evidence \in {None} \cup (Version \ {pin}) =>
               managed /\ charts = version /\ version # None

\* What is left of it once its Addon is deleted.
Leaving ==
    /\ addon = "deleting" /\ owner = "us" => managed
    /\ addon = "absent" => owner # "us" /\ ~managed

CalmInv == calm => Theirs /\ JobsFit /\ Known /\ Leaving /\ ~trespassed

-----------------------------------------------------------------------------
(* Types                                                                   *)

LEMMA TypeStart == Init => TypeOK
<1> SUFFICES ASSUME Init PROVE TypeOK
  OBVIOUS
<1>1. granted \in BOOLEAN /\ asks \in BOOLEAN
  BY Zenon DEF Init
<1>2. pair \in BOOLEAN /\ calm \in BOOLEAN
  BY AddonAssumption, Zenon DEF Init
<1>3. install \in [Version -> JobState] /\ upsets \in 0..MaxUpsets
  BY AddonAssumption DEF Init, JobState
<1> QED BY <1>1, <1>2, <1>3 DEF Init, TypeOK, JobState

LEMMA EvidenceTyped == ASSUME TypeOK PROVE Evidence \in Version \cup {None}
  BY DEF TypeOK, Evidence

\* What a pass writes is well typed.
LEMMA PlanTyped ==
    ASSUME TypeOK
    PROVE  /\ Plan.managed \in BOOLEAN /\ Plan.serving \in BOOLEAN
           /\ Plan.charts \in Version \cup {None}
           /\ Records \in [Version -> {"none", "Running", "Succeeded", "Failed"}]
<1>1. Owned \in Version \cup {None}
  BY EvidenceTyped DEF Owned, TypeOK
<1>2. ASSUME install[pin] # "absent"
      PROVE  Followed(install[pin]) \in {"none", "Running", "Succeeded", "Failed"}
  BY <1>2 DEF TypeOK, JobState, Finished, Followed
<1>3. Records \in [Version -> {"none", "Running", "Succeeded", "Failed"}]
  BY <1>2 DEF TypeOK, Records
<1>4. /\ Plan.managed \in BOOLEAN /\ Plan.serving \in BOOLEAN
      /\ Plan.charts \in Version \cup {None}
  BY <1>1 DEF Plan, Status, Unchanged, TypeOK
<1> QED BY <1>3, <1>4

LEMMA TypeStep == TypeOK /\ [Next]_vars => TypeOK'
<1> SUFFICES ASSUME TypeOK, [Next]_vars PROVE TypeOK'
  OBVIOUS
<1> USE DEF object, status, world, jobs, cluster, kind
<1>1. ASSUME Upset PROVE upsets' \in 0..MaxUpsets
  BY <1>1, AddonAssumption DEF Upset, TypeOK
<1>2. CASE Pass
  <2>1. trespassed' \in BOOLEAN
    BY <1>2, Zenon
       DEF Pass, Settle, StartInstall, ReleaseTheirs, StartUninstall, ReleaseOurs, Gone, TypeOK
  <2>2. CASE Settle
    BY <2>1, <2>2, PlanTyped DEF Settle, TypeOK
  <2>3. CASE StartInstall \/ StartUninstall
    BY <2>1, <2>3 DEF StartInstall, StartUninstall, TypeOK, JobState
  <2>4. CASE ReleaseTheirs \/ ReleaseOurs
    BY <2>1, <2>4 DEF ReleaseTheirs, ReleaseOurs, Gone, TypeOK
  <2> QED BY <1>2, <2>2, <2>3, <2>4 DEF Pass
<1>3. CASE HelmEnds
  BY <1>1, <1>3
     DEF HelmEnds, HelmInstalls, InstallCompletes, InstallFails, HelmUninstalls,
         UninstallCompletes, UninstallFails, TypeOK, JobState, Finished
<1>4. CASE Reap
  BY <1>4 DEF Reap, UninstallReaped, InstallReaped, TypeOK, JobState
<1>5. CASE \E b \in BOOLEAN : CreateAddon(b)
  BY <1>1, <1>5 DEF CreateAddon, TypeOK
<1>6. CASE PatchAddon \/ DeleteAddon \/ GrantChanges \/ DependentsChange
  <2>1. asks' \in BOOLEAN /\ granted' \in BOOLEAN /\ dependents' \in BOOLEAN
    BY <1>6, Zenon
       DEF PatchAddon, DeleteAddon, GrantChanges, DependentsChange, TypeOK
  <2> QED BY <1>1, <1>6, <2>1
          DEF PatchAddon, DeleteAddon, GrantChanges, DependentsChange, TypeOK
<1>7. CASE \E v \in Version : PinMoves(v)
  BY <1>1, <1>7 DEF PinMoves, TypeOK
<1>8. CASE \E much \in {"half", "full"} : TheyInstall(much)
  BY <1>1, <1>8 DEF TheyInstall, TypeOK
<1>9. CASE UNCHANGED vars
  BY <1>9 DEF vars, TypeOK
<1> QED BY <1>2, <1>3, <1>4, <1>5, <1>6, <1>7, <1>8, <1>9 DEF Next

\* TypeOK, for every set of pins and any number of upsets.
THEOREM TypeCorrect == Spec => []TypeOK
  BY TypeStart, TypeStep, PTL DEF Spec

-----------------------------------------------------------------------------
(* What a pass does to the status                                          *)

\* Once there is nothing left to write, the status says what the Job said, unless an
\* upgrade has yet to start: that one was said when the pins moved.
LEMMA QuietKnows ==
    ASSUME TypeOK, calm, Theirs, JobsFit, Known, addon = "live", Quiet,
           owner = "us", level = "full"
    PROVE  managed /\ charts = version /\ version # None
<1>1. CASE Evidence = None \/ Evidence # pin
  BY <1>1, EvidenceTyped DEF Known
<1>2. CASE Evidence = pin /\ Evidence # None
  <2>1. Settled /\ ~NotOurs /\ version = Evidence
    BY <1>2 DEF Settled, NotOurs, VersionsMoved, Owned, Served, Known
  <2>2. Plan = Status(TRUE, TRUE, Evidence)
    BY <1>2, <2>1 DEF Plan, Owned
  <2> QED BY <1>2, <2>1, <2>2 DEF Quiet, Unchanged, Status
<1> QED BY <1>1, <1>2

\* A pass says that an entry is the platform's when it is, at the version it has.
LEMMA PlanKnows ==
    ASSUME TypeOK, calm, Theirs, JobsFit, Known, addon = "live"
    PROVE  /\ Plan.managed => owner = "us" /\ level = "full"
           /\ owner = "us" /\ level = "full" /\ Evidence \in {None} \cup (Version \ {pin}) =>
                  Plan.managed /\ Plan.charts = version /\ version # None
<1>1. CASE NotOurs
  <2>1. ~(owner = "us" /\ level = "full")
    BY <1>1 DEF NotOurs, Owned, Known
  <2>2. ~Plan.managed
    BY <1>1 DEF Plan, Status
  <2> QED BY <2>1, <2>2
<1>2. CASE ~NotOurs /\ Settled
  <2>1. Plan.managed /\ Plan.charts = Owned
    BY <1>2 DEF Plan, Status
  <2>2. owner = "us" /\ level = "full" /\ Owned = version /\ Owned # None
    BY <1>2, EvidenceTyped DEF Settled, Owned, Known
  <2> QED BY <2>1, <2>2
<1>3. CASE ~NotOurs /\ ~Settled /\ ToInstall /\ install[pin] = "complete"
  <2>1. Evidence = pin /\ pin # None
    BY <1>3, AddonAssumption DEF JobsFit, Evidence, TypeOK
  <2> QED BY <2>1 DEF Known
<1>4. CASE ~NotOurs /\ ~Settled /\ ~(ToInstall /\ install[pin] = "complete")
  <2>1. Plan.managed = managed /\ Plan.charts = charts
    BY <1>4 DEF Plan, Unchanged, Status
  <2> QED BY <2>1 DEF Known
<1> QED BY <1>1, <1>2, <1>3, <1>4

-----------------------------------------------------------------------------
(* Whose it is                                                             *)

LEMMA CalmStart == Init => CalmInv
<1> SUFFICES ASSUME Init PROVE CalmInv
  OBVIOUS
<1>1. Evidence = None
  BY DEF Init, Evidence
<1> QED BY <1>1 DEF Init, CalmInv, Theirs, JobsFit, Known, Leaving, NoJobs

LEMMA CalmStep == TypeOK /\ CalmInv /\ [Next]_vars => CalmInv'
<1> SUFFICES ASSUME TypeOK, CalmInv, [Next]_vars, calm'
             PROVE  (Theirs /\ JobsFit /\ Known /\ Leaving /\ ~trespassed)'
  BY DEF CalmInv
<1>0. calm /\ Theirs /\ JobsFit /\ Known /\ Leaving /\ ~trespassed
  BY DEF CalmInv, Next, Pass, HelmEnds, Reap, Settle, StartInstall, ReleaseTheirs,
         StartUninstall, ReleaseOurs, Gone, HelmInstalls, InstallCompletes, InstallFails,
         HelmUninstalls, UninstallCompletes, UninstallFails, InstallReaped, UninstallReaped,
         CreateAddon, PatchAddon, DeleteAddon, GrantChanges, PinMoves, DependentsChange,
         TheyInstall, kind, vars
<1> USE <1>0 DEF object, status, world, jobs, cluster, kind, Theirs, JobsFit, Known, Leaving,
                 NoJobs
<1>1. CASE Settle
  <2>1. Evidence' = Evidence
    BY <1>1 DEF Settle, Evidence
  <2>2. owner = "them" => ~Plan.managed
    BY <1>1, PlanKnows DEF Settle
  <2> QED BY <1>1, <2>1, <2>2, PlanKnows DEF Settle
<1>2. CASE StartInstall
  <2>1. Evidence' = Evidence
    BY <1>2 DEF StartInstall, JobMissing, Evidence, TypeOK
  <2>2. owner # "them"
    <3> SUFFICES ASSUME owner = "them" PROVE FALSE
      OBVIOUS
    <3>1. Owned = None
      BY <1>2, EvidenceTyped DEF StartInstall, JobMissing, Owned, Evidence, TypeOK
    <3>2. Served \/ PartlyServed
      BY DEF Served, PartlyServed, TypeOK
    <3> QED BY <1>2, <3>1, <3>2 DEF StartInstall, JobMissing, ToInstall, NotOurs
  <2> QED BY <1>2, <2>1, <2>2 DEF StartInstall, JobMissing, TypeOK
<1>3. CASE ReleaseTheirs \/ ReleaseOurs
  BY <1>3 DEF ReleaseTheirs, ReleaseOurs, Finalizing, Gone, TypeOK
<1>4. CASE StartUninstall
  BY <1>4 DEF StartUninstall, Finalizing, TypeOK
<1>5. ASSUME NEW v \in Version, HelmInstalls(v)
      PROVE  (Theirs /\ JobsFit /\ Known /\ Leaving /\ ~trespassed)'
  <2>1. Evidence = None /\ Evidence' = None
    BY <1>5 DEF HelmInstalls, Evidence
  <2> QED BY <1>5, <2>1 DEF HelmInstalls, TypeOK
<1>6. ASSUME NEW v \in Version, InstallCompletes(v)
      PROVE  (Theirs /\ JobsFit /\ Known /\ Leaving /\ ~trespassed)'
  <2>1. v = pin /\ Evidence' = v /\ v # None
    BY <1>6, AddonAssumption DEF InstallCompletes, Evidence, TypeOK
  <2>2. owner = "us"
    BY <1>6 DEF InstallCompletes, TypeOK
  <2> QED BY <1>6, <2>1, <2>2 DEF InstallCompletes, TypeOK
<1>7. ASSUME NEW v \in Version, InstallFails(v)
      PROVE  (Theirs /\ JobsFit /\ Known /\ Leaving /\ ~trespassed)'
  <2>1. Evidence' = Evidence
    BY <1>7 DEF InstallFails, Evidence, TypeOK
  <2> QED BY <1>7, <2>1 DEF InstallFails, TypeOK
<1>8. CASE HelmUninstalls \/ UninstallCompletes \/ UninstallFails
  BY <1>8 DEF HelmUninstalls, UninstallCompletes, UninstallFails, TypeOK
<1>9. CASE UninstallReaped
  <2>1. Evidence' = Evidence
    BY <1>9 DEF UninstallReaped, Evidence
  <2> QED BY <1>9, <2>1 DEF UninstallReaped
<1>10. ASSUME NEW v \in Version, InstallReaped(v)
       PROVE  (Theirs /\ JobsFit /\ Known /\ Leaving /\ ~trespassed)'
  <2>1. addon = "live" /\ owner = "us" /\ level = "full" =>
            managed /\ charts = version /\ version # None
    BY <1>10, QuietKnows DEF InstallReaped
  <2>2. Evidence' \in {None, Evidence}
    BY <1>10 DEF InstallReaped, Evidence, TypeOK
  <2>3. install[pin] = "running" => install'[pin] = "running"
    BY <1>10 DEF InstallReaped, Finished, TypeOK
  <2> QED BY <1>10, <2>1, <2>2, <2>3 DEF InstallReaped, Finished, TypeOK
<1>11. CASE \E b \in BOOLEAN : CreateAddon(b)
  <2>1. Evidence' = None
    BY <1>11 DEF CreateAddon, Evidence, TypeOK
  <2> QED BY <1>11, <2>1 DEF CreateAddon, TypeOK
<1>12. CASE PatchAddon \/ GrantChanges \/ DependentsChange
  <2>1. Evidence' = Evidence
    BY <1>12 DEF PatchAddon, GrantChanges, DependentsChange, Evidence
  <2> QED BY <1>12, <2>1 DEF PatchAddon, GrantChanges, DependentsChange
<1>13. CASE DeleteAddon
  <2>1. owner = "us" => level = "full"
    BY <1>13 DEF DeleteAddon, NoInstall, TypeOK
  <2> QED BY <1>13, <2>1, QuietKnows DEF DeleteAddon, NoInstall
<1>14. ASSUME NEW v \in Version, PinMoves(v)
       PROVE  (Theirs /\ JobsFit /\ Known /\ Leaving /\ ~trespassed)'
  <2>1. addon = "live" /\ owner = "us" =>
            level = "full" /\ managed /\ charts = version /\ version # None
    BY <1>14, QuietKnows DEF PinMoves, NoInstall, TypeOK
  <2>2. Evidence' = Evidence
    BY <1>14 DEF PinMoves, Evidence
  <2> QED BY <1>14, <2>1, <2>2 DEF PinMoves, NoInstall, TypeOK
<1>15. CASE \E much \in {"half", "full"} : TheyInstall(much)
  <2>1. Evidence = None /\ Evidence' = None
    BY <1>15 DEF TheyInstall, Evidence, TypeOK
  <2> QED BY <1>15, <2>1 DEF TheyInstall, TypeOK
<1>16. CASE UNCHANGED vars
  BY <1>16 DEF vars, Evidence
<1> QED BY <1>1, <1>2, <1>3, <1>4, <1>5, <1>6, <1>7, <1>8, <1>9, <1>10, <1>11, <1>12,
           <1>13, <1>14, <1>15, <1>16 DEF Next, Pass, HelmEnds, Reap

\* OwnAndOnlyOwn, for every instance: planAddon and finalize never write to a release
\* the platform did not create, and finalize removes what it did create.
THEOREM HandsOff == Spec => []OwnAndOnlyOwn
<1>1. CalmInv => OwnAndOnlyOwn
  BY DEF CalmInv, Leaving, OwnAndOnlyOwn
<1> QED BY <1>1, TypeStart, TypeStep, CalmStart, CalmStep, PTL DEF Spec

\* OursKnown, for every instance: what the finished install Job said is in the status
\* by the time the Job is reaped.
THEOREM NothingForgotten == Spec => []OursKnown
<1>1. TypeOK /\ CalmInv => OursKnown
  <2> SUFFICES ASSUME TypeOK, CalmInv, calm, addon = "live", NoJobs, owner = "us", level = "full"
               PROVE  managed /\ charts = version
    BY DEF OursKnown
  <2>1. Evidence = None
    BY DEF NoJobs, Evidence, TypeOK
  <2> QED BY <2>1 DEF CalmInv, Known
<1> QED BY <1>1, TypeStart, TypeStep, CalmStart, CalmStep, PTL DEF Spec

-----------------------------------------------------------------------------
(* The history of its upgrades                                             *)

\* MovesAreRecorded, for every instance, calm or not: recordUpgrade runs before the
\* pass that writes the new version into the status.
THEOREM HistoryComplete == Spec => MovesAreRecorded
<1>1. TypeOK /\ [Next]_vars =>
        [asks /\ granted /\ charts # None /\ charts' \notin {charts, None} =>
            record'[charts'] = "Succeeded"]_vars
  <2> SUFFICES ASSUME TypeOK, Next, asks, granted, charts # None, charts' \notin {charts, None}
               PROVE  record'[charts'] = "Succeeded"
    OBVIOUS
  <2>1. Settle
    BY DEF Next, Pass, HelmEnds, Reap, StartInstall, ReleaseTheirs,
           StartUninstall, ReleaseOurs, Gone, HelmInstalls, InstallCompletes, InstallFails,
           HelmUninstalls, UninstallCompletes, UninstallFails, InstallReaped, UninstallReaped,
           CreateAddon, PatchAddon, DeleteAddon, GrantChanges, PinMoves, DependentsChange,
           TheyInstall, object, status
  <2>2. charts' = Plan.charts /\ record' = Records
    BY <2>1 DEF Settle
  <2>3. Plan.charts = pin /\ install[pin] = "complete"
    <3>1. CASE NotOurs
      BY <2>2, <3>1 DEF Plan, Status
    <3>2. CASE ~NotOurs /\ Settled
      <4>1. Plan.charts = Owned /\ Owned = pin
        BY <3>2 DEF Plan, Status, Settled, VersionsMoved
      <4> QED BY <2>2, <4>1 DEF Owned, Evidence
    <3>3. CASE ~NotOurs /\ ~Settled /\ ToInstall /\ install[pin] = "complete"
      BY <3>3 DEF Plan, Status
    <3>4. CASE ~NotOurs /\ ~Settled /\ ~(ToInstall /\ install[pin] = "complete")
      BY <2>2, <3>4 DEF Plan, Unchanged, Status
    <3> QED BY <3>1, <3>2, <3>3, <3>4
  <2>4. Records = [record EXCEPT ![pin] = "Succeeded"]
    BY <2>2, <2>3 DEF Records, Followed
  <2> QED BY <2>2, <2>3, <2>4 DEF TypeOK
<1> QED BY <1>1, TypeStart, TypeStep, PTL DEF Spec, MovesAreRecorded
=============================================================================
