------------------------------- MODULE Addon -------------------------------
(***************************************************************************)
(* One entry of the addon catalogue: a dependency of the platform (KEDA,   *)
(* CloudNativePG) that the platform installs if it is asked to and allowed *)
(* to, and leaves alone if somebody else installed it.                     *)
(*                                                                         *)
(* Whose a release is, no field of the release says.  It is the platform's *)
(* if an install Job of the platform's completed, for the hour such a Job  *)
(* is kept, and after that if status.managed says so.  The uninstall Job   *)
(* is kept as long.  helm runs in those Jobs and is not undone when it     *)
(* fails.  One worker takes the Addon, and a pass is one step: nobody else *)
(* writes what it writes, and what it reads late, the next pass reads.     *)
(*                                                                         *)
(* A calm behaviour is one where helm fails to install only before it has  *)
(* applied anything, no install is going on when the Addon is deleted or   *)
(* the pins move, the pins never move back to those of a Job still there,  *)
(* and a deleted Addon is asked for again, or its entry installed by       *)
(* somebody, only after the Jobs of the last one are gone.                 *)
(***************************************************************************)
EXTENDS Integers, FiniteSets

CONSTANTS
    Version,    \* the pins of successive operators
    Pair,       \* does the entry install two charts: the choices explored
    Calm,       \* the kinds of behaviour explored
    MaxUpsets   \* bound on what users, operators' upgrades and failures do

None == 0   \* no version

ASSUME AddonAssumption ==
    /\ Version \subseteq Nat \ {None} /\ Version # {} /\ IsFiniteSet(Version)
    /\ Pair \subseteq BOOLEAN /\ Calm \subseteq BOOLEAN /\ MaxUpsets \in Nat

VARIABLES
    addon,      \* the Addon object
    asks,       \* spec.install
    managed, serving, charts,   \* status
    granted,    \* has the chart given the operator an account to install with
    pin,        \* the version this operator installs
    dependents, \* does a connection or a claim provision through the entry
    install,    \* the install Job of each version
    newest,     \* the version whose install Job completed last
    uninstall,  \* the uninstall Job
    level,      \* how much of the entry is in the cluster
    owner,      \* whose that is
    version,    \* the version of it, once helm is through
    record,     \* the AddonUpgrade of each install Job
    pair, calm, \* the kind of entry and of behaviour
    upsets,     \* what happened so far
    trespassed  \* history: the platform wrote to a release it did not create

status  == <<managed, serving, charts>>
object  == <<addon, asks, status>>
cluster == <<level, owner, version>>
jobs    == <<install, newest, uninstall>>
world   == <<granted, pin, dependents>>
kind    == <<pair, calm>>
vars    == <<object, world, jobs, cluster, record, kind, upsets, trespassed>>

-----------------------------------------------------------------------------
(***************************************************************************)
(* What a pass reads                                                       *)
(***************************************************************************)
Finished == {"complete", "failed"}

\* The entry's own API answers; of a pair, that of the chart that goes in last.
Served == level = "full" \/ (~pair /\ level = "half")
\* KEDA is there without its add-on.
PartlyServed == pair /\ level = "half"

\* Mutant: the completed Job is not asked.
EvidenceForgotten == None

\* The version the newest completed install Job says it installed.
Evidence == IF newest # None /\ install[newest] = "complete" THEN newest ELSE None

\* The Job first, and the status once there is no Job left to read.
Owned == IF Evidence # None THEN Evidence ELSE IF managed THEN charts ELSE None

Status(m, s, c) == [managed |-> m, serving |-> s, charts |-> c]
Unchanged == Status(managed, serving, charts)

\* Mutant: what was installed once is never carried forward.
DriftIgnored == asks /\ granted /\ charts = None

VersionsMoved == asks /\ granted /\ Owned # pin
NotOurs   == Served /\ Owned = None
Settled   == Served /\ Owned # None /\ ~VersionsMoved

\* Mutant: a cluster that serves half the pair is installed over.
ToInstallOver == ~NotOurs /\ ~Settled /\ asks /\ granted

\* Everything else was ruled out: nobody else's, not in place, asked for, allowed.
ToInstall == ~NotOurs /\ ~Settled /\ asks /\ granted /\ ~(PartlyServed /\ Owned = None)

\* What a pass writes into the status; the Job's progress is a condition only.
Plan ==
    IF NotOurs THEN Status(FALSE, TRUE, charts)
    ELSE IF Settled THEN Status(TRUE, TRUE, Owned)
    ELSE IF ToInstall /\ install[pin] = "complete" THEN Status(TRUE, TRUE, pin)
    ELSE Unchanged

\* The record of an upgrade follows the Job that carries it, and is opened, before
\* the status says anything new, for a Job that moves the entry between versions.
Followed(job) ==
    [running |-> "Running", complete |-> "Succeeded", failed |-> "Failed"][job]

\* Mutant: the status is compared after it says the new version.
RecordsAfter ==
    IF asks /\ granted /\ install[pin] # "absent"
       /\ (record[pin] # "none" \/ (charts # None /\ Plan.charts # pin))
    THEN [record EXCEPT ![pin] = Followed(install[pin])] ELSE record

Records ==
    IF asks /\ granted /\ install[pin] # "absent"
       /\ (record[pin] # "none" \/ (charts # None /\ charts # pin))
    THEN [record EXCEPT ![pin] = Followed(install[pin])] ELSE record

JobMissing == ToInstall /\ install[pin] = "absent"

Quiet == Plan = Unchanged /\ Records = record

-----------------------------------------------------------------------------
(***************************************************************************)
(* A pass over an Addon that is there                                      *)
(***************************************************************************)

Settle ==
    /\ addon = "live" /\ ~Quiet
    /\ managed' = Plan.managed /\ serving' = Plan.serving /\ charts' = Plan.charts
    /\ record' = Records
    /\ UNCHANGED <<addon, asks, world, jobs, cluster, kind, upsets, trespassed>>

\* The install Job is named after the versions it installs.
StartInstall ==
    /\ addon = "live" /\ JobMissing
    /\ install' = [install EXCEPT ![pin] = "running"]
    /\ record' = [record EXCEPT ![pin] = "none"]
    /\ trespassed' = (trespassed \/ owner = "them")
    /\ UNCHANGED <<object, world, newest, uninstall, cluster, kind, upsets>>

-----------------------------------------------------------------------------
(***************************************************************************)
(* A pass over an Addon that is being deleted                              *)
(***************************************************************************)
Finalizing == addon = "deleting" /\ ~dependents

Gone ==
    /\ addon' = "absent"
    /\ managed' = FALSE /\ serving' = FALSE /\ charts' = None
    /\ UNCHANGED <<asks, world, jobs, cluster, record, kind, upsets, trespassed>>

\* A release the platform did not create is not the platform's to remove.
ReleaseTheirs == Finalizing /\ ~managed /\ Gone

StartUninstall ==
    /\ Finalizing /\ managed /\ granted
    /\ uninstall = "absent"
    /\ uninstall' = "running"
    /\ trespassed' = (trespassed \/ owner = "them")
    /\ UNCHANGED <<object, world, install, newest, cluster, record, kind, upsets>>

\* The uninstall Job of this entry completed.
ReleaseOurs == Finalizing /\ managed /\ uninstall = "complete" /\ Gone

-----------------------------------------------------------------------------
(***************************************************************************)
(* The Jobs                                                                *)
(***************************************************************************)
HelmInstalls(v) ==
    /\ install[v] = "running" /\ level = "none"
    /\ level' = "half" /\ owner' = "us" /\ version' = None
    /\ UNCHANGED <<object, world, jobs, record, kind, upsets, trespassed>>

InstallCompletes(v) ==
    /\ install[v] = "running" /\ level # "none"
    /\ level' = "full" /\ version' = IF owner = "us" THEN v ELSE version
    /\ install' = [install EXCEPT ![v] = "complete"] /\ newest' = v
    /\ UNCHANGED <<object, world, uninstall, owner, record, kind, upsets, trespassed>>

Upset == upsets < MaxUpsets /\ upsets' = upsets + 1

\* What helm has applied stays; an upgrade leaves what it found, or a mixture.
InstallFails(v) ==
    /\ install[v] = "running" /\ Upset
    /\ calm => level # "half"
    /\ install' = [install EXCEPT ![v] = "failed"]
    /\ UNCHANGED <<object, world, newest, uninstall, cluster, record, kind, trespassed>>

\* The add-on goes before the KEDA it was installed against.
HelmUninstalls ==
    /\ uninstall = "running" /\ level = "full"
    /\ level' = "half"
    /\ UNCHANGED <<object, world, jobs, owner, version, record, kind, upsets, trespassed>>

UninstallCompletes ==
    /\ uninstall = "running" /\ level # "full"
    /\ uninstall' = "complete"
    /\ level' = "none" /\ owner' = "none" /\ version' = None
    /\ UNCHANGED <<object, world, install, newest, record, kind, upsets, trespassed>>

UninstallFails ==
    /\ uninstall = "running" /\ Upset
    /\ uninstall' = "failed"
    /\ UNCHANGED <<object, world, install, newest, cluster, record, kind, trespassed>>

\* A finished Job is kept for an hour: passes have read it by then, and the Jobs that
\* completed before it are gone.
InstallReaped(v) ==
    /\ install[v] \in Finished /\ (addon = "live" => Quiet /\ ~JobMissing)
    /\ v = newest => \A w \in Version \ {v} : install[w] # "complete"
    /\ install' = [install EXCEPT ![v] = "absent"]
    /\ UNCHANGED <<object, world, newest, uninstall, cluster, record, kind, upsets, trespassed>>

UninstallReaped ==
    /\ uninstall \in Finished
    /\ addon = "deleting" /\ uninstall = "complete" => dependents
    /\ uninstall' = "absent"
    /\ UNCHANGED <<object, world, install, newest, cluster, record, kind, upsets, trespassed>>

-----------------------------------------------------------------------------
(***************************************************************************)
(* Users, the chart and other people's helm                                *)
(***************************************************************************)
NoInstall == \A v \in Version : install[v] # "running"
NoJobs    == uninstall = "absent" /\ \A v \in Version : install[v] = "absent"

\* POST /addons, for an entry deleted earlier.
CreateAddon(install_) ==
    /\ addon = "absent" /\ Upset
    /\ calm => NoJobs
    /\ addon' = "live" /\ asks' = install_
    /\ UNCHANGED <<status, world, jobs, cluster, record, kind, trespassed>>

\* PATCH /addons/{name}.
PatchAddon ==
    /\ addon = "live" /\ Upset
    /\ asks' = ~asks
    /\ UNCHANGED <<addon, status, world, jobs, cluster, record, kind, trespassed>>

\* DELETE /addons/{name}.
DeleteAddon ==
    /\ addon = "live" /\ Upset
    /\ calm => NoInstall /\ Quiet
    /\ addon' = "deleting"
    /\ UNCHANGED <<asks, status, world, jobs, cluster, record, kind, trespassed>>

\* The operator is rolled out with other flags, or as another version of itself.
GrantChanges ==
    /\ Upset /\ granted' = ~granted
    /\ UNCHANGED <<object, pin, dependents, jobs, cluster, record, kind, trespassed>>

PinMoves(v) ==
    /\ v # pin /\ Upset
    /\ calm => NoInstall /\ install[v] = "absent" /\ (addon = "live" => Quiet)
    /\ pin' = v
    /\ UNCHANGED <<object, granted, dependents, jobs, cluster, record, kind, trespassed>>

\* A connection or a claim through the entry; nothing provisions through a pair.
DependentsChange ==
    /\ ~pair /\ Upset /\ dependents' = ~dependents
    /\ UNCHANGED <<object, granted, pin, jobs, cluster, record, kind, trespassed>>

\* Somebody installs the entry, or half of a pair.
TheyInstall(much) ==
    /\ level = "none" /\ NoInstall /\ uninstall # "running" /\ Upset
    /\ calm => NoJobs /\ ~managed
    /\ level' = much /\ owner' = "them" /\ version' = None
    /\ UNCHANGED <<object, world, jobs, record, kind, trespassed>>

-----------------------------------------------------------------------------
\* The Addon as the platform seeds it: asking for what the chart permits.
Init ==
    /\ granted \in BOOLEAN
    /\ addon = "live" /\ asks = granted
    /\ managed = FALSE /\ serving = FALSE /\ charts = None
    /\ pin \in Version
    /\ dependents = FALSE
    /\ install = [v \in Version |-> "absent"] /\ newest = None /\ uninstall = "absent"
    /\ level = "none" /\ owner = "none" /\ version = None
    /\ record = [v \in Version |-> "none"]
    /\ pair \in Pair /\ calm \in Calm
    /\ upsets = 0 /\ trespassed = FALSE

Pass == Settle \/ StartInstall \/ ReleaseTheirs \/ StartUninstall \/ ReleaseOurs

HelmEnds ==
    \/ \E v \in Version : HelmInstalls(v) \/ InstallCompletes(v) \/ InstallFails(v)
    \/ HelmUninstalls \/ UninstallCompletes \/ UninstallFails

Reap == UninstallReaped \/ \E v \in Version : InstallReaped(v)

Next ==
    \/ Pass \/ HelmEnds \/ Reap
    \/ \E b \in BOOLEAN : CreateAddon(b)
    \/ PatchAddon \/ DeleteAddon \/ GrantChanges \/ DependentsChange
    \/ \E v \in Version : PinMoves(v)
    \/ \E much \in {"half", "full"} : TheyInstall(much)

(***************************************************************************)
(* A settled Addon is looked at every half minute, a Job ends, by itself   *)
(* or at its deadline, and a finished one is reaped.                       *)
(***************************************************************************)
Spec == Init /\ [][Next]_vars /\ WF_vars(Pass) /\ WF_vars(HelmEnds) /\ WF_vars(Reap)

-----------------------------------------------------------------------------
(***************************************************************************)
(* Properties                                                              *)
(***************************************************************************)
JobState == {"absent", "running"} \cup Finished

\* The types of the variables.
TypeOK ==
    /\ addon \in {"absent", "live", "deleting"} /\ asks \in BOOLEAN
    /\ managed \in BOOLEAN /\ serving \in BOOLEAN /\ charts \in Version \cup {None}
    /\ granted \in BOOLEAN /\ pin \in Version /\ dependents \in BOOLEAN
    /\ install \in [Version -> JobState] /\ newest \in Version \cup {None}
    /\ uninstall \in JobState
    /\ level \in {"none", "half", "full"} /\ owner \in {"none", "us", "them"}
    /\ version \in Version \cup {None}
    /\ record \in [Version -> {"none", "Running", "Succeeded", "Failed"}]
    /\ pair \in BOOLEAN /\ calm \in BOOLEAN
    /\ upsets \in 0..MaxUpsets /\ trespassed \in BOOLEAN

\* A calm platform never installs over or uninstalls a release it did not create,
\* and what it did create is gone from the cluster when its Addon is (planAddon in
\* addon_controller.go, finalize and runUninstall in addon_uninstall.go).
OwnAndOnlyOwn ==
    calm => /\ ~trespassed
            /\ addon = "absent" => owner # "us"

\* Whenever no Job is left to tell, the status alone knows what is the platform's and
\* at which version (ownedInstall and latestCompletedInstall in installevidence.go).
OursKnown ==
    calm /\ addon = "live" /\ NoJobs /\ owner = "us" /\ level = "full" =>
        managed /\ charts = version

\* A move from one version to another that the platform was asked for is in the
\* history as a success the moment the status shows it (recordUpgrade in
\* addon_upgrade.go).
MovesAreRecorded ==
    [][asks /\ granted /\ charts # None /\ charts' \notin {charts, None} =>
        record'[charts'] = "Succeeded"]_vars

Aimed    == addon = "live" /\ asks /\ granted /\ owner # "them"
InPlace  == level = "full" /\ owner = "us" /\ managed /\ serving
            /\ version = pin /\ charts = pin
Released == addon = "deleting" /\ granted /\ ~dependents

\* Once upsets cease, an entry that is asked for, allowed and nobody else's is in
\* place at this operator's pins, however often its install failed before, and one
\* that may be removed is gone (runInstall and runUninstall, the hourly retry).
Settles == <>[](calm => (Aimed => InPlace) /\ ~Released)
=============================================================================
