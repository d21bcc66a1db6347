# Kitchen: a verification project

Kitchen is a self-hosted deployment platform on Kubernetes. One manager binary
holds a reconciler per custom resource (`internal/controller`), the REST API
(`internal/api`), a webhook receiver and several loops; it may run in more than
one replica, of which one leads and reconciles while all of them answer the API
and append to the audit log. State lives in custom resources, in Jobs and
ConfigMaps, and in ClickHouse. This project models the parts where those writers
meet, checks them with TLC and proves what it can with TLAPS.

Contents: [Inventory](#inventory) · [Modules](#modules-and-the-code-they-model) ·
[Runs](#runs) · [Bounds](#bounds-and-why-they-are-enough) · [Fairness](#fairness) ·
[Proofs](#proofs) · [Divergences](#where-the-code-and-its-texts-disagree) ·
[Not modelled](#not-modelled) · [Plan](#plan)

## Inventory

Components that carry the platform's own logic, and what each must guarantee.

| component | state | operations | interacts with | what is hard | what makes it correct |
|---|---|---|---|---|---|
| **Audit chain, append**: `audit/head.go`, `audit/recorder.go`, `clickhouse/audit.go` | the head ConfigMap, the `audit_log` table, per process a floor and an anchored flag | Record, EnsureAnchor, claim, release, recordAdoption, markAdoptionRecorded | every controller and API handler records through it, before it acts | replicas append together; a claim and its insert are two writes to two stores; a failed insert gives the number back; the head may be deleted | numbers unique, rows linked, anchor at or past the log, every gap explained |
| **Audit chain, verification**: `audit/chain.go`, `api/audit.go` | none | GET /audit/verify | reads the table and the head | three reads beside running appenders; pages | intact exactly for a chain, and no break reported that is not one |
| **Build unit**: `controller/build_controller.go`, `build_workloads.go`, `build_stall.go`, `build_skip.go`, cancel in `api/resources.go` | the Build's status, one Job per image, the Release | plan, gate, create Jobs, observe, stall, fail, succeed, cancel | job controller, TTL collection, project edits, API | the presence of the web Job decides whether a unit was started; cancel and reconciler write the same Build; Jobs vanish | whole releases, finished stays finished, limits hold, every build ends |
| **Delivery**: `succeed`, `promoteOrFlip`, `ensureEnvironment` in `build_controller.go`; `promotion_controller.go`, `policyeval.go`; `environment_controller.go` (observation); `rescan.go` (expiry rollback); `release_controller.go` (prune); `api/resources.go`, `promotions.go`, `requirements.go`, `environments.go` | Environment spec, status and history; Promotions; Releases; Exceptions | flip, promote, evaluate, apply, chain, observe, roll back, prune, patch | five writers of one Environment | several writes per operation, each refused when another came between; passes dropped anywhere and re-entered by phase | nothing enters a gated environment unjudged; Applied is true; stages in order; newest releases kept; everything settles |
| **Preview environments**: `previewcapacity.go`, `forks.go`, `routePreview` and `adoptLatePreview` in `build_controller.go` | Environments per request, the Project's record of refusals, `status.preview` of a Build | route, count, refuse, create, move, adopt late, remove | builds, the receiver, the API | the ceiling is counted from a cache; a preview is created before the build says so; a request is heard of before, during or after its build | the ceiling holds, a closed request's preview stays down, every open request is answered |
| **Webhook receiver**: `receiver/receiver.go` | none of its own | push, request opened, moved, closed | git provider, Builds, Environments | deliveries repeated, reordered, lost; two requests share a commit | one Build per commit, no request dropped |
| **Deploy tasks**: `deploytasks.go`, `processes.go`, the gate in `environment_controller.go` | a row per task on the Environment, a Job per run | start, adopt, observe, wait, refuse, prune, run again | the Deployment, a moving target, job controller | the Job and the row that counts it are two writes; everything is read back from names | one run per deploy, one at a time, in order, and before the release serves |
| **Platform update**: `platformupdate_controller.go` | phase of each update, its Job | preflight, gate, start, observe, conclude | replaces the manager that runs it | the observer is another version than the starter; the gate reads a cache | verdicts are helm's, one helm at a time, no way back below a success |
| **Addons**: `addon_controller.go`, `addon_upgrade.go`, `addon_uninstall.go`, `installevidence.go` | the Addon's status, install and uninstall Jobs, a history of upgrades | install, adopt, carry forward, record, uninstall | helm releases that may be somebody else's | no field says whose a release is; the evidence is a Job that lives an hour | own and only own, history complete, settles |
| **Resource claims, recoveries**: `resourceclaim_recovery.go`, `resourceclaim_postgres.go`, `api/claims_recovery.go` | the claim's spec and status, a Secret per database, the provider's databases | ask, make, discard, promote, finalize | database provider, users | three stores written one after the other; the provider finds by name only | the binding names a database that is there, copies hold their moment, no database that is listed is lost sight of |
| Rescan | scan Jobs, findings | start, collect, publish | exceptions, rollback | Jobs of an earlier sweep | verdicts of the digest that is served |
| Access reviews | items per grant | open, decide, sweep | grants that change | stale items | decision is about the grant that exists |

The rest (projections of one object into others, clients, formats, parsers, the
CLI and UI) is listed in `PROJECT.json` with the reason it is left out. The
hazards of the modelled parts are listed there too, each at its line.

## Modules and the code they model

All modules share two conventions. **One step is one call** to the API server or
to the store together with the reads it rests on, because that is where writers
interleave. Where nobody else writes what a pass reads and writes
(`PlatformUpdate`, `Addon`) a whole pass is one step, split only where a call that
matters to others comes before its record. **Optimistic concurrency** is kept as
what it does: a write at a version that moved on is refused. `AuditChain` keeps
the resourceVersion itself, since a process holds a head for several steps; the
others keep whose copy is current (`holders`, `fresh`, `current`), which any write
takes away. A reconciler has one worker, so one pass at a time; a pass that
returns an error, and a manager that restarts, both leave it where it stands and
start from the top.

**`NumberedLog`** — what the log promises about its numbers, with no replicas and
no failures: handed out one after the other, then written, given back while last,
or lost for good. `AuditChain` implements it (`NumbersHandedOut`): `end` is the
head's sequence, `written` the rows' numbers, `held` those of replicas about to
insert or to give back, `lost` is `spent`.

**`AuditChain`** — `head` is the ConfigMap (sequence, hash, origin, adoption flag,
version), `rows` the table, and every replica has the locals of its Recorder
(`floor`, `anchored`) and of the call it is in. `Begin` is Record or EnsureAnchor;
`ReadHead`, `HeadMissing`, `ReadTableHead`, `CreateHead`, `CreateExists` are
readHead; `Claim`, `ClaimConflict`, `Refuse` are claim; `InsertAuditRecord` and
`InsertFails` the insert; `ReleaseRead`, `Unwind`, `UnwindConflict` are release;
`MarkRead`, `MarkWrite`, `MarkConflict` are markAdoptionRecorded. The `...ReplyLost`
actions are calls that take effect and report an error; with the deletion of the
head they are `Harm`, which `HarmedSpec` and `VerifySpec` add to the protocol's own
steps (`Spec`). A hash is a number minted when a record is sealed; content is left out. The
history variable `spent` collects the numbers given up for good.

**`AuditVerify`** extends it with the one request (`walk`): the record to continue
from, the page, the anchor, and the findings of Verify and AgainstAnchor. No step
of the program edits a row, so the break for altered content is left out. History
variables keep what numbers were owed when the page was read, and whether the log was
harmed.

**`BuildUnit`** — per Build its phase, recorded workloads, Stalled condition, Jobs
and Release. `Begin` reads Build, project and Jobs and decides (`Route`) as
Reconcile does: no web Job means not started; a failed Job fails the unit; all
complete releases it; anything else is observeRunning. `Refuse`, `Enqueue`,
`Admit`, `CreateJob`, `Started` are the creating pass; `Report`, `Fail`,
`StallFails`, `DeleteStalledJob`, `CreateRelease`, `Succeeded` the ends;
`CancelBuild`, `CancelDeletesJob`, `CancelWrites` the request. A Job without a pod
is within the grace, past it or past the deadline: time is those two boundaries.
`Collect` is ttlSecondsAfterFinished. Left out: evidence, cache, the diagnosis of
failed pods, the buildpacks ConfigMap, a failed listing of pods (which reads as
"has a pod" for one pass), a project whose builds have no deadline
(`timeoutMinutes` at or below zero), the status write of a first pass that records
how the commit reached its branch (refused on an old copy, it ends a pass that the
model lets go on to its next write), and where the release goes, which is `Delivery`.

**`Delivery`** — environments with release, observed release, history and
requirements; builds, promotions, exceptions; a pass per reconciler and a set of
API requests. `Succeed`, `CreateRelease`, `PromoteOrFlip`, `EnsureEnvironment`,
`CreateEnvironment`, `BuildFlips`, `BuildRecords`, `BuildSucceeded` are the build
reconciler from the Release on; `Resolve`, `Evaluate`, `Settle`, `Apply`,
`PromotionRecords`, `Chain`, `Applied`, `Fail` the promotion reconciler, re-entered
by phase (`Entry`); `Observe` the environment reconciler; `RollBackForExpiry`,
`RollBack`, `RollbackRecords` the sweep; `ListEnvironments`, `ListReleases`,
`DeleteRelease` the prune; `PatchEnvironment`, `PointEnvironmentAt`,
`PatchHistory`, `RequestPromotion`, `DeclareEnvironment`, `PatchRequirements` the
API. The policy verdict is a function of bar, evidence and exception; evaluation
itself, one step here, is a library. A cached read is a read made earlier: the
model lets any step come between a read and the write that uses it. A pass that
starts from a cached copy of a Promotion older than its last write is not
modelled. An ungated first stage is flipped to directly and chains nothing, as in
the code.

**`DeployTasks`** — one Environment: its target, a row per task (release, number
of the run, phase), a Job per run, what the Deployment serves. A pass reads the
Environment, brings each task in declared order up to date (`StartRun`,
`AdoptRun`, `ObserveRun`, `AwaitPreviousRun`; `WriteVerdict` and `DeleteRefused` for
one the kubelet will not start), stops there or applies the Deployment, and
writes the rows last. Beside it the target moves, a person runs a task again, Jobs
end or are lost, and in a lagging behaviour the cached Environment trails by any
number of writes. The Job informer is taken to have caught up.

**`PlatformUpdate`** — per update its phase, the phase in the cache, its Job and
what helm would go back to; the version deployed and the version of the manager
that leads. `PassOf` is Reconcile with preflight, the gate and the outcome of the
Job; creating the Job (`launching`) and writing Running are two steps. The manager
is replaced while helm runs and restarts at any point.

**`Addon`** — one catalogue entry of one chart or two: the object and its status,
the Jobs of each version, what is in the cluster and whose it is. `Plan` is
planAddon, `Pass` what Reconcile does with it, `HelmEnds` a Job that ends having
applied nothing, half or all, `Reap` the hour after which a Job is collected. The
history variable `trespassed` says that the platform wrote to a release it did not
create.

**`Previews`** — requests at the provider, deliveries on the wire, the receiver's
handlers, Builds with the request they were asked for (`asked`), told of later
(`noted`) and routed to (`preview`), the preview Environments, and the cache's copy of
both. A pass begins with a cached Build, and its last write is refused when that copy
was an old one. `Deliver` and `Handle` are the receiver; `Begin`, `Adopt`,
`RoutePreview`, `RecordRefusal`, `Ensure...`, `ClearRefusal`, `WriteBuild` the
build reconciler's pass; `Finalize` the environment reconciler's. What a Build does
before it has an image is `BuildUnit`'s.

**`ClaimRecovery`** — one claim bound to the database it was provisioned with.
`asked` and `promoted` are its spec, `listed` and `retained` its status, `copies`
the provider's databases, `binding` and `secret` the Secrets. A pass goes through
`Provision`, one `Sibling` action per call for each name, `PromoteRecovery`, and
`Bind`, the one status write, refused if the claim was edited since it was read;
`PassEnds` is an error or a restart at any call. `FinalizeCopy`, `FinalizeSecret`,
`Deprovision` and `Release` are the deletion of the claim, `ReleaseAlone` that of one
whose provider cannot be had. The provider finds a copy by its name, as
CNPG.RecoverTo and Neon's branches do, and fills it in time or never. Requests have
the API's guards and no others: nobody waits for the last one to have come about.
Where a request that comes too soon breaks what the code's texts promise, the name is
marked in the history variable `astray`, and the properties except it by that mark;
[below](#where-the-code-and-its-texts-disagree) is what happens to it.

The `MC` modules hold the instances' constants; `AuditChainProofs`
(of `AuditVerify` and `NumberedLog` too), `DeliveryProofs`, `BuildUnitProofs`,
`DeployTasksProofs`, `PlatformUpdateProofs`, `AddonProofs`, `PreviewsProofs` and
`ClaimRecoveryProofs` the theorems. Definitions
marked "Mutant" are plausible bugs used to see each property fail.

## Runs

| run | result | what it asks and shows |
|---|---|---|
| `audit_protocol` | passes | Two replicas append through conflicts, failed inserts and crashes on a fresh or an adopted log: `UniqueSequence`, `QuietLogIsTheChain`, `AdoptionSaidFirst`, and the protocol implements `NumberedLog` (`NumbersHandedOut`). |
| `audit_verify` | passes | Beside appenders with lost replies, crashes and a deleted head, the verdict equals a reference definition of an anchored chain on sound and damaged logs (`IntactIffChain`), no verdict accuses a sound log of more than is so, whatever is appended, given back or crashes between its reads (`FindingsExplained`), and a row that links to another is numbered right after it (`LinksNeverSkip`). |
| `delivery_pipeline` | passes | Two stages, the first gated and serving: `BarHolds` (whichever of the writers moved it), `MovedWasJudged`, `AppliedWasServed`, `StagesInOrder`. |
| `delivery_live` | passes | In spite of conflicts between builds, promotions and API moves everything comes to rest, builds concluded, promotions settled and what is served observed (`ComesToRest`); a prune working from old lists leaves the newest releases (`RetentionKept`). |
| `build_unit` | passes | A two-image unit and a single build compete for one slot with one upset anywhere: `ReleasedWhole`, `OverStaysOver`, `RunningWithinLimit`, `StallCleared`, and every Build ends (`BuildsEnd`). |
| `deploy_tasks` | passes | Moves, retries, lost Jobs, dropped passes and a stale cache: `RunOncePerDeploy`, `OneRunAtATime`, `EarlierRunsFirst`, and a deploy ends (`DeployEnds`). |
| `deploy_tasks_skipped` | violated | A release serves on another release's migration (`MigratedForIt`), see [below](#where-the-code-and-its-texts-disagree). |
| `platform_updates` | passes | `VerdictsAreHelms`, `OneHelmAtATime`, `SuccessStays`, and every upgrade concludes (`Concludes`). |
| `addon_entry` | passes | `OwnAndOnlyOwn`, `OursKnown`, `MovesAreRecorded`, and an entry settles (`Settles`). |
| `previews_requests` | passes | The ceiling (`CeilingKept`), the preview of a closed request stays down (`ClosedStaysDown`), and the newest commit of every open request is answered for (`RequestsAnswered`), with trailing caches, repeated deliveries and passes made again. |
| `previews_closed` | violated | A closed request keeps a preview (`ClosedHasNone`), see below. |
| `claim_recovery` | passes | With requests at any time the API accepts them: `BoundLives`, `HoldsItsMoment`, `ForgetsOnlyTheGone`, `DisplacedIsRecorded`, and what was asked for comes about (`MadeSo`). |

`TypeOK` is a theorem of every module; `deploy_tasks` and `claim_recovery` check it
as well, because there it says something of the code: what a Job or a provider
answers is translated before it is recorded.

Some properties are conditional, and say so. `BarHolds` holds while nobody changes
requirements (what is served is not judged again by the code; the run has no user who
moves environments, the theorem `OneDoor` has), `RunningWithinLimit` while no call
fails, `FindingsExplained` of logs no reply was lost on and no head deleted, of pages
within the clamp and runs with a record in them; `RunOncePerDeploy`, `OneRunAtATime`
and `EarlierRunsFirst` while the cache does not lag, the second of tasks every release
runs here and the third of tasks every release declares (a row is dropped by a release
that does not declare its task); parts of `PlatformUpdate` and `Addon` in calm
behaviours, which the heads of those modules define; `ClosedStaysDown` leaves out a
request something was under way for when it closed; `RequestsAnswered` excepts
requests that were closed or that an upset hit; the properties of `ClaimRecovery`
except names a request came too soon for. Outside the condition the models reach the
opposite; what the code then does, and where its texts promise more, is listed below.
Runs turn deadlock checking off: with their bounds used up and all work done, these
systems stop.

## Bounds and why they are enough

*Audit.* Two replicas are what one claim and one rollback racing it need; three
calls let a number be claimed, released and claimed again with a neighbour on top;
two faults combine a failed insert with a failed release or a crash. One legacy row
tells an adopted log from a fresh one. `audit_verify` has two calls, two faults
(among them replies lost) and one deletion, which with the record that admits the
re-seeded head and with numbers written twice makes logs of three rows and more;
pages of two and three rows give first, last, full and partial ones, one by the
default and one at the clamp.

*Delivery.* Two releases order any pair of moves; two stages are one chaining step.
One dropped pass exposes every re-entry point, one change of requirements the two
sides of the bar. `delivery_live` has one stage and one request against two builds,
a history cut at two entries and a retention of one.

*Build unit.* One workload next to the web image makes a unit that can be
half-started, half-failed and half-collected; the single build makes the gate bite
at concurrency one and is the project whose workload list is edited from empty. One
upset (an edit, a cancel, a failed call, a dropped pass, an early collection) may
strike at any step; Jobs age, run, fail and are collected freely.

*Deploy tasks.* Two tasks have an order; two releases, of which the second does not
run the second task here, make a move forward, back, and a row that lapses. Two
upsets (one under a stale cache, where the cache itself multiplies the cases)
combine a move with a dropped pass, a lost Job or a second run. Four runs per task
are more than these can start.

*Platform update.* Three updates queue behind one another, four versions of which
the last is the next minor give up, down, same and refused. Three requests when
every write lands; two with one restart, failed call or reaped Job.

*Addon.* Two pins are one upgrade, forward or back; five upsets reach failing
first installs, retries after the hour, re-creation and a move of pins together.

*Previews.* Two requests that share their first commit, one from a fork under each
policy that differs, a ceiling of one, so that the second preview is refused, and
one upset (844 726 states). One is enough for a lost or late event beside everything
the scheduler may do; what takes two, such as a copy that trails while a pass is cut
off, is in the theorems only.

*Claim recovery.* Two names are one promotion over another and a sibling that fails
beside it; two moments tell a copy from the one its name had before; four requests
are ask, ask, promote, and a discard, a second promotion or the first name again. One
upset may end any call (858 230 states).

Symmetry (replicas) is used only in runs of invariants.

## Fairness

A reconciler that returned an error is queued again, watches and requeues revisit
open objects, and a worker runs the pass it has: weak fairness on every pass and on
every request once accepted. `SF(BuildRecords)` and `SF(PromotionRecords)` say that
a status write which keeps being overtaken succeeds in the end; the workqueue's
exponential back-off separates the contenders, and without it the two can move an
environment back and forth for ever (hazard at `ensureEnvironment`). `SF(Begin(b))`
in `BuildUnit` and `SF(Reconcile(c))` in `Previews` are the workqueue serving
Builds in turn: one worker, so a visit is disabled while another Build's pass runs.
Informers catch up (`EnvSync`, `CacheSync`, `BuildCached`, `EnvironmentCached`).
Of the cluster it is assumed that time passes for a Job without a pod (which may
never get one), that a Job with a pod ends, by activeDeadlineSeconds at the latest,
that helm ends likewise and a replaced manager comes up, that a finished Job is
collected after its TTL, and that a database being filled is filled unless it
breaks. A Job whose pod the kubelet refuses need not end by itself. Of the git
provider it is assumed that a delivery which is not lost arrives. Nothing is
assumed of people, faults or crashes.

## Proofs

**Audit.** `TypeCorrect`: of `HarmedSpec`, lost replies and deletions included; in
particular no rollback writes a number below zero. `ChainSafe`: with any number of
replicas, calls, faults and crashes, numbers are unique, neighbouring rows linked
and the log never ahead of the anchor, of `Spec`: under `Harm` it fails (an insert
that lands and reports an error has its number handed out again, and a head seeded
again knows of no claim in flight). None of this is
inductive: nothing in the table says which numbers are about to be written.
`ChainInv` adds `Versions` (who holds the current version has the current head),
`Unseeded` (before the head exists nothing is claimed and a seed is the end of the
table), `Placed` (the head is at or past every live record and names the one it is
at), `Distinct` (a claimed number is in one hand only), `LiveLinked` and `Undo`
(what a replica would write back is what it sealed onto). The crucial steps are
`Claim`, where `Versions` and `Placed` make the new number fresh and its link right,
and `Unwind`, where the head still being this claim's means nobody built on it.
From it follow `QuietIsWhole`, `GapsExplained` and `ImplementsNumberedLog`, the
refinement; they also need `Upgraded` (before the
head exists the table is what the installation brought), and
`AllAccounted` (of `NumberedLog`) says what the refinement gives. `AdoptionFirst`
adds `Admitted` (who is past the anchor saw it said), and `NeverSkips` holds of
`HarmedSpec`: `HashesName` says that number and hash travel as a pair.
The verification is proved of `VerifySpec`, beside appenders, lost replies and
deleted heads. `VerdictIffChain` (`IntactIffChain`) compares what the code looks for
(each record against its neighbour, then the last against the anchor) with what a
chain is (a set of numbers, one row each, linked); `TableInv` and `WalkInv` say that
a request holds rows of the table in order, and the two directions are about such
sequences for any length: no findings give consecutive numbers, and a first break
would be at a least position, which `LeastNatural` finds by well-foundedness where
an induction would be out of reach. `FindingsHold` (`FindingsExplained`) rests on
`SoundLog`, which is `ChainInv` with what the refinement says of numbers, and holds
until something harms the log: a number without a row, up to the head or below some
row, is owed (`RowlessIsOwed`). What a page of such a log says is then so when it is
read (`PageSound`), and what it says of the log's end stays so, since the anchor only
moves past it (`TailSound`).

**Delivery.** `JudgedBeforeMoved` (`MovedWasJudged`) rests on `JudgedInv`: the phases
Allowed and AllowedWithException, and every place in a pass from apply on, vouch for
a verdict, which is what lets apply be re-entered without asking again. `OneDoor`
(`BarHolds`) rests on `BarInv`: what a pass, a rollback or a request is about to
write into a gated environment was served there before or allowed (`Admitted`), and
so is everything in its history. `AppliedMeansServed` and `ClimbedInOrder` rest on
`Served`: a place in a pass after the move implies the release was on the
environment. `NewestKept` (`RetentionKept`) rests on `PruneInv`: releases stand in
one line by age (`Line`), and every victim has, among the releases that are not
victims, as many newer ones as are to be kept (`Outnumbered`), which no deletion of
another victim and no new release can undo. Choosing victims establishes it
(`OutgrownOutnumbered`), by well-foundedness of the line.

**Build unit.** `OverForGood` and `StallGone`, for every number of Builds and images
and any number of edits, requests and failures. `OverInv` says that whoever holds a
Build at its current version read it open (`CopiesOpen`), which makes every accepted
status write one to an open Build, and that a pass works on a Build that is open or
was cancelled under its hands (`PassOpen`). `TypeCorrect` says besides that a pass
creating or deleting Jobs has one left to go to, since what planned it found or
planned the web process's at least (`TypeInv`). `WholeRelease` (`ReleasedWhole`)
rests on `PushedInv`, that a complete Job pushed its image and a pass about to
release planned complete ones only, and on `UnitInv`, that while nobody edits, what
was started, planned and released is the one unit declared. `WithinLimit`
(`RunningWithinLimit`) rests on `LimitInv`: a pass that decided to admit still has
its slot, because its copy is current or its Build over (`DecisionHolds`), and a
web Job stands only under a Build that took a slot (`JobsCounted`), so that a unit
read as running did.

**Deploy tasks.** For any tasks and releases, declared or run here in any
combination. `CopyInv` says what a pass that may still write knows: the target, and
of a task it has not come to, the number and phase of its row; and that a run it is
to end is not what its task waits for. `OncePerDeploy` (`RunOncePerDeploy`) rests on
`OwedInv`: a run that would be made next, by the rows on record or by those of the
pass, is owed. It is not enough to count what was started, since a run made by a
pass that lost its write is found again by name (`AdoptRun`) and one that was lost
is owed anew. `OneAtATime` (`OneRunAtATime`) rests on `OneInv`: what goes is the
run the row names or the one after it, not both, and a pass one ahead of the row
left the row's run over. `InOrder` (`EarlierRunsFirst`, an action property) rests on
`LatestInv`: the latest run of a task has its row's number or the next one, no Job
has a greater one, and neither the row nor the copy in the pass says that run
succeeded when it did not (`Vouches`); and a pass that nothing has stopped saw every
task before the one it is at succeed for its release (`ClearInv`).

**Platform update.** `VerdictsHold`, `HelmAlone`, `NeverTakenBack`: `UpdateInv` ties the
phase to the Job (an update without a verdict whose Job exists is the one launching
or Running), the Job to what is deployed, and in calm behaviours the one helm to the
closed gate.

**Addons.** `HandsOff`, `NothingForgotten`, `HistoryComplete`: `CalmInv` says that what
is somebody else's has no Job of ours (`Theirs`), that the Jobs fit what is in the
cluster (`JobsFit`), that the platform's own release is known by a Job or by the
status (`Known`), and that one being removed is removed whole (`Leaving`).

**Previews.** `StaysDown` (`ClosedStaysDown`) rests on `Stilled`: for a request that
closed with nothing under way, no delivery, handler, pass or Build comes to be under
way again (`UnderWayStep`), no copy of a Build says otherwise (`WrittenStill`,
`ReadStill`), and the closing is on its way until the preview is down (`Closing`). That
a Build is not routed a second time is in it as `Fresh`: a pass that may still write
works on a Build whose `status.preview` is empty. `CeilingHolds` rests on `CeilingInv`:
whoever is about to create on a count that was current found room, and only this pass
creates.

**Claim recovery.** `BindingLives`, `MomentsHold`, `ListedNotForgotten` and
`DisplacedRecorded`, for any names, moments, requests the API accepts and passes ended
at any call. `Facts` says what is so of every state: that copies and Secrets carry
databases of their own name, that an entry that is Ready or bound has its id, and
that a pass works from the status as it still is. `ForgetInv` says of a pass that an
entry it no longer has is of a copy that is gone with its Secret (`Forgotten`);
`CountInv` that copies are made no more often than asked for, a made one being found
again (`Counted`). `FineInv` is about the names no request came too soon for (`Fine`):
their copy holds the moment asked for, their Secret names it, and it is there while
the binding, or a pass, has it. `RecordInv` says that what lost the binding is on
record, in the status or in the pass that will write it, until the promotion under
way has landed.

Each inductive invariant was checked by TLC before it was proved. Assumptions are
the named ASSUMEs of the modules, which only type the constants.

Only model-checked: liveness (`ComesToRest`, `BuildsEnd`, `DeployEnds`, `Concludes`,
`Settles`, `RequestsAnswered`, `MadeSo`), since fairness and ENABLED are out of the
prover's reach here. Every invariant and every safety property of an action that a
passing run checks is a theorem.

## Where the code and its texts disagree

Shown by a run:

- `deploy_tasks_skipped` — a run's Job is created and the status write that counts it
  conflicts with a move of the target; the next pass computes the same name for the
  new release, adopts the earlier release's Job and takes its verdict, so the new
  release serves without its migration having run. No row is dropped on the way: both
  releases of the instance declare the task.
- `previews_closed` — a request closes while its commit is being built: there is
  nothing to delete, and the build puts the preview up afterwards.

Reached by a model, with no run spent on it. *Audit*:

- release lowers the floor to a number another replica may still give back, and the
  replica then refuses sound appends, though `head.go` says the floor moves only on a
  number this replica took
- an insert that lands and reports an error is rolled back, so the log is ahead of
  the anchor; the adoption record can be written twice
- a head deleted under a process that remembers the anchor is seeded again and
  appended to with no record of the adoption (one deletion is enough), though
  `head.go` says that deleting the anchor "produces a second adoption record"
- a record appended between the verifier's scan and its read of the anchor is reported
  truncated, which `FindingsExplained` allows at exactly that number; a page limit
  above the clamp, and continuing exactly at the end, are reported truncated too

*Delivery and builds*:

- a release an environment was just moved onto is pruned, having been chosen from
  earlier lists (`ComesToRest` excepts it); a promotion whose release was pruned ends
  Failed though allowed
- a history entry refused after two quick moves is never written, and an observation
  that lags two moves writes the older release on top, from where the expiry
  rollback goes one too far back
- a promotion re-entered after its move moves the environment again, over what
  somebody did in between; requirements set between promoteOrFlip's two reads do not
  stop that flip
- cancel deletes the web process's Job only, and before it writes the phase; the
  unit's other Jobs run on
- a pass that ends between two Jobs leaves a half-started unit that is reported
  Running and waits for a Job nobody creates, until the web Job's collection an hour
  later starts it over (so `BuildsEnd` holds)

*Deploy tasks*: a row dropped by a release that does not declare the task, and a
cache that trails a deleted refused Job, each lead to a number used twice; by a
cache several writes old a stale pass starts such a number beside a run that is
going; a suspended task forgets a run still going, and a second one starts beside it; a
refused Job may get its pod after all, next to the newer run; A, B, A within one pass
leaves a run no row names.

*Platform update*: the gate judges by a phase written after the Job exists and read
from a cache, and stands open when the list fails, so two helms can run; a Job reaped
unread turns a success into "already current" or runs helm again; an error
gateConcurrentUpdates drops leaves an update unvisited until a restart; preflight
compares with the version of the process, not of what is deployed.

*Addons*: a first install that failed half-way makes the platform disclaim its own
release, and the hourly retry never comes; an Addon deleted during its first install
is released while the Job goes on; re-created within the hour, it reports Installed
with nothing there; an old uninstall Job lets the next deletion go without
uninstalling; pins that move mid-install run two helms and leave a record Running.

*Previews*:

- a preview is created and the pass is cut off before `status.preview` is written; the
  request closes and its preview is torn down; the pass is made again and puts it up,
  though `build_types.go` says of that field that a preview torn down when its request
  closed is not resurrected, and that the repair happens exactly once
- an older commit's Build that is routed later moves the preview back to its release;
  and where the newest commit was refused at the ceiling, it takes the request off the
  Project's list, so that nothing says the newest one is waiting, though
  `routePreview` takes it off for the list to be "what is still waiting"
- two requests that share a commit both patch an unclaimed Build, and the later claim
  keeps it though the first may have its preview already, against
  `recordPullRequest`'s "the first request to claim a commit keeps it"
- a Build too new for the receiver's cache loses the request
- a refused request that was heard late *is* retried at every reconcile of its finished
  Build, after it closed too, though `previewcapacity.go` says a refused one waits for its
  next push
- a request reopened at the same head gets no preview until the next push; a preview
  being torn down is re-created uncounted

*Claim recovery*, by requests the API accepts:

- a recovery discarded before the status has its ID, while Pending say, is dropped from
  the status and its database stays, though `claims_recovery.go` says one not made yet
  may be discarded; the name asked for again at another moment finds that database and
  lists it with the new moment, though `resourceclaim_types.go` says At is the moment
  the database holds the data as of
- a database deleted in a pass that then ends, and its name asked for again, leaves an
  entry that is Ready and a Secret that is there, without a database; promoting it
  binds the claim to nothing
- a bound copy discarded once another was asked to be promoted, and before that one is
  bound, is deleted under the binding, though `recoverSiblings` says of what it
  discards that "a promoted recovery is never here"
- promote looks only at the status, so a discard followed by a promote before the next
  pass destroys the copy and leaves the promotion unknown for ever
- a second promotion before the first one is in the status leaves the copy bound in
  between unrecorded, though `resourceclaim_recovery.go` says that what a promotion
  displaced "is retained and recorded"
- a recovery that failed makes recoverSiblings return an error and every later
  promotion of another one wait, though `reconcileRecoveries` calls it "a fact about
  one sibling"; `MadeSo` excepts bindings while a copy is broken
- a claim deleted before a copy that was made is listed, or whose provider cannot be
  had, is let go under Delete with databases, and in the second case the copies'
  Secrets, left behind

The names these happen to are the ones in `astray`, or are left out by what a property
says it speaks of: copies listed with an id, databases the status showed as bound,
claims let go with the provider at hand. Stated without `astray`, `BoundLives`,
`HoldsItsMoment` and `MadeSo` are refuted by TLC.

Read in the code, not modelled: `reconcileBranches` drops the records of the other
previews when one fails half-way through the list, so a preview deleted before the
next good pass leaves its branch behind; two claims of a project share the name of
the finalizer they put on previews, and one that does not branch takes it away from
one that does.

## Not modelled

`PROJECT.json` lists every component with its reason. In short: projections of one
object into rendered Kubernetes objects, clients of outside services, formats and
parsers, queries, and loops that only compare and report have no interleaving worth
a model. Of what does, rescan Jobs, access reviews and the branches of claims are
left. Most of the repository's lines are of the first kind (the API's views, the
CLI, generated code, rendering), which is why the mapped share of them is small.

Within the modelled parts the components' notes say what is left out; the largest
are the Job informer's lag in `DeployTasks`, the preview switch and a ceiling that
changes in `Previews`, the first provisioning and the recovery window in
`ClaimRecovery`, and evidence and caching in `BuildUnit`.

## Plan

Done: the audit log with its abstract specification, delivery, build units, deploy
tasks, platform updates, addons, previews, claim recoveries. What is worth doing next,
in this order:

1. The branches of claims beside `Previews` (their finalizer and the preview's end).
2. Rescan Jobs, whose names are reused like those of deploy tasks; access reviews
   against grants that change.
3. A Build as a one-shot decision (open, then one outcome for good) that `BuildUnit`
   implements, composed with the end of it that `Delivery` and `Previews` start from.
