--------------------------- MODULE PlatformUpdate ---------------------------
(***************************************************************************)
(* The platform upgrading itself.  A PlatformUpdate asks for a version; the *)
(* manager checks it, waits while another one is in flight, and runs helm   *)
(* in a Job, because the manager is one of the things helm replaces.  So    *)
(* the process that reports an upgrade is seldom the one that started it,   *)
(* and everything it knows is read back from the update and its Job.        *)
(*                                                                          *)
(* One worker takes the updates in turn.  A pass is one step, nobody else   *)
(* writing what it reads, but for the one that starts an upgrade: its Job   *)
(* is created, and the phase that closes the gate to the others is written  *)
(* after that.  A calm behaviour is one where that write lands, the cache   *)
(* the gate reads can be read and shows it, the replaced manager is gone    *)
(* when helm is done, and no Job is reaped before a manager has read it.    *)
(***************************************************************************)
EXTENDS Integers, FiniteSets

CONSTANTS
    Update,         \* names of PlatformUpdates: they are generated, and are numbers here
    Version,        \* the published versions, in order
    FirstVersion,   \* what is installed to begin with
    Minor,          \* the minor version each one belongs to
    AllowMinor,     \* --self-update-allow-minor
    Calm,           \* the kinds of behaviour explored
    MaxRequests,    \* bound on updates asked for, in each kind of behaviour
    MaxUpsets       \* bound on restarts, failed calls and reaped Jobs

None == 0   \* no update

ASSUME PlatformUpdateAssumption ==
    /\ Update \subseteq Nat \ {None} /\ IsFiniteSet(Update)
    /\ Version \subseteq Nat /\ FirstVersion \in Version
    /\ Minor \in [Version -> Nat] /\ AllowMinor \in BOOLEAN
    /\ Calm \subseteq BOOLEAN /\ MaxRequests \in [Calm -> Nat] /\ MaxUpsets \in Nat

VARIABLES
    spec,       \* the version an update asks for
    phase,      \* status.phase
    seen,       \* the phase in the manager's cache
    job,        \* what has become of the update's Job
    from,       \* the version helm goes back to if it fails
    deployed,   \* the version of the manifests in the cluster
    manager,    \* CurrentVersion: the version of the manager that leads
    launching,  \* the update whose Job is created and whose phase is not written
    queue,      \* the updates a pass is coming for
    calm,       \* the kind of this behaviour
    upsets,     \* restarts, failed calls and reaped Jobs so far
    starts,     \* history: Jobs created for an update
    finished,   \* history: the updates helm completed
    unread      \* history: the updates whose Job was reaped before it was read

ghosts == <<starts, finished, unread>>
vars == <<spec, phase, seen, job, from, deployed, manager, launching, queue, calm, upsets, ghosts>>

-----------------------------------------------------------------------------
Requested == {u \in Update : phase[u] # "absent"}
Verdict == {"Succeeded", "Failed"}

Terminal(p) == p \in Verdict

InHelm(j) == j \in {"helm", "applied"}

\* Mutant: the manager that comes up takes the upgrade that put it there as done.
JobOutcomeEager(u) ==
    CASE job[u] \in {"complete", "applied"} -> "Succeeded"
      [] job[u] = "failed"                  -> "Failed"
      [] OTHER                              -> "Running"

\* A Job says nothing but that it runs until it has finished.
JobOutcome(u) ==
    CASE job[u] = "complete" -> "Succeeded"
      [] job[u] = "failed"   -> "Failed"
      [] OTHER               -> "Running"

Cached(u) == IF calm THEN phase[u] ELSE seen[u]
\* A status write is refused when the copy it was made from is an old one.
Current(u) == Cached(u) = phase[u]

Upset == upsets < MaxUpsets /\ upsets' = upsets + 1

-----------------------------------------------------------------------------
(***************************************************************************)
(* One pass of the manager                                                 *)
(***************************************************************************)

\* Mutant: the order of versions is not looked at.
PreflightAnyway(u) ==
    /\ spec[u] # manager
    /\ AllowMinor \/ Minor[spec[u]] = Minor[manager]

\* Not what the manager already is, nothing older, no minor version unasked for.
Preflight(u) ==
    /\ spec[u] > manager
    /\ AllowMinor \/ Minor[spec[u]] = Minor[manager]

\* Mutant: an update that has waited its turn goes.
GateClosedOnce(u) == Cached(u) # "Pending" /\ \E o \in Update \ {u} : Cached(o) = "Running"

\* Another update is running, as far as the list in the cache says.
GateClosed(u) == \E o \in Update \ {u} : Cached(o) = "Running"

\* The worker is free, and this update is neither finished nor unheard of.
Pass(u) ==
    /\ launching = None /\ u \in queue
    /\ ~Terminal(Cached(u)) /\ Cached(u) # "absent"

SkipFinished(u) ==
    /\ launching = None /\ u \in queue
    /\ Terminal(Cached(u)) \/ Cached(u) = "absent"
    /\ queue' = queue \ {u}
    /\ UNCHANGED <<spec, phase, seen, job, from, deployed, manager, launching, calm, upsets, ghosts>>

\* Success, failure or a refusal is recorded, and nothing asks for u again.
Conclude(u, verdict) ==
    /\ phase' = [phase EXCEPT ![u] = verdict]
    /\ UNCHANGED <<spec, seen, job, from, deployed, manager, launching, queue, calm, upsets, ghosts>>

Refuse(u) ==
    /\ Pass(u) /\ Current(u)
    /\ job[u] = "absent" /\ ~Preflight(u)
    /\ Conclude(u, "Failed")

Report(u) ==
    /\ Pass(u) /\ Current(u)
    /\ job[u] # "absent" /\ JobOutcome(u) \in Verdict
    /\ Conclude(u, JobOutcome(u))

Gated(u) == Pass(u) /\ job[u] = "absent" /\ Preflight(u) /\ GateClosed(u)

\* Mutant: the update waits for an event.
AwaitOtherForever(u) ==
    /\ Gated(u) /\ Current(u)
    /\ phase' = [phase EXCEPT ![u] = "Pending"]
    /\ queue' = queue \ {u}
    /\ UNCHANGED <<spec, seen, job, from, deployed, manager, launching, calm, upsets, ghosts>>

\* Waiting is said in the phase, and the update comes back in half a minute.
AwaitOther(u) ==
    /\ Gated(u) /\ Current(u)
    /\ phase' = [phase EXCEPT ![u] = "Pending"]
    /\ UNCHANGED <<spec, seen, job, from, deployed, manager, launching, queue, calm, upsets, ghosts>>

\* The write fails, and the error goes no further: nothing brings the update back.
AwaitUnsaid(u) ==
    /\ Gated(u)
    /\ IF Current(u) THEN Cached(u) # "Pending" /\ Upset ELSE UNCHANGED upsets
    /\ queue' = queue \ {u}
    /\ UNCHANGED <<spec, phase, seen, job, from, deployed, manager, launching, calm, ghosts>>

\* The gate is open, or the others could not be listed: the Job is created, or was by
\* a pass that did not say so.
Launch(u) ==
    /\ Pass(u) /\ job[u] = "absent" /\ Preflight(u)
    /\ \/ ~GateClosed(u) /\ UNCHANGED upsets
       \/ GateClosed(u) /\ ~calm /\ Upset
    /\ job' = [job EXCEPT ![u] = "created"]
    /\ starts' = [starts EXCEPT ![u] = @ + 1]
    /\ launching' = u
    /\ UNCHANGED <<spec, phase, seen, from, deployed, manager, queue, calm, finished, unread>>

\* The phase that closes the gate; refused, the pass is taken again.
WriteRunning ==
    /\ launching # None
    /\ phase' = IF Current(launching) THEN [phase EXCEPT ![launching] = "Running"] ELSE phase
    /\ launching' = None
    /\ UNCHANGED <<spec, seen, job, from, deployed, manager, queue, calm, upsets, ghosts>>

\* The Job runs: the phase says so, and the update is polled.
Poll(u) ==
    /\ Pass(u) /\ Current(u)
    /\ job[u] # "absent" /\ JobOutcome(u) = "Running"
    /\ phase' = [phase EXCEPT ![u] = "Running"]
    /\ UNCHANGED <<spec, seen, job, from, deployed, manager, launching, queue, calm, upsets, ghosts>>

-----------------------------------------------------------------------------
(***************************************************************************)
(* Everybody else                                                          *)
(***************************************************************************)

\* POST /updates.  Nobody asks for what was there before the first one.
Request(u, v) ==
    /\ Cardinality(Requested) < MaxRequests[calm] /\ u = Cardinality(Requested) + 1
    /\ v > FirstVersion
    /\ spec' = [spec EXCEPT ![u] = v]
    /\ phase' = [phase EXCEPT ![u] = "new"]
    /\ seen' = [seen EXCEPT ![u] = "new"]
    /\ queue' = queue \cup {u}
    /\ UNCHANGED <<job, from, deployed, manager, launching, calm, upsets, ghosts>>

\* The watch delivers what was written, and a pass comes for it.
CacheSync(u) ==
    /\ ~calm /\ seen[u] # phase[u]
    /\ seen' = [seen EXCEPT ![u] = phase[u]]
    /\ queue' = queue \cup {u}
    /\ UNCHANGED <<spec, phase, job, from, deployed, manager, launching, calm, upsets, ghosts>>

\* A new leader: of the version deployed, with a fresh cache and a full queue.
NewLeader ==
    /\ manager' = deployed
    /\ launching' = None
    /\ seen' = IF calm THEN seen ELSE phase
    /\ queue' = Requested
    /\ UNCHANGED <<spec, phase, job, from, deployed, calm, ghosts>>

\* The rollout of another version replaces the manager.
ManagerReplaced ==
    /\ manager # deployed
    /\ calm => launching = None
    /\ NewLeader /\ UNCHANGED upsets

ManagerRestarts ==
    /\ manager = deployed
    /\ calm => launching = None
    /\ NewLeader /\ Upset

\* A Job moves, and the watch has a pass come for its update.
JobMoves(u, state) ==
    /\ job' = [job EXCEPT ![u] = state]
    /\ queue' = queue \cup {u}
    /\ UNCHANGED <<spec, phase, seen, manager, launching, calm, starts>>

HelmStarts(u) ==
    /\ job[u] = "created" /\ JobMoves(u, "helm")
    /\ from' = [from EXCEPT ![u] = deployed]
    /\ UNCHANGED <<deployed, upsets, finished, unread>>

HelmApplies(u) ==
    /\ job[u] = "helm" /\ JobMoves(u, "applied")
    /\ deployed' = spec[u]
    /\ UNCHANGED <<from, upsets, finished, unread>>

\* --wait: the workloads came up, the new manager among them.
HelmSucceeds(u) ==
    /\ job[u] = "applied" /\ JobMoves(u, "complete")
    /\ calm => manager = deployed
    /\ finished' = finished \cup {u}
    /\ UNCHANGED <<from, deployed, upsets, unread>>

\* --atomic: what was applied is taken back.
HelmFails(u) ==
    /\ job[u] \in {"created", "helm", "applied"} /\ JobMoves(u, "failed")
    /\ deployed' = IF job[u] = "applied" THEN from[u] ELSE deployed
    /\ UNCHANGED <<from, upsets, finished, unread>>

\* An hour after it finished the Job goes, read or not.  The cache does not trail
\* by as much, nor does a pass take that long.
JobReaped(u) ==
    /\ job[u] \in {"complete", "failed"}
    /\ Current(u) /\ launching # u
    /\ JobMoves(u, "absent")
    /\ IF phase[u] \in Verdict THEN UNCHANGED <<upsets, unread>>
       ELSE ~calm /\ Upset /\ unread' = unread \cup {u}
    /\ UNCHANGED <<from, deployed, finished>>

-----------------------------------------------------------------------------
Init ==
    /\ spec = [u \in Update |-> FirstVersion]
    /\ phase = [u \in Update |-> "absent"]
    /\ seen = phase
    /\ job = [u \in Update |-> "absent"]
    /\ from = [u \in Update |-> FirstVersion]
    /\ deployed = FirstVersion /\ manager = FirstVersion
    /\ launching = None
    /\ queue = {}
    /\ calm \in Calm
    /\ upsets = 0
    /\ starts = [u \in Update |-> 0]
    /\ finished = {} /\ unread = {}

PassOf(u) ==
    \/ SkipFinished(u) \/ Refuse(u) \/ Report(u)
    \/ AwaitOther(u) \/ AwaitUnsaid(u) \/ Launch(u) \/ Poll(u)

HelmEnds(u) == HelmSucceeds(u) \/ HelmFails(u)

Next ==
    \/ WriteRunning
    \/ \E u \in Update : PassOf(u)
    \/ \E u \in Update, v \in Version : Request(u, v)
    \/ \E u \in Update : CacheSync(u) \/ HelmStarts(u) \/ HelmApplies(u)
    \/ \E u \in Update : HelmEnds(u) \/ JobReaped(u)
    \/ ManagerReplaced \/ ManagerRestarts

(***************************************************************************)
(* The work queue serves every update in it, the cache catches up, a       *)
(* rollout replaces the manager, and helm ends: by itself or at the Job's  *)
(* deadline.                                                               *)
(***************************************************************************)
Fairness ==
    /\ WF_vars(WriteRunning) /\ WF_vars(ManagerReplaced)
    /\ \A u \in Update : WF_vars(PassOf(u)) /\ WF_vars(CacheSync(u)) /\ WF_vars(HelmEnds(u))

Spec == Init /\ [][Next]_vars /\ Fairness

-----------------------------------------------------------------------------
(***************************************************************************)
(* Properties                                                              *)
(***************************************************************************)
Phase == {"absent", "new", "Pending", "Running", "Succeeded", "Failed"}

\* The types of the variables.
TypeOK ==
    /\ spec \in [Update -> Version] /\ from \in [Update -> Version]
    /\ phase \in [Update -> Phase] /\ seen \in [Update -> Phase]
    /\ job \in [Update -> {"absent", "created", "helm", "applied", "complete", "failed"}]
    /\ deployed \in Version /\ manager \in Version
    /\ launching \in Update \cup {None} /\ queue \subseteq Update
    /\ calm \in BOOLEAN /\ upsets \in 0..MaxUpsets
    /\ starts \in [Update -> Nat] /\ finished \subseteq Update /\ unread \subseteq Update

\* A verdict is helm's: an update succeeded if helm completed it, and one whose
\* Job was there to be read failed if helm did not (Reconcile's switch over
\* jobOutcome, run by whichever manager is there).
VerdictsAreHelms ==
    \A u \in Update :
        /\ phase[u] = "Succeeded" => u \in finished
        /\ phase[u] = "Failed" /\ u \notin unread => u \notin finished

\* An update has one Job, through restarts at any point and after its verdict,
\* unless the Job was gone before any manager had read it; and while every write
\* lands and is seen, no two helms write the release at once (selfUpdateJobName,
\* isUpdateTerminal, gateConcurrentUpdates).
OneHelmAtATime ==
    /\ \A u \in Update : u \notin unread => starts[u] <= 1
    /\ calm => Cardinality({u \in Update : InHelm(job[u])}) <= 1

\* What succeeded stays: the platform is never taken below a version that an
\* upgrade ended on, by a later request, a queued one or a rollback (preflight).
SuccessStays ==
    calm => \A u \in Update : phase[u] = "Succeeded" => deployed >= spec[u]

\* Every update that was asked for concludes, helm and managers ending as they
\* may, unless its turn to wait could not be written down (gateConcurrentUpdates
\* drops that error, and nothing brings the update back).
Forgotten(u) == phase[u] = "new" /\ u \notin queue
Concludes == []<>(\A u \in Requested : phase[u] \in Verdict \/ Forgotten(u))
=============================================================================
